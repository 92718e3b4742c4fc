------------------------------ MODULE DemoApp ------------------------------
(***************************************************************************)
(* The demo firmware (demo/MAIN_IFS08_DEMO, Core/Src/main.c): the          *)
(* application side of the reboot handshake, on the FDCAN driver calls it  *)
(* makes.  The main thread configures the peripheral, then polls receive   *)
(* FIFO 0 once every 200 ms; the peripheral filters and queues frames by   *)
(* itself from the moment it is started until the board resets.            *)
(*                                                                         *)
(* A frame is its identifier, its format and the first three of the data   *)
(* bytes it carries: PCI, message type, opcode.  GetRxMessage copies only  *)
(* the bytes the frame has, into a buffer main() never initialises, so the *)
(* rest of the buffer is what an earlier frame, or the boot, left there.   *)
(***************************************************************************)
EXTENDS Integers, Sequences

CONSTANTS
  Frames,      \* the frames others put on the bus: [id, ext, bytes]
  Junk,        \* what the receive buffer may hold when the application starts
  FifoDepth    \* RxFifo0ElmtsNbr

Unicast == 1       \* APP_FRAME_ID_RX_UNICAST
Broadcast == 15    \* APP_FRAME_ID_RX_BROADCAST
MaskSpan == 32     \* APP_PROTO_ID_MASK keeps the five low bits
AppCtrl == 6       \* APP_MSG_APP_CTRL
EnterBootloader == 1

ASSUME FifoAssumption == FifoDepth \in Nat \ {0}
ASSUME FrameAssumption ==
  /\ \A f \in Frames : /\ f.id \in Nat /\ f.ext \in BOOLEAN
                       /\ f.bytes \in Seq(0..255) /\ Len(f.bytes) <= 3
  /\ Junk \subseteq [1..3 -> 0..255] /\ Junk # {}

None == "none"

VARIABLES
  pc,        \* the call the main thread is about to make
  halState,  \* hfdcan2.State
  slots,     \* standard filter elements, in the message RAM the three FDCAN
             \* peripherals share: slot -> identifier, or NoFilter
  reject,    \* the global filter rejects frames that match no element
  fifo,      \* receive FIFO 0
  rxData,    \* the buffer of the main loop
  ack,       \* the reply in the transmit FIFO
  magic,     \* RTC->BKP0R holds BOOT_REQ_MAGIC
  hwFault    \* history: a peripheral did not answer its initialisation in time

fdcan == <<halState, slots, reject>>
vars == <<pc, fdcan, fifo, rxData, ack, magic, hwFault>>

NoFilter == -1
Disabled == [s \in {0, 1} |-> NoFilter]

Init ==
  /\ pc = "system" /\ halState = "RESET" /\ slots = Disabled /\ reject = FALSE
  /\ fifo = <<>> /\ rxData \in Junk /\ ack = None
  /\ magic = FALSE /\ hwFault = FALSE

------------------------------------------------------------------------------
(* The boot sequence of main().                                              *)

(* Mutant: FDCAN3 is initialised behind the filters of FDCAN2.               *)
Fdcan3Last ==
  <<"system", "fdcan1", "fdcan2", "timers", "devices",
    "filter0", "filter1", "global", "fdcan3", "start", "poll">>

\* "system": HAL_Init, SystemClock_Config; "timers": TIM1, TIM16; "devices": ADC3, USART10, SPI1, I2C2 and USB.
BootOrder ==
  <<"system", "fdcan1", "fdcan2", "timers", "fdcan3", "devices",
    "filter0", "filter1", "global", "start", "poll">>

After(call) == BootOrder[CHOOSE i \in 2..11 : BootOrder[i - 1] = call]

\* HAL_OK goes on to the next call, anything else to Error_Handler.
Checked(ok) == pc' = IF ok THEN After(pc) ELSE "halt"

\* The initialisation of what the demo never uses ends, or it does not in time.
PeripheralInit(call) ==
  /\ pc = call
  /\ \E ok \in BOOLEAN : Checked(ok) /\ hwFault' = (hwFault \/ ~ok)
  /\ UNCHANGED <<fdcan, fifo, rxData, ack, magic>>

\* HAL_FDCAN_Init.  Each MX_FDCANx_Init passes MessageRAMOffset 0, so the flush of
\* the RAM it allots takes the filter elements of the others with it.
FdcanInit(call) ==
  /\ pc = call
  /\ \E ok \in BOOLEAN :
       /\ Checked(ok) /\ hwFault' = (hwFault \/ ~ok)
       /\ slots' = IF ok THEN Disabled ELSE slots
       /\ halState' = IF call # "fdcan2" THEN halState
                      ELSE IF ok THEN "READY" ELSE "ERROR"
  /\ UNCHANGED <<reject, fifo, rxData, ack, magic>>

System == PeripheralInit("system")
Fdcan1 == FdcanInit("fdcan1")
Fdcan2 == FdcanInit("fdcan2")
Timers == PeripheralInit("timers")
Fdcan3 == FdcanInit("fdcan3")
Devices == PeripheralInit("devices")

\* HAL_FDCAN_ConfigFilter
ConfigFilter(call, slot, id) ==
  /\ pc = call
  /\ Checked(halState \in {"READY", "BUSY"})
  /\ slots' = IF halState \in {"READY", "BUSY"} THEN [slots EXCEPT ![slot] = id] ELSE slots
  /\ UNCHANGED <<halState, reject, fifo, rxData, ack, magic, hwFault>>

Filter0 == ConfigFilter("filter0", 0, Unicast)

Filter1 == ConfigFilter("filter1", 1, Broadcast)

\* HAL_FDCAN_ConfigGlobalFilter refuses a peripheral that is already started.
GlobalFilter ==
  /\ pc = "global"
  /\ Checked(halState = "READY")
  /\ reject' = (reject \/ halState = "READY")
  /\ UNCHANGED <<halState, slots, fifo, rxData, ack, magic, hwFault>>

Start ==
  /\ pc = "start"
  /\ Checked(halState = "READY")
  /\ halState' = IF halState = "READY" THEN "BUSY" ELSE halState
  /\ UNCHANGED <<slots, reject, fifo, rxData, ack, magic, hwFault>>

------------------------------------------------------------------------------
(* The peripheral, beside the main thread.                                   *)

Matches(f) == ~f.ext /\ \E s \in DOMAIN slots : f.id % MaskSpan = slots[s]

Accepted(f) == Matches(f) \/ ~reject

IsRequest(bytes) ==
  /\ Len(bytes) = 3
  /\ bytes[1] \in 2..15 /\ bytes[2] = AppCtrl /\ bytes[3] = EnterBootloader

\* A frame on the bus; one that finds the FIFO full is lost.
Receive(f) ==
  /\ halState = "BUSY" /\ Accepted(f) /\ Len(fifo) < FifoDepth
  /\ fifo' = Append(fifo, f)
  /\ UNCHANGED <<pc, fdcan, rxData, ack, magic, hwFault>>

\* The reply goes out, or loses the one attempt AutoRetransmission = DISABLE gives.
Transmit ==
  /\ ack = "queued" /\ ack' \in {"sent", "lost"}
  /\ UNCHANGED <<pc, fdcan, fifo, rxData, magic, hwFault>>

------------------------------------------------------------------------------
(* The main loop.                                                            *)

\* HAL_FDCAN_GetRxMessage copies the bytes the frame has.
CopyInto(buffer, bytes) ==
  [i \in 1..3 |-> IF i <= Len(bytes) THEN bytes[i] ELSE buffer[i]]

\* APP_HandleCanFrame: a single frame, its type and opcode.  It is given the buffer
\* and the header, and looks at the length the PCI claims, not at the one received.
Enters(f, data) ==
  /\ ~f.ext /\ data[1] \div 16 = 0 /\ data[1] % 16 >= 2
  /\ data[2] = AppCtrl /\ data[3] = EnterBootloader

(* Mutant: the last frame of the FIFO is left there.                         *)
HasFrameLeavingOne == Len(fifo) > 1

\* HAL_FDCAN_GetRxFifoFillLevel > 0
HasFrame == Len(fifo) > 0

\* HAL_FDCAN_AddMessageToTxFifoQ, whose result APP_SendCtrlAck does not look at.
SendCtrlAck == ack' = IF halState = "BUSY" THEN "queued" ELSE ack

Poll ==
  /\ pc = "poll" /\ HasFrame
  /\ LET f == Head(fifo)  data == CopyInto(rxData, f.bytes) IN
       /\ rxData' = data
       /\ \/ Enters(f, data) /\ pc' = "drain" /\ SendCtrlAck
          \/ ~Enters(f, data) /\ pc' = "delay" /\ ack' = ack
  /\ fifo' = Tail(fifo)
  /\ UNCHANGED <<fdcan, magic, hwFault>>

PollEmpty ==
  /\ pc = "poll" /\ ~HasFrame
  /\ pc' = "delay"
  /\ UNCHANGED <<fdcan, fifo, rxData, ack, magic, hwFault>>

\* HAL_Delay(200)
Delay ==
  /\ pc = "delay" /\ pc' = "poll"
  /\ UNCHANGED <<fdcan, fifo, rxData, ack, magic, hwFault>>

\* HAL_Delay(10), enough for the one attempt on a bus that works, is not a wait
\* for it; then RequestBootloaderAndReset.
RequestBootloader ==
  /\ pc = "drain"
  /\ magic' = TRUE /\ pc' = "reset"
  /\ UNCHANGED <<fdcan, fifo, rxData, ack, hwFault>>

------------------------------------------------------------------------------
(* Resets, and the bootloader that runs after them (not in this repository). *)

Restart(toBootloader) ==
  /\ pc' = IF toBootloader THEN "boot" ELSE "system"
  /\ halState' = "RESET" /\ slots' = Disabled /\ reject' = FALSE
  /\ fifo' = <<>> /\ ack' = None /\ magic' = FALSE /\ hwFault' = FALSE
  /\ rxData' \in Junk

SystemReset == pc = "reset" /\ Restart(magic)

\* The backup register may or may not keep its value without power.
PowerCycle == \E kept \in {magic, FALSE} : Restart(kept)

Jump == pc = "boot" /\ Restart(FALSE)

MainThread ==
  \/ System \/ Fdcan1 \/ Fdcan2 \/ Timers \/ Fdcan3 \/ Devices
  \/ Filter0 \/ Filter1 \/ GlobalFilter \/ Start
  \/ Poll \/ PollEmpty \/ Delay \/ RequestBootloader \/ SystemReset

Next ==
  \/ MainThread \/ Transmit \/ PowerCycle \/ Jump
  \/ \E f \in Frames : Receive(f)

Spec == Init /\ [][Next]_vars

\* The processor runs.
LiveSpec == Spec /\ WF_vars(MainThread)

------------------------------------------------------------------------------
(* Properties.                                                               *)

Calls == {"system", "fdcan1", "fdcan2", "timers", "fdcan3", "devices",
          "filter0", "filter1", "global", "start",
          "poll", "delay", "drain", "reset", "boot", "halt"}

(* The state has the types of the program's variables and registers.         *)
TypeOK ==
  /\ pc \in Calls
  /\ halState \in {"RESET", "READY", "BUSY", "ERROR"}
  /\ slots \in [{0, 1} -> {NoFilter, Unicast, Broadcast}]
  /\ reject \in BOOLEAN
  /\ fifo \in Seq(Frames) /\ Len(fifo) <= FifoDepth
  /\ rxData \in [1..3 -> 0..255]
  /\ ack \in {None, "queued", "sent", "lost"}
  /\ magic \in BOOLEAN /\ hwFault \in BOOLEAN

(* Whenever the peripheral takes frames from the bus its filters are the     *)
(* ones main() meant: it passes exactly the standard frames whose low five   *)
(* bits are this node or the broadcast address (main.c:166-200).             *)
FiltersBeforeTraffic ==
  halState = "BUSY" => \A f \in Frames :
    Accepted(f) <=> ~f.ext /\ f.id % MaskSpan \in {Unicast, Broadcast}

(* Error_Handler is reached only when a peripheral itself fails: no call     *)
(* of the boot sequence is made in a state the driver refuses it in.         *)
HaltOnlyOnFault == pc = "halt" => hwFault

(* A request that is in the FIFO gets the board into its bootloader, unless  *)
(* power is lost first; what else is queued before it only delays it.        *)
RequestServed ==
  (\E i \in DOMAIN fifo : IsRequest(fifo[i].bytes)) ~> pc \in {"boot", "system"}

==============================================================================
