---------------------------- MODULE DemoProofs -----------------------------
(***************************************************************************)
(* Proofs about DemoApp, for any traffic and any depth of the FIFO.        *)
(*                                                                         *)
(* The argument: where the main thread is in its boot sequence says what   *)
(* the driver's state and the filters are (Booted), so every call is made  *)
(* in a state that allows it, and the peripheral runs only behind all of   *)
(* its filters.                                                            *)
(***************************************************************************)
EXTENDS DemoApp, SequenceTheorems, TLAPS

Configured == slots[0] = Unicast /\ slots[1] = Broadcast

Booted ==
  /\ pc \in {"system", "fdcan1", "fdcan2"} => halState = "RESET"
  /\ pc \in {"timers", "fdcan3", "devices", "filter0", "filter1", "global", "start"}
       => halState = "READY"
  /\ pc \in {"filter1", "global", "start"} => slots[0] = Unicast
  /\ pc \in {"global", "start"} => slots[1] = Broadcast
  /\ pc = "start" => reject
  /\ halState = "BUSY" => Configured /\ reject
  /\ pc = "halt" => hwFault

IInv == TypeOK /\ Booted

(* The boot sequence, call by call.                                        *)
LEMMA AfterCall ==
  /\ After("system") = "fdcan1" /\ After("fdcan1") = "fdcan2"
  /\ After("fdcan2") = "timers" /\ After("timers") = "fdcan3"
  /\ After("fdcan3") = "devices" /\ After("devices") = "filter0"
  /\ After("filter0") = "filter1" /\ After("filter1") = "global"
  /\ After("global") = "start" /\ After("start") = "poll"
<1>1. /\ BootOrder[1] = "system" /\ BootOrder[2] = "fdcan1" /\ BootOrder[3] = "fdcan2"
      /\ BootOrder[4] = "timers" /\ BootOrder[5] = "fdcan3" /\ BootOrder[6] = "devices"
      /\ BootOrder[7] = "filter0" /\ BootOrder[8] = "filter1" /\ BootOrder[9] = "global"
      /\ BootOrder[10] = "start" /\ BootOrder[11] = "poll"
  BY DEF BootOrder
<1>2. \A i \in 2 .. 11 : i \in {2, 3, 4, 5, 6, 7, 8, 9, 10, 11}
  OBVIOUS
<1>a. (CHOOSE i \in 2 .. 11 : BootOrder[i - 1] = "system") = 2
  BY <1>1, <1>2
<1>b. (CHOOSE i \in 2 .. 11 : BootOrder[i - 1] = "fdcan1") = 3
  BY <1>1, <1>2
<1>c. (CHOOSE i \in 2 .. 11 : BootOrder[i - 1] = "fdcan2") = 4
  BY <1>1, <1>2
<1>d. (CHOOSE i \in 2 .. 11 : BootOrder[i - 1] = "timers") = 5
  BY <1>1, <1>2
<1>e. (CHOOSE i \in 2 .. 11 : BootOrder[i - 1] = "fdcan3") = 6
  BY <1>1, <1>2
<1>f. (CHOOSE i \in 2 .. 11 : BootOrder[i - 1] = "devices") = 7
  BY <1>1, <1>2
<1>g. (CHOOSE i \in 2 .. 11 : BootOrder[i - 1] = "filter0") = 8
  BY <1>1, <1>2
<1>h. (CHOOSE i \in 2 .. 11 : BootOrder[i - 1] = "filter1") = 9
  BY <1>1, <1>2
<1>i. (CHOOSE i \in 2 .. 11 : BootOrder[i - 1] = "global") = 10
  BY <1>1, <1>2
<1>j. (CHOOSE i \in 2 .. 11 : BootOrder[i - 1] = "start") = 11
  BY <1>1, <1>2
<1> QED
  BY <1>1, <1>a, <1>b, <1>c, <1>d, <1>e, <1>f, <1>g, <1>h, <1>i, <1>j DEF After

(* The buffer holds bytes, whatever the length of the frame copied into it. *)
LEMMA CopyType ==
  ASSUME NEW f \in Frames, NEW buffer \in [1..3 -> 0..255]
  PROVE  CopyInto(buffer, f.bytes) \in [1..3 -> 0..255]
<1>1. f.bytes \in Seq(0..255)
  BY FrameAssumption
<1>2. ASSUME NEW i \in 1..3, i <= Len(f.bytes) PROVE f.bytes[i] \in 0..255
  <2> DEFINE b == f.bytes
  <2>1. b \in Seq(0..255) /\ i \in 1..Len(b)
    BY <1>1, <1>2, LenProperties
  <2> HIDE DEF b
  <2>2. b[i] \in 0..255
    BY <2>1, ElementOfSeq
  <2> QED
    BY <2>2 DEF b
<1> QED
  BY <1>2 DEF CopyInto

(* A reset or a power cycle, from any state, restores the invariant.       *)
LEMMA RestartOK ==
  ASSUME NEW toBootloader \in BOOLEAN, Restart(toBootloader)
  PROVE  IInv'
<1>1. rxData' \in [1..3 -> 0..255]
  BY FrameAssumption DEF Restart
<1>2. fifo' \in Seq(Frames) /\ Len(fifo') <= FifoDepth
  BY FifoAssumption DEF Restart
<1>3. slots' \in [{0, 1} -> {NoFilter, Unicast, Broadcast}]
  BY DEF Restart, Disabled
<1>4. TypeOK'
  BY <1>1, <1>2, <1>3 DEF Restart, TypeOK, Calls
<1>5. Booted'
  BY DEF Restart, Booted
<1> QED
  BY <1>4, <1>5 DEF IInv

LEMMA InitInv == Init => IInv
<1> SUFFICES ASSUME Init PROVE IInv
  OBVIOUS
<1>1. fifo \in Seq(Frames) /\ Len(fifo) <= FifoDepth
  BY FifoAssumption DEF Init
<1>2. slots \in [{0, 1} -> {NoFilter, Unicast, Broadcast}]
  BY DEF Init, Disabled
<1>3. TypeOK
  BY <1>1, <1>2, FrameAssumption DEF Init, TypeOK, Calls
<1>4. Booted
  BY DEF Init, Booted
<1> QED
  BY <1>3, <1>4 DEF IInv

(* The boot sequence: each call finds the driver in the state it needs and *)
(* leaves it in the state the next one needs.                              *)
LEMMA BootStep ==
  ASSUME IInv,
         \/ \E call \in {"system", "timers", "devices"} : PeripheralInit(call)
         \/ \E call \in {"fdcan1", "fdcan2", "fdcan3"} : FdcanInit(call)
         \/ Filter0 \/ Filter1 \/ GlobalFilter \/ Start
  PROVE  IInv'
<1>a. ASSUME NEW call \in {"system", "timers", "devices"}, PeripheralInit(call)
      PROVE  IInv'
  <2>1. PICK ok \in BOOLEAN : Checked(ok) /\ hwFault' = (hwFault \/ ~ok)
    BY <1>a DEF PeripheralInit
  <2>2. /\ pc = call /\ UNCHANGED <<halState, slots, reject, fifo, rxData, ack, magic>>
    BY <1>a DEF PeripheralInit, fdcan
  <2>3. /\ ok => \/ pc = "system" /\ pc' = "fdcan1"
                 \/ pc = "timers" /\ pc' = "fdcan3"
                 \/ pc = "devices" /\ pc' = "filter0"
        /\ ~ok => pc' = "halt" /\ hwFault'
    BY <2>1, <2>2, AfterCall DEF Checked
  <2>4. TypeOK'
    BY <2>1, <2>2, <2>3 DEF IInv, TypeOK, Calls
  <2>5. Booted'
    BY <2>2, <2>3 DEF IInv, Booted, Configured
  <2> QED
    BY <2>4, <2>5 DEF IInv
<1>1. ASSUME NEW call \in {"fdcan1", "fdcan2", "fdcan3"}, FdcanInit(call)
      PROVE  IInv'
  <2>1. PICK ok \in BOOLEAN :
          /\ Checked(ok) /\ hwFault' = (hwFault \/ ~ok)
          /\ slots' = IF ok THEN Disabled ELSE slots
          /\ halState' = IF call # "fdcan2" THEN halState
                         ELSE IF ok THEN "READY" ELSE "ERROR"
    BY <1>1 DEF FdcanInit
  <2>2. pc = call /\ UNCHANGED <<reject, fifo, rxData, ack, magic>>
    BY <1>1 DEF FdcanInit
  <2>3. /\ ok => \/ pc = "fdcan1" /\ pc' = "fdcan2" /\ halState' = "RESET"
                 \/ pc = "fdcan2" /\ pc' = "timers" /\ halState' = "READY"
                 \/ pc = "fdcan3" /\ pc' = "devices" /\ halState' = "READY"
        /\ ~ok => pc' = "halt" /\ hwFault' /\ halState' \in {"RESET", "READY", "ERROR"}
    BY <2>1, <2>2, AfterCall DEF Checked, IInv, Booted
  <2>4. slots' \in [{0, 1} -> {NoFilter, Unicast, Broadcast}]
    BY <2>1 DEF IInv, TypeOK, Disabled
  <2>5. TypeOK'
    BY <2>1, <2>2, <2>3, <2>4 DEF IInv, TypeOK, Calls
  <2>6. Booted'
    BY <2>3 DEF Booted
  <2> QED
    BY <2>5, <2>6 DEF IInv
<1>2. CASE Filter0
  <2>1. pc = "filter0" /\ halState = "READY"
    BY <1>2 DEF IInv, Booted, Filter0, ConfigFilter
  <2>2. pc' = "filter1" /\ slots' = [slots EXCEPT ![0] = Unicast]
    BY <1>2, <2>1, AfterCall DEF Filter0, ConfigFilter, Checked
  <2>3. slots' \in [{0, 1} -> {NoFilter, Unicast, Broadcast}] /\ slots'[0] = Unicast
    BY <2>2 DEF IInv, TypeOK
  <2> QED
    BY <1>2, <2>1, <2>2, <2>3 DEF IInv, TypeOK, Calls, Booted, Filter0, ConfigFilter
<1>3. CASE Filter1
  <2>1. pc = "filter1" /\ halState = "READY" /\ slots[0] = Unicast
    BY <1>3 DEF IInv, Booted, Filter1, ConfigFilter
  <2>2. pc' = "global" /\ slots' = [slots EXCEPT ![1] = Broadcast]
    BY <1>3, <2>1, AfterCall DEF Filter1, ConfigFilter, Checked
  <2>3. /\ slots' \in [{0, 1} -> {NoFilter, Unicast, Broadcast}]
        /\ slots'[0] = Unicast /\ slots'[1] = Broadcast
    BY <2>1, <2>2 DEF IInv, TypeOK
  <2> QED
    BY <1>3, <2>1, <2>2, <2>3 DEF IInv, TypeOK, Calls, Booted, Filter1, ConfigFilter
<1>4. CASE GlobalFilter
  <2>1. pc = "global" /\ halState = "READY" /\ Configured
    BY <1>4 DEF IInv, Booted, Configured, GlobalFilter
  <2>2. pc' = "start" /\ reject'
    BY <1>4, <2>1, AfterCall DEF GlobalFilter, Checked, IInv, TypeOK
  <2> QED
    BY <1>4, <2>1, <2>2 DEF IInv, TypeOK, Calls, Booted, Configured, GlobalFilter
<1>5. CASE Start
  <2>1. pc = "start" /\ halState = "READY" /\ Configured /\ reject
    BY <1>5 DEF IInv, Booted, Configured, Start
  <2>2. pc' = "poll" /\ halState' = "BUSY"
    BY <1>5, <2>1, AfterCall DEF Start, Checked
  <2> QED
    BY <1>5, <2>1, <2>2 DEF IInv, TypeOK, Calls, Booted, Configured, Start
<1> QED
  BY <1>a, <1>1, <1>2, <1>3, <1>4, <1>5

(* A frame that is queued keeps the FIFO within its depth.                 *)
LEMMA ReceiveStep ==
  ASSUME IInv, NEW f \in Frames, Receive(f)
  PROVE  IInv'
<1>1. fifo \in Seq(Frames) /\ fifo' = Append(fifo, f) /\ Len(fifo) < FifoDepth
  BY DEF Receive, IInv, TypeOK
<1>2. /\ fifo' \in Seq(Frames) /\ Len(fifo') = Len(fifo) + 1
      /\ \A i \in 1..Len(fifo) : fifo'[i] = fifo[i]
      /\ fifo'[Len(fifo) + 1] = f
  BY <1>1, AppendProperties
<1>3. TypeOK'
  BY <1>1, <1>2, FifoAssumption DEF Receive, IInv, TypeOK, fdcan
<1>4. Booted'
  BY DEF Receive, IInv, Booted, Configured, fdcan
<1> QED
  BY <1>3, <1>4 DEF IInv

(* The main loop takes the oldest frame.                                   *)
LEMMA PollStep ==
  ASSUME IInv, Poll
  PROVE  IInv'
<1> DEFINE f == Head(fifo)
           data == CopyInto(rxData, f.bytes)
<1>1. fifo \in Seq(Frames) /\ fifo # <<>> /\ rxData \in [1..3 -> 0..255]
  BY EmptySeq DEF Poll, HasFrame, IInv, TypeOK
<1>2. f \in Frames /\ f = fifo[1] /\ 1 \in DOMAIN fifo
  BY <1>1, HeadTailProperties, LenProperties
<1>3. /\ fifo' \in Seq(Frames) /\ Len(fifo') = Len(fifo) - 1
      /\ \A i \in 1..Len(fifo') : fifo'[i] = fifo[i + 1]
  BY <1>1, HeadTailProperties DEF Poll
<1>4. data \in [1..3 -> 0..255] /\ rxData' = data
  BY <1>1, <1>2, CopyType DEF Poll
<1>5. Len(fifo') <= FifoDepth
  BY <1>1, <1>3, FifoAssumption, LenProperties DEF IInv, TypeOK
<1>6. pc' \in {"drain", "delay"} /\ ack' \in {None, "queued", "sent", "lost"}
  BY DEF Poll, SendCtrlAck, IInv, TypeOK
<1>7. TypeOK'
  <2>1. UNCHANGED <<halState, slots, reject, magic, hwFault>>
    BY DEF Poll, fdcan
  <2>2. pc' \in Calls /\ rxData' \in [1..3 -> 0..255]
    BY <1>4, <1>6 DEF Calls
  <2> QED
    BY <2>1, <2>2, <1>3, <1>5, <1>6 DEF IInv, TypeOK
<1>8. Booted'
  BY <1>6 DEF Poll, IInv, Booted, Configured, fdcan
<1> QED
  BY <1>7, <1>8 DEF IInv

LEMMA StepInv == IInv /\ [Next]_vars => IInv'
<1> SUFFICES ASSUME IInv, [Next]_vars PROVE IInv'
  OBVIOUS
<1>1. CASE \/ System \/ Fdcan1 \/ Fdcan2 \/ Timers \/ Fdcan3 \/ Devices
           \/ Filter0 \/ Filter1 \/ GlobalFilter \/ Start
  BY <1>1, BootStep DEF System, Fdcan1, Fdcan2, Timers, Fdcan3, Devices
<1>2. CASE Poll
  BY <1>2, PollStep
<1>3. CASE PollEmpty \/ Delay
  <2>1. /\ pc \in {"poll", "delay"} /\ pc' \in {"poll", "delay"}
        /\ UNCHANGED <<halState, slots, reject, fifo, rxData, ack, magic, hwFault>>
    BY <1>3 DEF PollEmpty, Delay, fdcan
  <2>2. TypeOK'
    BY <2>1 DEF IInv, TypeOK, Calls
  <2>3. Booted'
    BY <2>1 DEF IInv, Booted, Configured
  <2> QED
    BY <2>2, <2>3 DEF IInv
<1>4. CASE RequestBootloader
  BY <1>4 DEF RequestBootloader, IInv, TypeOK, Calls, Booted, Configured, fdcan
<1>5. CASE SystemReset
  BY <1>5, RestartOK DEF SystemReset, IInv, TypeOK
<1>6. CASE Transmit
  BY <1>6 DEF Transmit, IInv, TypeOK, Booted, Configured, fdcan
<1>7. CASE PowerCycle
  <2>1. PICK kept \in {magic, FALSE} : Restart(kept)
    BY <1>7 DEF PowerCycle
  <2> QED
    BY <2>1, RestartOK DEF IInv, TypeOK
<1>8. CASE Jump
  BY <1>8, RestartOK DEF Jump
<1>9. ASSUME NEW f \in Frames, Receive(f) PROVE IInv'
  BY <1>9, ReceiveStep
<1>10. CASE UNCHANGED vars
  BY <1>10 DEF vars, fdcan, IInv, TypeOK, Booted, Configured
<1> QED
  BY <1>1, <1>2, <1>3, <1>4, <1>5, <1>6, <1>7, <1>8, <1>9, <1>10 DEF Next, MainThread

LEMMA Invariance == Spec => []IInv
  BY InitInv, StepInv, PTL DEF Spec

(* Registers, filters, FIFO and buffer keep their types, and the FIFO its  *)
(* depth, whatever is on the bus.                                          *)
THEOREM DemoTypeCorrect == Spec => []TypeOK
<1>1. IInv => TypeOK
  BY DEF IInv
<1> QED
  BY <1>1, Invariance, PTL

(* The peripheral never runs with other filters than those of main().      *)
THEOREM FiltersFirst == Spec => []FiltersBeforeTraffic
<1>1. IInv => FiltersBeforeTraffic
  <2> SUFFICES ASSUME IInv, halState = "BUSY", NEW f \in Frames
               PROVE  Accepted(f) <=> ~f.ext /\ f.id % MaskSpan \in {Unicast, Broadcast}
    BY DEF FiltersBeforeTraffic
  <2>1. reject /\ DOMAIN slots = {0, 1} /\ slots[0] = Unicast /\ slots[1] = Broadcast
    BY DEF IInv, TypeOK, Booted, Configured
  <2> QED
    BY <2>1 DEF Accepted, Matches
<1> QED
  BY <1>1, Invariance, PTL

(* The driver never refuses a call of the boot sequence: Error_Handler is  *)
(* the answer to a fault of the peripheral only.                           *)
THEOREM HaltsOnFaultOnly == Spec => []HaltOnlyOnFault
<1>1. IInv => HaltOnlyOnFault
  BY DEF IInv, Booted, HaltOnlyOnFault
<1> QED
  BY <1>1, Invariance, PTL

=============================================================================
