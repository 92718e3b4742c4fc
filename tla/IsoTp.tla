------------------------------- MODULE IsoTp -------------------------------
(***************************************************************************)
(* ISO-TP framing (src/protocol/isotp.rs): the segmenter, the reassembler  *)
(* and a bus in between that may lose, truncate or repeat frames.  A bus   *)
(* keeps the order of the frames of one source, so a frame that is not     *)
(* lost is fed to the reassembler in the step that emits it; a controller  *)
(* that sees an error at the very end of a frame its receivers have taken  *)
(* sends that frame once more before the next.                             *)
(*                                                                         *)
(* The j-th byte of the m-th message is <<m, j>>: bytes of two messages    *)
(* never compare equal.  The sizes of the protocol are constants, so that  *)
(* the wrap of the sequence number and the limits are met by short         *)
(* messages.                                                               *)
(***************************************************************************)
EXTENDS Integers, Sequences

CONSTANTS
    SfMax,      \* SF_MAX_PAYLOAD (7)
    FfInitial,  \* FF_INITIAL_PAYLOAD (6)
    CfPayload,  \* CF_PAYLOAD (7)
    SeqMod,     \* the sequence number counts modulo this (16)
    MaxMsg,     \* MAX_MSG_LEN (1024)
    TimeoutMs,  \* Reassembler::timeout_ms
    TickModes,  \* whether the event loop calls Reassembler::tick: FALSE in
                \* rx_task of the session, TRUE in the contract of the type
    Lengths,    \* lengths of the messages offered to the segmenter
    MaxMsgs,    \* bound: messages sent
    MaxTime,    \* bound: the clock
    MaxFaults   \* bound: frames lost, truncated, repeated or foreign

ASSUME IsoTpAssumption ==
    /\ SfMax \in Nat \ {0} /\ FfInitial \in 1 .. SfMax
    /\ CfPayload \in Nat \ {0} /\ SeqMod \in Nat \ {0, 1}
    /\ MaxMsg \in Nat /\ SfMax < MaxMsg
    /\ TimeoutMs \in Nat /\ TickModes \subseteq BOOLEAN
    /\ Lengths \subseteq Nat
    /\ MaxMsgs \in Nat /\ MaxTime \in Nat /\ MaxFaults \in Nat

VARIABLES
    ticked,     \* the event loop of this run ticks
    msgs,       \* the messages given to a segmenter, the last one in progress
    offset, nextSeq, emittedFirst,      \* IsoTpSegmenter
    last,       \* the frame emitted last
    intact,     \* no fault hit a frame of the current message
    state, buffer, totalLen, expectedSeq, lastRx,    \* Reassembler
    outcome,    \* result of the last feed or tick
    delivered,  \* the completed messages
    now, faults

segVars   == <<msgs, offset, nextSeq, emittedFirst, last>>
reasmVars == <<state, buffer, totalLen, expectedSeq, lastRx, outcome, delivered>>
vars == <<ticked, segVars, intact, reasmVars, now, faults>>

Min2(a, b) == IF a <= b THEN a ELSE b

Message(m, n) == [j \in 1 .. n |-> <<m, j>>]

Current == IF msgs = <<>> THEN <<>> ELSE msgs[Len(msgs)]

Init ==
    /\ ticked \in TickModes
    /\ msgs = <<>>
    /\ offset = 0 /\ nextSeq = 1 /\ emittedFirst = TRUE
    /\ last = [pci |-> "FC", arg |-> 0, data |-> <<>>, short |-> FALSE] /\ intact = TRUE
    /\ state = "Idle" /\ buffer = <<>> /\ totalLen = 0 /\ expectedSeq = 0 /\ lastRx = 0
    /\ outcome = "Ongoing" /\ delivered = <<>>
    /\ now = 0 /\ faults = 0

-----------------------------------------------------------------------------
(* IsoTpSegmenter.                                                         *)

SegmenterDone == emittedFirst /\ offset >= Len(Current)

(* IsoTpSegmenter::new; messages are segmented one after the other, which  *)
(* command_lock and the device's single TX path see to.                    *)
New(n) ==
    /\ SegmenterDone /\ Len(msgs) < MaxMsgs
    /\ n <= MaxMsg
    /\ msgs' = Append(msgs, Message(Len(msgs) + 1, n))
    /\ offset' = 0 /\ nextSeq' = 1 /\ emittedFirst' = FALSE
    /\ intact' = TRUE
    /\ UNCHANGED <<ticked, last, reasmVars, now, faults>>

(* A payload over MAX_MSG_LEN is refused before anything is sent.          *)
NewRefused(n) ==
    /\ SegmenterDone /\ n > MaxMsg
    /\ UNCHANGED vars

(* The frame that next() yields: its PCI, the length or sequence number in *)
(* the PCI, and its payload bytes.                                         *)
NextFrame ==
    LET n == Len(Current) IN
    CASE ~emittedFirst /\ n <= SfMax -> [pci |-> "SF", arg |-> n, data |-> Current]
      [] ~emittedFirst /\ n > SfMax  -> [pci |-> "FF", arg |-> n, data |-> SubSeq(Current, 1, FfInitial)]
      [] emittedFirst -> [pci |-> "CF", arg |-> nextSeq,
                          data |-> SubSeq(Current, offset + 1, Min2(n, offset + CfPayload))]

Frame(short) ==
    [pci |-> NextFrame.pci, arg |-> NextFrame.arg, data |-> NextFrame.data, short |-> short]

Advance ==
    /\ ~SegmenterDone
    /\ offset' = offset + Len(NextFrame.data)
    /\ nextSeq' = IF emittedFirst THEN (nextSeq + 1) % SeqMod ELSE nextSeq
    /\ emittedFirst' = TRUE /\ last' = Frame(FALSE)
    /\ UNCHANGED <<ticked, msgs>>

-----------------------------------------------------------------------------
(* Reassembler.                                                            *)

Reset == state' = "Idle" /\ buffer' = <<>> /\ totalLen' = 0 /\ expectedSeq' = 0

Keep == UNCHANGED <<state, buffer, totalLen, expectedSeq>>

(* A frame is padded to 8 bytes, so only a truncated one is short.         *)
FeedSf(f) ==
    IF f.short /\ f.arg > 0
    THEN /\ outcome' = "BadPci"
         /\ (IF state = "Idle" THEN Keep ELSE Reset)
         /\ UNCHANGED <<lastRx, delivered>>
    ELSE /\ delivered' = Append(delivered, f.data) /\ outcome' = "Complete"
         /\ lastRx' = now
         /\ (IF state = "Idle" THEN Keep ELSE Reset)

FeedFf(f) ==
    IF f.short
    THEN /\ outcome' = "BadPci"
         /\ (IF state = "Idle" THEN Keep ELSE Reset)
         /\ UNCHANGED <<lastRx, delivered>>
    ELSE /\ state' = "WaitCf" /\ buffer' = f.data
         /\ totalLen' = f.arg /\ expectedSeq' = 1
         /\ lastRx' = now /\ outcome' = "Ongoing" /\ UNCHANGED delivered

(* Mutant: the reassembler is not reset when a message is complete.        *)
FeedCfNoReset(f) ==
    LET got == buffer \o SubSeq(f.data, 1, Min2(totalLen - Len(buffer), Len(f.data))) IN
    IF f.arg # expectedSeq
    THEN Reset /\ outcome' = "BadSeq" /\ UNCHANGED <<lastRx, delivered>>
    ELSE /\ lastRx' = now
         /\ buffer' = got /\ expectedSeq' = (expectedSeq + 1) % SeqMod
         /\ IF Len(got) >= totalLen
            THEN delivered' = Append(delivered, got) /\ outcome' = "Complete"
            ELSE outcome' = "Ongoing" /\ UNCHANGED delivered
         /\ UNCHANGED <<state, totalLen>>

(* Pad: the zero bytes behind the last CF of a message, when its length    *)
(* and that of the message under reassembly differ.                        *)
Pad(f) == f.data \o [j \in 1 .. CfPayload - Len(f.data) |-> <<0, 0>>]

(* Mutant: the sequence number is not compared.                            *)
FeedCfNoSeq(f) ==
    LET got == buffer \o SubSeq(Pad(f), 1, Min2(totalLen - Len(buffer), CfPayload)) IN
    /\ lastRx' = now
    /\ IF Len(got) >= totalLen
       THEN Reset /\ delivered' = Append(delivered, got) /\ outcome' = "Complete"
       ELSE /\ buffer' = got /\ expectedSeq' = (f.arg + 1) % SeqMod
            /\ outcome' = "Ongoing"
            /\ UNCHANGED <<state, totalLen, delivered>>

FeedCf(f) ==
    LET take == Min2(totalLen - Len(buffer), CfPayload)
        got  == buffer \o SubSeq(Pad(f), 1, take)
    IN
    \/ /\ f.arg # expectedSeq
       /\ Reset /\ outcome' = "BadSeq" /\ UNCHANGED <<lastRx, delivered>>
    \/ /\ f.arg = expectedSeq /\ f.short
       /\ Keep /\ outcome' = "BadPci" /\ UNCHANGED <<lastRx, delivered>>
    \/ /\ f.arg = expectedSeq /\ ~f.short
       /\ lastRx' = now
       /\ IF Len(got) >= totalLen
          THEN Reset /\ delivered' = Append(delivered, got) /\ outcome' = "Complete"
          ELSE /\ buffer' = got /\ expectedSeq' = (expectedSeq + 1) % SeqMod
               /\ outcome' = "Ongoing"
               /\ UNCHANGED <<state, totalLen, delivered>>

(* Mutant: SF and FF are ignored while a message is being reassembled.     *)
FeedNoRestart(f) ==
    \/ /\ f.pci = "SF" /\ state = "Idle" /\ FeedSf(f)
    \/ /\ f.pci = "FF" /\ state = "Idle" /\ FeedFf(f)
    \/ /\ f.pci \in {"SF", "FF"} /\ state = "WaitCf" /\ Keep
       /\ outcome' = "Ongoing" /\ UNCHANGED <<lastRx, delivered>>
    \/ /\ f.pci = "CF" /\ state = "WaitCf" /\ FeedCf(f)
    \/ /\ f.pci = "CF" /\ state = "Idle" /\ Keep
       /\ outcome' = "NoFirstFrame" /\ UNCHANGED <<lastRx, delivered>>
    \/ /\ f.pci = "FC" /\ Keep
       /\ outcome' = "Ongoing" /\ UNCHANGED <<lastRx, delivered>>

(* In WaitCf anything but a CF resets and is read again from Idle.         *)
Feed(f) ==
    \/ /\ f.pci = "SF" /\ FeedSf(f)
    \/ /\ f.pci = "FF" /\ FeedFf(f)
    \/ /\ f.pci = "CF" /\ state = "WaitCf" /\ FeedCf(f)
    \/ /\ f.pci = "CF" /\ state = "Idle" /\ Keep
       /\ outcome' = "NoFirstFrame" /\ UNCHANGED <<lastRx, delivered>>
    \/ /\ f.pci = "FC" /\ (IF state = "Idle" THEN Keep ELSE Reset)
       /\ outcome' = "Ongoing" /\ UNCHANGED <<lastRx, delivered>>

-----------------------------------------------------------------------------
(* The bus.                                                                *)

Fault == faults < MaxFaults /\ faults' = faults + 1

Deliver == Advance /\ Feed(Frame(FALSE)) /\ UNCHANGED <<intact, now, faults>>

Lose == Advance /\ Fault /\ intact' = FALSE /\ UNCHANGED <<reasmVars, now>>

Truncate == Advance /\ Fault /\ intact' = FALSE /\ Feed(Frame(TRUE)) /\ UNCHANGED now

(* The last frame once more.                                               *)
Repeat ==
    /\ msgs # <<>> /\ emittedFirst
    /\ Fault /\ intact' = (intact /\ SegmenterDone)
    /\ Feed(last)
    /\ UNCHANGED <<ticked, segVars, now>>

(* A flow-control frame of the peer, for a request of ours.                *)
FlowControl ==
    /\ Fault /\ intact' = (intact /\ SegmenterDone)
    /\ Feed([pci |-> "FC", arg |-> 0, data |-> <<>>, short |-> FALSE])
    /\ UNCHANGED <<ticked, segVars, now>>

(* Reassembler::tick.                                                      *)
Tick(t) ==
    IF state = "WaitCf" /\ t - lastRx > TimeoutMs
    THEN Reset /\ outcome' = "Timeout" /\ UNCHANGED <<lastRx, delivered>>
    ELSE UNCHANGED reasmVars

Clock ==
    /\ now < MaxTime
    /\ now' = now + 1
    /\ IF ticked THEN Tick(now + 1) ELSE UNCHANGED reasmVars
    /\ intact' = (intact /\ state' = state)
    /\ UNCHANGED <<ticked, segVars, faults>>

Finished == SegmenterDone /\ Len(msgs) = MaxMsgs /\ UNCHANGED vars

Next ==
    \/ \E n \in Lengths : New(n) \/ NewRefused(n)
    \/ Deliver \/ Lose \/ Truncate \/ Repeat \/ FlowControl
    \/ Clock
    \/ Finished

Spec == Init /\ [][Next]_vars

-----------------------------------------------------------------------------
(* Properties.                                                             *)

(* Types; the buffer never reaches the declared length, nor that length    *)
(* the maximum message, and an idle reassembler holds nothing.             *)
TypeOK ==
    /\ ticked \in TickModes
    /\ offset \in 0 .. MaxMsg /\ nextSeq \in 0 .. SeqMod - 1
    /\ state \in {"Idle", "WaitCf"}
    /\ state = "Idle" => buffer = <<>> /\ totalLen = 0 /\ expectedSeq = 0
    /\ state = "WaitCf" => Len(buffer) < totalLen /\ totalLen \in SfMax + 1 .. MaxMsg
    /\ expectedSeq \in 0 .. SeqMod - 1
    /\ lastRx \in 0 .. now
    /\ now \in 0 .. MaxTime /\ faults \in 0 .. MaxFaults

(* The deliveries are among the first n messages, in their order and none  *)
(* of them twice, but for one that fits a single frame: the repetition of  *)
(* that frame cannot be told from a second message.                        *)
AmongFirst(n) ==
    \E f \in [1 .. Len(delivered) -> 1 .. n] :
        /\ \A i \in 1 .. Len(delivered) : delivered[i] = msgs[f[i]]
        /\ \A i, j \in 1 .. Len(delivered) : i < j =>
             \/ f[i] < f[j]
             \/ f[i] = f[j] /\ faults > 0 /\ Len(delivered[i]) <= SfMax

(* A single frame lost, cut, repeated or foreign never makes the           *)
(* reassembler build a message out of pieces of two, one with a hole in it *)
(* or one with a piece twice, nor deliver one after a later one.           *)
DeliveredAreSent == faults <= 1 => AmongFirst(Len(msgs))

(* Whatever the reassembler was left with, a message whose frames all      *)
(* arrive is the one it delivers: an SF or FF resynchronises it, and the   *)
(* wrap of the sequence number, the last short CF and the sizes at the     *)
(* SF/FF boundary come out right.                                          *)
CleanMessageDelivered ==
    SegmenterDone /\ msgs # <<>> /\ intact =>
        delivered # <<>> /\ delivered[Len(delivered)] = Current

=============================================================================
