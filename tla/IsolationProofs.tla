-------------------------- MODULE IsolationProofs --------------------------
(***************************************************************************)
(* Proofs about Isolation, for any depth of the queue and of the pipes and *)
(* any number of frames.                                                   *)
(*                                                                         *)
(* The argument: frames are numbered, so "nothing is lost, doubled or      *)
(* reordered" says that what recv returned, what is queued, what the       *)
(* reader holds and what the pipe carries are consecutive numbers, and     *)
(* that together they are what the helper wrote (Numbered, PipeInv).  In   *)
(* the other direction, what was handed to the backend and what is still   *)
(* in the pipe are together what send accepted (TxInv).                    *)
(***************************************************************************)
EXTENDS Isolation, SequenceTheorems, TLAPS

(* How far the start of the backend has come, and who may be where.        *)
Stages ==
  /\ reader = "none" <=> parent \in {"spawn", "failed"}
  /\ shutdown <=> parent \in {"drop", "reap", "join", "dropped"}
  /\ stdinOpen <=> parent \in {"spawn", "open", "drop"}
  /\ rx = "none" => helper \in {"opening", "exited"}
  /\ helper = "opening" => rx = "none" /\ parent = "spawn"
  /\ parent = "spawn" => accepted = 0 /\ helper # "closing"
  /\ parent \in {"join", "dropped"} => Dead
  /\ parent = "failed" => Dead \/ rx \notin {"none", "ready"}
  /\ parent \in {"spawn", "failed"} => received = <<>> /\ queue = <<>> /\ ~ended
  /\ exit # "none" => Dead

(* What was received and what is queued are the first frames written.      *)
Numbered ==
  /\ \A i \in 1 .. Len(written) : written[i] = i
  /\ \A i \in 1 .. Len(received) : received[i] = i
  /\ \A i \in 1 .. Len(queue) : queue[i] = Len(received) + i
  /\ Len(received) + Len(queue) <= Len(written)
  /\ rx \in {"none", "ready", "poll"} => rxFrame = Len(written)
  /\ rx = "write" => rxFrame = Len(written) + 1
  /\ rx \in {"none", "ready"} => written = <<>>

(* The frames the reader has taken from the pipe, one of them in its hand. *)
Taken == Len(received) + Len(queue) + (IF reader = "push" THEN 1 ELSE 0)

(* 1 when the pipe ends with a message that was cut.                       *)
Cuts == IF stdout # <<>> /\ stdout[Len(stdout)] = Cut THEN 1 ELSE 0

(* Behind its first k messages the pipe carries the frames not yet taken.  *)
Carries(k) ==
  /\ Len(stdout) - k - Cuts = Len(written) - Taken
  /\ \A i \in 1 .. (Len(stdout) - k - Cuts) : stdout[k + i] = Taken + i

PipeInv ==
  /\ Cuts = 1 => Dead
  /\ reader \in {"read", "push"} => Carries(0)
  /\ reader # "none" => rx \notin {"none", "ready"}
  /\ reader = "push" => pending = Taken
  /\ parent = "spawn" =>
       \/ stdout = <<>> /\ rx \in {"none", "ready"}
       \/ Dead /\ written = <<>> /\ Len(stdout) = 1 /\ stdout[1] \in {OpenErr, Cut}
       \/ stdout # <<>> /\ stdout[1] = Ready /\ Carries(1) /\ rx \notin {"none", "ready"}

(* The reader stops of its own accord only behind the helper's last frame, *)
(* and recv reports Disconnected only then.                                *)
EndInv ==
  /\ reader = "done" => shutdown \/ (Dead /\ Taken = Len(written))
  /\ ended => Dead /\ queue = <<>> /\ reader = "done" /\ received = written

(* What send accepted is in the pipe or was handed over; the TX loop ends  *)
(* with the adapter gone or the pipe closed and empty.                     *)
TxInv ==
  /\ handed + Len(stdin) = accepted
  /\ helper = "closing" /\ adapter = "present" => stdin = <<>> /\ ~stdinOpen
  /\ exit = "clean" /\ adapter = "present" => stdin = <<>>

IInv == TypeOK /\ Stages /\ Numbered /\ PipeInv /\ EndInv /\ TxInv

LEMMA MessageTypes ==
  Ready \in Message /\ OpenErr \in Message /\ Cut \in Message /\ Frame \subseteq Message
  BY DEF Message

LEMMA PipeAppend ==
  ASSUME TypeOK
  PROVE  /\ \A m \in Message : Append(stdout, m) \in Seq(Message)
         /\ \A f \in Frame : Append(written, f) \in Seq(Frame)
  BY AppendProperties DEF TypeOK

LEMMA CutIsDeath == IInv /\ stdout = <<Cut>> => Dead
  BY DEF IInv, PipeInv, Cuts


LEMMA StagesStep == IInv /\ [Next]_vars => Stages'
<1> SUFFICES ASSUME IInv, [Next]_vars PROVE Stages'
  OBVIOUS
<1> USE DEF IInv, TypeOK, Stages, Dead
<1>1. CASE HostOpen
  BY <1>1 DEF HostOpen, parentVars, helperVars
<1>2. CASE HostOpenErr
  BY <1>2 DEF HostOpenErr, parentVars, helperVars
<1>3. CASE RxReady
  BY <1>3 DEF RxReady, parentVars, helperVars, Dead
<1>4. CASE RxRecv
  BY <1>4 DEF RxRecv, parentVars, helperVars
<1>5. CASE RxGone
  BY <1>5 DEF RxGone, parentVars, helperVars
<1>6. CASE RxWrite
  BY <1>6 DEF RxWrite, parentVars, helperVars, AfterWrite, ReadEndOpen, Dead
<1>7. CASE TxSend
  <2>1. parent # "spawn"
    <3>1. Len(stdin) \in Nat \ {0}
      BY <1>7, EmptySeq DEF TxSend
    <3>2. accepted > 0
      BY <3>1, BoundAssumption DEF TxInv
    <3> QED
      BY <3>2, BoundAssumption
  <2> QED
    BY <1>7, <2>1 DEF TxSend, parentVars, helperVars, Abort
<1>8. CASE TxEof
  BY <1>8 DEF TxEof, parentVars, helperVars, Abort
<1>9. CASE HostExit
  BY <1>9 DEF HostExit, parentVars, helperVars
<1>10. CASE Crash
  BY <1>10 DEF Crash, parentVars, helperVars, Die, Dead
<1>11. CASE Unplug
  BY <1>11 DEF Unplug, parentVars, helperVars
<1>12. CASE ReaderRead
  BY <1>12 DEF ReaderRead, parentVars, helperVars
<1>13. CASE ReaderEof
  BY <1>13 DEF ReaderEof, parentVars, helperVars, AtEof, Dead
<1>14. CASE ReaderPush
  BY <1>14 DEF ReaderPush, parentVars, helperVars
<1>15. CASE ReaderGiveUp
  BY <1>15 DEF ReaderGiveUp, parentVars, helperVars
<1>16. CASE SpawnReady
  <2>1. stdout # <<>> /\ stdout[1] = Ready
    BY <1>16 DEF SpawnReady
  <2>2. rx # "none"
    BY <1>16, <2>1 DEF SpawnReady, PipeInv, Ready, OpenErr, Cut
  <2> QED
    BY <1>16, <2>2 DEF SpawnReady, parentVars, helperVars
<1>17. CASE SpawnOpenErr
  BY <1>17 DEF SpawnOpenErr, parentVars, helperVars, Dead
<1>18. CASE SpawnNone
  BY <1>18, CutIsDeath DEF SpawnNone, AtEof, parentVars, helperVars
<1>19. CASE Send
  BY <1>19 DEF Send, parentVars, helperVars, Dead
<1>20. CASE RecvFrame
  BY <1>20 DEF RecvFrame, parentVars, helperVars
<1>21. CASE RecvDisconnected
  BY <1>21 DEF RecvDisconnected, parentVars, helperVars
<1>22. CASE DropFlag
  BY <1>22 DEF DropFlag, parentVars, helperVars
<1>23. CASE DropStdin
  BY <1>23 DEF DropStdin, parentVars, helperVars
<1>24. CASE DropReap
  BY <1>24 DEF DropReap, parentVars, helperVars, Dead
<1>25. CASE DropKill
  BY <1>25 DEF DropKill, parentVars, helperVars, Die, Dead
<1>26. CASE DropJoin
  BY <1>26 DEF DropJoin, parentVars, helperVars
<1>27. CASE UNCHANGED vars
  BY <1>27 DEF vars
<1>28. CASE SpawnNoReader
  <2>1. stdout # <<>> /\ stdout[1] = Ready
    BY <1>28 DEF SpawnNoReader
  <2>2. rx \notin {"none", "ready"}
    BY <1>28, <2>1 DEF SpawnNoReader, PipeInv, Ready, OpenErr, Cut
  <2> QED
    BY <1>28, <2>2 DEF SpawnNoReader, parentVars, helperVars
<1> QED
  BY <1>1, <1>2, <1>3, <1>4, <1>5, <1>6, <1>7, <1>8, <1>9, <1>10, <1>11, <1>12, <1>13, <1>14, <1>15, <1>16, <1>17, <1>18, <1>19, <1>20, <1>21, <1>22, <1>23, <1>24, <1>25, <1>26, <1>27, <1>28
     DEF Next, Host, Reader, Spawn, Recv, Drop, Stopped


LEMMA TxStep == IInv /\ [Next]_vars => TxInv'
<1> SUFFICES ASSUME IInv, [Next]_vars PROVE TxInv'
  OBVIOUS
<1> USE DEF IInv, TypeOK, Stages, TxInv, Dead
<1>1. CASE HostOpen
  BY <1>1 DEF HostOpen, parentVars, helperVars
<1>2. CASE HostOpenErr
  BY <1>2 DEF HostOpenErr, parentVars, helperVars
<1>3. CASE RxReady
  BY <1>3 DEF RxReady, parentVars, helperVars, Dead
<1>4. CASE RxRecv
  BY <1>4 DEF RxRecv, parentVars, helperVars
<1>5. CASE RxGone
  BY <1>5 DEF RxGone, parentVars, helperVars
<1>6. CASE RxWrite
  BY <1>6 DEF RxWrite, parentVars, helperVars, AfterWrite, ReadEndOpen, Dead
<1>7. CASE TxSend
  <2>1. stdin \in Seq(1 .. MaxTx) /\ stdin # <<>> /\ stdin' = Tail(stdin)
    BY <1>7 DEF TxSend
  <2>2. Len(stdin') = Len(stdin) - 1 /\ Len(stdin) \in Nat
    BY <2>1, HeadTailProperties, LenProperties
  <2>3. handed' = handed + 1 /\ accepted' = accepted /\ exit = "none"
    BY <1>7 DEF TxSend, helperVars
  <2>4. handed' + Len(stdin') = accepted'
    BY <2>2, <2>3
  <2>5. helper' = "closing" => adapter' = "gone"
    BY <1>7 DEF TxSend, helperVars
  <2> QED
    BY <1>7, <2>3, <2>4, <2>5 DEF TxSend, helperVars
<1>8. CASE TxEof
  BY <1>8 DEF TxEof, parentVars, helperVars, Abort
<1>9. CASE HostExit
  BY <1>9 DEF HostExit, parentVars, helperVars
<1>10. CASE Crash
  BY <1>10 DEF Crash, parentVars, helperVars, Die, Dead
<1>11. CASE Unplug
  BY <1>11 DEF Unplug, parentVars, helperVars
<1>12. CASE ReaderRead
  BY <1>12 DEF ReaderRead, parentVars, helperVars
<1>13. CASE ReaderEof
  BY <1>13 DEF ReaderEof, parentVars, helperVars, AtEof, Dead
<1>14. CASE ReaderPush
  BY <1>14 DEF ReaderPush, parentVars, helperVars
<1>15. CASE ReaderGiveUp
  BY <1>15 DEF ReaderGiveUp, parentVars, helperVars
<1>16. CASE SpawnReady
  BY <1>16 DEF SpawnReady, parentVars, helperVars
<1>17. CASE SpawnOpenErr
  BY <1>17 DEF SpawnOpenErr, parentVars, helperVars, Dead
<1>18. CASE SpawnNone
  BY <1>18 DEF SpawnNone, parentVars, helperVars, AtEof, Dead
<1>19. CASE Send
  BY <1>19 DEF Send, parentVars, helperVars, Dead
<1>20. CASE RecvFrame
  BY <1>20 DEF RecvFrame, parentVars, helperVars
<1>21. CASE RecvDisconnected
  BY <1>21 DEF RecvDisconnected, parentVars, helperVars
<1>22. CASE DropFlag
  BY <1>22 DEF DropFlag, parentVars, helperVars
<1>23. CASE DropStdin
  BY <1>23 DEF DropStdin, parentVars, helperVars
<1>24. CASE DropReap
  BY <1>24 DEF DropReap, parentVars, helperVars, Dead
<1>25. CASE DropKill
  BY <1>25 DEF DropKill, parentVars, helperVars, Die, Dead
<1>26. CASE DropJoin
  BY <1>26 DEF DropJoin, parentVars, helperVars
<1>27. CASE UNCHANGED vars
  BY <1>27 DEF vars
<1>28. CASE SpawnNoReader
  BY <1>28 DEF SpawnNoReader, parentVars, helperVars
<1> QED
  BY <1>1, <1>2, <1>3, <1>4, <1>5, <1>6, <1>7, <1>8, <1>9, <1>10, <1>11, <1>12, <1>13, <1>14, <1>15, <1>16, <1>17, <1>18, <1>19, <1>20, <1>21, <1>22, <1>23, <1>24, <1>25, <1>26, <1>27, <1>28
     DEF Next, Host, Reader, Spawn, Recv, Drop, Stopped


LEMMA TypeStep == IInv /\ [Next]_vars => TypeOK'
<1> SUFFICES ASSUME IInv, [Next]_vars PROVE TypeOK'
  OBVIOUS
<1> USE DEF IInv, TypeOK
<1>1. CASE HostOpen
  BY <1>1, BoundAssumption DEF HostOpen, parentVars, helperVars
<1>2. CASE HostOpenErr
  <2>1. stdout' \in Seq(Message)
    BY <1>2, PipeAppend, MessageTypes DEF HostOpenErr
  <2> QED
    BY <1>2, <2>1 DEF HostOpenErr, parentVars, helperVars
<1>3. CASE RxReady
  <2>1. stdout' \in Seq(Message)
    BY <1>3, PipeAppend, MessageTypes DEF RxReady
  <2> QED
    BY <1>3, <2>1 DEF RxReady, parentVars, helperVars
<1>4. CASE RxRecv
  BY <1>4, BoundAssumption DEF RxRecv, parentVars, helperVars
<1>5. CASE RxGone
  BY <1>5, BoundAssumption DEF RxGone, parentVars, helperVars
<1>6. CASE RxWrite
  <2>1. rxFrame \in Frame
    BY <1>6, LenProperties, BoundAssumption DEF RxWrite, Numbered, Frame
  <2>2. stdout' \in Seq(Message) /\ written' \in Seq(Frame)
    BY <1>6, <2>1, PipeAppend, MessageTypes DEF RxWrite
  <2> QED
    BY <1>6, <2>2 DEF RxWrite, AfterWrite, parentVars, helperVars
<1>7. CASE TxSend
  <2>1. stdin \in Seq(1 .. MaxTx) /\ stdin # <<>> /\ stdin' = Tail(stdin)
    BY <1>7 DEF TxSend
  <2>2. stdin' \in Seq(1 .. MaxTx) /\ Len(stdin) \in Nat \ {0}
    BY <2>1, HeadTailProperties, EmptySeq
  <2>3. handed + 1 <= accepted
    BY <2>2 DEF TxInv
  <2> QED
    BY <1>7, <2>2, <2>3, BoundAssumption DEF TxSend, Abort, parentVars, helperVars
<1>8. CASE TxEof
  BY <1>8, BoundAssumption DEF TxEof, parentVars, helperVars, Abort
<1>9. CASE HostExit
  BY <1>9, BoundAssumption DEF HostExit, parentVars, helperVars
<1>10. CASE Crash
  <2>1. stdout' \in Seq(Message)
    BY <1>10, PipeAppend, MessageTypes DEF Crash, Die
  <2> QED
    BY <1>10, <2>1 DEF Crash, Die, parentVars, helperVars
<1>11. CASE Unplug
  BY <1>11, BoundAssumption DEF Unplug, parentVars, helperVars
<1>12. CASE ReaderRead
  BY <1>12, BoundAssumption DEF ReaderRead, parentVars, helperVars
<1>13. CASE ReaderEof
  BY <1>13, BoundAssumption DEF ReaderEof, parentVars, helperVars, AtEof, Dead
<1>14. CASE ReaderPush
  <2>1. pending \in Frame
    BY <1>14, LenProperties DEF ReaderPush, PipeInv, Taken
  <2>2. queue' \in Seq(Frame)
    BY <1>14, <2>1, AppendProperties DEF ReaderPush
  <2> QED
    BY <1>14, <2>2 DEF ReaderPush, parentVars, helperVars
<1>15. CASE ReaderGiveUp
  BY <1>15, BoundAssumption DEF ReaderGiveUp, parentVars, helperVars
<1>16. CASE SpawnReady
  BY <1>16, BoundAssumption DEF SpawnReady, parentVars, helperVars
<1>17. CASE SpawnOpenErr
  <2>1. stdinOpen' \in BOOLEAN
    BY <1>17, Zenon DEF SpawnOpenErr
  <2> QED
    BY <1>17, <2>1 DEF SpawnOpenErr, parentVars, helperVars
<1>18. CASE SpawnNone
  <2>1. stdinOpen' \in BOOLEAN
    BY <1>18, Zenon DEF SpawnNone
  <2> QED
    BY <1>18, <2>1 DEF SpawnNone, parentVars, helperVars
<1>19. CASE Send
  BY <1>19, BoundAssumption DEF Send, parentVars, helperVars, Dead
<1>20. CASE RecvFrame
  <2>1. queue' \in Seq(Frame) /\ received' \in Seq(Frame)
    BY <1>20, AppendProperties, HeadTailProperties DEF RecvFrame
  <2> QED
    BY <1>20, <2>1 DEF RecvFrame, parentVars, helperVars
<1>21. CASE RecvDisconnected
  BY <1>21, BoundAssumption DEF RecvDisconnected, parentVars, helperVars
<1>22. CASE DropFlag
  BY <1>22, BoundAssumption DEF DropFlag, parentVars, helperVars
<1>23. CASE DropStdin
  <2>1. stdinOpen' \in BOOLEAN
    BY <1>23, Zenon DEF DropStdin
  <2> QED
    BY <1>23, <2>1 DEF DropStdin, parentVars, helperVars
<1>24. CASE DropReap
  BY <1>24, BoundAssumption DEF DropReap, parentVars, helperVars, Dead
<1>25. CASE DropKill
  <2>1. stdout' \in Seq(Message)
    BY <1>25, PipeAppend, MessageTypes DEF DropKill, Die
  <2> QED
    BY <1>25, <2>1 DEF DropKill, Die, parentVars, helperVars
<1>26. CASE DropJoin
  BY <1>26, BoundAssumption DEF DropJoin, parentVars, helperVars
<1>27. CASE UNCHANGED vars
  BY <1>27, BoundAssumption DEF vars
<1>28. CASE SpawnNoReader
  <2>1. stdinOpen' \in BOOLEAN
    BY <1>28, Zenon DEF SpawnNoReader
  <2>2. stdout' \in Seq(Message)
    BY <1>28, HeadTailProperties DEF SpawnNoReader
  <2> QED
    BY <1>28, <2>1, <2>2 DEF SpawnNoReader, parentVars, helperVars
<1> QED
  BY <1>1, <1>2, <1>3, <1>4, <1>5, <1>6, <1>7, <1>8, <1>9, <1>10, <1>11, <1>12, <1>13, <1>14, <1>15, <1>16, <1>17, <1>18, <1>19, <1>20, <1>21, <1>22, <1>23, <1>24, <1>25, <1>26, <1>27, <1>28
     DEF Next, Host, Reader, Spawn, Recv, Drop, Stopped

LEMMA Lengths ==
  ASSUME TypeOK
  PROVE  /\ Len(written) \in Nat /\ Len(received) \in Nat /\ Len(queue) \in Nat
         /\ Len(stdout) \in Nat /\ (stdout # <<>> => Len(stdout) > 0)
         /\ Cuts \in {0, 1} /\ Cuts <= Len(stdout)
  BY LenProperties, EmptySeq DEF TypeOK, Cuts


LEMMA NumberedStep == IInv /\ [Next]_vars => Numbered'
<1> SUFFICES ASSUME IInv, [Next]_vars PROVE Numbered'
  OBVIOUS
<1> USE DEF IInv, TypeOK, Numbered
<1>1. CASE HostOpen
  BY <1>1 DEF HostOpen, Stages, parentVars, helperVars
<1>2. CASE HostOpenErr
  BY <1>2 DEF HostOpenErr, parentVars, helperVars
<1>3. CASE RxReady
  BY <1>3 DEF RxReady, parentVars, helperVars, Dead
<1>4. CASE RxRecv
  BY <1>4, BoundAssumption DEF RxRecv, parentVars, helperVars
<1>5. CASE RxGone
  BY <1>5 DEF RxGone, parentVars, helperVars
<1>6. CASE RxWrite
  <2>1. CASE ReadEndOpen
    <3>1. written' = Append(written, rxFrame) /\ rxFrame = Len(written) + 1 /\ rxFrame \in Frame
      BY <1>6, <2>1, BoundAssumption, Lengths DEF RxWrite, Frame
    <3>2. /\ Len(written') = Len(written) + 1 /\ written'[Len(written) + 1] = rxFrame
          /\ \A i \in 1 .. Len(written) : written'[i] = written[i]
      BY <3>1, AppendProperties
    <3> QED
      BY <1>6, <2>1, <3>1, <3>2, Lengths DEF RxWrite, AfterWrite, parentVars
  <2>2. CASE ~ReadEndOpen
    BY <1>6, <2>2 DEF RxWrite, AfterWrite, parentVars
  <2> QED
    BY <2>1, <2>2
<1>7. CASE TxSend
  BY <1>7 DEF TxSend, Abort, parentVars, helperVars
<1>8. CASE TxEof
  BY <1>8 DEF TxEof, parentVars, helperVars, Abort
<1>9. CASE HostExit
  BY <1>9 DEF HostExit, parentVars, helperVars
<1>10. CASE Crash
  BY <1>10 DEF Crash, parentVars, helperVars, Die, Dead
<1>11. CASE Unplug
  BY <1>11 DEF Unplug, parentVars, helperVars
<1>12. CASE ReaderRead
  BY <1>12 DEF ReaderRead, parentVars, helperVars
<1>13. CASE ReaderEof
  BY <1>13 DEF ReaderEof, parentVars, helperVars, AtEof, Dead
<1>14. CASE ReaderPush
  <2>1. pending = Len(received) + Len(queue) + 1 /\ pending \in Frame
    BY <1>14, Lengths DEF ReaderPush, PipeInv, Taken
  <2>2. pending <= Len(written)
    BY <1>14, <2>1, Lengths DEF ReaderPush, PipeInv, Carries, Taken
  <2>3. /\ Len(queue') = Len(queue) + 1 /\ queue'[Len(queue) + 1] = pending
        /\ \A i \in 1 .. Len(queue) : queue'[i] = queue[i]
    BY <1>14, <2>1, AppendProperties DEF ReaderPush
  <2> QED
    <3>1. UNCHANGED <<written, received, rx, rxFrame>>
      BY <1>14 DEF ReaderPush, helperVars
    <3>2. Len(received') + Len(queue') <= Len(written')
      BY <2>1, <2>2, <2>3, <3>1, Lengths
    <3>3. ASSUME NEW i \in 1 .. Len(queue') PROVE queue'[i] = Len(received') + i
      <4>1. i \in 1 .. Len(queue) \/ i = Len(queue) + 1
        BY <2>3, Lengths
      <4>2. CASE i \in 1 .. Len(queue)
        <5>1. queue[i] = Len(received) + i
          BY <4>2
        <5> QED
          BY <4>2, <5>1, <2>3, <3>1
      <4>3. CASE i = Len(queue) + 1
        <5>1. queue'[i] = Len(received) + Len(queue) + 1
          BY <4>3, <2>1, <2>3
        <5> QED
          BY <4>3, <5>1, <3>1, Lengths
      <4> QED
        BY <4>1, <4>2, <4>3
    <3> QED
      BY <3>1, <3>2, <3>3
<1>15. CASE ReaderGiveUp
  BY <1>15 DEF ReaderGiveUp, parentVars, helperVars
<1>16. CASE SpawnReady
  BY <1>16 DEF SpawnReady, parentVars, helperVars
<1>17. CASE SpawnOpenErr
  BY <1>17 DEF SpawnOpenErr, parentVars, helperVars, Dead
<1>18. CASE SpawnNone
  BY <1>18 DEF SpawnNone, parentVars, helperVars, AtEof, Dead
<1>19. CASE Send
  BY <1>19 DEF Send, parentVars, helperVars, Dead
<1>20. CASE RecvFrame
  <2>1. Head(queue) = queue[1] /\ Head(queue) \in Frame /\ Len(queue) > 0
    BY <1>20, HeadTailProperties, Lengths, EmptySeq DEF RecvFrame
  <2>2. /\ Len(queue') = Len(queue) - 1
        /\ \A i \in 1 .. Len(queue') : queue'[i] = queue[i + 1]
    BY <1>20, HeadTailProperties DEF RecvFrame
  <2>3. /\ Len(received') = Len(received) + 1 /\ received'[Len(received) + 1] = queue[1]
        /\ \A i \in 1 .. Len(received) : received'[i] = received[i]
    BY <1>20, <2>1, AppendProperties DEF RecvFrame
  <2> QED
    BY <1>20, <2>1, <2>2, <2>3, Lengths DEF RecvFrame, parentVars, helperVars
<1>21. CASE RecvDisconnected
  BY <1>21 DEF RecvDisconnected, parentVars, helperVars
<1>22. CASE DropFlag
  BY <1>22 DEF DropFlag, parentVars, helperVars
<1>23. CASE DropStdin
  BY <1>23 DEF DropStdin, parentVars, helperVars
<1>24. CASE DropReap
  BY <1>24 DEF DropReap, parentVars, helperVars, Dead
<1>25. CASE DropKill
  BY <1>25 DEF DropKill, parentVars, helperVars, Die, Dead
<1>26. CASE DropJoin
  BY <1>26 DEF DropJoin, parentVars, helperVars
<1>27. CASE UNCHANGED vars
  BY <1>27 DEF vars
<1>28. CASE SpawnNoReader
  BY <1>28 DEF SpawnNoReader, parentVars, helperVars
<1> QED
  BY <1>1, <1>2, <1>3, <1>4, <1>5, <1>6, <1>7, <1>8, <1>9, <1>10, <1>11, <1>12, <1>13, <1>14, <1>15, <1>16, <1>17, <1>18, <1>19, <1>20, <1>21, <1>22, <1>23, <1>24, <1>25, <1>26, <1>27, <1>28
     DEF Next, Host, Reader, Spawn, Recv, Drop, Stopped

(* What appending to the pipe and reading from it do to its messages.      *)
LEMMA PipePush ==
  ASSUME TypeOK, NEW m \in Message, stdout' = Append(stdout, m)
  PROVE  /\ Len(stdout') = Len(stdout) + 1 /\ stdout' # <<>>
         /\ stdout'[Len(stdout) + 1] = m
         /\ \A i \in 1 .. Len(stdout) : stdout'[i] = stdout[i]
         /\ Cuts' = IF m = Cut THEN 1 ELSE 0
<1>1. /\ Len(stdout') = Len(stdout) + 1 /\ stdout' # <<>>
      /\ stdout'[Len(stdout) + 1] = m
      /\ \A i \in 1 .. Len(stdout) : stdout'[i] = stdout[i]
  <2>1. stdout \in Seq(Message)
    BY DEF TypeOK
  <2> QED
    BY <2>1, AppendProperties
<1> QED
  BY <1>1 DEF Cuts

LEMMA OneOrMore == \A n \in Nat : n > 0 => n = 1 \/ n > 1
  OBVIOUS

LEMMA PipePop ==
  ASSUME TypeOK, stdout # <<>>, stdout' = Tail(stdout), Head(stdout) # Cut
  PROVE  /\ Len(stdout') = Len(stdout) - 1
         /\ Head(stdout) = stdout[1]
         /\ \A i \in 1 .. Len(stdout') : stdout'[i] = stdout[i + 1]
         /\ Cuts' = Cuts /\ Cuts < Len(stdout)
<1>1. /\ Len(stdout') = Len(stdout) - 1 /\ stdout' \in Seq(Message)
      /\ \A i \in 1 .. Len(stdout') : stdout'[i] = stdout[i + 1]
  BY HeadTailProperties DEF TypeOK
<1>2. Head(stdout) = stdout[1]
  BY DEF TypeOK
<1>3. Len(stdout) \in Nat /\ Len(stdout) > 0
  BY Lengths
<1>4. CASE Len(stdout) = 1
  <2>1. stdout' = <<>>
    BY <1>1, <1>4, EmptySeq
  <2> QED
    BY <1>1, <1>2, <1>4, <2>1 DEF Cuts
<1>5. CASE Len(stdout) > 1
  <2>1. Len(stdout') > 0 /\ stdout' # <<>>
    BY <1>1, <1>3, <1>5, EmptySeq
  <2>2. stdout'[Len(stdout')] = stdout[Len(stdout)]
    BY <1>1, <1>3, <2>1
  <2> QED
    BY <1>1, <1>2, <1>5, <2>1, <2>2 DEF Cuts
<1>6. Len(stdout) = 1 \/ Len(stdout) > 1
  BY <1>3, OneOrMore, Zenon
<1> QED
  BY <1>4, <1>5, <1>6

(* The three ways in which the pipe goes on carrying what it should.       *)
LEMMA CarriesSame ==
  ASSUME NEW k \in {0, 1}, Carries(k), UNCHANGED <<stdout, written, Taken>>
  PROVE  Carries(k)'
  BY DEF Carries, Cuts

LEMMA CarriesFrame ==
  ASSUME TypeOK, NEW k \in {0, 1}, k <= Len(stdout), Carries(k), Cuts = 0,
         NEW f \in Frame, f = Len(written) + 1, UNCHANGED Taken,
         stdout' = Append(stdout, f), written' = Append(written, f), Taken \in Nat
  PROVE  Carries(k)'
<1>1. /\ Len(stdout') = Len(stdout) + 1 /\ stdout'[Len(stdout) + 1] = f
      /\ \A i \in 1 .. Len(stdout) : stdout'[i] = stdout[i]
      /\ Cuts' = 0
  BY PipePush, MessageTypes, BoundAssumption DEF Frame, Cut
<1>2. Len(written') = Len(written) + 1
  BY AppendProperties DEF TypeOK
<1>3. Len(stdout) - k = Len(written) - Taken
  BY DEF Carries
<1>4. \A i \in 1 .. (Len(stdout) - k) : stdout[k + i] = Taken + i
  BY Lengths DEF Carries
<1>5. \A i \in 1 .. (Len(stdout) - k) : stdout'[k + i] = Taken + i
  BY <1>1, <1>4, Lengths
<1>6. stdout'[k + (Len(stdout) - k + 1)] = Taken + (Len(stdout) - k + 1)
  <2>1. k + (Len(stdout) - k + 1) = Len(stdout) + 1
    BY Lengths
  <2>2. f = Taken + (Len(stdout) - k + 1)
    BY <1>3, Lengths
  <2> QED
    BY <1>1, <2>1, <2>2
<1>7. \A i \in 1 .. (Len(stdout') - k - Cuts') : stdout'[k + i] = Taken' + i
  <2> TAKE i \in 1 .. (Len(stdout') - k - Cuts')
  <2>1. i \in 1 .. (Len(stdout) - k) \/ i = Len(stdout) - k + 1
    BY <1>1, Lengths
  <2> QED
    BY <2>1, <1>5, <1>6
<1>8. Len(stdout') - k - Cuts' = Len(written') - Taken'
  BY <1>1, <1>2, <1>3, Lengths
<1> QED
  BY <1>7, <1>8 DEF Carries

LEMMA CarriesCut ==
  ASSUME TypeOK, NEW k \in {0, 1}, k <= Len(stdout), Carries(k), Cuts = 0,
         stdout' = Append(stdout, Cut), UNCHANGED <<written, Taken>>, Taken \in Nat
  PROVE  Carries(k)'
<1>1. /\ Len(stdout') = Len(stdout) + 1 /\ Cuts' = 1
      /\ \A i \in 1 .. Len(stdout) : stdout'[i] = stdout[i]
  BY PipePush, MessageTypes
<1>2. Len(stdout') - k - Cuts' = Len(stdout) - k - Cuts
  BY <1>1, Lengths
<1>3. \A i \in 1 .. (Len(stdout) - k - Cuts) : stdout'[k + i] = stdout[k + i]
  BY <1>1, Lengths
<1> QED
  BY <1>2, <1>3 DEF Carries

LEMMA CarriesPop ==
  ASSUME TypeOK, NEW k \in {0, 1}, Carries(k), stdout # <<>>, Head(stdout) # Cut,
         stdout' = Tail(stdout), UNCHANGED written, Taken \in Nat,
         Taken' = Taken + (1 - k)
  PROVE  Carries(0)' /\ (k = 0 => Head(stdout) = Taken')
<1>1. /\ Len(stdout') = Len(stdout) - 1
      /\ Head(stdout) = stdout[1]
      /\ \A i \in 1 .. Len(stdout') : stdout'[i] = stdout[i + 1]
      /\ Cuts' = Cuts /\ Cuts < Len(stdout)
  BY PipePop
<1>2. Len(stdout') - 0 - Cuts' = Len(written') - Taken'
  BY <1>1, Lengths DEF Carries
<1>3. \A i \in 1 .. (Len(stdout') - 0 - Cuts') : stdout'[0 + i] = Taken' + i
  <2> TAKE i \in 1 .. (Len(stdout') - 0 - Cuts')
  <2>1. i \in 1 .. Len(stdout') /\ stdout'[0 + i] = stdout[i + 1]
    BY <1>1, Lengths
  <2>2. CASE k = 1
    <3>1. i \in 1 .. (Len(stdout) - 1 - Cuts)
      BY <1>1, Lengths
    <3> QED
      BY <2>1, <2>2, <3>1, Lengths DEF Carries
  <2>3. CASE k = 0
    <3>1. i + 1 \in 1 .. (Len(stdout) - 0 - Cuts) /\ 0 + (i + 1) = i + 1
      BY <1>1, Lengths
    <3>2. stdout[0 + (i + 1)] = Taken + (i + 1)
      BY <2>3, <3>1 DEF Carries
    <3> QED
      BY <2>1, <2>3, <3>1, <3>2, Lengths
  <2> QED
    BY <2>2, <2>3
<1>4. ASSUME k = 0 PROVE Head(stdout) = Taken'
  <2>1. 1 \in 1 .. (Len(stdout) - 0 - Cuts)
    BY <1>1, Lengths
  <2>2. stdout[0 + 1] = Taken + 1
    BY <1>4, <2>1 DEF Carries
  <2> QED
    BY <1>1, <1>4, <2>2
<1> QED
  BY <1>2, <1>3, <1>4 DEF Carries

LEMMA TakenIsNat == TypeOK => Taken \in Nat
  BY Lengths DEF Taken

LEMMA SpawnSendsNothing == IInv /\ stdin # <<>> => parent # "spawn"
<1> SUFFICES ASSUME IInv, stdin # <<>> PROVE parent # "spawn"
  OBVIOUS
<1>1. Len(stdin) \in Nat \ {0}
  BY EmptySeq DEF IInv, TypeOK
<1>2. accepted > 0
  BY <1>1, BoundAssumption DEF IInv, TypeOK, TxInv
<1> QED
  BY <1>2 DEF IInv, Stages

(* PipeInv is left alone by a step that moves no frame.                    *)
LEMMA PipeSame ==
  ASSUME PipeInv, UNCHANGED <<stdout, written, received, queue, reader, pending>>,
         parent' = parent \/ parent' # "spawn",
         rx \in {"none", "ready"} <=> rx' \in {"none", "ready"},
         Dead => Dead'
  PROVE  PipeInv'
<1>1. UNCHANGED <<stdout, written, Cuts, Taken>>
  BY DEF Cuts, Taken
<1>2. \A k \in {0, 1} : Carries(k) => Carries(k)'
  BY <1>1, CarriesSame
<1> QED
  BY <1>1, <1>2 DEF PipeInv

(* The helper dies, a message it was writing being cut or not.             *)
LEMMA PipeDie ==
  ASSUME IInv, NEW how, Die(how), parent' = parent \/ parent' # "spawn",
         UNCHANGED <<written, received, queue, reader, pending, rx>>
  PROVE  PipeInv'
<1>1. ~Dead /\ Dead'
  BY DEF Die, Dead
<1>2. CASE UNCHANGED stdout
  BY <1>1, <1>2, PipeSame DEF IInv
<1>3. CASE rx \in {"ready", "write"} /\ stdout' = Append(stdout, Cut)
  <2>1. Cuts = 0
    BY <1>1, Lengths DEF IInv, PipeInv
  <2>2. /\ Cuts' = 1 /\ Len(stdout') = Len(stdout) + 1
        /\ stdout'[Len(stdout) + 1] = Cut
        /\ \A i \in 1 .. Len(stdout) : stdout'[i] = stdout[i]
    BY <1>3, PipePush, MessageTypes DEF IInv
  <2>3. UNCHANGED Taken /\ Taken \in Nat
    BY TakenIsNat DEF Taken, IInv
  <2>4. \A k \in {0, 1} : k <= Len(stdout) /\ Carries(k) => Carries(k)'
    BY <1>3, <2>1, <2>3, CarriesCut DEF IInv
  <2>5. reader' \in {"read", "push"} => Carries(0)'
    BY <2>4, Lengths DEF IInv, PipeInv
  <2>6. ASSUME parent' = "spawn"
        PROVE  \/ written' = <<>> /\ Len(stdout') = 1 /\ stdout'[1] \in {OpenErr, Cut}
               \/ stdout' # <<>> /\ stdout'[1] = Ready /\ Carries(1)' /\ rx \notin {"none", "ready"}
    <3>1. CASE stdout = <<>> /\ rx \in {"none", "ready"}
      <4>1. Len(stdout) = 0 /\ written = <<>>
        BY <3>1, EmptySeq DEF IInv, Numbered
      <4> QED
        BY <2>2, <4>1
    <3>2. CASE stdout # <<>> /\ stdout[1] = Ready /\ Carries(1) /\ rx \notin {"none", "ready"}
      <4>1. Len(stdout) \in Nat /\ Len(stdout) >= 1
        BY <3>2, Lengths DEF IInv
      <4>2. stdout'[1] = Ready /\ Len(stdout') > 0
        BY <2>2, <3>2, <4>1
      <4> QED
        BY <2>4, <3>2, <4>1, <4>2, EmptySeq
    <3> QED
      BY <1>1, <2>6, <3>1, <3>2 DEF IInv, PipeInv
  <2>7. UNCHANGED Taken /\ reader' = reader /\ pending' = pending /\ rx' = rx
    BY <2>3
  <2> QED
    BY <1>1, <2>5, <2>6, <2>7 DEF IInv, PipeInv
<1> QED
  BY <1>2, <1>3 DEF Die

(* PipeInv is kept by the steps that move a message.                       *)
LEMMA PipeHostOpenErr == IInv /\ HostOpenErr => PipeInv'
<1> SUFFICES ASSUME IInv, HostOpenErr PROVE PipeInv'
  OBVIOUS
<1>1. parent = "spawn" /\ rx = "none" /\ written = <<>> /\ reader = "none" /\ stdout = <<>>
  BY DEF IInv, HostOpenErr, Stages, Numbered, PipeInv, Dead, Ready
<1>2. Len(stdout) = 0
  BY <1>1, EmptySeq
<1>3. Len(stdout') = 1 /\ stdout'[1] = OpenErr /\ Cuts' = 0
  <2>1. stdout' = Append(stdout, OpenErr) /\ OpenErr # Cut
    BY DEF HostOpenErr, OpenErr, Cut
  <2> QED
    BY <1>2, <2>1, PipePush, MessageTypes DEF IInv
<1>4. Dead' /\ written' = <<>> /\ reader' = "none"
  BY <1>1 DEF HostOpenErr, Dead, parentVars
<1> QED
  BY <1>3, <1>4 DEF PipeInv

LEMMA PipeRxReady == IInv /\ RxReady => PipeInv'
<1> SUFFICES ASSUME IInv, RxReady PROVE PipeInv'
  OBVIOUS
<1>1. ~Dead /\ rx = "ready" /\ written = <<>> /\ reader \notin {"read", "push"}
  BY DEF IInv, RxReady, Numbered, PipeInv
<1>2. stdout' = Append(stdout, Ready) /\ Ready # Cut
  BY DEF RxReady, Ready, Cut
<1>3. /\ Len(stdout') = Len(stdout) + 1 /\ stdout' # <<>>
      /\ stdout'[Len(stdout) + 1] = Ready /\ Cuts' = 0
  BY <1>2, PipePush, MessageTypes DEF IInv
<1>4. rx' = "poll" /\ UNCHANGED <<written, reader, parent, received, queue>>
  BY DEF RxReady, parentVars
<1>5. ASSUME parent' = "spawn" PROVE stdout'[1] = Ready /\ Carries(1)'
  <2>1. stdout = <<>> /\ received = <<>> /\ queue = <<>> /\ reader = "none"
    BY <1>1, <1>4, <1>5 DEF IInv, PipeInv, Stages
  <2>2. Len(stdout) = 0 /\ Taken' = 0 /\ Len(written') = 0
    BY <1>1, <1>4, <2>1, EmptySeq DEF Taken
  <2> QED
    BY <1>3, <2>2 DEF Carries
<1> QED
  BY <1>1, <1>3, <1>4, <1>5 DEF PipeInv

LEMMA PipeRxWrite == IInv /\ RxWrite => PipeInv'
<1> SUFFICES ASSUME IInv, RxWrite PROVE PipeInv'
  OBVIOUS
<1>0. /\ rx = "write" /\ rx' \in {"poll", "done"} /\ ~Dead
      /\ UNCHANGED <<parent, reader, pending, received, queue, helper>>
  BY DEF RxWrite, AfterWrite, parentVars
<1>1. CASE ~ReadEndOpen
  <2>1. UNCHANGED <<stdout, written>>
    BY <1>1 DEF RxWrite
  <2> QED
    BY <1>0, <2>1, PipeSame DEF IInv, Dead
<1>2. CASE ReadEndOpen
  <2>1. stdout' = Append(stdout, rxFrame) /\ written' = Append(written, rxFrame)
    BY <1>2 DEF RxWrite
  <2>2. rxFrame = Len(written) + 1 /\ rxFrame \in Frame /\ rxFrame # Cut
    BY <1>0, Lengths, BoundAssumption DEF IInv, TypeOK, Numbered, Frame, Cut
  <2>3. Cuts = 0
    BY <1>0, Lengths DEF IInv, PipeInv
  <2>4. UNCHANGED Taken /\ Taken \in Nat
    BY <1>0, TakenIsNat DEF Taken, IInv
  <2>5. \A k \in {0, 1} : k <= Len(stdout) /\ Carries(k) => Carries(k)'
    BY <2>1, <2>2, <2>3, <2>4, CarriesFrame DEF IInv
  <2>6. /\ Cuts' = 0 /\ stdout' # <<>>
        /\ \A i \in 1 .. Len(stdout) : stdout'[i] = stdout[i]
    BY <2>1, <2>2, PipePush, MessageTypes DEF IInv
  <2>7. reader' \in {"read", "push"} => Carries(0)'
    BY <1>0, <2>5, Lengths DEF IInv, PipeInv
  <2>8. ASSUME parent' = "spawn" PROVE stdout'[1] = Ready /\ Carries(1)'
    <3>1. stdout # <<>> /\ stdout[1] = Ready /\ Carries(1)
      BY <1>0, <2>8 DEF IInv, PipeInv
    <3>2. Len(stdout) \in Nat /\ Len(stdout) >= 1
      BY <3>1, Lengths DEF IInv
    <3> QED
      BY <2>5, <2>6, <3>1, <3>2
  <2> QED
    BY <1>0, <2>4, <2>6, <2>7, <2>8 DEF IInv, PipeInv
<1> QED
  BY <1>1, <1>2

LEMMA PipeReaderRead == IInv /\ ReaderRead => PipeInv'
<1> SUFFICES ASSUME IInv, ReaderRead PROVE PipeInv'
  OBVIOUS
<1>1. /\ reader = "read" /\ reader' = "push" /\ stdout # <<>> /\ stdout' = Tail(stdout)
      /\ pending' = Head(stdout) /\ Head(stdout) \in Frame
      /\ UNCHANGED <<written, received, queue, parent, rx, helper>>
  BY DEF ReaderRead, helperVars
<1>2. Head(stdout) # Cut
  BY <1>1, BoundAssumption DEF Frame, Cut
<1>3. Taken \in Nat /\ Taken' = Taken + 1
  BY <1>1, Lengths DEF Taken, IInv
<1>4. Carries(0) /\ rx \notin {"none", "ready"} /\ parent # "spawn"
  BY <1>1 DEF IInv, PipeInv, Stages
<1>5. Carries(0)' /\ Head(stdout) = Taken'
  BY <1>1, <1>2, <1>3, <1>4, CarriesPop DEF IInv
<1>6. Cuts' = Cuts
  BY <1>1, <1>2, PipePop DEF IInv
<1> QED
  BY <1>1, <1>4, <1>5, <1>6 DEF IInv, PipeInv, Dead

LEMMA PipeSpawnReady == IInv /\ SpawnReady => PipeInv'
<1> SUFFICES ASSUME IInv, SpawnReady PROVE PipeInv'
  OBVIOUS
<1>1. /\ parent = "spawn" /\ parent' = "open" /\ reader' = "read" /\ stdout # <<>>
      /\ stdout' = Tail(stdout) /\ Head(stdout) = Ready
      /\ UNCHANGED <<written, received, queue, rx, helper>>
  BY DEF SpawnReady, helperVars
<1>2. Head(stdout) # Cut /\ stdout[1] = Ready
  BY <1>1 DEF Ready, Cut
<1>3. reader = "none"
  BY <1>1 DEF IInv, Stages
<1>4. Taken \in Nat /\ Taken' = Taken
  BY <1>1, <1>3, TakenIsNat DEF Taken, IInv
<1>5. Carries(1) /\ rx \notin {"none", "ready"}
  BY <1>1, <1>2 DEF IInv, PipeInv, Ready, OpenErr, Cut
<1>6. Carries(0)'
  BY <1>1, <1>2, <1>4, <1>5, CarriesPop DEF IInv
<1>7. Cuts' = Cuts
  BY <1>1, <1>2, PipePop DEF IInv
<1> QED
  BY <1>1, <1>5, <1>6, <1>7 DEF IInv, PipeInv, Dead

LEMMA PipeSpawnNoReader == IInv /\ SpawnNoReader => PipeInv'
<1> SUFFICES ASSUME IInv, SpawnNoReader PROVE PipeInv'
  OBVIOUS
<1>1. /\ parent = "spawn" /\ parent' = "failed" /\ stdout # <<>>
      /\ stdout' = Tail(stdout) /\ Head(stdout) = Ready
      /\ UNCHANGED <<reader, rx, helper>>
  BY DEF SpawnNoReader, helperVars
<1>2. Head(stdout) # Cut
  BY <1>1 DEF Ready, Cut
<1>3. reader = "none"
  BY <1>1 DEF IInv, Stages
<1>4. Cuts' = Cuts
  BY <1>1, <1>2, PipePop DEF IInv
<1> QED
  BY <1>1, <1>3, <1>4 DEF IInv, PipeInv, Dead

(* The reader's push and recv only move a frame on from hand to hand.      *)
LEMMA PipeReaderPush == IInv /\ ReaderPush => PipeInv'
<1> SUFFICES ASSUME IInv, ReaderPush PROVE PipeInv'
  OBVIOUS
<1>1. /\ reader = "push" /\ reader' = "read" /\ queue' = Append(queue, pending)
      /\ UNCHANGED <<stdout, written, received, parent, rx, helper>>
  BY DEF ReaderPush, helperVars
<1>2. pending \in Frame
  BY <1>1, Lengths DEF IInv, TypeOK, PipeInv, Taken
<1>3. Len(queue') = Len(queue) + 1
  BY <1>1, <1>2, AppendProperties DEF IInv, TypeOK
<1>4. UNCHANGED Taken
  BY <1>1, <1>3, Lengths DEF IInv, Taken
<1>5. Carries(0)' /\ parent # "spawn" /\ rx \notin {"none", "ready"}
  BY <1>1, <1>4, CarriesSame DEF IInv, PipeInv, Stages
<1>6. UNCHANGED Cuts
  BY <1>1 DEF Cuts
<1> QED
  BY <1>1, <1>5, <1>6 DEF IInv, PipeInv, Dead

LEMMA PipeRecvFrame == IInv /\ RecvFrame => PipeInv'
<1> SUFFICES ASSUME IInv, RecvFrame PROVE PipeInv'
  OBVIOUS
<1>1. /\ queue # <<>> /\ received' = Append(received, Head(queue)) /\ queue' = Tail(queue)
      /\ UNCHANGED <<stdout, written, reader, pending, parent, rx, helper>>
      /\ parent = "open"
  BY DEF RecvFrame, helperVars
<1>2. Len(queue') = Len(queue) - 1 /\ Head(queue) \in Frame
  BY <1>1, HeadTailProperties DEF IInv, TypeOK
<1>3. Len(received') = Len(received) + 1
  BY <1>1, <1>2, AppendProperties DEF IInv, TypeOK
<1>4. UNCHANGED Taken
  BY <1>1, <1>2, <1>3, Lengths DEF IInv, Taken
<1>5. reader' \in {"read", "push"} => Carries(0)'
  BY <1>1, <1>4, CarriesSame DEF IInv, PipeInv
<1>6. UNCHANGED Cuts
  BY <1>1 DEF Cuts
<1> QED
  BY <1>1, <1>4, <1>5, <1>6 DEF IInv, PipeInv, Dead


LEMMA PipeStep == IInv /\ [Next]_vars => PipeInv'
<1> SUFFICES ASSUME IInv, [Next]_vars PROVE PipeInv'
  OBVIOUS
<1> USE DEF IInv, Stages, Dead
<1>1. CASE HostOpen
  BY <1>1, PipeSame DEF HostOpen, parentVars, helperVars
<1>2. CASE HostOpenErr
  BY <1>2, PipeHostOpenErr
<1>3. CASE RxReady
  BY <1>3, PipeRxReady
<1>4. CASE RxRecv
  BY <1>4, PipeSame DEF RxRecv, parentVars, helperVars
<1>5. CASE RxGone
  BY <1>5, PipeSame DEF RxGone, parentVars, helperVars
<1>6. CASE RxWrite
  BY <1>6, PipeRxWrite
<1>7. CASE TxSend
  <2>1. rx \notin {"none", "ready"}
    BY <1>7, SpawnSendsNothing DEF TxSend, PipeInv
  <2> QED
    BY <1>7, <2>1, PipeSame DEF TxSend, Abort, parentVars
<1>8. CASE TxEof
  <2>1. rx \notin {"none", "ready"}
    BY <1>8 DEF TxEof, PipeInv
  <2> QED
    BY <1>8, <2>1, PipeSame DEF TxEof, Abort, parentVars
<1>9. CASE HostExit
  BY <1>9, PipeSame DEF HostExit, parentVars, helperVars
<1>10. CASE Crash
  BY <1>10, PipeDie DEF Crash, parentVars
<1>11. CASE Unplug
  BY <1>11, PipeSame DEF Unplug, parentVars, helperVars
<1>12. CASE ReaderRead
  BY <1>12, PipeReaderRead
<1>13. CASE ReaderEof
  <2>1. /\ reader' = "done" /\ UNCHANGED <<stdout, parent, helper, rx>>
        /\ parent # "spawn" /\ rx \notin {"none", "ready"}
    BY <1>13 DEF ReaderEof, Stages, PipeInv, helperVars
  <2>2. UNCHANGED Cuts
    BY <2>1 DEF Cuts
  <2> QED
    BY <2>1, <2>2 DEF PipeInv
<1>14. CASE ReaderPush
  BY <1>14, PipeReaderPush
<1>15. CASE ReaderGiveUp
  <2>1. /\ reader' = "done" /\ UNCHANGED <<stdout, parent, helper, rx>>
        /\ parent # "spawn" /\ rx \notin {"none", "ready"}
    BY <1>15 DEF ReaderGiveUp, Stages, PipeInv, helperVars
  <2>2. UNCHANGED Cuts
    BY <2>1 DEF Cuts
  <2> QED
    BY <2>1, <2>2 DEF PipeInv
<1>16. CASE SpawnReady
  BY <1>16, PipeSpawnReady
<1>17. CASE SpawnOpenErr
  BY <1>17, PipeSame DEF SpawnOpenErr, parentVars, helperVars
<1>18. CASE SpawnNone
  BY <1>18, PipeSame DEF SpawnNone, parentVars, helperVars
<1>19. CASE Send
  BY <1>19, PipeSame DEF Send, parentVars, helperVars
<1>20. CASE RecvFrame
  BY <1>20, PipeRecvFrame
<1>21. CASE RecvDisconnected
  BY <1>21, PipeSame DEF RecvDisconnected, parentVars, helperVars
<1>22. CASE DropFlag
  BY <1>22, PipeSame DEF DropFlag, parentVars, helperVars
<1>23. CASE DropStdin
  BY <1>23, PipeSame DEF DropStdin, parentVars, helperVars
<1>24. CASE DropReap
  BY <1>24, PipeSame DEF DropReap, parentVars, helperVars
<1>25. CASE DropKill
  BY <1>25, PipeDie DEF DropKill
<1>26. CASE DropJoin
  BY <1>26, PipeSame DEF DropJoin, parentVars, helperVars
<1>27. CASE UNCHANGED vars
  BY <1>27, PipeSame DEF vars
<1>28. CASE SpawnNoReader
  BY <1>28, PipeSpawnNoReader
<1> QED
  BY <1>1, <1>2, <1>3, <1>4, <1>5, <1>6, <1>7, <1>8, <1>9, <1>10, <1>11, <1>12, <1>13, <1>14, <1>15, <1>16, <1>17, <1>18, <1>19, <1>20, <1>21, <1>22, <1>23, <1>24, <1>25, <1>26, <1>27, <1>28
     DEF Next, Host, Reader, Spawn, Recv, Drop, Stopped

(* EndInv: who ended, and behind which frame.                              *)
LEMMA EndStep == IInv /\ [Next]_vars => EndInv'
<1> SUFFICES ASSUME IInv, [Next]_vars PROVE EndInv'
  OBVIOUS
<1>1. CASE ReaderEof
  <2>1. Dead /\ Len(stdout) = Cuts
    BY <1>1, CutIsDeath, Lengths, EmptySeq DEF ReaderEof, AtEof, Cuts, IInv
  <2>2. Taken = Len(written) /\ reader = "read"
    BY <1>1, <2>1, Lengths, TakenIsNat DEF ReaderEof, IInv, PipeInv, Carries
  <2>3. Taken' = Taken
    BY <1>1, <2>2 DEF ReaderEof, Taken
  <2>4. ~ended
    BY <2>2 DEF IInv, EndInv
  <2> QED
    BY <1>1, <2>1, <2>2, <2>3, <2>4 DEF ReaderEof, EndInv, helperVars, Dead
<1>2. CASE RecvDisconnected
  <2>1. Dead /\ Taken = Len(written) /\ reader = "done" /\ queue = <<>>
    BY <1>2 DEF RecvDisconnected, IInv, EndInv, Stages
  <2>2. Len(received) = Len(written)
    BY <2>1, Lengths, EmptySeq DEF Taken, IInv
  <2>3. received = written
    BY <2>2, SeqEqual, Lengths DEF IInv, Numbered, TypeOK
  <2>4. Taken' = Taken
    BY <1>2 DEF RecvDisconnected, Taken
  <2> QED
    BY <1>2, <2>1, <2>3, <2>4 DEF RecvDisconnected, EndInv, helperVars, Dead
<1>3. CASE RecvFrame
  <2>1. Len(queue') = Len(queue) - 1 /\ Head(queue) \in Frame
    BY <1>3, HeadTailProperties DEF RecvFrame, IInv, TypeOK
  <2>2. Len(received') = Len(received) + 1
    BY <1>3, <2>1, AppendProperties DEF RecvFrame, IInv, TypeOK
  <2>3. UNCHANGED Taken
    BY <1>3, <2>1, <2>2, Lengths DEF RecvFrame, IInv, Taken
  <2>4. ~ended
    BY <1>3 DEF RecvFrame, IInv, EndInv
  <2> QED
    BY <1>3, <2>3, <2>4 DEF RecvFrame, IInv, EndInv, helperVars, Dead
<1>4. CASE RxWrite
  <2>1. ~Dead /\ UNCHANGED <<reader, ended, shutdown>>
    BY <1>4 DEF RxWrite, parentVars
  <2>2. ~ended /\ (reader = "done" => shutdown)
    BY <2>1 DEF IInv, EndInv
  <2> QED
    BY <2>1, <2>2 DEF EndInv
<1>5. CASE ReaderRead \/ ReaderPush \/ ReaderGiveUp
  <2>1. ~ended /\ ended' = ended /\ (reader' = "done" => shutdown')
    BY <1>5 DEF ReaderRead, ReaderPush, ReaderGiveUp, IInv, EndInv
  <2> QED
    BY <2>1 DEF EndInv
<1>6. CASE SpawnReady
  <2>1. ~ended /\ ended' = ended /\ reader' # "done"
    BY <1>6 DEF SpawnReady, IInv, EndInv, Stages
  <2> QED
    BY <2>1 DEF EndInv
<1>7. ASSUME UNCHANGED <<reader, ended, received, queue, written>>,
             shutdown => shutdown', Dead => Dead'
      PROVE  EndInv'
  BY <1>7 DEF IInv, EndInv, Taken
<1>8. CASE HostOpen \/ HostOpenErr \/ RxReady \/ RxRecv \/ RxGone \/ TxSend \/ TxEof \/ HostExit
  BY <1>7, <1>8 DEF HostOpen, HostOpenErr, RxReady, RxRecv, RxGone, TxSend, TxEof,
     HostExit, parentVars, Dead
<1>9. CASE Crash \/ Unplug \/ SpawnNoReader \/ SpawnOpenErr \/ SpawnNone \/ Send
  BY <1>7, <1>9 DEF Crash, Die, Unplug, SpawnNoReader, SpawnOpenErr, SpawnNone, Send, parentVars,
     helperVars, Dead
<1>10. CASE DropFlag \/ DropStdin \/ DropReap \/ DropKill \/ DropJoin
  BY <1>7, <1>10 DEF DropFlag, DropStdin, DropReap, DropKill, Die, DropJoin, helperVars, Dead
<1>11. CASE UNCHANGED vars
  BY <1>7, <1>11 DEF vars, Dead
<1> QED
  BY <1>1, <1>2, <1>3, <1>4, <1>5, <1>6, <1>8, <1>9, <1>10, <1>11
     DEF Next, Host, Reader, Spawn, Recv, Drop, Stopped

LEMMA InitIInv == Init => IInv
<1> SUFFICES ASSUME Init PROVE IInv
  OBVIOUS
<1>1. TypeOK
  <2>1. \A S : <<>> \in Seq(S)
    OBVIOUS
  <2>2. /\ queue \in Seq(Frame) /\ written \in Seq(Frame) /\ received \in Seq(Frame)
        /\ stdin \in Seq(1 .. MaxTx) /\ stdout \in Seq(Message)
    BY <2>1, Zenon DEF Init
  <2>3. pending \in Frame \cup {0} /\ rxFrame \in 0 .. MaxRx /\ accepted \in 0 .. MaxTx
        /\ handed \in 0 .. accepted
    BY BoundAssumption DEF Init
  <2>4. shutdown \in BOOLEAN /\ ended \in BOOLEAN /\ stdinOpen \in BOOLEAN
    BY Zenon DEF Init
  <2> QED
    BY <2>2, <2>3, <2>4 DEF Init, TypeOK
<1>2. Stages
  BY DEF Init, Stages, Dead
<1>3. Numbered
  BY EmptySeq DEF Init, Numbered
<1>4. PipeInv
  BY EmptySeq DEF Init, PipeInv, Cuts, Dead
<1>5. EndInv /\ TxInv
  BY EmptySeq DEF Init, EndInv, TxInv
<1> QED
  BY <1>1, <1>2, <1>3, <1>4, <1>5 DEF IInv

LEMMA Inductive == Spec => []IInv
<1>1. IInv /\ [Next]_vars => IInv'
  BY TypeStep, StagesStep, NumberedStep, PipeStep, EndStep, TxStep DEF IInv
<1> QED
  BY InitIInv, <1>1, PTL DEF Spec

(* Every variable keeps its type.                                          *)
THEOREM IsolationTypeCorrect == Spec => []TypeOK
<1>1. IInv => TypeOK
  BY DEF IInv
<1> QED
  BY Inductive, <1>1, PTL

(* A helper that ended on its own, its adapter present, has given the      *)
(* backend every frame send accepted (isolation.rs:544-560).               *)
THEOREM ClosingTransmitsAll == Spec => []CleanExitTransmits
<1>1. IInv => CleanExitTransmits
  <2> SUFFICES ASSUME IInv, exit = "clean", adapter = "present" PROVE handed = accepted
    BY DEF CleanExitTransmits
  <2>1. stdin = <<>>
    BY DEF IInv, TxInv
  <2>2. Len(stdin) = 0
    BY <2>1, EmptySeq
  <2> QED
    BY <2>2, BoundAssumption DEF IInv, TxInv, TypeOK
<1> QED
  BY Inductive, <1>1, PTL

(* The bridge refines FrameStream, step by step.                           *)
LEMMA StreamInit == Init => Stream!Init
  BY DEF Init, Stream!Init, Dead

LEMMA StreamStep == IInv /\ [Next]_vars => [Stream!Next]_(Stream!vars)
<1> SUFFICES ASSUME IInv, [Next]_vars PROVE [Stream!Next]_(Stream!vars)
  OBVIOUS
<1> DEFINE Stutter == UNCHANGED <<written, received, Dead, ended>>
           Dies == ~Dead /\ Dead' /\ UNCHANGED <<written, received, ended>>
<1>1. Stutter => UNCHANGED Stream!vars
  BY DEF Stream!vars
<1>2. Dies => Stream!Die
  BY DEF Stream!Die
<1>3. CASE RxWrite
  <2>1. ~Dead /\ UNCHANGED <<received, Dead, ended>>
    BY <1>3 DEF RxWrite, parentVars, Dead
  <2>2. CASE ReadEndOpen
    <3>1. written' = Append(written, rxFrame) /\ rxFrame \in Frame
      BY <1>3, <2>2, Lengths, BoundAssumption DEF RxWrite, IInv, TypeOK, Numbered, Frame
    <3>2. Stream!Write
      BY <2>1, <3>1 DEF Stream!Write
    <3> QED
      BY <3>2 DEF Stream!Next
  <2>3. CASE ~ReadEndOpen
    BY <1>1, <1>3, <2>1, <2>3 DEF RxWrite
  <2> QED
    BY <2>2, <2>3
<1>4. CASE RecvFrame
  <2>1. queue # <<>> /\ received' = Append(received, Head(queue)) /\ UNCHANGED <<written, Dead, ended>>
    BY <1>4 DEF RecvFrame, helperVars, Dead
  <2>2. Len(queue) > 0 /\ Head(queue) = queue[1]
    BY <2>1, Lengths, EmptySeq DEF IInv, TypeOK
  <2>3. queue[1] = Len(received) + 1 /\ Len(received) + 1 <= Len(written)
    BY <2>2, Lengths DEF IInv, Numbered
  <2>4. written[Len(received) + 1] = Head(queue)
    BY <2>2, <2>3, Lengths DEF IInv, Numbered
  <2>5. ~ended /\ Len(received) < Len(written)
    BY <2>1, <2>3, Lengths DEF IInv, EndInv
  <2>6. Stream!Deliver
    BY <2>1, <2>4, <2>5 DEF Stream!Deliver
  <2> QED
    BY <2>6 DEF Stream!Next
<1>5. CASE RecvDisconnected
  <2>1. Dead /\ received = written /\ ended' = TRUE /\ UNCHANGED <<written, received, Dead>>
    BY <1>5, EndStep DEF RecvDisconnected, helperVars, Dead, EndInv
  <2>2. Stream!End
    BY <2>1 DEF Stream!End
  <2> QED
    BY <2>2 DEF Stream!Next
<1>6. CASE HostOpenErr \/ HostExit
  <2>1. Dies
    BY <1>6 DEF HostOpenErr, HostExit, parentVars, Dead
  <2> QED
    BY <1>2, <2>1 DEF Stream!Next
<1>7. CASE Crash \/ DropKill
  <2>1. Dies
    BY <1>7 DEF Crash, DropKill, Die, parentVars, Dead
  <2> QED
    BY <1>2, <2>1 DEF Stream!Next
<1>8. CASE HostOpen \/ RxReady \/ RxRecv \/ RxGone \/ TxSend \/ TxEof
  <2>1. Stutter
    BY <1>8 DEF HostOpen, RxReady, RxRecv, RxGone, TxSend, TxEof, parentVars, Dead
  <2> QED
    BY <1>1, <2>1
<1>9. CASE Unplug \/ Send \/ SpawnReady \/ SpawnNoReader \/ SpawnOpenErr \/ SpawnNone
  <2>1. Stutter
    BY <1>9 DEF Unplug, Send, SpawnReady, SpawnNoReader, SpawnOpenErr, SpawnNone, parentVars,
       helperVars, Dead
  <2> QED
    BY <1>1, <2>1
<1>10. CASE ReaderRead \/ ReaderEof \/ ReaderPush \/ ReaderGiveUp
  <2>1. Stutter
    BY <1>10 DEF ReaderRead, ReaderEof, ReaderPush, ReaderGiveUp, helperVars, Dead
  <2> QED
    BY <1>1, <2>1
<1>11. CASE DropFlag \/ DropStdin \/ DropReap \/ DropJoin
  <2>1. Stutter
    BY <1>11 DEF DropFlag, DropStdin, DropReap, DropJoin, helperVars, Dead
  <2> QED
    BY <1>1, <2>1
<1>12. CASE UNCHANGED vars
  BY <1>1, <1>12 DEF vars, Dead
<1> QED
  BY <1>3, <1>4, <1>5, <1>6, <1>7, <1>8, <1>9, <1>10, <1>11, <1>12
     DEF Next, Host, Reader, Spawn, Recv, Drop, Stopped

(* The pipe, the reader's retry on a full queue, the queue and recv        *)
(* together are a FrameStream: no frame the helper wrote in full is lost,  *)
(* doubled or out of order, and recv reports Disconnected behind the last  *)
(* of them only (isolation.rs:240-300).                                    *)
THEOREM BridgeIsFrameStream == Spec => IsFrameStream
  BY Inductive, StreamInit, StreamStep, PTL DEF Spec, IsFrameStream, Stream!Spec
=============================================================================
