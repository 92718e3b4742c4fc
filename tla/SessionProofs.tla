--------------------------- MODULE SessionProofs ---------------------------
(***************************************************************************)
(* Proofs about module Session, for any number of callers, any bounds and  *)
(* any mix of operations, in three parts: types; what command_lock gives   *)
(* (one command in flight, a reconnect nobody interleaves with, a drain    *)
(* that restores the pairing of replies with requests); and what follows   *)
(* from it: what a session leaves behind, whose replies its callers are    *)
(* given, and what an ACK of CONNECT is worth.                             *)
(***************************************************************************)
EXTENDS Session, SequenceTheorems, TLAPS

-----------------------------------------------------------------------------
(* The lock.                                                               *)

LEMMA AcquireTyped ==
    ASSUME LockTypeOK, NEW a \in Actors, Acquire(a)
    PROVE  LockTypeOK'
BY DEF LockTypeOK, Acquire

LEMMA ReleaseTyped ==
    ASSUME LockTypeOK, Release
    PROVE  LockTypeOK'
BY HeadTailProperties DEF LockTypeOK, Release

LEMMA LeaveQueueTyped ==
    ASSUME LockTypeOK, NEW a \in Actors, LeaveQueue(a)
    PROVE  LockTypeOK'
<1>1. PICK i \in 1 .. Len(waiters) :
          /\ waiters' = SubSeq(waiters, 1, i - 1) \o SubSeq(waiters, i + 1, Len(waiters))
          /\ UNCHANGED holder
    BY DEF LeaveQueue
<1>2. Len(waiters) \in Nat /\ \A j \in 1 .. Len(waiters) : waiters[j] \in Actors
    BY LenProperties, ElementOfSeq DEF LockTypeOK
<1>3. SubSeq(waiters, 1, i - 1) \in Seq(Actors)
    BY <1>2, SubSeqProperties
<1>4. SubSeq(waiters, i + 1, Len(waiters)) \in Seq(Actors)
    BY <1>2, SubSeqProperties
<1> QED
    BY <1>1, <1>3, <1>4, ConcatProperties DEF LockTypeOK

-----------------------------------------------------------------------------
(* Requests and replies.                                                   *)

LEMMA KindForTyped ==
    ASSUME CallerTypeOK, NEW c \in Callers
    PROVE  KindFor(c) \in Kinds
BY DEF CallerTypeOK, KindFor, Kinds

LEMMA PutTyped ==
    ASSUME BusTypeOK, NEW kind \in Kinds, Put(kind)
    PROVE  nsent' \in Nat /\ h2d' \in Seq(Request)
BY DEF BusTypeOK, Put, Request

LEMMA ReplyQueue ==
    ASSUME BusTypeOK, replyQ # <<>>
    PROVE  /\ Head(replyQ) \in Reply
           /\ Tail(replyQ) \in Seq(Reply)
           /\ Len(Tail(replyQ)) <= QueueDepth
BY SessionAssumption, HeadTailProperties, LenProperties DEF BusTypeOK

LEMMA InitTyped == Init => TypeOK
<1> SUFFICES ASSUME Init PROVE TypeOK
    OBVIOUS
<1>1. LockTypeOK
    BY EmptySeq DEF Init, LockTypeOK
<1>2. KeepaliveTypeOK
    BY DEF Init, KeepaliveTypeOK
<1>3. CallerTypeOK
    BY SessionAssumption DEF Init, CallerTypeOK, Labels, AllOps, Outcomes
<1>4. BusTypeOK
  <2>1. <<>> \in Seq(Request) /\ <<>> \in Seq(Reply) /\ Len(<<>>) = 0
    BY EmptySeq
  <2>2. replyQ \in Seq(Reply) /\ Len(replyQ) <= QueueDepth
    BY <2>1, SessionAssumption DEF Init
  <2> QED
    BY <2>1, <2>2 DEF Init, BusTypeOK
<1> QED
    BY <1>1, <1>2, <1>3, <1>4 DEF Init, TypeOK

LEMMA TakeTyped ==
    ASSUME BusTypeOK, CallerTypeOK, NEW c \in Callers, Take(c)
    PROVE  /\ Head(replyQ) \in Reply
           /\ replyQ' \in Seq(Reply) /\ Len(replyQ') <= QueueDepth
           /\ got' \in [Callers -> Nat]
           /\ abandoned' \in SUBSET Nat
BY ReplyQueue DEF Take, BusTypeOK, CallerTypeOK, Reply

LEMMA StartKeepaliveTyped ==
    ASSUME KeepaliveTypeOK, StartKeepalive, UNCHANGED <<kaReq, ticks>>
    PROVE  KeepaliveTypeOK'
BY DEF KeepaliveTypeOK, StartKeepalive

LEMMA GotoTyped ==
    ASSUME CallerTypeOK, NEW c \in Callers, NEW label \in Labels, Goto(c, label)
    PROVE  pc' \in [Callers -> Labels]
BY DEF CallerTypeOK, Goto

LEMMA ReturnTyped ==
    ASSUME LockTypeOK, CallerTypeOK, NEW c \in Callers, NEW o \in Outcomes, Return(c, o)
    PROVE  /\ LockTypeOK'
           /\ pc' \in [Callers -> Labels]
           /\ out' \in [Callers -> Outcomes]
<1>1. LockTypeOK'
    BY ReleaseTyped DEF Return
<1> QED
    BY <1>1 DEF CallerTypeOK, Return, Labels

LEMMA RetryOrReturnTyped ==
    ASSUME LockTypeOK, CallerTypeOK, NEW c \in Callers, NEW o \in Outcomes, RetryOrReturn(c, o)
    PROVE  /\ LockTypeOK'
           /\ pc' \in [Callers -> Labels]
           /\ out' \in [Callers -> Outcomes]
<1>1. CASE opn[c] = "retrying" /\ attempt[c] < MaxAttempts
    BY <1>1, GotoTyped DEF RetryOrReturn, CallerTypeOK, LockTypeOK, lockVars, Labels
<1>2. CASE ~(opn[c] = "retrying" /\ attempt[c] < MaxAttempts)
    BY <1>2, ReturnTyped DEF RetryOrReturn
<1> QED
    BY <1>1, <1>2

LEMMA ResultOutcome == Results \subseteq Outcomes
BY DEF Outcomes

-----------------------------------------------------------------------------
(* Every action keeps the types.  The variables an action leaves alone are *)
(* found in its UNCHANGED; each step below is about those it changes.      *)

LEMMA StartTyped ==
    ASSUME TypeOK, NEW c \in Callers, NEW o \in Ops, Start(c, o)
    PROVE  TypeOK'
<1>1. o \in AllOps
    BY SessionAssumption
<1>2. LockTypeOK'
    BY AcquireTyped DEF Start, TypeOK, Actors
<1>3. CallerTypeOK'
    BY <1>1, SessionAssumption DEF Start, TypeOK, CallerTypeOK, Goto, Labels, Outcomes
<1>4. KeepaliveTypeOK'
    BY DEF Start, TypeOK, KeepaliveTypeOK, kaVars
<1>5. BusTypeOK'
    BY DEF Start, TypeOK, BusTypeOK, busVars
<1> QED
    BY <1>2, <1>3, <1>4, <1>5 DEF Start, TypeOK

LEMMA DrainTyped ==
    ASSUME TypeOK, NEW c \in Callers, Drain(c)
    PROVE  TypeOK'
<1>1. LockTypeOK'
    BY DEF Drain, TypeOK, LockTypeOK, lockVars
<1>2. CallerTypeOK'
  <2>1. clean' \in [Callers -> BOOLEAN]
    BY DEF Drain, TypeOK, CallerTypeOK
  <2> QED
    BY <2>1 DEF Drain, TypeOK, CallerTypeOK, Goto, Labels
<1>3. KeepaliveTypeOK'
    BY DEF Drain, TypeOK, KeepaliveTypeOK, kaVars
<1>4. BusTypeOK'
  <2>1. replyQ' \in Seq(Reply) /\ Len(replyQ') <= QueueDepth
    BY EmptySeq, SessionAssumption DEF Drain
  <2> QED
    BY <2>1 DEF Drain, TypeOK, BusTypeOK, busVars
<1> QED
    BY <1>1, <1>2, <1>3, <1>4 DEF Drain, TypeOK

LEMMA TransmitTyped ==
    ASSUME TypeOK, NEW c \in Callers, Transmit(c)
    PROVE  TypeOK'
<1>1. LockTypeOK' /\ KeepaliveTypeOK'
    BY DEF Transmit, TypeOK, LockTypeOK, KeepaliveTypeOK, lockVars, kaVars
<1>2. CallerTypeOK'
    BY DEF Transmit, TypeOK, CallerTypeOK, BusTypeOK, Goto, Labels
<1>3. BusTypeOK'
  <2>1. nsent' \in Nat /\ h2d' \in Seq(Request)
    BY KindForTyped, PutTyped DEF Transmit, TypeOK
  <2> QED
    BY <2>1 DEF Transmit, TypeOK, BusTypeOK
<1> QED
    BY <1>1, <1>2, <1>3 DEF Transmit, TypeOK

LEMMA TransmitFailsTyped ==
    ASSUME TypeOK, NEW c \in Callers, TransmitFails(c)
    PROVE  TypeOK'
<1>1. LockTypeOK' /\ pc' \in [Callers -> Labels] /\ out' \in [Callers -> Outcomes]
    BY RetryOrReturnTyped DEF TransmitFails, TypeOK, Outcomes
<1>2. CallerTypeOK'
    BY <1>1 DEF TransmitFails, TypeOK, CallerTypeOK
<1>3. KeepaliveTypeOK' /\ BusTypeOK'
    BY DEF TransmitFails, TypeOK, KeepaliveTypeOK, BusTypeOK, kaVars, busVars
<1> QED
    BY <1>1, <1>2, <1>3 DEF TransmitFails, TypeOK

LEMMA CommandTimeoutTyped ==
    ASSUME TypeOK, NEW c \in Callers, CommandTimeout(c)
    PROVE  TypeOK'
<1>1. LockTypeOK' /\ pc' \in [Callers -> Labels] /\ out' \in [Callers -> Outcomes]
    BY RetryOrReturnTyped DEF CommandTimeout, TypeOK, Outcomes
<1>2. CallerTypeOK'
    BY <1>1 DEF CommandTimeout, TypeOK, CallerTypeOK
<1>3. KeepaliveTypeOK'
    BY DEF CommandTimeout, TypeOK, KeepaliveTypeOK, kaVars
<1>4. BusTypeOK'
    BY DEF CommandTimeout, TypeOK, BusTypeOK, CallerTypeOK, busVars
<1> QED
    BY <1>1, <1>2, <1>3, <1>4 DEF CommandTimeout, TypeOK

LEMMA RxClosedTyped ==
    ASSUME TypeOK, NEW c \in Callers, RxClosed(c)
    PROVE  TypeOK'
<1>1. LockTypeOK' /\ pc' \in [Callers -> Labels] /\ out' \in [Callers -> Outcomes]
    BY ReturnTyped DEF RxClosed, TypeOK, Outcomes
<1>2. CallerTypeOK'
    BY <1>1 DEF RxClosed, TypeOK, CallerTypeOK
<1>3. KeepaliveTypeOK'
    BY DEF RxClosed, TypeOK, KeepaliveTypeOK, kaVars
<1>4. BusTypeOK'
    BY DEF RxClosed, TypeOK, BusTypeOK, CallerTypeOK, busVars
<1> QED
    BY <1>1, <1>2, <1>3, <1>4 DEF RxClosed, TypeOK

(* A command backs off only while it has attempts left: without it the     *)
(* bound on the attempts in TypeOK is not kept by Backoff.                 *)
BackoffBelowBound == \A c \in Callers : pc[c] = "backoff" => attempt[c] < MaxAttempts

LEMMA BackoffTyped ==
    ASSUME TypeOK, BackoffBelowBound, NEW c \in Callers, Backoff(c)
    PROVE  TypeOK'
<1>1. LockTypeOK' /\ KeepaliveTypeOK' /\ BusTypeOK'
    BY DEF Backoff, TypeOK, LockTypeOK, KeepaliveTypeOK, BusTypeOK, lockVars, kaVars, busVars
<1>2. attempt[c] + 1 \in 1 .. MaxAttempts
    BY SessionAssumption DEF Backoff, BackoffBelowBound, TypeOK, CallerTypeOK
<1>3. CallerTypeOK'
    BY <1>2 DEF Backoff, TypeOK, CallerTypeOK, Goto, Labels
<1> QED
    BY <1>1, <1>3 DEF Backoff, TypeOK

LEMMA TakeConnectTyped ==
    ASSUME TypeOK, NEW c \in Callers, TakeConnect(c)
    PROVE  TypeOK'
<1>1. /\ Head(replyQ) \in Reply
      /\ replyQ' \in Seq(Reply) /\ Len(replyQ') <= QueueDepth
      /\ got' \in [Callers -> Nat]
      /\ abandoned' \in SUBSET Nat
    BY TakeTyped DEF TakeConnect, TypeOK
<1>2. BusTypeOK'
    BY <1>1 DEF TakeConnect, TypeOK, BusTypeOK, busVars
<1>3. CASE Accepted(Head(replyQ))
  <2>1. Return(c, "connected") /\ StartKeepalive /\ connected' = TRUE
    BY <1>3 DEF TakeConnect
  <2>2. LockTypeOK' /\ pc' \in [Callers -> Labels] /\ out' \in [Callers -> Outcomes]
    BY <2>1, ReturnTyped DEF TypeOK, Outcomes
  <2>3. KeepaliveTypeOK'
    BY <2>1, StartKeepaliveTyped DEF TakeConnect, TypeOK
  <2>4. CallerTypeOK'
    BY <1>1, <2>2 DEF TakeConnect, TypeOK, CallerTypeOK
  <2> QED
    BY <1>2, <2>1, <2>2, <2>3, <2>4 DEF TakeConnect, TypeOK
<1>4. CASE ~Accepted(Head(replyQ))
  <2> DEFINE o == IF Head(replyQ).res = "ack" THEN "protocol" ELSE Head(replyQ).res
  <2>1. Return(c, o) /\ UNCHANGED <<connected, kaSlot, ka, kaCancel>>
    BY <1>4 DEF TakeConnect
  <2>2. o \in Outcomes
    BY <1>1 DEF Reply, Results, Outcomes
  <2>3. LockTypeOK' /\ pc' \in [Callers -> Labels] /\ out' \in [Callers -> Outcomes]
    <3> HIDE DEF o
    <3> QED BY <2>1, <2>2, ReturnTyped DEF TypeOK
  <2>4. KeepaliveTypeOK'
    BY <2>1 DEF TakeConnect, TypeOK, KeepaliveTypeOK
  <2>5. CallerTypeOK'
    BY <1>1, <2>3 DEF TakeConnect, TypeOK, CallerTypeOK
  <2> QED
    BY <1>2, <2>1, <2>3, <2>4, <2>5 DEF TakeConnect, TypeOK
<1> QED
    BY <1>3, <1>4

LEMMA TakeSendTyped ==
    ASSUME TypeOK, NEW c \in Callers, TakeSend(c) \/ TakeGatedRetry(c)
    PROVE  TypeOK'
<1>1. /\ Take(c) /\ Return(c, Head(replyQ).res)
      /\ UNCHANGED <<session, connected, opn, phase, attempt, mine, clean, kaVars, busVars, rx,
                     nops, faults>>
    BY DEF TakeSend, TakeGatedRetry
<1>2. /\ Head(replyQ) \in Reply
      /\ replyQ' \in Seq(Reply) /\ Len(replyQ') <= QueueDepth
      /\ got' \in [Callers -> Nat]
      /\ abandoned' \in SUBSET Nat
    BY <1>1, TakeTyped DEF TypeOK
<1>3. Head(replyQ).res \in Outcomes
    BY <1>2 DEF Reply, Results, Outcomes
<1>4. LockTypeOK' /\ pc' \in [Callers -> Labels] /\ out' \in [Callers -> Outcomes]
    BY <1>1, <1>3, ReturnTyped DEF TypeOK
<1>5. BusTypeOK' /\ KeepaliveTypeOK'
    BY <1>1, <1>2 DEF TypeOK, BusTypeOK, KeepaliveTypeOK, busVars, kaVars
<1>6. CallerTypeOK'
    BY <1>1, <1>2, <1>4 DEF TypeOK, CallerTypeOK
<1> QED
    BY <1>1, <1>4, <1>5, <1>6 DEF TypeOK

LEMMA TakeRetryingTyped ==
    ASSUME TypeOK, NEW c \in Callers, TakeRetrying(c)
    PROVE  TypeOK'
<1>1. /\ Head(replyQ) \in Reply
      /\ replyQ' \in Seq(Reply) /\ Len(replyQ') <= QueueDepth
      /\ got' \in [Callers -> Nat]
      /\ abandoned' \in SUBSET Nat
    BY TakeTyped DEF TakeRetrying, TypeOK
<1>2. Head(replyQ).res \in Outcomes /\ "transient" \in Outcomes
    BY <1>1 DEF Reply, Results, Outcomes
<1>3. LockTypeOK' /\ pc' \in [Callers -> Labels] /\ out' \in [Callers -> Outcomes]
    BY <1>2, ReturnTyped, RetryOrReturnTyped DEF TakeRetrying, TypeOK
<1>4. BusTypeOK' /\ KeepaliveTypeOK'
    BY <1>1 DEF TakeRetrying, TypeOK, BusTypeOK, KeepaliveTypeOK, busVars, kaVars
<1>5. CallerTypeOK'
    BY <1>1, <1>3 DEF TakeRetrying, TypeOK, CallerTypeOK
<1> QED
    BY <1>3, <1>4, <1>5 DEF TakeRetrying, TypeOK

LEMMA TakeGatedFirstTyped ==
    ASSUME TypeOK, NEW c \in Callers, TakeGatedFirst(c)
    PROVE  TypeOK'
<1>1. /\ Head(replyQ) \in Reply
      /\ replyQ' \in Seq(Reply) /\ Len(replyQ') <= QueueDepth
      /\ got' \in [Callers -> Nat]
      /\ abandoned' \in SUBSET Nat
    BY TakeTyped DEF TakeGatedFirst, TypeOK
<1>2. BusTypeOK'
    BY <1>1 DEF TakeGatedFirst, TypeOK, BusTypeOK, busVars
<1>3. CASE Head(replyQ).res = "bad_session"
  <2>1. /\ Goto(c, IF kaSlot THEN "join" ELSE "ready")
        /\ connected' = FALSE /\ phase' = [phase EXCEPT ![c] = "reconnect"]
        /\ kaCancel' = kaSlot /\ kaSlot' = FALSE
        /\ UNCHANGED <<out, lockVars>>
    BY <1>3 DEF TakeGatedFirst
  <2>2. pc' \in [Callers -> Labels]
    BY <2>1, GotoTyped DEF TypeOK, Labels
  <2>3. CallerTypeOK'
    BY <1>1, <2>1, <2>2 DEF TakeGatedFirst, TypeOK, CallerTypeOK
  <2>4. KeepaliveTypeOK' /\ LockTypeOK'
    BY <2>1 DEF TakeGatedFirst, TypeOK, KeepaliveTypeOK, LockTypeOK, lockVars
  <2> QED
    BY <1>2, <2>1, <2>3, <2>4 DEF TakeGatedFirst, TypeOK
<1>4. CASE Head(replyQ).res # "bad_session"
  <2>1. Return(c, Head(replyQ).res) /\ UNCHANGED <<connected, phase, kaSlot, kaCancel>>
    BY <1>4 DEF TakeGatedFirst
  <2>2. Head(replyQ).res \in Outcomes
    BY <1>1 DEF Reply, Results, Outcomes
  <2>3. LockTypeOK' /\ pc' \in [Callers -> Labels] /\ out' \in [Callers -> Outcomes]
    BY <2>1, <2>2, ReturnTyped DEF TypeOK
  <2>4. CallerTypeOK' /\ KeepaliveTypeOK'
    BY <1>1, <2>1, <2>3 DEF TakeGatedFirst, TypeOK, CallerTypeOK, KeepaliveTypeOK
  <2> QED
    BY <1>2, <2>1, <2>3, <2>4 DEF TakeGatedFirst, TypeOK
<1> QED
    BY <1>3, <1>4

LEMMA TakeReconnectTyped ==
    ASSUME TypeOK, NEW c \in Callers, TakeReconnect(c)
    PROVE  TypeOK'
<1>1. /\ Head(replyQ) \in Reply
      /\ replyQ' \in Seq(Reply) /\ Len(replyQ') <= QueueDepth
      /\ got' \in [Callers -> Nat]
      /\ abandoned' \in SUBSET Nat
    BY TakeTyped DEF TakeReconnect, TypeOK
<1>2. BusTypeOK'
    BY <1>1 DEF TakeReconnect, TypeOK, BusTypeOK, busVars
<1>3. CASE Accepted(Head(replyQ))
  <2>1. /\ Goto(c, "ready") /\ StartKeepalive
        /\ connected' = TRUE /\ phase' = [phase EXCEPT ![c] = "retry"]
        /\ UNCHANGED <<out, lockVars>>
    BY <1>3 DEF TakeReconnect
  <2>2. pc' \in [Callers -> Labels]
    BY <2>1, GotoTyped DEF TypeOK, Labels
  <2>3. CallerTypeOK'
    BY <1>1, <2>1, <2>2 DEF TakeReconnect, TypeOK, CallerTypeOK
  <2>4. KeepaliveTypeOK'
    BY <2>1, StartKeepaliveTyped DEF TakeReconnect, TypeOK
  <2>5. LockTypeOK'
    BY <2>1 DEF TypeOK, LockTypeOK, lockVars
  <2> QED
    BY <1>2, <2>1, <2>3, <2>4, <2>5 DEF TakeReconnect, TypeOK
<1>4. CASE ~Accepted(Head(replyQ))
  <2>1. Return(c, "protocol") /\ UNCHANGED <<connected, phase, kaSlot, ka, kaCancel>>
    BY <1>4 DEF TakeReconnect
  <2>2. LockTypeOK' /\ pc' \in [Callers -> Labels] /\ out' \in [Callers -> Outcomes]
    BY <2>1, ReturnTyped DEF TypeOK, Outcomes
  <2>3. CallerTypeOK' /\ KeepaliveTypeOK'
    BY <1>1, <2>1, <2>2 DEF TakeReconnect, TypeOK, CallerTypeOK, KeepaliveTypeOK
  <2> QED
    BY <1>2, <2>1, <2>2, <2>3 DEF TakeReconnect, TypeOK
<1> QED
    BY <1>3, <1>4

LEMMA JoinKeepaliveTyped ==
    ASSUME TypeOK, NEW c \in Callers, JoinKeepalive(c)
    PROVE  TypeOK'
<1>1. /\ LockTypeOK' /\ pc' \in [Callers -> Labels] /\ out' \in [Callers -> Outcomes]
      /\ rx' \in {"run", "dead"} /\ session' \in {"open", "closing", "closed", "dropped"}
  <2>1. CASE opn[c] = "disconnect"
    BY <2>1, ReturnTyped DEF JoinKeepalive, TypeOK, Outcomes, Results
  <2>2. CASE opn[c] # "disconnect"
    BY <2>2, GotoTyped DEF JoinKeepalive, TypeOK, Labels, LockTypeOK, CallerTypeOK, BusTypeOK, lockVars
  <2> QED
    BY <2>1, <2>2
<1>2. CallerTypeOK'
    BY <1>1 DEF JoinKeepalive, TypeOK, CallerTypeOK
<1>3. KeepaliveTypeOK' /\ BusTypeOK'
    BY <1>1 DEF JoinKeepalive, TypeOK, KeepaliveTypeOK, BusTypeOK, busVars
<1> QED
    BY <1>1, <1>2, <1>3 DEF JoinKeepalive, TypeOK

LEMMA DisconnectSendTyped ==
    ASSUME TypeOK, NEW c \in Callers, DisconnectSend(c)
    PROVE  TypeOK'
<1>1. CallerTypeOK'
    BY GotoTyped DEF DisconnectSend, TypeOK, CallerTypeOK, Labels
<1>2. LockTypeOK' /\ KeepaliveTypeOK'
    BY DEF DisconnectSend, TypeOK, LockTypeOK, KeepaliveTypeOK, lockVars, kaVars
<1>3. nsent' \in Nat /\ h2d' \in Seq(Request) /\ abandoned' \in SUBSET Nat /\ faults' \in Nat
  <2>1. CASE Put("DISCONNECT") /\ abandoned' = abandoned \cup {nsent + 1} /\ UNCHANGED faults
    BY <2>1, PutTyped DEF TypeOK, BusTypeOK, Kinds
  <2>2. CASE UNCHANGED <<h2d, nsent, abandoned>> /\ (faults' = faults + 1 \/ UNCHANGED faults)
    BY <2>2 DEF TypeOK, BusTypeOK
  <2> QED
    BY <2>1, <2>2 DEF DisconnectSend
<1>4. BusTypeOK'
    BY <1>3 DEF DisconnectSend, TypeOK, BusTypeOK
<1> QED
    BY <1>1, <1>2, <1>3, <1>4 DEF DisconnectSend, TypeOK

LEMMA DisconnectStopTyped ==
    ASSUME TypeOK, NEW c \in Callers, DisconnectStop(c)
    PROVE  TypeOK'
<1>1. /\ LockTypeOK' /\ pc' \in [Callers -> Labels] /\ out' \in [Callers -> Outcomes]
      /\ rx' \in {"run", "dead"} /\ session' \in {"open", "closing", "closed", "dropped"}
  <2>1. CASE ~kaSlot
    BY <2>1, ReturnTyped DEF DisconnectStop, TypeOK, Outcomes, Results
  <2>2. CASE kaSlot
    BY <2>2, GotoTyped DEF DisconnectStop, TypeOK, Labels, LockTypeOK, CallerTypeOK, BusTypeOK, lockVars
  <2> QED
    BY <2>1, <2>2
<1>2. CallerTypeOK'
    BY <1>1 DEF DisconnectStop, TypeOK, CallerTypeOK
<1>3. KeepaliveTypeOK' /\ BusTypeOK'
    BY <1>1 DEF DisconnectStop, TypeOK, KeepaliveTypeOK, BusTypeOK, busVars
<1> QED
    BY <1>1, <1>2, <1>3 DEF DisconnectStop, TypeOK

LEMMA CancelTyped ==
    ASSUME TypeOK, NEW c \in Callers, Cancel(c)
    PROVE  TypeOK'
<1>1. LockTypeOK'
    BY ReleaseTyped, LeaveQueueTyped DEF Cancel, TypeOK, Actors
<1>2. CallerTypeOK'
    BY DEF Cancel, TypeOK, CallerTypeOK, Labels
<1>3. KeepaliveTypeOK' /\ BusTypeOK'
    BY DEF Cancel, TypeOK, CallerTypeOK, KeepaliveTypeOK, BusTypeOK, kaVars, busVars
<1> QED
    BY <1>1, <1>2, <1>3 DEF Cancel, TypeOK

LEMMA DropSessionTyped ==
    ASSUME TypeOK, DropSession
    PROVE  TypeOK'
BY DEF DropSession, TypeOK, LockTypeOK, CallerTypeOK, KeepaliveTypeOK, BusTypeOK, callerVars,
       lockVars, busVars

LEMMA AbortStepTyped ==
    ASSUME TypeOK, AbortStep
    PROVE  TypeOK'
<1>1. LockTypeOK'
    BY EmptySeq DEF AbortStep, RxAborted, KeepaliveAborted, TypeOK, LockTypeOK, lockVars
<1>2. CallerTypeOK' /\ KeepaliveTypeOK' /\ BusTypeOK'
    BY DEF AbortStep, RxAborted, KeepaliveAborted, TypeOK, CallerTypeOK, KeepaliveTypeOK, BusTypeOK,
       callerVars, kaVars, busVars
<1> QED
    BY <1>1, <1>2 DEF AbortStep, RxAborted, KeepaliveAborted, TypeOK

LEMMA KeepaliveStepTyped ==
    ASSUME TypeOK, KeepaliveStep
    PROVE  TypeOK'
<1>1. CallerTypeOK' /\ session' \in {"open", "closing", "closed", "dropped"} /\ connected' \in BOOLEAN
      /\ nops' \in Nat /\ faults' \in Nat
    BY DEF KeepaliveStep, KeepaliveCancelled, KeepaliveFires, KeepaliveSend, KeepaliveReply,
           KeepaliveFails, TypeOK, CallerTypeOK, callerVars
<1>2. LockTypeOK'
  <2>1. CASE KeepaliveFires
    BY <2>1, AcquireTyped DEF KeepaliveFires, TypeOK, Actors
  <2>2. CASE KeepaliveReply \/ KeepaliveFails
    BY <2>2, ReleaseTyped DEF KeepaliveReply, KeepaliveFails, TypeOK
  <2>3. CASE KeepaliveCancelled \/ KeepaliveSend
    BY <2>3 DEF KeepaliveCancelled, KeepaliveSend, TypeOK, LockTypeOK, lockVars
  <2> QED
    BY <2>1, <2>2, <2>3 DEF KeepaliveStep
<1>3. KeepaliveTypeOK'
    BY DEF KeepaliveStep, KeepaliveCancelled, KeepaliveFires, KeepaliveSend, KeepaliveReply,
           KeepaliveFails, TypeOK, KeepaliveTypeOK, BusTypeOK
<1>4. BusTypeOK'
  <2>1. CASE KeepaliveSend
    <3>1. nsent' \in Nat /\ h2d' \in Seq(Request)
      BY <2>1, PutTyped DEF KeepaliveSend, TypeOK, Kinds
    <3> QED
      BY <2>1, <3>1 DEF KeepaliveSend, TypeOK, BusTypeOK
  <2>2. CASE KeepaliveReply
    <3>1. replyQ' \in Seq(Reply) /\ Len(replyQ') <= QueueDepth
      BY <2>2, ReplyQueue DEF KeepaliveReply, TypeOK
    <3> QED
      BY <2>2, <3>1 DEF KeepaliveReply, TypeOK, BusTypeOK, KeepaliveTypeOK, busVars
  <2>3. CASE KeepaliveCancelled \/ KeepaliveFires \/ KeepaliveFails
    BY <2>3 DEF KeepaliveCancelled, KeepaliveFires, KeepaliveFails, TypeOK, BusTypeOK,
                KeepaliveTypeOK, busVars
  <2> QED
    BY <2>1, <2>2, <2>3 DEF KeepaliveStep
<1> QED
    BY <1>1, <1>2, <1>3, <1>4 DEF TypeOK

LEMMA RxStepTyped ==
    ASSUME TypeOK, RxStep
    PROVE  TypeOK'
<1>1. CallerTypeOK' /\ LockTypeOK' /\ KeepaliveTypeOK'
    BY DEF RxStep, RxDeliver, RxDisconnected, TypeOK, CallerTypeOK, LockTypeOK, KeepaliveTypeOK,
           callerVars, lockVars, kaVars
<1>2. BusTypeOK'
  <2>1. CASE RxDeliver
    <3>1. Head(d2h) \in Reply /\ d2h' \in Seq(Reply)
      BY <2>1, HeadTailProperties DEF RxDeliver, TypeOK, BusTypeOK
    <3>2. replyQ' \in Seq(Reply) /\ Len(replyQ') = Len(replyQ) + 1
      BY <2>1, <3>1, AppendProperties DEF RxDeliver, TypeOK, BusTypeOK
    <3>3. Len(replyQ) \in Nat
      BY LenProperties DEF TypeOK, BusTypeOK
    <3>4. Len(replyQ') <= QueueDepth
      BY <2>1, <3>2, <3>3, SessionAssumption DEF RxDeliver
    <3> QED
      BY <2>1, <3>1, <3>2, <3>4 DEF RxDeliver, TypeOK, BusTypeOK
  <2>2. CASE RxDisconnected
    BY <2>2 DEF RxDisconnected, TypeOK, BusTypeOK, busVars
  <2> QED
    BY <2>1, <2>2 DEF RxStep
<1> QED
    BY <1>1, <1>2 DEF RxStep, RxDeliver, RxDisconnected, TypeOK

LEMMA DeviceStepTyped ==
    ASSUME TypeOK, DeviceStep
    PROVE  TypeOK'
<1>1. CallerTypeOK' /\ LockTypeOK' /\ KeepaliveTypeOK'
    BY DEF DeviceStep, DeviceServes, DeviceRefuses, BusLoses, DeviceExpires, TypeOK, CallerTypeOK,
           LockTypeOK, KeepaliveTypeOK, callerVars, lockVars, kaVars
<1>2. h2d # <<>> => Head(h2d) \in Request /\ Tail(h2d) \in Seq(Request)
    BY HeadTailProperties DEF TypeOK, BusTypeOK
<1>3. d2h # <<>> => Tail(d2h) \in Seq(Reply)
    BY HeadTailProperties DEF TypeOK, BusTypeOK
<1>4. BusTypeOK'
  <2>1. CASE DeviceServes
    <3> DEFINE r == [id |-> Head(h2d).id, kind |-> Head(h2d).kind, res |-> Verdict(Head(h2d))]
    <3>1. Verdict(Head(h2d)) \in Results
      BY DEF Verdict, Results
    <3>2. r \in Reply
      BY <2>1, <1>2, <3>1 DEF DeviceServes, Request, Reply
    <3>3. d2h' = Append(d2h, r) /\ h2d' = Tail(h2d) /\ h2d # <<>>
      BY <2>1 DEF DeviceServes
    <3>4. d2h' \in Seq(Reply) /\ h2d' \in Seq(Request)
      <4> HIDE DEF r
      <4> QED BY <1>2, <3>2, <3>3 DEF TypeOK, BusTypeOK
    <3>5. devSession' \in BOOLEAN
      BY <2>1 DEF DeviceServes, TypeOK, BusTypeOK
    <3> QED
      BY <2>1, <3>4, <3>5 DEF DeviceServes, TypeOK, BusTypeOK
  <2>2. CASE DeviceRefuses
    <3>1. [id |-> Head(h2d).id, kind |-> Head(h2d).kind, res |-> "transient"] \in Reply
      BY <2>2, <1>2 DEF DeviceRefuses, Request, Reply, Results
    <3> QED
      BY <2>2, <1>2, <3>1 DEF DeviceRefuses, TypeOK, BusTypeOK
  <2>3. CASE BusLoses \/ DeviceExpires
    BY <2>3, <1>2, <1>3 DEF BusLoses, DeviceExpires, TypeOK, BusTypeOK
  <2> QED
    BY <2>1, <2>2, <2>3 DEF DeviceStep
<1>5. UNCHANGED <<session, connected, nops>> /\ (faults' = faults + 1 \/ UNCHANGED faults)
    BY DEF DeviceStep, DeviceServes, DeviceRefuses, BusLoses, DeviceExpires
<1> QED
    BY <1>1, <1>4, <1>5 DEF TypeOK

LEMMA CallerStepTyped ==
    ASSUME TypeOK, BackoffBelowBound, NEW c \in Callers, CallerStep(c) \/ Cancel(c)
    PROVE  TypeOK'
BY DrainTyped, TransmitTyped, TransmitFailsTyped, CommandTimeoutTyped, RxClosedTyped, BackoffTyped,
   TakeConnectTyped, TakeSendTyped, TakeRetryingTyped, TakeGatedFirstTyped, TakeReconnectTyped,
   JoinKeepaliveTyped, DisconnectSendTyped, DisconnectStopTyped, CancelTyped
   DEF CallerStep

LEMMA StutterTyped ==
    ASSUME TypeOK, UNCHANGED vars
    PROVE  TypeOK'
BY DEF vars, callerVars, lockVars, kaVars, busVars, TypeOK, LockTypeOK, CallerTypeOK,
       KeepaliveTypeOK, BusTypeOK

LEMMA NextTyped ==
    ASSUME TypeOK, BackoffBelowBound, [Next]_vars
    PROVE  TypeOK'
BY StartTyped, CallerStepTyped, DropSessionTyped, AbortStepTyped, KeepaliveStepTyped, RxStepTyped, DeviceStepTyped,
   StutterTyped DEF Next, Finished

(* Only a failed attempt that is not the last leads to the backoff.        *)
LEMMA BackoffBelowBoundStep ==
    ASSUME TypeOK, BackoffBelowBound, [Next]_vars
    PROVE  BackoffBelowBound'
<1> SUFFICES ASSUME NEW d \in Callers, pc'[d] = "backoff"
             PROVE  attempt'[d] < MaxAttempts
    BY DEF BackoffBelowBound
<1> USE DEF BackoffBelowBound, TypeOK, CallerTypeOK, Goto
<1>1. CASE UNCHANGED <<pc, attempt>>
    BY <1>1
<1>2. ASSUME NEW c \in Callers, NEW o \in Ops, Start(c, o)
      PROVE  attempt'[d] < MaxAttempts
    BY <1>2 DEF Start
<1>3. ASSUME NEW c \in Callers, NEW o, RetryOrReturn(c, o), UNCHANGED attempt
      PROVE  attempt'[d] < MaxAttempts
    BY <1>3 DEF RetryOrReturn, Return
<1>4. ASSUME NEW c \in Callers, NEW o, Return(c, o), UNCHANGED attempt
      PROVE  attempt'[d] < MaxAttempts
    BY <1>4 DEF Return
<1>5. ASSUME NEW c \in Callers, NEW label \in Labels \ {"backoff"}, Goto(c, label), UNCHANGED attempt
      PROVE  attempt'[d] < MaxAttempts
    BY <1>5
<1>6. ASSUME NEW c \in Callers, CallerStep(c) \/ Cancel(c)
      PROVE  attempt'[d] < MaxAttempts
  <2>1. CASE Drain(c) \/ Transmit(c) \/ DisconnectSend(c) \/ Cancel(c)
    BY <1>6, <2>1 DEF Drain, Transmit, DisconnectSend, Cancel
  <2>2. CASE TransmitFails(c) \/ CommandTimeout(c)
    BY <2>2, <1>3 DEF TransmitFails, CommandTimeout
  <2>3. CASE RxClosed(c) \/ TakeSend(c) \/ TakeGatedRetry(c)
    BY <2>3, <1>4 DEF RxClosed, TakeSend, TakeGatedRetry
  <2>4. CASE TakeRetrying(c)
    BY <2>4, <1>3, <1>4 DEF TakeRetrying
  <2>5. CASE TakeConnect(c)
    BY <2>5, <1>4 DEF TakeConnect
  <2>6. CASE TakeGatedFirst(c) \/ TakeReconnect(c)
    BY <2>6, <1>4, <1>5 DEF TakeGatedFirst, TakeReconnect, Labels
  <2>7. CASE JoinKeepalive(c) \/ DisconnectStop(c)
    BY <2>7, <1>4, <1>5 DEF JoinKeepalive, DisconnectStop, Labels
  <2>8. CASE Backoff(c)
    BY <2>8 DEF Backoff
  <2> QED
    BY <1>6, <2>1, <2>2, <2>3, <2>4, <2>5, <2>6, <2>7, <2>8 DEF CallerStep
<1>7. CASE DropSession \/ AbortStep \/ KeepaliveStep \/ RxStep \/ DeviceStep \/ UNCHANGED vars
    BY <1>7, <1>1 DEF DropSession, AbortStep, RxAborted, KeepaliveAborted, KeepaliveStep, KeepaliveCancelled, KeepaliveFires, KeepaliveSend,
           KeepaliveReply, KeepaliveFails, RxStep, RxDeliver, RxDisconnected, DeviceStep, DeviceServes,
           DeviceRefuses, BusLoses, DeviceExpires, callerVars, vars
<1> QED
    BY <1>2, <1>6, <1>7 DEF Next, Finished

LEMMA TypeInvariant == Spec => [](TypeOK /\ BackoffBelowBound)
<1>1. Init => TypeOK /\ BackoffBelowBound
    BY InitTyped DEF Init, BackoffBelowBound
<1>2. TypeOK /\ BackoffBelowBound /\ [Next]_vars => (TypeOK /\ BackoffBelowBound)'
    BY NextTyped, BackoffBelowBoundStep
<1> QED
    BY <1>1, <1>2, PTL DEF Spec

(* Every variable of the session keeps its type, the reply channel never   *)
(* exceeds its capacity and a retrying command never exceeds its attempts. *)
THEOREM TypeCorrect == Spec => []TypeOK
BY TypeInvariant, PTL


-----------------------------------------------------------------------------
(* Drop takes the session by value: no operation is left, and none starts. *)

LEMMA StepperNotIdle ==
    ASSUME NEW c \in Callers, CallerStep(c)
    PROVE  pc[c] # "idle"
BY DEF CallerStep, Drain, Transmit, TransmitFails, CommandTimeout, RxClosed, Backoff,
   TakeConnect, TakeSend, TakeRetrying, TakeGatedFirst, TakeReconnect, TakeGatedRetry, Take,
   JoinKeepalive, DisconnectSend, DisconnectStop

DropIsLast == session = "dropped" => \A c \in Callers : pc[c] = "idle"

LEMMA DropIsLastStep ==
    ASSUME TypeOK, DropIsLast, [Next]_vars
    PROVE  DropIsLast'
<1> USE DEF DropIsLast, TypeOK, CallerTypeOK
<1>1. ASSUME NEW c \in Callers, NEW o \in Ops, Start(c, o)
      PROVE  DropIsLast'
    BY <1>1 DEF Start
<1>2. ASSUME NEW c \in Callers, CallerStep(c)
      PROVE  DropIsLast'
  <2>1. session # "dropped"
    BY <1>2, StepperNotIdle
  <2>2. session' \in {session, "closed"}
    BY <1>2 DEF CallerStep, Drain, Transmit, TransmitFails, CommandTimeout, RxClosed, Backoff,
       TakeConnect, TakeSend, TakeRetrying, TakeGatedFirst, TakeReconnect, TakeGatedRetry,
       JoinKeepalive, DisconnectSend, DisconnectStop
  <2> QED
    BY <2>1, <2>2
<1>3. ASSUME NEW c \in Callers, Cancel(c)
      PROVE  DropIsLast'
    BY <1>3 DEF Cancel
<1>4. CASE DropSession
    BY <1>4 DEF DropSession, callerVars
<1>5. CASE AbortStep \/ KeepaliveStep \/ RxStep \/ DeviceStep \/ UNCHANGED vars
  <2>1. UNCHANGED <<session, pc>>
    BY <1>5 DEF AbortStep, RxAborted, KeepaliveAborted, KeepaliveStep, KeepaliveCancelled,
       KeepaliveFires, KeepaliveSend, KeepaliveReply, KeepaliveFails, RxStep, RxDeliver,
       RxDisconnected, DeviceStep, DeviceServes, DeviceRefuses, BusLoses, DeviceExpires,
       callerVars, vars
  <2> QED
    BY <2>1
<1> QED
    BY <1>1, <1>2, <1>3, <1>4, <1>5 DEF Next, Finished

LEMMA DropIsLastInvariant == Spec => []DropIsLast
<1>1. Init => DropIsLast
    BY DEF Init, DropIsLast
<1>2. TypeOK /\ DropIsLast /\ [Next]_vars => DropIsLast'
    BY DropIsLastStep
<1> QED
    BY <1>1, <1>2, TypeCorrect, PTL DEF Spec

-----------------------------------------------------------------------------
(* One command in flight.                                                  *)

(* If the lock does not move, nobody but its holder may come inside.       *)
LEMMA LockStays ==
    ASSUME OneCommandInFlight, UNCHANGED holder,
           \A b \in Actors : Inside(b)' => Inside(b) \/ holder = b
    PROVE  OneCommandInFlight'
BY DEF OneCommandInFlight

(* A lock that is free, or given up by a task that goes outside, has       *)
(* nobody inside; whom it passes to does not matter.                       *)
LEMMA LockMoves ==
    ASSUME OneCommandInFlight, NEW a, holder = a \/ holder = NoOne,
           a \in Actors => ~Inside(a)',
           \A b \in Actors \ {a} : Inside(b)' => Inside(b)
    PROVE  OneCommandInFlight'
BY SessionAssumption DEF OneCommandInFlight, Actors

LEMMA StartKeepsOne ==
    ASSUME TypeOK, OneCommandInFlight, NEW c \in Callers, NEW o \in Ops, Start(c, o)
    PROVE  OneCommandInFlight'
<1>1. \A b \in Actors : Inside(b)' => Inside(b)
    BY DEF Start, Inside, Actors, Goto, kaVars, TypeOK, CallerTypeOK
<1>2. CASE holder = NoOne
    BY <1>1, <1>2, SessionAssumption DEF OneCommandInFlight, Actors
<1>3. CASE holder # NoOne
    BY <1>1, <1>3, LockStays DEF Start, Acquire
<1> QED
    BY <1>2, <1>3

(* The step of a caller that returns while it holds the lock.              *)
LEMMA ReturnKeepsOne ==
    ASSUME TypeOK, OneCommandInFlight, NEW c \in Callers, holder = c, NEW o, Return(c, o),
           ka' \in {ka, "none", "sleep"}
    PROVE  OneCommandInFlight'
BY LockMoves, SessionAssumption DEF Return, Inside, Actors, TypeOK, CallerTypeOK

(* The step of a caller that keeps the lock.                               *)
LEMMA GotoKeepsOne ==
    ASSUME TypeOK, OneCommandInFlight, NEW c \in Callers, holder = c, NEW label, Goto(c, label),
           UNCHANGED holder, ka' \in {ka, "none", "sleep"}
    PROVE  OneCommandInFlight'
BY LockStays, SessionAssumption DEF Goto, Inside, Actors, TypeOK, CallerTypeOK

LEMMA CallerKeepsOne ==
    ASSUME TypeOK, OneCommandInFlight, NEW c \in Callers, CallerStep(c)
    PROVE  OneCommandInFlight'
<1>1. pc[c] \in {"send", "wait", "backoff", "join", "stop"} => holder = c
    BY DEF OneCommandInFlight, Inside, Actors
<1>2. ASSUME NEW o, RetryOrReturn(c, o), holder = c, UNCHANGED ka
      PROVE  OneCommandInFlight'
    BY <1>2, GotoKeepsOne, ReturnKeepsOne DEF RetryOrReturn, lockVars
<1>3. CASE Drain(c) \/ Transmit(c) \/ Backoff(c) \/ DisconnectSend(c)
    BY <1>1, <1>3, GotoKeepsOne DEF Drain, Transmit, Backoff, DisconnectSend, lockVars, kaVars
<1>4. CASE TransmitFails(c) \/ CommandTimeout(c)
    BY <1>1, <1>2, <1>4 DEF TransmitFails, CommandTimeout, kaVars
<1>5. CASE RxClosed(c) \/ TakeSend(c) \/ TakeGatedRetry(c)
    BY <1>1, <1>5, ReturnKeepsOne DEF RxClosed, TakeSend, TakeGatedRetry, Take, kaVars
<1>6. CASE TakeRetrying(c)
    BY <1>1, <1>2, <1>6, ReturnKeepsOne DEF TakeRetrying, Take, kaVars
<1>7. CASE TakeConnect(c)
    BY <1>1, <1>7, ReturnKeepsOne DEF TakeConnect, Take, StartKeepalive
<1>8. CASE TakeGatedFirst(c)
    BY <1>1, <1>8, ReturnKeepsOne, GotoKeepsOne DEF TakeGatedFirst, Take, lockVars
<1>9. CASE TakeReconnect(c)
    BY <1>1, <1>9, ReturnKeepsOne, GotoKeepsOne DEF TakeReconnect, Take, StartKeepalive, lockVars
<1>10. CASE JoinKeepalive(c)
    BY <1>1, <1>10, ReturnKeepsOne, GotoKeepsOne DEF JoinKeepalive, lockVars
<1>11. CASE DisconnectStop(c)
    BY <1>1, <1>11, ReturnKeepsOne, GotoKeepsOne DEF DisconnectStop, lockVars
<1> QED
    BY <1>3, <1>4, <1>5, <1>6, <1>7, <1>8, <1>9, <1>10, <1>11 DEF CallerStep

LEMMA CancelKeepsOne ==
    ASSUME TypeOK, OneCommandInFlight, NEW c \in Callers, Cancel(c)
    PROVE  OneCommandInFlight'
<1>1. ~Inside(c)' /\ \A b \in Actors \ {c} : Inside(b)' => Inside(b)
    BY SessionAssumption DEF Cancel, Inside, Actors, TypeOK, CallerTypeOK, kaVars
<1>2. CASE holder = c
    BY <1>1, <1>2, LockMoves
<1>3. CASE holder # c
    BY <1>1, <1>3, LockStays DEF Cancel, LeaveQueue, Actors
<1> QED
    BY <1>2, <1>3

LEMMA KeepaliveKeepsOne ==
    ASSUME TypeOK, OneCommandInFlight, KeepaliveStep
    PROVE  OneCommandInFlight'
<1>1. \A b \in Callers : Inside(b)' => Inside(b)
    BY SessionAssumption DEF KeepaliveStep, KeepaliveCancelled, KeepaliveFires, KeepaliveSend,
       KeepaliveReply, KeepaliveFails, callerVars, Inside
<1>2. CASE KeepaliveCancelled \/ KeepaliveSend
    BY <1>1, <1>2, LockStays DEF KeepaliveCancelled, KeepaliveSend, lockVars, Inside, Actors
<1>3. CASE KeepaliveFires
  <2>1. ~Inside(KA)'
    BY <1>3, SessionAssumption DEF KeepaliveFires, Inside
  <2>2. CASE holder = NoOne
    BY <1>1, <2>1, <2>2, LockMoves DEF Actors
  <2>3. CASE holder # NoOne
    BY <1>1, <1>3, <2>1, <2>3, LockStays DEF KeepaliveFires, Acquire, Actors
  <2> QED
    BY <2>2, <2>3
<1>4. CASE KeepaliveReply \/ KeepaliveFails
  <2>1. holder = KA
    BY <1>4 DEF KeepaliveReply, KeepaliveFails, OneCommandInFlight, Inside, Actors
  <2>2. ~Inside(KA)'
    BY <1>4, SessionAssumption DEF KeepaliveReply, KeepaliveFails, Inside
  <2> QED
    BY <1>1, <2>1, <2>2, LockMoves DEF Actors
<1> QED
    BY <1>2, <1>3, <1>4 DEF KeepaliveStep

LEMMA OneCommandStep ==
    ASSUME TypeOK, DropIsLast, OneCommandInFlight, [Next]_vars
    PROVE  OneCommandInFlight'
<1>0. CASE DropSession
    BY <1>0 DEF DropSession, OneCommandInFlight, Inside, Actors, callerVars, lockVars
<1>1. CASE AbortStep
    BY <1>1 DEF AbortStep, RxAborted, KeepaliveAborted, DropIsLast, OneCommandInFlight, Inside,
       Actors, callerVars, lockVars, kaVars
<1>2. CASE RxStep \/ DeviceStep \/ UNCHANGED vars
  <2>1. UNCHANGED <<holder, pc, ka>>
    BY <1>2 DEF RxStep, RxDeliver, RxDisconnected, DeviceStep, DeviceServes, DeviceRefuses,
       BusLoses, DeviceExpires, callerVars, lockVars, kaVars, vars
  <2> QED
    BY <2>1, LockStays DEF Inside
<1> QED
    BY <1>0, <1>1, <1>2, StartKeepsOne, CallerKeepsOne, CancelKeepsOne, KeepaliveKeepsOne
    DEF Next, Finished

(* Only one command is ever in flight: a task past the acquisition of      *)
(* command_lock holds it, for any number of callers, whatever the bus      *)
(* loses and wherever a command is cancelled.                              *)
THEOREM SingleInFlight == Spec => []OneCommandInFlight
<1>1. Init => OneCommandInFlight
    BY SessionAssumption DEF Init, OneCommandInFlight, Inside, Actors
<1>2. TypeOK /\ DropIsLast /\ OneCommandInFlight /\ [Next]_vars => OneCommandInFlight'
    BY OneCommandStep
<1> QED
    BY <1>1, <1>2, TypeCorrect, DropIsLastInvariant, PTL DEF Spec

-----------------------------------------------------------------------------
(* The reconnect of send_session_gated.                                    *)

(* A caller steps only with the lock, and leaves the others where they are.*)
LEMMA CallerHolds ==
    ASSUME OneCommandInFlight, NEW c \in Callers, CallerStep(c)
    PROVE  holder = c
<1>1. pc[c] \in {"send", "wait", "backoff", "join", "stop"} => holder = c
    BY DEF OneCommandInFlight, Inside, Actors
<1> QED
    BY <1>1 DEF CallerStep, Drain, Transmit, TransmitFails, CommandTimeout, RxClosed, Backoff,
       TakeConnect, TakeSend, TakeRetrying, TakeGatedFirst, TakeReconnect, TakeGatedRetry, Take,
       JoinKeepalive, DisconnectSend, DisconnectStop

LEMMA CallerFrame ==
    ASSUME TypeOK, NEW c \in Callers, CallerStep(c)
    PROVE  /\ \A d \in Callers \ {c} : /\ pc'[d] = pc[d] /\ phase'[d] = phase[d]
                                       /\ mine'[d] = mine[d] /\ got'[d] = got[d]
                                       /\ clean'[d] = clean[d]
           /\ opn' = opn
           /\ holder' = holder \/ pc'[c] = "idle"
<1> USE DEF TypeOK, CallerTypeOK, Goto, Return
<1>1. CASE Drain(c) \/ Transmit(c) \/ Backoff(c) \/ DisconnectSend(c)
    BY <1>1 DEF Drain, Transmit, Backoff, DisconnectSend, lockVars
<1>2. CASE TransmitFails(c) \/ CommandTimeout(c) \/ RxClosed(c)
    BY <1>2 DEF TransmitFails, CommandTimeout, RxClosed, RetryOrReturn, lockVars
<1>3. CASE TakeConnect(c) \/ TakeSend(c) \/ TakeRetrying(c) \/ TakeGatedRetry(c)
    BY <1>3 DEF TakeConnect, TakeSend, TakeRetrying, TakeGatedRetry, Take, RetryOrReturn, lockVars
<1>4. CASE TakeGatedFirst(c) \/ TakeReconnect(c)
    BY <1>4 DEF TakeGatedFirst, TakeReconnect, Take, lockVars
<1>5. CASE JoinKeepalive(c) \/ DisconnectStop(c)
    BY <1>5 DEF JoinKeepalive, DisconnectStop, lockVars
<1> QED
    BY <1>1, <1>2, <1>3, <1>4, <1>5 DEF CallerStep

(* From the BAD_SESSION reply to its return, the gated command holds the   *)
(* lock.                                                                   *)
ReconnectHoldsLock ==
    \A c \in Callers : opn[c] = "gated" /\ pc[c] # "idle" /\ phase[c] # "first" => holder = c

LEMMA ReconnectHoldsLockStep ==
    ASSUME TypeOK, DropIsLast, OneCommandInFlight, ReconnectHoldsLock, [Next]_vars
    PROVE  ReconnectHoldsLock'
<1> SUFFICES ASSUME NEW d \in Callers, opn'[d] = "gated", pc'[d] # "idle", phase'[d] # "first"
             PROVE  holder' = d
    BY DEF ReconnectHoldsLock
<1> USE DEF ReconnectHoldsLock
<1>1. ASSUME NEW c \in Callers, NEW o \in Ops, Start(c, o)
      PROVE  holder' = d
    BY <1>1, SessionAssumption DEF Start, Acquire, Goto, TypeOK, CallerTypeOK
<1>2. ASSUME NEW c \in Callers, CallerStep(c)
      PROVE  holder' = d
    BY <1>2, CallerHolds, CallerFrame
<1>3. ASSUME NEW c \in Callers, Cancel(c)
      PROVE  holder' = d
    BY <1>3 DEF Cancel, LeaveQueue, TypeOK, CallerTypeOK
<1>4. CASE DropSession \/ AbortStep
    BY <1>4 DEF DropSession, AbortStep, RxAborted, KeepaliveAborted, DropIsLast, callerVars, lockVars
<1>5. CASE KeepaliveStep
  <2>1. holder = d
    BY <1>5 DEF KeepaliveStep, KeepaliveCancelled, KeepaliveFires, KeepaliveSend, KeepaliveReply,
       KeepaliveFails, callerVars
  <2>2. ~(KeepaliveReply \/ KeepaliveFails)
    BY <2>1, SessionAssumption
    DEF KeepaliveReply, KeepaliveFails, OneCommandInFlight, Inside, Actors
  <2> QED
    BY <1>5, <2>1, <2>2, SessionAssumption DEF KeepaliveStep, KeepaliveCancelled, KeepaliveFires,
       KeepaliveSend, Acquire, lockVars
<1>6. CASE RxStep \/ DeviceStep \/ UNCHANGED vars
    BY <1>6 DEF RxStep, RxDeliver, RxDisconnected, DeviceStep, DeviceServes, DeviceRefuses,
       BusLoses, DeviceExpires, callerVars, lockVars, vars
<1> QED
    BY <1>1, <1>2, <1>3, <1>4, <1>5, <1>6 DEF Next, Finished

(* A step that puts a request on the bus is a step of the lock's holder.   *)
LEMMA SenderHolds ==
    ASSUME TypeOK, OneCommandInFlight, [Next]_vars, nsent' # nsent
    PROVE  \/ \E c \in Callers : holder = c /\ mine'[c] = nsent'
           \/ \E c \in Callers : holder = c /\ opn[c] = "disconnect"
           \/ holder = KA
<1>1. ASSUME NEW c \in Callers, CallerStep(c)
      PROVE  holder = c /\ (mine'[c] = nsent' \/ opn[c] = "disconnect")
  <2>1. Transmit(c) \/ DisconnectSend(c)
    BY <1>1 DEF CallerStep, Drain, TransmitFails, CommandTimeout, RxClosed, Backoff,
       TakeConnect, TakeSend, TakeRetrying, TakeGatedFirst, TakeReconnect, TakeGatedRetry,
       JoinKeepalive, DisconnectStop, busVars
  <2> QED
    BY <1>1, <2>1, CallerHolds DEF Transmit, Put, DisconnectSend, TypeOK, CallerTypeOK
<1>2. CASE KeepaliveStep
    BY <1>2 DEF KeepaliveStep, KeepaliveCancelled, KeepaliveFires, KeepaliveSend, KeepaliveReply,
       KeepaliveFails, busVars
<1>3. ~ \E c \in Callers, o \in Ops : Start(c, o)
    BY DEF Start, busVars
<1>4. ~ \E c \in Callers : Cancel(c)
    BY DEF Cancel, busVars
<1>5. ~ (DropSession \/ AbortStep \/ RxStep \/ DeviceStep \/ UNCHANGED vars)
    BY DEF DropSession, AbortStep, RxAborted, KeepaliveAborted, RxStep, RxDeliver, RxDisconnected, DeviceStep, DeviceServes, DeviceRefuses,
       BusLoses, DeviceExpires, busVars, vars
<1> QED
    BY <1>1, <1>2, <1>3, <1>4, <1>5 DEF Next, Finished

LEMMA ReconnectHoldsLockInvariant == Spec => []ReconnectHoldsLock
<1>1. Init => ReconnectHoldsLock
    BY DEF Init, ReconnectHoldsLock
<1>2. TypeOK /\ DropIsLast /\ OneCommandInFlight /\ ReconnectHoldsLock /\ [Next]_vars
      => ReconnectHoldsLock'
    BY ReconnectHoldsLockStep
<1> QED
    BY <1>1, <1>2, TypeCorrect, DropIsLastInvariant, SingleInFlight, PTL DEF Spec

(* No request of another caller or of the keepalive comes between the      *)
(* BAD_SESSION reply of a gated command and the return of its resend.      *)
THEOREM AtomicReconnect == Spec => ReconnectIsAtomic
<1> DEFINE Sends ==
      \A c \in Callers :
          opn[c] = "gated" /\ pc[c] # "idle" /\ phase[c] # "first" /\ nsent' # nsent
          => mine'[c] = nsent'
<1>3. ASSUME TypeOK, OneCommandInFlight, ReconnectHoldsLock, [Next]_vars
      PROVE  [Sends]_vars
    BY <1>3, SenderHolds, SessionAssumption DEF ReconnectHoldsLock
<1>4. TypeOK /\ OneCommandInFlight /\ ReconnectHoldsLock /\ [Next]_vars => [Sends]_vars
    BY <1>3
<1>5. ReconnectIsAtomic <=> [][Sends]_vars
    BY PTL DEF ReconnectIsAtomic
<1> HIDE DEF Sends
<1> QED
    BY <1>4, <1>5, ReconnectHoldsLockInvariant, TypeCorrect, SingleInFlight, PTL DEF Spec

-----------------------------------------------------------------------------
(* The drain of send_raw_with_timeout.                                     *)

(* Every message of q is request id, or answers it.                        *)
Carries(q, id) == \A i \in 1 .. Len(q) : q[i].id = id

LEMMA EmptyCarries == \A id : Carries(<<>>, id)
BY EmptySeq DEF Carries

LEMMA HeadCarries ==
    ASSUME NEW S, NEW q \in Seq(S), q # <<>>, NEW id, Carries(q, id)
    PROVE  Head(q).id = id /\ Carries(Tail(q), id)
<1>1. Len(q) \in Nat \ {0} /\ Head(q) = q[1]
    BY EmptySeq
<1>2. /\ Len(Tail(q)) = Len(q) - 1
      /\ \A i \in 1 .. Len(Tail(q)) : Tail(q)[i] = q[i + 1]
    BY HeadTailProperties
<1> QED
    BY <1>1, <1>2 DEF Carries

LEMMA AppendCarries ==
    ASSUME NEW S, NEW q \in Seq(S), NEW e \in S, NEW id, Carries(q, id), e.id = id
    PROVE  Carries(Append(q, e), id)
<1>1. /\ Len(Append(q, e)) = Len(q) + 1
      /\ \A i \in 1 .. Len(q) : Append(q, e)[i] = q[i]
      /\ Append(q, e)[Len(q) + 1] = e
    BY AppendProperties
<1>2. Len(q) \in Nat
    BY LenProperties
<1>3. ASSUME NEW i \in 1 .. Len(Append(q, e)) PROVE Append(q, e)[i].id = id
    <2>1. i \in 1 .. Len(q) \/ i = Len(q) + 1
      BY <1>1, <1>2
    <2> QED
      BY <1>1, <2>1 DEF Carries
<1> QED
    BY <1>3 DEF Carries

(* What a drained bus is worth: until the reply is taken, the bus carries  *)
(* nothing but the caller's own request and its answers.                   *)
BusIsOwn(c) ==
    /\ pc[c] \in {"send", "wait"} => got[c] = 0
    /\ clean[c] /\ pc[c] = "send" => h2d = <<>> /\ d2h = <<>> /\ replyQ = <<>>
    /\ clean[c] /\ pc[c] = "wait" =>
           Carries(h2d, mine[c]) /\ Carries(d2h, mine[c]) /\ Carries(replyQ, mine[c])
    /\ clean[c] /\ got[c] # 0 => got[c] = mine[c]

BusIsOwnAll == \A c \in Callers : BusIsOwn(c)

(* A step that moves neither the caller nor the bus.                       *)
LEMMA BusIsOwnFrame ==
    ASSUME NEW d \in Callers, BusIsOwn(d),
           pc'[d] = pc[d] \/ pc'[d] \notin {"send", "wait"},
           mine'[d] = mine[d], got'[d] \in {got[d], 0}, clean'[d] = clean[d],
           pc[d] \in {"send", "wait"} => UNCHANGED <<h2d, d2h, replyQ>> \/ pc'[d] # pc[d]
    PROVE  BusIsOwn(d)'
BY DEF BusIsOwn

LEMMA TakeIsOwn ==
    ASSUME TypeOK, NEW d \in Callers, BusIsOwn(d), Take(d),
           pc'[d] \notin {"send", "wait"}, mine' = mine, clean' = clean
    PROVE  BusIsOwn(d)'
<1>1. got'[d] = Head(replyQ).id
    BY DEF Take, TypeOK, CallerTypeOK
<1>2. clean[d] => Head(replyQ).id = mine[d]
    BY HeadCarries DEF Take, BusIsOwn, TypeOK, BusTypeOK
<1> QED
    BY <1>1, <1>2 DEF BusIsOwn

LEMMA OwnerStepIsOwn ==
    ASSUME TypeOK, NEW d \in Callers, BusIsOwn(d), CallerStep(d)
    PROVE  BusIsOwn(d)'
<1> USE DEF TypeOK, CallerTypeOK
<1>1. CASE Drain(d)
    BY <1>1 DEF Drain, Goto, BusIsOwn, busVars
<1>2. CASE Transmit(d)
  <2>1. /\ pc'[d] = "wait" /\ mine'[d] = nsent + 1 /\ got'[d] = 0 /\ clean'[d] = clean[d]
        /\ UNCHANGED <<d2h, replyQ>>
    BY <1>2 DEF Transmit, Goto, BusIsOwn
  <2>2. ASSUME clean[d]
        PROVE  Carries(h2d', nsent + 1) /\ d2h = <<>> /\ replyQ = <<>>
    <3> DEFINE q == [id |-> nsent + 1, kind |-> KindFor(d)]
    <3>1. h2d = <<>> /\ d2h = <<>> /\ replyQ = <<>> /\ h2d' = Append(h2d, q)
      BY <1>2, <2>2 DEF Transmit, Put, BusIsOwn
    <3>2. q.id = nsent + 1 /\ q \in {q} /\ <<>> \in Seq({q})
      BY EmptySeq
    <3>3. Carries(<<>>, nsent + 1)
      BY EmptyCarries
    <3> HIDE DEF q
    <3>4. Carries(Append(<<>>, q), nsent + 1)
      BY <3>2, <3>3, AppendCarries
    <3> QED
      BY <3>1, <3>4
  <2> QED
    BY <2>1, <2>2, EmptyCarries DEF BusIsOwn
<1>3. CASE TransmitFails(d) \/ CommandTimeout(d) \/ RxClosed(d) \/ Backoff(d)
    BY <1>3, BusIsOwnFrame DEF TransmitFails, CommandTimeout, RxClosed, Backoff, RetryOrReturn,
       Return, Goto
<1>4. CASE TakeConnect(d) \/ TakeSend(d) \/ TakeRetrying(d) \/ TakeGatedRetry(d)
    BY <1>4, TakeIsOwn DEF TakeConnect, TakeSend, TakeRetrying, TakeGatedRetry, RetryOrReturn,
       Return, Goto
<1>5. CASE TakeGatedFirst(d) \/ TakeReconnect(d)
    BY <1>5, TakeIsOwn DEF TakeGatedFirst, TakeReconnect, Return, Goto
<1>6. CASE JoinKeepalive(d) \/ DisconnectSend(d) \/ DisconnectStop(d)
    BY <1>6, BusIsOwnFrame DEF JoinKeepalive, DisconnectSend, DisconnectStop, Return, Goto
<1> QED
    BY <1>1, <1>2, <1>3, <1>4, <1>5, <1>6 DEF CallerStep

LEMMA BusStepIsOwn ==
    ASSUME TypeOK, NEW d \in Callers, BusIsOwn(d), RxStep \/ DeviceStep
    PROVE  BusIsOwn(d)'
<1> USE DEF TypeOK, BusTypeOK
<1>1. UNCHANGED <<pc, mine, got, clean>>
    BY DEF RxStep, RxDeliver, RxDisconnected, DeviceStep, DeviceServes, DeviceRefuses, BusLoses,
       DeviceExpires, callerVars
<1>2. CASE ~(clean[d] /\ pc[d] \in {"send", "wait"})
    BY <1>1, <1>2 DEF BusIsOwn
<1>3. CASE clean[d] /\ pc[d] = "send"
    BY <1>1, <1>3 DEF BusIsOwn, RxStep, RxDeliver, RxDisconnected, DeviceStep, DeviceServes,
       DeviceRefuses, BusLoses, DeviceExpires, busVars
<1>4. CASE clean[d] /\ pc[d] = "wait"
  <2>1. Carries(h2d, mine[d]) /\ Carries(d2h, mine[d]) /\ Carries(replyQ, mine[d])
    BY <1>4 DEF BusIsOwn
  <2>2. h2d # <<>> => /\ Head(h2d) \in Request /\ Head(h2d).id = mine[d]
                      /\ Carries(Tail(h2d), mine[d])
    BY <2>1, HeadCarries, HeadTailProperties
  <2>3. d2h # <<>> => /\ Head(d2h) \in Reply /\ Head(d2h).id = mine[d]
                      /\ Carries(Tail(d2h), mine[d])
    BY <2>1, HeadCarries, HeadTailProperties
  <2>4. CASE RxDeliver
    BY <2>1, <2>3, <2>4, AppendCarries, <1>1, <1>4 DEF RxDeliver, BusIsOwn
  <2>5. ASSUME NEW res \in Results, h2d # <<>>, h2d' = Tail(h2d), UNCHANGED replyQ,
               d2h' = Append(d2h, [id |-> Head(h2d).id, kind |-> Head(h2d).kind, res |-> res])
        PROVE  BusIsOwn(d)'
    <3> DEFINE r == [id |-> Head(h2d).id, kind |-> Head(h2d).kind, res |-> res]
    <3>1. r \in Reply /\ r.id = mine[d]
      BY <2>2, <2>5 DEF Request, Reply
    <3>2. d2h' = Append(d2h, r)
      BY <2>5
    <3> HIDE DEF r
    <3>3. Carries(d2h', mine[d])
      BY <2>1, <3>1, <3>2, AppendCarries
    <3> QED
      BY <2>1, <2>2, <2>5, <3>3, <1>1, <1>4 DEF BusIsOwn
  <2>6. CASE DeviceServes
    <3>1. Verdict(Head(h2d)) \in Results
      BY DEF Verdict, Results
    <3> QED
      BY <2>5, <2>6, <3>1 DEF DeviceServes
  <2>7. CASE DeviceRefuses
    BY <2>5, <2>7 DEF DeviceRefuses, Results
  <2>8. CASE BusLoses
    BY <2>1, <2>2, <2>3, <2>8, <1>1, <1>4 DEF BusLoses, BusIsOwn
  <2>9. CASE RxDisconnected \/ DeviceExpires
    BY <2>1, <2>9, <1>1, <1>4 DEF RxDisconnected, DeviceExpires, BusIsOwn, busVars
  <2> QED
    BY <2>4, <2>6, <2>7, <2>8, <2>9 DEF RxStep, DeviceStep
<1> QED
    BY <1>2, <1>3, <1>4

LEMMA BusIsOwnStep ==
    ASSUME TypeOK, OneCommandInFlight, BusIsOwnAll, [Next]_vars
    PROVE  BusIsOwnAll'
<1> SUFFICES ASSUME NEW d \in Callers
             PROVE  BusIsOwn(d)'
    BY DEF BusIsOwnAll
<1>1. BusIsOwn(d)
    BY DEF BusIsOwnAll
<1>2. pc[d] \in {"send", "wait"} => holder = d
    BY DEF OneCommandInFlight, Inside, Actors
<1>3. ASSUME NEW c \in Callers, NEW o \in Ops, Start(c, o)
      PROVE  BusIsOwn(d)'
    BY <1>1, <1>3, BusIsOwnFrame DEF Start, Goto, busVars, TypeOK, CallerTypeOK
<1>4. ASSUME NEW c \in Callers, CallerStep(c)
      PROVE  BusIsOwn(d)'
  <2>1. CASE c = d
    BY <1>1, <1>4, <2>1, OwnerStepIsOwn
  <2>2. CASE c # d
    <3>1. pc[d] \notin {"send", "wait"}
      BY <1>2, <1>4, <2>2, CallerHolds
    <3> QED
      BY <1>1, <1>4, <2>2, <3>1, CallerFrame, BusIsOwnFrame
  <2> QED
    BY <2>1, <2>2
<1>5. ASSUME NEW c \in Callers, Cancel(c)
      PROVE  BusIsOwn(d)'
    BY <1>1, <1>5, BusIsOwnFrame DEF Cancel, busVars, TypeOK, CallerTypeOK
<1>6. CASE DropSession \/ AbortStep
    BY <1>1, <1>6, BusIsOwnFrame DEF DropSession, AbortStep, RxAborted, KeepaliveAborted, callerVars,
       busVars
<1>7. CASE KeepaliveStep
  <2>1. KeepaliveSend \/ KeepaliveReply => pc[d] \notin {"send", "wait"}
    BY <1>2, SessionAssumption DEF KeepaliveSend, KeepaliveReply, OneCommandInFlight, Inside, Actors
  <2>2. KeepaliveSend \/ KeepaliveReply \/ UNCHANGED <<h2d, d2h, replyQ>>
    BY <1>7 DEF KeepaliveStep, KeepaliveCancelled, KeepaliveFires, KeepaliveFails, busVars
  <2>3. UNCHANGED callerVars
    BY <1>7 DEF KeepaliveStep, KeepaliveCancelled, KeepaliveFires, KeepaliveSend, KeepaliveReply,
       KeepaliveFails
  <2> QED
    BY <1>1, <2>1, <2>2, <2>3, BusIsOwnFrame DEF callerVars
<1>8. CASE RxStep \/ DeviceStep
    BY <1>1, <1>8, BusStepIsOwn
<1>9. CASE UNCHANGED vars
    BY <1>1, <1>9, BusIsOwnFrame DEF vars, callerVars, busVars
<1> QED
    BY <1>3, <1>4, <1>5, <1>6, <1>7, <1>8, <1>9 DEF Next, Finished

LEMMA BusIsOwnInvariant == Spec => []BusIsOwnAll
<1>1. Init => BusIsOwnAll
    BY DEF Init, BusIsOwnAll, BusIsOwn
<1>2. TypeOK /\ OneCommandInFlight /\ BusIsOwnAll /\ [Next]_vars => BusIsOwnAll'
    BY BusIsOwnStep
<1> QED
    BY <1>1, <1>2, TypeCorrect, SingleInFlight, PTL DEF Spec

(* A caller that emptied the reply channel while nothing was on the bus is *)
(* answered with the reply to its own request, however many late replies   *)
(* and abandoned commands came before.                                     *)
THEOREM DrainPairsReplies == Spec => []DrainResynchronises
<1>1. BusIsOwnAll => DrainResynchronises
    BY DEF BusIsOwnAll, BusIsOwn, DrainResynchronises
<1> QED
    BY <1>1, BusIsOwnInvariant, PTL

-----------------------------------------------------------------------------
(* The lock is never lost.                                                 *)

(* Those who want the lock are its holder and, once each, its waiters.     *)
Queued(h, ws, wanting) ==
    /\ h # NoOne => h \in wanting
    /\ h = NoOne => ws = <<>>
    /\ \A i \in 1 .. Len(ws) :
           /\ ws[i] \in wanting /\ ws[i] # h
           /\ \A j \in 1 .. Len(ws) : ws[i] = ws[j] => i = j
    /\ \A a \in wanting : h = a \/ \E i \in 1 .. Len(ws) : ws[i] = a

LEMMA AcquireQueues ==
    ASSUME LockTypeOK, NEW W \in SUBSET Actors, Queued(holder, waiters, W),
           NEW a \in Actors, a \notin W, Acquire(a)
    PROVE  Queued(holder', waiters', W \cup {a})
<1>1. CASE holder = NoOne
    BY <1>1, EmptySeq, SessionAssumption DEF Queued, Acquire, Actors
<1>2. CASE holder # NoOne
  <2>1. waiters' = Append(waiters, a) /\ holder' = holder
    BY <1>2 DEF Acquire
  <2>2. /\ Len(waiters') = Len(waiters) + 1 /\ Len(waiters) \in Nat
        /\ \A i \in 1 .. Len(waiters) : waiters'[i] = waiters[i]
        /\ waiters'[Len(waiters) + 1] = a
    BY <2>1, AppendProperties, LenProperties DEF LockTypeOK
  <2>3. \A i \in 1 .. Len(waiters') : i \in 1 .. Len(waiters) \/ i = Len(waiters) + 1
    BY <2>2
  <2>4. \A i \in 1 .. Len(waiters') :
            /\ waiters'[i] \in W \cup {a} /\ waiters'[i] # holder
            /\ \A j \in 1 .. Len(waiters') : waiters'[i] = waiters'[j] => i = j
    BY <1>2, <2>2, <2>3 DEF Queued
  <2>5. \A b \in W \cup {a} : holder = b \/ \E i \in 1 .. Len(waiters') : waiters'[i] = b
    BY <2>2 DEF Queued
  <2> QED
    BY <1>2, <2>1, <2>4, <2>5 DEF Queued
<1> QED
    BY <1>1, <1>2

LEMMA ReleaseQueues ==
    ASSUME LockTypeOK, NEW W \in SUBSET Actors, Queued(holder, waiters, W),
           holder \in Actors, Release
    PROVE  Queued(holder', waiters', W \ {holder})
<1> holder # NoOne
    BY SessionAssumption DEF Actors
<1>1. CASE waiters = <<>>
    BY <1>1, EmptySeq DEF Queued, Release
<1>2. CASE waiters # <<>>
  <2>1. holder' = Head(waiters) /\ waiters' = Tail(waiters)
    BY <1>2 DEF Release
  <2>2. Head(waiters) = waiters[1] /\ Len(waiters) \in Nat \ {0}
    BY <1>2, EmptySeq DEF LockTypeOK
  <2>3. /\ Len(waiters') = Len(waiters) - 1
        /\ \A i \in 1 .. Len(waiters') : waiters'[i] = waiters[i + 1]
        /\ Head(waiters) \in Actors
    BY <1>2, <2>1, HeadTailProperties DEF LockTypeOK
  <2>4. \A i \in 1 .. Len(waiters') : i + 1 \in 1 .. Len(waiters) /\ i + 1 # 1
    BY <2>2, <2>3
  <2>5. \A i \in 1 .. Len(waiters') :
            /\ waiters'[i] \in W \ {holder} /\ waiters'[i] # holder'
            /\ \A j \in 1 .. Len(waiters') : waiters'[i] = waiters'[j] => i = j
    BY <2>1, <2>2, <2>3, <2>4 DEF Queued
  <2>6. ASSUME NEW b \in W \ {holder}
        PROVE  holder' = b \/ \E i \in 1 .. Len(waiters') : waiters'[i] = b
    <3>1. PICK i \in 1 .. Len(waiters) : waiters[i] = b
      BY <2>6 DEF Queued
    <3>2. i = 1 \/ (i - 1 \in 1 .. Len(waiters') /\ (i - 1) + 1 = i)
      BY <2>2, <2>3
    <3> QED
      BY <2>1, <2>2, <2>3, <3>1, <3>2
  <2>7. holder' \in W \ {holder} /\ holder' # NoOne
    BY <2>1, <2>2, <2>3, SessionAssumption DEF Queued, Actors
  <2> QED
    BY <2>5, <2>6, <2>7 DEF Queued
<1> QED
    BY <1>1, <1>2

LEMMA LeaveQueues ==
    ASSUME LockTypeOK, NEW W \in SUBSET Actors, Queued(holder, waiters, W),
           NEW a \in Actors, LeaveQueue(a)
    PROVE  Queued(holder', waiters', W \ {a})
<1>1. PICK i \in 1 .. Len(waiters) :
          /\ waiters[i] = a
          /\ waiters' = SubSeq(waiters, 1, i - 1) \o SubSeq(waiters, i + 1, Len(waiters))
          /\ UNCHANGED holder
    BY DEF LeaveQueue
<1>2. Len(waiters) \in Nat /\ \A j \in 1 .. Len(waiters) : waiters[j] \in Actors
    BY LenProperties, ElementOfSeq DEF LockTypeOK
<1> DEFINE before == SubSeq(waiters, 1, i - 1)
           after == SubSeq(waiters, i + 1, Len(waiters))
<1>3. /\ before \in Seq(Actors) /\ Len(before) = i - 1
      /\ \A j \in 1 .. i - 1 : before[j] = waiters[j]
    BY <1>2, SubSeqProperties
<1>4. /\ after \in Seq(Actors) /\ Len(after) = Len(waiters) - i
      /\ \A j \in 1 .. Len(waiters) - i : after[j] = waiters[i + j]
    BY <1>2, SubSeqProperties
<1>5. /\ Len(waiters') = Len(waiters) - 1
      /\ \A j \in 1 .. i - 1 : waiters'[j] = waiters[j]
      /\ \A j \in i .. Len(waiters) - 1 : waiters'[j] = waiters[j + 1]
  <2> HIDE DEF before, after
  <2>1. waiters' = before \o after
    BY <1>1 DEF before, after
  <2>2. /\ Len(waiters') = Len(before) + Len(after)
        /\ \A j \in 1 .. Len(before) + Len(after) :
               waiters'[j] = IF j <= Len(before) THEN before[j] ELSE after[j - Len(before)]
    BY <2>1, <1>3, <1>4, ConcatProperties
  <2>3. ASSUME NEW j \in 1 .. i - 1 PROVE waiters'[j] = waiters[j]
    BY <1>2, <1>3, <1>4, <2>2
  <2>4. ASSUME NEW j \in i .. Len(waiters) - 1 PROVE waiters'[j] = waiters[j + 1]
    <3>1. j - (i - 1) \in 1 .. Len(waiters) - i /\ i + (j - (i - 1)) = j + 1
      BY <1>2
    <3>2. waiters'[j] = after[j - (i - 1)]
      BY <1>2, <1>3, <1>4, <2>2
    <3> QED
      BY <1>4, <3>1, <3>2
  <2> QED
    BY <1>2, <1>3, <1>4, <2>2, <2>3, <2>4
<1> HIDE DEF before, after
<1> DEFINE from(j) == IF j < i THEN j ELSE j + 1
<1>6. /\ \A j \in 1 .. Len(waiters') :
            /\ from(j) \in 1 .. Len(waiters) /\ from(j) # i
            /\ waiters'[j] = waiters[from(j)]
      /\ \A j, k \in 1 .. Len(waiters') : from(j) = from(k) => j = k
      /\ \A k \in 1 .. Len(waiters) : k # i => \E j \in 1 .. Len(waiters') : from(j) = k
  <2>1. ASSUME NEW j \in 1 .. Len(waiters')
        PROVE  /\ from(j) \in 1 .. Len(waiters) /\ from(j) # i
               /\ waiters'[j] = waiters[from(j)]
    BY <1>2, <1>5
  <2>2. \A j, k \in 1 .. Len(waiters') : from(j) = from(k) => j = k
    BY <1>2, <1>5
  <2>3. ASSUME NEW k \in 1 .. Len(waiters), k # i
        PROVE  \E j \in 1 .. Len(waiters') : from(j) = k
    <3>1. CASE k < i
      <4>1. k \in 1 .. Len(waiters') /\ from(k) = k
        BY <1>2, <1>5, <3>1
      <4> QED
        BY <4>1
    <3>2. CASE k > i
      <4>1. k - 1 \in 1 .. Len(waiters') /\ from(k - 1) = k
        BY <1>2, <1>5, <3>2
      <4> QED
        BY <4>1
    <3> QED
      BY <1>2, <2>3, <3>1, <3>2
  <2> QED
    BY <2>1, <2>2, <2>3
<1> HIDE DEF from
<1>7. ASSUME NEW j \in 1 .. Len(waiters')
      PROVE  /\ waiters'[j] \in W \ {a} /\ waiters'[j] # holder
             /\ \A k \in 1 .. Len(waiters') : waiters'[j] = waiters'[k] => j = k
  <2>1. /\ from(j) \in 1 .. Len(waiters) /\ from(j) # i
        /\ waiters'[j] = waiters[from(j)]
    BY <1>6
  <2>2. waiters[from(j)] \in W /\ waiters[from(j)] # holder /\ waiters[from(j)] # a
    BY <1>1, <2>1 DEF Queued
  <2>3. ASSUME NEW k \in 1 .. Len(waiters'), waiters'[j] = waiters'[k]
        PROVE  j = k
    <3>1. from(k) \in 1 .. Len(waiters) /\ waiters'[k] = waiters[from(k)]
      BY <1>6
    <3>2. from(j) = from(k)
      BY <2>1, <2>3, <3>1 DEF Queued
    <3> QED
      BY <1>6, <3>2
  <2> QED
    BY <2>1, <2>2, <2>3
<1>8. ASSUME NEW b \in W \ {a}
      PROVE  holder = b \/ \E j \in 1 .. Len(waiters') : waiters'[j] = b
  <2>1. CASE holder # b
    <3>1. PICK k \in 1 .. Len(waiters) : waiters[k] = b
      BY <2>1 DEF Queued
    <3>2. k # i
      BY <1>1, <1>8, <3>1
    <3>3. PICK j \in 1 .. Len(waiters') : from(j) = k
      BY <1>6, <3>2
    <3>4. waiters'[j] = waiters[k]
      BY <1>6, <3>3
    <3> QED
      BY <3>1, <3>4
  <2> QED
    BY <2>1
<1>9. holder # NoOne => holder \in W \ {a}
    BY <1>1 DEF Queued
<1>10. holder # NoOne
    BY <1>1, <1>2, EmptySeq DEF Queued
<1> QED
    BY <1>1, <1>7, <1>8, <1>9, <1>10 DEF Queued

Wanting == {a \in Actors : Wants(a)}

(* A keepalive whose slot was taken is being joined, or was aborted with   *)
(* the session: a new one is never started beside it.                      *)
KeepaliveJoined ==
    ka # "none" => kaSlot \/ session = "dropped" \/ \E c \in Callers : pc[c] = "join"

LockInv ==
    /\ DropIsLast
    /\ OneCommandInFlight
    /\ Queued(holder, waiters, Wanting)
    /\ KeepaliveJoined

LEMMA WantingFrame ==
    ASSUME \A a \in Actors : Wants(a)' <=> Wants(a)
    PROVE  Wanting' = Wanting
BY DEF Wanting

LEMMA NoKeepaliveBeside ==
    ASSUME TypeOK, LockInv, NEW c \in Callers, pc[c] = "wait" \/ pc[c] = "stop", ~kaSlot
    PROVE  ka = "none"
BY DEF LockInv, DropIsLast, KeepaliveJoined, OneCommandInFlight, Inside, Actors

(* A caller with the lock returns.                                         *)
LEMMA ReturnQueues ==
    ASSUME TypeOK, LockInv, NEW c \in Callers, holder = c, pc[c] # "idle",
           pc' = [pc EXCEPT ![c] = "idle"], Release,
           ka' \in {"lock", "wait"} <=> ka \in {"lock", "wait"}
    PROVE  Queued(holder', waiters', Wanting')
<1>1. Wanting' = Wanting \ {c}
    BY SessionAssumption DEF Wanting, Wants, Actors, TypeOK, CallerTypeOK
<1>2. c \in Actors /\ Wanting \in SUBSET Actors
    BY DEF Actors, Wanting
<1> QED
    BY <1>1, <1>2, ReleaseQueues DEF LockInv, TypeOK

(* A caller with the lock goes on.                                         *)
LEMMA GotoQueues ==
    ASSUME TypeOK, LockInv, NEW c \in Callers, pc[c] # "idle",
           NEW label \in Labels \ {"idle"}, Goto(c, label), UNCHANGED lockVars,
           ka' \in {"lock", "wait"} <=> ka \in {"lock", "wait"}
    PROVE  Queued(holder', waiters', Wanting')
<1>1. Wanting' = Wanting
    BY SessionAssumption DEF Wanting, Wants, Actors, Goto, Labels, TypeOK, CallerTypeOK
<1> QED
    BY <1>1 DEF LockInv, lockVars

LEMMA CallerQueues ==
    ASSUME TypeOK, LockInv, NEW c \in Callers, CallerStep(c)
    PROVE  Queued(holder', waiters', Wanting')
<1>1. holder = c
    BY CallerHolds DEF LockInv
<1>2. ASSUME NEW o, RetryOrReturn(c, o), pc[c] # "idle", UNCHANGED ka
      PROVE  Queued(holder', waiters', Wanting')
  <2>1. CASE Return(c, o)
    BY <1>1, <1>2, <2>1, ReturnQueues DEF Return
  <2>2. CASE Goto(c, "backoff") /\ UNCHANGED lockVars
    BY <1>2, <2>2, GotoQueues DEF Labels
  <2> QED
    BY <1>2, <2>1, <2>2 DEF RetryOrReturn, lockVars
<1>3. CASE Drain(c) \/ Transmit(c) \/ Backoff(c) \/ DisconnectSend(c)
    BY <1>3, GotoQueues DEF Drain, Transmit, Backoff, DisconnectSend, kaVars, Labels
<1>4. CASE TransmitFails(c) \/ CommandTimeout(c)
    BY <1>2, <1>4 DEF TransmitFails, CommandTimeout, kaVars
<1>5. CASE RxClosed(c) \/ TakeSend(c) \/ TakeGatedRetry(c)
    BY <1>1, <1>5, ReturnQueues DEF RxClosed, TakeSend, TakeGatedRetry, Take, Return, kaVars
<1>6. CASE TakeRetrying(c)
    BY <1>1, <1>2, <1>6, ReturnQueues DEF TakeRetrying, Take, Return, kaVars
<1>7. CASE TakeConnect(c)
  <2>1. pc[c] = "wait" /\ pc' = [pc EXCEPT ![c] = "idle"] /\ Release
    BY <1>7 DEF TakeConnect, Take, Return
  <2>2. ka' \in {"lock", "wait"} <=> ka \in {"lock", "wait"}
    BY <1>7, <2>1, NoKeepaliveBeside DEF TakeConnect, StartKeepalive
  <2> QED
    BY <1>1, <2>1, <2>2, ReturnQueues
<1>8. CASE TakeGatedFirst(c)
  <2>1. CASE Head(replyQ).res = "bad_session"
    BY <1>8, <2>1, GotoQueues DEF TakeGatedFirst, Take, Labels
  <2>2. CASE Head(replyQ).res # "bad_session"
    BY <1>1, <1>8, <2>2, ReturnQueues DEF TakeGatedFirst, Take, Return
  <2> QED
    BY <2>1, <2>2
<1>9. CASE TakeReconnect(c)
  <2>1. CASE Accepted(Head(replyQ))
    <3>1. ka' \in {"lock", "wait"} <=> ka \in {"lock", "wait"}
      BY <1>9, <2>1, NoKeepaliveBeside DEF TakeReconnect, Take, StartKeepalive
    <3> QED
      BY <1>9, <2>1, <3>1, GotoQueues DEF TakeReconnect, Take, Labels
  <2>2. CASE ~Accepted(Head(replyQ))
    BY <1>1, <1>9, <2>2, ReturnQueues DEF TakeReconnect, Take, Return
  <2> QED
    BY <2>1, <2>2
<1>10. CASE JoinKeepalive(c)
  <2>1. CASE opn[c] = "disconnect"
    BY <1>1, <1>10, <2>1, ReturnQueues DEF JoinKeepalive, Return
  <2>2. CASE opn[c] # "disconnect"
    BY <1>10, <2>2, GotoQueues DEF JoinKeepalive, Labels
  <2> QED
    BY <2>1, <2>2
<1>11. CASE DisconnectStop(c)
  <2>1. CASE ~kaSlot
    BY <1>1, <1>11, <2>1, ReturnQueues DEF DisconnectStop, Return
  <2>2. CASE kaSlot
    BY <1>11, <2>2, GotoQueues DEF DisconnectStop, Labels
  <2> QED
    BY <2>1, <2>2
<1> QED
    BY <1>3, <1>4, <1>5, <1>6, <1>7, <1>8, <1>9, <1>10, <1>11 DEF CallerStep

LEMMA KeepaliveQueues ==
    ASSUME TypeOK, LockInv, KeepaliveStep
    PROVE  Queued(holder', waiters', Wanting')
<1>1. pc' = pc /\ KA \in Actors /\ KA \notin Callers /\ Wanting \in SUBSET Actors
    BY SessionAssumption DEF KeepaliveStep, KeepaliveCancelled, KeepaliveFires, KeepaliveSend,
       KeepaliveReply, KeepaliveFails, callerVars, Actors, Wanting
<1>2. CASE KeepaliveCancelled \/ KeepaliveSend
  <2>1. Wanting' = Wanting
    BY <1>1, <1>2, WantingFrame DEF KeepaliveCancelled, KeepaliveSend, Wants
  <2> QED
    BY <1>2, <2>1 DEF KeepaliveCancelled, KeepaliveSend, lockVars, LockInv
<1>3. CASE KeepaliveFires
  <2>1. KA \notin Wanting /\ Wanting' = Wanting \cup {KA}
    BY <1>1, <1>3 DEF KeepaliveFires, Wanting, Wants
  <2> QED
    BY <1>1, <1>3, <2>1, AcquireQueues DEF KeepaliveFires, LockInv, TypeOK
<1>4. CASE KeepaliveReply \/ KeepaliveFails
  <2>1. holder = KA /\ Release
    BY <1>1, <1>4 DEF KeepaliveReply, KeepaliveFails, LockInv, OneCommandInFlight, Inside
  <2>2. Wanting' = Wanting \ {KA}
    BY <1>1, <1>4 DEF KeepaliveReply, KeepaliveFails, Wanting, Wants
  <2> QED
    BY <1>1, <2>1, <2>2, ReleaseQueues DEF LockInv, TypeOK
<1> QED
    BY <1>2, <1>3, <1>4 DEF KeepaliveStep

LEMMA CancelQueues ==
    ASSUME TypeOK, LockInv, NEW c \in Callers, Cancel(c)
    PROVE  Queued(holder', waiters', Wanting')
<1>1. Wanting' = Wanting \ {c}
    BY SessionAssumption DEF Cancel, Wanting, Wants, Actors, kaVars, TypeOK, CallerTypeOK
<1>2. c \in Actors /\ Wanting \in SUBSET Actors
    BY DEF Actors, Wanting
<1>3. CASE holder = c
    BY <1>1, <1>2, <1>3, ReleaseQueues DEF Cancel, LockInv, TypeOK
<1>4. CASE holder # c
    BY <1>1, <1>2, <1>4, LeaveQueues DEF Cancel, LockInv, TypeOK
<1> QED
    BY <1>3, <1>4

LEMMA StartQueues ==
    ASSUME TypeOK, LockInv, NEW c \in Callers, NEW o \in Ops, Start(c, o)
    PROVE  Queued(holder', waiters', Wanting')
<1>1. c \notin Wanting /\ Wanting' = Wanting \cup {c}
    BY SessionAssumption DEF Start, Wanting, Wants, Actors, Goto, kaVars, TypeOK, CallerTypeOK
<1>2. c \in Actors /\ Wanting \in SUBSET Actors
    BY DEF Actors, Wanting
<1> QED
    BY <1>1, <1>2, AcquireQueues DEF Start, LockInv, TypeOK

LEMMA DropQueues ==
    ASSUME TypeOK, LockInv, DropSession \/ AbortStep
    PROVE  Queued(holder', waiters', Wanting')
<1>1. CASE DropSession \/ RxAborted
  <2>1. UNCHANGED <<holder, waiters, pc, ka>>
    BY <1>1 DEF DropSession, RxAborted, callerVars, lockVars, kaVars
  <2>2. Wanting' = Wanting
    BY <2>1, WantingFrame DEF Wants
  <2> QED
    BY <2>1, <2>2 DEF LockInv
<1>2. CASE KeepaliveAborted
  <2>1. Wanting' = {}
    BY <1>2, SessionAssumption
    DEF KeepaliveAborted, LockInv, DropIsLast, Wanting, Wants, Actors, callerVars
  <2> QED
    BY <1>2, <2>1, EmptySeq DEF KeepaliveAborted, Queued
<1> QED
    BY <1>1, <1>2 DEF AbortStep

LEMMA KeepaliveJoinedStep ==
    ASSUME TypeOK, LockInv, [Next]_vars
    PROVE  KeepaliveJoined'
<1> USE DEF KeepaliveJoined, TypeOK, CallerTypeOK
<1>1. KeepaliveJoined
    BY DEF LockInv
<1>2. ASSUME NEW c \in Callers, NEW o \in Ops, Start(c, o)
      PROVE  KeepaliveJoined'
    BY <1>1, <1>2 DEF Start, Goto, kaVars
<1>3. ASSUME NEW c \in Callers, CallerStep(c)
      PROVE  KeepaliveJoined'
  <2>1. \A d \in Callers : pc[d] = "join" => d = c
    BY <1>3, CallerHolds DEF LockInv, OneCommandInFlight, Inside, Actors
  <2>0. session # "dropped"
    BY <1>3, StepperNotIdle DEF LockInv, DropIsLast
  <2>2. CASE pc[c] # "join" /\ UNCHANGED <<kaSlot, ka>>
    BY <1>1, <2>0, <2>1, <2>2
  <2>3. CASE Drain(c) \/ Transmit(c) \/ TransmitFails(c) \/ CommandTimeout(c) \/ RxClosed(c)
             \/ Backoff(c) \/ TakeSend(c) \/ TakeRetrying(c) \/ TakeGatedRetry(c) \/ DisconnectSend(c)
    BY <2>2, <2>3 DEF Drain, Transmit, TransmitFails, CommandTimeout, RxClosed, Backoff, TakeSend,
       TakeRetrying, TakeGatedRetry, DisconnectSend, Take, kaVars
  <2>4. CASE TakeConnect(c) \/ TakeReconnect(c)
    BY <2>2, <2>4 DEF TakeConnect, TakeReconnect, Take, StartKeepalive
  <2>5. CASE TakeGatedFirst(c) \/ DisconnectStop(c)
    BY <1>1, <2>0, <2>1, <2>5 DEF TakeGatedFirst, DisconnectStop, Take, Goto, Return
  <2>6. CASE JoinKeepalive(c)
    BY <2>6 DEF JoinKeepalive
  <2> QED
    BY <1>3, <2>3, <2>4, <2>5, <2>6 DEF CallerStep
<1>4. ASSUME NEW c \in Callers, Cancel(c)
      PROVE  KeepaliveJoined'
    BY <1>1, <1>4 DEF Cancel, kaVars
<1>5. CASE DropSession \/ AbortStep
    BY <1>1, <1>5 DEF DropSession, AbortStep, RxAborted, KeepaliveAborted, callerVars, kaVars
<1>6. CASE KeepaliveStep
    BY <1>1, <1>6 DEF KeepaliveStep, KeepaliveCancelled, KeepaliveFires, KeepaliveSend,
       KeepaliveReply, KeepaliveFails, callerVars
<1>7. CASE RxStep \/ DeviceStep \/ UNCHANGED vars
  <2>1. UNCHANGED <<session, pc, ka, kaSlot>>
    BY <1>7 DEF RxStep, RxDeliver, RxDisconnected, DeviceStep, DeviceServes, DeviceRefuses,
       BusLoses, DeviceExpires, callerVars, kaVars, vars
  <2> QED
    BY <1>1, <2>1
<1> QED
    BY <1>2, <1>3, <1>4, <1>5, <1>6, <1>7 DEF Next, Finished

LEMMA LockInvStep ==
    ASSUME TypeOK, LockInv, [Next]_vars
    PROVE  LockInv'
<1>1. DropIsLast' /\ OneCommandInFlight'
    BY DropIsLastStep, OneCommandStep DEF LockInv
<1>2. CASE RxStep \/ DeviceStep \/ UNCHANGED vars
  <2>1. UNCHANGED <<holder, waiters, pc, ka>>
    BY <1>2 DEF RxStep, RxDeliver, RxDisconnected, DeviceStep, DeviceServes, DeviceRefuses,
       BusLoses, DeviceExpires, callerVars, lockVars, kaVars, vars
  <2>2. Wanting' = Wanting
    BY <2>1, WantingFrame DEF Wants
  <2> QED
    BY <1>1, <2>1, <2>2, KeepaliveJoinedStep DEF LockInv
<1>3. CASE ~(RxStep \/ DeviceStep \/ UNCHANGED vars)
  <2>1. Queued(holder', waiters', Wanting')
    BY <1>3, StartQueues, CallerQueues, CancelQueues, DropQueues, KeepaliveQueues DEF Next, Finished
  <2> QED
    BY <1>1, <2>1, KeepaliveJoinedStep DEF LockInv
<1> QED
    BY <1>2, <1>3

LEMMA LockInvariant == Spec => []LockInv
<1>1. Init => LockInv
  <2> SUFFICES ASSUME Init PROVE LockInv
    OBVIOUS
  <2>1. DropIsLast /\ OneCommandInFlight /\ Wanting = {}
    BY SessionAssumption DEF Init, DropIsLast, OneCommandInFlight, Inside, Actors, Wanting, Wants
  <2>2. Queued(holder, waiters, {})
    BY EmptySeq DEF Init, Queued
  <2>3. KeepaliveJoined
    BY DEF Init, KeepaliveJoined
  <2> QED
    BY <2>1, <2>2, <2>3 DEF LockInv
<1>2. TypeOK /\ LockInv /\ [Next]_vars => LockInv'
    BY LockInvStep
<1> QED
    BY <1>1, <1>2, TypeCorrect, PTL DEF Spec

(* The lock is never lost and nobody who waits for it is forgotten: its    *)
(* holder and its waiters, each with one place in the queue, are exactly   *)
(* the tasks inside an operation, also when commands are cancelled.        *)
THEOREM LockIsNotLost == Spec => []NoLeakedLock
<1>1. LockInv => NoLeakedLock
    BY DEF LockInv, Queued, Wanting, NoLeakedLock
<1> QED
    BY <1>1, LockInvariant, PTL


-----------------------------------------------------------------------------
(* The end of a session.                                                   *)

(* disconnect(self) is alone in the session, and a keepalive whose slot is *)
(* taken is awaited before the operation goes on.                          *)
QuietInv ==
    /\ session = "closing" =>
           \E c \in Callers : opn[c] = "disconnect" /\ \A d \in Callers : pc[d] # "idle" => d = c
    /\ \A c \in Callers : opn[c] = "disconnect" /\ pc[c] # "idle" => session = "closing"
    /\ \A c \in Callers : pc[c] = "stop" => opn[c] = "disconnect"
    /\ \A c \in Callers : pc[c] = "join" => ~kaSlot
    /\ session = "closed" =>
           /\ rx = "dead" /\ ~kaSlot /\ ka \notin {"sleep", "lock", "wait"}
           /\ \A c \in Callers : pc[c] = "idle"

(* A caller that neither joins nor stops leaves the session as it is.      *)
LEMMA QuietFrame ==
    ASSUME TypeOK, LockInv, QuietInv, NEW c \in Callers, CallerStep(c), UNCHANGED <<session, rx>>,
           pc'[c] = "stop" => opn[c] = "disconnect",
           pc'[c] = "join" => ~kaSlot',
           kaSlot' = kaSlot \/ pc[c] # "join"
    PROVE  QuietInv'
<1>1. holder = c /\ pc[c] # "idle"
    BY CallerHolds, StepperNotIdle DEF LockInv
<1>2. opn' = opn /\ \A d \in Callers \ {c} : pc'[d] = pc[d]
    BY CallerFrame
<1>3. \A d \in Callers \ {c} : pc[d] # "join"
    BY <1>1 DEF LockInv, OneCommandInFlight, Inside, Actors
<1>4. session # "closed"
    BY <1>1 DEF QuietInv
<1> QED
    BY <1>1, <1>2, <1>3, <1>4 DEF QuietInv

LEMMA QuietCaller ==
    ASSUME TypeOK, LockInv, QuietInv, NEW c \in Callers, CallerStep(c)
    PROVE  QuietInv'
<1> USE DEF TypeOK, CallerTypeOK
<1>0. holder = c /\ pc[c] # "idle" /\ opn' = opn
    BY CallerHolds, StepperNotIdle, CallerFrame DEF LockInv
<1>1. CASE Drain(c) \/ Transmit(c) \/ TransmitFails(c) \/ CommandTimeout(c) \/ RxClosed(c) \/ Backoff(c)
  <2>1. /\ pc'[c] \in {"send", "wait", "ready", "backoff", "idle"}
        /\ UNCHANGED <<session, rx, kaSlot>>
    BY <1>1 DEF Drain, Transmit, TransmitFails, CommandTimeout, RxClosed, Backoff, RetryOrReturn,
       Return, Goto, kaVars
  <2> QED
    BY <2>1, QuietFrame
<1>2. CASE TakeSend(c) \/ TakeRetrying(c) \/ TakeGatedRetry(c)
  <2>1. pc'[c] \in {"backoff", "idle"} /\ UNCHANGED <<session, rx, kaSlot>>
    BY <1>2 DEF TakeSend, TakeRetrying, TakeGatedRetry, RetryOrReturn, Return, Goto, kaVars
  <2> QED
    BY <2>1, QuietFrame
<1>3. CASE TakeConnect(c) \/ TakeReconnect(c)
  <2>1. pc[c] = "wait" /\ pc'[c] \in {"ready", "idle"} /\ UNCHANGED <<session, rx>>
    BY <1>3 DEF TakeConnect, TakeReconnect, Take, Return, Goto
  <2> QED
    BY <2>1, QuietFrame
<1>4. CASE TakeGatedFirst(c)
  <2>1. /\ pc[c] = "wait" /\ pc'[c] \in {"join", "ready", "idle"} /\ UNCHANGED <<session, rx>>
        /\ pc'[c] = "join" => ~kaSlot'
    BY <1>4 DEF TakeGatedFirst, Take, Return, Goto
  <2> QED
    BY <2>1, QuietFrame
<1>5. CASE DisconnectSend(c)
  <2>1. opn[c] = "disconnect" /\ pc'[c] = "stop" /\ UNCHANGED <<session, rx, kaSlot>>
    BY <1>5 DEF DisconnectSend, Goto, kaVars
  <2> QED
    BY <2>1, QuietFrame
<1>6. ASSUME opn[c] = "disconnect" PROVE \A d \in Callers \ {c} : pc[d] = "idle"
    BY <1>0, <1>6 DEF QuietInv
<1>7. CASE JoinKeepalive(c)
  <2>1. pc[c] = "join" /\ ~kaSlot /\ kaSlot' = kaSlot /\ ka' = "none"
    BY <1>7 DEF JoinKeepalive, QuietInv
  <2>2. CASE opn[c] = "disconnect"
    <3>1. rx' = "dead" /\ session' = "closed" /\ pc' = [pc EXCEPT ![c] = "idle"]
      BY <1>7, <2>2 DEF JoinKeepalive, Return
    <3>2. \A d \in Callers : pc'[d] = "idle"
      BY <1>6, <2>2, <3>1
    <3> QED
      BY <2>1, <3>1, <3>2 DEF QuietInv
  <2>3. CASE opn[c] # "disconnect"
    <3>1. pc'[c] = "ready" /\ UNCHANGED <<session, rx>>
      BY <1>7, <2>3 DEF JoinKeepalive, Goto
    <3> QED
      BY <2>1, <3>1, QuietFrame
  <2> QED
    BY <2>2, <2>3
<1>8. CASE DisconnectStop(c)
  <2>1. pc[c] = "stop" /\ opn[c] = "disconnect" /\ kaSlot' = FALSE /\ ka' = ka
    BY <1>8 DEF DisconnectStop, QuietInv
  <2>2. CASE kaSlot
    <3>1. pc'[c] = "join" /\ UNCHANGED <<session, rx>>
      BY <1>8, <2>2 DEF DisconnectStop, Goto
    <3> QED
      BY <2>1, <3>1, QuietFrame
  <2>3. CASE ~kaSlot
    <3>1. rx' = "dead" /\ session' = "closed" /\ pc' = [pc EXCEPT ![c] = "idle"]
      BY <1>8, <2>3 DEF DisconnectStop, Return
    <3>2. \A d \in Callers : pc'[d] = "idle"
      BY <1>6, <2>1, <3>1
    <3>3. ka = "none"
      BY <2>1, <2>3, NoKeepaliveBeside
    <3> QED
      BY <2>1, <3>1, <3>2, <3>3 DEF QuietInv
  <2> QED
    BY <2>2, <2>3
<1> QED
    BY <1>1, <1>2, <1>3, <1>4, <1>5, <1>7, <1>8 DEF CallerStep

LEMMA QuietStep ==
    ASSUME TypeOK, LockInv, QuietInv, [Next]_vars
    PROVE  QuietInv'
<1> USE DEF TypeOK, CallerTypeOK
<1>1. ASSUME NEW c \in Callers, NEW o \in Ops, Start(c, o)
      PROVE  QuietInv'
  <2>1. /\ session = "open" /\ session' \in {"open", "closing"}
        /\ session' = "closing" <=> o = "disconnect"
        /\ o = "disconnect" => \A d \in Callers : pc[d] = "idle"
        /\ pc[c] = "idle" /\ pc' = [pc EXCEPT ![c] = "ready"] /\ opn' = [opn EXCEPT ![c] = o]
        /\ UNCHANGED <<rx, ka, kaSlot>>
    BY <1>1 DEF Start, Goto, kaVars
  <2>2. \A d \in Callers : opn'[d] = "disconnect" /\ pc'[d] # "idle" => session' = "closing"
    BY <2>1 DEF QuietInv
  <2>3. session' = "closing" =>
           opn'[c] = "disconnect" /\ \A d \in Callers : pc'[d] # "idle" => d = c
    BY <2>1
  <2>4. \A d \in Callers : /\ pc'[d] = "stop" => opn'[d] = "disconnect"
                           /\ pc'[d] = "join" => ~kaSlot'
    BY <2>1 DEF QuietInv
  <2> QED
    BY <2>1, <2>2, <2>3, <2>4 DEF QuietInv
<1>2. ASSUME NEW c \in Callers, CallerStep(c)
      PROVE  QuietInv'
    BY <1>2, QuietCaller
<1>3. ASSUME NEW c \in Callers, Cancel(c)
      PROVE  QuietInv'
  <2>1. pc' = [pc EXCEPT ![c] = "idle"] /\ UNCHANGED <<session, rx, ka, kaSlot, opn>>
    BY <1>3 DEF Cancel, kaVars
  <2> QED
    BY <2>1 DEF QuietInv
<1>4. CASE DropSession \/ AbortStep
  <2>1. /\ session' = "dropped" /\ (session = "dropped" \/ session = "open")
        /\ kaSlot' = FALSE \/ UNCHANGED kaSlot
        /\ UNCHANGED <<pc, opn>>
    BY <1>4 DEF DropSession, AbortStep, RxAborted, KeepaliveAborted, callerVars, kaVars
  <2> QED
    BY <2>1 DEF QuietInv
<1>5. CASE KeepaliveStep
  <2>1. /\ UNCHANGED <<session, rx, kaSlot, pc, opn>> /\ ka \in {"sleep", "lock", "wait"}
    BY <1>5 DEF KeepaliveStep, KeepaliveCancelled, KeepaliveFires, KeepaliveSend, KeepaliveReply,
       KeepaliveFails, callerVars
  <2> QED
    BY <2>1 DEF QuietInv
<1>6. CASE RxStep \/ DeviceStep \/ UNCHANGED vars
  <2>1. UNCHANGED <<session, kaSlot, ka, pc, opn>> /\ rx' \in {rx, "dead"}
    BY <1>6 DEF RxStep, RxDeliver, RxDisconnected, DeviceStep, DeviceServes, DeviceRefuses,
       BusLoses, DeviceExpires, callerVars, kaVars, vars
  <2> QED
    BY <2>1 DEF QuietInv
<1> QED
    BY <1>1, <1>2, <1>3, <1>4, <1>5, <1>6 DEF Next, Finished

LEMMA QuietInvariant == Spec => []QuietInv
<1>1. Init => QuietInv
    BY DEF Init, QuietInv
<1>2. TypeOK /\ LockInv /\ QuietInv /\ [Next]_vars => QuietInv'
    BY QuietStep
<1> QED
    BY <1>1, <1>2, TypeCorrect, LockInvariant, PTL DEF Spec

(* Once disconnect has returned, the tasks of the session are gone and     *)
(* nobody holds or waits for its lock (session/mod.rs:844-866), whatever   *)
(* tick was under way as it began.                                         *)
THEOREM ClosedIsQuiet == Spec => []QuietAfterClose
<1>1. LockInv /\ QuietInv => QuietAfterClose
  <2> SUFFICES ASSUME LockInv, QuietInv, session = "closed" PROVE QuietAfterClose
    BY DEF QuietAfterClose
  <2>1. Wanting = {}
    BY DEF QuietInv, Wanting, Wants
  <2>2. holder = NoOne /\ waiters = <<>>
    BY <2>1 DEF LockInv, Queued
  <2> QED
    BY <2>2 DEF QuietInv, QuietAfterClose
<1> QED
    BY <1>1, LockInvariant, QuietInvariant, PTL

-----------------------------------------------------------------------------
(* The messages of a queue.                                                *)

Messages(q) == {q[i] : i \in 1 .. Len(q)}
Ids(q) == {m.id : m \in Messages(q)}

(* Requests are numbered, and no queue reorders.                           *)
Increasing(q) == \A i, j \in 1 .. Len(q) : i < j => q[i].id < q[j].id
Before(q, r) == \A x \in Ids(q), y \in Ids(r) : x < y

LEMMA EmptyMessages == Messages(<<>>) = {} /\ Ids(<<>>) = {} /\ Increasing(<<>>)
BY EmptySeq DEF Messages, Ids, Increasing

LEMMA HeadMessages ==
    ASSUME NEW S, NEW q \in Seq(S), q # <<>>
    PROVE  /\ Head(q) \in Messages(q) /\ Messages(q) = {Head(q)} \cup Messages(Tail(q))
           /\ Ids(q) = {Head(q).id} \cup Ids(Tail(q))
<1>1. Len(q) \in Nat \ {0} /\ Head(q) = q[1]
    BY EmptySeq
<1>2. /\ Len(Tail(q)) = Len(q) - 1
      /\ \A i \in 1 .. Len(Tail(q)) : Tail(q)[i] = q[i + 1]
    BY HeadTailProperties
<1>3. \A i \in 1 .. Len(q) : i = 1 \/ (i - 1 \in 1 .. Len(Tail(q)) /\ (i - 1) + 1 = i)
    BY <1>1, <1>2
<1>4. \A i \in 1 .. Len(Tail(q)) : i + 1 \in 1 .. Len(q)
    BY <1>1, <1>2
<1>5. 1 \in 1 .. Len(q)
    BY <1>1
<1>6. Messages(q) = {Head(q)} \cup Messages(Tail(q))
  <2>1. ASSUME NEW m \in Messages(q) PROVE m \in {Head(q)} \cup Messages(Tail(q))
    <3>1. PICK i \in 1 .. Len(q) : m = q[i]
      BY DEF Messages
    <3> QED
      BY <1>1, <1>2, <1>3, <3>1 DEF Messages
  <2>2. ASSUME NEW m \in Messages(Tail(q)) PROVE m \in Messages(q)
    <3>1. PICK i \in 1 .. Len(Tail(q)) : m = Tail(q)[i]
      BY DEF Messages
    <3> QED
      BY <1>2, <1>4, <3>1 DEF Messages
  <2>3. Head(q) \in Messages(q)
    BY <1>1, <1>5 DEF Messages
  <2> QED
    BY <2>1, <2>2, <2>3
<1> QED
    BY <1>6 DEF Ids

LEMMA HeadIncreasing ==
    ASSUME NEW S, NEW q \in Seq(S), q # <<>>, Increasing(q)
    PROVE  Increasing(Tail(q)) /\ \A x \in Ids(Tail(q)) : Head(q).id < x
<1>1. Len(q) \in Nat \ {0} /\ Head(q) = q[1]
    BY EmptySeq
<1>2. /\ Len(Tail(q)) = Len(q) - 1
      /\ \A i \in 1 .. Len(Tail(q)) : Tail(q)[i] = q[i + 1]
    BY HeadTailProperties
<1>3. \A i \in 1 .. Len(Tail(q)) : i \in Int /\ i + 1 \in 1 .. Len(q) /\ 1 < i + 1
    BY <1>1, <1>2
<1>4. 1 \in 1 .. Len(q)
    BY <1>1
<1>5. Increasing(Tail(q))
  <2>1. ASSUME NEW i \in 1 .. Len(Tail(q)), NEW j \in 1 .. Len(Tail(q)), i < j
        PROVE  Tail(q)[i].id < Tail(q)[j].id
    <3>1. i + 1 < j + 1
      BY <1>3, <2>1
    <3> QED
      BY <1>2, <1>3, <3>1 DEF Increasing
  <2> QED
    BY <2>1 DEF Increasing
<1>6. ASSUME NEW x \in Ids(Tail(q)) PROVE Head(q).id < x
  <2>1. PICK i \in 1 .. Len(Tail(q)) : x = Tail(q)[i].id
    BY DEF Ids, Messages
  <2> QED
    BY <1>1, <1>2, <1>3, <1>4, <2>1 DEF Increasing
<1> QED
    BY <1>5, <1>6

LEMMA AppendMessages ==
    ASSUME NEW S, NEW q \in Seq(S), NEW e \in S
    PROVE  /\ Messages(Append(q, e)) = Messages(q) \cup {e}
           /\ Ids(Append(q, e)) = Ids(q) \cup {e.id}
<1>1. /\ Len(Append(q, e)) = Len(q) + 1 /\ Len(q) \in Nat
      /\ \A i \in 1 .. Len(q) : Append(q, e)[i] = q[i]
      /\ Append(q, e)[Len(q) + 1] = e
    BY AppendProperties, LenProperties
<1>2. \A i \in 1 .. Len(Append(q, e)) : i \in 1 .. Len(q) \/ i = Len(q) + 1
    BY <1>1
<1>3. \A i \in 1 .. Len(q) : i \in 1 .. Len(Append(q, e))
    BY <1>1
<1>4. Len(q) + 1 \in 1 .. Len(Append(q, e))
    BY <1>1
<1>5. Messages(Append(q, e)) = Messages(q) \cup {e}
  <2>1. ASSUME NEW m \in Messages(Append(q, e)) PROVE m \in Messages(q) \cup {e}
    <3>1. PICK i \in 1 .. Len(Append(q, e)) : m = Append(q, e)[i]
      BY DEF Messages
    <3> QED
      BY <1>1, <1>2, <3>1 DEF Messages
  <2>2. ASSUME NEW m \in Messages(q) PROVE m \in Messages(Append(q, e))
    <3>1. PICK i \in 1 .. Len(q) : m = q[i]
      BY DEF Messages
    <3>2. m = Append(q, e)[i] /\ i \in 1 .. Len(Append(q, e))
      BY <1>1, <1>3, <3>1
    <3> QED
      BY <3>2 DEF Messages
  <2>3. e \in Messages(Append(q, e))
    BY <1>1, <1>4 DEF Messages
  <2> QED
    BY <2>1, <2>2, <2>3
<1> QED
    BY <1>5 DEF Ids

LEMMA AppendIncreasing ==
    ASSUME NEW S, NEW q \in Seq(S), NEW e \in S, Increasing(q), \A x \in Ids(q) : x < e.id
    PROVE  Increasing(Append(q, e))
<1>1. /\ Len(Append(q, e)) = Len(q) + 1 /\ Len(q) \in Nat
      /\ \A i \in 1 .. Len(q) : Append(q, e)[i] = q[i]
      /\ Append(q, e)[Len(q) + 1] = e
    BY AppendProperties, LenProperties
<1>2. \A i \in 1 .. Len(Append(q, e)) : i \in 1 .. Len(q) \/ i = Len(q) + 1
    BY <1>1
<1>3. ASSUME NEW i \in 1 .. Len(Append(q, e)), NEW j \in 1 .. Len(Append(q, e)), i < j
      PROVE  Append(q, e)[i].id < Append(q, e)[j].id
  <2>1. i \in 1 .. Len(q)
    BY <1>1, <1>3
  <2>2. CASE j \in 1 .. Len(q)
    BY <1>1, <1>3, <2>1, <2>2 DEF Increasing
  <2>3. CASE j = Len(q) + 1
    BY <1>1, <2>1, <2>3 DEF Ids, Messages
  <2> QED
    BY <1>2, <2>2, <2>3
<1> QED
    BY <1>3 DEF Increasing

(* What a step does to the queues: a request is put on the bus, the reply  *)
(* channel is emptied, a reply is taken from it or delivered to it, the    *)
(* device answers, a message is lost, or nothing.                          *)
Sends == UNCHANGED <<d2h, replyQ>> /\ \E kind \in Kinds : Put(kind)
Empties == replyQ' = <<>> /\ UNCHANGED <<h2d, d2h, nsent>>
Takes == replyQ # <<>> /\ replyQ' = Tail(replyQ) /\ UNCHANGED <<h2d, d2h, nsent>>
Delivers ==
    d2h # <<>> /\ d2h' = Tail(d2h) /\ replyQ' = Append(replyQ, Head(d2h)) /\ UNCHANGED <<h2d, nsent>>
Answers ==
    /\ h2d # <<>> /\ h2d' = Tail(h2d) /\ UNCHANGED <<replyQ, nsent>>
    /\ \E res \in Results :
           d2h' = Append(d2h, [id |-> Head(h2d).id, kind |-> Head(h2d).kind, res |-> res])
Loses ==
    /\ UNCHANGED <<replyQ, nsent>>
    /\ \/ h2d # <<>> /\ h2d' = Tail(h2d) /\ UNCHANGED d2h
       \/ d2h # <<>> /\ d2h' = Tail(d2h) /\ UNCHANGED h2d
Rests == UNCHANGED <<h2d, d2h, replyQ, nsent>>

QueueStep == Sends \/ Empties \/ Takes \/ Delivers \/ Answers \/ Loses \/ Rests

LEMMA SendsNumber == ASSUME TypeOK, Sends PROVE nsent' # nsent
<1>1. nsent' = nsent + 1 /\ nsent \in Nat
    BY DEF Sends, Put, TypeOK, BusTypeOK
<1> QED
    BY <1>1

LEMMA CallerQueueStep ==
    ASSUME TypeOK, NEW c \in Callers, CallerStep(c)
    PROVE  Sends \/ Empties \/ Takes \/ Rests
<1>1. CASE Transmit(c)
  <2>1. KindFor(c) \in Kinds
    BY KindForTyped DEF TypeOK
  <2> QED
    BY <1>1, <2>1 DEF Transmit, Sends
<1>2. CASE DisconnectSend(c)
    BY <1>2 DEF DisconnectSend, Sends, Rests, Kinds
<1>3. CASE Drain(c)
    BY <1>3 DEF Drain, Empties, busVars
<1>4. CASE TransmitFails(c) \/ CommandTimeout(c) \/ RxClosed(c) \/ Backoff(c) \/ JoinKeepalive(c)
           \/ DisconnectStop(c)
    BY <1>4 DEF TransmitFails, CommandTimeout, RxClosed, Backoff, JoinKeepalive, DisconnectStop,
       Rests, busVars
<1>5. CASE TakeConnect(c) \/ TakeSend(c) \/ TakeRetrying(c) \/ TakeGatedFirst(c)
           \/ TakeReconnect(c) \/ TakeGatedRetry(c)
    BY <1>5 DEF TakeConnect, TakeSend, TakeRetrying, TakeGatedFirst, TakeReconnect,
       TakeGatedRetry, Take, Takes, busVars
<1> QED
    BY <1>1, <1>2, <1>3, <1>4, <1>5 DEF CallerStep

LEMMA BusQueueStep ==
    ASSUME TypeOK, RxStep \/ DeviceStep
    PROVE  Delivers \/ Answers \/ Loses \/ Rests
<1>1. CASE RxStep
    BY <1>1 DEF RxStep, RxDeliver, RxDisconnected, Delivers, Rests, busVars
<1>2. CASE DeviceServes
    BY <1>2 DEF DeviceServes, Verdict, Answers, Results
<1>3. CASE DeviceRefuses
    BY <1>3 DEF DeviceRefuses, Answers, Results
<1>4. CASE BusLoses \/ DeviceExpires
    BY <1>4 DEF BusLoses, DeviceExpires, Loses, Rests
<1> QED
    BY <1>1, <1>2, <1>3, <1>4 DEF DeviceStep

LEMMA KeepaliveQueueStep ==
    ASSUME TypeOK, KeepaliveStep
    PROVE  Sends \/ Takes \/ Rests
BY DEF KeepaliveStep, KeepaliveCancelled, KeepaliveFires, KeepaliveSend, KeepaliveReply,
   KeepaliveFails, Sends, Takes, Rests, Kinds, busVars

LEMMA OtherQueueStep ==
    ASSUME \/ \E c \in Callers, o \in Ops : Start(c, o)
           \/ \E c \in Callers : Cancel(c)
           \/ DropSession \/ AbortStep \/ UNCHANGED vars
    PROVE  Rests
BY DEF Start, Cancel, DropSession, AbortStep, RxAborted, KeepaliveAborted, vars, busVars, Rests

LEMMA NextQueueStep ==
    ASSUME TypeOK, [Next]_vars
    PROVE  QueueStep
BY CallerQueueStep, BusQueueStep, KeepaliveQueueStep, OtherQueueStep DEF Next, Finished, QueueStep

-----------------------------------------------------------------------------
(* Whose replies the callers are given.                                    *)

InFlight == Ids(replyQ) \cup Ids(d2h) \cup Ids(h2d)

(* The replies in the channel are older than those on the bus, and these   *)
(* older than the requests: no request is answered twice.                  *)
OrderInv ==
    /\ Increasing(replyQ) /\ Increasing(d2h) /\ Increasing(h2d)
    /\ Before(replyQ, d2h) /\ Before(replyQ, h2d) /\ Before(d2h, h2d)
    /\ \A x \in InFlight : x \in Nat /\ x <= nsent

LEMMA OrderStep ==
    ASSUME TypeOK, OrderInv, QueueStep
    PROVE  OrderInv'
<1> USE DEF OrderInv, Before, InFlight
<1>0. /\ replyQ \in Seq(Reply) /\ d2h \in Seq(Reply) /\ h2d \in Seq(Request) /\ nsent \in Nat
    BY DEF TypeOK, BusTypeOK
<1>1. CASE Sends
  <2>1. PICK kind \in Kinds : Put(kind)
    BY <1>1 DEF Sends
  <2> DEFINE q == [id |-> nsent + 1, kind |-> kind]
  <2>2. q \in Request /\ q.id = nsent + 1
    BY <1>0 DEF Request
  <2>3. h2d' = Append(h2d, q) /\ nsent' = nsent + 1 /\ UNCHANGED <<d2h, replyQ>>
    BY <1>1, <2>1 DEF Put, Sends
  <2> HIDE DEF q
  <2>4. Ids(h2d') = Ids(h2d) \cup {nsent + 1}
    BY <1>0, <2>2, <2>3, AppendMessages
  <2>5. \A x \in InFlight : x \in Nat /\ x < nsent + 1 /\ x <= nsent + 1
    BY <1>0
  <2>6. Increasing(h2d')
    BY <1>0, <2>2, <2>3, <2>5, AppendIncreasing
  <2> QED
    BY <1>0, <2>3, <2>4, <2>5, <2>6
<1>2. CASE Empties
    BY <1>2, EmptyMessages DEF Empties
<1>3. CASE Takes
    BY <1>0, <1>3, HeadMessages, HeadIncreasing DEF Takes
<1>4. ASSUME NEW e, NEW r \in Reply, r.id = Head(d2h).id, d2h # <<>>, d2h' = Tail(d2h),
             replyQ' = Append(replyQ, r), UNCHANGED <<h2d, nsent>>
      PROVE  OrderInv'
  <2>1. Ids(replyQ') = Ids(replyQ) \cup {Head(d2h).id} /\ Ids(d2h) = {Head(d2h).id} \cup Ids(d2h')
    BY <1>0, <1>4, HeadMessages, AppendMessages
  <2>2. Increasing(d2h') /\ \A x \in Ids(d2h') : Head(d2h).id < x
    BY <1>0, <1>4, HeadIncreasing
  <2>3. \A x \in Ids(replyQ) : x < r.id
    BY <1>4, <2>1
  <2>4. Increasing(replyQ')
    BY <1>0, <1>4, <2>3, AppendIncreasing
  <2> QED
    BY <1>4, <2>1, <2>2, <2>4
<1>5. CASE Delivers
  <2>1. Head(d2h) \in Reply
    BY <1>0, <1>5, HeadTailProperties DEF Delivers
  <2> QED
    BY <1>4, <1>5, <2>1 DEF Delivers
<1>6. CASE Answers
  <2>1. h2d # <<>> /\ h2d' = Tail(h2d) /\ UNCHANGED <<replyQ, nsent>>
    BY <1>6 DEF Answers
  <2>2. PICK r \in Reply : r.id = Head(h2d).id /\ d2h' = Append(d2h, r)
    <3>1. Head(h2d) \in Request
      BY <1>0, <2>1, HeadTailProperties
    <3>2. PICK res \in Results :
             d2h' = Append(d2h, [id |-> Head(h2d).id, kind |-> Head(h2d).kind, res |-> res])
      BY <1>6 DEF Answers
    <3> DEFINE r == [id |-> Head(h2d).id, kind |-> Head(h2d).kind, res |-> res]
    <3>3. r \in Reply /\ r.id = Head(h2d).id
      BY <3>1 DEF Request, Reply
    <3> QED
      BY <3>2, <3>3
  <2>3. Ids(d2h') = Ids(d2h) \cup {Head(h2d).id} /\ Ids(h2d) = {Head(h2d).id} \cup Ids(h2d')
    BY <1>0, <2>1, <2>2, HeadMessages, AppendMessages
  <2>4. Increasing(h2d') /\ \A x \in Ids(h2d') : Head(h2d).id < x
    BY <1>0, <2>1, HeadIncreasing
  <2>5. \A x \in Ids(d2h) : x < r.id
    BY <2>2, <2>3
  <2>6. Increasing(d2h')
    BY <1>0, <2>2, <2>5, AppendIncreasing
  <2> QED
    BY <2>1, <2>3, <2>4, <2>6
<1>7. CASE Loses
  <2>1. CASE h2d # <<>> /\ h2d' = Tail(h2d) /\ UNCHANGED <<d2h, replyQ, nsent>>
    BY <1>0, <2>1, HeadMessages, HeadIncreasing
  <2>2. CASE d2h # <<>> /\ d2h' = Tail(d2h) /\ UNCHANGED <<h2d, replyQ, nsent>>
    BY <1>0, <2>2, HeadMessages, HeadIncreasing
  <2> QED
    BY <1>7, <2>1, <2>2 DEF Loses
<1>8. CASE Rests
    BY <1>8 DEF Rests
<1> QED
    BY <1>1, <1>2, <1>3, <1>5, <1>6, <1>7, <1>8 DEF QueueStep

(* A number is new to the bus only when a request is put there, and the    *)
(* number of a reply that is taken is gone for good.                       *)
LEMMA InFlightStep ==
    ASSUME TypeOK, OrderInv, QueueStep
    PROVE  /\ Sends => InFlight' = InFlight \cup {nsent + 1}
           /\ ~Sends => InFlight' \subseteq InFlight
           /\ Takes => Head(replyQ).id \in InFlight /\ Head(replyQ).id \notin InFlight'
<1> USE DEF InFlight
<1>0. /\ replyQ \in Seq(Reply) /\ d2h \in Seq(Reply) /\ h2d \in Seq(Request) /\ nsent \in Nat
    BY DEF TypeOK, BusTypeOK
<1>1. ASSUME Sends PROVE InFlight' = InFlight \cup {nsent + 1}
  <2>1. PICK kind \in Kinds : Put(kind)
    BY <1>1 DEF Sends
  <2> DEFINE q == [id |-> nsent + 1, kind |-> kind]
  <2>2. q \in Request /\ q.id = nsent + 1
    BY <1>0 DEF Request
  <2>3. h2d' = Append(h2d, q) /\ UNCHANGED <<d2h, replyQ>>
    BY <1>1, <2>1 DEF Put, Sends
  <2> HIDE DEF q
  <2>4. Ids(h2d') = Ids(h2d) \cup {nsent + 1}
    BY <1>0, <2>2, <2>3, AppendMessages
  <2> QED
    BY <2>3, <2>4
<1>2. ASSUME Empties PROVE InFlight' \subseteq InFlight
    BY <1>2, EmptyMessages DEF Empties
<1>3. ASSUME Takes
      PROVE  /\ InFlight' \subseteq InFlight
             /\ Head(replyQ).id \in InFlight /\ Head(replyQ).id \notin InFlight'
  <2>1. /\ Ids(replyQ) = {Head(replyQ).id} \cup Ids(replyQ')
        /\ \A x \in Ids(replyQ') : Head(replyQ).id < x
        /\ UNCHANGED <<d2h, h2d>>
    BY <1>0, <1>3, HeadMessages, HeadIncreasing DEF Takes, OrderInv
  <2>2. \A x \in InFlight' : Head(replyQ).id < x /\ x \in Nat
    BY <2>1 DEF OrderInv, Before
  <2>3. Head(replyQ).id \notin InFlight'
    <3>1. Head(replyQ).id \in Nat
      BY <2>1 DEF OrderInv
    <3> QED
      BY <2>2, <3>1
  <2> QED
    BY <2>1, <2>3
<1>4. ASSUME Delivers PROVE InFlight' \subseteq InFlight
  <2>1. Head(d2h) \in Reply
    BY <1>0, <1>4, HeadTailProperties DEF Delivers
  <2> QED
    BY <1>0, <1>4, <2>1, HeadMessages, AppendMessages DEF Delivers
<1>5. ASSUME Answers PROVE InFlight' \subseteq InFlight
  <2>1. Head(h2d) \in Request
    BY <1>0, <1>5, HeadTailProperties DEF Answers
  <2>2. PICK res \in Results :
           d2h' = Append(d2h, [id |-> Head(h2d).id, kind |-> Head(h2d).kind, res |-> res])
    BY <1>5 DEF Answers
  <2> DEFINE r == [id |-> Head(h2d).id, kind |-> Head(h2d).kind, res |-> res]
  <2>3. r \in Reply /\ r.id = Head(h2d).id /\ d2h' = Append(d2h, r)
    BY <2>1, <2>2 DEF Request, Reply
  <2> HIDE DEF r
  <2> QED
    BY <1>0, <1>5, <2>3, HeadMessages, AppendMessages DEF Answers
<1>6. ASSUME Loses PROVE InFlight' \subseteq InFlight
  <2>1. CASE h2d # <<>> /\ h2d' = Tail(h2d) /\ UNCHANGED <<d2h, replyQ>>
    BY <1>0, <2>1, HeadMessages
  <2>2. CASE d2h # <<>> /\ d2h' = Tail(d2h) /\ UNCHANGED <<h2d, replyQ>>
    BY <1>0, <2>2, HeadMessages
  <2> QED
    BY <1>6, <2>1, <2>2 DEF Loses
<1>7. ASSUME Rests PROVE InFlight' \subseteq InFlight
    BY <1>7 DEF Rests
<1> QED
    BY <1>1, <1>2, <1>3, <1>4, <1>5, <1>6, <1>7 DEF QueueStep

(* Who waits for the reply to request x.                                   *)
Awaited(x) ==
    \/ \E c \in Callers : pc[c] = "wait" /\ mine[c] = x
    \/ ka = "wait" /\ kaReq = x

(* Nothing is on its way that nobody waits for or has given up.            *)
PendingInv == \A x \in InFlight : x \in abandoned \/ Awaited(x)

LEMMA PendingFrame ==
    ASSUME PendingInv, abandoned \subseteq abandoned', InFlight' \subseteq InFlight,
           \A x \in InFlight' : Awaited(x) => Awaited(x)' \/ x \in abandoned'
    PROVE  PendingInv'
BY DEF PendingInv

(* While a caller that holds the lock runs, nobody else waits.             *)
LEMMA OnlyHolderWaits ==
    ASSUME OneCommandInFlight, NEW c \in Callers, holder = c
    PROVE  ka # "wait" /\ \A d \in Callers \ {c} : pc[d] # "wait"
BY SessionAssumption DEF OneCommandInFlight, Inside, Actors

LEMMA TakePending ==
    ASSUME TypeOK, OrderInv, PendingInv, OneCommandInFlight, NEW c \in Callers, holder = c, Take(c),
           UNCHANGED <<h2d, d2h, nsent>>
    PROVE  /\ PendingInv'
           /\ got'[c] = mine[c] \/ got'[c] \in abandoned'
<1>1. Takes /\ pc[c] = "wait"
    BY DEF Take, Takes
<1>2. /\ InFlight' \subseteq InFlight
      /\ Head(replyQ).id \in InFlight /\ Head(replyQ).id \notin InFlight'
  <2>1. ~Sends
    BY SendsNumber
  <2> QED
    BY <1>1, <2>1, InFlightStep DEF QueueStep
<1>3. \A x : Awaited(x) => mine[c] = x
    BY OnlyHolderWaits DEF Awaited
<1>4. /\ got'[c] = Head(replyQ).id
      /\ abandoned' = IF Head(replyQ).id = mine[c] THEN abandoned ELSE abandoned \cup {mine[c]}
    BY DEF Take, TypeOK, CallerTypeOK
<1>5. Head(replyQ).id = mine[c] \/ Head(replyQ).id \in abandoned
    BY <1>2, <1>3 DEF PendingInv
<1> QED
    BY <1>2, <1>3, <1>4, <1>5, PendingFrame

LEMMA CallerPending ==
    ASSUME TypeOK, OrderInv, PendingInv, OneCommandInFlight, NEW c \in Callers, CallerStep(c)
    PROVE  PendingInv'
<1>1. holder = c /\ ka # "wait" /\ \A d \in Callers \ {c} : pc[d] # "wait"
    BY CallerHolds, OnlyHolderWaits
<1>2. QueueStep
    BY CallerQueueStep DEF QueueStep
<1>3. \A x : Awaited(x) => pc[c] = "wait" /\ mine[c] = x
    BY <1>1 DEF Awaited
<1>4. CASE Transmit(c)
  <2>1. /\ abandoned' = abandoned /\ mine'[c] = nsent + 1 /\ pc'[c] = "wait" /\ pc[c] = "send"
    BY <1>4 DEF Transmit, Goto, TypeOK, CallerTypeOK
  <2>2. InFlight' \subseteq InFlight \cup {nsent + 1}
    BY <1>2, InFlightStep
  <2>3. \A x : x = nsent + 1 => Awaited(x)'
    BY <2>1 DEF Awaited
  <2> QED
    BY <1>3, <2>1, <2>2, <2>3 DEF PendingInv
<1>5. CASE DisconnectSend(c)
  <2>1. pc[c] # "wait"
    BY <1>5 DEF DisconnectSend
  <2>2. CASE abandoned' = abandoned \cup {nsent + 1}
    <3>1. InFlight' \subseteq InFlight \cup {nsent + 1}
      BY <1>2, InFlightStep
    <3> QED
      BY <1>3, <2>1, <2>2, <3>1 DEF PendingInv
  <2>3. CASE UNCHANGED <<h2d, nsent, abandoned>>
    <3>1. UNCHANGED <<d2h, replyQ>>
      BY <1>5 DEF DisconnectSend
    <3> QED
      BY <1>3, <2>1, <2>3, <3>1, PendingFrame DEF InFlight
  <2> QED
    BY <1>5, <2>2, <2>3 DEF DisconnectSend
<1>6. CASE Drain(c) \/ TransmitFails(c) \/ Backoff(c) \/ JoinKeepalive(c) \/ DisconnectStop(c)
  <2>1. pc[c] # "wait" /\ abandoned' = abandoned /\ nsent' = nsent
    BY <1>6 DEF Drain, TransmitFails, Backoff, JoinKeepalive, DisconnectStop, busVars
  <2>2. ~Sends
    BY <2>1, SendsNumber
  <2> QED
    BY <1>2, <1>3, <2>1, <2>2, InFlightStep, PendingFrame
<1>7. CASE CommandTimeout(c) \/ RxClosed(c)
  <2>1. abandoned' = abandoned \cup {mine[c]} /\ UNCHANGED <<h2d, d2h, replyQ>>
    BY <1>7 DEF CommandTimeout, RxClosed, busVars
  <2> QED
    BY <1>3, <2>1, PendingFrame DEF InFlight
<1>8. CASE TakeConnect(c) \/ TakeSend(c) \/ TakeRetrying(c) \/ TakeGatedFirst(c)
           \/ TakeReconnect(c) \/ TakeGatedRetry(c)
  <2>1. Take(c) /\ UNCHANGED <<h2d, d2h, nsent>>
    BY <1>8 DEF TakeConnect, TakeSend, TakeRetrying, TakeGatedFirst, TakeReconnect,
       TakeGatedRetry, busVars
  <2> QED
    BY <1>1, <2>1, TakePending
<1> QED
    BY <1>4, <1>5, <1>6, <1>7, <1>8 DEF CallerStep

LEMMA KeepalivePending ==
    ASSUME TypeOK, OrderInv, PendingInv, OneCommandInFlight, KeepaliveStep
    PROVE  PendingInv'
<1>1. QueueStep
    BY KeepaliveQueueStep DEF QueueStep
<1>2. UNCHANGED <<pc, mine>>
    BY DEF KeepaliveStep, KeepaliveCancelled, KeepaliveFires, KeepaliveSend, KeepaliveReply,
       KeepaliveFails, callerVars
<1>3. CASE KeepaliveCancelled \/ KeepaliveFires
  <2>1. ka # "wait" /\ UNCHANGED <<h2d, d2h, replyQ, abandoned>>
    BY <1>3 DEF KeepaliveCancelled, KeepaliveFires, busVars
  <2> QED
    BY <1>2, <2>1, PendingFrame DEF InFlight, Awaited
<1>4. KeepaliveSend \/ KeepaliveReply \/ KeepaliveFails => \A d \in Callers : pc[d] # "wait"
    BY SessionAssumption DEF KeepaliveSend, KeepaliveReply, KeepaliveFails, OneCommandInFlight,
       Inside, Actors
<1>5. CASE KeepaliveSend
  <2>1. ka # "wait" /\ ka' = "wait" /\ kaReq' = nsent + 1 /\ abandoned' = abandoned
    BY <1>5 DEF KeepaliveSend
  <2>2. InFlight' \subseteq InFlight \cup {nsent + 1}
    BY <1>1, InFlightStep
  <2>3. \A x : ~Awaited(x)
    BY <1>4, <1>5, <2>1 DEF Awaited
  <2>4. \A x : x = nsent + 1 => Awaited(x)'
    BY <2>1 DEF Awaited
  <2> QED
    BY <2>1, <2>2, <2>3, <2>4 DEF PendingInv
<1>6. CASE KeepaliveReply
  <2>1. /\ ka = "wait" /\ replyQ # <<>> /\ replyQ' = Tail(replyQ) /\ UNCHANGED <<h2d, d2h, nsent>>
        /\ abandoned' = IF Head(replyQ).id = kaReq THEN abandoned ELSE abandoned \cup {kaReq}
    BY <1>6 DEF KeepaliveReply, busVars
  <2>2. Takes /\ ~Sends
    BY <2>1, SendsNumber DEF Takes
  <2>3. InFlight' \subseteq InFlight /\ Head(replyQ).id \notin InFlight'
    BY <1>1, <2>2, InFlightStep
  <2>4. \A x : Awaited(x) => kaReq = x
    BY <1>4, <1>6 DEF Awaited
  <2> QED
    BY <2>1, <2>3, <2>4, PendingFrame
<1>7. CASE KeepaliveFails
  <2>1. /\ UNCHANGED <<h2d, d2h, replyQ>>
        /\ (ka = "lock" /\ abandoned' = abandoned)
           \/ (ka = "wait" /\ abandoned' = abandoned \cup {kaReq})
    BY <1>7 DEF KeepaliveFails, busVars
  <2>2. \A x : Awaited(x) => ka = "wait" /\ kaReq = x
    BY <1>4, <1>7 DEF Awaited
  <2> QED
    BY <2>1, <2>2, PendingFrame DEF InFlight
<1> QED
    BY <1>3, <1>5, <1>6, <1>7 DEF KeepaliveStep

LEMMA PendingStep ==
    ASSUME TypeOK, OrderInv, PendingInv, OneCommandInFlight, [Next]_vars
    PROVE  PendingInv'
<1> USE DEF TypeOK, CallerTypeOK
<1>1. ASSUME NEW c \in Callers, NEW o \in Ops, Start(c, o)
      PROVE  PendingInv'
  <2>1. /\ \A d \in Callers : pc[d] = "wait" => pc'[d] = "wait"
        /\ UNCHANGED <<mine, ka, kaReq, h2d, d2h, replyQ, abandoned>>
    BY <1>1 DEF Start, Goto, kaVars, busVars
  <2> QED
    BY <2>1, PendingFrame DEF InFlight, Awaited
<1>2. ASSUME NEW c \in Callers, CallerStep(c)
      PROVE  PendingInv'
    BY <1>2, CallerPending
<1>3. ASSUME NEW c \in Callers, Cancel(c)
      PROVE  PendingInv'
  <2>1. /\ pc' = [pc EXCEPT ![c] = "idle"]
        /\ abandoned' = IF pc[c] = "wait" THEN abandoned \cup {mine[c]} ELSE abandoned
        /\ UNCHANGED <<mine, ka, kaReq, h2d, d2h, replyQ>>
    BY <1>3 DEF Cancel, kaVars, busVars
  <2>2. \A x : Awaited(x) => Awaited(x)' \/ (pc[c] = "wait" /\ mine[c] = x)
    BY <2>1 DEF Awaited
  <2> QED
    BY <2>1, <2>2, PendingFrame DEF InFlight
<1>4. CASE DropSession \/ AbortStep
  <2>1. /\ UNCHANGED <<pc, mine, kaReq, h2d, d2h, replyQ>>
        /\ abandoned \subseteq abandoned'
        /\ UNCHANGED ka \/ (ka = "wait" => kaReq \in abandoned')
    BY <1>4 DEF DropSession, AbortStep, RxAborted, KeepaliveAborted, callerVars, kaVars, busVars
  <2>2. \A x : Awaited(x) => Awaited(x)' \/ x \in abandoned'
    BY <2>1 DEF Awaited
  <2> QED
    BY <2>1, <2>2, PendingFrame DEF InFlight
<1>5. CASE KeepaliveStep
    BY <1>5, KeepalivePending
<1>6. CASE RxStep \/ DeviceStep
  <2>1. UNCHANGED <<pc, mine, ka, kaReq, abandoned, nsent>>
    BY <1>6 DEF RxStep, RxDeliver, RxDisconnected, DeviceStep, DeviceServes, DeviceRefuses,
       BusLoses, DeviceExpires, callerVars, kaVars, busVars
  <2>2. ~Sends
    BY <2>1, SendsNumber
  <2>3. InFlight' \subseteq InFlight
    BY <1>6, <2>2, BusQueueStep, InFlightStep DEF QueueStep
  <2> QED
    BY <2>1, <2>3, PendingFrame DEF Awaited
<1>7. CASE UNCHANGED vars
    BY <1>7, PendingFrame DEF vars, callerVars, kaVars, busVars, InFlight, Awaited
<1> QED
    BY <1>1, <1>2, <1>3, <1>4, <1>5, <1>6, <1>7 DEF Next, Finished

LEMMA OwnFrame ==
    ASSUME OwnOrAbandoned, abandoned \subseteq abandoned',
           \A d \in Callers : \/ got'[d] = 0
                              \/ got'[d] = got[d] /\ mine'[d] = mine[d]
                              \/ got'[d] = mine'[d] \/ got'[d] \in abandoned'
    PROVE  OwnOrAbandoned'
BY DEF OwnOrAbandoned

LEMMA OwnStep ==
    ASSUME TypeOK, OrderInv, PendingInv, OneCommandInFlight, BusIsOwnAll, OwnOrAbandoned, [Next]_vars
    PROVE  OwnOrAbandoned'
<1> USE DEF TypeOK, CallerTypeOK
<1>1. ASSUME NEW c \in Callers, NEW o \in Ops, Start(c, o)
      PROVE  OwnOrAbandoned'
  <2>1. got' = [got EXCEPT ![c] = 0] /\ UNCHANGED <<mine, abandoned>>
    BY <1>1 DEF Start
  <2> QED
    BY <2>1, OwnFrame
<1>2. ASSUME NEW c \in Callers, CallerStep(c)
      PROVE  OwnOrAbandoned'
  <2>1. \A d \in Callers \ {c} : got'[d] = got[d] /\ mine'[d] = mine[d]
    BY <1>2, CallerFrame
  <2>2. CASE Drain(c)
    BY <2>1, <2>2, OwnFrame DEF Drain
  <2>3. CASE Transmit(c)
    BY <2>1, <2>3, OwnFrame DEF Transmit, BusIsOwnAll, BusIsOwn
  <2>4. CASE TransmitFails(c) \/ CommandTimeout(c) \/ RxClosed(c) \/ Backoff(c)
             \/ JoinKeepalive(c) \/ DisconnectSend(c) \/ DisconnectStop(c)
    <3>1. UNCHANGED <<got, mine>> /\ abandoned \subseteq abandoned'
      BY <2>4 DEF TransmitFails, CommandTimeout, RxClosed, Backoff, JoinKeepalive, DisconnectSend,
         DisconnectStop
    <3> QED
      BY <3>1, OwnFrame
  <2>5. CASE TakeConnect(c) \/ TakeSend(c) \/ TakeRetrying(c) \/ TakeGatedFirst(c)
             \/ TakeReconnect(c) \/ TakeGatedRetry(c)
    <3>1. Take(c) /\ UNCHANGED <<h2d, d2h, nsent, mine>>
      BY <2>5 DEF TakeConnect, TakeSend, TakeRetrying, TakeGatedFirst, TakeReconnect,
         TakeGatedRetry, busVars
    <3>2. got'[c] = mine[c] \/ got'[c] \in abandoned'
      BY <1>2, <3>1, CallerHolds, TakePending
    <3>3. abandoned \subseteq abandoned'
      BY <3>1 DEF Take
    <3> QED
      BY <2>1, <3>1, <3>2, <3>3, OwnFrame
  <2> QED
    BY <1>2, <2>2, <2>3, <2>4, <2>5 DEF CallerStep
<1>3. ASSUME \/ \E c \in Callers : Cancel(c)
             \/ DropSession \/ AbortStep \/ KeepaliveStep \/ RxStep \/ DeviceStep \/ UNCHANGED vars
      PROVE  OwnOrAbandoned'
  <2>1. UNCHANGED <<got, mine>> /\ abandoned \subseteq abandoned'
    BY <1>3 DEF Cancel, DropSession, AbortStep, RxAborted, KeepaliveAborted, KeepaliveStep,
       KeepaliveCancelled, KeepaliveFires,
       KeepaliveSend, KeepaliveReply, KeepaliveFails, RxStep, RxDeliver, RxDisconnected,
       DeviceStep, DeviceServes, DeviceRefuses, BusLoses, DeviceExpires, callerVars, vars
  <2> QED
    BY <2>1, OwnFrame
<1> QED
    BY <1>1, <1>2, <1>3 DEF Next, Finished

(* A caller is given the reply to its own request or to one whose sender   *)
(* has given up: a reply that another task is waiting for is never taken   *)
(* (session/mod.rs:888-919).                                               *)
THEOREM RepliesAreOwnOrAbandoned == Spec => []OwnOrAbandoned
<1>1. Init => OrderInv /\ PendingInv /\ OwnOrAbandoned
    BY EmptyMessages DEF Init, OrderInv, Before, InFlight, PendingInv, OwnOrAbandoned
<1>2. TypeOK /\ OrderInv /\ [Next]_vars => OrderInv'
    BY OrderStep, NextQueueStep
<1>3. TypeOK /\ OneCommandInFlight /\ OrderInv /\ PendingInv /\ [Next]_vars => PendingInv'
    BY PendingStep
<1>4. TypeOK /\ OneCommandInFlight /\ BusIsOwnAll /\ OrderInv /\ PendingInv /\ OwnOrAbandoned
      /\ [Next]_vars => OwnOrAbandoned'
    BY OwnStep
<1> QED
    BY <1>1, <1>2, <1>3, <1>4, TypeCorrect, SingleInFlight, BusIsOwnInvariant, PTL DEF Spec

-----------------------------------------------------------------------------
(* What an ACK of CONNECT is worth.                                        *)

(* Nothing of the queue says that the device is connected, or that it is   *)
(* not, or asks it to disconnect.                                          *)
NoAck(q) == \A r \in Messages(q) : ~Accepted(r)
NoRefusal(q) == \A r \in Messages(q) : r.res # "bad_session"
NoDisconnect(q) == \A r \in Messages(q) : r.kind # "DISCONNECT"

(* disconnect is past its last message.                                    *)
Ending ==
    \/ session = "closed"
    \/ \E c \in Callers : opn[c] = "disconnect" /\ pc[c] \in {"stop", "join"}

(* Until then, neither the flag nor an ACK says more than the device.      *)
Truthful ==
    /\ connected => devSession
    /\ devSession \/ (NoAck(d2h) /\ NoAck(replyQ))
    /\ NoDisconnect(h2d)

AgreeInv == faults = 0 => Truthful \/ (~connected /\ Ending)

(* A resent gated command finds the session its reconnect made.            *)
RetryInv ==
    faults = 0 =>
        \A c \in Callers :
            opn[c] = "gated" /\ phase[c] = "retry" =>
                /\ pc[c] # "idle" => connected
                /\ clean[c] /\ pc[c] \in {"send", "wait"} => NoRefusal(d2h) /\ NoRefusal(replyQ)
                /\ clean[c] /\ pc[c] = "idle" => out[c] # "bad_session"

(* The contents of the queues after a step.                                *)
LEMMA QueueContents ==
    ASSUME TypeOK, QueueStep
    PROVE  /\ ~Sends => Messages(h2d') \subseteq Messages(h2d)
           /\ ~Answers => Messages(d2h') \subseteq Messages(d2h)
           /\ Messages(replyQ') \subseteq Messages(replyQ) \cup Messages(d2h)
           /\ Takes => Head(replyQ) \in Messages(replyQ)
<1>0. replyQ \in Seq(Reply) /\ d2h \in Seq(Reply) /\ h2d \in Seq(Request)
    BY DEF TypeOK, BusTypeOK
<1>1. /\ h2d # <<>> => Messages(Tail(h2d)) \subseteq Messages(h2d)
      /\ d2h # <<>> => Head(d2h) \in Messages(d2h) /\ Messages(Tail(d2h)) \subseteq Messages(d2h)
      /\ replyQ # <<>> => /\ Head(replyQ) \in Messages(replyQ)
                          /\ Messages(Tail(replyQ)) \subseteq Messages(replyQ)
    BY <1>0, HeadMessages
<1>2. CASE Sends
    BY <1>1, <1>2 DEF Sends, Takes
<1>3. CASE Empties
    BY <1>1, <1>3, EmptyMessages DEF Empties, Takes
<1>4. CASE Takes
    BY <1>1, <1>4 DEF Takes
<1>5. CASE Delivers
  <2>1. Head(d2h) \in Reply
    BY <1>0, <1>5, HeadTailProperties DEF Delivers
  <2>2. Messages(replyQ') = Messages(replyQ) \cup {Head(d2h)}
    BY <1>0, <1>5, <2>1, AppendMessages DEF Delivers
  <2> QED
    BY <1>1, <1>5, <2>2 DEF Delivers, Takes
<1>6. CASE Answers
    BY <1>1, <1>6 DEF Answers, Takes
<1>7. CASE Loses
    BY <1>1, <1>7 DEF Loses, Takes
<1>8. CASE Rests
    BY <1>1, <1>8 DEF Rests, Takes
<1> QED
    BY <1>2, <1>3, <1>4, <1>5, <1>6, <1>7, <1>8 DEF QueueStep

(* What the device says of itself.                                         *)
LEMMA ServedTruthfully ==
    ASSUME TypeOK, Truthful, DeviceServes
    PROVE  /\ Truthful' /\ (devSession => devSession')
           /\ devSession /\ NoRefusal(d2h) => NoRefusal(d2h')
<1>0. d2h \in Seq(Reply) /\ h2d \in Seq(Request) /\ h2d # <<>>
    BY DEF TypeOK, BusTypeOK, DeviceServes
<1> DEFINE q == Head(h2d)
           r == [id |-> q.id, kind |-> q.kind, res |-> Verdict(q)]
<1>1. /\ h2d' = Tail(h2d) /\ d2h' = Append(d2h, r) /\ UNCHANGED <<connected, replyQ>>
      /\ devSession' = CASE q.kind = "CONNECT" /\ VersionOk -> TRUE
                         [] q.kind = "DISCONNECT"           -> FALSE
                         [] OTHER                           -> devSession
    BY DEF DeviceServes
<1>2. q \in Messages(h2d) /\ Messages(h2d') \subseteq Messages(h2d) /\ q \in Request
    BY <1>0, <1>1, HeadMessages, HeadTailProperties
<1>3. q.kind # "DISCONNECT"
    BY <1>2 DEF Truthful, NoDisconnect
<1>4. Verdict(q) \in Results
    BY DEF Verdict, Results
<1>5. /\ r \in Reply /\ r.kind = q.kind /\ r.res = Verdict(q)
    BY <1>2, <1>4 DEF Request, Reply
<1> HIDE DEF r
<1>6. Messages(d2h') = Messages(d2h) \cup {r}
    BY <1>0, <1>1, <1>5, AppendMessages
<1> HIDE DEF q
<1>7. /\ devSession => devSession'
      /\ Accepted(r) => devSession'
      /\ devSession' # devSession => devSession'
      /\ devSession => r.res # "bad_session"
    BY <1>1, <1>3, <1>5 DEF Accepted, Verdict, TypeOK, BusTypeOK
<1>8. Truthful'
    BY <1>1, <1>2, <1>6, <1>7 DEF Truthful, NoAck, NoDisconnect
<1>9. devSession /\ NoRefusal(d2h) => NoRefusal(d2h')
    BY <1>6, <1>7 DEF NoRefusal
<1> QED
    BY <1>7, <1>8, <1>9

(* A step that neither sends nor answers leaves the truth as it is.        *)
LEMMA TruthfulFrame ==
    ASSUME TypeOK, Truthful, QueueStep, ~Sends, ~Answers, UNCHANGED devSession,
           connected' => connected \/ devSession
    PROVE  Truthful'
BY QueueContents DEF Truthful, NoAck, NoDisconnect

LEMMA TruthfulSend ==
    ASSUME TypeOK, Truthful, NEW kind \in Kinds, kind # "DISCONNECT", Put(kind),
           UNCHANGED <<devSession, connected, d2h, replyQ>>
    PROVE  Truthful'
<1>1. h2d \in Seq(Request) /\ nsent \in Nat
    BY DEF TypeOK, BusTypeOK
<1> DEFINE q == [id |-> nsent + 1, kind |-> kind]
<1>2. q \in Request /\ q.kind = kind /\ h2d' = Append(h2d, q)
    BY <1>1 DEF Request, Put
<1> HIDE DEF q
<1>3. Messages(h2d') = Messages(h2d) \cup {q}
    BY <1>1, <1>2, AppendMessages
<1> QED
    BY <1>2, <1>3 DEF Truthful, NoAck, NoDisconnect

LEMMA AnswersNot ==
    ASSUME TypeOK, Answers
    PROVE  d2h' # d2h
<1>1. d2h \in Seq(Reply) /\ h2d \in Seq(Request) /\ h2d # <<>>
    BY DEF TypeOK, BusTypeOK, Answers
<1>2. Head(h2d) \in Request
    BY <1>1, HeadTailProperties
<1>3. PICK res \in Results :
         d2h' = Append(d2h, [id |-> Head(h2d).id, kind |-> Head(h2d).kind, res |-> res])
    BY DEF Answers
<1> DEFINE r == [id |-> Head(h2d).id, kind |-> Head(h2d).kind, res |-> res]
<1>4. r \in Reply /\ d2h' = Append(d2h, r)
    BY <1>2, <1>3 DEF Request, Reply
<1> HIDE DEF r
<1>5. Len(d2h') = Len(d2h) + 1 /\ Len(d2h) \in Nat
    BY <1>1, <1>4, AppendProperties, LenProperties
<1> QED
    BY <1>5

LEMMA TailIsOther ==
    ASSUME NEW S, NEW q \in Seq(S), q # <<>>
    PROVE  Tail(q) # q
<1>1. Len(q) \in Nat \ {0}
    BY EmptySeq
<1>2. Len(Tail(q)) = Len(q) - 1
    BY HeadTailProperties
<1> DEFINE n == Len(q)
           t == Len(Tail(q))
<1>3. t # n
  <2>1. n \in Nat /\ t = n - 1
    BY <1>1, <1>2
  <2> HIDE DEF n, t
  <2> QED
    BY <2>1
<1> QED
    BY <1>3, Zenon

(* The steps of a caller while the session has not ended.                  *)
LEMMA CallerTruthful ==
    ASSUME TypeOK, Truthful, NEW c \in Callers, CallerStep(c), ~DisconnectSend(c)
    PROVE  Truthful'
<1>0. QueueStep /\ UNCHANGED devSession
  <2>1. UNCHANGED devSession
    BY DEF CallerStep, Drain, Transmit, TransmitFails, CommandTimeout, RxClosed, Backoff,
       TakeConnect, TakeSend, TakeRetrying, TakeGatedFirst, TakeReconnect, TakeGatedRetry,
       JoinKeepalive, DisconnectSend, DisconnectStop, busVars
  <2> QED
    BY <2>1, CallerQueueStep DEF QueueStep
<1>1. CASE Transmit(c)
  <2>1. KindFor(c) \in Kinds /\ KindFor(c) # "DISCONNECT"
    BY KindForTyped DEF TypeOK, KindFor
  <2> QED
    BY <1>0, <1>1, <2>1, TruthfulSend DEF Transmit
<1>2. ASSUME ~Transmit(c) PROVE ~Sends /\ ~Answers
  <2>1. UNCHANGED <<nsent, d2h>>
    BY <1>2 DEF CallerStep, Drain, TransmitFails, CommandTimeout, RxClosed, Backoff,
       TakeConnect, TakeSend, TakeRetrying, TakeGatedFirst, TakeReconnect, TakeGatedRetry,
       JoinKeepalive, DisconnectStop, busVars
  <2> QED
    BY <2>1, SendsNumber, AnswersNot
<1>3. CASE Drain(c) \/ TransmitFails(c) \/ CommandTimeout(c) \/ RxClosed(c) \/ Backoff(c)
           \/ TakeSend(c) \/ TakeRetrying(c) \/ TakeGatedRetry(c) \/ JoinKeepalive(c)
           \/ DisconnectStop(c)
  <2>1. connected' = connected /\ ~Transmit(c)
    <3>1. connected' = connected
      BY <1>3 DEF Drain, TransmitFails, CommandTimeout, RxClosed, Backoff, TakeSend,
         TakeRetrying, TakeGatedRetry, JoinKeepalive, DisconnectStop
    <3>2. nsent' = nsent
      BY <1>3 DEF Drain, TransmitFails, CommandTimeout, RxClosed, Backoff, TakeSend,
         TakeRetrying, TakeGatedRetry, JoinKeepalive, DisconnectStop, busVars
    <3> QED
      BY <3>1, <3>2, SendsNumber, KindForTyped DEF Transmit, Sends, TypeOK
  <2> QED
    BY <1>0, <1>2, <2>1, TruthfulFrame
<1>4. CASE TakeConnect(c) \/ TakeGatedFirst(c) \/ TakeReconnect(c)
  <2>1. /\ Take(c) /\ UNCHANGED <<h2d, d2h, nsent>>
        /\ connected' => connected \/ Accepted(Head(replyQ))
    BY <1>4 DEF TakeConnect, TakeGatedFirst, TakeReconnect, busVars
  <2>2. Takes /\ ~Sends /\ ~Answers
    BY <2>1, SendsNumber, AnswersNot DEF Take, Takes
  <2>3. Head(replyQ) \in Messages(replyQ)
    BY <1>0, <2>2, QueueContents
  <2>4. connected' => connected \/ devSession
    BY <2>1, <2>3 DEF Truthful, NoAck
  <2> QED
    BY <1>0, <2>2, <2>4, TruthfulFrame
<1> QED
    BY <1>1, <1>3, <1>4 DEF CallerStep

(* Past its last message, disconnect is alone.                             *)
LEMMA EndingStep ==
    ASSUME TypeOK, OneCommandInFlight, QuietInv, Ending, ~connected, [Next]_vars
    PROVE  ~connected' /\ Ending'
<1> USE DEF TypeOK, CallerTypeOK
<1>1. ASSUME NEW c \in Callers, NEW o \in Ops, Start(c, o)
      PROVE  ~connected' /\ Ending'
  <2>1. /\ UNCHANGED connected /\ session # "closed" /\ pc[c] = "idle"
        /\ pc' = [pc EXCEPT ![c] = "ready"] /\ opn' = [opn EXCEPT ![c] = o]
    BY <1>1 DEF Start, Goto
  <2>2. PICK e \in Callers : opn[e] = "disconnect" /\ pc[e] \in {"stop", "join"}
    BY <2>1 DEF Ending
  <2>3. opn'[e] = "disconnect" /\ pc'[e] = pc[e]
    BY <2>1, <2>2
  <2> QED
    BY <2>1, <2>2, <2>3 DEF Ending
<1>2. ASSUME NEW c \in Callers, CallerStep(c)
      PROVE  ~connected' /\ Ending'
  <2>1. pc[c] # "idle" /\ holder = c
    BY <1>2, CallerHolds, StepperNotIdle
  <2>2. PICK e \in Callers : opn[e] = "disconnect" /\ pc[e] \in {"stop", "join"}
    BY <2>1 DEF Ending, QuietInv
  <2>3. e = c
    BY <2>1, <2>2 DEF OneCommandInFlight, Inside, Actors
  <2>4. JoinKeepalive(c) \/ DisconnectStop(c)
    BY <1>2, <2>2, <2>3 DEF CallerStep, Drain, Transmit, TransmitFails, CommandTimeout, RxClosed,
       Backoff, TakeConnect, TakeSend, TakeRetrying, TakeGatedFirst, TakeReconnect,
       TakeGatedRetry, Take, DisconnectSend
  <2>5. UNCHANGED <<connected, opn>> /\ (session' = "closed" \/ pc'[c] = "join")
    BY <2>2, <2>3, <2>4 DEF JoinKeepalive, DisconnectStop, Goto
  <2> QED
    BY <2>2, <2>3, <2>5 DEF Ending
<1>3. ASSUME NEW c \in Callers, Cancel(c)
      PROVE  ~connected' /\ Ending'
  <2>1. /\ UNCHANGED <<connected, session, opn>> /\ opn[c] # "disconnect"
        /\ pc' = [pc EXCEPT ![c] = "idle"]
    BY <1>3 DEF Cancel
  <2> QED
    BY <2>1 DEF Ending
<1>4. CASE DropSession
    BY <1>4 DEF DropSession, Ending
<1>5. CASE AbortStep \/ KeepaliveStep \/ RxStep \/ DeviceStep \/ UNCHANGED vars
  <2>1. UNCHANGED <<connected, session, opn, pc>>
    BY <1>5 DEF AbortStep, RxAborted, KeepaliveAborted, KeepaliveStep, KeepaliveCancelled, KeepaliveFires, KeepaliveSend, KeepaliveReply,
       KeepaliveFails, RxStep, RxDeliver, RxDisconnected, DeviceStep, DeviceServes, DeviceRefuses,
       BusLoses, DeviceExpires, callerVars, vars
  <2> QED
    BY <2>1 DEF Ending
<1> QED
    BY <1>1, <1>2, <1>3, <1>4, <1>5 DEF Next, Finished

(* Faults are counted, and never uncounted.                                *)
LEMMA FaultsCount ==
    ASSUME TypeOK, [Next]_vars, faults' = 0
    PROVE  faults = 0
<1>1. faults' \in {faults, faults + 1} /\ faults \in Nat
    BY DEF Next, Finished, Start, CallerStep, Drain, Transmit, TransmitFails, CommandTimeout,
       RxClosed, Backoff, TakeConnect, TakeSend, TakeRetrying, TakeGatedFirst, TakeReconnect,
       TakeGatedRetry, JoinKeepalive, DisconnectSend, DisconnectStop, Cancel, DropSession,
       AbortStep, RxAborted, KeepaliveAborted, KeepaliveStep, KeepaliveCancelled, KeepaliveFires, KeepaliveSend, KeepaliveReply,
       KeepaliveFails, RxStep, RxDeliver, RxDisconnected, DeviceStep, DeviceServes, DeviceRefuses,
       BusLoses, DeviceExpires, vars, TypeOK
<1> QED
    BY <1>1

LEMMA AgreeStep ==
    ASSUME TypeOK, OneCommandInFlight, QuietInv, AgreeInv, [Next]_vars
    PROVE  AgreeInv'
<1> SUFFICES ASSUME faults' = 0
             PROVE  Truthful' \/ (~connected' /\ Ending')
    BY DEF AgreeInv
<1>1. faults = 0 /\ QueueStep
    BY FaultsCount, NextQueueStep
<1>2. CASE ~connected /\ Ending
    BY <1>2, EndingStep
<1>3. CASE Truthful
  <2>1. ASSUME NEW c \in Callers, CallerStep(c)
        PROVE  Truthful' \/ (~connected' /\ Ending')
    <3>1. CASE DisconnectSend(c)
      BY <3>1 DEF DisconnectSend, Goto, Ending, TypeOK, CallerTypeOK
    <3>2. CASE ~DisconnectSend(c)
      BY <1>3, <2>1, <3>2, CallerTruthful
    <3> QED
      BY <3>1, <3>2
  <2>2. CASE KeepaliveSend
    BY <1>3, <2>2, TruthfulSend DEF KeepaliveSend, Kinds
  <2>3. ASSUME UNCHANGED <<connected, devSession>>, ~Sends, ~Answers
        PROVE  Truthful'
    BY <1>1, <1>3, <2>3, TruthfulFrame
  <2>4. CASE KeepaliveStep /\ ~KeepaliveSend
    <3>1. UNCHANGED <<connected, devSession, nsent, d2h>>
      BY <2>4 DEF KeepaliveStep, KeepaliveCancelled, KeepaliveFires, KeepaliveReply,
         KeepaliveFails, busVars
    <3> QED
      BY <2>3, <3>1, SendsNumber, AnswersNot
  <2>5. CASE RxDeliver
    <3>1. UNCHANGED <<connected, devSession, nsent, h2d>>
      BY <2>5 DEF RxDeliver
    <3>2. ~Answers
      BY <3>1, TailIsOther DEF Answers, TypeOK, BusTypeOK
    <3> QED
      BY <2>3, <3>1, <3>2, SendsNumber
  <2>6. CASE DeviceServes
    BY <1>3, <2>6, ServedTruthfully
  <2>7. CASE DeviceRefuses \/ RxDisconnected \/ BusLoses \/ DeviceExpires
    BY <1>1, <2>7 DEF DeviceRefuses, RxDisconnected, BusLoses, DeviceExpires
  <2>8. CASE \/ \E c \in Callers, o \in Ops : Start(c, o)
             \/ \E c \in Callers : Cancel(c)
             \/ DropSession \/ AbortStep \/ UNCHANGED vars
    <3>1. UNCHANGED <<connected, devSession, nsent, d2h>>
      BY <2>8 DEF Start, Cancel, DropSession, AbortStep, RxAborted, KeepaliveAborted, busVars, vars
    <3> QED
      BY <2>3, <3>1, SendsNumber, AnswersNot
  <2> QED
    BY <2>1, <2>2, <2>4, <2>5, <2>6, <2>7, <2>8 DEF Next, Finished, RxStep, DeviceStep
<1> QED
    BY <1>1, <1>2, <1>3 DEF AgreeInv

(* What a step means for a caller other than the one that takes it.        *)
LEMMA OutFrame ==
    ASSUME TypeOK, NEW c \in Callers, CallerStep(c)
    PROVE  \A d \in Callers \ {c} : out'[d] = out[d]
<1> USE DEF TypeOK, CallerTypeOK, RetryOrReturn, Return
<1>1. CASE Drain(c) \/ Transmit(c) \/ Backoff(c) \/ DisconnectSend(c)
    BY <1>1 DEF Drain, Transmit, Backoff, DisconnectSend
<1>2. CASE TransmitFails(c) \/ CommandTimeout(c) \/ RxClosed(c)
    BY <1>2 DEF TransmitFails, CommandTimeout, RxClosed
<1>3. CASE TakeConnect(c) \/ TakeSend(c) \/ TakeRetrying(c) \/ TakeGatedRetry(c)
    BY <1>3 DEF TakeConnect, TakeSend, TakeRetrying, TakeGatedRetry
<1>4. CASE TakeGatedFirst(c) \/ TakeReconnect(c)
    BY <1>4 DEF TakeGatedFirst, TakeReconnect
<1>5. CASE JoinKeepalive(c) \/ DisconnectStop(c)
    BY <1>5 DEF JoinKeepalive, DisconnectStop
<1> QED
    BY <1>1, <1>2, <1>3, <1>4, <1>5 DEF CallerStep

Restored(c) ==
    /\ pc[c] # "idle" => connected
    /\ clean[c] /\ pc[c] \in {"send", "wait"} => NoRefusal(d2h) /\ NoRefusal(replyQ)
    /\ clean[c] /\ pc[c] = "idle" => out[c] # "bad_session"

(* The caller's own steps after its reconnect.                             *)
LEMMA OwnRestored ==
    ASSUME TypeOK, QuietInv, NEW c \in Callers, opn[c] = "gated", phase[c] = "retry", Restored(c),
           CallerStep(c), faults' = faults
    PROVE  Restored(c)'
<1> USE DEF TypeOK, CallerTypeOK
<1>0. connected /\ pc[c] # "idle" /\ pc[c] # "stop"
    BY StepperNotIdle DEF Restored, QuietInv
<1>1. CASE Drain(c)
  <2>1. /\ replyQ' = <<>> /\ clean'[c] = (h2d = <<>> /\ d2h = <<>>) /\ pc'[c] = "send"
        /\ UNCHANGED <<connected, d2h>>
    BY <1>1 DEF Drain, Goto, busVars
  <2> QED
    BY <1>0, <2>1, EmptyMessages DEF Restored, NoRefusal
<1>2. CASE Transmit(c)
  <2>1. /\ pc[c] = "send" /\ pc'[c] = "wait" /\ UNCHANGED <<connected, clean, d2h, replyQ>>
    BY <1>2 DEF Transmit, Goto
  <2> QED
    BY <1>0, <2>1 DEF Restored, NoRefusal
<1>3. CASE CommandTimeout(c) \/ RxClosed(c)
  <2>1. pc'[c] = "idle" /\ out'[c] \in {"timeout", "closed"}
    BY <1>3 DEF CommandTimeout, RxClosed, RetryOrReturn, Return
  <2> QED
    BY <2>1 DEF Restored
<1>4. CASE TakeGatedRetry(c)
  <2>1. /\ replyQ # <<>> /\ pc[c] = "wait" /\ pc'[c] = "idle" /\ out'[c] = Head(replyQ).res
        /\ UNCHANGED clean
    BY <1>4 DEF TakeGatedRetry, Take, Return
  <2>2. Head(replyQ) \in Messages(replyQ)
    BY <2>1, HeadMessages DEF BusTypeOK
  <2> QED
    BY <2>1, <2>2 DEF Restored, NoRefusal
<1>5. CASE JoinKeepalive(c) \/ Backoff(c)
  <2>1. pc'[c] = "ready" /\ UNCHANGED connected
    BY <1>5 DEF JoinKeepalive, Backoff, Goto
  <2> QED
    BY <1>0, <2>1 DEF Restored
<1>6. CASE TransmitFails(c)
  <2>1. faults \in Nat /\ faults' = faults + 1
    BY <1>6 DEF TransmitFails
  <2> QED
    BY <2>1
<1> QED
    BY <1>0, <1>1, <1>2, <1>3, <1>4, <1>5, <1>6 DEF CallerStep, TakeConnect, TakeSend, TakeRetrying,
       TakeGatedFirst, TakeReconnect, DisconnectSend, DisconnectStop

LEMMA RestoredFrame ==
    ASSUME NEW c \in Callers, Restored(c), pc'[c] = pc[c], clean'[c] = clean[c], out'[c] = out[c],
           pc[c] # "idle" => /\ connected' = connected
                             /\ NoRefusal(d2h) => NoRefusal(d2h)'
                             /\ NoRefusal(d2h) /\ NoRefusal(replyQ) => NoRefusal(replyQ)'
    PROVE  Restored(c)'
BY DEF Restored

LEMMA RetryStep ==
    ASSUME TypeOK, OneCommandInFlight, ReconnectHoldsLock, QuietInv, AgreeInv, RetryInv, [Next]_vars
    PROVE  RetryInv'
<1> SUFFICES ASSUME faults' = 0, NEW d \in Callers, opn'[d] = "gated", phase'[d] = "retry"
             PROVE  Restored(d)'
    BY DEF RetryInv, Restored
<1> USE DEF TypeOK, CallerTypeOK
<1>1. faults = 0 /\ QueueStep
    BY FaultsCount, NextQueueStep
<1>2. opn[d] = "gated" /\ phase[d] = "retry" => Restored(d)
    BY <1>1 DEF RetryInv, Restored
<1>3. ~Answers => (NoRefusal(d2h) => NoRefusal(d2h)')
    BY <1>1, QueueContents DEF NoRefusal
<1>4. NoRefusal(d2h) /\ NoRefusal(replyQ) => NoRefusal(replyQ)'
    BY <1>1, QueueContents DEF NoRefusal
<1>5. ASSUME NEW c \in Callers, NEW o \in Ops, Start(c, o)
      PROVE  Restored(d)'
  <2>1. c # d
    BY <1>5 DEF Start
  <2>2. /\ opn[d] = "gated" /\ phase[d] = "retry" /\ pc'[d] = pc[d] /\ out'[d] = out[d]
        /\ UNCHANGED <<clean, connected, d2h, replyQ>>
    BY <1>5, <2>1 DEF Start, Goto, busVars
  <2> QED
    BY <1>2, <1>4, <2>2, RestoredFrame DEF NoRefusal
<1>6. ASSUME NEW c \in Callers, CallerStep(c)
      PROVE  Restored(d)'
  <2>1. CASE c # d
    <3>1. /\ opn[d] = "gated" /\ phase[d] = "retry" /\ pc'[d] = pc[d] /\ clean'[d] = clean[d]
          /\ out'[d] = out[d]
      BY <1>6, <2>1, CallerFrame, OutFrame
    <3>2. holder = c
      BY <1>6, CallerHolds
    <3>3. pc[d] = "idle"
      BY <2>1, <3>1, <3>2 DEF ReconnectHoldsLock
    <3> QED
      BY <1>2, <3>1, <3>3, RestoredFrame
  <2>2. CASE c = d /\ phase[d] = "retry"
    BY <1>1, <1>2, <1>6, <2>2, OwnRestored, CallerFrame
  <2>3. CASE c = d /\ phase[d] # "retry"
    <3>1. TakeReconnect(c)
      BY <1>6, <2>3 DEF CallerStep, Drain, Transmit, TransmitFails, CommandTimeout, RxClosed, Backoff,
         TakeConnect, TakeSend, TakeRetrying, TakeGatedFirst, TakeGatedRetry, JoinKeepalive,
         DisconnectSend, DisconnectStop
    <3>2. connected' /\ pc'[d] = "ready"
      BY <2>3, <3>1 DEF TakeReconnect, Goto
    <3> QED
      BY <3>2 DEF Restored
  <2> QED
    BY <2>1, <2>2, <2>3
<1>7. ASSUME NEW c \in Callers, Cancel(c)
      PROVE  Restored(d)'
  <2>1. /\ opn[c] # "gated" /\ pc' = [pc EXCEPT ![c] = "idle"]
        /\ UNCHANGED <<opn, phase, clean, out, connected, d2h, replyQ>>
    BY <1>7 DEF Cancel, busVars
  <2> QED
    BY <1>2, <2>1, RestoredFrame DEF NoRefusal
<1>8. CASE KeepaliveStep \/ DropSession \/ AbortStep \/ UNCHANGED vars
  <2>1. UNCHANGED <<pc, opn, phase, clean, out, connected, d2h>>
    BY <1>8 DEF KeepaliveStep, KeepaliveCancelled, KeepaliveFires, KeepaliveSend, KeepaliveReply,
       KeepaliveFails, DropSession, AbortStep, RxAborted, KeepaliveAborted, callerVars, busVars,
       vars
  <2> QED
    BY <1>2, <1>4, <2>1, RestoredFrame DEF NoRefusal
<1>9. CASE RxStep \/ BusLoses \/ DeviceExpires
  <2>1. UNCHANGED <<pc, opn, phase, clean, out, connected>>
    BY <1>9 DEF RxStep, RxDeliver, RxDisconnected, BusLoses, DeviceExpires, callerVars
  <2>2. CASE ~Answers
    BY <1>2, <1>3, <1>4, <2>1, <2>2, RestoredFrame
  <2>3. CASE Answers
    <3>1. h2d' # h2d
      BY <2>3, TailIsOther DEF Answers, BusTypeOK
    <3>2. BusLoses
      BY <1>9, <3>1 DEF RxStep, RxDeliver, RxDisconnected, DeviceExpires, busVars
    <3> QED
      BY <1>1, <3>2 DEF BusLoses
  <2> QED
    BY <2>2, <2>3
<1>10. CASE DeviceRefuses
    BY <1>1, <1>10 DEF DeviceRefuses
<1>11. CASE DeviceServes
  <2>1. UNCHANGED <<pc, opn, phase, clean, out, connected>>
    BY <1>11 DEF DeviceServes, callerVars
  <2>2. ASSUME pc[d] # "idle"
        PROVE  NoRefusal(d2h) => NoRefusal(d2h)'
    <3>1. connected
      BY <1>2, <2>1, <2>2 DEF Restored
    <3>2. Truthful /\ devSession
      BY <1>1, <3>1 DEF AgreeInv, Truthful
    <3> QED
      BY <1>11, <3>2, ServedTruthfully
  <2> QED
    BY <1>2, <1>4, <2>1, <2>2, RestoredFrame
<1> QED
    BY <1>5, <1>6, <1>7, <1>8, <1>9, <1>10, <1>11 DEF Next, Finished, DeviceStep

LEMMA AgreeInvariant == Spec => []AgreeInv
<1>1. Init => AgreeInv
    BY EmptyMessages DEF Init, AgreeInv, Truthful, NoAck, NoDisconnect
<1>2. TypeOK /\ OneCommandInFlight /\ QuietInv /\ AgreeInv /\ [Next]_vars => AgreeInv'
    BY AgreeStep
<1> QED
    BY <1>1, <1>2, TypeCorrect, SingleInFlight, QuietInvariant, PTL DEF Spec

(* As long as nothing was lost and the device has not dropped its session, *)
(* a host that believes it is connected is: no late reply passes for the   *)
(* ACK of CONNECT (session/mod.rs:376-412, 719-727).                       *)
THEOREM ConnectedIsTrue == Spec => []SessionAgreement
<1>1. AgreeInv => SessionAgreement
    BY DEF AgreeInv, Truthful, SessionAgreement
<1> QED
    BY <1>1, AgreeInvariant, PTL

(* A gated command that was resent after its reconnect is not refused for  *)
(* want of a session again, unless a message was lost or the reply it took *)
(* is not its own (session/mod.rs:705-739).                                *)
THEOREM ReconnectGivesSession == Spec => []ReconnectRestoresSession
<1>1. Init => RetryInv
    BY DEF Init, RetryInv
<1>2. TypeOK /\ OneCommandInFlight /\ ReconnectHoldsLock /\ QuietInv /\ AgreeInv /\ RetryInv
      /\ [Next]_vars => RetryInv'
    BY RetryStep
<1>3. RetryInv => ReconnectRestoresSession
    BY DEF RetryInv, ReconnectRestoresSession
<1> QED
    BY <1>1, <1>2, <1>3, TypeCorrect, SingleInFlight, ReconnectHoldsLockInvariant, QuietInvariant,
       AgreeInvariant, PTL DEF Spec

=============================================================================
