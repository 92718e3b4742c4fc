------------------------------ MODULE Session ------------------------------
(***************************************************************************)
(* The host session of can_flasher (src/session/mod.rs): callers that      *)
(* share one Session, the keepalive task, the RX daemon, and the           *)
(* bootloader at the far end of a bus that may lose or delay messages.     *)
(*                                                                         *)
(* One step of a task is what it does between two .await points.  A        *)
(* message is one request or one reply (ISO-TP framing is module IsoTp);   *)
(* every request carries a serial number, which the wire does not have:    *)
(* it is there so that the properties can say which request a reply        *)
(* answers.                                                                *)
(***************************************************************************)
EXTENDS Naturals, Sequences

CONSTANTS
    Callers,      \* tasks holding a &Session
    KA,           \* the keepalive task
    NoOne,        \* "nobody holds the lock"
    Ops,          \* the operations the callers use, a subset of AllOps
    VersionOk,    \* the device speaks the host's protocol major
    MaxAttempts,  \* max_attempts of send_command_retrying
    QueueDepth,   \* capacity of the reply channel
    MaxOps,       \* bound: operations started in a behaviour
    MaxTicks,     \* bound: times the keepalive timer fires
    MaxFaults     \* bound: lost messages, refusals, send errors, expiries

AllOps == {"connect", "send", "gated", "retrying", "disconnect", "cancel", "drop"}

ASSUME SessionAssumption ==
    /\ KA \notin Callers
    /\ NoOne \notin Callers \cup {KA}
    /\ Ops \subseteq AllOps
    /\ VersionOk \in BOOLEAN
    /\ MaxAttempts \in Nat \ {0}
    /\ QueueDepth \in Nat \ {0}
    /\ MaxOps \in Nat /\ MaxTicks \in Nat /\ MaxFaults \in Nat

Actors == Callers \cup {KA}

VARIABLES
    session,    \* "open", "closing" (inside disconnect), "closed" (it has
                \* returned) or "dropped" (Drop has run without it)
    connected,  \* Session.connected
    holder,     \* who holds command_lock
    waiters,    \* FIFO of tasks queued on command_lock
    pc,         \* where each caller stands
    opn,        \* the operation each caller executes
    phase,      \* stage of send_session_gated: first, reconnect, retry
    attempt,    \* attempt of send_command_retrying
    mine,       \* serial of the request each caller sent last
    got,        \* serial of the request answered by the reply it took (0: none)
    clean,      \* nothing was on the bus when the caller drained the channel
    out,        \* outcome of the caller's last operation
    kaSlot,     \* Session.keepalive is Some
    ka,         \* the keepalive task: none, sleep, lock, wait, exit
    kaCancel,   \* its cancel_tx has fired
    kaReq,      \* serial of its last request
    rx,         \* the RX daemon: run or dead
    replyQ,     \* reply_rx: parsed replies nobody has taken yet
    h2d, d2h,   \* messages in flight, host to device and back
    devSession, \* the bootloader's session latch
    abandoned,  \* serials whose sender no longer waits for the reply
    nsent,      \* serial of the last request
    nops, ticks, faults

callerVars == <<pc, opn, phase, attempt, mine, got, clean, out>>
lockVars   == <<holder, waiters>>
kaVars     == <<kaSlot, ka, kaCancel, kaReq, ticks>>
busVars    == <<h2d, d2h, devSession, nsent>>
vars == <<session, connected, callerVars, lockVars, kaVars, busVars, rx, replyQ,
          abandoned, nops, faults>>

-----------------------------------------------------------------------------
(* Requests and replies.                                                   *)

Kinds   == {"CONNECT", "DISCONNECT", "HEALTH", "GATED", "CMD"}
Results == {"ack", "bad_session", "version", "transient"}

Request == [id : Nat, kind : Kinds]
Reply   == [id : Nat, kind : Kinds, res : Results]

Outcomes == Results \cup {"none", "timeout", "closed", "transport", "protocol", "connected"}

(* What the caller puts on the wire next.                                  *)
KindFor(c) ==
    CASE opn[c] = "connect"                          -> "CONNECT"
      [] opn[c] = "gated" /\ phase[c] = "reconnect"  -> "CONNECT"
      [] opn[c] = "gated" /\ phase[c] # "reconnect"  -> "GATED"
      [] OTHER                                       -> "CMD"

-----------------------------------------------------------------------------
(* tokio's Mutex hands the lock to the task that has waited longest.       *)

Acquire(a) ==
    IF holder = NoOne
    THEN holder' = a /\ UNCHANGED waiters
    ELSE waiters' = Append(waiters, a) /\ UNCHANGED holder

Release ==
    IF waiters = <<>>
    THEN holder' = NoOne /\ UNCHANGED waiters
    ELSE holder' = Head(waiters) /\ waiters' = Tail(waiters)

(* A queued lock future that is dropped leaves the queue.                  *)
LeaveQueue(a) ==
    \E i \in 1 .. Len(waiters) :
        /\ waiters[i] = a
        /\ waiters' = SubSeq(waiters, 1, i - 1) \o SubSeq(waiters, i + 1, Len(waiters))
        /\ UNCHANGED holder

(* start_keepalive: a slot that is already Some is left as it is.          *)
StartKeepalive ==
    IF kaSlot
    THEN UNCHANGED <<kaSlot, ka, kaCancel>>
    ELSE kaSlot' = TRUE /\ ka' = "sleep" /\ kaCancel' = FALSE

Put(kind) ==
    /\ nsent' = nsent + 1
    /\ h2d' = Append(h2d, [id |-> nsent + 1, kind |-> kind])

(* The operation returns to its caller and drops the lock guard.           *)
Return(c, outcome) ==
    /\ pc' = [pc EXCEPT ![c] = "idle"]
    /\ out' = [out EXCEPT ![c] = outcome]
    /\ Release

Goto(c, label) == pc' = [pc EXCEPT ![c] = label]

-----------------------------------------------------------------------------
(* Callers.                                                                *)

Init ==
    /\ session = "open"
    /\ connected = FALSE
    /\ holder = NoOne
    /\ waiters = <<>>
    /\ pc = [c \in Callers |-> "idle"]
    /\ opn = [c \in Callers |-> "send"]
    /\ phase = [c \in Callers |-> "first"]
    /\ attempt = [c \in Callers |-> 1]
    /\ mine = [c \in Callers |-> 0]
    /\ got = [c \in Callers |-> 0]
    /\ clean = [c \in Callers |-> FALSE]
    /\ out = [c \in Callers |-> "none"]
    /\ kaSlot = FALSE /\ ka = "none" /\ kaCancel = FALSE /\ kaReq = 0
    /\ rx = "run"
    /\ replyQ = <<>>
    /\ h2d = <<>> /\ d2h = <<>>
    /\ devSession = FALSE
    /\ abandoned = {}
    /\ nsent = 0 /\ nops = 0 /\ ticks = 0 /\ faults = 0

(* An operation begins by queueing on command_lock.  disconnect(self)      *)
(* consumes the session, so no other caller is inside it.                  *)
Start(c, o) ==
    /\ session = "open" /\ nops < MaxOps
    /\ pc[c] = "idle"
    /\ o = "disconnect" => \A d \in Callers : pc[d] = "idle"
    /\ session' = IF o = "disconnect" THEN "closing" ELSE session
    /\ nops' = nops + 1
    /\ Goto(c, "ready")
    /\ opn' = [opn EXCEPT ![c] = o]
    /\ phase' = [phase EXCEPT ![c] = "first"]
    /\ attempt' = [attempt EXCEPT ![c] = 1]
    /\ out' = [out EXCEPT ![c] = "none"]
    /\ got' = [got EXCEPT ![c] = 0]
    /\ Acquire(c)
    /\ UNCHANGED <<connected, mine, clean, kaVars, busVars, rx, replyQ, abandoned, faults>>

(* Mutant: the channel is not emptied.                                     *)
DrainNothing(c) ==
    /\ pc[c] = "ready" /\ holder = c /\ opn[c] # "disconnect"
    /\ clean' = [clean EXCEPT ![c] = h2d = <<>> /\ d2h = <<>>]
    /\ got' = [got EXCEPT ![c] = 0]
    /\ Goto(c, "send")
    /\ UNCHANGED <<session, connected, opn, phase, attempt, mine, out, lockVars, kaVars,
                   busVars, rx, replyQ, abandoned, nops, faults>>

(* send_raw_with_timeout takes the reply channel and empties it before it  *)
(* transmits.                                                              *)
Drain(c) ==
    /\ pc[c] = "ready" /\ holder = c /\ opn[c] # "disconnect"
    /\ replyQ' = <<>>
    /\ clean' = [clean EXCEPT ![c] = h2d = <<>> /\ d2h = <<>>]
    /\ got' = [got EXCEPT ![c] = 0]
    /\ Goto(c, "send")
    /\ UNCHANGED <<session, connected, opn, phase, attempt, mine, out, lockVars, kaVars,
                   busVars, rx, abandoned, nops, faults>>

Transmit(c) ==
    /\ pc[c] = "send"
    /\ Put(KindFor(c))
    /\ mine' = [mine EXCEPT ![c] = nsent + 1]
    /\ Goto(c, "wait")
    /\ UNCHANGED <<session, connected, opn, phase, attempt, got, clean, out, lockVars, kaVars,
                   d2h, devSession, rx, replyQ, abandoned, nops, faults>>

(* Mutant: the attempt counter is compared with <= instead of <.           *)
RetryOrReturnOffByOne(c, outcome) ==
    IF opn[c] = "retrying" /\ attempt[c] <= MaxAttempts
    THEN /\ Goto(c, "backoff")
         /\ UNCHANGED <<out, lockVars>>
    ELSE Return(c, outcome)

(* A transient outcome of send_command_retrying backs off and tries again; *)
(* every other caller returns it.                                          *)
RetryOrReturn(c, outcome) ==
    IF opn[c] = "retrying" /\ attempt[c] < MaxAttempts
    THEN /\ Goto(c, "backoff")
         /\ UNCHANGED <<out, lockVars>>
    ELSE Return(c, outcome)

TransmitFails(c) ==
    /\ pc[c] = "send" /\ faults < MaxFaults
    /\ faults' = faults + 1
    /\ RetryOrReturn(c, "transport")
    /\ UNCHANGED <<session, connected, opn, phase, attempt, mine, got, clean, kaVars, busVars,
                   rx, replyQ, abandoned, nops>>

(* tokio's timeout polls the channel first: it elapses only when the       *)
(* channel is empty.                                                       *)
CommandTimeout(c) ==
    /\ pc[c] = "wait" /\ replyQ = <<>> /\ rx = "run"
    /\ abandoned' = abandoned \cup {mine[c]}
    /\ RetryOrReturn(c, "timeout")
    /\ UNCHANGED <<session, connected, opn, phase, attempt, mine, got, clean, kaVars, busVars,
                   rx, replyQ, nops, faults>>

RxClosed(c) ==
    /\ pc[c] = "wait" /\ replyQ = <<>> /\ rx = "dead"
    /\ abandoned' = abandoned \cup {mine[c]}
    /\ Return(c, "closed")
    /\ UNCHANGED <<session, connected, opn, phase, attempt, mine, got, clean, kaVars, busVars,
                   rx, replyQ, nops, faults>>

Backoff(c) ==
    /\ pc[c] = "backoff"
    /\ attempt' = [attempt EXCEPT ![c] = @ + 1]
    /\ Goto(c, "ready")
    /\ UNCHANGED <<session, connected, opn, phase, mine, got, clean, out, lockVars, kaVars,
                   busVars, rx, replyQ, abandoned, nops, faults>>

(* The reply at the head of the channel is taken as the answer.            *)
Take(c) ==
    /\ pc[c] = "wait" /\ replyQ # <<>>
    /\ replyQ' = Tail(replyQ)
    /\ got' = [got EXCEPT ![c] = Head(replyQ).id]
    /\ abandoned' = IF Head(replyQ).id = mine[c] THEN abandoned ELSE abandoned \cup {mine[c]}

(* Mutant: the opcode echoed by the ACK is not compared.                   *)
AcceptedAnyOpcode(r) == r.res = "ack"

(* The checks on the CONNECT reply: an ACK, of CONNECT, with our major.    *)
Accepted(r) == r.kind = "CONNECT" /\ r.res = "ack"

TakeConnect(c) ==
    /\ opn[c] = "connect" /\ Take(c)
    /\ LET r == Head(replyQ) IN
       IF Accepted(r)
       THEN connected' = TRUE /\ StartKeepalive /\ Return(c, "connected")
       ELSE /\ Return(c, IF r.res = "ack" THEN "protocol" ELSE r.res)
            /\ UNCHANGED <<connected, kaSlot, ka, kaCancel>>
    /\ UNCHANGED <<session, opn, phase, attempt, mine, clean, kaReq, ticks, busVars, rx, nops, faults>>

TakeSend(c) ==
    /\ opn[c] = "send" /\ Take(c)
    /\ Return(c, Head(replyQ).res)
    /\ UNCHANGED <<session, connected, opn, phase, attempt, mine, clean, kaVars, busVars, rx, nops, faults>>

TakeRetrying(c) ==
    /\ opn[c] = "retrying" /\ Take(c)
    /\ IF Head(replyQ).res = "transient"
       THEN RetryOrReturn(c, "transient")
       ELSE Return(c, Head(replyQ).res)
    /\ UNCHANGED <<session, connected, opn, phase, attempt, mine, clean, kaVars, busVars, rx, nops, faults>>

(* Mutant: BAD_SESSION is answered by resending, without a CONNECT.        *)
TakeGatedFirstNoConnect(c) ==
    /\ opn[c] = "gated" /\ phase[c] = "first" /\ Take(c)
    /\ IF Head(replyQ).res = "bad_session"
       THEN /\ phase' = [phase EXCEPT ![c] = "retry"]
            /\ Goto(c, "ready")
            /\ UNCHANGED <<out, lockVars>>
       ELSE /\ Return(c, Head(replyQ).res)
            /\ UNCHANGED phase
    /\ UNCHANGED <<session, connected, opn, attempt, mine, clean, kaVars, busVars, rx, nops, faults>>

(* send_session_gated, first reply: on BAD_SESSION drop the connected flag *)
(* and stop the keepalive (stop_keepalive_locked takes the slot, signals   *)
(* cancel and awaits the task) with command_lock still held.               *)
TakeGatedFirst(c) ==
    /\ opn[c] = "gated" /\ phase[c] = "first" /\ Take(c)
    /\ IF Head(replyQ).res = "bad_session"
       THEN /\ connected' = FALSE
            /\ phase' = [phase EXCEPT ![c] = "reconnect"]
            /\ Goto(c, IF kaSlot THEN "join" ELSE "ready")
            /\ kaCancel' = kaSlot
            /\ kaSlot' = FALSE
            /\ UNCHANGED <<out, lockVars>>
       ELSE /\ Return(c, Head(replyQ).res)
            /\ UNCHANGED <<connected, phase, kaSlot, kaCancel>>
    /\ UNCHANGED <<session, opn, attempt, mine, clean, ka, kaReq, ticks, busVars, rx, nops, faults>>

(* Mutant: the lock is dropped between the CONNECT and the resend.         *)
TakeReconnectUnlocks(c) ==
    /\ opn[c] = "gated" /\ phase[c] = "reconnect" /\ Take(c)
    /\ IF Accepted(Head(replyQ))
       THEN /\ connected' = TRUE
            /\ StartKeepalive
            /\ phase' = [phase EXCEPT ![c] = "retry"]
            /\ Goto(c, "ready")
            /\ waiters' = Tail(Append(waiters, c))
            /\ holder' = Head(Append(waiters, c))
            /\ UNCHANGED out
       ELSE /\ Return(c, "protocol")
            /\ UNCHANGED <<connected, phase, kaSlot, ka, kaCancel>>
    /\ UNCHANGED <<session, opn, attempt, mine, clean, kaReq, ticks, busVars, rx, nops, faults>>

(* The reply to the inline CONNECT of send_session_gated.                  *)
TakeReconnect(c) ==
    /\ opn[c] = "gated" /\ phase[c] = "reconnect" /\ Take(c)
    /\ IF Accepted(Head(replyQ))
       THEN /\ connected' = TRUE
            /\ StartKeepalive
            /\ phase' = [phase EXCEPT ![c] = "retry"]
            /\ Goto(c, "ready")
            /\ UNCHANGED <<out, lockVars>>
       ELSE /\ Return(c, "protocol")
            /\ UNCHANGED <<connected, phase, kaSlot, ka, kaCancel>>
    /\ UNCHANGED <<session, opn, attempt, mine, clean, kaReq, ticks, busVars, rx, nops, faults>>

TakeGatedRetry(c) ==
    /\ opn[c] = "gated" /\ phase[c] = "retry" /\ Take(c)
    /\ Return(c, Head(replyQ).res)
    /\ UNCHANGED <<session, connected, opn, phase, attempt, mine, clean, kaVars, busVars, rx, nops, faults>>

(* The tail of stop_keepalive_locked: the join handle resolves once the    *)
(* task has returned.                                                      *)
JoinKeepalive(c) ==
    /\ pc[c] = "join" /\ ka = "exit"
    /\ ka' = "none"
    /\ IF opn[c] = "disconnect"
       THEN /\ rx' = "dead" /\ session' = "closed"
            /\ Return(c, "ack")
       ELSE /\ Goto(c, "ready")
            /\ UNCHANGED <<rx, session, out, lockVars>>
    /\ UNCHANGED <<connected, opn, phase, attempt, mine, got, clean, kaSlot, kaCancel, kaReq, ticks,
                   busVars, replyQ, abandoned, nops, faults>>

(* disconnect, under command_lock: one CMD_DISCONNECT if connected, whose  *)
(* reply nobody awaits and whose send error is ignored.                    *)
DisconnectSend(c) ==
    /\ pc[c] = "ready" /\ holder = c /\ opn[c] = "disconnect"
    /\ connected' = FALSE
    /\ \/ connected /\ Put("DISCONNECT") /\ abandoned' = abandoned \cup {nsent + 1} /\ UNCHANGED faults
       \/ connected /\ faults < MaxFaults /\ faults' = faults + 1 /\ UNCHANGED <<h2d, nsent, abandoned>>
       \/ ~connected /\ UNCHANGED <<h2d, nsent, abandoned, faults>>
    /\ Goto(c, "stop")
    /\ UNCHANGED <<session, opn, phase, attempt, mine, got, clean, out, lockVars, kaVars, d2h,
                   devSession, rx, replyQ, nops>>

(* Mutant: the keepalive is told to stop but not awaited.                  *)
DisconnectStopNoJoin(c) ==
    /\ pc[c] = "stop"
    /\ kaSlot' = FALSE /\ kaCancel' = kaSlot
    /\ rx' = "dead" /\ session' = "closed"
    /\ Return(c, "ack")
    /\ UNCHANGED <<connected, opn, phase, attempt, mine, got, clean, ka, kaReq, ticks, busVars,
                   replyQ, abandoned, nops, faults>>

(* disconnect, then: stop the keepalive, then the RX daemon.               *)
DisconnectStop(c) ==
    /\ pc[c] = "stop"
    /\ kaSlot' = FALSE /\ kaCancel' = kaSlot
    /\ IF kaSlot
       THEN /\ Goto(c, "join")
            /\ UNCHANGED <<rx, session, out, lockVars>>
       ELSE /\ rx' = "dead" /\ session' = "closed"
            /\ Return(c, "ack")
    /\ UNCHANGED <<connected, opn, phase, attempt, mine, got, clean, ka, kaReq, ticks, busVars,
                   replyQ, abandoned, nops, faults>>

(* Mutant: the guard of a cancelled command is leaked.                     *)
CancelLeaksGuard(c) ==
    /\ "cancel" \in Ops /\ opn[c] \in {"send", "retrying"}
    /\ pc[c] \in {"ready", "send", "wait", "backoff"}
    /\ pc' = [pc EXCEPT ![c] = "idle"]
    /\ abandoned' = IF pc[c] = "wait" THEN abandoned \cup {mine[c]} ELSE abandoned
    /\ IF holder = c THEN UNCHANGED lockVars ELSE LeaveQueue(c)
    /\ UNCHANGED <<session, connected, opn, phase, attempt, mine, got, clean, out, kaVars, busVars,
                   rx, replyQ, nops, faults>>

(* Ctrl-C in `flash`: the pipeline future is dropped at an .await; its     *)
(* lock guard, or its place in the queue, goes with it.                    *)
Cancel(c) ==
    /\ "cancel" \in Ops /\ opn[c] \in {"send", "retrying"}
    /\ pc[c] \in {"ready", "send", "wait", "backoff"}
    /\ pc' = [pc EXCEPT ![c] = "idle"]
    /\ abandoned' = IF pc[c] = "wait" THEN abandoned \cup {mine[c]} ELSE abandoned
    /\ IF holder = c THEN Release ELSE LeaveQueue(c)
    /\ UNCHANGED <<session, connected, opn, phase, attempt, mine, got, clean, out, kaVars, busVars,
                   rx, replyQ, nops, faults>>

(* Mutant: the keepalive task is neither signalled nor aborted.            *)
DropSessionLeavesKeepalive ==
    /\ "drop" \in Ops /\ session = "open"
    /\ \A c \in Callers : pc[c] = "idle"
    /\ session' = "dropped"
    /\ kaSlot' = FALSE
    /\ UNCHANGED <<connected, callerVars, lockVars, ka, kaCancel, kaReq, ticks, busVars, rx, replyQ,
                   abandoned, nops, faults>>

(* Drop without disconnect cannot await: it raises rx_shutdown, signals    *)
(* cancel, asks the runtime to abort both tasks and returns while they     *)
(* still run.                                                              *)
DropSession ==
    /\ "drop" \in Ops /\ session = "open"
    /\ \A c \in Callers : pc[c] = "idle"
    /\ session' = "dropped"
    /\ kaSlot' = FALSE /\ kaCancel' = kaSlot
    /\ UNCHANGED <<connected, callerVars, lockVars, ka, kaReq, ticks, busVars, rx, replyQ,
                   abandoned, nops, faults>>

(* An aborted task ends where it next yields, which may be several of its  *)
(* steps later.  The RX daemon may also see rx_shutdown first.             *)
RxAborted ==
    /\ session = "dropped" /\ rx = "run"
    /\ rx' = "dead"
    /\ UNCHANGED <<session, connected, callerVars, lockVars, kaVars, busVars, replyQ, abandoned,
                   nops, faults>>

(* The keepalive's guard on command_lock, or its place in the queue, goes  *)
(* with it: no caller is left to have the lock.                            *)
KeepaliveAborted ==
    /\ session = "dropped" /\ kaCancel /\ ka \in {"sleep", "lock", "wait"}
    /\ ka' = "exit"
    /\ abandoned' = IF ka = "wait" THEN abandoned \cup {kaReq} ELSE abandoned
    /\ holder' = NoOne /\ waiters' = <<>>
    /\ UNCHANGED <<session, connected, callerVars, kaSlot, kaCancel, kaReq, ticks, busVars, rx, replyQ,
                   nops, faults>>

-----------------------------------------------------------------------------
(* The keepalive task: a biased select between cancel and the timer; the   *)
(* tick itself is not cancellable.                                         *)

KeepaliveCancelled ==
    /\ ka = "sleep" /\ kaCancel
    /\ ka' = "exit"
    /\ UNCHANGED <<session, connected, callerVars, lockVars, kaSlot, kaCancel, kaReq, ticks, busVars,
                   rx, replyQ, abandoned, nops, faults>>

KeepaliveFires ==
    /\ ka = "sleep" /\ ~kaCancel /\ ticks < MaxTicks
    /\ ticks' = ticks + 1
    /\ ka' = "lock"
    /\ Acquire(KA)
    /\ UNCHANGED <<session, connected, callerVars, kaSlot, kaCancel, kaReq, busVars, rx, replyQ,
                   abandoned, nops, faults>>

(* Mutant: the tick does not take command_lock.                            *)
KeepaliveSendUnlocked ==
    /\ ka = "lock"
    /\ Put("HEALTH")
    /\ kaReq' = nsent + 1
    /\ ka' = "wait"
    /\ UNCHANGED <<session, connected, callerVars, lockVars, kaSlot, kaCancel, ticks, d2h, devSession,
                   rx, replyQ, abandoned, nops, faults>>

KeepaliveSend ==
    /\ ka = "lock" /\ holder = KA
    /\ Put("HEALTH")
    /\ kaReq' = nsent + 1
    /\ ka' = "wait"
    /\ UNCHANGED <<session, connected, callerVars, lockVars, kaSlot, kaCancel, ticks, d2h, devSession,
                   rx, replyQ, abandoned, nops, faults>>

(* keepalive_tick takes whatever reply is there, without draining first.   *)
KeepaliveReply ==
    /\ ka = "wait" /\ replyQ # <<>>
    /\ replyQ' = Tail(replyQ)
    /\ abandoned' = IF Head(replyQ).id = kaReq THEN abandoned ELSE abandoned \cup {kaReq}
    /\ ka' = "sleep"
    /\ Release
    /\ UNCHANGED <<session, connected, callerVars, kaSlot, kaCancel, kaReq, ticks, busVars, rx, nops, faults>>

(* A failed tick (send error, timeout, RX daemon gone) ends the task; the  *)
(* slot stays Some and the connected flag stays set.                       *)
KeepaliveFails ==
    /\ \/ /\ ka = "lock" /\ holder = KA /\ faults < MaxFaults
          /\ faults' = faults + 1
          /\ UNCHANGED abandoned
       \/ /\ ka = "wait" /\ replyQ = <<>>
          /\ abandoned' = abandoned \cup {kaReq}
          /\ UNCHANGED faults
    /\ ka' = "exit"
    /\ Release
    /\ UNCHANGED <<session, connected, callerVars, kaSlot, kaCancel, kaReq, ticks, busVars, rx, replyQ, nops>>

-----------------------------------------------------------------------------
(* The RX daemon: the only reader of the backend.  A full reply channel    *)
(* blocks it.                                                              *)

RxDeliver ==
    /\ rx = "run" /\ d2h # <<>> /\ Len(replyQ) < QueueDepth
    /\ replyQ' = Append(replyQ, Head(d2h))
    /\ d2h' = Tail(d2h)
    /\ UNCHANGED <<session, connected, callerVars, lockVars, kaVars, h2d, devSession, nsent, rx,
                   abandoned, nops, faults>>

(* The backend reports Disconnected (or another error): the daemon exits.  *)
RxDisconnected ==
    /\ rx = "run" /\ faults < MaxFaults
    /\ faults' = faults + 1
    /\ rx' = "dead"
    /\ UNCHANGED <<session, connected, callerVars, lockVars, kaVars, busVars, replyQ, abandoned, nops>>

-----------------------------------------------------------------------------
(* The bootloader and the bus.                                             *)

(* dispatch: CONNECT sets the session latch, DISCONNECT clears it, a gated *)
(* command without it is refused, GET_HEALTH needs no session.             *)
Verdict(q) ==
    CASE q.kind = "CONNECT" /\ ~VersionOk  -> "version"
      [] q.kind = "GATED" /\ ~devSession   -> "bad_session"
      [] OTHER                             -> "ack"

DeviceServes ==
    /\ h2d # <<>>
    /\ LET q == Head(h2d) IN
       /\ d2h' = Append(d2h, [id |-> q.id, kind |-> q.kind, res |-> Verdict(q)])
       /\ devSession' = CASE q.kind = "CONNECT" /\ VersionOk -> TRUE
                          [] q.kind = "DISCONNECT"           -> FALSE
                          [] OTHER                           -> devSession
    /\ h2d' = Tail(h2d)
    /\ UNCHANGED <<session, connected, callerVars, lockVars, kaVars, nsent, rx, replyQ, abandoned, nops, faults>>

(* A frame of the request was lost: the bootloader's transport NACK.       *)
DeviceRefuses ==
    /\ h2d # <<>> /\ faults < MaxFaults
    /\ faults' = faults + 1
    /\ h2d' = Tail(h2d)
    /\ d2h' = Append(d2h, [id |-> Head(h2d).id, kind |-> Head(h2d).kind, res |-> "transient"])
    /\ UNCHANGED <<session, connected, callerVars, lockVars, kaVars, devSession, nsent, rx, replyQ,
                   abandoned, nops>>

BusLoses ==
    /\ faults < MaxFaults
    /\ faults' = faults + 1
    /\ \/ h2d # <<>> /\ h2d' = Tail(h2d) /\ UNCHANGED d2h
       \/ d2h # <<>> /\ d2h' = Tail(d2h) /\ UNCHANGED h2d
    /\ UNCHANGED <<session, connected, callerVars, lockVars, kaVars, devSession, nsent, rx, replyQ,
                   abandoned, nops>>

(* The bootloader's 30 s watchdog, or a reset, drops the session latch.    *)
DeviceExpires ==
    /\ devSession /\ faults < MaxFaults
    /\ faults' = faults + 1
    /\ devSession' = FALSE
    /\ UNCHANGED <<session, connected, callerVars, lockVars, kaVars, h2d, d2h, nsent, rx, replyQ,
                   abandoned, nops>>

-----------------------------------------------------------------------------

CallerStep(c) ==
    \/ Drain(c) \/ Transmit(c) \/ TransmitFails(c) \/ CommandTimeout(c) \/ RxClosed(c) \/ Backoff(c)
    \/ TakeConnect(c) \/ TakeSend(c) \/ TakeRetrying(c)
    \/ TakeGatedFirst(c) \/ TakeReconnect(c) \/ TakeGatedRetry(c)
    \/ JoinKeepalive(c) \/ DisconnectSend(c) \/ DisconnectStop(c)

KeepaliveStep ==
    KeepaliveCancelled \/ KeepaliveFires \/ KeepaliveSend \/ KeepaliveReply \/ KeepaliveFails

RxStep == RxDeliver \/ RxDisconnected

AbortStep == RxAborted \/ KeepaliveAborted

DeviceStep == DeviceServes \/ DeviceRefuses \/ BusLoses \/ DeviceExpires

(* The bound on operations is reached, or the session is gone.             *)
Finished ==
    /\ nops = MaxOps \/ session \in {"closed", "dropped"}
    /\ \A c \in Callers : pc[c] = "idle"
    /\ UNCHANGED vars

Next ==
    \/ \E c \in Callers : \E o \in Ops \ {"cancel", "drop"} : Start(c, o)
    \/ \E c \in Callers : CallerStep(c) \/ Cancel(c)
    \/ DropSession
    \/ AbortStep
    \/ KeepaliveStep
    \/ RxStep
    \/ DeviceStep
    \/ Finished

Spec == Init /\ [][Next]_vars

(* Tasks are scheduled by a work-stealing runtime and every sleep and      *)
(* timeout elapses, so a task that can step does, and one that was aborted *)
(* ends.  Nothing is assumed of the device, of the bus, or of callers      *)
(* starting operations.                                                    *)
Fairness ==
    /\ \A c \in Callers : WF_vars(CallerStep(c))
    /\ WF_vars(KeepaliveStep)
    /\ WF_vars(RxDeliver)
    /\ WF_vars(RxAborted) /\ WF_vars(KeepaliveAborted)

FairSpec == Spec /\ Fairness

-----------------------------------------------------------------------------
(* Properties.                                                             *)

LockTypeOK ==
    /\ holder \in Actors \cup {NoOne}
    /\ waiters \in Seq(Actors)

Labels == {"idle", "ready", "send", "wait", "backoff", "join", "stop"}

CallerTypeOK ==
    /\ pc \in [Callers -> Labels]
    /\ opn \in [Callers -> AllOps]
    /\ phase \in [Callers -> {"first", "reconnect", "retry"}]
    /\ attempt \in [Callers -> 1 .. MaxAttempts]
    /\ mine \in [Callers -> Nat]
    /\ got \in [Callers -> Nat]
    /\ clean \in [Callers -> BOOLEAN]
    /\ out \in [Callers -> Outcomes]

KeepaliveTypeOK ==
    /\ kaSlot \in BOOLEAN
    /\ ka \in {"none", "sleep", "lock", "wait", "exit"}
    /\ kaCancel \in BOOLEAN
    /\ kaReq \in Nat
    /\ ticks \in Nat

BusTypeOK ==
    /\ rx \in {"run", "dead"}
    /\ replyQ \in Seq(Reply) /\ Len(replyQ) <= QueueDepth
    /\ h2d \in Seq(Request)
    /\ d2h \in Seq(Reply)
    /\ devSession \in BOOLEAN
    /\ abandoned \in SUBSET Nat
    /\ nsent \in Nat

(* Every variable has its type; a retrying command never exceeds its       *)
(* attempts and the reply channel never its capacity.                      *)
TypeOK ==
    /\ session \in {"open", "closing", "closed", "dropped"}
    /\ connected \in BOOLEAN
    /\ LockTypeOK /\ CallerTypeOK /\ KeepaliveTypeOK /\ BusTypeOK
    /\ nops \in Nat /\ faults \in Nat

(* A caller, or the keepalive, past the acquisition of command_lock.       *)
Inside(a) ==
    \/ a \in Callers /\ pc[a] \in {"send", "wait", "backoff", "join", "stop"}
    \/ a = KA /\ ka = "wait"

(* Only one command is ever in flight: whoever is past the lock holds it.  *)
(* (SessionInner.command_lock.)                                            *)
OneCommandInFlight == \A a \in Actors : Inside(a) => holder = a

(* The lock is never lost, also when commands are cancelled at any .await: *)
(* it is held only by a task that is inside an operation, it is never free *)
(* while somebody queues for it, and a task inside an operation holds it   *)
(* or has exactly one place in the queue.                                  *)
Wants(a) ==
    \/ a \in Callers /\ pc[a] # "idle"
    \/ a = KA /\ ka \in {"lock", "wait"}

NoLeakedLock ==
    /\ holder # NoOne => Wants(holder)
    /\ holder = NoOne => waiters = <<>>
    /\ \A i \in 1 .. Len(waiters) :
           /\ Wants(waiters[i]) /\ waiters[i] # holder
           /\ \A j \in 1 .. Len(waiters) : waiters[i] = waiters[j] => i = j
    /\ \A a \in Actors : Wants(a) => holder = a \/ \E i \in 1 .. Len(waiters) : waiters[i] = a

(* A caller is given the reply to its own request or to one whose sender   *)
(* has given up, never one that another task is waiting for.               *)
OwnOrAbandoned ==
    \A c \in Callers : got[c] # 0 => got[c] = mine[c] \/ got[c] \in abandoned

(* The drain of send_raw_with_timeout restores the pairing: when nothing   *)
(* is in flight as the channel is emptied, the reply taken is the reply to *)
(* the request then sent, however many replies came late before.           *)
DrainResynchronises ==
    \A c \in Callers : clean[c] /\ got[c] # 0 => got[c] = mine[c]

(* As long as nothing was lost and the device has not dropped its session, *)
(* a host that believes it is connected is: a late reply to another        *)
(* command never passes for the ACK of CONNECT.                            *)
SessionAgreement == connected /\ faults = 0 => devSession

(* send_session_gated keeps other requests off the bus from BAD_SESSION to *)
(* its resend.                                                             *)
ReconnectIsAtomic ==
    [][\A c \in Callers :
          opn[c] = "gated" /\ pc[c] # "idle" /\ phase[c] # "first" /\ nsent' # nsent
          => mine'[c] = nsent']_vars

(* A gated command that was resent is not refused for want of a session    *)
(* again, unless something was lost or its reply is not its own.           *)
ReconnectRestoresSession ==
    \A c \in Callers :
        opn[c] = "gated" /\ pc[c] = "idle" /\ phase[c] = "retry" /\ faults = 0 /\ clean[c]
        => out[c] # "bad_session"

(* When disconnect has returned, nothing is left of the session: neither   *)
(* of its tasks runs and nobody has its lock or queues for it, so no       *)
(* request of the keepalive follows the DISCONNECT (mod.rs:859-864).       *)
QuietAfterClose ==
    session = "closed" =>
        /\ rx = "dead" /\ ~kaSlot /\ ka \notin {"sleep", "lock", "wait"}
        /\ holder = NoOne /\ waiters = <<>>

(* Drop awaits neither task: one may be in the middle of a tick, hold the  *)
(* lock or block on a full channel.  Both end all the same, and with them  *)
(* the last references to the adapter (mod.rs:1011-1028).                  *)
DropReleases ==
    session = "dropped" ~> rx = "dead" /\ ka \notin {"sleep", "lock", "wait"}

(* Reliability invariant of the module: no unbounded .await, so every      *)
(* operation a caller starts returns.                                      *)
OpsReturn == \A c \in Callers : pc[c] # "idle" ~> pc[c] = "idle"

(* connect "starts the keepalive task": when it returns, one is running.   *)
ConnectStartsKeepalive ==
    [][\A c \in Callers :
          opn[c] = "connect" /\ pc[c] # "idle" /\ out'[c] = "connected"
          => ka' \in {"sleep", "lock", "wait"}]_vars

=============================================================================
