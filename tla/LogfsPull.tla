----------------------------- MODULE LogfsPull -----------------------------
(***************************************************************************)
(* Pulling a log file over LOGFS (src/logfs_client.rs): OPEN, READ until a *)
(* short read, CRC, CLOSE, with retries of lost exchanges and recovery of  *)
(* a dropped diag session, against the log service of the application      *)
(* (src/transport/stub_device.rs).                                         *)
(*                                                                         *)
(* The link is that of module FlashManager: the channel is drained before  *)
(* a request goes out, the head of what arrives next is the answer.  The   *)
(* i-th byte of the file is the number i, so that the bytes received say   *)
(* where they come from; a CRC stands for the contents it is computed of.  *)
(***************************************************************************)
EXTENDS Naturals, Sequences

CONSTANTS
    Lengths,      \* lengths a file may have
    ChunkLen,     \* MAX_READ_LEN
    MaxAttempts,  \* RETRY_ATTEMPTS
    MaxStalled,   \* MAX_STALLED_RESYNCS
    MaxHandle,    \* handles are 1 .. MaxHandle and wrap (u16)
    LinkModes,    \* values of `late`
    MaxFaults     \* bound: lost messages and send errors

ASSUME LogfsAssumption ==
    /\ Lengths \subseteq Nat
    /\ ChunkLen \in Nat \ {0}
    /\ MaxAttempts \in Nat \ {0}
    /\ MaxStalled \in Nat
    /\ MaxHandle \in Nat \ {0, 1}
    /\ LinkModes \subseteq BOOLEAN
    /\ MaxFaults \in Nat

VARIABLES
    late,      \* a reply may arrive after its request timed out
    size, verify, deferred, \* the file's length, the caller's flag, and whether OPEN carries no CRC
    pc,        \* loop, or the exchange under way: connect, open, read, crc, close
    handle,    \* open.handle
    data,      \* the bytes received
    stalled,   \* stalled_resyncs
    attempt,   \* attempt of send_retrying
    await,     \* a request is out
    cancelled, \* what is_cancelled() returns
    result,    \* how the pull ends, set when it starts to
    h2d, d2h,  \* requests and replies in flight
    session, open, nextHandle, \* the log service: session_active, open handle (0: none)
    drops,     \* session drops the pull has met since it last advanced, up to MaxStalled + 1
    faults

config   == <<late, size, verify, deferred>>
hostVars == <<config, pc, handle, data, stalled, attempt, await, cancelled, result>>
devVars  == <<session, open, nextHandle>>
vars == <<hostVars, h2d, d2h, devVars, drops, faults>>

File == [i \in 1 .. size |-> i]

(* Bytes off .. off + ChunkLen - 1 of the file, cut at its end.            *)
Window(off) == SubSeq(File, off + 1, IF off + ChunkLen < size THEN off + ChunkLen ELSE size)

Opcode == [connect |-> "CONNECT", open |-> "OPEN", read |-> "READ", crc |-> "CRC", close |-> "CLOSE"]

Exchanges == DOMAIN Opcode

Fault == faults < MaxFaults /\ faults' = faults + 1

Init ==
    /\ late \in LinkModes
    /\ size \in Lengths /\ verify \in BOOLEAN /\ deferred \in BOOLEAN
    /\ pc = "open" /\ handle = 0 /\ data = <<>> /\ stalled = 0
    /\ attempt = 1 /\ await = FALSE /\ cancelled = FALSE /\ result = "none"
    /\ h2d = <<>> /\ d2h = <<>>
    /\ session = TRUE /\ open = 0 /\ nextHandle = 1
    /\ drops = 0 /\ faults = 0

-----------------------------------------------------------------------------
(* send_retrying.                                                          *)

(* Mutant: after a reconnect the read starts over from offset 0.           *)
SendFromStart ==
    /\ pc \in Exchanges /\ ~await
    /\ \E n \in 0 .. Len(d2h) :
          /\ late \/ n = Len(d2h)
          /\ d2h' = SubSeq(d2h, n + 1, Len(d2h))
    /\ h2d' = Append(h2d, [op |-> Opcode[pc], handle |-> handle, off |-> IF stalled > 0 THEN 0 ELSE Len(data)])
    /\ await' = TRUE
    /\ UNCHANGED <<config, pc, handle, data, stalled, attempt, cancelled, result, devVars, drops, faults>>

Send ==
    /\ pc \in Exchanges /\ ~await
    /\ \E n \in 0 .. Len(d2h) :
          /\ late \/ n = Len(d2h)
          /\ d2h' = SubSeq(d2h, n + 1, Len(d2h))
    /\ h2d' = Append(h2d, [op |-> Opcode[pc], handle |-> handle, off |-> Len(data)])
    /\ await' = TRUE
    /\ UNCHANGED <<config, pc, handle, data, stalled, attempt, cancelled, result, devVars, drops, faults>>

(* The result of the pull is settled, with or without a CLOSE to be sent.  *)
End(r) == pc' = "ended" /\ result' = r
CloseAnd(r) == pc' = "close" /\ result' = r

(* An exchange that failed for good ends the pull at once; what CLOSE says *)
(* is ignored.                                                             *)
Failed(why) ==
    /\ pc' = "ended"
    /\ result' = IF pc = "close" THEN result ELSE why

(* CONNECT is sent once, the others up to MaxAttempts times.               *)
RetryOrFail ==
    IF pc # "connect" /\ attempt < MaxAttempts
    THEN attempt' = attempt + 1 /\ UNCHANGED <<pc, result>>
    ELSE Failed("transport") /\ UNCHANGED attempt

SendFails ==
    /\ pc \in Exchanges /\ ~await /\ Fault
    /\ RetryOrFail
    /\ UNCHANGED <<config, handle, data, stalled, await, cancelled, h2d, d2h, devVars, drops>>

Quiet == h2d = <<>> /\ d2h = <<>>

CommandTimeout ==
    /\ await /\ (late \/ Quiet)
    /\ await' = FALSE
    /\ RetryOrFail
    /\ UNCHANGED <<config, handle, data, stalled, cancelled, h2d, d2h, devVars, drops, faults>>

-----------------------------------------------------------------------------
(* pull_file: what it does with each answer.                               *)

(* Mutant: a cancelled pull returns without closing its handle.            *)
LoopHeadNoClose ==
    /\ pc = "loop"
    /\ IF cancelled THEN End("cancelled") ELSE pc' = "read" /\ UNCHANGED result
    /\ UNCHANGED <<config, handle, data, stalled, attempt, await, cancelled, h2d, d2h, devVars, drops, faults>>

(* is_cancelled() is polled before each READ, not between its retries.     *)
LoopHead ==
    /\ pc = "loop"
    /\ IF cancelled THEN CloseAnd("cancelled") ELSE pc' = "read" /\ UNCHANGED result
    /\ UNCHANGED <<config, handle, data, stalled, attempt, await, cancelled, h2d, d2h, devVars, drops, faults>>

(* Mutant: the CRC is not compared.                                        *)
CheckedUnverified(bytes) == CloseAnd("ok")

Checked(bytes) == CloseAnd(IF bytes = File THEN "ok" ELSE "crc")

(* After the short read: the size, then the CRC of OPEN, or of the CRC     *)
(* command when OPEN carried none.                                         *)
AtEof(bytes) ==
    CASE size > 0 /\ Len(bytes) # size -> CloseAnd("size")
      [] ~(size > 0 /\ Len(bytes) # size) /\ ~verify -> CloseAnd("ok")
      [] ~(size > 0 /\ Len(bytes) # size) /\ verify /\ deferred -> pc' = "crc" /\ UNCHANGED result
      [] OTHER -> Checked(bytes)

(* Mutant: progress does not clear the budget (the total cap of old).      *)
ReadAckedTotalCap(bytes) ==
    /\ drops' = IF bytes = <<>> THEN drops ELSE IF session THEN 0 ELSE 1
    /\ data' = data \o bytes
    /\ IF Len(bytes) < ChunkLen THEN AtEof(data \o bytes) ELSE pc' = "loop" /\ UNCHANGED result
    /\ UNCHANGED <<handle, stalled>>

ReadAcked(bytes) ==
    /\ stalled' = IF bytes = <<>> THEN stalled ELSE 0
    /\ drops' = IF bytes = <<>> THEN drops ELSE IF session THEN 0 ELSE 1
    /\ data' = data \o bytes
    /\ IF Len(bytes) < ChunkLen THEN AtEof(data \o bytes) ELSE pc' = "loop" /\ UNCHANGED result
    /\ UNCHANGED handle

OpenAcked(h) ==
    /\ handle' = h
    /\ pc' = "loop" /\ UNCHANGED <<data, stalled, drops, result>>

(* app_connect does not look at the opcode of the ACK, only at a first     *)
(* byte that must be the major: a late OPEN, CRC or READ may pass for it.  *)
ConnectAcked(r) ==
    /\ \/ /\ r.op \in {"CONNECT", "OPEN", "CRC"} \/ (r.op = "READ" /\ Len(r.bytes) > 1)
          /\ pc' = "open" /\ UNCHANGED result
       \/ r.op # "CONNECT" /\ Failed("connect")
    /\ UNCHANGED <<handle, data, stalled, drops>>

(* Mutant: reconnecting is free.                                           *)
SessionLostUncounted ==
    /\ CASE pc = "read" -> pc' = "connect" /\ UNCHANGED <<stalled, result>>
         [] OTHER -> Failed("bad_session") /\ UNCHANGED stalled
    /\ UNCHANGED <<handle, data, drops>>

(* BAD_SESSION: a READ reconnects while the budget lasts, anything else    *)
(* gives up.                                                               *)
SessionLost ==
    /\ CASE pc = "read" /\ stalled >= MaxStalled -> End("stuck") /\ UNCHANGED stalled
         [] pc = "read" /\ stalled < MaxStalled ->
              stalled' = stalled + 1 /\ pc' = "connect" /\ UNCHANGED result
         [] OTHER -> Failed("bad_session") /\ UNCHANGED stalled
    /\ UNCHANGED <<handle, data, drops>>

Reply ==
    /\ await /\ d2h # <<>>
    /\ d2h' = Tail(d2h)
    /\ await' = FALSE /\ attempt' = 1
    /\ LET r == Head(d2h)
           mine == r.res = "ack" /\ r.op = Opcode[pc]
       IN
       \/ r.res = "bad_session" /\ SessionLost
       \/ r.res = "bad_handle" /\ Failed("bad_handle") /\ UNCHANGED <<handle, data, stalled, drops>>
       \/ pc = "connect" /\ r.res = "ack" /\ ConnectAcked(r)
       \/ mine /\ pc = "open" /\ OpenAcked(r.handle)
       \/ mine /\ pc = "read" /\ ReadAcked(r.bytes)
       \/ mine /\ pc = "crc" /\ Checked(data) /\ UNCHANGED <<handle, data, stalled, drops>>
       \/ mine /\ pc = "close" /\ End(result) /\ UNCHANGED <<handle, data, stalled, drops>>
       \/ /\ pc # "connect" /\ r.res = "ack" /\ ~mine
          /\ Failed("unexpected") /\ UNCHANGED <<handle, data, stalled, drops>>
    /\ UNCHANGED <<config, cancelled, h2d, devVars, faults>>

Host == Send \/ CommandTimeout \/ LoopHead \/ Reply

(* The operator, from another thread.                                      *)
Cancel ==
    /\ pc # "ended" /\ ~cancelled
    /\ cancelled' = TRUE
    /\ UNCHANGED <<config, pc, handle, data, stalled, attempt, await, result, h2d, d2h, devVars, drops, faults>>

-----------------------------------------------------------------------------
(* The log service.                                                        *)

Answer(res, h, bytes) ==
    d2h' = Append(d2h, [op |-> Head(h2d).op, res |-> res, handle |-> h, bytes |-> bytes])

Receive(ops) == h2d # <<>> /\ Head(h2d).op \in ops /\ h2d' = Tail(h2d) /\ UNCHANGED <<hostVars, drops, faults>>

ServeConnect ==
    /\ Receive({"CONNECT"}) /\ Answer("ack", 0, <<>>)
    /\ session' = TRUE /\ open' = 0 /\ UNCHANGED nextHandle

Refuse == Receive({"OPEN", "READ", "CRC", "CLOSE"}) /\ ~session /\ Answer("bad_session", 0, <<>>) /\ UNCHANGED devVars

(* Handles wrap to 1, never to 0; an OPEN supersedes the one before.       *)
ServeOpen ==
    /\ Receive({"OPEN"}) /\ session /\ Answer("ack", nextHandle, <<>>)
    /\ open' = nextHandle
    /\ nextHandle' = IF nextHandle = MaxHandle THEN 1 ELSE nextHandle + 1
    /\ UNCHANGED session

Known == open # 0 /\ Head(h2d).handle = open

RefuseHandle ==
    /\ Receive({"READ", "CRC", "CLOSE"}) /\ session /\ ~Known
    /\ Answer("bad_handle", 0, <<>>) /\ UNCHANGED devVars

ServeRead ==
    /\ Receive({"READ"}) /\ session /\ Known
    /\ Answer("ack", 0, Window(Head(h2d).off)) /\ UNCHANGED devVars

ServeCrc == Receive({"CRC"}) /\ session /\ Known /\ Answer("ack", 0, <<>>) /\ UNCHANGED devVars

ServeClose ==
    /\ Receive({"CLOSE"}) /\ session /\ Known /\ Answer("ack", 0, <<>>)
    /\ open' = 0 /\ UNCHANGED <<session, nextHandle>>

(* The idle timeout of the application: the session goes, and its handle.  *)
DropSession ==
    /\ session /\ pc # "ended"
    /\ session' = FALSE /\ open' = 0
    /\ drops' = IF drops > MaxStalled THEN drops ELSE drops + 1
    /\ UNCHANGED <<hostVars, h2d, d2h, nextHandle, faults>>

Lose ==
    /\ Fault
    /\ \/ h2d # <<>> /\ h2d' = Tail(h2d) /\ UNCHANGED d2h
       \/ d2h # <<>> /\ d2h' = Tail(d2h) /\ UNCHANGED h2d
    /\ UNCHANGED <<hostVars, devVars, drops>>

Service ==
    ServeConnect \/ Refuse \/ ServeOpen \/ RefuseHandle \/ ServeRead \/ ServeCrc \/ ServeClose

Finished == pc = "ended" /\ UNCHANGED vars

Next == Host \/ SendFails \/ Cancel \/ Service \/ DropSession \/ Lose \/ Finished

Spec == Init /\ [][Next]_vars

(* The pulling task is scheduled and its timeouts elapse; nothing is       *)
(* assumed of the node, which may also drop the session for ever.          *)
FairSpec == Spec /\ WF_vars(Host)

-----------------------------------------------------------------------------
(* Properties.                                                             *)

(* Every variable has its type; the budgets are never exceeded.            *)
TypeOK ==
    /\ late \in BOOLEAN /\ size \in Lengths /\ verify \in BOOLEAN /\ deferred \in BOOLEAN
    /\ pc \in Exchanges \cup {"loop", "ended"}
    /\ handle \in 0 .. MaxHandle
    /\ data \in Seq(Nat)
    /\ stalled \in 0 .. MaxStalled
    /\ attempt \in 1 .. MaxAttempts
    /\ await \in BOOLEAN /\ cancelled \in BOOLEAN
    /\ session \in BOOLEAN /\ open \in 0 .. MaxHandle /\ nextHandle \in 1 .. MaxHandle
    /\ drops \in 0 .. MaxStalled + 1 /\ faults \in 0 .. MaxFaults

(* A pull that reports a verified file returns the node's bytes, whatever  *)
(* replies came late, were lost or belonged to another request.            *)
VerifiedIsFile == pc = "ended" /\ result = "ok" /\ verify => data = File

(* Retries and reconnects neither repeat nor skip a byte, as long as no    *)
(* reply outlives its request.                                             *)
DataIsPrefix == ~late => Len(data) <= size /\ data = SubSeq(File, 1, Len(data))

(* Only a stuck pull gives up: the session was dropped more often than the *)
(* budget allows since a byte last arrived (MAX_STALLED_RESYNCS).          *)
AdvancingPullSurvives == ~late /\ result = "stuck" => drops > MaxStalled

(* A pull that ended in order, was cancelled or failed its checks leaves   *)
(* no handle open, unless all its CLOSEs were lost.                        *)
HandleClosed ==
    pc = "ended" /\ result \in {"ok", "cancelled", "size", "crc"} /\ ~late /\ faults < MaxAttempts
    => open = 0

(* Every pull ends, even if the node falls silent or drops the session for *)
(* ever: its timeouts elapse whatever is still under way.                  *)
PullEnds == late ~> pc = "ended"

=============================================================================
