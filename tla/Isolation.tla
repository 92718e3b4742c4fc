----------------------------- MODULE Isolation -----------------------------
(***************************************************************************)
(* transport/isolation.rs: a crash-prone CAN driver runs in a helper       *)
(* process; the parent's IsolatedBackend bridges to it over two pipes.     *)
(*                                                                         *)
(*   parent:  spawn (handshake), send, recv, drop, and a reader thread     *)
(*   helper:  run_host, with its RX task and its TX loop                   *)
(*                                                                         *)
(* A frame is its number in the order of arrival.  A message of the stdout *)
(* pipe is a frame, Ready, OpenErr, or Cut: the bytes of a message the     *)
(* helper died in the middle of.                                           *)
(***************************************************************************)
EXTENDS Integers, Sequences

CONSTANTS
  QueueDepth,     \* depth of the parent's receive queue (RX_QUEUE_DEPTH)
  PipeCap,        \* messages a pipe holds before its writer blocks
  MaxRx,          \* bound: frames the bus delivers to the helper
  MaxTx           \* bound: frames the application sends

ASSUME QueueDepthAssumption == QueueDepth \in Nat \ {0}
ASSUME PipeCapAssumption == PipeCap \in Nat \ {0}
ASSUME BoundAssumption == MaxRx \in Nat /\ MaxTx \in Nat

Frame == 1 .. MaxRx
Ready == 0
OpenErr == -1
Cut == -2
Message == Frame \cup {Ready, OpenErr, Cut}

VARIABLES
  parent,       \* life of the IsolatedBackend: spawning, open, dropping, ...
  reader,       \* the can-host-reader thread: what it is about to do
  pending,      \* frame the reader holds while the queue is full
  queue,        \* the mpsc queue between the reader and recv
  shutdown,     \* the flag Drop sets for the reader
  stdin,        \* parent -> helper pipe
  stdinOpen,    \* the parent's end of it
  stdout,       \* helper -> parent pipe
  helper,       \* the helper process
  rx,           \* its RX task
  rxFrame,      \* frame the RX task is writing
  adapter,      \* whether the CAN adapter is plugged in
  exit,         \* how the helper ended
  written,      \* history: frames the helper wrote in full
  received,     \* history: frames recv returned
  ended,        \* history: recv returned Disconnected
  accepted,     \* history: number of frames send returned Ok for
  handed        \* history: number of frames given to the backend's send

parentVars == <<parent, reader, pending, queue, shutdown, received, ended>>
helperVars == <<helper, rx, rxFrame, adapter, exit, written, handed>>
vars == <<parent, reader, pending, queue, shutdown, received, ended, stdin,
          stdinOpen, stdout, helper, rx, rxFrame, adapter, exit, written,
          accepted, handed>>

Init ==
  /\ parent = "spawn" /\ reader = "none" /\ pending = 0
  /\ queue = <<>> /\ shutdown = FALSE /\ received = <<>> /\ ended = FALSE
  /\ stdin = <<>> /\ stdinOpen = TRUE /\ stdout = <<>>
  /\ helper = "opening" /\ rx = "none" /\ rxFrame = 0
  /\ adapter = "present" /\ exit = "none"
  /\ written = <<>> /\ accepted = 0 /\ handed = 0

Dead == helper = "exited"
ReadEndOpen == reader # "done" /\ parent # "failed"

-----------------------------------------------------------------------------
(* The helper: run_host.                                                    *)

\* open_backend_direct succeeds: the RX task is spawned, the TX loop starts.
HostOpen ==
  /\ helper = "opening"
  /\ adapter = "present"
  /\ helper' = "running" /\ rx' = "ready"
  /\ UNCHANGED <<parentVars, stdin, stdinOpen, stdout, rxFrame, adapter, exit,
                 written, accepted, handed>>

\* It fails: OPEN_ERR goes out and the helper returns.
HostOpenErr ==
  /\ helper = "opening"
  /\ stdout' = Append(stdout, OpenErr)
  /\ helper' = "exited" /\ exit' = "clean"
  /\ UNCHANGED <<parentVars, stdin, stdinOpen, rx, rxFrame, adapter, written,
                 accepted, handed>>

\* The RX task announces READY before it polls the backend.
RxReady ==
  /\ rx = "ready" /\ ~Dead
  /\ stdout' = Append(stdout, Ready)
  /\ rx' = "poll"
  /\ UNCHANGED <<parentVars, stdin, stdinOpen, helper, rxFrame, adapter, exit,
                 written, accepted, handed>>

\* The backend's recv returns a frame; a Timeout only polls again.
RxRecv ==
  /\ rx = "poll" /\ helper = "running" /\ adapter = "present"
  /\ rxFrame < MaxRx
  /\ rxFrame' = rxFrame + 1
  /\ rx' = "write"
  /\ UNCHANGED <<parentVars, stdin, stdinOpen, stdout, helper, adapter, exit,
                 written, accepted, handed>>

\* The backend's recv returns Disconnected: the RX task returns, the TX loop
\* stays in its read of stdin.
RxGone ==
  /\ rx = "poll" /\ helper = "running" /\ adapter = "gone"
  /\ rx' = "done"
  /\ UNCHANGED <<parentVars, stdin, stdinOpen, stdout, helper, rxFrame,
                 adapter, exit, written, accepted, handed>>

AfterWrite == IF helper = "closing" THEN "done" ELSE "poll"

(* Mutant: a write that fails is tried again.                                *)
RxWriteRetries ==
  /\ rx = "write" /\ ~Dead /\ ReadEndOpen
  /\ Len(stdout) < PipeCap
  /\ stdout' = Append(stdout, rxFrame)
  /\ written' = Append(written, rxFrame)
  /\ rx' = AfterWrite
  /\ UNCHANGED <<parentVars, stdin, stdinOpen, helper, rxFrame, adapter, exit,
                 accepted, handed>>

\* write_all and flush of one frame: blocked while the pipe is full, an error
\* once the parent's reader has dropped its end.
RxWrite ==
  /\ rx = "write" /\ ~Dead
  /\ IF ReadEndOpen
     THEN /\ Len(stdout) < PipeCap
          /\ stdout' = Append(stdout, rxFrame)
          /\ written' = Append(written, rxFrame)
          /\ rx' = AfterWrite
     ELSE /\ rx' = "done"
          /\ UNCHANGED <<stdout, written>>
  /\ UNCHANGED <<parentVars, stdin, stdinOpen, helper, rxFrame, adapter, exit,
                 accepted, handed>>

\* rx_task.abort(): takes effect at the task's next await; a write that is
\* under way on the blocking pool runs on.
Abort == rx' = IF rx = "write" THEN "write" ELSE "done"

\* The TX loop takes one frame from stdin.  Any failure of the backend's send
\* but Disconnected only loses the frame; Disconnected ends the loop.
TxSend ==
  /\ helper = "running" /\ stdin # <<>>
  /\ stdin' = Tail(stdin)
  /\ handed' = handed + 1
  /\ IF adapter = "present"
     THEN UNCHANGED <<helper, rx>>
     ELSE helper' = "closing" /\ Abort
  /\ UNCHANGED <<parentVars, stdinOpen, stdout, rxFrame, adapter, exit,
                 written, accepted>>

(* Mutant: the TX loop looks at the closed pipe before what is left in it.   *)
TxEofAtOnce ==
  /\ helper = "running" /\ ~stdinOpen
  /\ helper' = "closing" /\ Abort
  /\ UNCHANGED <<parentVars, stdin, stdinOpen, stdout, rxFrame, adapter, exit,
                 written, accepted, handed>>

\* EOF on stdin: the TX loop ends.
TxEof ==
  /\ helper = "running" /\ stdin = <<>> /\ ~stdinOpen
  /\ helper' = "closing" /\ Abort
  /\ UNCHANGED <<parentVars, stdin, stdinOpen, stdout, rxFrame, adapter, exit,
                 written, accepted, handed>>

\* The backend is dropped, the runtime waits for a write under way, then the
\* process ends.
HostExit ==
  /\ helper = "closing" /\ rx # "write"
  /\ helper' = "exited" /\ exit' = "clean"
  /\ UNCHANGED <<parentVars, stdin, stdinOpen, stdout, rx, rxFrame, adapter,
                 written, accepted, handed>>

\* The process dies, whatever it was doing; a message it was writing may be
\* left cut in the pipe.
Die(how) ==
  /\ ~Dead
  /\ helper' = "exited" /\ exit' = how
  /\ \/ UNCHANGED stdout
     \/ /\ rx \in {"ready", "write"} /\ Len(stdout) < PipeCap
        /\ stdout' = Append(stdout, Cut)

\* The driver faults on a thread of its own.
Crash ==
  /\ Die("crash")
  /\ UNCHANGED <<parentVars, stdin, stdinOpen, rx, rxFrame, adapter, written,
                 accepted, handed>>

Unplug ==
  /\ adapter = "present" /\ adapter' = "gone"
  /\ UNCHANGED <<parentVars, stdin, stdinOpen, stdout, helper, rx, rxFrame,
                 exit, written, accepted, handed>>

-----------------------------------------------------------------------------
(* The parent's reader thread.                                              *)

AtEof == stdout = <<>> /\ Dead

\* read_blocking returns a frame.
ReaderRead ==
  /\ reader = "read" /\ stdout # <<>> /\ Head(stdout) \in Frame
  /\ pending' = Head(stdout) /\ stdout' = Tail(stdout)
  /\ reader' = "push"
  /\ UNCHANGED <<helperVars, parent, queue, shutdown, received, ended, stdin,
                 stdinOpen, accepted>>

(* Mutant: the reader waits for the rest of a cut message.                   *)
ReaderEofWhole ==
  /\ reader = "read"
  /\ AtEof \/ stdout = <<Cut>>
  /\ reader' = IF AtEof THEN "done" ELSE "read"
  /\ UNCHANGED <<helperVars, parent, pending, queue, shutdown, received,
                 ended, stdin, stdinOpen, stdout, accepted>>

\* read_blocking returns None: EOF, or the bytes of a cut message.
ReaderEof ==
  /\ reader = "read"
  /\ AtEof \/ stdout = <<Cut>>
  /\ reader' = "done"
  /\ UNCHANGED <<helperVars, parent, pending, queue, shutdown, received,
                 ended, stdin, stdinOpen, stdout, accepted>>

\* try_send succeeds.
ReaderPush ==
  /\ reader = "push" /\ Len(queue) < QueueDepth
  /\ queue' = Append(queue, pending)
  /\ pending' = 0 /\ reader' = "read"
  /\ UNCHANGED <<helperVars, parent, shutdown, received, ended, stdin,
                 stdinOpen, stdout, accepted>>

(* Mutant: a frame that finds the queue full is thrown away.                 *)
ReaderDropsFrame ==
  /\ reader = "push" /\ Len(queue) >= QueueDepth
  /\ pending' = 0 /\ reader' = "read"
  /\ UNCHANGED <<helperVars, parent, queue, shutdown, received, ended, stdin,
                 stdinOpen, stdout, accepted>>

(* Mutant: the retry on a full queue ignores the shutdown flag.              *)
ReaderWedged ==
  /\ reader = "push" /\ Len(queue) >= QueueDepth
  /\ UNCHANGED vars

\* The queue is full and Drop has begun: the thread gives the frame up.
ReaderGiveUp ==
  /\ reader = "push" /\ Len(queue) >= QueueDepth /\ shutdown
  /\ pending' = 0 /\ reader' = "done"
  /\ UNCHANGED <<helperVars, parent, queue, shutdown, received, ended, stdin,
                 stdinOpen, stdout, accepted>>

-----------------------------------------------------------------------------
(* The parent: spawn, send, recv.                                           *)

\* The first message is READY: the reader thread starts, the backend is open.
SpawnReady ==
  /\ parent = "spawn" /\ stdout # <<>> /\ Head(stdout) = Ready
  /\ stdout' = Tail(stdout)
  /\ parent' = "open" /\ reader' = "read"
  /\ UNCHANGED <<helperVars, pending, queue, shutdown, received, ended, stdin,
                 stdinOpen, accepted>>

\* READY, but the reader thread cannot be created: spawn fails and drops its
\* ends of both pipes and the Child, which neither kills the helper nor waits.
SpawnNoReader ==
  /\ parent = "spawn" /\ stdout # <<>> /\ Head(stdout) = Ready
  /\ stdout' = Tail(stdout)
  /\ parent' = "failed" /\ stdinOpen' = FALSE
  /\ UNCHANGED <<helperVars, reader, pending, queue, shutdown, received,
                 ended, stdin, accepted>>

\* It is OPEN_ERR: the parent waits for the child and reports the reason.
SpawnOpenErr ==
  /\ parent = "spawn" /\ stdout # <<>> /\ Head(stdout) = OpenErr
  /\ Dead
  /\ parent' = "failed" /\ stdinOpen' = FALSE
  /\ UNCHANGED <<helperVars, reader, pending, queue, shutdown, received,
                 ended, stdin, stdout, accepted>>

\* There is none, the child being dead: it is reaped (the kill finds nothing).
SpawnNone ==
  /\ parent = "spawn"
  /\ AtEof \/ stdout = <<Cut>>
  /\ parent' = "failed" /\ stdinOpen' = FALSE
  /\ UNCHANGED <<helperVars, reader, pending, queue, shutdown, received,
                 ended, stdin, stdout, accepted>>

\* send writes to the stdin pipe; with the helper dead the pipe is broken and
\* send returns Disconnected, which changes nothing here.
Send ==
  /\ parent = "open" /\ stdinOpen /\ ~Dead
  /\ accepted < MaxTx /\ Len(stdin) < PipeCap
  /\ stdin' = Append(stdin, accepted + 1)
  /\ accepted' = accepted + 1
  /\ UNCHANGED <<helperVars, parentVars, stdinOpen, stdout>>

\* recv returns the next queued frame; its Timeout loses nothing.
RecvFrame ==
  /\ parent = "open" /\ queue # <<>>
  /\ received' = Append(received, Head(queue))
  /\ queue' = Tail(queue)
  /\ UNCHANGED <<helperVars, parent, reader, pending, shutdown, ended, stdin,
                 stdinOpen, stdout, accepted>>

\* The queue is closed and empty: recv returns Disconnected.
RecvDisconnected ==
  /\ parent = "open" /\ queue = <<>> /\ reader = "done"
  /\ ended' = TRUE
  /\ UNCHANGED <<helperVars, parent, reader, pending, queue, shutdown,
                 received, stdin, stdinOpen, stdout, accepted>>

-----------------------------------------------------------------------------
(* Drop for IsolatedBackend.                                                *)

DropFlag ==
  /\ parent = "open"
  /\ shutdown' = TRUE /\ parent' = "drop"
  /\ UNCHANGED <<helperVars, reader, pending, queue, received, ended, stdin,
                 stdinOpen, stdout, accepted>>

DropStdin ==
  /\ parent = "drop"
  /\ stdinOpen' = FALSE /\ parent' = "reap"
  /\ UNCHANGED <<helperVars, reader, pending, queue, shutdown, received,
                 ended, stdin, stdout, accepted>>

\* try_wait finds the child gone within the grace period.
DropReap ==
  /\ parent = "reap" /\ Dead
  /\ parent' = "join"
  /\ UNCHANGED <<helperVars, reader, pending, queue, shutdown, received,
                 ended, stdin, stdinOpen, stdout, accepted>>

\* The grace period is over: kill and wait.
DropKill ==
  /\ parent = "reap" /\ Die("killed")
  /\ parent' = "join"
  /\ UNCHANGED <<reader, pending, queue, shutdown, received, ended, stdin,
                 stdinOpen, rx, rxFrame, adapter, written, accepted, handed>>

DropJoin ==
  /\ parent = "join" /\ reader = "done"
  /\ parent' = "dropped"
  /\ UNCHANGED <<helperVars, reader, pending, queue, shutdown, received,
                 ended, stdin, stdinOpen, stdout, accepted>>

\* Nothing is left to do.
Stopped ==
  /\ parent \in {"failed", "dropped"} /\ Dead
  /\ UNCHANGED vars

-----------------------------------------------------------------------------
Host == HostOpen \/ HostOpenErr \/ RxReady \/ RxRecv \/ RxGone \/ RxWrite
        \/ TxSend \/ TxEof \/ HostExit
Reader == ReaderRead \/ ReaderEof \/ ReaderPush \/ ReaderGiveUp
Recv == RecvFrame \/ RecvDisconnected
Spawn == SpawnReady \/ SpawnNoReader \/ SpawnOpenErr \/ SpawnNone
Drop == DropStdin \/ DropReap \/ DropKill \/ DropJoin

Next == Host \/ Crash \/ Unplug \/ Reader \/ Spawn \/ Send \/ Recv
        \/ DropFlag \/ Drop \/ Stopped

\* The parent's threads run and its receiver keeps calling recv.  The helper
\* is owed nothing: its driver may hang, and the bus may stay silent.
Spec == Init /\ [][Next]_vars
        /\ WF_vars(Reader) /\ WF_vars(Recv) /\ WF_vars(Spawn) /\ WF_vars(Drop)

-----------------------------------------------------------------------------
(* Properties.                                                              *)

\* Every variable has a value of its type.
TypeOK ==
  /\ parent \in {"spawn", "open", "failed", "drop", "reap", "join", "dropped"}
  /\ reader \in {"none", "read", "push", "done"}
  /\ pending \in Frame \cup {0} /\ queue \in Seq(Frame)
  /\ shutdown \in BOOLEAN /\ ended \in BOOLEAN /\ stdinOpen \in BOOLEAN
  /\ stdin \in Seq(1 .. MaxTx) /\ stdout \in Seq(Message)
  /\ helper \in {"opening", "running", "closing", "exited"}
  /\ rx \in {"none", "ready", "poll", "write", "done"} /\ rxFrame \in 0 .. MaxRx
  /\ adapter \in {"present", "gone"}
  /\ exit \in {"none", "clean", "crash", "killed"}
  /\ written \in Seq(Frame) /\ received \in Seq(Frame)
  /\ accepted \in 0 .. MaxTx /\ handed \in 0 .. accepted

\* The bridge is a FrameStream: through the pipe, the reader's retry on a
\* full queue, the queue and recv, frames keep their order and none is lost
\* or doubled, and recv reports Disconnected only when the helper is dead and
\* every frame it wrote in full was returned, and returns nothing after it.
Stream == INSTANCE FrameStream WITH
  sent <- written, got <- received, alive <- ~Dead, ended <- ended
IsFrameStream == Stream!Spec

\* A spawn that fails leaves no helper behind for good, whose adapter the next
\* open would find in use: a helper whose parent could not start its reader
\* ends by itself, even with a write under way to the pipe nobody empties, as
\* long as its driver answers.
AbandonedHelperEnds == WF_vars(Host) => (parent = "failed" ~> Dead)

\* A helper that ended on its own with the adapter present gave the backend
\* every frame that send had returned Ok for: closing right after a send does
\* not cut the last command off.
CleanExitTransmits ==
  exit = "clean" /\ adapter = "present" => handed = accepted

\* Drop always returns, with the helper gone, even when the helper hangs and
\* the queue is full: the child is killed and the reader cannot stay wedged in
\* its retry loop.
DropReturns == parent = "drop" ~> parent = "dropped" /\ Dead

\* The death of the helper, at any point, reaches a receiver that keeps
\* calling recv as Disconnected.
DeathSurfaces == (Dead /\ parent = "open") ~> (ended \/ parent # "open")

=============================================================================
