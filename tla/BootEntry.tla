----------------------------- MODULE BootEntry -----------------------------
(***************************************************************************)
(* connect_entering_bootloader (session/mod.rs): getting a board whose     *)
(* application is running into its bootloader.  The host sends the reboot  *)
(* trigger of its target node on an ID every application listens to, and   *)
(* polls CONNECT until the bootloader answers or a window is over.         *)
(*                                                                         *)
(* Time is in milliseconds and moves with the host's sleeps and timeouts.  *)
(* The boards are the stub's view of them: an application that resets on   *)
(* its own payload, takes a while to come up as a bootloader, and starts   *)
(* over when triggered meanwhile.                                          *)
(***************************************************************************)
EXTENDS Integers

CONSTANTS
  Nodes,             \* the boards on the bus
  PayloadOf,         \* node -> payload its application resets on
  Known,             \* nodes the host's table has a payload for
  BootTimes,         \* how long a reset may take to reach the bootloader
  PollInterval,      \* BL_REBOOT_POLL_INTERVAL
  AttemptTimeout,    \* BL_CONNECT_ATTEMPT_TIMEOUT
  CommandTimeout,    \* command_timeout of the session, for a plain connect
  RetriggerInterval, \* BL_REBOOT_RETRIGGER_INTERVAL
  Window,            \* DEFAULT_BL_ENTRY_WINDOW
  MaxFaults          \* bound: frames lost and replies delayed

ASSUME TimeAssumption ==
  /\ BootTimes \subseteq Nat
  /\ {PollInterval, AttemptTimeout, CommandTimeout, RetriggerInterval, Window} \subseteq Nat
  /\ MaxFaults \in Nat
ASSUME KnownAssumption == Known \subseteq Nodes /\ Nodes \subseteq DOMAIN PayloadOf
\* "Each node matches only its own value" (app_control.rs:35).
ASSUME PayloadAssumption ==
  \A k \in Known, n \in Nodes : PayloadOf[n] = PayloadOf[k] => n = k

None == "none"

Round == PollInterval + AttemptTimeout   \* one turn of the poll loop

\* The window holds a trigger every c rounds for each fault, and the b rounds
\* of the longest reset, which is over before the trigger is sent again.
ASSUME WindowAssumption ==
  \E c \in 1 .. Window, b \in 0 .. Window :
     /\ RetriggerInterval <= c * Round
     /\ \A d \in BootTimes : d <= RetriggerInterval /\ d <= b * Round + PollInterval
     /\ (MaxFaults * c + b) * Round < Window

VARIABLES
  entry,        \* the BootloaderEntry policy of this call
  target,       \* the session's target node
  pc,           \* where the call is
  polling,      \* reboot_and_connect has been entered
  now,          \* elapsed time
  deadline, nextTrigger,
  result,       \* what the call returned
  mode,         \* node -> app, booting, bl
  readyAt,      \* node -> when a booting node becomes a bootloader
  listens,      \* the target's application implements the trigger
  compatible,   \* the bootloaders speak the host's major version
  session,      \* nodes whose bootloader has latched a session
  late,         \* ACKs of CONNECT that timed out and are still under way
  rebooted,     \* history: nodes that reset
  faults

hostVars == <<entry, target, pc, polling, now, deadline, nextTrigger, result>>
nodeVars == <<mode, readyAt, session, rebooted>>
fixedVars == <<listens, compatible>>
vars == <<hostVars, nodeVars, fixedVars, late, faults>>

Init ==
  /\ entry \in {"never", "auto", "always"} /\ target \in Nodes
  /\ pc = "start" /\ polling = FALSE /\ result = None
  /\ now = 0 /\ deadline = 0 /\ nextTrigger = 0
  /\ mode \in [Nodes -> {"app", "bl"}]
  /\ readyAt = [n \in Nodes |-> 0]
  /\ listens \in BOOLEAN /\ compatible \in BOOLEAN
  /\ session = {} /\ late = 0 /\ rebooted = {} /\ faults = 0

(* Mutant: a node without a payload of its own is sent that of another.      *)
PayloadWithFallback(n) ==
  IF n \in Known THEN PayloadOf[n] ELSE PayloadOf[CHOOSE k \in Known : TRUE]

\* reboot_to_bl_payload
Payload(n) == IF n \in Known THEN PayloadOf[n] ELSE None

Fault == faults < MaxFaults /\ faults' = faults + 1
NoFault == faults' = faults

Return(r) == pc' = "done" /\ result' = r

\* The head of reboot_and_connect: a node without a payload is refused.
EnterPoll(t) ==
  IF Payload(target) = None
  THEN /\ Return("refused")
       /\ UNCHANGED <<polling, deadline>>
  ELSE /\ polling' = TRUE /\ deadline' = t + Window
       /\ pc' = "trigger" /\ UNCHANGED result

\* connect_entering_bootloader
Begin ==
  /\ pc = "start"
  /\ IF entry = "always"
     THEN EnterPoll(now)
     ELSE pc' = "probe" /\ UNCHANGED <<polling, deadline, result>>
  /\ UNCHANGED <<entry, target, now, nextTrigger, nodeVars, fixedVars, late,
                 faults>>

(* Mutant: a probe that timed out always triggers again.                     *)
RetriggerAtOnce(t) == "trigger"

\* Where a CONNECT that timed out at time t leads in the poll loop.
AfterTimeout(t) == IF t >= nextTrigger THEN "trigger" ELSE "probe"

\* The trigger frame reaches the boards in "hears", which reset.
TriggerHeard(hears) ==
  /\ mode' = [n \in Nodes |-> IF n \in hears THEN "booting" ELSE mode[n]]
  /\ \E d \in BootTimes :
       readyAt' = [n \in Nodes |-> IF n \in hears THEN now + d ELSE readyAt[n]]
  /\ rebooted' = rebooted \cup hears
  /\ nextTrigger' = now + RetriggerInterval
  /\ UNCHANGED deadline
  /\ pc' = "probe"

InBootloader(n) == mode[n] = "bl" \/ (mode[n] = "booting" /\ readyAt[n] <= now)

\* send_app_frame of the trigger.  A board that is not in its bootloader and
\* whose payload it is resets, also when it is already on its way.
Trigger ==
  /\ pc = "trigger"
  /\ \/ /\ NoFault
        /\ TriggerHeard({n \in Nodes : /\ PayloadOf[n] = Payload(target)
                                       /\ listens /\ ~InBootloader(n)})
     \/ Fault /\ TriggerHeard({})
  /\ UNCHANGED <<entry, target, polling, now, result, fixedVars, session, late>>

\* The backend refuses the trigger frame.
TriggerFails ==
  /\ pc = "trigger" /\ Fault
  /\ Return("error")
  /\ UNCHANGED <<entry, target, polling, now, deadline, nextTrigger, nodeVars,
                 fixedVars, late>>

SentAt == now + (IF polling THEN PollInterval ELSE 0)
Hears(n) == mode[n] = "bl" \/ (mode[n] = "booting" /\ readyAt[n] <= SentAt)

\* The CONNECT of an attempt is processed by the target's bootloader.
Serve == session' = IF compatible THEN session \cup {target} ELSE session

\* The ACK of this attempt, or a late one of an earlier attempt: an answer to
\* CONNECT is an answer to CONNECT.
Ok ==
  /\ Return("ok") /\ now' = SentAt
  /\ UNCHANGED <<polling, deadline>>

\* CommandTimeout: Never gives up, Auto goes on to reboot_and_connect, and
\* the poll loop probes again, triggers again or gives up.
TimedOut ==
  /\ now' = SentAt + IF entry = "never" THEN CommandTimeout ELSE AttemptTimeout
  /\ IF ~polling
     THEN IF entry = "auto"
          THEN EnterPoll(now')
          ELSE Return("timeout") /\ UNCHANGED <<polling, deadline>>
     ELSE /\ UNCHANGED <<polling, deadline>>
          /\ IF now' >= deadline
             THEN Return("timeout")
             ELSE pc' = AfterTimeout(now') /\ UNCHANGED result

\* The drain before a transmission discards any number of late ACKs; the
\* others are still under way.
Attempt(stillLate) == pc = "probe" /\ stillLate \in 0 .. late
AttemptUnchanged ==
  UNCHANGED <<entry, target, nextTrigger, mode, readyAt, rebooted, fixedVars>>

\* The bootloader accepts, and its ACK comes in time.
ProbeAcked ==
  /\ Hears(target) /\ compatible
  /\ \E k \in 0 .. late : Attempt(k) /\ late' = k
  /\ Serve /\ Ok /\ NoFault
  /\ AttemptUnchanged

(* Mutant: any answer to CONNECT counts as its ACK.                          *)
ProbeNackedIsOk ==
  /\ Hears(target) /\ ~compatible
  /\ \E k \in 0 .. late : Attempt(k) /\ late' = k
  /\ Ok /\ NoFault
  /\ UNCHANGED session /\ AttemptUnchanged

\* It refuses the host's version.
ProbeNacked ==
  /\ Hears(target) /\ ~compatible
  /\ \E k \in 0 .. late : Attempt(k) /\ late' = k
  /\ Return("mismatch") /\ now' = SentAt /\ NoFault
  /\ UNCHANGED <<polling, deadline, session>> /\ AttemptUnchanged

\* A late ACK answers the attempt, whether its CONNECT got through or not.
ProbeLateAck ==
  /\ \E k \in 1 .. late : Attempt(k) /\ late' = k - 1
  /\ \/ Hears(target) /\ Serve /\ NoFault
     \/ ~Hears(target) /\ UNCHANGED session /\ NoFault
     \/ Fault /\ UNCHANGED session
  /\ Ok
  /\ AttemptUnchanged

\* No bootloader is there to answer, or the CONNECT or its answer is lost.
ProbeUnanswered ==
  /\ \E k \in 0 .. late : Attempt(k) /\ late' = k
  /\ \/ ~Hears(target) /\ UNCHANGED session /\ NoFault
     \/ Hears(target) /\ UNCHANGED session /\ Fault
     \/ Hears(target) /\ Serve /\ Fault
  /\ TimedOut
  /\ AttemptUnchanged

\* The ACK is late.
ProbeDelayed ==
  /\ Hears(target) /\ compatible
  /\ \E k \in 0 .. late : Attempt(k) /\ late' = k + 1
  /\ Serve /\ TimedOut /\ Fault
  /\ AttemptUnchanged

Stopped == pc = "done" /\ UNCHANGED vars

Host == Begin \/ Trigger \/ TriggerFails \/ ProbeAcked \/ ProbeNacked
        \/ ProbeLateAck \/ ProbeUnanswered \/ ProbeDelayed
Next == Host \/ Stopped

Spec == Init /\ [][Next]_vars

-----------------------------------------------------------------------------
(* Properties.                                                              *)

\* Every variable has a value of its type.
TypeOK ==
  /\ entry \in {"never", "auto", "always"} /\ target \in Nodes
  /\ pc \in {"start", "trigger", "probe", "done"} /\ polling \in BOOLEAN
  /\ {now, deadline, nextTrigger} \subseteq Nat
  /\ result \in {None, "ok", "timeout", "refused", "mismatch", "error"}
  /\ mode \in [Nodes -> {"app", "booting", "bl"}] /\ readyAt \in [Nodes -> Nat]
  /\ listens \in BOOLEAN /\ compatible \in BOOLEAN /\ session \subseteq Nodes
  /\ late \in 0 .. MaxFaults /\ rebooted \subseteq Nodes
  /\ faults \in 0 .. MaxFaults

\* A call that returns a version has a bootloader with a session at the other
\* end, also when it was the late ACK of an earlier attempt that answered.
OkMeansConnected ==
  result = "ok" => target \in session /\ InBootloader(target)

\* On the shared bus only the target is reset: not another board, not a board
\* the host has no payload for, and none at all under Never.
OnlyTargetReboots ==
  /\ rebooted \subseteq {target} \cap Known
  /\ entry = "never" => rebooted = {}

\* The window and the spacing of the triggers are enough: a board whose
\* application implements the trigger is reached in spite of MaxFaults lost or
\* late frames, and its boot is not restarted for ever by triggers.
WindowSuffices == result = "timeout" /\ listens => entry = "never"

=============================================================================
