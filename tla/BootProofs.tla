----------------------------- MODULE BootProofs ----------------------------
(***************************************************************************)
(* Proofs about BootEntry, for any boards, payload table and intervals     *)
(* that satisfy its assumptions.                                           *)
(*                                                                         *)
(* The argument for the window: time moves in rounds.  Until the target    *)
(* has heard a trigger, each trigger was a fault, and triggers are at most *)
(* c rounds apart.  Once it has, at most b rounds pass while it resets,    *)
(* and each further round without an answer was a fault.  So the time that *)
(* has passed is bounded by the faults, and MaxFaults of them still leave  *)
(* the window open.                                                        *)
(***************************************************************************)
EXTENDS BootEntry, TLAPS

(* Products of naturals, for the counting of rounds.                       *)
LEMMA TimesNat == \A x, y \in Nat : x * y \in Nat
  OBVIOUS
LEMMA PlusMinus == \A x, y \in Nat : (x + y) - y = x
  OBVIOUS
LEMMA PlusSome == \A x, y \in Nat : x <= x + y
  OBVIOUS
LEMMA PlusZero == \A x, y \in Nat : x = x + 0 /\ x <= x + 0 /\ 0 <= x /\ 0 <= y + (x - 0)
  OBVIOUS
LEMMA LessLess ==
  \A m, b, e, f, g \in Nat : g <= e /\ e <= f /\ m <= b + (e - g) => g <= f /\ m <= b + (f - g)
  OBVIOUS
LEMMA TimesZero == \A x \in Nat : 0 * x = 0
  OBVIOUS
LEMMA SumNat == \A x, y \in Nat : x + y \in Nat
  OBVIOUS
LEMMA TimesNext == \A x, z \in Nat : (x + 1) * z = x * z + z
  OBVIOUS
LEMMA TimesMono == \A x, y, z \in Nat : x <= y => x * z <= y * z
  OBVIOUS
LEMMA TimesLess == \A x, y, z \in Nat : x * z < y * z => x < y
  BY TimesMono
LEMMA TimesPlus == \A x, y, z \in Nat : (x + y) * z = x * z + y * z
  OBVIOUS
LEMMA TimesAssoc == \A x, y, z \in Nat : x * (y * z) = (x * y) * z
  OBVIOUS

(* A late ACK is a fault of its own.                                       *)
LateInv == late <= faults

(* Who triggers may; nobody resets under Never.                            *)
PollInv ==
  /\ pc = "trigger" => polling
  /\ polling => entry # "never" /\ target \in Known
  /\ pc = "start" => ~polling
  /\ pc = "probe" /\ ~polling => entry # "always"

(* A session is latched by the bootloader of the target only, and an ACK   *)
(* that is still under way was sent by it.                                 *)
SessionInv ==
  /\ target \in session => InBootloader(target)
  /\ late > 0 => target \in session

Start == deadline - Window

(* The target has not heard a trigger: each one so far was lost.           *)
Unreached(c) ==
  /\ mode[target] = "app"
  /\ \/ pc = "trigger" /\ now <= Start + faults * (c * Round)
     \/ /\ pc = "probe"
        /\ \E i, f \in Nat :
             /\ faults = f + 1 /\ i < c
             /\ now + RetriggerInterval = nextTrigger + i * Round
             /\ nextTrigger <= Start + RetriggerInterval + f * (c * Round)

(* It heard one at time h, g faults into the poll, m rounds ago.           *)
Reached(c, b) ==
  \E h, m, g \in Nat :
    /\ now = h + m * Round
    /\ h <= Start + g * (c * Round) /\ g <= faults
    /\ m <= b + (faults - g)
    /\ \/ mode[target] = "bl"
       \/ /\ mode[target] = "booting"
          /\ readyAt[target] <= h + RetriggerInterval
          /\ readyAt[target] <= h + (b * Round + PollInterval)
          /\ nextTrigger >= h + RetriggerInterval
          /\ pc = "trigger" => now >= nextTrigger

Timely(c, b) ==
  /\ ~polling => mode[target] # "booting"
  /\ polling /\ listens /\ pc # "done" => Unreached(c) \/ Reached(c, b)

(* The constants c and b of WindowAssumption.                              *)
Covers(c, b) ==
  /\ c \in Nat \ {0} /\ b \in Nat
  /\ RetriggerInterval <= c * Round
  /\ \A d \in BootTimes : d <= RetriggerInterval /\ d <= b * Round + PollInterval
  /\ (MaxFaults * c + b) * Round < Window

SafeInv == TypeOK /\ LateInv /\ PollInv /\ SessionInv

LEMMA Intervals ==
  /\ PollInterval \in Nat /\ AttemptTimeout \in Nat /\ CommandTimeout \in Nat
  /\ RetriggerInterval \in Nat /\ Window \in Nat /\ MaxFaults \in Nat
  /\ Round \in Nat /\ \A d \in BootTimes : d \in Nat
  BY TimeAssumption DEF Round

(* What a timed-out attempt does to the clock and to the call.             *)
LEMMA TimedOutTypes ==
  ASSUME TypeOK, TimedOut
  PROVE  /\ now' \in Nat /\ now' >= SentAt /\ SentAt \in Nat /\ SentAt >= now
         /\ deadline' \in Nat /\ polling' \in BOOLEAN
         /\ pc' \in {"trigger", "probe", "done"}
         /\ result' \in {result, "timeout", "refused"}
<1> USE Intervals DEF TypeOK
<1>1. SentAt \in Nat /\ SentAt >= now
  BY DEF SentAt
<1>2. now' \in Nat /\ now' >= SentAt
  BY <1>1 DEF TimedOut
<1>3. CASE ~polling /\ entry = "auto"
  <2>1. EnterPoll(now')
    BY <1>3 DEF TimedOut
  <2>2. CASE Payload(target) = None
    BY <1>1, <1>2, <2>1, <2>2 DEF EnterPoll, Return
  <2>3. CASE Payload(target) # None
    <3>1. polling' = TRUE /\ deadline' = now' + Window /\ pc' = "trigger" /\ result' = result
      BY <2>1, <2>3 DEF EnterPoll
    <3>2. deadline' \in Nat
      BY <1>2, <3>1, SumNat, Zenon
    <3> QED
      BY <1>1, <1>2, <3>1, <3>2
  <2> QED
    BY <2>2, <2>3
<1>4. CASE ~polling /\ entry # "auto"
  BY <1>1, <1>2, <1>4 DEF TimedOut, Return
<1>5. CASE polling
  BY <1>1, <1>2, <1>5 DEF TimedOut, Return, AfterTimeout
<1> QED
  BY <1>3, <1>4, <1>5

LEMMA ServeTypes ==
  ASSUME TypeOK, Serve \/ UNCHANGED session
  PROVE  session' \subseteq Nodes /\ session \subseteq session' /\ session' \subseteq session \cup {target}
  BY DEF TypeOK, Serve

(* A boot that is over stays over.                                         *)
LEMMA StaysInBootloader ==
  ASSUME TypeOK, NEW n \in Nodes, mode'[n] = mode[n], readyAt'[n] = readyAt[n],
         now' \in Nat, now' >= now, InBootloader(n)
  PROVE  InBootloader(n)'
  BY DEF TypeOK, InBootloader

LEMMA HearsThenInBootloader ==
  ASSUME TypeOK, Hears(target), UNCHANGED <<mode, readyAt, target>>, now' \in Nat,
         SentAt \in Nat, now' >= SentAt
  PROVE  InBootloader(target)'
  BY DEF TypeOK, InBootloader, Hears

(* What every attempt leaves alone, and what it may add.                   *)
Probe == ProbeAcked \/ ProbeNacked \/ ProbeLateAck \/ ProbeUnanswered \/ ProbeDelayed

LEMMA ProbeFacts ==
  ASSUME SafeInv, Probe
  PROVE  /\ pc = "probe" /\ AttemptUnchanged
         /\ now' \in Nat /\ SentAt \in Nat /\ now' >= SentAt /\ SentAt >= now
         /\ Serve \/ UNCHANGED session
         /\ session' # session => Hears(target)
         /\ late' \in Nat /\ late' <= faults' /\ faults' \in 0 .. MaxFaults /\ faults' >= faults
         /\ late' > 0 => target \in session'
         /\ TimedOut \/ (pc' = "done" /\ UNCHANGED <<polling, deadline>> /\ result' \in {"ok", "mismatch"})
         /\ result' = "ok" => (Ok /\ target \in session') \/ (TimedOut /\ result = "ok")
<1> USE Intervals DEF SafeInv, TypeOK, LateInv, SessionInv
<1>1. SentAt \in Nat /\ SentAt >= now
  BY DEF SentAt
<1>2. CASE ProbeAcked
  BY <1>1, <1>2 DEF ProbeAcked, Attempt, Serve, Ok, Return, NoFault
<1>3. CASE ProbeNacked
  BY <1>1, <1>3 DEF ProbeNacked, Attempt, Return, NoFault
<1>4. CASE ProbeLateAck
  <2>1. PICK k \in 1 .. late : Attempt(k) /\ late' = k - 1
    BY <1>4 DEF ProbeLateAck
  <2>2. target \in session
    BY <2>1
  <2>3. Serve \/ UNCHANGED session
    BY <1>4 DEF ProbeLateAck
  <2>4. target \in session'
    BY <2>2, <2>3 DEF Serve
  <2>5. session' # session => Hears(target)
    BY <1>4 DEF ProbeLateAck
  <2>6. faults' \in 0 .. MaxFaults /\ faults' >= faults
    BY <1>4 DEF ProbeLateAck, Fault, NoFault
  <2> QED
    BY <1>1, <1>4, <2>1, <2>3, <2>4, <2>5, <2>6 DEF ProbeLateAck, Attempt, Ok, Return
<1>5. CASE ProbeUnanswered
  <2>1. PICK k \in 0 .. late : Attempt(k) /\ late' = k
    BY <1>5 DEF ProbeUnanswered
  <2>2. Serve \/ UNCHANGED session
    BY <1>5 DEF ProbeUnanswered
  <2>3. late' > 0 => target \in session'
    BY <2>1, <2>2 DEF Serve
  <2>4. session' # session => Hears(target)
    BY <1>5 DEF ProbeUnanswered
  <2>5. faults' \in 0 .. MaxFaults /\ faults' >= faults
    BY <1>5 DEF ProbeUnanswered, Fault, NoFault
  <2>6. TimedOut /\ AttemptUnchanged
    BY <1>5 DEF ProbeUnanswered
  <2>7. /\ now' \in Nat /\ now' >= SentAt /\ result' \in {result, "timeout", "refused"}
    BY <2>6, TimedOutTypes
  <2> QED
    BY <1>1, <2>1, <2>2, <2>3, <2>4, <2>5, <2>6, <2>7 DEF Attempt
<1>6. CASE ProbeDelayed
  <2>1. PICK k \in 0 .. late : Attempt(k) /\ late' = k + 1
    BY <1>6 DEF ProbeDelayed
  <2>2. Serve /\ target \in session'
    BY <1>6 DEF ProbeDelayed, Serve
  <2>3. Hears(target)
    BY <1>6 DEF ProbeDelayed
  <2>4. faults' \in 0 .. MaxFaults /\ faults' = faults + 1
    BY <1>6 DEF ProbeDelayed, Fault
  <2>5. TimedOut /\ AttemptUnchanged
    BY <1>6 DEF ProbeDelayed
  <2>6. /\ now' \in Nat /\ now' >= SentAt /\ result' \in {result, "timeout", "refused"}
    BY <2>5, TimedOutTypes
  <2> QED
    BY <1>1, <2>1, <2>2, <2>3, <2>4, <2>5, <2>6 DEF Attempt
<1> QED
  BY <1>2, <1>3, <1>4, <1>5, <1>6 DEF Probe

LEMMA SafeInit == Init => SafeInv
<1> SUFFICES ASSUME Init PROVE SafeInv
  OBVIOUS
<1>1. mode \in [Nodes -> {"app", "booting", "bl"}] /\ readyAt \in [Nodes -> Nat]
  BY DEF Init
<1>2. TypeOK
  <2>1. /\ entry \in {"never", "auto", "always"} /\ target \in Nodes /\ pc = "start"
        /\ polling \in BOOLEAN /\ result = None /\ listens \in BOOLEAN /\ compatible \in BOOLEAN
    BY DEF Init
  <2>2. /\ {now, deadline, nextTrigger} \subseteq Nat /\ late \in 0 .. MaxFaults
        /\ faults \in 0 .. MaxFaults /\ session \subseteq Nodes /\ rebooted \subseteq Nodes
    BY Intervals DEF Init
  <2> QED
    BY <1>1, <2>1, <2>2 DEF TypeOK
<1>3. LateInv /\ PollInv /\ SessionInv
  BY DEF Init, LateInv, PollInv, SessionInv
<1> QED
  BY <1>2, <1>3 DEF SafeInv

LEMMA SafeProbe == SafeInv /\ Probe => SafeInv'
<1> SUFFICES ASSUME SafeInv, Probe PROVE SafeInv'
  OBVIOUS
<1>0. TypeOK /\ UNCHANGED <<entry, target, nextTrigger, mode, readyAt, rebooted, listens, compatible>>
  BY ProbeFacts DEF SafeInv, AttemptUnchanged, fixedVars
<1>1. TypeOK'
  <2>1. session' \subseteq Nodes
    BY <1>0, ProbeFacts, ServeTypes
  <2>2. late' \in 0 .. MaxFaults /\ faults' \in 0 .. MaxFaults
    BY ProbeFacts, Intervals
  <2>3. CASE TimedOut
    BY <1>0, <2>1, <2>2, <2>3, ProbeFacts, TimedOutTypes DEF TypeOK
  <2>4. CASE pc' = "done" /\ UNCHANGED <<polling, deadline>> /\ result' \in {"ok", "mismatch"}
    BY <1>0, <2>1, <2>2, <2>4, ProbeFacts DEF TypeOK
  <2> QED
    BY <2>3, <2>4, ProbeFacts
<1>2. LateInv'
  BY ProbeFacts DEF LateInv
<1>3. PollInv'
  <2>1. CASE TimedOut
    BY <1>0, <2>1 DEF SafeInv, PollInv, TimedOut, EnterPoll, Payload, Return, AfterTimeout, TypeOK
  <2>2. CASE pc' = "done" /\ UNCHANGED <<polling, deadline>>
    BY <1>0, <2>2 DEF SafeInv, PollInv
  <2> QED
    BY <2>1, <2>2, ProbeFacts
<1>4. SessionInv'
  <2>1. ASSUME target \in session' PROVE InBootloader(target)'
    <3>1. CASE Hears(target)
      BY <1>0, <3>1, ProbeFacts, HearsThenInBootloader
    <3>2. CASE target \in session
      <4>1. InBootloader(target) /\ target \in Nodes
        BY <3>2 DEF SafeInv, SessionInv, TypeOK
      <4>2. now' \in Nat /\ now' >= now
        BY <1>0, ProbeFacts DEF TypeOK
      <4> QED
        BY <1>0, <4>1, <4>2, StaysInBootloader
    <3> QED
      BY <2>1, <3>1, <3>2, ProbeFacts
  <2> QED
    BY <1>0, <2>1, ProbeFacts DEF SessionInv
<1> QED
  BY <1>1, <1>2, <1>3, <1>4 DEF SafeInv

(* What a trigger does, heard or lost.                                     *)
LEMMA TriggerFacts ==
  ASSUME SafeInv, Trigger
  PROVE  /\ pc = "trigger" /\ pc' = "probe" /\ faults' \in 0 .. MaxFaults
         /\ UNCHANGED <<entry, target, polling, now, deadline, result, listens,
                         compatible, session, late>>
         /\ nextTrigger' = now + RetriggerInterval
         /\ \E hears \in SUBSET Nodes, d \in BootTimes :
              /\ \/ /\ faults' = faults
                    /\ hears = {n \in Nodes : /\ PayloadOf[n] = Payload(target)
                                              /\ listens /\ ~InBootloader(n)}
                 \/ faults' = faults + 1 /\ hears = {}
              /\ mode' = [n \in Nodes |-> IF n \in hears THEN "booting" ELSE mode[n]]
              /\ readyAt' = [n \in Nodes |-> IF n \in hears THEN now + d ELSE readyAt[n]]
              /\ rebooted' = rebooted \cup hears
<1> USE Intervals DEF SafeInv, TypeOK
<1>1. /\ pc = "trigger" /\ UNCHANGED <<entry, target, polling, now, result, listens, compatible, session, late>>
  BY DEF Trigger, fixedVars
<1>2. CASE NoFault /\ TriggerHeard({n \in Nodes : /\ PayloadOf[n] = Payload(target)
                                                  /\ listens /\ ~InBootloader(n)})
  <2> DEFINE H == {n \in Nodes : PayloadOf[n] = Payload(target) /\ listens /\ ~InBootloader(n)}
  <2>1. H \in SUBSET Nodes /\ TriggerHeard(H) /\ faults' = faults
    BY <1>2 DEF NoFault
  <2> HIDE DEF H
  <2>2. /\ pc' = "probe" /\ UNCHANGED deadline /\ nextTrigger' = now + RetriggerInterval
        /\ mode' = [n \in Nodes |-> IF n \in H THEN "booting" ELSE mode[n]]
        /\ rebooted' = rebooted \cup H
    BY <2>1 DEF TriggerHeard
  <2>3. PICK d \in BootTimes : readyAt' = [n \in Nodes |-> IF n \in H THEN now + d ELSE readyAt[n]]
    BY <2>1 DEF TriggerHeard
  <2> QED
    BY <1>1, <2>1, <2>2, <2>3 DEF H
<1>3. CASE Fault /\ TriggerHeard({})
  <2>1. /\ pc' = "probe" /\ UNCHANGED deadline /\ nextTrigger' = now + RetriggerInterval
        /\ mode' = [n \in Nodes |-> IF n \in {} THEN "booting" ELSE mode[n]]
        /\ rebooted' = rebooted \cup {}
    BY <1>3 DEF TriggerHeard
  <2>2. PICK d \in BootTimes : readyAt' = [n \in Nodes |-> IF n \in {} THEN now + d ELSE readyAt[n]]
    BY <1>3 DEF TriggerHeard
  <2>3. faults' = faults + 1 /\ faults' \in 0 .. MaxFaults
    BY <1>3 DEF Fault
  <2> QED
    BY <1>1, <2>1, <2>2, <2>3
<1> QED
  BY <1>2, <1>3 DEF Trigger

(* A trigger only reaches the target, and no board in its bootloader.      *)
LEMMA OnlyTargetHears ==
  ASSUME SafeInv, pc = "trigger", NEW n \in Nodes, PayloadOf[n] = Payload(target)
  PROVE  n = target
<1>1. target \in Known
  BY DEF SafeInv, PollInv
<1> QED
  BY <1>1, PayloadAssumption DEF Payload

LEMMA SafeTrigger == SafeInv /\ Trigger => SafeInv'
<1> SUFFICES ASSUME SafeInv, Trigger PROVE SafeInv'
  OBVIOUS
<1>0. TypeOK
  BY DEF SafeInv
<1>1. PICK hears \in SUBSET Nodes, d \in BootTimes :
        /\ \A n \in hears : ~InBootloader(n)
        /\ mode' = [n \in Nodes |-> IF n \in hears THEN "booting" ELSE mode[n]]
        /\ readyAt' = [n \in Nodes |-> IF n \in hears THEN now + d ELSE readyAt[n]]
        /\ rebooted' = rebooted \cup hears
        /\ faults' \in {faults, faults + 1}
  BY TriggerFacts
<1>2. /\ pc = "trigger" /\ pc' = "probe" /\ faults' \in 0 .. MaxFaults
      /\ UNCHANGED <<entry, target, polling, now, deadline, result, listens,
                      compatible, session, late>>
      /\ nextTrigger' = now + RetriggerInterval
  BY TriggerFacts
<1>3. mode' \in [Nodes -> {"app", "booting", "bl"}] /\ readyAt' \in [Nodes -> Nat]
  BY <1>0, <1>1, Intervals DEF TypeOK
<1>4. TypeOK'
  BY <1>0, <1>1, <1>2, <1>3, Intervals DEF TypeOK
<1>5. LateInv' /\ PollInv'
  BY <1>0, <1>1, <1>2 DEF SafeInv, LateInv, PollInv, TypeOK
<1>6. SessionInv'
  <2>1. ASSUME target \in session PROVE InBootloader(target)'
    <3>1. InBootloader(target) /\ target \in Nodes
      BY <1>0, <2>1 DEF SafeInv, SessionInv, TypeOK
    <3>2. target \notin hears
      BY <1>1, <3>1
    <3>3. mode'[target] = mode[target] /\ readyAt'[target] = readyAt[target]
      BY <1>1, <3>1, <3>2
    <3> QED
      BY <1>2, <3>1, <3>3 DEF InBootloader
  <2> QED
    BY <1>2, <2>1 DEF SafeInv, SessionInv
<1> QED
  BY <1>4, <1>5, <1>6 DEF SafeInv

LEMMA SafeStep == SafeInv /\ [Next]_vars => SafeInv'
<1> SUFFICES ASSUME SafeInv, [Next]_vars PROVE SafeInv'
  OBVIOUS
<1>1. CASE Begin
  <2>1. UNCHANGED <<entry, target, now, nextTrigger, mode, readyAt, session, rebooted, listens, compatible, late, faults>>
    BY <1>1 DEF Begin, nodeVars, fixedVars
  <2>2. /\ pc' \in {"trigger", "probe", "done"} /\ polling' \in BOOLEAN
        /\ deadline' \in Nat /\ result' \in {result, "refused"}
        /\ PollInv'
    <3>1. CASE entry = "always" /\ Payload(target) = None
      BY <1>1, <2>1, <3>1, Intervals DEF Begin, EnterPoll, Return, SafeInv, TypeOK, PollInv
    <3>2. CASE entry = "always" /\ Payload(target) # None
      BY <1>1, <2>1, <3>2, Intervals DEF Begin, EnterPoll, SafeInv, TypeOK, PollInv, Payload
    <3>3. CASE entry # "always"
      BY <1>1, <2>1, <3>3, Intervals DEF Begin, SafeInv, TypeOK, PollInv
    <3> QED
      BY <3>1, <3>2, <3>3
  <2>3. TypeOK'
    BY <2>1, <2>2 DEF SafeInv, TypeOK
  <2>4. LateInv' /\ SessionInv'
    BY <2>1 DEF SafeInv, LateInv, SessionInv, InBootloader
  <2> QED
    BY <2>2, <2>3, <2>4 DEF SafeInv
<1>2. CASE TriggerFails
  BY <1>2, Intervals DEF TriggerFails, Return, Fault, nodeVars, fixedVars, SafeInv, TypeOK, LateInv,
     PollInv, SessionInv, InBootloader
<1>3. CASE UNCHANGED vars
  BY <1>3 DEF vars, hostVars, nodeVars, fixedVars, SafeInv, TypeOK, LateInv, PollInv,
     SessionInv, InBootloader
<1> QED
  BY <1>1, <1>2, <1>3, SafeProbe, SafeTrigger DEF Next, Host, Stopped, Probe

LEMMA SafeAlways == Spec => []SafeInv
  BY SafeInit, SafeStep, PTL DEF Spec

(* Every variable keeps its type.                                          *)
THEOREM BootTypeCorrect == Spec => []TypeOK
<1>1. SafeInv => TypeOK
  BY DEF SafeInv
<1> QED
  BY SafeAlways, <1>1, PTL

(* On the shared bus only the target is reset, and only when its payload   *)
(* is in the table and the policy allows it (app_control.rs:53-62).        *)
THEOREM TargetAloneReboots == Spec => []OnlyTargetReboots
<1>1. Init => OnlyTargetReboots
  BY DEF Init, OnlyTargetReboots
<1>2. SafeInv /\ OnlyTargetReboots /\ [Next]_vars => OnlyTargetReboots'
  <2> SUFFICES ASSUME SafeInv, OnlyTargetReboots, [Next]_vars PROVE OnlyTargetReboots'
    OBVIOUS
  <2>1. CASE Trigger
    <3>1. PICK hears \in SUBSET Nodes :
            /\ rebooted' = rebooted \cup hears
            /\ \A n \in hears : PayloadOf[n] = Payload(target)
      BY <2>1, TriggerFacts
    <3>2. pc = "trigger" /\ UNCHANGED <<entry, target>>
      BY <2>1, TriggerFacts
    <3>3. \A n \in hears : n = target
      BY <3>1, <3>2, OnlyTargetHears
    <3>4. target \in Known /\ entry # "never"
      BY <3>2 DEF SafeInv, PollInv
    <3> QED
      BY <3>1, <3>2, <3>3, <3>4 DEF OnlyTargetReboots
  <2>2. CASE Probe
    BY <2>2, ProbeFacts DEF OnlyTargetReboots, AttemptUnchanged
  <2>3. CASE Begin \/ TriggerFails \/ UNCHANGED vars
    BY <2>3 DEF Begin, TriggerFails, vars, hostVars, nodeVars, OnlyTargetReboots
  <2> QED
    BY <2>1, <2>2, <2>3 DEF Next, Host, Stopped, Probe
<1> QED
  BY <1>1, <1>2, SafeAlways, PTL DEF Spec

(* A call that returns a version has a session with the target's           *)
(* bootloader, a late ACK included (session/mod.rs:376-412, 888-919).      *)
THEOREM OkIsConnected == Spec => []OkMeansConnected
<1> DEFINE Ok1 == result = "ok" => target \in session
<1>1. Init => Ok1
  BY DEF Init, None
<1>2. SafeInv /\ Ok1 /\ [Next]_vars => Ok1'
  <2> SUFFICES ASSUME SafeInv, Ok1, [Next]_vars PROVE Ok1'
    OBVIOUS
  <2>1. CASE Probe
    <3>1. UNCHANGED target /\ (Serve \/ UNCHANGED session)
      BY <2>1, ProbeFacts DEF AttemptUnchanged
    <3>2. session \subseteq session'
      BY <3>1, ServeTypes DEF SafeInv
    <3> QED
      BY <2>1, <3>1, <3>2, ProbeFacts
  <2>2. CASE Trigger
    BY <2>2, TriggerFacts
  <2>3. CASE Begin
    BY <2>3 DEF Begin, EnterPoll, Return, nodeVars
  <2>4. CASE TriggerFails \/ UNCHANGED vars
    BY <2>4 DEF TriggerFails, Return, vars, hostVars, nodeVars
  <2> QED
    BY <2>1, <2>2, <2>3, <2>4 DEF Next, Host, Stopped, Probe
<1>3. SafeInv /\ Ok1 => OkMeansConnected
  BY DEF SafeInv, SessionInv, OkMeansConnected
<1> QED
  BY <1>1, <1>2, <1>3, SafeAlways, PTL DEF Spec

(* The rounds that MaxFaults faults can cost fit in the window: before the *)
(* target has heard a trigger, and after.                                  *)
LEMMA RoundsUnreached ==
  ASSUME NEW c \in Nat, NEW b \in Nat, NEW r \in Nat, NEW F \in Nat, NEW k \in Nat,
         k <= F
  PROVE  k * (c * r) <= (F * c + b) * r
<1>1. c * r \in Nat /\ F * c \in Nat
  BY TimesNat
<1>2. k * (c * r) <= F * (c * r)
  BY <1>1, TimesMono
<1>3. F * (c * r) = (F * c) * r
  BY TimesAssoc
<1>4. F * c + b \in Nat /\ F * c <= F * c + b
  BY <1>1
<1>5. (F * c) * r <= (F * c + b) * r
  BY <1>1, <1>4, TimesMono
<1>6. k * (c * r) \in Nat /\ F * (c * r) \in Nat /\ (F * c + b) * r \in Nat
  BY <1>1, <1>4, TimesNat
<1> QED
  BY <1>2, <1>3, <1>5, <1>6

LEMMA RoundsReached ==
  ASSUME NEW c \in Nat \ {0}, NEW b \in Nat, NEW r \in Nat, NEW F \in Nat, NEW k \in Nat,
         NEW g \in Nat, NEW m \in Nat, k <= F, g <= k, m <= b + (k - g)
  PROVE  g * (c * r) + m * r <= (F * c + b) * r
<1> DEFINE C == c * r
           e == k - g
<1>1. C \in Nat /\ e \in Nat /\ k = g + e
  BY TimesNat
<1>2. r <= C
  <2>1. 1 * r <= c * r
    BY TimesMono
  <2> QED
    BY <2>1
<1>3. m * r <= (b + e) * r
  <2>1. b + e \in Nat /\ m <= b + e
    BY <1>1
  <2> QED
    BY <2>1, TimesMono
<1>4. (b + e) * r = b * r + e * r
  BY <1>1, TimesPlus
<1>5. e * r <= e * C
  BY <1>1, <1>2
<1>6. k * C = g * C + e * C
  BY <1>1, TimesPlus
<1>7. k * C <= F * C
  BY <1>1, TimesMono
<1>8. (F * c + b) * r = F * C + b * r
  <2>1. F * c \in Nat
    BY TimesNat
  <2>2. (F * c + b) * r = (F * c) * r + b * r
    BY <2>1, TimesPlus
  <2> QED
    BY <2>2, TimesAssoc
<1>9. /\ m * r \in Nat /\ b * r \in Nat /\ e * r \in Nat /\ e * C \in Nat
      /\ k * C \in Nat /\ g * C \in Nat /\ F * C \in Nat
  BY <1>1, TimesNat
<1> HIDE DEF C, e
<1>10. g * C + m * r <= F * C + b * r
  BY <1>3, <1>4, <1>5, <1>6, <1>7, <1>9
<1> QED
  BY <1>8, <1>10 DEF C

(* The arithmetic of one turn, on opaque products.                         *)
LEMMA TurnUnreached ==
  ASSUME NEW t \in Int, NEW r \in Int, NEW q \in Int, NEW n \in Int, NEW s \in Int,
         NEW C \in Int, NEW x \in Int, NEW y \in Int, NEW z \in Int,
         t + q = n + x, n <= s + q + y, x + r <= C, y + C <= z
  PROVE  t + r <= s + z
  OBVIOUS

LEMMA Below ==
  ASSUME NEW t \in Int, NEW s \in Int, NEW z \in Int, NEW B \in Int, NEW w \in Int,
         NEW d \in Int, t <= s + z, z <= B, B < w, d = s + w
  PROVE  t < d
  OBVIOUS

LEMMA Budget ==
  ASSUME NEW c, NEW b, Covers(c, b)
  PROVE  /\ (MaxFaults * c + b) * Round \in Nat
         /\ (MaxFaults * c + b) * Round < Window
<1>1. c \in Nat /\ b \in Nat /\ (MaxFaults * c + b) * Round < Window
  BY DEF Covers
<1>2. MaxFaults \in Nat /\ Round \in Nat
  BY Intervals
<1>3. MaxFaults * c + b \in Nat
  BY <1>1, <1>2, TimesNat, SumNat, Zenon
<1> QED
  BY <1>1, <1>2, <1>3, TimesNat, Zenon

(* A turn of the poll loop that was not answered.                          *)
LEMMA UnansweredUnreached ==
  ASSUME NEW c, NEW b, Covers(c, b), SafeInv, pc = "probe", Unreached(c),
         now' = now + Round, faults' \in {faults, faults + 1}, faults' <= MaxFaults,
         UNCHANGED <<mode, target, nextTrigger, deadline>>
  PROVE  /\ now' < deadline
         /\ pc' = AfterTimeout(now') => Unreached(c)'
<1> DEFINE C == c * Round
           B == (MaxFaults * c + b) * Round
           Z == faults' * C
<1>0. /\ c \in Nat \ {0} /\ b \in Nat /\ C \in Nat /\ RetriggerInterval \in Nat
      /\ RetriggerInterval <= C
      /\ now \in Nat /\ nextTrigger \in Nat /\ deadline \in Nat /\ faults \in Nat
      /\ Start \in Int /\ deadline = Start + Window /\ Start' = Start
      /\ Round \in Nat /\ Window \in Nat /\ MaxFaults \in Nat
  BY Intervals, TimesNat DEF Covers, SafeInv, TypeOK, Start
<1>1. PICK i \in Nat, f \in Nat :
        /\ faults = f + 1 /\ i < c
        /\ now + RetriggerInterval = nextTrigger + i * Round
        /\ nextTrigger <= Start + RetriggerInterval + f * C
  BY DEF Unreached
<1> DEFINE X == i * Round
           Y == f * C
           X1 == (i + 1) * Round
<1>2. X \in Nat /\ i + 1 \in Nat /\ X1 = X + Round /\ X1 <= C /\ X1 \in Nat
  <2>1. i + 1 \in Nat /\ i + 1 <= c /\ c \in Nat
    BY <1>0, <1>1
  <2> QED
    BY <2>1, <1>0, TimesNext, TimesMono, TimesNat
<1>3. Y \in Nat /\ Y + C <= Z /\ Z \in Nat /\ faults' \in Nat
  <2>1. faults' \in Nat /\ faults <= faults' /\ f + 1 <= faults' /\ f + 1 \in Nat
    BY <1>0, <1>1
  <2>2. (f + 1) * C <= Z
    BY <1>0, <2>1, TimesMono, Zenon
  <2>3. (f + 1) * C = Y + C
    BY <1>0, TimesNext, Zenon
  <2>4. Y \in Nat /\ Z \in Nat
    BY <1>0, <2>1, TimesNat, Zenon
  <2> QED
    BY <2>1, <2>2, <2>3, <2>4, Zenon
<1>4. Z <= B /\ B \in Nat /\ B < Window
  <2>1. Z <= B
    BY <1>0, <1>3, RoundsUnreached
  <2> QED
    BY <2>1, Budget
<1>5. now + RetriggerInterval = nextTrigger + X /\ nextTrigger <= Start + RetriggerInterval + Y
  BY <1>1
<1> HIDE DEF C, B, X, Y, Z, X1
<1>6. now + Round <= Start + Z
  <2>1. X + Round <= C
    BY <1>2
  <2>2. /\ now \in Int /\ Round \in Int /\ RetriggerInterval \in Int /\ nextTrigger \in Int
        /\ C \in Int /\ X \in Int /\ Y \in Int /\ Z \in Int
    BY <1>0, <1>2, <1>3
  <2> QED
    BY <1>0, <1>3, <1>5, <2>1, <2>2, TurnUnreached
<1>7. now' < deadline /\ now' \in Nat
  <2>1. now + Round \in Nat
    BY <1>0, SumNat, Zenon
  <2>2. now + Round < deadline
    BY <1>0, <1>3, <1>4, <1>6, <2>1, Below
  <2> QED
    BY <2>1, <2>2
<1>8. mode'[target'] = "app"
  BY DEF Unreached
<1>9. CASE now' >= nextTrigger
  <2>1. now' <= Start' + faults' * (c * Round)
    BY <1>0, <1>6 DEF Z, C
  <2> QED
    BY <1>7, <1>8, <1>9, <2>1 DEF Unreached, AfterTimeout
<1>10. CASE ~(now' >= nextTrigger)
  <2>1. now + Round < nextTrigger
    BY <1>0, <1>7, <1>10
  <2>2. X1 < C
    BY <1>0, <1>2, <1>5, <2>1
  <2>3. i + 1 < c
    BY <1>0, <1>2, <2>2, TimesLess DEF X1, C
  <2>4. now' + RetriggerInterval = nextTrigger + X1
    BY <1>0, <1>2, <1>5
  <2>5. PICK j \in Nat : faults' = j + 1 /\ f <= j
    BY <1>1
  <2>6. Y <= j * C /\ j * C \in Nat
    BY <1>0, <2>5, TimesMono, TimesNat DEF Y
  <2> DEFINE J == j * C
  <2>7. nextTrigger <= Start + RetriggerInterval + J
    <3>1. Y <= J /\ J \in Nat
      BY <2>6
    <3> HIDE DEF J
    <3> QED
      BY <1>0, <1>3, <1>5, <3>1
  <2>8. AfterTimeout(now') = "probe"
    BY <1>10 DEF AfterTimeout
  <2>9. /\ i + 1 \in Nat /\ faults' = j + 1 /\ i + 1 < c
        /\ now' + RetriggerInterval = nextTrigger' + (i + 1) * Round
        /\ nextTrigger' <= Start' + RetriggerInterval + j * (c * Round)
    BY <1>0, <1>2, <2>3, <2>4, <2>5, <2>7 DEF X1, C
  <2> QED
    BY <1>7, <1>8, <2>8, <2>9 DEF Unreached
<1> QED
  BY <1>9, <1>10

LEMMA UnansweredReached ==
  ASSUME NEW c, NEW b, Covers(c, b), SafeInv, polling, Reached(c, b),
         now' = now + Round, faults' <= MaxFaults,
         (faults' = faults /\ ~Hears(target)) \/ faults' = faults + 1,
         UNCHANGED <<mode, readyAt, target, nextTrigger, deadline>>
  PROVE  /\ now' < deadline
         /\ pc' = AfterTimeout(now') => Reached(c, b)'
<1> DEFINE C == c * Round
           B == (MaxFaults * c + b) * Round
<1>0. /\ c \in Nat \ {0} /\ b \in Nat /\ now \in Nat /\ deadline \in Nat /\ faults \in Nat
      /\ faults' \in Nat /\ faults' >= faults /\ target \in Nodes
      /\ Start \in Int /\ deadline = Start + Window /\ Start' = Start
      /\ Round \in Nat /\ Window \in Nat /\ MaxFaults \in Nat /\ PollInterval \in Nat
      /\ readyAt[target] \in Nat
  BY Intervals DEF Covers, SafeInv, TypeOK, Start
<1>1. PICK h \in Nat, m \in Nat, g \in Nat :
        /\ now = h + m * Round
        /\ h <= Start + g * C /\ g <= faults
        /\ m <= b + (faults - g)
        /\ \/ mode[target] = "bl"
           \/ /\ mode[target] = "booting"
              /\ readyAt[target] <= h + RetriggerInterval
              /\ readyAt[target] <= h + (b * Round + PollInterval)
              /\ nextTrigger >= h + RetriggerInterval
  BY DEF Reached
<1> DEFINE X == m * Round
           X1 == (m + 1) * Round
           G == g * C
<1>2. X \in Nat /\ m + 1 \in Nat /\ X1 = X + Round /\ X1 \in Nat
  BY <1>0, TimesNext, TimesNat
<1>3. m + 1 <= b + (faults' - g)
  <2>1. CASE faults' = faults + 1
    BY <1>0, <1>1, <2>1
  <2>2. CASE faults' = faults /\ ~Hears(target)
    <3>1. mode[target] = "booting" /\ readyAt[target] > now + PollInterval
      BY <1>0, <1>1, <2>2 DEF Hears, SentAt
    <3> DEFINE D == b * Round
    <3>2. now = h + X /\ readyAt[target] <= h + (D + PollInterval)
      BY <1>1, <3>1
    <3>3. D \in Nat
      BY <1>0, TimesNat
    <3>4. X < D
      <4> HIDE DEF X, D
      <4> QED
        BY <1>0, <1>2, <3>1, <3>2, <3>3
    <3>5. m < b
      BY <1>0, <3>4, TimesLess
    <3> QED
      BY <1>0, <1>1, <2>2, <3>5
  <2> QED
    BY <2>1, <2>2
<1>4. now' = h + X1
  <2>1. now = h + X
    BY <1>1
  <2> HIDE DEF X, X1
  <2> QED
    BY <1>0, <1>2, <2>1
<1>5. now' < deadline
  <2>1. G + X1 <= B
    <3>1. faults' <= MaxFaults /\ g <= faults' /\ g \in Nat /\ m + 1 \in Nat
      BY <1>0, <1>1, <1>2
    <3> QED
      BY <1>0, <1>3, <3>1, RoundsReached
  <2>2. C \in Nat /\ G \in Nat
    BY <1>0, TimesNat
  <2>3. B \in Nat /\ B < Window
    BY Budget
  <2>4. h <= Start + G
    BY <1>1
  <2> HIDE DEF B, G, X1
  <2> QED
    BY <1>0, <1>2, <1>4, <2>1, <2>2, <2>3, <2>4
<1>6. ASSUME pc' = AfterTimeout(now') PROVE Reached(c, b)'
  <2>1. g <= faults'
    BY <1>0, <1>1
  <2>2. h <= Start' + g * (c * Round) /\ now' = h + (m + 1) * Round
    BY <1>0, <1>1, <1>4
  <2>3. pc' = "trigger" => now' >= nextTrigger'
    BY <1>6 DEF AfterTimeout
  <2>4. \/ mode'[target'] = "bl"
        \/ /\ mode'[target'] = "booting"
           /\ readyAt'[target'] <= h + RetriggerInterval
           /\ readyAt'[target'] <= h + (b * Round + PollInterval)
           /\ nextTrigger' >= h + RetriggerInterval
    BY <1>1
  <2> HIDE DEF X, X1, G, C
  <2> QED
    BY <1>2, <1>3, <2>1, <2>2, <2>3, <2>4 DEF Reached
<1> QED
  BY <1>5, <1>6

(* The poll begins with no fault counted against it.                       *)
LEMMA EnteringTimely ==
  ASSUME NEW c, NEW b, Covers(c, b), SafeInv, now' \in Nat,
         polling', deadline' = now' + Window, pc' = "trigger", mode[target] # "booting", faults' \in Nat,
         UNCHANGED <<mode, readyAt, target>>
  PROVE  Timely(c, b)'
<1>1. /\ polling' /\ deadline' = now' + Window /\ pc' = "trigger" /\ faults' \in Nat
  OBVIOUS
<1>2. c \in Nat /\ b \in Nat /\ Start' = now' /\ Round \in Nat
  <2>1. c \in Nat /\ b \in Nat
    BY DEF Covers
  <2>2. Start' = now'
    <3>1. Window \in Nat
      BY Intervals
    <3>2. (now' + Window) - Window = now'
      BY <3>1, PlusMinus, Zenon
    <3> QED
      BY <1>1, <3>2 DEF Start
  <2> QED
    BY <2>1, <2>2, Intervals
<1>3. mode[target] \in {"app", "bl"}
  BY DEF SafeInv, TypeOK
<1> DEFINE C == c * Round
<1>4. C \in Nat /\ faults' * C \in Nat /\ 0 * C = 0 /\ 0 * Round = 0
  BY <1>2, TimesNat, TimesZero, Zenon
<1>5. CASE mode[target] = "app"
  <2>1. now' <= Start' + faults' * C
    <3> DEFINE Y == faults' * C
    <3>1. Y \in Nat
      BY <1>4
    <3> HIDE DEF Y
    <3>2. now' <= Start' + Y
      BY <1>2, <3>1, PlusSome, Zenon
    <3> QED
      BY <3>2 DEF Y
  <2>2. Unreached(c)'
    BY <1>1, <1>5, <2>1 DEF Unreached
  <2> QED
    BY <1>5, <2>2 DEF Timely
<1>6. CASE mode[target] = "bl"
  <2>1. /\ now' = now' + 0 * Round /\ now' <= Start' + 0 * C /\ 0 <= faults'
        /\ 0 <= b + (faults' - 0) /\ 0 \in Nat
    <3> DEFINE X == 0 * Round
               Y == 0 * C
    <3>1. X = 0 /\ Y = 0
      BY <1>4
    <3> HIDE DEF X, Y, C
    <3>2. now' = now' + X /\ now' <= Start' + Y
      BY <1>2, <3>1, PlusZero
    <3>3. 0 <= faults' /\ 0 <= b + (faults' - 0) /\ 0 \in Nat
      BY <1>1, <1>2, PlusZero
    <3> QED
      BY <3>2, <3>3 DEF X, Y
  <2>2. Reached(c, b)'
    <3>1. mode'[target'] = "bl"
      BY <1>6
    <3>2. pc' = "trigger" => now' >= nextTrigger' \/ mode'[target'] = "bl"
      BY <3>1
    <3> QED
      BY <2>1, <3>1 DEF Reached
  <2> QED
    BY <1>6, <2>2 DEF Timely
<1> QED
  BY <1>3, <1>5, <1>6

(* The target hears the trigger, or another fault is counted.              *)
LEMMA TriggerTimely ==
  ASSUME NEW c, NEW b, Covers(c, b), SafeInv, Timely(c, b), Trigger
  PROVE  Timely(c, b)'
<1>0. /\ pc = "trigger" /\ pc' = "probe" /\ polling /\ target \in Nodes
      /\ UNCHANGED <<target, polling, now, deadline, listens>>
      /\ nextTrigger' = now + RetriggerInterval
      /\ now \in Nat /\ faults \in Nat /\ faults' \in Nat /\ deadline \in Nat
      /\ Start \in Int /\ Start' = Start
      /\ c \in Nat \ {0} /\ b \in Nat /\ RetriggerInterval \in Nat /\ Round \in Nat
      /\ PollInterval \in Nat
  BY TriggerFacts, Intervals DEF SafeInv, TypeOK, PollInv, Start, Covers
<1>1. PICK hears \in SUBSET Nodes, d \in BootTimes :
        /\ \/ /\ faults' = faults
              /\ hears = {n \in Nodes : /\ PayloadOf[n] = Payload(target)
                                        /\ listens /\ ~InBootloader(n)}
           \/ faults' = faults + 1 /\ hears = {}
        /\ mode' = [n \in Nodes |-> IF n \in hears THEN "booting" ELSE mode[n]]
        /\ readyAt' = [n \in Nodes |-> IF n \in hears THEN now + d ELSE readyAt[n]]
  BY TriggerFacts
<1>2. /\ mode'[target] = IF target \in hears THEN "booting" ELSE mode[target]
      /\ readyAt'[target] = IF target \in hears THEN now + d ELSE readyAt[target]
  BY <1>0, <1>1
<1> SUFFICES ASSUME listens PROVE Unreached(c)' \/ Reached(c, b)'
  BY <1>0 DEF Timely
<1>3. Unreached(c) \/ Reached(c, b)
  BY <1>0 DEF Timely
<1> DEFINE C == c * Round
<1>4. C \in Nat /\ faults * C \in Nat /\ 0 * Round = 0
  BY <1>0, TimesNat
<1>5. PayloadOf[target] = Payload(target)
  BY <1>0 DEF SafeInv, PollInv, Payload
<1>6. CASE Unreached(c)
  <2>1. mode[target] = "app" /\ now <= Start + faults * C
    BY <1>0, <1>6 DEF Unreached
  <2>2. CASE faults' = faults + 1 /\ hears = {}
    <3>1. mode'[target'] = "app"
      BY <1>0, <1>2, <2>1, <2>2
    <3>2. now' + RetriggerInterval = nextTrigger' + 0 * Round
      BY <1>0, <1>4
    <3>3. nextTrigger' <= Start' + RetriggerInterval + faults * C
      <4> HIDE DEF C
      <4> DEFINE Y == faults * C
      <4>1. Y \in Nat /\ now <= Start + Y
        BY <1>4, <2>1
      <4> HIDE DEF Y
      <4>2. nextTrigger' <= Start' + RetriggerInterval + Y
        BY <1>0, <4>1
      <4> QED
        BY <4>2 DEF Y
    <3>4. 0 < c /\ 0 \in Nat
      BY <1>0
    <3> QED
      BY <1>0, <2>2, <3>1, <3>2, <3>3, <3>4 DEF Unreached
  <2>3. CASE faults' = faults /\ target \in hears
    <3>1. mode'[target'] = "booting" /\ readyAt'[target'] = now + d
      BY <1>0, <1>2, <2>3
    <3>2. d \in Nat /\ d <= RetriggerInterval /\ d <= b * Round + PollInterval
      BY Intervals DEF Covers
    <3>3. readyAt'[target'] <= now + RetriggerInterval
      BY <1>0, <3>1, <3>2
    <3>4. readyAt'[target'] <= now + (b * Round + PollInterval)
      <4> DEFINE D == b * Round
      <4>1. D \in Nat /\ d <= D + PollInterval
        BY <1>0, <3>2, TimesNat
      <4> HIDE DEF D
      <4>2. readyAt'[target'] <= now + (D + PollInterval)
        BY <1>0, <3>1, <3>2, <4>1
      <4> QED
        BY <4>2 DEF D
    <3>5. now' = now + 0 * Round /\ now <= Start' + faults * C
      BY <1>0, <1>4, <2>1
    <3>6. /\ faults <= faults' /\ 0 <= b + (faults' - faults) /\ 0 \in Nat
          /\ nextTrigger' >= now + RetriggerInterval
      BY <1>0, <2>3
    <3> QED
      BY <1>0, <3>1, <3>3, <3>4, <3>5, <3>6 DEF Reached
  <2>4. ~InBootloader(target)
    BY <2>1 DEF InBootloader
  <2> QED
    BY <1>0, <1>1, <1>5, <2>2, <2>3, <2>4
<1>7. CASE Reached(c, b)
  <2>1. PICK h \in Nat, m \in Nat, g \in Nat :
        /\ now = h + m * Round
        /\ h <= Start + g * C /\ g <= faults
        /\ m <= b + (faults - g)
        /\ \/ mode[target] = "bl"
           \/ /\ mode[target] = "booting"
              /\ readyAt[target] <= h + RetriggerInterval
              /\ readyAt[target] <= h + (b * Round + PollInterval)
              /\ nextTrigger >= h + RetriggerInterval
              /\ pc = "trigger" => now >= nextTrigger
    BY <1>7 DEF Reached
  <2>2. InBootloader(target)
    <3>1. CASE mode[target] = "bl"
      BY <3>1 DEF InBootloader
    <3>2. CASE /\ mode[target] = "booting" /\ now >= nextTrigger
               /\ readyAt[target] <= h + RetriggerInterval
               /\ nextTrigger >= h + RetriggerInterval
      <4>1. readyAt[target] \in Nat /\ nextTrigger \in Nat
        BY <1>0 DEF SafeInv, TypeOK
      <4>2. readyAt[target] <= now
        BY <1>0, <3>2, <4>1
      <4> QED
        BY <3>2, <4>2 DEF InBootloader
    <3> QED
      BY <1>0, <2>1, <3>1, <3>2
  <2>3. target \notin hears
    BY <1>1, <2>2
  <2>4. mode'[target'] = mode[target] /\ readyAt'[target'] = readyAt[target]
    BY <1>0, <1>2, <2>3
  <2>5. faults' >= faults
    BY <1>0, <1>1
  <2>6. g <= faults' /\ m <= b + (faults' - g)
    <3>1. g <= faults /\ m <= b + (faults - g)
      BY <2>1
    <3>2. faults <= faults'
      BY <1>0, <2>5
    <3> QED
      BY <1>0, <3>1, <3>2, LessLess, Zenon
  <2>7. now >= h
    <3>1. m * Round \in Nat
      BY <1>0, TimesNat
    <3> DEFINE X == m * Round
    <3>2. X \in Nat /\ now = h + X
      BY <2>1, <3>1
    <3> HIDE DEF X
    <3> QED
      BY <3>2
  <2>8. nextTrigger' >= h + RetriggerInterval
    BY <1>0, <2>7
  <2>9. now' = h + m * Round /\ h <= Start' + g * (c * Round)
    BY <1>0, <2>1
  <2> QED
    BY <1>0, <2>1, <2>4, <2>6, <2>8, <2>9 DEF Reached
<1> QED
  BY <1>3, <1>6, <1>7

(* An attempt of the poll loop that timed out ends before the window does. *)
LEMMA TimedOutTimely ==
  ASSUME NEW c, NEW b, Covers(c, b), SafeInv, Timely(c, b), Probe, TimedOut, polling, listens,
         (faults' = faults /\ ~Hears(target)) \/ faults' = faults + 1
  PROVE  pc' # "done" /\ Timely(c, b)'
<1>1. /\ pc = "probe" /\ faults' <= MaxFaults
      /\ UNCHANGED <<entry, target, nextTrigger, mode, readyAt, listens>>
  BY ProbeFacts, Intervals DEF AttemptUnchanged, fixedVars
<1>2. UNCHANGED <<polling, deadline>>
  BY DEF TimedOut
<1>3. now' = now + Round
  <2>1. entry # "never"
    BY DEF SafeInv, PollInv
  <2>2. now' = (now + PollInterval) + AttemptTimeout
    BY <2>1 DEF TimedOut, SentAt
  <2> QED
    BY <2>2, Intervals DEF Round, SafeInv, TypeOK
<1>4. Unreached(c) \/ Reached(c, b)
  BY <1>1 DEF Timely
<1>5. /\ now' < deadline
      /\ pc' = AfterTimeout(now') => Unreached(c)' \/ Reached(c, b)'
  BY <1>1, <1>2, <1>3, <1>4, UnansweredUnreached, UnansweredReached
<1>6. pc' = AfterTimeout(now')
  <2>1. now \in Nat /\ now' \in Nat /\ deadline \in Nat
    BY ProbeFacts DEF SafeInv, TypeOK
  <2> QED
    BY <1>5, <2>1 DEF TimedOut
<1>7. pc' # "done"
  BY <1>6 DEF AfterTimeout
<1> QED
  BY <1>2, <1>5, <1>6, <1>7 DEF Timely

LEMMA TimelyInit == ASSUME NEW c, NEW b, Init PROVE Timely(c, b)
<1>1. mode[target] # "booting" /\ ~polling
  BY DEF Init
<1> QED
  BY <1>1 DEF Timely

LEMMA ProbeTimely ==
  ASSUME NEW c, NEW b, Covers(c, b), SafeInv, Timely(c, b), Probe, WindowSuffices
  PROVE  Timely(c, b)' /\ WindowSuffices'
<1>1. /\ pc = "probe" /\ faults' \in Nat /\ now' \in Nat
      /\ UNCHANGED <<entry, target, nextTrigger, mode, readyAt, listens>>
  BY ProbeFacts, Intervals DEF AttemptUnchanged, fixedVars
<1>2. CASE pc' = "done" /\ UNCHANGED <<polling, deadline>> /\ result' \in {"ok", "mismatch"}
  BY <1>1, <1>2 DEF Timely, WindowSuffices
<1>3. CASE TimedOut /\ ~polling
  <2>1. mode[target] # "booting"
    BY <1>3 DEF Timely
  <2>2. CASE entry = "auto"
    <3>1. EnterPoll(now')
      BY <1>3, <2>2 DEF TimedOut
    <3>2. CASE pc' = "done"
      BY <1>1, <2>1, <3>1, <3>2 DEF EnterPoll, Return, Timely, WindowSuffices
    <3>3. CASE pc' # "done"
      <4>1. Timely(c, b)'
        BY <1>1, <2>1, <3>1, <3>3, EnteringTimely DEF EnterPoll, Return
      <4>2. result' = result
        BY <3>1, <3>3 DEF EnterPoll, Return
      <4> QED
        BY <1>1, <4>1, <4>2 DEF WindowSuffices
    <3> QED
      BY <3>2, <3>3
  <2>3. CASE entry # "auto"
    <3>1. entry = "never"
      BY <1>1, <1>3, <2>3 DEF SafeInv, PollInv, TypeOK
    <3>2. pc' = "done" /\ UNCHANGED polling
      BY <1>3, <2>3 DEF TimedOut, Return
    <3> QED
      BY <1>1, <1>3, <2>1, <3>1, <3>2 DEF Timely, WindowSuffices
  <2> QED
    BY <2>2, <2>3
<1>4. CASE TimedOut /\ polling /\ ~listens
  BY <1>1, <1>4 DEF TimedOut, Timely, WindowSuffices
<1>5. CASE TimedOut /\ polling /\ listens
  <2>1. (faults' = faults /\ ~Hears(target)) \/ faults' = faults + 1
    <3>1. CASE ProbeUnanswered
      BY <3>1 DEF ProbeUnanswered, Fault, NoFault
    <3>2. CASE ProbeDelayed
      BY <3>2 DEF ProbeDelayed, Fault
    <3>3. CASE ProbeAcked \/ ProbeNacked \/ ProbeLateAck
      <4>1. pc' = "done" /\ result' \in {"ok", "mismatch"}
        BY <3>3 DEF ProbeAcked, ProbeNacked, ProbeLateAck, Ok, Return
      <4> QED
        BY <1>5, <4>1 DEF TimedOut, Return, AfterTimeout
    <3> QED
      BY <3>1, <3>2, <3>3 DEF Probe
  <2>2. pc' # "done" /\ Timely(c, b)'
    BY <1>5, <2>1, TimedOutTimely
  <2>3. result' = result
    BY <1>5, <2>2 DEF TimedOut, Return
  <2> QED
    BY <1>1, <2>2, <2>3 DEF WindowSuffices
<1> QED
  BY <1>2, <1>3, <1>4, <1>5, ProbeFacts

LEMMA TimelyStep ==
  ASSUME NEW c, NEW b, Covers(c, b), SafeInv, Timely(c, b), WindowSuffices, [Next]_vars
  PROVE  Timely(c, b)' /\ WindowSuffices'
<1>1. CASE Begin
  <2>1. /\ pc = "start" /\ ~polling
        /\ UNCHANGED <<entry, target, now, mode, readyAt, listens, faults>>
    BY <1>1 DEF Begin, nodeVars, fixedVars, SafeInv, PollInv
  <2>2. mode[target] # "booting" /\ now \in Nat /\ faults \in Nat
    BY <2>1 DEF Timely, SafeInv, TypeOK
  <2>3. CASE entry = "always" /\ pc' # "done"
    <3>1. EnterPoll(now)
      BY <1>1, <2>3 DEF Begin
    <3>2. EnterPoll(now')
      BY <2>1, <3>1
    <3>3. Timely(c, b)'
      BY <2>1, <2>2, <2>3, <3>2, EnteringTimely DEF EnterPoll, Return
    <3>4. result' = result
      BY <2>3, <3>1 DEF EnterPoll, Return
    <3> QED
      BY <2>1, <3>3, <3>4 DEF WindowSuffices
  <2>4. CASE entry = "always" /\ pc' = "done"
    BY <1>1, <2>1, <2>2, <2>4 DEF Begin, EnterPoll, Return, Timely, WindowSuffices
  <2>5. CASE entry # "always"
    BY <1>1, <2>1, <2>2, <2>5 DEF Begin, Timely, WindowSuffices
  <2> QED
    BY <2>3, <2>4, <2>5
<1>2. CASE Trigger
  <2>1. Timely(c, b)'
    BY <1>2, TriggerTimely
  <2> QED
    BY <1>2, <2>1, TriggerFacts DEF WindowSuffices
<1>3. CASE TriggerFails
  BY <1>3 DEF TriggerFails, Return, nodeVars, fixedVars, Timely, WindowSuffices
<1>4. CASE Probe
  BY <1>4, ProbeTimely
<1>5. CASE UNCHANGED vars
  <2>1. UNCHANGED <<entry, target, pc, polling, now, deadline, nextTrigger, result, mode, readyAt,
                    listens, faults>>
    BY <1>5 DEF vars, hostVars, nodeVars, fixedVars
  <2>2. WindowSuffices'
    BY <2>1 DEF WindowSuffices
  <2>3. Unreached(c)' = Unreached(c) /\ Reached(c, b)' = Reached(c, b)
    BY <2>1 DEF Unreached, Reached, Start
  <2> QED
    BY <2>1, <2>2, <2>3 DEF Timely
<1> QED
  BY <1>1, <1>2, <1>3, <1>4, <1>5 DEF Next, Host, Stopped, Probe

(* The window and the spacing of the triggers are enough: a board whose    *)
(* application implements the trigger is reached although MaxFaults frames *)
(* are lost or late, and no trigger restarts its reset                     *)
(* (session/mod.rs:253-271, 914-944).                                      *)
THEOREM WindowIsEnough == Spec => []WindowSuffices
<1>1. PICK c \in 1 .. Window, b \in 0 .. Window :
         /\ RetriggerInterval <= c * Round
         /\ \A d \in BootTimes : d <= RetriggerInterval /\ d <= b * Round + PollInterval
         /\ (MaxFaults * c + b) * Round < Window
  BY WindowAssumption
<1>2. Covers(c, b)
  BY <1>1, Intervals DEF Covers
<1> DEFINE Inv == Timely(c, b) /\ WindowSuffices
<1>3. Init => Inv
  BY TimelyInit DEF Init, WindowSuffices, None
<1>4. SafeInv /\ Inv /\ [Next]_vars => Inv'
  BY <1>2, TimelyStep
<1>5. Inv => WindowSuffices
  OBVIOUS
<1> HIDE DEF Inv
<1> QED
  BY <1>3, <1>4, <1>5, SafeAlways, PTL DEF Spec
=============================================================================
