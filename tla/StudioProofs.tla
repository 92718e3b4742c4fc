---------------------------- MODULE StudioProofs ----------------------------
(***************************************************************************)
(* Proofs about StudioLogs, for any views, cards, files and copies, and    *)
(* any number of swaps, deletions, failures and crashes.                   *)
(***************************************************************************)
EXTENDS StudioLogs, FiniteSetTheorems, WellFoundedInduction, TLAPS

-----------------------------------------------------------------------------
(* The smallest of a set of numbers.                                       *)

LEMMA MinIsLeast ==
  ASSUME NEW S \in SUBSET Nat, S # {}
  PROVE  Min(S) \in S /\ \A y \in S : Min(S) <= y
<1>1. \E x \in S : \A y \in S : ~ (<<y, x>> \in OpToRel(<, Nat))
  BY NatLessThanWellFounded, WFMin
<1>2. PICK x \in S : \A y \in S : ~ (<<y, x>> \in OpToRel(<, Nat))
  BY <1>1
<1>3. \A y \in S : ~(y < x)
  BY <1>2 DEF OpToRel
<1>4. \A y \in S : x <= y
  BY <1>3
<1> QED
  BY <1>4 DEF Min

-----------------------------------------------------------------------------
(* Types, of the command a view waits for too; a view that pulls shows the *)
(* listing it pulls from.                                                  *)

Ledgers == [Keys -> [pulled : SUBSET [crc : Cards, path : Paths], hidden : BOOLEAN]]

Asked == [op : {"scan"}, step : {"invoked"}]
Listing == [op : {"scan"}, step : {"list"}, ledger : Ledgers]
Checking == [op : {"scan"}, step : {"check"}, ledger : Ledgers, card : Cards,
             todo : SUBSET Files, changed : BOOLEAN, certain : BOOLEAN]
Finding == [op : {"pull"}, step : {"invoked", "relist", "open"}, file : Files, key : Keys]
Reading == [op : {"pull"}, step : {"read", "path"}, file : Files, key : Keys, src : Cards]
Writing == [op : {"pull"}, step : {"write", "record"}, file : Files, key : Keys, src : Cards, path : Paths]

Commands == {Idle} \cup Asked \cup Listing \cup Checking \cup Finding \cup Reading \cup Writing

Listings == [card : Cards, certain : BOOLEAN, fresh : BOOLEAN, here : SUBSET Files, since : SUBSET Files,
             status : [Files -> {"new", "downloaded", "missing", "hidden"}]]

TypeInv ==
    /\ card \in Cards
    /\ copies \in [Paths -> Cards \cup {None}]
    /\ ledger \in Ledgers
    /\ busy \in BOOLEAN /\ cancel \in BOOLEAN
    /\ cmd \in [Views -> Commands]
    /\ queue \in [Views -> SUBSET Files]
    /\ scan \in [Views -> Listings \cup {NoScan}]
    /\ landed \subseteq Paths \X Cards
    /\ events \in 0 .. MaxEvents
    /\ \A v \in Views : cmd[v].op = "pull" => scan[v] # NoScan

(* A command at a step has the fields of that step.                        *)
LEMMA FieldsOf ==
  ASSUME NEW m \in Commands
  PROVE  /\ m.step \in {None, "invoked", "list", "check", "relist", "open", "read", "path", "write", "record"}
         /\ m.step = "list" => m \in Listing
         /\ m.step = "check" => m \in Checking
         /\ m.step \in {"relist", "open"} => m \in Finding
         /\ m.step \in {"read", "path"} => m \in Reading
         /\ m.step \in {"write", "record"} => m \in Writing
         /\ m.step = "invoked" => m \in Asked \cup Finding
         /\ m.step = None => m = Idle
         /\ m.op = "pull" => m \in Finding \cup Reading \cup Writing
BY DEF Commands, Idle, None, Asked, Listing, Checking, Finding, Reading, Writing

LEMMA KeyIsKey ==
  ASSUME NEW f \in Files, NEW c \in Cards
  PROVE  KeyOf(f, c) \in Keys
BY DEF KeyOf, Keys

(* The command of one view changes.                                        *)
LEMMA CmdSet ==
  ASSUME cmd \in [Views -> Commands], NEW v \in Views, NEW m \in Commands, cmd' = [cmd EXCEPT ![v] = m]
  PROVE  cmd' \in [Views -> Commands] /\ cmd'[v] = m /\ \A w \in Views \ {v} : cmd'[w] = cmd[w]
OBVIOUS

(* A listing is a record with a card.                                      *)
LEMMA ScanOf ==
  ASSUME TypeInv, NEW v \in Views, scan[v] # NoScan
  PROVE  scan[v] \in Listings /\ scan[v].card \in Cards
BY DEF TypeInv, Listings

LEMMA EmptyLedgerTyped == EmptyLedger \in Ledgers
BY DEF EmptyLedger, Ledgers

(* The command of view v becomes m.                                        *)
Moved(v, m) ==
    /\ m \in Commands
    /\ cmd' \in [Views -> Commands] /\ cmd'[v] = m
    /\ \A w \in Views \ {v} : cmd'[w] = cmd[w]

LEMMA MovedBy ==
  ASSUME TypeInv, NEW v \in Views, NEW m \in Commands, cmd' = [cmd EXCEPT ![v] = m]
  PROVE  Moved(v, m)
BY CmdSet DEF TypeInv, Moved

(* A step that changes nothing but how far the command is.                 *)
LEMMA GotoOf ==
  ASSUME TypeInv, NEW v \in Views, NEW step, Goto(v, step), [cmd[v] EXCEPT !.step = step] \in Commands
  PROVE  Moved(v, [cmd[v] EXCEPT !.step = step])
<1> DEFINE m == [cmd[v] EXCEPT !.step = step]
<1>1. cmd' = [cmd EXCEPT ![v] = m]
  BY DEF Goto
<1> QED
  BY <1>1, MovedBy

LEMMA IdleIsCommand == Idle \in Commands
BY DEF Commands

LEMMA AskedIsCommand == [op |-> "scan", step |-> "invoked"] \in Asked /\ Asked \subseteq Commands
BY DEF Asked, Commands

LEMMA PullIsCommand ==
  ASSUME NEW f \in Files, NEW k \in Keys
  PROVE  PullCmd(f, k) \in Finding /\ PullCmd(f, k) \in Commands /\ PullCmd(f, k).step = "invoked"
BY DEF PullCmd, Finding, Commands

(* What the steps of a view do to its command.                             *)
LEMMA ListMoves ==
  ASSUME TypeInv, NEW v \in Views, List(v)
  PROVE  /\ cmd[v] = Idle /\ Moved(v, [op |-> "scan", step |-> "invoked"])
         /\ UNCHANGED <<card, copies, ledger, landed, busy, cancel, queue, scan, events>>
BY AskedIsCommand, MovedBy DEF List, diskVars, viewVars

LEMMA EventTyped ==
  ASSUME TypeInv, Event
  PROVE  events' \in 0 .. MaxEvents
BY CardAssumption DEF TypeInv, Event

LEMMA DownloadMoves ==
  ASSUME TypeInv, NEW v \in Views, Download(v)
  PROVE  /\ cmd[v] = Idle /\ \E m \in Finding : Moved(v, m) /\ m.step = "invoked"
         /\ queue' \in [Views -> SUBSET Files] /\ events' \in 0 .. MaxEvents
         /\ UNCHANGED <<card, copies, ledger, landed, busy, cancel, scan>>
<1>1. PICK S \in SUBSET Files : \E f \in S :
         /\ cmd' = [cmd EXCEPT ![v] = PullCmd(f, KeyOf(f, scan[v].card))]
         /\ queue' = [queue EXCEPT ![v] = S \ {f}]
  BY DEF Download
<1> PICK f \in S :
         /\ cmd' = [cmd EXCEPT ![v] = PullCmd(f, KeyOf(f, scan[v].card))]
         /\ queue' = [queue EXCEPT ![v] = S \ {f}]
  BY <1>1
<1>2. scan[v].card \in Cards
  BY ScanOf DEF Download
<1>3. KeyOf(f, scan[v].card) \in Keys
  BY <1>2, KeyIsKey
<1>4. queue' \in [Views -> SUBSET Files]
  BY <1>1 DEF TypeInv
<1>5. events' \in 0 .. MaxEvents
  BY EventTyped DEF Download
<1>6. /\ cmd[v] = Idle /\ UNCHANGED <<card, copies, ledger, landed, busy, cancel, scan>>
  BY DEF Download, diskVars
<1> QED
  BY <1>1, <1>3, <1>4, <1>5, <1>6, PullIsCommand, MovedBy

LEMMA FailedMoves ==
  ASSUME TypeInv, NEW v \in Views, Failed(v)
  PROVE  Moved(v, Idle) /\ busy' = FALSE /\ queue' \in [Views -> SUBSET Files]
BY IdleIsCommand, MovedBy DEF Failed, TypeInv

LEMMA RefusedMoves ==
  ASSUME TypeInv, NEW v \in Views, Refused(v)
  PROVE  /\ cmd[v].step = "invoked" /\ Moved(v, Idle)
         /\ queue' \in [Views -> SUBSET Files] /\ scan' \in [Views -> Listings \cup {NoScan}]
         /\ \A w \in Views \ {v} : scan'[w] = scan[w]
         /\ scan'[v] \in {scan[v], NoScan}
         /\ UNCHANGED <<card, copies, ledger, landed, busy, cancel, events>>
<1>1. cmd[v].step = "invoked" /\ Moved(v, Idle)
  BY IdleIsCommand, MovedBy DEF Refused, At
<1>2. queue' \in [Views -> SUBSET Files]
  BY DEF Refused, TypeInv
<1>3. /\ scan' \in [Views -> Listings \cup {NoScan}] /\ scan'[v] \in {scan[v], NoScan}
      /\ \A w \in Views \ {v} : scan'[w] = scan[w]
  BY DEF Refused, TypeInv
<1> QED
  BY <1>1, <1>2, <1>3 DEF Refused, diskVars

LEMMA ErrorMoves ==
  ASSUME TypeInv, NEW v \in Views, Error(v)
  PROVE  /\ cmd[v].step \notin {None, "invoked"} /\ Moved(v, Idle) /\ busy' = FALSE
         /\ queue' \in [Views -> SUBSET Files] /\ scan' \in [Views -> Listings \cup {NoScan}]
         /\ \A w \in Views \ {v} : scan'[w] = scan[w]
         /\ scan'[v] \in {scan[v], NoScan}
         /\ events' \in 0 .. MaxEvents
         /\ UNCHANGED <<card, copies, ledger, landed, cancel>>
<1>1. cmd[v].step \notin {None, "invoked"}
  BY DEF Error, None
<1>2. /\ scan' \in [Views -> Listings \cup {NoScan}] /\ scan'[v] \in {scan[v], NoScan}
      /\ \A w \in Views \ {v} : scan'[w] = scan[w]
  BY DEF Error, TypeInv
<1> QED
  BY <1>1, <1>2, FailedMoves, EventTyped DEF Error, diskVars

LEMMA BeginScanMoves ==
  ASSUME TypeInv, NEW v \in Views, BeginScan(v)
  PROVE  /\ cmd[v].step = "invoked" /\ ~busy /\ busy' = TRUE
         /\ \E m \in Listing : Moved(v, m)
         /\ events' \in 0 .. MaxEvents
         /\ UNCHANGED <<card, copies, ledger, landed, cancel, queue, scan>>
<1>1. \A l \in Ledgers : [op |-> "scan", step |-> "list", ledger |-> l] \in Listing
  BY DEF Listing
<1>2. \E m \in Listing : cmd' = [cmd EXCEPT ![v] = m]
  BY <1>1, EmptyLedgerTyped DEF BeginScan, TypeInv
<1>3. Listing \subseteq Commands
  BY DEF Commands
<1>4. events' \in 0 .. MaxEvents
  BY EventTyped DEF BeginScan, TypeInv
<1> QED
  BY <1>2, <1>3, <1>4, MovedBy DEF BeginScan, At, Acquire, diskVars, viewVars

LEMMA ListCardMoves ==
  ASSUME TypeInv, NEW v \in Views, ListCard(v)
  PROVE  LET known == {f \in Files : cmd[v].ledger[KeyOf(f, card)].pulled # {}}
             m == [op |-> "scan", step |-> "check", ledger |-> cmd[v].ledger, card |-> card,
                   todo |-> Picks(known), changed |-> FALSE, certain |-> TRUE]
         IN  /\ cmd[v].step = "list" /\ m \in Checking /\ Moved(v, m)
             /\ UNCHANGED <<card, copies, ledger, landed, busy, cancel, queue, scan, events>>
<1> DEFINE known == {f \in Files : cmd[v].ledger[KeyOf(f, card)].pulled # {}}
           m == [op |-> "scan", step |-> "check", ledger |-> cmd[v].ledger, card |-> card,
                 todo |-> Picks(known), changed |-> FALSE, certain |-> TRUE]
<1>1. cmd[v].step = "list" /\ cmd[v] \in Commands /\ cmd[v] \in Listing
  BY FieldsOf DEF ListCard, At, TypeInv
<1>2. Picks(known) \subseteq known /\ known \subseteq Files
  BY DEF Picks
<1>3. m \in Checking
  <2>1. cmd[v].ledger \in Ledgers /\ card \in Cards
    BY <1>1 DEF Listing, TypeInv
  <2> HIDE DEF known
  <2> QED
    BY <1>2, <2>1 DEF Checking
<1>4. cmd' = [cmd EXCEPT ![v] = m]
  BY DEF ListCard
<1>5. UNCHANGED <<card, copies, ledger, landed, busy, cancel, queue, scan, events>>
  BY DEF ListCard, diskVars, viewVars
<1> HIDE DEF m
<1>6. Moved(v, m)
  BY <1>3, <1>4, MovedBy DEF Commands
<1> QED
  BY <1>1, <1>3, <1>5, <1>6 DEF m

LEMMA SpotCheckMoves ==
  ASSUME TypeInv, NEW v \in Views, SpotCheck(v)
  PROVE  /\ cmd[v] \in Checking /\ cmd[v].todo # {} /\ Min(cmd[v].todo) \in cmd[v].todo
         /\ LET f == Min(cmd[v].todo)
                ok == Vouched(cmd[v].ledger[KeyOf(f, cmd[v].card)].pulled, card)
            IN \E m \in Checking :
                  /\ Moved(v, m) /\ m.ledger = cmd[v].ledger /\ m.card = cmd[v].card
                  /\ m.todo = IF ok THEN cmd[v].todo \ {f} ELSE {}
                  /\ m.changed = ~ok
                  /\ m.certain = (cmd[v].certain /\ card = cmd[v].card)
         /\ UNCHANGED <<card, copies, ledger, landed, busy, cancel, queue, scan, events>>
<1> DEFINE f == Min(cmd[v].todo)
           ok == Vouched(cmd[v].ledger[KeyOf(f, cmd[v].card)].pulled, card)
           m == [op |-> "scan", step |-> "check", ledger |-> cmd[v].ledger, card |-> cmd[v].card,
                 todo |-> IF ok THEN cmd[v].todo \ {f} ELSE {}, changed |-> ~ok,
                 certain |-> (cmd[v].certain /\ card = cmd[v].card)]
<1>1. cmd[v] \in Checking
  BY FieldsOf DEF SpotCheck, At, TypeInv
<1>2. cmd[v].todo # {} /\ cmd[v].todo \subseteq Files
  BY <1>1 DEF SpotCheck, Checking
<1>3. Min(cmd[v].todo) \in cmd[v].todo
  BY <1>2, CardAssumption, MinIsLeast
<1> HIDE DEF f
<1>4. ok \in BOOLEAN
  BY DEF Vouched
<1>5. cmd' = [cmd EXCEPT ![v] = m]
  <2>1. cmd' = [cmd EXCEPT ![v].todo = IF ok THEN @ \ {f} ELSE {},
                           ![v].changed = ~ok,
                           ![v].certain = @ /\ card = cmd[v].card]
    BY DEF SpotCheck, f
  <2> HIDE DEF ok
  <2>2. \A w \in Views \ {v} : cmd'[w] = cmd[w]
    BY <2>1 DEF TypeInv
  <2>3. cmd'[v] = [cmd[v] EXCEPT !.todo = IF ok THEN @ \ {f} ELSE {}, !.changed = ~ok,
                                 !.certain = @ /\ card = cmd[v].card]
    BY <2>1 DEF TypeInv
  <2>4. cmd'[v] = m
    BY <1>1, <2>3 DEF Checking
  <2>5. cmd' = [w \in Views |-> cmd'[w]]
    BY <2>1 DEF TypeInv
  <2> HIDE DEF m
  <2>6. cmd = [w \in Views |-> cmd[w]]
    BY DEF TypeInv
  <2> QED
    BY <2>2, <2>4, <2>5, <2>6
<1>6. m \in Checking
  <2> HIDE DEF ok
  <2> QED
    BY <1>1, <1>2, <1>4 DEF Checking
<1>7. /\ m.ledger = cmd[v].ledger /\ m.card = cmd[v].card
      /\ m.todo = IF ok THEN cmd[v].todo \ {f} ELSE {}
      /\ m.changed = ~ok
      /\ m.certain = (cmd[v].certain /\ card = cmd[v].card)
  OBVIOUS
<1>8. UNCHANGED <<card, copies, ledger, landed, busy, cancel, queue, scan, events>>
  BY DEF SpotCheck, diskVars, viewVars
<1> HIDE DEF m
<1>9. Moved(v, m)
  BY <1>5, <1>6, MovedBy DEF Commands
<1> QED
  BY <1>1, <1>2, <1>3, <1>6, <1>7, <1>8, <1>9 DEF f

LEMMA SpotCheckFailsMoves ==
  ASSUME TypeInv, NEW v \in Views, SpotCheckFails(v)
  PROVE  /\ cmd[v] \in Checking
         /\ \E m \in Checking : Moved(v, m) /\ m.certain = FALSE
         /\ events' \in 0 .. MaxEvents
         /\ UNCHANGED <<card, copies, ledger, landed, busy, cancel, queue, scan>>
<1>1. cmd[v] \in Checking
  BY FieldsOf DEF SpotCheckFails, At, TypeInv
<1>2. PICK rest \in {{}, cmd[v].todo \ {Min(cmd[v].todo)}} :
         cmd' = [cmd EXCEPT ![v].todo = rest, ![v].certain = FALSE]
  BY DEF SpotCheckFails
<1>3. rest \subseteq Files
  BY <1>1, <1>2 DEF Checking
<1> DEFINE m == [cmd[v] EXCEPT !.todo = rest, !.certain = FALSE]
<1>4. m \in Checking /\ m.certain = FALSE
  BY <1>1, <1>3 DEF Checking
<1>5. cmd'[v] = m /\ \A w \in Views \ {v} : cmd'[w] = cmd[w]
  BY <1>2 DEF TypeInv
<1>6. cmd' = [w \in Views |-> cmd'[w]]
  BY <1>2 DEF TypeInv
<1> HIDE DEF m
<1>7. cmd' \in [Views -> Commands]
  <2>1. \A w \in Views : cmd'[w] \in Commands
    BY <1>4, <1>5 DEF TypeInv, Commands
  <2> QED
    BY <1>6, <2>1
<1>8. events' \in 0 .. MaxEvents
  BY EventTyped DEF SpotCheckFails
<1> QED
  BY <1>1, <1>4, <1>5, <1>7, <1>8 DEF SpotCheckFails, Moved, Commands, diskVars, viewVars

(* What a listing shows.                                                   *)
LEMMA ClassifyMoves ==
  ASSUME TypeInv, NEW v \in Views, Classify(v)
  PROVE  LET c == cmd[v].card
             known == IF cmd[v].changed THEN EmptyLedger ELSE cmd[v].ledger
         IN  /\ cmd[v] \in Checking /\ cmd[v].todo = {} /\ Moved(v, Idle) /\ busy' = FALSE
             /\ \E l \in Listings :
                   /\ scan' = [scan EXCEPT ![v] = l]
                   /\ l.card = c /\ l.certain = cmd[v].certain /\ l.since = {}
                   /\ l.fresh = \A k \in Keys : \A r \in cmd[v].ledger[k].pulled : r.crc # c
                   /\ \A f \in Files : l.status[f] = Status(known[KeyOf(f, c)], KeyOf(f, c))
             /\ UNCHANGED <<card, copies, ledger, landed, cancel, queue, events>>
<1> DEFINE c == cmd[v].card
           known == IF cmd[v].changed THEN EmptyLedger ELSE cmd[v].ledger
           fresh == \A k \in Keys : \A r \in cmd[v].ledger[k].pulled : r.crc # c
           here == {f \in Files : \E n \in 1..MaxCopies : copies[<<f, n>>] = c}
           status == [f \in Files |-> Status(known[KeyOf(f, c)], KeyOf(f, c))]
           l == [card |-> c, certain |-> cmd[v].certain, fresh |-> fresh, here |-> here,
                 since |-> {}, status |-> status]
<1>1. cmd[v] \in Checking
  BY FieldsOf DEF Classify, At, TypeInv
<1>2. cmd[v].todo = {} /\ Moved(v, Idle) /\ busy' = FALSE
  BY IdleIsCommand, MovedBy DEF Classify
<1>3. c \in Cards /\ cmd[v].certain \in BOOLEAN
  BY <1>1 DEF Checking
<1>4. fresh \in BOOLEAN /\ here \in SUBSET Files
  OBVIOUS
<1>5. status \in [Files -> {"new", "downloaded", "missing", "hidden"}]
  <2>1. \A f \in Files : known[KeyOf(f, c)].hidden \in BOOLEAN
    <3>1. known \in Ledgers
      BY <1>1, EmptyLedgerTyped DEF Checking
    <3> HIDE DEF known
    <3> QED
      BY <1>3, <3>1, KeyIsKey DEF Ledgers
  <2>2. ASSUME NEW s, NEW k, s.hidden \in BOOLEAN
        PROVE  Status(s, k) \in {"new", "downloaded", "missing", "hidden"}
    <3> DEFINE p == \E r \in s.pulled : OnDisk(r.path, k[2])
    <3>1. p \in BOOLEAN
      OBVIOUS
    <3>2. Status(s, k) = CASE s.hidden -> "hidden"
                           [] ~s.hidden /\ p -> "downloaded"
                           [] ~s.hidden /\ ~p /\ s.pulled # {} -> "missing"
                           [] ~s.hidden /\ s.pulled = {} -> "new"
      BY DEF Status
    <3> HIDE DEF p
    <3>3. p => s.pulled # {}
      BY DEF p
    <3> QED
      BY <2>2, <3>1, <3>2, <3>3
  <2> HIDE DEF known
  <2> QED
    BY <2>1, <2>2
<1>6. scan' = [scan EXCEPT ![v] = l]
  BY DEF Classify
<1>7. UNCHANGED <<card, copies, ledger, landed, cancel, queue, events>>
  BY DEF Classify, diskVars
<1>8. \A f \in Files : status[f] = Status(known[KeyOf(f, c)], KeyOf(f, c))
  OBVIOUS
<1> HIDE DEF status, fresh, here, known, c
<1>9. l \in Listings
  BY <1>3, <1>4, <1>5 DEF Listings
<1>10. /\ l.card = c /\ l.certain = cmd[v].certain /\ l.since = {} /\ l.fresh = fresh /\ l.status = status
  OBVIOUS
<1> HIDE DEF l
<1>11. \A f \in Files : l.status[f] = Status(known[KeyOf(f, c)], KeyOf(f, c))
  BY <1>8, <1>10
<1> QED
  BY <1>1, <1>2, <1>6, <1>7, <1>9, <1>10, <1>11 DEF c, known, fresh

(* The pull, from the adapter to the record.                               *)
LEMMA BeginPullMoves ==
  ASSUME TypeInv, NEW v \in Views, BeginPull(v)
  PROVE  /\ cmd[v].step = "invoked" /\ ~busy /\ busy' = TRUE
         /\ \E m \in Finding : Moved(v, m) /\ m.step = "relist"
         /\ UNCHANGED <<card, copies, ledger, landed, queue, scan, events>>
<1> DEFINE m == [cmd[v] EXCEPT !.step = "relist"]
<1>1. cmd[v] \in Finding /\ cmd[v].step = "invoked"
  BY FieldsOf DEF BeginPull, At, TypeInv, Asked
<1>2. m \in Finding /\ m.step = "relist" /\ m \in Commands
  BY <1>1 DEF Finding, Commands
<1>3. Moved(v, m)
  BY <1>2, GotoOf DEF BeginPull
<1> QED
  BY <1>1, <1>2, <1>3 DEF BeginPull, Acquire, diskVars, viewVars

LEMMA RelistMoves ==
  ASSUME TypeInv, NEW v \in Views, Relist(v)
  PROVE  /\ cmd[v].step = "relist"
         /\ \E m \in Finding : Moved(v, m) /\ m.step = "open"
         /\ UNCHANGED <<card, copies, ledger, landed, busy, cancel, queue, scan, events>>
<1> DEFINE m == [cmd[v] EXCEPT !.step = "open"]
<1>1. cmd[v] \in Finding /\ cmd[v].step = "relist"
  BY FieldsOf DEF Relist, At, TypeInv
<1>2. m \in Finding /\ m.step = "open" /\ m \in Commands
  BY <1>1 DEF Finding, Commands
<1>3. Moved(v, m)
  BY <1>2, GotoOf DEF Relist
<1> QED
  BY <1>1, <1>2, <1>3 DEF Relist, diskVars, viewVars

LEMMA CardChangedMoves ==
  ASSUME TypeInv, NEW v \in Views, CardChanged(v)
  PROVE  /\ cmd[v].step = "relist" /\ Moved(v, [op |-> "scan", step |-> "invoked"]) /\ busy' = FALSE
         /\ queue' \in [Views -> SUBSET Files]
         /\ UNCHANGED <<card, copies, ledger, landed, cancel, scan, events>>
<1>1. queue' \in [Views -> SUBSET Files]
  BY DEF CardChanged, TypeInv
<1> QED
  BY <1>1, AskedIsCommand, MovedBy DEF CardChanged, At, diskVars

LEMMA OpenMoves ==
  ASSUME TypeInv, NEW v \in Views, Open(v)
  PROVE  /\ cmd[v].step = "open"
         /\ \E m \in Reading : Moved(v, m) /\ m.step = "read"
         /\ UNCHANGED <<card, copies, ledger, landed, busy, cancel, queue, scan, events>>
<1> DEFINE m == [op |-> "pull", step |-> "read", file |-> cmd[v].file, key |-> cmd[v].key, src |-> card]
<1>1. cmd[v] \in Finding /\ cmd[v].step = "open"
  BY FieldsOf DEF Open, At, TypeInv
<1>2. m \in Reading /\ m.step = "read" /\ m \in Commands
  BY <1>1 DEF Finding, Reading, Commands, TypeInv
<1>3. cmd' = [cmd EXCEPT ![v] = m]
  BY DEF Open, TypeInv
<1> HIDE DEF m
<1>4. Moved(v, m)
  BY <1>2, <1>3, MovedBy
<1> QED
  BY <1>1, <1>2, <1>4 DEF Open, diskVars, viewVars

LEMMA ReadMoves ==
  ASSUME TypeInv, NEW v \in Views, Read(v)
  PROVE  /\ cmd[v].step = "read"
         /\ \E m \in Reading : Moved(v, m) /\ m.step = "path"
         /\ UNCHANGED <<card, copies, ledger, landed, busy, cancel, queue, scan, events>>
<1> DEFINE m == [cmd[v] EXCEPT !.step = "path"]
<1>1. cmd[v] \in Reading /\ cmd[v].step = "read"
  BY FieldsOf DEF Read, At, TypeInv
<1>2. m \in Reading /\ m.step = "path" /\ m \in Commands
  BY <1>1 DEF Reading, Commands
<1>3. Moved(v, m)
  BY <1>2, GotoOf DEF Read
<1> QED
  BY <1>1, <1>2, <1>3 DEF Read, diskVars, viewVars

LEMMA ReadFailsMoves ==
  ASSUME TypeInv, NEW v \in Views, ReadFails(v)
  PROVE  /\ cmd[v].step = "read" /\ Moved(v, Idle) /\ busy' = FALSE
         /\ queue' \in [Views -> SUBSET Files]
         /\ UNCHANGED <<card, copies, ledger, landed, cancel, scan, events>>
BY FailedMoves DEF ReadFails, At, diskVars

LEMMA UniquePathMoves ==
  ASSUME TypeInv, NEW v \in Views, UniquePath(v)
  PROVE  /\ cmd[v].step = "path"
         /\ queue' \in [Views -> SUBSET Files]
         /\ \/ /\ UNCHANGED busy
               /\ \E m \in Writing : Moved(v, m) /\ m.step = "write" /\ copies[m.path] = None
            \/ Moved(v, Idle) /\ busy' = FALSE
         /\ UNCHANGED <<card, copies, ledger, landed, cancel, scan, events>>
<1> DEFINE free == {n \in 1..MaxCopies : copies[<<cmd[v].file, n>>] = None}
           p == <<cmd[v].file, Min(free)>>
           m == Saving(cmd[v], p)
<1>1. cmd[v] \in Reading /\ cmd[v].step = "path"
  BY FieldsOf DEF UniquePath, At, TypeInv
<1>2. CASE free = {} /\ Failed(v)
  BY <1>1, <1>2, FailedMoves DEF UniquePath, diskVars
<1>3. CASE free # {} /\ cmd' = [cmd EXCEPT ![v] = m] /\ UNCHANGED <<busy, queue>>
  <2>1. free \in SUBSET Nat
    OBVIOUS
  <2>2. Min(free) \in free
    BY <1>3, <2>1, MinIsLeast
  <2>3. p \in Paths /\ copies[p] = None
    BY <1>1, <2>2 DEF Paths, Reading
  <2> HIDE DEF p
  <2>4. m \in Writing /\ m.step = "write" /\ m.path = p
    BY <1>1, <2>3 DEF Saving, Reading, Writing
  <2>5. m \in Commands
    BY <2>4 DEF Commands
  <2> HIDE DEF m
  <2>6. Moved(v, m)
    BY <1>3, <2>5, MovedBy
  <2>7. queue' \in [Views -> SUBSET Files]
    BY <1>3 DEF TypeInv
  <2> QED
    BY <1>1, <1>3, <2>3, <2>4, <2>6, <2>7 DEF UniquePath, diskVars
<1>4. \/ free # {} /\ cmd' = [cmd EXCEPT ![v] = m] /\ UNCHANGED <<busy, queue>>
      \/ free = {} /\ Failed(v)
  BY DEF UniquePath
<1> QED
  BY <1>2, <1>3, <1>4

LEMMA RenameMoves ==
  ASSUME TypeInv, NEW v \in Views, Rename(v)
  PROVE  /\ cmd[v] \in Writing /\ cmd[v].step = "write"
         /\ \E m \in Writing : Moved(v, m) /\ m.step = "record" /\ m.path = cmd[v].path /\ m.src = cmd[v].src
         /\ copies' = [copies EXCEPT ![cmd[v].path] = cmd[v].src]
         /\ copies' \in [Paths -> Cards \cup {None}]
         /\ landed' = landed \cup {<<cmd[v].path, cmd[v].src>>} /\ landed' \subseteq Paths \X Cards
         /\ UNCHANGED <<card, ledger, busy, cancel, queue, scan, events>>
<1> DEFINE m == [cmd[v] EXCEPT !.step = "record"]
<1>1. cmd[v] \in Writing /\ cmd[v].step = "write"
  BY FieldsOf DEF Rename, At, TypeInv
<1>2. m \in Writing /\ m.step = "record" /\ m \in Commands /\ m.path = cmd[v].path /\ m.src = cmd[v].src
  BY <1>1 DEF Writing, Commands
<1>3. Moved(v, m)
  BY <1>2, GotoOf DEF Rename
<1>4. cmd[v].path \in Paths /\ cmd[v].src \in Cards
  BY <1>1 DEF Writing
<1>5. copies' = [copies EXCEPT ![cmd[v].path] = cmd[v].src] /\ landed' = landed \cup {<<cmd[v].path, cmd[v].src>>}
  BY DEF Rename
<1>6. copies' \in [Paths -> Cards \cup {None}] /\ landed' \subseteq Paths \X Cards
  BY <1>4, <1>5 DEF TypeInv
<1> QED
  BY <1>1, <1>2, <1>3, <1>5, <1>6 DEF Rename, viewVars

(* A listing whose file f shows as x, and that has seen the files S pulled *)
(* since.                                                                  *)
Shown(v, f, x, S) ==
    /\ scan' \in [Views -> Listings \cup {NoScan}]
    /\ \A w \in Views \ {v} : scan'[w] = scan[w]
    /\ scan[v] \in Listings /\ scan'[v] \in Listings
    /\ scan'[v].card = scan[v].card /\ scan'[v].certain = scan[v].certain /\ scan'[v].fresh = scan[v].fresh
    /\ scan'[v].since = scan[v].since \cup S
    /\ scan'[v].status = [scan[v].status EXCEPT ![f] = x]

LEMMA NextPullMoves ==
  ASSUME TypeInv, NEW v \in Views, scan[v] # NoScan, NextPull(v)
  PROVE  /\ queue' \in [Views -> SUBSET Files]
         /\ \E m \in Finding \cup {Idle} : Moved(v, m) /\ m.step \in {None, "invoked"}
<1>1. CASE cmd' = [cmd EXCEPT ![v] = Idle] /\ queue' = [queue EXCEPT ![v] = {}]
  <2>1. Moved(v, Idle) /\ Idle.step = None
    BY <1>1, IdleIsCommand, MovedBy DEF Idle
  <2> QED
    BY <1>1, <2>1 DEF TypeInv
<1>2. CASE \E f \in queue[v] :
             /\ cmd' = [cmd EXCEPT ![v] = PullCmd(f, KeyOf(f, scan[v].card))]
             /\ queue' = [queue EXCEPT ![v] = @ \ {f}]
  <2>1. PICK f \in queue[v] :
             /\ cmd' = [cmd EXCEPT ![v] = PullCmd(f, KeyOf(f, scan[v].card))]
             /\ queue' = [queue EXCEPT ![v] = @ \ {f}]
    BY <1>2
  <2>2. f \in Files /\ scan[v].card \in Cards /\ queue' \in [Views -> SUBSET Files]
    BY <2>1, ScanOf DEF TypeInv
  <2>3. KeyOf(f, scan[v].card) \in Keys
    BY <2>2, KeyIsKey
  <2> QED
    BY <2>1, <2>2, <2>3, PullIsCommand, MovedBy
<1> QED
  BY <1>1, <1>2 DEF NextPull

LEMMA RecordMoves ==
  ASSUME TypeInv, NEW v \in Views, Record(v)
  PROVE  /\ cmd[v] \in Writing /\ cmd[v].step = "record" /\ busy' = FALSE
         /\ \E m \in Finding \cup {Idle} : Moved(v, m) /\ m.step \in {None, "invoked"}
         /\ Shown(v, cmd[v].file, "downloaded", {cmd[v].file})
         /\ ledger' \in Ledgers
         /\ \A k \in Keys : \A r \in ledger'[k].pulled :
               r \in ledger[k].pulled \/ (r.path = cmd[v].path /\ r.crc = cmd[v].src)
         /\ queue' \in [Views -> SUBSET Files] /\ events' \in 0 .. MaxEvents
         /\ UNCHANGED <<card, copies, landed, cancel>>
<1> DEFINE new == [crc |-> cmd[v].src, path |-> cmd[v].path]
<1>1. cmd[v] \in Writing /\ cmd[v].step = "record"
  BY FieldsOf DEF Record, At, TypeInv
<1>2. cmd[v].src \in Cards /\ cmd[v].path \in Paths /\ cmd[v].key \in Keys /\ cmd[v].file \in Files /\ cmd[v].op = "pull"
  BY <1>1 DEF Writing
<1>3. scan[v] # NoScan /\ scan[v] \in Listings
  BY <1>2, ScanOf DEF TypeInv
<1>4. /\ queue' \in [Views -> SUBSET Files]
      /\ \E m \in Finding \cup {Idle} : Moved(v, m) /\ m.step \in {None, "invoked"}
  BY <1>3, NextPullMoves DEF Record
<1>5. new \in [crc : Cards, path : Paths] /\ new.crc = cmd[v].src /\ new.path = cmd[v].path
  BY <1>2
<1>6. /\ ledger' \in Ledgers
      /\ \A k \in Keys : \A r \in ledger'[k].pulled : r \in ledger[k].pulled \/ r = new
  <2>1. CASE ledger' = ledger
    BY <2>1 DEF TypeInv
  <2>2. CASE ledger' = [ledger EXCEPT ![cmd[v].key].pulled = @ \union {new}]
    <3> HIDE DEF new
    <3> QED
      BY <1>2, <1>5, <2>2 DEF Ledgers, TypeInv
  <2> QED
    BY <2>1, <2>2 DEF Record
<1>7. Shown(v, cmd[v].file, "downloaded", {cmd[v].file})
  <2>1. scan' = [scan EXCEPT ![v].status[cmd[v].file] = "downloaded", ![v].since = @ \union {cmd[v].file}]
    BY DEF Record
  <2>2. \A w \in Views \ {v} : scan'[w] = scan[w]
    BY <2>1 DEF TypeInv
  <2>3. scan'[v] = [scan[v] EXCEPT !.status[cmd[v].file] = "downloaded", !.since = @ \union {cmd[v].file}]
    BY <2>1 DEF TypeInv
  <2>4. /\ scan'[v] \in Listings
        /\ scan'[v].card = scan[v].card /\ scan'[v].certain = scan[v].certain /\ scan'[v].fresh = scan[v].fresh
        /\ scan'[v].since = scan[v].since \cup {cmd[v].file}
        /\ scan'[v].status = [scan[v].status EXCEPT ![cmd[v].file] = "downloaded"]
    <3> DEFINE l == scan[v]
               st == [l.status EXCEPT ![cmd[v].file] = "downloaded"]
               si == l.since \union {cmd[v].file}
    <3>1. scan'[v] = [l EXCEPT !.status = st, !.since = si]
      BY <2>3
    <3>2. st \in [Files -> {"new", "downloaded", "missing", "hidden"}] /\ si \in SUBSET Files
      BY <1>2, <1>3 DEF Listings
    <3>3. l \in Listings
      BY <1>3
    <3> HIDE DEF l, st, si
    <3>4. /\ scan'[v] \in Listings
          /\ scan'[v].card = l.card /\ scan'[v].certain = l.certain /\ scan'[v].fresh = l.fresh
          /\ scan'[v].since = si /\ scan'[v].status = st
      BY <3>1, <3>2, <3>3 DEF Listings
    <3> QED
      BY <3>4 DEF l, st, si
  <2>5. scan' \in [Views -> Listings \cup {NoScan}]
    BY <2>1, <2>2, <2>4 DEF TypeInv
  <2> QED
    BY <1>3, <2>2, <2>4, <2>5 DEF Shown
<1>8. events' \in 0 .. MaxEvents
  BY EventTyped DEF Record, TypeInv
<1> QED
  BY <1>1, <1>4, <1>5, <1>6, <1>7, <1>8 DEF Record

LEMMA MarkMoves ==
  ASSUME TypeInv, NEW v \in Views, NEW f \in Files, NEW a \in {"hide", "unhide", "forget"}, Mark(v, f, a)
  PROVE  /\ UNCHANGED cmd \/ (cmd[v] = Idle /\ Moved(v, [op |-> "scan", step |-> "invoked"]))
         /\ \E x \in {"hidden", "new"} : Shown(v, f, x, {})
         /\ ledger' \in Ledgers
         /\ \A k \in Keys : ledger'[k].pulled \subseteq ledger[k].pulled
         /\ events' \in 0 .. MaxEvents
         /\ UNCHANGED <<card, copies, landed, busy, cancel, queue>>
<1> DEFINE k == KeyOf(f, scan[v].card)
           x == IF a = "hide" THEN "hidden" ELSE "new"
<1>1. scan[v] \in Listings /\ scan[v].card \in Cards
  BY ScanOf DEF Mark
<1>2. k \in Keys /\ x \in {"hidden", "new"}
  BY <1>1, KeyIsKey
<1>3. \/ ledger' = [ledger EXCEPT ![k].pulled = {}]
      \/ ledger' = [ledger EXCEPT ![k].hidden = TRUE]
      \/ ledger' = [ledger EXCEPT ![k].hidden = FALSE]
  BY DEF Mark
<1>4. scan' = [scan EXCEPT ![v].status[f] = x]
  BY DEF Mark
<1> HIDE DEF k, x
<1>5. ledger' \in Ledgers /\ \A l \in Keys : ledger'[l].pulled \subseteq ledger[l].pulled
  <2>1. ledger \in Ledgers
    BY DEF TypeInv
  <2>2. CASE ledger' = [ledger EXCEPT ![k].pulled = {}]
    BY <1>2, <2>1, <2>2 DEF Ledgers
  <2>3. CASE ledger' = [ledger EXCEPT ![k].hidden = TRUE]
    BY <1>2, <2>1, <2>3 DEF Ledgers
  <2>4. CASE ledger' = [ledger EXCEPT ![k].hidden = FALSE]
    BY <1>2, <2>1, <2>4 DEF Ledgers
  <2> QED
    BY <1>3, <2>2, <2>3, <2>4
<1>6. Shown(v, f, x, {})
  <2>1. \A w \in Views \ {v} : scan'[w] = scan[w]
    BY <1>4 DEF TypeInv
  <2>2. scan'[v] = [scan[v] EXCEPT !.status[f] = x]
    BY <1>4 DEF TypeInv
  <2>3. /\ scan'[v] \in Listings
        /\ scan'[v].card = scan[v].card /\ scan'[v].certain = scan[v].certain /\ scan'[v].fresh = scan[v].fresh
        /\ scan'[v].since = scan[v].since \cup {}
        /\ scan'[v].status = [scan[v].status EXCEPT ![f] = x]
    BY <1>1, <1>2, <2>2 DEF Listings
  <2>4. scan' \in [Views -> Listings \cup {NoScan}]
    BY <1>4, <2>1, <2>3 DEF TypeInv
  <2> QED
    BY <1>1, <2>1, <2>3, <2>4 DEF Shown
<1>7. UNCHANGED cmd \/ (cmd[v] = Idle /\ Moved(v, [op |-> "scan", step |-> "invoked"]))
  BY AskedIsCommand, MovedBy DEF Mark
<1>8. events' \in 0 .. MaxEvents
  BY EventTyped DEF Mark
<1> QED
  BY <1>2, <1>5, <1>6, <1>7, <1>8 DEF Mark

(* What happens to a view from outside.                                    *)
LEMMA OutsideMoves ==
  ASSUME TypeInv
  PROVE  /\ \A v \in Views : Cancel(v) =>
               /\ cancel' = TRUE /\ UNCHANGED <<card, copies, ledger, landed, busy, cmd, queue, scan, events>>
         /\ \A p \in Paths : Delete(p) =>
               /\ copies' = [copies EXCEPT ![p] = None] /\ copies' \in [Paths -> Cards \cup {None}]
               /\ events' \in 0 .. MaxEvents
               /\ UNCHANGED <<card, ledger, landed, busy, cancel, cmd, queue, scan>>
         /\ Swap => /\ card' \in Cards /\ events' \in 0 .. MaxEvents
                    /\ UNCHANGED <<copies, ledger, landed, busy, cancel, cmd, queue, scan>>
         /\ Crash => /\ busy' = FALSE /\ cancel' = FALSE /\ events' \in 0 .. MaxEvents
                     /\ cmd' = [v \in Views |-> Idle] /\ queue' = [v \in Views |-> {}]
                     /\ scan' = [v \in Views |-> NoScan]
                     /\ UNCHANGED <<card, copies, ledger, landed>>
<1>1. \A v \in Views : Cancel(v) =>
        cancel' = TRUE /\ UNCHANGED <<card, copies, ledger, landed, busy, cmd, queue, scan, events>>
  BY DEF Cancel, diskVars, viewVars
<1>2. \A p \in Paths : Delete(p) =>
        /\ copies' = [copies EXCEPT ![p] = None] /\ copies' \in [Paths -> Cards \cup {None}]
        /\ UNCHANGED <<card, ledger, landed, busy, cancel, cmd, queue, scan>> /\ events' \in 0 .. MaxEvents
  BY EventTyped DEF Delete, viewVars, TypeInv
<1>3. Swap => card' \in Cards /\ events' \in 0 .. MaxEvents /\
              UNCHANGED <<copies, ledger, landed, busy, cancel, cmd, queue, scan>>
  BY EventTyped DEF Swap, diskVars, viewVars
<1>4. Crash => /\ busy' = FALSE /\ cancel' = FALSE /\ events' \in 0 .. MaxEvents
               /\ cmd' = [v \in Views |-> Idle] /\ queue' = [v \in Views |-> {}]
               /\ scan' = [v \in Views |-> NoScan]
               /\ UNCHANGED <<card, copies, ledger, landed>>
  BY EventTyped DEF Crash, diskVars
<1> QED
  BY <1>1, <1>2, <1>3, <1>4

(* The variables but cmd and scan keep their types.                        *)
Others ==
    /\ card \in Cards
    /\ copies \in [Paths -> Cards \cup {None}]
    /\ ledger \in Ledgers
    /\ busy \in BOOLEAN /\ cancel \in BOOLEAN
    /\ queue \in [Views -> SUBSET Files]
    /\ landed \subseteq Paths \X Cards
    /\ events \in 0 .. MaxEvents

LEMMA OthersTyped == TypeInv => Others
BY DEF TypeInv, Others

LEMMA TypeFrom ==
  ASSUME TypeInv, Others', NEW v \in Views, NEW m, Moved(v, m),
         scan' \in [Views -> Listings \cup {NoScan}], \A w \in Views \ {v} : scan'[w] = scan[w],
         m.op = "pull" => cmd[v].op = "pull" \/ scan[v] # NoScan,
         m.op = "pull" => (scan[v] # NoScan => scan'[v] # NoScan)
  PROVE  TypeInv'
<1>1. \A w \in Views : cmd'[w].op = "pull" => scan'[w] # NoScan
  <2> SUFFICES ASSUME NEW w \in Views, cmd'[w].op = "pull" PROVE scan'[w] # NoScan
    OBVIOUS
  <2>1. CASE w = v
    BY <2>1 DEF Moved, TypeInv
  <2>2. CASE w # v
    BY <2>2 DEF Moved, TypeInv
  <2> QED
    BY <2>1, <2>2
<1> QED
  BY <1>1 DEF Moved, Others, TypeInv

(* A listing that is shown is no empty one.                                *)
LEMMA ShownTyped ==
  ASSUME NEW v \in Views, NEW f, NEW x, NEW S, Shown(v, f, x, S)
  PROVE  /\ scan' \in [Views -> Listings \cup {NoScan}] /\ \A w \in Views \ {v} : scan'[w] = scan[w]
         /\ scan'[v] # NoScan
<1>1. \A l \in Listings : l # NoScan
  <2> SUFFICES ASSUME NEW l \in Listings PROVE l # NoScan
    OBVIOUS
  <2>1. "since" \in DOMAIN l
    BY DEF Listings
  <2>2. "since" \notin DOMAIN NoScan
    BY DEF NoScan
  <2> QED
    BY <2>1, <2>2
<1> QED
  BY <1>1 DEF Shown

LEMMA OpOf ==
  /\ Idle.op # "pull" /\ Idle.step = None
  /\ [op |-> "scan", step |-> "invoked"].op # "pull"
  /\ [op |-> "scan", step |-> "invoked"].step = "invoked"
  /\ \A m \in Listing \cup Checking : m.op # "pull"
  /\ \A m \in Finding \cup Reading \cup Writing : m.op = "pull"
  /\ \A m \in Listing : m.step = "list"
  /\ \A m \in Checking : m.step = "check"
  /\ \A m \in Finding : m.step \in {"invoked", "relist", "open"}
  /\ \A m \in Reading : m.step \in {"read", "path"}
  /\ \A m \in Writing : m.step \in {"write", "record"}
BY DEF Idle, None, Listing, Checking, Finding, Reading, Writing

LEMMA ScanSideTypes ==
  ASSUME TypeInv, NEW v \in Views,
         \/ List(v) \/ Refused(v) \/ Error(v) \/ BeginScan(v) \/ ListCard(v) \/ SpotCheck(v)
         \/ SpotCheckFails(v) \/ CardChanged(v) \/ ReadFails(v)
  PROVE  TypeInv'
<1> USE OthersTyped, OpOf
<1>1. CASE List(v)
  BY <1>1, ListMoves, TypeFrom DEF Others, TypeInv
<1>2. CASE Refused(v)
  BY <1>2, RefusedMoves, TypeFrom DEF Others
<1>3. CASE Error(v)
  <2>1. Others'
    BY <1>3, ErrorMoves DEF Others
  <2> QED
    BY <1>3, <2>1, ErrorMoves, TypeFrom
<1>4. CASE BeginScan(v)
  <2>1. Others'
    BY <1>4, BeginScanMoves DEF Others
  <2>2. UNCHANGED scan /\ \E m \in Listing : Moved(v, m)
    BY <1>4, BeginScanMoves
  <2> QED
    BY <2>1, <2>2, TypeFrom DEF TypeInv
<1>5. CASE ListCard(v)
  <2>1. Others'
    BY <1>5, ListCardMoves DEF Others
  <2>2. UNCHANGED scan /\ \E m \in Checking : Moved(v, m)
    BY <1>5, ListCardMoves
  <2> QED
    BY <2>1, <2>2, TypeFrom DEF TypeInv
<1>6. CASE SpotCheck(v)
  <2>1. Others'
    BY <1>6, SpotCheckMoves DEF Others
  <2>2. UNCHANGED scan /\ \E m \in Checking : Moved(v, m)
    BY <1>6, SpotCheckMoves
  <2> QED
    BY <2>1, <2>2, TypeFrom DEF TypeInv
<1>7. CASE SpotCheckFails(v)
  <2>1. Others'
    BY <1>7, SpotCheckFailsMoves DEF Others
  <2>2. UNCHANGED scan /\ \E m \in Checking : Moved(v, m)
    BY <1>7, SpotCheckFailsMoves
  <2> QED
    BY <2>1, <2>2, TypeFrom DEF TypeInv
<1>8. CASE CardChanged(v)
  <2>1. Others'
    BY <1>8, CardChangedMoves DEF Others
  <2> QED
    BY <1>8, <2>1, CardChangedMoves, TypeFrom DEF TypeInv
<1>9. CASE ReadFails(v)
  <2>1. Others'
    BY <1>9, ReadFailsMoves DEF Others
  <2> QED
    BY <1>9, <2>1, ReadFailsMoves, TypeFrom DEF TypeInv
<1> QED
  BY <1>1, <1>2, <1>3, <1>4, <1>5, <1>6, <1>7, <1>8, <1>9

LEMMA PullSideTypes ==
  ASSUME TypeInv, NEW v \in Views,
         \/ Download(v) \/ Classify(v) \/ BeginPull(v) \/ Relist(v) \/ Open(v) \/ Read(v)
         \/ UniquePath(v) \/ Rename(v) \/ Record(v)
  PROVE  TypeInv'
<1> USE OthersTyped, OpOf
<1>1. CASE Download(v)
  <2>1. Others'
    BY <1>1, DownloadMoves DEF Others
  <2>2. UNCHANGED scan /\ scan[v] # NoScan /\ \E m \in Finding : Moved(v, m)
    BY <1>1, DownloadMoves DEF Download
  <2> QED
    BY <2>1, <2>2, TypeFrom DEF TypeInv
<1>2. CASE Classify(v)
  <2>1. Others'
    BY <1>2, ClassifyMoves DEF Others
  <2>2. Moved(v, Idle) /\ \E l \in Listings : scan' = [scan EXCEPT ![v] = l]
    BY <1>2, ClassifyMoves
  <2>3. scan' \in [Views -> Listings \cup {NoScan}] /\ \A w \in Views \ {v} : scan'[w] = scan[w]
    BY <2>2 DEF TypeInv
  <2> QED
    BY <2>1, <2>2, <2>3, TypeFrom
<1>3. CASE BeginPull(v)
  <2>1. Others'
    BY <1>3, BeginPullMoves DEF Others, BeginPull
  <2>2. UNCHANGED scan /\ cmd[v].op = "pull" /\ \E m \in Finding : Moved(v, m)
    BY <1>3, BeginPullMoves DEF BeginPull
  <2> QED
    BY <2>1, <2>2, TypeFrom DEF TypeInv
<1>4. CASE Relist(v)
  <2>1. Others'
    BY <1>4, RelistMoves DEF Others
  <2>2. UNCHANGED scan /\ cmd[v].op = "pull" /\ \E m \in Finding : Moved(v, m)
    BY <1>4, RelistMoves, FieldsOf DEF TypeInv
  <2> QED
    BY <2>1, <2>2, TypeFrom DEF TypeInv
<1>5. CASE Open(v)
  <2>1. Others'
    BY <1>5, OpenMoves DEF Others
  <2>2. UNCHANGED scan /\ cmd[v].op = "pull" /\ \E m \in Reading : Moved(v, m)
    BY <1>5, OpenMoves, FieldsOf DEF TypeInv
  <2> QED
    BY <2>1, <2>2, TypeFrom DEF TypeInv
<1>6. CASE Read(v)
  <2>1. Others'
    BY <1>6, ReadMoves DEF Others
  <2>2. UNCHANGED scan /\ cmd[v].op = "pull" /\ \E m \in Reading : Moved(v, m)
    BY <1>6, ReadMoves, FieldsOf DEF TypeInv
  <2> QED
    BY <2>1, <2>2, TypeFrom DEF TypeInv
<1>7. CASE UniquePath(v)
  <2>1. Others'
    BY <1>7, UniquePathMoves DEF Others
  <2>2. UNCHANGED scan /\ cmd[v].op = "pull" /\ \E m \in Writing \cup {Idle} : Moved(v, m)
    BY <1>7, UniquePathMoves, FieldsOf DEF TypeInv
  <2> QED
    BY <2>1, <2>2, TypeFrom DEF TypeInv
<1>8. CASE Rename(v)
  <2>1. Others'
    BY <1>8, RenameMoves DEF Others
  <2>2. UNCHANGED scan /\ cmd[v].op = "pull" /\ \E m \in Writing : Moved(v, m)
    BY <1>8, RenameMoves
  <2> QED
    BY <2>1, <2>2, TypeFrom DEF TypeInv
<1>9. CASE Record(v)
  <2>1. Others'
    BY <1>9, RecordMoves DEF Others
  <2>2. cmd[v].op = "pull" /\ \E m \in Finding \cup {Idle} : Moved(v, m)
    BY <1>9, RecordMoves
  <2>3. Shown(v, cmd[v].file, "downloaded", {cmd[v].file})
    BY <1>9, RecordMoves
  <2> QED
    BY <2>1, <2>2, <2>3, ShownTyped, TypeFrom
<1> QED
  BY <1>1, <1>2, <1>3, <1>4, <1>5, <1>6, <1>7, <1>8, <1>9

LEMMA OutsideTypes ==
  ASSUME TypeInv,
         \/ \E v \in Views : Cancel(v)
         \/ \E v \in Views, f \in Files, a \in {"hide", "unhide", "forget"} : Mark(v, f, a)
         \/ \E p \in Paths : Delete(p)
         \/ Swap \/ Crash
  PROVE  TypeInv'
<1> USE OthersTyped, OpOf
<1>1. CASE \E v \in Views : Cancel(v)
  BY <1>1, OutsideMoves DEF TypeInv
<1>2. ASSUME NEW v \in Views, NEW f \in Files, NEW a \in {"hide", "unhide", "forget"}, Mark(v, f, a)
      PROVE  TypeInv'
  <2>1. Others'
    BY <1>2, MarkMoves DEF Others
  <2>2. PICK x \in {"hidden", "new"} : Shown(v, f, x, {})
    BY <1>2, MarkMoves
  <2>3. CASE Moved(v, [op |-> "scan", step |-> "invoked"])
    BY <2>1, <2>2, <2>3, ShownTyped, TypeFrom
  <2>4. CASE UNCHANGED cmd
    <3>1. Moved(v, cmd[v])
      BY <2>4 DEF Moved, TypeInv
    <3>2. cmd[v].op = "pull" => scan[v] # NoScan
      BY DEF TypeInv
    <3> QED
      BY <2>1, <2>2, <3>1, <3>2, ShownTyped, TypeFrom
  <2> QED
    BY <1>2, <2>3, <2>4, MarkMoves
<1>3. CASE \E p \in Paths : Delete(p)
  BY <1>3, OutsideMoves DEF TypeInv
<1>4. CASE Swap
  BY <1>4, OutsideMoves DEF TypeInv
<1>5. CASE Crash
  <2>1. Others'
    BY <1>5, OutsideMoves DEF Others
  <2>2. cmd' \in [Views -> Commands] /\ scan' \in [Views -> Listings \cup {NoScan}]
    BY <1>5, OutsideMoves, IdleIsCommand
  <2>3. \A v \in Views : cmd'[v].op # "pull"
    BY <1>5, OutsideMoves
  <2> QED
    BY <2>1, <2>2, <2>3 DEF Others, TypeInv
<1> QED
  BY <1>1, <1>2, <1>3, <1>4, <1>5

LEMMA TypeStep == TypeInv /\ [Next]_vars => TypeInv'
<1> SUFFICES ASSUME TypeInv, [Next]_vars PROVE TypeInv'
  OBVIOUS
<1>1. CASE UNCHANGED vars
  BY <1>1 DEF vars, diskVars, viewVars, TypeInv
<1> QED
  BY <1>1, ScanSideTypes, PullSideTypes, OutsideTypes DEF Next

LEMMA InitTypes == Init => TypeInv
<1> SUFFICES ASSUME Init PROVE TypeInv
  OBVIOUS
<1>1. cmd \in [Views -> Commands] /\ \A v \in Views : cmd[v].op # "pull"
  BY IdleIsCommand, OpOf DEF Init
<1>2. ledger \in Ledgers
  BY EmptyLedgerTyped DEF Init
<1>3. card \in Cards /\ copies \in [Paths -> Cards \cup {None}] /\ busy \in BOOLEAN /\ cancel \in BOOLEAN
  BY DEF Init
<1>4. queue \in [Views -> SUBSET Files] /\ scan \in [Views -> Listings \cup {NoScan}]
  BY DEF Init
<1>5. landed \subseteq Paths \X Cards
  BY DEF Init
<1>6. events \in 0 .. MaxEvents
  BY CardAssumption DEF Init
<1> QED
  BY <1>1, <1>2, <1>3, <1>4, <1>5, <1>6 DEF TypeInv

LEMMA TypeInvariant == Spec => []TypeInv
  BY InitTypes, TypeStep, PTL DEF Spec

(* The flags, the disk, the ledger, the commands and what the views show   *)
(* keep their types.                                                       *)
THEOREM StudioTypeCorrect == Spec => []TypeOK
<1>1. TypeInv => TypeOK
  <2> SUFFICES ASSUME TypeInv PROVE TypeOK
    OBVIOUS
  <2>1. \A v \in Views : cmd[v] # Idle => cmd[v].op \in {"scan", "pull"} /\ cmd[v].step \in Steps
    BY DEF TypeInv, Commands, Asked, Listing, Checking, Finding, Reading, Writing, Steps
  <2>2. \A v \in Views : scan[v] # NoScan => scan[v].status \in [Files -> {"new", "downloaded", "missing", "hidden"}]
    BY DEF TypeInv, Listings
  <2>3. ledger \in [Keys -> [pulled : SUBSET [crc : Cards, path : Paths], hidden : BOOLEAN]]
    BY DEF TypeInv, Ledgers
  <2> QED
    BY <2>1, <2>2, <2>3 DEF TypeInv, TypeOK
<1> QED
  BY <1>1, TypeInvariant, PTL

-----------------------------------------------------------------------------
(* The adapter: the command that holds it is the only one that does, and   *)
(* the flag is up exactly as long.                                         *)

AdapterInv ==
    /\ \A v, w \in Holders : v = w
    /\ busy <=> Holders # {}

Holding(m) == m.step \notin {None, "invoked"}

LEMMA HoldingOf ==
  /\ ~Holding(Idle) /\ ~Holding([op |-> "scan", step |-> "invoked"])
  /\ \A m \in Listing \cup Checking \cup Reading \cup Writing : Holding(m)
  /\ \A m \in Finding : Holding(m) <=> m.step # "invoked"
BY DEF Holding, Idle, None, Listing, Checking, Reading, Writing, Finding

LEMMA HoldersOf == \A v : v \in Holders <=> v \in Views /\ Holding(cmd[v])
BY DEF Holders, Holding

(* A command goes on without touching the flag, takes the adapter, or      *)
(* gives it back.                                                          *)
Kept(v, m) == Moved(v, m) /\ UNCHANGED busy /\ (Holding(m) <=> Holding(cmd[v]))
Took(v, m) == Moved(v, m) /\ ~busy /\ busy' = TRUE /\ Holding(m)
Gave(v, m) == Moved(v, m) /\ busy' = FALSE /\ Holding(cmd[v]) /\ ~Holding(m)

LEMMA MovedHolders ==
  ASSUME NEW v \in Views, NEW m, Moved(v, m)
  PROVE  /\ v \in Holders' <=> Holding(m)
         /\ \A w : w # v => (w \in Holders' <=> w \in Holders)
BY DEF Moved, Holders, Holding

LEMMA AdapterMoves ==
  ASSUME TypeInv, AdapterInv, NEW v \in Views, NEW m, Kept(v, m) \/ Took(v, m) \/ Gave(v, m)
  PROVE  AdapterInv'
<1>0. v \in Holders <=> Holding(cmd[v])
  BY HoldersOf
<1>1. CASE Kept(v, m)
  <2>1. \A w : w \in Holders' <=> w \in Holders
    BY <1>0, <1>1, MovedHolders DEF Kept
  <2> HIDE DEF Holders
  <2> QED
    BY <1>1, <2>1 DEF AdapterInv, Kept
<1>2. CASE Took(v, m)
  <2>1. Holders = {}
    BY <1>2 DEF AdapterInv, Took
  <2>2. \A w : w \in Holders' <=> w = v
    BY <1>2, <2>1, MovedHolders DEF Took
  <2> QED
    BY <1>2, <2>2 DEF AdapterInv, Took
<1>3. CASE Gave(v, m)
  <2>1. \A w \in Holders : w = v
    BY <1>0, <1>3 DEF AdapterInv, Gave
  <2>2. \A w : w \notin Holders'
    BY <1>3, <2>1, MovedHolders DEF Gave
  <2> QED
    BY <1>3, <2>2 DEF AdapterInv, Gave
<1> QED
  BY <1>1, <1>2, <1>3

(* Every step of a view is one of the three.                               *)
LEMMA ScanSideAdapter ==
  ASSUME TypeInv, NEW v \in Views,
         \/ List(v) \/ Refused(v) \/ Error(v) \/ BeginScan(v) \/ ListCard(v) \/ SpotCheck(v)
         \/ SpotCheckFails(v) \/ Classify(v)
  PROVE  \E m : Kept(v, m) \/ Took(v, m) \/ Gave(v, m)
<1> USE HoldingOf DEF Kept, Took, Gave
<1>0. cmd[v] \in Commands
  BY DEF TypeInv
<1>1. CASE List(v)
  BY <1>1, ListMoves
<1>2. CASE Refused(v)
  BY <1>2, RefusedMoves DEF Holding
<1>3. CASE Error(v)
  BY <1>3, ErrorMoves DEF Holding
<1>4. CASE BeginScan(v)
  BY <1>4, BeginScanMoves
<1>5. CASE ListCard(v)
  BY <1>0, <1>5, ListCardMoves, FieldsOf
<1>6. CASE SpotCheck(v)
  BY <1>6, SpotCheckMoves
<1>7. CASE SpotCheckFails(v)
  BY <1>7, SpotCheckFailsMoves
<1>8. CASE Classify(v)
  BY <1>8, ClassifyMoves
<1> QED
  BY <1>1, <1>2, <1>3, <1>4, <1>5, <1>6, <1>7, <1>8

LEMMA PullSideAdapter ==
  ASSUME TypeInv, NEW v \in Views,
         \/ Download(v) \/ BeginPull(v) \/ Relist(v) \/ CardChanged(v) \/ Open(v) \/ Read(v)
         \/ ReadFails(v) \/ UniquePath(v) \/ Rename(v) \/ Record(v)
  PROVE  \E m : Kept(v, m) \/ Took(v, m) \/ Gave(v, m)
<1> USE HoldingOf DEF Kept, Took, Gave
<1>0. cmd[v] \in Commands
  BY DEF TypeInv
<1>1. CASE Download(v)
  BY <1>1, DownloadMoves
<1>2. CASE BeginPull(v)
  BY <1>2, BeginPullMoves
<1>3. CASE Relist(v)
  BY <1>0, <1>3, RelistMoves, FieldsOf
<1>4. CASE CardChanged(v)
  BY <1>0, <1>4, CardChangedMoves, FieldsOf
<1>5. CASE Open(v)
  BY <1>0, <1>5, OpenMoves, FieldsOf
<1>6. CASE Read(v)
  BY <1>0, <1>6, ReadMoves, FieldsOf
<1>7. CASE ReadFails(v)
  BY <1>0, <1>7, ReadFailsMoves, FieldsOf
<1>8. CASE UniquePath(v)
  BY <1>0, <1>8, UniquePathMoves, FieldsOf
<1>9. CASE Rename(v)
  BY <1>9, RenameMoves
<1>10. CASE Record(v)
  <2>1. PICK m \in Finding \cup {Idle} : Moved(v, m) /\ m.step \in {None, "invoked"}
    BY <1>10, RecordMoves
  <2>2. ~Holding(m)
    BY <2>1 DEF Holding
  <2>3. Holding(cmd[v]) /\ busy' = FALSE
    BY <1>10, RecordMoves
  <2> QED
    BY <2>1, <2>2, <2>3
<1> QED
  BY <1>1, <1>2, <1>3, <1>4, <1>5, <1>6, <1>7, <1>8, <1>9, <1>10

LEMMA AdapterStep == TypeInv /\ AdapterInv /\ [Next]_vars => AdapterInv'
<1> SUFFICES ASSUME TypeInv, AdapterInv, [Next]_vars PROVE AdapterInv'
  OBVIOUS
<1>0. ASSUME UNCHANGED <<cmd, busy>> PROVE AdapterInv'
  BY <1>0 DEF AdapterInv, Holders
<1>1. CASE UNCHANGED vars
  BY <1>0, <1>1 DEF vars
<1>2. ASSUME NEW v \in Views, \E m : Kept(v, m) \/ Took(v, m) \/ Gave(v, m) PROVE AdapterInv'
  BY <1>2, AdapterMoves
<1>3. ASSUME NEW v \in Views, NEW f \in Files, NEW a \in {"hide", "unhide", "forget"}, Mark(v, f, a)
      PROVE  AdapterInv'
  <2>1. UNCHANGED busy
    BY <1>3, MarkMoves
  <2>2. CASE UNCHANGED cmd
    BY <1>0, <2>1, <2>2
  <2>3. CASE cmd[v] = Idle /\ Moved(v, [op |-> "scan", step |-> "invoked"])
    BY <1>2, <2>1, <2>3, HoldingOf DEF Kept
  <2> QED
    BY <1>3, <2>2, <2>3, MarkMoves
<1>4. ASSUME NEW v \in Views, Cancel(v) PROVE AdapterInv'
  BY <1>0, <1>4, OutsideMoves
<1>5. ASSUME NEW p \in Paths, Delete(p) PROVE AdapterInv'
  BY <1>0, <1>5, OutsideMoves
<1>6. CASE Swap
  BY <1>0, <1>6, OutsideMoves
<1>7. CASE Crash
  <2>1. cmd' = [v \in Views |-> Idle] /\ busy' = FALSE
    BY <1>7, OutsideMoves
  <2>2. Holders' = {}
    BY <2>1, HoldingOf DEF Holders, Holding
  <2> QED
    BY <2>1, <2>2 DEF AdapterInv
<1> QED
  BY <1>1, <1>2, <1>3, <1>4, <1>5, <1>6, <1>7, ScanSideAdapter, PullSideAdapter DEF Next

LEMMA AdapterInvariant == Spec => [](TypeInv /\ AdapterInv)
<1>1. Init => AdapterInv
  BY HoldingOf DEF Init, AdapterInv, Holders, Holding
<1> QED
  BY <1>1, TypeInvariant, AdapterStep, PTL DEF Spec

(* There is one adapter: at most one command is past BusyGuard::acquire,   *)
(* and every way out of it gives the adapter back (logs.rs:70-110).        *)
THEOREM AdapterIsHeldOnce == Spec => []AdapterHeldOnce
<1>1. AdapterInv => AdapterHeldOnce
  <2> SUFFICES ASSUME AdapterInv PROVE AdapterHeldOnce
    OBVIOUS
  <2>1. CASE Holders = {}
    BY <2>1, FS_EmptySet DEF AdapterInv, AdapterHeldOnce
  <2>2. CASE Holders # {}
    <3>1. PICK v : Holders = {v}
      BY <2>2 DEF AdapterInv
    <3>2. Cardinality(Holders) = 1
      BY <3>1, FS_Singleton
    <3> QED
      BY <2>2, <3>2 DEF AdapterInv, AdapterHeldOnce
  <2> QED
    BY <2>1, <2>2
<1> QED
  BY <1>1, AdapterInvariant, PTL

-----------------------------------------------------------------------------
(* The cancel flag.                                                        *)

(* Only the start of a pull and a crash lower it.                          *)
LEMMA CancelMoves ==
  ASSUME TypeInv, [Next]_vars, cancel
  PROVE  cancel' \/ (\E v \in Views : BeginPull(v)) \/ Crash
<1>1. CASE UNCHANGED vars
  BY <1>1 DEF vars
<1>2. ASSUME NEW v \in Views,
             \/ List(v) \/ Refused(v) \/ Error(v) \/ BeginScan(v) \/ ListCard(v) \/ SpotCheck(v)
             \/ SpotCheckFails(v) \/ Classify(v)
      PROVE  cancel'
  BY <1>2, ListMoves, RefusedMoves, ErrorMoves, BeginScanMoves, ListCardMoves, SpotCheckMoves,
     SpotCheckFailsMoves, ClassifyMoves
<1>3. ASSUME NEW v \in Views,
             \/ Download(v) \/ Relist(v) \/ CardChanged(v) \/ Open(v) \/ Read(v)
             \/ ReadFails(v) \/ UniquePath(v) \/ Rename(v) \/ Record(v)
      PROVE  cancel'
  BY <1>3, DownloadMoves, RelistMoves, CardChangedMoves, OpenMoves, ReadMoves, ReadFailsMoves,
     UniquePathMoves, RenameMoves, RecordMoves
<1>4. ASSUME NEW v \in Views, NEW f \in Files, NEW a \in {"hide", "unhide", "forget"}, Mark(v, f, a)
      PROVE  cancel'
  BY <1>4, MarkMoves
<1>5. ASSUME NEW v \in Views, Cancel(v) PROVE cancel'
  BY <1>5, OutsideMoves
<1>6. ASSUME NEW p \in Paths, Delete(p) PROVE cancel'
  BY <1>6, OutsideMoves
<1>7. CASE Swap
  BY <1>7, OutsideMoves
<1> QED
  BY <1>1, <1>2, <1>3, <1>4, <1>5, <1>6, <1>7 DEF Next

CancelStep ==
  cancel /\ (\E v \in Views : At(v, "read")) => cancel' \/ ~(\E v \in Views : At(v, "read"))'

(* A cancel that reached a transfer holds until the transfer has ended     *)
(* (logs.rs:728-729): whoever asks for a pull meanwhile finds the adapter  *)
(* taken, and does not get to where the flag is cleared.                   *)
THEOREM CancelIsHeld == Spec => CancelHolds
<1>1. TypeInv /\ AdapterInv /\ [Next]_vars => CancelStep
  <2> SUFFICES ASSUME TypeInv, AdapterInv, [Next]_vars, cancel, ~cancel',
                      NEW v \in Views, At(v, "read"),
                      NEW w \in Views, At(w, "read")'
               PROVE  FALSE
    BY DEF CancelStep
  <2>1. v \in Holders
    BY DEF Holders, At, None
  <2>2. busy
    BY <2>1 DEF AdapterInv
  <2>3. ~Crash
    BY OutsideMoves, OpOf DEF At, None
  <2>4. ASSUME NEW u \in Views PROVE ~BeginPull(u)
    BY <2>2, BeginPullMoves
  <2> QED
    BY <2>3, <2>4, CancelMoves
<1>2. TypeInv /\ AdapterInv /\ [Next]_vars
        => [cancel /\ (\E v \in Views : At(v, "read")) =>
              cancel' \/ ~(\E v \in Views : At(v, "read"))']_vars
  BY <1>1 DEF CancelStep
<1> QED
  BY <1>2, AdapterInvariant, PTL DEF Spec, CancelHolds

-----------------------------------------------------------------------------
(* The path of a transfer stays free until the rename, and a record is     *)
(* written for what was renamed.                                           *)

PathInv == \A v \in Views : At(v, "write") => copies[cmd[v].path] = None

RecordInv ==
    /\ RecordsFollowFiles
    /\ \A v \in Views : At(v, "record") => <<cmd[v].path, cmd[v].src>> \in landed

(* A command that is neither about to write nor about to record.           *)
Aside(m) == m.step \notin {"write", "record"}

LEMMA AsideOf ==
  /\ Aside(Idle) /\ Aside([op |-> "scan", step |-> "invoked"])
  /\ \A m \in Listing \cup Checking \cup Finding \cup Reading : Aside(m)
BY DEF Aside, Idle, None, Listing, Checking, Finding, Reading

LEMMA AsideMoves ==
  ASSUME NEW v \in Views, NEW m, Moved(v, m), Aside(m), UNCHANGED landed,
         \A p \in Paths : copies[p] = None => copies'[p] = None,
         \A k \in Keys : \A r \in ledger'[k].pulled : <<r.path, r.crc>> \in landed,
         TypeInv, PathInv, RecordInv
  PROVE  PathInv' /\ RecordInv'
<1>1. \A w \in Views : At(w, "write")' => w # v /\ cmd'[w] = cmd[w]
  BY DEF At, Moved, Aside
<1>2. \A w \in Views : At(w, "record")' => w # v /\ cmd'[w] = cmd[w]
  BY DEF At, Moved, Aside
<1>3. \A w \in Views : At(w, "write") => cmd[w].path \in Paths
  BY FieldsOf DEF At, TypeInv, Writing
<1>4. PathInv'
  BY <1>1, <1>3 DEF PathInv, At
<1>5. RecordInv'
  BY <1>2 DEF RecordInv, RecordsFollowFiles, At
<1> QED
  BY <1>4, <1>5

LEMMA ScanSideAside ==
  ASSUME TypeInv, NEW v \in Views,
         \/ List(v) \/ Refused(v) \/ Error(v) \/ BeginScan(v) \/ ListCard(v) \/ SpotCheck(v)
         \/ SpotCheckFails(v) \/ Classify(v)
  PROVE  /\ UNCHANGED <<landed, copies, ledger>>
         /\ \E m : Moved(v, m) /\ Aside(m)
<1> USE AsideOf
<1>1. CASE List(v)
  BY <1>1, ListMoves
<1>2. CASE Refused(v)
  BY <1>2, RefusedMoves
<1>3. CASE Error(v)
  BY <1>3, ErrorMoves
<1>4. CASE BeginScan(v)
  BY <1>4, BeginScanMoves
<1>5. CASE ListCard(v)
  BY <1>5, ListCardMoves
<1>6. CASE SpotCheck(v)
  BY <1>6, SpotCheckMoves
<1>7. CASE SpotCheckFails(v)
  BY <1>7, SpotCheckFailsMoves
<1>8. CASE Classify(v)
  BY <1>8, ClassifyMoves
<1> QED
  BY <1>1, <1>2, <1>3, <1>4, <1>5, <1>6, <1>7, <1>8

LEMMA PullSideAside ==
  ASSUME TypeInv, NEW v \in Views,
         \/ Download(v) \/ BeginPull(v) \/ Relist(v) \/ CardChanged(v) \/ Open(v) \/ Read(v)
         \/ ReadFails(v)
  PROVE  /\ UNCHANGED <<landed, copies, ledger>>
         /\ \E m : Moved(v, m) /\ Aside(m)
<1> USE AsideOf
<1>1. CASE Download(v)
  BY <1>1, DownloadMoves
<1>2. CASE BeginPull(v)
  BY <1>2, BeginPullMoves
<1>3. CASE Relist(v)
  BY <1>3, RelistMoves
<1>4. CASE CardChanged(v)
  BY <1>4, CardChangedMoves
<1>5. CASE Open(v)
  BY <1>5, OpenMoves
<1>6. CASE Read(v)
  BY <1>6, ReadMoves
<1>7. CASE ReadFails(v)
  BY <1>7, ReadFailsMoves
<1> QED
  BY <1>1, <1>2, <1>3, <1>4, <1>5, <1>6, <1>7

LEMMA UniquePathWrites ==
  ASSUME TypeInv, PathInv, RecordInv, NEW v \in Views, UniquePath(v)
  PROVE  PathInv' /\ RecordInv'
<1>1. UNCHANGED <<copies, ledger, landed>>
  BY UniquePathMoves
<1>2. CASE Moved(v, Idle)
  BY <1>1, <1>2, AsideOf, AsideMoves DEF RecordInv, RecordsFollowFiles
<1>3. CASE \E m \in Writing : Moved(v, m) /\ m.step = "write" /\ copies[m.path] = None
  <2>1. PICK m \in Writing : Moved(v, m) /\ m.step = "write" /\ copies[m.path] = None
    BY <1>3
  <2>2. PathInv'
    BY <1>1, <2>1 DEF PathInv, At, Moved
  <2>3. RecordInv'
    BY <1>1, <2>1 DEF RecordInv, RecordsFollowFiles, At, Moved
  <2> QED
    BY <2>2, <2>3
<1> QED
  BY <1>2, <1>3, UniquePathMoves

(* Nobody else is about to write: the adapter is held.                     *)
LEMMA RenameWrites ==
  ASSUME TypeInv, AdapterInv, PathInv, RecordInv, NEW v \in Views, Rename(v)
  PROVE  PathInv' /\ RecordInv'
<1>1. PICK m \in Writing : Moved(v, m) /\ m.step = "record" /\ m.path = cmd[v].path /\ m.src = cmd[v].src
  BY RenameMoves
<1>2. v \in Holders /\ \A w \in Views : At(w, "write") => w \in Holders
  BY RenameMoves DEF Holders, At, None
<1>3. \A w \in Views : At(w, "write") => w = v
  BY <1>2 DEF AdapterInv
<1>4. PathInv'
  BY <1>1, <1>3 DEF PathInv, At, Moved
<1>5. landed' = landed \cup {<<cmd[v].path, cmd[v].src>>} /\ UNCHANGED ledger
  BY RenameMoves
<1>6. RecordInv'
  BY <1>1, <1>5 DEF RecordInv, RecordsFollowFiles, At, Moved
<1> QED
  BY <1>4, <1>6

LEMMA RecordWrites ==
  ASSUME TypeInv, PathInv, RecordInv, NEW v \in Views, Record(v)
  PROVE  PathInv' /\ RecordInv'
<1>1. PICK m \in Finding \cup {Idle} : Moved(v, m)
  BY RecordMoves
<1>2. <<cmd[v].path, cmd[v].src>> \in landed
  BY RecordMoves DEF RecordInv, At
<1>3. \A k \in Keys : \A r \in ledger'[k].pulled : <<r.path, r.crc>> \in landed
  BY <1>2, RecordMoves DEF RecordInv, RecordsFollowFiles
<1>4. UNCHANGED <<copies, landed>>
  BY RecordMoves
<1>5. Aside(m)
  BY AsideOf
<1> QED
  BY <1>1, <1>3, <1>4, <1>5, AsideMoves

LEMMA OutsideWrites ==
  ASSUME TypeInv, PathInv, RecordInv,
         \/ \E v \in Views : Cancel(v)
         \/ \E v \in Views, f \in Files, a \in {"hide", "unhide", "forget"} : Mark(v, f, a)
         \/ \E p \in Paths : Delete(p)
         \/ Swap \/ Crash
  PROVE  PathInv' /\ RecordInv'
<1>0. ASSUME UNCHANGED <<cmd, landed>>,
             \A p \in Paths : copies[p] = None => copies'[p] = None,
             \A k \in Keys : \A r \in ledger'[k].pulled : <<r.path, r.crc>> \in landed
      PROVE  PathInv' /\ RecordInv'
  <2>1. \A w \in Views : At(w, "write") => cmd[w].path \in Paths
    BY FieldsOf DEF At, TypeInv, Writing
  <2>2. PathInv'
    BY <1>0, <2>1 DEF PathInv, At
  <2>3. RecordInv'
    BY <1>0 DEF RecordInv, RecordsFollowFiles, At
  <2> QED
    BY <2>2, <2>3
<1>1. CASE \E v \in Views : Cancel(v)
  BY <1>0, <1>1, OutsideMoves DEF RecordInv, RecordsFollowFiles
<1>2. ASSUME NEW v \in Views, NEW f \in Files, NEW a \in {"hide", "unhide", "forget"}, Mark(v, f, a)
      PROVE  PathInv' /\ RecordInv'
  <2>1. UNCHANGED <<copies, landed>>
    BY <1>2, MarkMoves
  <2>2. \A k \in Keys : \A r \in ledger'[k].pulled : <<r.path, r.crc>> \in landed
    BY <1>2, MarkMoves DEF RecordInv, RecordsFollowFiles
  <2>3. CASE UNCHANGED cmd
    BY <1>0, <2>1, <2>2, <2>3
  <2>4. CASE Moved(v, [op |-> "scan", step |-> "invoked"])
    BY <2>1, <2>2, <2>4, AsideOf, AsideMoves
  <2> QED
    BY <1>2, <2>3, <2>4, MarkMoves
<1>3. ASSUME NEW p \in Paths, Delete(p) PROVE PathInv' /\ RecordInv'
  <2>1. \A q \in Paths : copies[q] = None => copies'[q] = None
    BY <1>3, OutsideMoves DEF TypeInv
  <2>2. UNCHANGED <<cmd, landed, ledger>>
    BY <1>3, OutsideMoves
  <2> QED
    BY <1>0, <2>1, <2>2 DEF RecordInv, RecordsFollowFiles
<1>4. CASE Swap
  BY <1>0, <1>4, OutsideMoves DEF RecordInv, RecordsFollowFiles
<1>5. CASE Crash
  BY <1>5, OutsideMoves, AsideOf DEF PathInv, RecordInv, RecordsFollowFiles, At, Aside
<1> QED
  BY <1>1, <1>2, <1>3, <1>4, <1>5

LEMMA WriteStep == TypeInv /\ AdapterInv /\ PathInv /\ RecordInv /\ [Next]_vars => PathInv' /\ RecordInv'
<1> SUFFICES ASSUME TypeInv, AdapterInv, PathInv, RecordInv, [Next]_vars PROVE PathInv' /\ RecordInv'
  OBVIOUS
<1>1. CASE UNCHANGED vars
  BY <1>1 DEF vars, diskVars, PathInv, RecordInv, RecordsFollowFiles, At
<1>2. ASSUME NEW v \in Views, UNCHANGED <<landed, copies, ledger>>, \E m : Moved(v, m) /\ Aside(m)
      PROVE  PathInv' /\ RecordInv'
  BY <1>2, AsideMoves DEF RecordInv, RecordsFollowFiles
<1> QED
  BY <1>1, <1>2, ScanSideAside, PullSideAside, UniquePathWrites, RenameWrites, RecordWrites, OutsideWrites
  DEF Next

LEMMA WriteInvariant == Spec => [](TypeInv /\ AdapterInv /\ PathInv /\ RecordInv)
<1>1. Init => PathInv /\ RecordInv
  BY OpOf DEF Init, PathInv, RecordInv, RecordsFollowFiles, At, None, EmptyLedger
<1> QED
  BY <1>1, AdapterInvariant, TypeInvariant, WriteStep, PTL DEF Spec

(* Whatever crashes, a download is on record only for a file whose bytes   *)
(* were renamed into place (logs.rs:798-801).                              *)
THEOREM RecordsAreOfFiles == Spec => []RecordsFollowFiles
BY WriteInvariant, PTL DEF RecordInv

(* Only a rename and a deletion change the folder.                         *)
LEMMA CopiesMoves ==
  ASSUME TypeInv, [Next]_vars
  PROVE  UNCHANGED copies \/ (\E v \in Views : Rename(v)) \/ (\E p \in Paths : Delete(p))
<1>1. CASE UNCHANGED vars
  BY <1>1 DEF vars, diskVars
<1>2. ASSUME NEW v \in Views, UniquePath(v) \/ Record(v) PROVE UNCHANGED copies
  BY <1>2, UniquePathMoves, RecordMoves
<1>3. ASSUME NEW v \in Views, NEW f \in Files, NEW a \in {"hide", "unhide", "forget"}, Mark(v, f, a)
      PROVE  UNCHANGED copies
  BY <1>3, MarkMoves
<1>4. ASSUME NEW v \in Views, Cancel(v) PROVE UNCHANGED copies
  BY <1>4, OutsideMoves
<1>5. CASE Swap
  BY <1>5, OutsideMoves
<1>6. CASE Crash
  BY <1>6, OutsideMoves
<1> QED
  BY <1>1, <1>2, <1>3, <1>4, <1>5, <1>6, ScanSideAside, PullSideAside DEF Next

(* A pull never writes over a file that is there (log_decode.rs:373-412):  *)
(* the name unique_path found is free until the rename, for nobody else    *)
(* renames while the adapter is held.                                      *)
THEOREM NothingIsOverwritten == Spec => NoClobber
<1> DEFINE Step == \A p \in Paths : copies[p] # None => copies'[p] \in {copies[p], None}
<1>1. TypeInv /\ PathInv /\ [Next]_vars => Step
  <2> SUFFICES ASSUME TypeInv, PathInv, [Next]_vars, NEW p \in Paths, copies[p] # None
               PROVE  copies'[p] \in {copies[p], None}
    OBVIOUS
  <2>1. CASE UNCHANGED copies
    BY <2>1
  <2>2. ASSUME NEW v \in Views, Rename(v) PROVE copies'[p] = copies[p]
    <3>1. copies[cmd[v].path] = None /\ copies' = [copies EXCEPT ![cmd[v].path] = cmd[v].src]
      BY <2>2, RenameMoves DEF PathInv, At
    <3> QED
      BY <3>1 DEF TypeInv
  <2>3. ASSUME NEW q \in Paths, Delete(q) PROVE copies'[p] \in {copies[p], None}
    BY <2>3, OutsideMoves DEF TypeInv
  <2> QED
    BY <2>1, <2>2, <2>3, CopiesMoves
<1> QED
  BY <1>1, WriteInvariant, PTL DEF Spec, NoClobber

-----------------------------------------------------------------------------
(* Spot checks.  As long as every one of them was of the card listed, and  *)
(* none of its bytes is on record, the first of them finds the card        *)
(* changed; until then there are as many to do as were picked.             *)

Unseen(l, c) == \A k \in Keys : \A r \in l[k].pulled : r.crc # c
Known(l, c) == {f \in Files : l[KeyOf(f, c)].pulled # {}}

CheckOf(m) ==
    m.step = "check" /\ m.certain /\ ~m.changed /\ Unseen(m.ledger, m.card) => m.todo = Picks(Known(m.ledger, m.card))

CheckInv == \A v \in Views : CheckOf(cmd[v])

(* There is a pick as long as there is something to pick from.             *)
LEMMA PicksOfSome ==
  ASSUME NEW S \in SUBSET Files, Picks(S) = {}
  PROVE  S = {}
<1>1. CASE Cardinality(S) <= SpotChecks
  BY <1>1 DEF Picks
<1>2. CASE ~(Cardinality(S) <= SpotChecks)
  <2> SUFFICES ASSUME S # {} PROVE FALSE
    OBVIOUS
  <2> DEFINE Rank(f) == Cardinality({g \in S : g < f})
  <2>1. Min(S) \in S /\ \A y \in S : Min(S) <= y
    BY MinIsLeast, CardAssumption
  <2>2. {g \in S : g < Min(S)} = {}
    <3> DEFINE x == Min(S)
    <3>1. x \in Nat /\ \A g \in S : g \in Nat /\ x <= g
      BY <2>1, CardAssumption
    <3> HIDE DEF x
    <3>2. \A g \in S : ~(g < x)
      BY <3>1
    <3> QED
      BY <3>2 DEF x
  <2>3. Rank(Min(S)) = 0
    BY <2>2, FS_EmptySet
  <2>4. Picks(S) = {f \in S : Rank(f) \in {0, Cardinality(S) \div 2, Cardinality(S) - 1}}
    BY <1>2 DEF Picks
  <2> HIDE DEF Rank
  <2> QED
    BY <2>1, <2>3, <2>4
<1> QED
  BY <1>1, <1>2

(* A file nothing was pulled of does not show as downloaded.               *)
LEMMA StatusOfNone ==
  ASSUME NEW s, s.pulled = {}, s.hidden \in BOOLEAN, NEW k
  PROVE  Status(s, k) # "downloaded"
<1>1. CASE s.hidden
  BY <1>1 DEF Status
<1>2. CASE ~s.hidden
  BY <1>2 DEF Status
<1> QED
  BY <1>1, <1>2

(* What is not a check keeps CheckInv.                                     *)
LEMMA CheckMoves ==
  ASSUME CheckInv, NEW v \in Views, NEW m, Moved(v, m), CheckOf(m)
  PROVE  CheckInv'
<1> SUFFICES ASSUME NEW w \in Views PROVE CheckOf(cmd'[w])
  BY DEF CheckInv
<1>1. CASE w = v
  BY <1>1 DEF Moved
<1>2. CASE w # v
  BY <1>2 DEF Moved, CheckInv
<1> QED
  BY <1>1, <1>2

LEMMA CheckOfOthers ==
  /\ CheckOf(Idle) /\ CheckOf([op |-> "scan", step |-> "invoked"])
  /\ \A m \in Listing \cup Finding \cup Reading \cup Writing : CheckOf(m)
  /\ \A m \in Checking : m.certain = FALSE => CheckOf(m)
BY DEF CheckOf, Idle, None, Listing, Finding, Reading, Writing

LEMMA ListCardChecks ==
  ASSUME TypeInv, CheckInv, NEW v \in Views, ListCard(v)
  PROVE  CheckInv'
<1> DEFINE known == {f \in Files : cmd[v].ledger[KeyOf(f, card)].pulled # {}}
           m == [op |-> "scan", step |-> "check", ledger |-> cmd[v].ledger, card |-> card,
                 todo |-> Picks(known), changed |-> FALSE, certain |-> TRUE]
<1>1. Moved(v, m)
  BY ListCardMoves
<1>2. m.todo = Picks(Known(m.ledger, m.card))
  BY DEF Known
<1>3. CheckOf(m)
  BY <1>2 DEF CheckOf
<1> QED
  BY <1>1, <1>3, CheckMoves

(* A check that was of the card listed finds nothing on record for it.     *)
LEMMA SpotCheckChecks ==
  ASSUME TypeInv, CheckInv, NEW v \in Views, SpotCheck(v)
  PROVE  CheckInv'
<1> DEFINE f == Min(cmd[v].todo)
           ok == Vouched(cmd[v].ledger[KeyOf(f, cmd[v].card)].pulled, card)
<1>1. PICK m \in Checking :
        /\ Moved(v, m) /\ m.ledger = cmd[v].ledger /\ m.card = cmd[v].card
        /\ m.changed = ~ok
        /\ m.certain = (cmd[v].certain /\ card = cmd[v].card)
  BY SpotCheckMoves
<1>2. f \in Files /\ cmd[v].card \in Cards
  BY SpotCheckMoves DEF Checking
<1>3. KeyOf(f, cmd[v].card) \in Keys
  BY <1>2, KeyIsKey
<1>4. ASSUME m.certain, Unseen(m.ledger, m.card) PROVE m.changed
  <2>1. card = cmd[v].card
    BY <1>1, <1>4, SpotCheckMoves DEF Checking
  <2>2. ~ok
    BY <1>1, <1>3, <1>4, <2>1 DEF Unseen, Vouched
  <2> HIDE DEF ok
  <2> QED
    BY <1>1, <2>2
<1>5. CheckOf(m)
  BY <1>4 DEF CheckOf
<1> QED
  BY <1>1, <1>5, CheckMoves

LEMMA ScanSideChecks ==
  ASSUME TypeInv, CheckInv, NEW v \in Views,
         \/ List(v) \/ Refused(v) \/ Error(v) \/ BeginScan(v) \/ ListCard(v) \/ SpotCheck(v)
         \/ SpotCheckFails(v) \/ Classify(v)
  PROVE  CheckInv'
<1> USE CheckOfOthers, CheckMoves
<1>1. CASE List(v)
  BY <1>1, ListMoves
<1>2. CASE Refused(v)
  BY <1>2, RefusedMoves
<1>3. CASE Error(v)
  BY <1>3, ErrorMoves
<1>4. CASE BeginScan(v)
  BY <1>4, BeginScanMoves
<1>5. CASE SpotCheckFails(v)
  BY <1>5, SpotCheckFailsMoves
<1>6. CASE Classify(v)
  BY <1>6, ClassifyMoves
<1> QED
  BY <1>1, <1>2, <1>3, <1>4, <1>5, <1>6, ListCardChecks, SpotCheckChecks

LEMMA PullSideChecks ==
  ASSUME TypeInv, CheckInv, NEW v \in Views,
         \/ Download(v) \/ BeginPull(v) \/ Relist(v) \/ CardChanged(v) \/ Open(v) \/ Read(v)
         \/ ReadFails(v) \/ UniquePath(v) \/ Rename(v) \/ Record(v)
  PROVE  CheckInv'
<1> USE CheckOfOthers, CheckMoves
<1>1. CASE Download(v)
  BY <1>1, DownloadMoves
<1>2. CASE BeginPull(v)
  BY <1>2, BeginPullMoves
<1>3. CASE Relist(v)
  BY <1>3, RelistMoves
<1>4. CASE CardChanged(v)
  BY <1>4, CardChangedMoves
<1>5. CASE Open(v)
  BY <1>5, OpenMoves
<1>6. CASE Read(v)
  BY <1>6, ReadMoves
<1>7. CASE ReadFails(v)
  BY <1>7, ReadFailsMoves
<1>8. CASE UniquePath(v)
  BY <1>8, UniquePathMoves
<1>9. CASE Rename(v)
  BY <1>9, RenameMoves
<1>10. CASE Record(v)
  BY <1>10, RecordMoves
<1> QED
  BY <1>1, <1>2, <1>3, <1>4, <1>5, <1>6, <1>7, <1>8, <1>9, <1>10

LEMMA CheckStep == TypeInv /\ CheckInv /\ [Next]_vars => CheckInv'
<1> SUFFICES ASSUME TypeInv, CheckInv, [Next]_vars PROVE CheckInv'
  OBVIOUS
<1>0. ASSUME UNCHANGED cmd PROVE CheckInv'
  <2>1. \A v \in Views : CheckOf(cmd'[v])
    BY <1>0 DEF CheckInv
  <2> QED
    BY <2>1 DEF CheckInv
<1>1. CASE UNCHANGED vars
  BY <1>0, <1>1 DEF vars
<1>2. ASSUME NEW v \in Views, NEW f \in Files, NEW a \in {"hide", "unhide", "forget"}, Mark(v, f, a)
      PROVE  CheckInv'
  BY <1>0, <1>2, MarkMoves, CheckOfOthers, CheckMoves
<1>3. ASSUME NEW v \in Views, Cancel(v) PROVE CheckInv'
  BY <1>0, <1>3, OutsideMoves
<1>4. ASSUME NEW p \in Paths, Delete(p) PROVE CheckInv'
  BY <1>0, <1>4, OutsideMoves
<1>5. CASE Swap
  BY <1>0, <1>5, OutsideMoves
<1>6. CASE Crash
  BY <1>6, OutsideMoves, OpOf DEF CheckInv, CheckOf, None
<1> QED
  BY <1>1, <1>2, <1>3, <1>4, <1>5, <1>6, ScanSideChecks, PullSideChecks DEF Next

-----------------------------------------------------------------------------
(* What a listing of a card nothing was pulled from shows.                 *)

AllNew(l) ==
    l # NoScan /\ l.fresh /\ l.certain => \A f \in Files \ l.since : l.status[f] # "downloaded"

LEMMA AllNewOf == FreshCardAllNew <=> \A v \in Views : AllNew(scan[v])
BY DEF FreshCardAllNew, AllNew

LEMMA AllNewMoves ==
  ASSUME FreshCardAllNew, NEW v \in Views, \A w \in Views \ {v} : scan'[w] = scan[w], AllNew(scan'[v])
  PROVE  FreshCardAllNew'
<1>1. \A w \in Views : AllNew(scan[w])
  BY AllNewOf
<1>2. \A w \in Views : AllNew(scan'[w])
  BY <1>1
<1> QED
  BY <1>2 DEF FreshCardAllNew, AllNew

LEMMA ShownAllNew ==
  ASSUME FreshCardAllNew, NEW v \in Views, NEW f \in Files, NEW x, NEW S, Shown(v, f, x, S),
         x # "downloaded" \/ f \in S, scan[v] # NoScan
  PROVE  FreshCardAllNew'
<1>1. AllNew(scan[v])
  BY AllNewOf
<1>2. scan[v].status \in [Files -> {"new", "downloaded", "missing", "hidden"}]
  BY DEF Shown, Listings
<1>3. AllNew(scan'[v])
  BY <1>1, <1>2 DEF AllNew, Shown
<1> QED
  BY <1>3, AllNewMoves DEF Shown

LEMMA ClassifyAllNew ==
  ASSUME TypeInv, CheckInv, FreshCardAllNew, NEW v \in Views, Classify(v)
  PROVE  FreshCardAllNew'
<1> DEFINE c == cmd[v].card
           known == IF cmd[v].changed THEN EmptyLedger ELSE cmd[v].ledger
<1>1. /\ cmd[v] \in Checking /\ cmd[v].todo = {}
      /\ \E l \in Listings :
           /\ scan' = [scan EXCEPT ![v] = l]
           /\ l.certain = cmd[v].certain
           /\ l.fresh = \A k \in Keys : \A r \in cmd[v].ledger[k].pulled : r.crc # c
           /\ \A f \in Files : l.status[f] = Status(known[KeyOf(f, c)], KeyOf(f, c))
  BY ClassifyMoves
<1>2. PICK l \in Listings :
           /\ scan' = [scan EXCEPT ![v] = l]
           /\ l.certain = cmd[v].certain
           /\ l.fresh = \A k \in Keys : \A r \in cmd[v].ledger[k].pulled : r.crc # c
           /\ \A f \in Files : l.status[f] = Status(known[KeyOf(f, c)], KeyOf(f, c))
  BY <1>1
<1>3. ASSUME l.fresh, l.certain, NEW f \in Files PROVE l.status[f] # "downloaded"
  <2>1. Unseen(cmd[v].ledger, c)
    BY <1>2, <1>3 DEF Unseen
  <2>2. KeyOf(f, c) \in Keys /\ c \in Cards
    BY <1>1, KeyIsKey DEF Checking
  <2>3. known[KeyOf(f, c)].pulled = {} /\ known[KeyOf(f, c)].hidden \in BOOLEAN
    <3>1. CASE cmd[v].changed
      BY <2>2, <3>1 DEF EmptyLedger
    <3>2. CASE ~cmd[v].changed
      <4>1. cmd[v].step = "check" /\ cmd[v].certain
        BY <1>1, <1>2, <1>3 DEF Checking
      <4>2. Picks(Known(cmd[v].ledger, c)) = {}
        BY <1>1, <2>1, <3>2, <4>1 DEF CheckInv, CheckOf
      <4>3. Known(cmd[v].ledger, c) = {}
        BY <4>2, PicksOfSome DEF Known
      <4>4. cmd[v].ledger[KeyOf(f, c)].pulled = {}
        BY <4>3 DEF Known
      <4>5. cmd[v].ledger[KeyOf(f, c)].hidden \in BOOLEAN
        BY <1>1, <2>2 DEF Checking, Ledgers
      <4> QED
        BY <3>2, <4>4, <4>5
    <3> QED
      BY <3>1, <3>2
  <2> HIDE DEF known, c
  <2>4. Status(known[KeyOf(f, c)], KeyOf(f, c)) # "downloaded"
    BY <2>3, StatusOfNone
  <2> QED
    BY <1>2, <2>4
<1>4. scan'[v] = l /\ \A w \in Views \ {v} : scan'[w] = scan[w]
  BY <1>2 DEF TypeInv
<1>5. AllNew(scan'[v])
  BY <1>3, <1>4 DEF AllNew
<1> QED
  BY <1>4, <1>5, AllNewMoves

LEMMA FreshStep == TypeInv /\ CheckInv /\ FreshCardAllNew /\ [Next]_vars => FreshCardAllNew'
<1> SUFFICES ASSUME TypeInv, CheckInv, FreshCardAllNew, [Next]_vars PROVE FreshCardAllNew'
  OBVIOUS
<1>0. ASSUME UNCHANGED scan PROVE FreshCardAllNew'
  BY <1>0 DEF FreshCardAllNew
<1>1. CASE UNCHANGED vars
  BY <1>0, <1>1 DEF vars, viewVars
<1>2. ASSUME NEW v \in Views, scan'[v] \in {scan[v], NoScan}, \A w \in Views \ {v} : scan'[w] = scan[w]
      PROVE  FreshCardAllNew'
  <2>1. AllNew(scan'[v])
    BY <1>2, AllNewOf DEF AllNew
  <2> QED
    BY <1>2, <2>1, AllNewMoves
<1>3. ASSUME NEW v \in Views, Refused(v) \/ Error(v) PROVE FreshCardAllNew'
  BY <1>2, <1>3, RefusedMoves, ErrorMoves
<1>4. ASSUME NEW v \in Views,
             \/ List(v) \/ BeginScan(v) \/ ListCard(v) \/ SpotCheck(v) \/ SpotCheckFails(v)
      PROVE  UNCHANGED scan
  BY <1>4, ListMoves, BeginScanMoves, ListCardMoves, SpotCheckMoves, SpotCheckFailsMoves
<1>5. ASSUME NEW v \in Views,
             \/ Download(v) \/ BeginPull(v) \/ Relist(v) \/ CardChanged(v) \/ Open(v) \/ Read(v)
             \/ ReadFails(v) \/ UniquePath(v) \/ Rename(v)
      PROVE  UNCHANGED scan
  BY <1>5, DownloadMoves, BeginPullMoves, RelistMoves, CardChangedMoves, OpenMoves, ReadMoves, ReadFailsMoves,
     UniquePathMoves, RenameMoves
<1>6. ASSUME NEW v \in Views, Record(v) PROVE FreshCardAllNew'
  <2>1. Shown(v, cmd[v].file, "downloaded", {cmd[v].file}) /\ cmd[v] \in Writing
    BY <1>6, RecordMoves
  <2>2. cmd[v].file \in Files /\ scan[v] # NoScan
    BY <2>1, OpOf DEF Writing, TypeInv
  <2> QED
    BY <2>1, <2>2, ShownAllNew
<1>7. ASSUME NEW v \in Views, NEW f \in Files, NEW a \in {"hide", "unhide", "forget"}, Mark(v, f, a)
      PROVE  FreshCardAllNew'
  <2>1. PICK x \in {"hidden", "new"} : Shown(v, f, x, {})
    BY <1>7, MarkMoves
  <2>2. scan[v] # NoScan /\ x # "downloaded"
    BY <1>7 DEF Mark
  <2> QED
    BY <2>1, <2>2, ShownAllNew
<1>8. ASSUME NEW v \in Views, Cancel(v) PROVE UNCHANGED scan
  BY <1>8, OutsideMoves
<1>9. ASSUME NEW p \in Paths, Delete(p) PROVE UNCHANGED scan
  BY <1>9, OutsideMoves
<1>10. CASE Swap
  BY <1>0, <1>10, OutsideMoves
<1>11. CASE Crash
  BY <1>11, OutsideMoves DEF FreshCardAllNew
<1> QED
  BY <1>0, <1>1, <1>3, <1>4, <1>5, <1>6, <1>7, <1>8, <1>9, <1>10, <1>11, ClassifyAllNew DEF Next

(* A card nothing was ever pulled from is shown with nothing downloaded,   *)
(* although names and sizes of its files are on record from another card,  *)
(* as long as the spot checks could run (logs.rs:59-63, 588-590): picked   *)
(* is at least one of the files on record, whatever the number of checks.  *)
THEOREM FreshCardIsAllNew == Spec => []FreshCardAllNew
<1>1. Init => CheckInv
  BY OpOf DEF Init, CheckInv, CheckOf, None
<1>2. Init => FreshCardAllNew
  BY DEF Init, FreshCardAllNew
<1> QED
  BY <1>1, <1>2, TypeInvariant, CheckStep, FreshStep, PTL DEF Spec
=============================================================================
