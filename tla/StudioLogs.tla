----------------------------- MODULE StudioLogs -----------------------------
(***************************************************************************)
(* Data logs in Studio (apps/can-studio, src-tauri/src/logs.rs and         *)
(* lib/DataLogsView.svelte): listing the card of a node against this       *)
(* laptop's download ledger, pulling files and recording them.             *)
(*                                                                         *)
(* A view asks for one command at a time, but a view that was left still   *)
(* has its download running, so several may ask at once.  The transfer of  *)
(* one file is module LogfsPull; here it is one step that ends with the    *)
(* bytes of the card it was opened on, or not at all.  A card stands for   *)
(* the contents, and so for the CRCs, of its files: a file's name and size *)
(* come back on another card, its contents do not.                         *)
(***************************************************************************)
EXTENDS Integers, FiniteSets, FiniteSetsExt

CONSTANTS
  Views,       \* Data logs views, the one on screen and those left running
  Files,       \* LOGFS indices; index and name go together
  Cards,       \* cards the node may hold
  SizeOf,      \* card -> file -> its size
  MaxCopies,   \* MAX_COPIES: paths a name may take in the folder
  SpotChecks,  \* SPOT_CHECKS
  ChecksFail,  \* an OPEN of the scan may fail, or find no sealed CRC
  MaxEvents    \* bound: downloads, swaps, deletions, marks, failures, crashes

ASSUME CardAssumption ==
  /\ Files \subseteq Nat
  /\ \A c \in Cards : DOMAIN SizeOf[c] = Files
  /\ MaxCopies \in Nat \ {0} /\ SpotChecks \in Nat \ {0}
  /\ ChecksFail \in BOOLEAN /\ MaxEvents \in Nat

None == "none"
Idle == [op |-> None, step |-> None]     \* a view that waits for nothing
NoScan == [card |-> None]                \* and one that shows no listing

Keys == {<<f, SizeOf[c][f]>> : f \in Files, c \in Cards}   \* FileKey of one node
Paths == Files \X (1..MaxCopies)                           \* <name>_<n>

VARIABLES
  card,      \* the card in the node
  copies,    \* path -> the card its contents came from, None when there is none
  ledger,    \* the ledger replayed: key -> KeyState, its downloads as [crc, path]
  busy,      \* LOGS_BUSY
  cancel,    \* CANCEL_PULL
  cmd,       \* view -> the command it is waiting for
  queue,     \* view -> files still to pull
  scan,      \* view -> the listing on screen
  landed,    \* history: the path and contents of every file renamed into place
  events

diskVars == <<copies, ledger, landed>>
viewVars == <<queue, scan>>
vars == <<card, diskVars, busy, cancel, cmd, viewVars, events>>

EmptyLedger == [k \in Keys |-> [pulled |-> {}, hidden |-> FALSE]]

Init ==
  /\ card \in Cards
  /\ copies = [p \in Paths |-> None]
  /\ ledger = EmptyLedger
  /\ busy = FALSE /\ cancel = FALSE
  /\ cmd = [v \in Views |-> Idle]
  /\ queue = [v \in Views |-> {}] /\ scan = [v \in Views |-> NoScan]
  /\ landed = {} /\ events = 0

Event == events < MaxEvents /\ events' = events + 1

KeyOf(f, c) == <<f, SizeOf[c][f]>>

At(v, step) == cmd[v].step = step
Goto(v, step) == cmd' = [cmd EXCEPT ![v].step = step]

PullCmd(f, k) == [op |-> "pull", step |-> "invoked", file |-> f, key |-> k]

------------------------------------------------------------------------------
(* The view.                                                                 *)

\* rescan
List(v) ==
  /\ cmd[v] = Idle
  /\ cmd' = [cmd EXCEPT ![v] = [op |-> "scan", step |-> "invoked"]]
  /\ UNCHANGED <<card, diskVars, busy, cancel, viewVars, events>>

\* download, with the files selected of the listing
Download(v) ==
  /\ cmd[v] = Idle /\ scan[v] # NoScan /\ Event
  /\ \E S \in SUBSET Files : \E f \in S :
       /\ cmd' = [cmd EXCEPT ![v] = PullCmd(f, KeyOf(f, scan[v].card))]
       /\ queue' = [queue EXCEPT ![v] = S \ {f}]
  /\ UNCHANGED <<card, diskVars, busy, cancel, scan>>

\* cancelNow, and onDestroy of a view whose download is running
Cancel(v) ==
  /\ cmd[v].op = "pull"
  /\ cancel' = TRUE
  /\ UNCHANGED <<card, diskVars, busy, cmd, viewVars, events>>

\* What the download loop does with a pull that was saved.
NextPull(v) ==
  \/ /\ cmd' = [cmd EXCEPT ![v] = Idle]      \* the queue is empty, or stopAfter
     /\ queue' = [queue EXCEPT ![v] = {}]
  \/ \E f \in queue[v] :
       /\ cmd' = [cmd EXCEPT ![v] = PullCmd(f, KeyOf(f, scan[v].card))]
       /\ queue' = [queue EXCEPT ![v] = @ \ {f}]

(* Mutant: an error return leaves the adapter marked as taken.               *)
FailedLeaking(v) ==
  /\ cmd' = [cmd EXCEPT ![v] = Idle] /\ queue' = [queue EXCEPT ![v] = {}]
  /\ busy' = busy

\* An error ends the download, and drops the listing when it was a scan.
Failed(v) ==
  /\ cmd' = [cmd EXCEPT ![v] = Idle] /\ queue' = [queue EXCEPT ![v] = {}]
  /\ busy' = FALSE

------------------------------------------------------------------------------
(* Both commands.                                                            *)

(* Mutant: a pull clears the cancel flag before it has the adapter.          *)
RefusedClearing(v) ==
  /\ At(v, "invoked") /\ busy
  /\ cmd' = [cmd EXCEPT ![v] = Idle] /\ queue' = [queue EXCEPT ![v] = {}]
  /\ scan' = IF cmd[v].op = "scan" THEN [scan EXCEPT ![v] = NoScan] ELSE scan
  /\ cancel' = (cancel /\ cmd[v].op = "scan")
  /\ UNCHANGED <<card, diskVars, busy, events>>

\* BusyGuard::acquire fails.
Refused(v) ==
  /\ At(v, "invoked") /\ busy
  /\ cmd' = [cmd EXCEPT ![v] = Idle] /\ queue' = [queue EXCEPT ![v] = {}]
  /\ scan' = IF cmd[v].op = "scan" THEN [scan EXCEPT ![v] = NoScan] ELSE scan
  /\ UNCHANGED <<card, diskVars, busy, cancel, events>>

(* Mutant: the flag is set without looking at it.                            *)
TakeAdapter == busy' = TRUE

\* BusyGuard::acquire
Acquire == ~busy /\ busy' = TRUE

\* The folder, the adapter, a round trip or the disk fails.
Error(v) ==
  /\ cmd[v].step \in {"list", "relist", "open", "read", "write"}
  /\ Event /\ Failed(v)
  /\ scan' = IF cmd[v].op = "scan" THEN [scan EXCEPT ![v] = NoScan] ELSE scan
  /\ UNCHANGED <<card, diskVars, cancel>>

------------------------------------------------------------------------------
(* logs_scan                                                                 *)

BeginScan(v) ==
  /\ At(v, "invoked") /\ cmd[v].op = "scan" /\ Acquire
  /\ \/ /\ cmd' = [cmd EXCEPT ![v] = [op |-> "scan", step |-> "list", ledger |-> ledger]]
        /\ events' = events
     \/ /\ cmd' = [cmd EXCEPT ![v] =      \* read_ledger fails: everything is new
             [op |-> "scan", step |-> "list", ledger |-> EmptyLedger]]
        /\ Event
  /\ UNCHANGED <<card, diskVars, cancel, viewVars>>

\* pick_spot_checks: the lowest, the middle and the highest index.
Picks(S) ==
  LET Rank(f) == Cardinality({g \in S : g < f})
  IN IF Cardinality(S) <= SpotChecks THEN S
     ELSE {f \in S : Rank(f) \in {0, Cardinality(S) \div 2, Cardinality(S) - 1}}

ListCard(v) ==
  /\ At(v, "list")
  /\ LET known == {f \in Files : cmd[v].ledger[KeyOf(f, card)].pulled # {}}
     IN cmd' = [cmd EXCEPT ![v] =
          [op |-> "scan", step |-> "check", ledger |-> cmd[v].ledger, card |-> card,
           todo |-> Picks(known), changed |-> FALSE, certain |-> TRUE]]
  /\ UNCHANGED <<card, diskVars, busy, cancel, viewVars, events>>

(* Mutant: any download of the file on record vouches for the card.          *)
AnyRecordVouches(records, c) == records # {}

\* A download of these bytes is on record.
Vouched(records, c) == \E r \in records : r.crc = c

\* sealed_crc of the next pick; `certain` is the model's note that it was
\* compared, on the card that was listed.
SpotCheck(v) ==
  /\ At(v, "check") /\ cmd[v].todo # {}
  /\ LET f == Min(cmd[v].todo)
         ok == Vouched(cmd[v].ledger[KeyOf(f, cmd[v].card)].pulled, card)
     IN cmd' = [cmd EXCEPT ![v].todo = IF ok THEN @ \ {f} ELSE {},
                           ![v].changed = ~ok,
                           ![v].certain = @ /\ card = cmd[v].card]
  /\ UNCHANGED <<card, diskVars, busy, cancel, viewVars, events>>

\* No sealed CRC goes on to the next pick, an error ends the checks.
SpotCheckFails(v) ==
  /\ At(v, "check") /\ cmd[v].todo # {} /\ ChecksFail /\ Event
  /\ \E rest \in {{}, cmd[v].todo \ {Min(cmd[v].todo)}} :
       cmd' = [cmd EXCEPT ![v].todo = rest, ![v].certain = FALSE]
  /\ UNCHANGED <<card, diskVars, busy, cancel, viewVars>>

\* file_on_disk: a file of the listed size, whatever is in it.
OnDisk(p, size) == copies[p] # None /\ SizeOf[copies[p]][p[1]] = size

\* classify
Status(state, k) ==
  LET present == \E r \in state.pulled : OnDisk(r.path, k[2])
  IN CASE state.hidden                                      -> "hidden"
       [] ~state.hidden /\ present                          -> "downloaded"
       [] ~state.hidden /\ ~present /\ state.pulled # {}    -> "missing"
       [] ~state.hidden /\ state.pulled = {}                -> "new"

\* Three fields are the model's notes: whether no download of this card was on
\* record, the files of this card on the disk, and those pulled since.
Classify(v) ==
  /\ At(v, "check") /\ cmd[v].todo = {}
  /\ LET c == cmd[v].card
         known == IF cmd[v].changed THEN EmptyLedger ELSE cmd[v].ledger
     IN scan' = [scan EXCEPT ![v] =
          [card |-> c, certain |-> cmd[v].certain,
           fresh |-> \A k \in Keys : \A r \in cmd[v].ledger[k].pulled : r.crc # c,
           here |-> {f \in Files : \E n \in 1..MaxCopies : copies[<<f, n>>] = c},
           since |-> {},
           status |-> [f \in Files |-> Status(known[KeyOf(f, c)], KeyOf(f, c))]]]
  /\ cmd' = [cmd EXCEPT ![v] = Idle]
  /\ busy' = FALSE
  /\ UNCHANGED <<card, diskVars, cancel, queue, events>>

------------------------------------------------------------------------------
(* logs_pull                                                                 *)

BeginPull(v) ==
  /\ At(v, "invoked") /\ cmd[v].op = "pull" /\ Acquire
  /\ cancel' = FALSE
  /\ Goto(v, "relist")
  /\ UNCHANGED <<card, diskVars, viewVars, events>>

\* The index must still be the file that was listed.
Relist(v) ==
  /\ At(v, "relist") /\ KeyOf(cmd[v].file, card) = cmd[v].key
  /\ Goto(v, "open")
  /\ UNCHANGED <<card, diskVars, busy, cancel, viewVars, events>>

\* CARD_CHANGED_MSG: the view lists the card again.
CardChanged(v) ==
  /\ At(v, "relist") /\ KeyOf(cmd[v].file, card) # cmd[v].key
  /\ busy' = FALSE /\ queue' = [queue EXCEPT ![v] = {}]
  /\ cmd' = [cmd EXCEPT ![v] = [op |-> "scan", step |-> "invoked"]]
  /\ UNCHANGED <<card, diskVars, cancel, scan, events>>

Open(v) ==
  /\ At(v, "open")
  /\ cmd' = [cmd EXCEPT ![v] =
       [op |-> "pull", step |-> "read", file |-> @.file, key |-> @.key, src |-> card]]
  /\ UNCHANGED <<card, diskVars, busy, cancel, viewVars, events>>

\* The last read of the file, CRC checked; another card's bytes do not pass.
Read(v) ==
  /\ At(v, "read") /\ ~cancel /\ card = cmd[v].src
  /\ Goto(v, "path")
  /\ UNCHANGED <<card, diskVars, busy, cancel, viewVars, events>>

ReadFails(v) ==
  /\ At(v, "read") /\ (cancel \/ card # cmd[v].src)
  /\ Failed(v)
  /\ UNCHANGED <<card, diskVars, cancel, scan, events>>

\* The transfer m has its path.
Saving(m, path) ==
  [op |-> "pull", step |-> "write", file |-> m.file, key |-> m.key, src |-> m.src, path |-> path]

(* Mutant: the download is recorded when its path is known, before the file  *)
(* is renamed into place.                                                    *)
UniquePathRecords(v) ==
  /\ At(v, "path") /\ copies[<<cmd[v].file, 1>>] = None
  /\ cmd' = [cmd EXCEPT ![v] = Saving(@, <<cmd[v].file, 1>>)]
  /\ ledger' = [ledger EXCEPT ![cmd[v].key].pulled =
       @ \union {[crc |-> cmd[v].src, path |-> <<cmd[v].file, 1>>]}]
  /\ UNCHANGED <<card, copies, landed, busy, queue, cancel, scan, events>>

\* unique_path
UniquePath(v) ==
  /\ At(v, "path")
  /\ LET free == {n \in 1..MaxCopies : copies[<<cmd[v].file, n>>] = None}
     IN \/ /\ free # {}
           /\ cmd' = [cmd EXCEPT ![v] = Saving(@, <<cmd[v].file, Min(free)>>)]
           /\ UNCHANGED <<busy, queue>>
        \/ free = {} /\ Failed(v)
  /\ UNCHANGED <<card, diskVars, cancel, scan, events>>

\* write_atomically: the whole file appears under its name at the rename.
Rename(v) ==
  /\ At(v, "write")
  /\ copies' = [copies EXCEPT ![cmd[v].path] = cmd[v].src]
  /\ landed' = landed \union {<<cmd[v].path, cmd[v].src>>}
  /\ Goto(v, "record")
  /\ UNCHANGED <<card, ledger, busy, cancel, viewVars, events>>

\* append_ledger, or the error the result carries; the pull succeeds either way.
Record(v) ==
  /\ At(v, "record")
  /\ \/ /\ ledger' = [ledger EXCEPT ![cmd[v].key].pulled =
             @ \union {[crc |-> cmd[v].src, path |-> cmd[v].path]}]
        /\ events' = events
     \/ Event /\ ledger' = ledger
  /\ scan' = [scan EXCEPT ![v].status[cmd[v].file] = "downloaded",
                          ![v].since = @ \union {cmd[v].file}]
  /\ NextPull(v)
  /\ busy' = FALSE
  /\ UNCHANGED <<card, copies, landed, cancel>>

------------------------------------------------------------------------------
(* The operator, the card and the process.                                   *)

\* logs_mark does not take the adapter; mark in the view then shows the file as
\* it was told, and lists the card again after an unhide.
Mark(v, f, action) ==
  /\ scan[v] # NoScan /\ Event
  /\ LET k == KeyOf(f, scan[v].card)
     IN ledger' = CASE action = "forget" -> [ledger EXCEPT ![k].pulled = {}]
                    [] action = "hide"   -> [ledger EXCEPT ![k].hidden = TRUE]
                    [] action = "unhide" -> [ledger EXCEPT ![k].hidden = FALSE]
  /\ scan' = [scan EXCEPT ![v].status[f] = IF action = "hide" THEN "hidden" ELSE "new"]
  /\ cmd' = IF action = "unhide" /\ cmd[v] = Idle
              THEN [cmd EXCEPT ![v] = [op |-> "scan", step |-> "invoked"]] ELSE cmd
  /\ UNCHANGED <<card, copies, landed, busy, cancel, queue>>

Delete(p) ==
  /\ copies[p] # None /\ Event
  /\ copies' = [copies EXCEPT ![p] = None]
  /\ UNCHANGED <<card, ledger, landed, busy, cancel, cmd, viewVars>>

Swap ==
  /\ Event /\ card' \in Cards \ {card}
  /\ UNCHANGED <<diskVars, busy, cancel, cmd, viewVars>>

\* The application ends, and is started again: the disk is what it was.
Crash ==
  /\ Event
  /\ busy' = FALSE /\ cancel' = FALSE
  /\ cmd' = [v \in Views |-> Idle]
  /\ queue' = [v \in Views |-> {}] /\ scan' = [v \in Views |-> NoScan]
  /\ UNCHANGED <<card, diskVars>>

Next ==
  \/ \E v \in Views :
       \/ List(v) \/ Download(v) \/ Cancel(v)
       \/ Refused(v) \/ Error(v)
       \/ BeginScan(v) \/ ListCard(v) \/ SpotCheck(v) \/ SpotCheckFails(v) \/ Classify(v)
       \/ BeginPull(v) \/ Relist(v) \/ CardChanged(v) \/ Open(v) \/ Read(v) \/ ReadFails(v)
       \/ UniquePath(v) \/ Rename(v) \/ Record(v)
  \/ \E v \in Views, f \in Files, a \in {"hide", "unhide", "forget"} : Mark(v, f, a)
  \/ \E p \in Paths : Delete(p)
  \/ Swap \/ Crash

Spec == Init /\ [][Next]_vars

------------------------------------------------------------------------------
(* Properties.                                                               *)

Steps == {"invoked", "list", "check", "relist", "open", "read", "path", "write", "record"}

(* The flags, the disk, the ledger and what the views show have their types. *)
TypeOK ==
  /\ card \in Cards
  /\ copies \in [Paths -> Cards \union {None}]
  /\ ledger \in [Keys -> [pulled : SUBSET [crc : Cards, path : Paths], hidden : BOOLEAN]]
  /\ busy \in BOOLEAN /\ cancel \in BOOLEAN
  /\ \A v \in Views : cmd[v] # Idle => cmd[v].op \in {"scan", "pull"} /\ cmd[v].step \in Steps
  /\ queue \in [Views -> SUBSET Files]
  /\ \A v \in Views : scan[v] # NoScan =>
       scan[v].status \in [Files -> {"new", "downloaded", "missing", "hidden"}]
  /\ landed \subseteq Paths \X Cards
  /\ events \in 0..MaxEvents

Holders == {v \in Views : cmd[v].step \notin {None, "invoked"}}

(* There is one adapter: at most one command is past BusyGuard::acquire, and *)
(* every way out of it, errors included, gives the adapter back              *)
(* (logs.rs:70-110).                                                         *)
AdapterHeldOnce == Cardinality(Holders) <= 1 /\ (busy <=> Holders # {})

(* A cancel that reached a transfer holds until the transfer has ended: a    *)
(* pull another view asks for meanwhile is refused before it can clear the   *)
(* flag (logs.rs:728-729).                                                   *)
CancelHolds ==
  [][cancel /\ (\E v \in Views : At(v, "read")) =>
       cancel' \/ ~(\E v \in Views : At(v, "read"))']_vars

(* A pull never writes over a file that is there, though unique_path looks   *)
(* for a free name some steps before the rename (log_decode.rs:373-412).     *)
NoClobber ==
  [][\A p \in Paths : copies[p] # None => copies'[p] \in {copies[p], None}]_vars

(* Whatever crashes, a download is on record only for a file whose bytes     *)
(* were renamed into place: a record can be lost, never be early             *)
(* (logs.rs:798-801).                                                        *)
RecordsFollowFiles ==
  \A k \in Keys : \A r \in ledger[k].pulled : <<r.path, r.crc>> \in landed

(* A card nothing was ever pulled from is shown with nothing downloaded,     *)
(* although names and sizes of its files are on record from another card, as *)
(* long as the spot checks could run (logs.rs:59-63, 588-590).               *)
FreshCardAllNew ==
  \A v \in Views : scan[v] # NoScan /\ scan[v].fresh /\ scan[v].certain =>
    \A f \in Files \ scan[v].since : scan[v].status[f] # "downloaded"

(* "the ledger can never hide a log that isn't really here" (logs.rs:12-14): *)
(* a file shown as downloaded has a copy of its bytes on this disk, at least *)
(* when every spot check ran on the card that was listed.                    *)
NoFalseDownload ==
  \A v \in Views : scan[v] # NoScan /\ scan[v].certain =>
    \A f \in Files : scan[v].status[f] = "downloaded" => f \in scan[v].here \union scan[v].since
==============================================================================
