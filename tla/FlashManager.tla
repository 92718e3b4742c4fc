--------------------------- MODULE FlashManager ---------------------------
(***************************************************************************)
(* The flash engine (src/flash/mod.rs) driving the bootloader's flash      *)
(* through send_command_retrying, run after run: plan by CRC, erase,       *)
(* write, verify, commit.  A run may fail or be interrupted; the next one  *)
(* finds the flash as it was left.                                         *)
(*                                                                         *)
(* The link is the one of module Session, seen from the one caller that    *)
(* the engine is: commands are served in order, the reply channel is       *)
(* emptied of what has arrived before each transmission, and the head of   *)
(* what arrives afterwards is taken as the answer.  A CRC is modelled by   *)
(* the contents it is computed from: there are no collisions.              *)
(***************************************************************************)
EXTENDS Naturals, Sequences, FiniteSets

CONSTANTS
    NSectors,     \* sectors of the image: 1 .. NSectors
    NChunks,      \* write chunks of a sector
    Image,        \* Image[s][k]: contents of chunk k of sector s, Blank past the end
    ImageLen,     \* chunks of the image proper, the rest of Image is padding
    Blank,        \* 0xFF bytes, the contents of erased flash
    Old, Bad,     \* another image's bytes; a mis-programmed chunk
    Configs,      \* the FlashConfigs a run may have
    MaxAttempts,  \* FLASH_CMD_ATTEMPTS
    LinkModes,    \* values of `late`
    MaxRuns,      \* bound: invocations of the tool when no reply is late
    MaxTicks,     \* bound: keepalive ticks between commands, likewise
    MaxFaults     \* bound: losses, refusals, glitches, expiries, interrupts

Sectors  == 1 .. NSectors
Chunks   == 1 .. NChunks
Contents == {Blank, Old, Bad} \cup {Image[s][k] : s \in Sectors, k \in Chunks}
Flash    == [Sectors -> [Chunks -> Contents]]

FlashConfig == [diff : BOOLEAN, dryRun : BOOLEAN, verifyAfter : BOOLEAN, finalCommit : BOOLEAN]

ASSUME FlashAssumption ==
    /\ NSectors \in Nat \ {0} /\ NChunks \in Nat \ {0}
    /\ Image \in Flash
    /\ Cardinality({Blank, Old, Bad}) = 3
    /\ \A s \in Sectors, k \in Chunks : Image[s][k] \notin {Old, Bad}
    /\ ImageLen \in 1 .. NSectors * NChunks
    /\ Configs \subseteq FlashConfig
    /\ MaxAttempts \in Nat \ {0}
    /\ LinkModes \subseteq BOOLEAN
    /\ MaxRuns \in Nat \ {0} /\ MaxTicks \in Nat /\ MaxFaults \in Nat

VARIABLES
    late,     \* a reply may arrive after its command timed out
    run,      \* number of the invocation
    config,   \* FlashManager.config
    pc,       \* stage of `run`
    sector,   \* the sector the loops are at
    chunk,    \* the chunk write_sector is at
    roles,    \* the plan: "none" yet, "skip" or "write"
    erased, written, skipped,  \* the report's three lists
    attempt,  \* attempt of send_command_retrying
    await,    \* "no", "reply" (of the command) or "tick" (of a keepalive)
    failure,  \* why the run failed
    h2d, d2h, \* commands and replies in flight
    session,  \* the bootloader's session latch
    flash,    \* the app region
    committed, \* the metadata FLASHWORD was written for this image
    resent,   \* a WRITE of this run was sent more than once
    ticks, faults

planVars == <<roles, erased, written, skipped>>
hostVars == <<late, run, config, pc, sector, chunk, planVars, attempt, await, failure, resent, ticks>>
devVars  == <<session, flash, committed>>
vars == <<hostVars, h2d, d2h, devVars, faults>>

Ends     == {"done", "failed", "interrupted"}
Commands == {"plan", "erase", "write", "verify", "commit"}

(* The command each stage sends; verify_sector reuses read_sector_crc.     *)
Opcode == [plan |-> "READ_CRC", erase |-> "ERASE", write |-> "WRITE",
           verify |-> "READ_CRC", commit |-> "VERIFY"]

Fault == faults < MaxFaults /\ faults' = faults + 1

(* Late replies are explored within one run, without ticks.                *)
Runs  == IF late THEN 1 ELSE MaxRuns
Ticks == IF late THEN 0 ELSE MaxTicks

-----------------------------------------------------------------------------
(* The engine between two commands.                                        *)

BeginRun(c) ==
    /\ config' = c
    /\ pc' = IF c.diff THEN "plan" ELSE "exec"
    /\ sector' = 1 /\ chunk' = 1
    /\ roles' = [s \in Sectors |-> IF c.diff THEN "none" ELSE "write"]
    /\ erased' = {} /\ written' = {} /\ skipped' = {}
    /\ attempt' = 1 /\ await' = "no" /\ failure' = "none" /\ resent' = FALSE

Init ==
    /\ late \in LinkModes
    /\ run = 1
    /\ config \in Configs
    /\ pc = IF config.diff THEN "plan" ELSE "exec"
    /\ sector = 1 /\ chunk = 1
    /\ roles = [s \in Sectors |-> IF config.diff THEN "none" ELSE "write"]
    /\ erased = {} /\ written = {} /\ skipped = {}
    /\ attempt = 1 /\ await = "no" /\ failure = "none" /\ resent = FALSE
    /\ h2d = <<>> /\ d2h = <<>>
    /\ session = TRUE
    /\ flash \in {f \in Flash : \A s \in Sectors, k \in Chunks : f[s][k] \in {Blank, Old, Image[s][k]}}
    /\ committed = FALSE
    /\ ticks = 0 /\ faults = 0

(* Mutant: the execute loop forgets that the run is dry.                   *)
ExecuteDryToo ==
    /\ pc = "exec" /\ sector \in Sectors
    /\ IF roles[sector] = "skip"
       THEN /\ skipped' = skipped \cup {sector}
            /\ sector' = sector + 1
            /\ UNCHANGED <<pc, chunk>>
       ELSE /\ pc' = "erase" /\ chunk' = 1
            /\ UNCHANGED <<sector, skipped>>
    /\ UNCHANGED <<late, run, config, roles, erased, written, attempt, await, failure, resent, ticks,
                   h2d, d2h, devVars, faults>>

(* Mutant: sectors are written without being erased.                       *)
ExecuteNoErase ==
    /\ pc = "exec" /\ sector \in Sectors
    /\ IF roles[sector] = "skip" \/ config.dryRun
       THEN /\ sector' = sector + 1
            /\ UNCHANGED <<pc, chunk>>
       ELSE /\ pc' = "write" /\ chunk' = 1
            /\ UNCHANGED sector
    /\ UNCHANGED <<late, run, config, planVars, attempt, await, failure, resent, ticks, h2d, d2h,
                   devVars, faults>>

(* The head of the execute loop: Skip, dry run, or erase-write-verify.     *)
Execute ==
    /\ pc = "exec" /\ sector \in Sectors
    /\ CASE roles[sector] = "skip" ->
              /\ skipped' = skipped \cup {sector}
              /\ sector' = sector + 1
              /\ UNCHANGED <<pc, chunk, written>>
         [] roles[sector] = "write" /\ config.dryRun ->
              /\ written' = written \cup {sector}
              /\ sector' = sector + 1
              /\ UNCHANGED <<pc, chunk, skipped>>
         [] OTHER ->
              /\ pc' = "erase" /\ chunk' = 1
              /\ UNCHANGED <<sector, written, skipped>>
    /\ UNCHANGED <<late, run, config, roles, erased, attempt, await, failure, resent, ticks, h2d, d2h,
                   devVars, faults>>

(* Mutant: the run ends without its commit.                                *)
ConcludeNoCommit ==
    /\ pc = "exec" /\ sector \notin Sectors
    /\ pc' = "done"
    /\ UNCHANGED <<late, run, config, sector, chunk, planVars, attempt, await, failure, resent, ticks,
                   h2d, d2h, devVars, faults>>

(* After the last sector: the commit, unless it is off or the run is dry.  *)
Conclude ==
    /\ pc = "exec" /\ sector \notin Sectors
    /\ pc' = IF config.finalCommit /\ ~config.dryRun THEN "commit" ELSE "done"
    /\ UNCHANGED <<late, run, config, sector, chunk, planVars, attempt, await, failure, resent, ticks,
                   h2d, d2h, devVars, faults>>

-----------------------------------------------------------------------------
(* send_command_retrying over the link.                                    *)

Request == [op |-> Opcode[pc], sector |-> sector, chunk |-> chunk]

(* The drain discards the replies that have arrived, then the command goes *)
(* out.                                                                    *)
Send ==
    /\ pc \in Commands /\ await = "no"
    /\ \E n \in 0 .. Len(d2h) :
          /\ late \/ n = Len(d2h)
          /\ d2h' = SubSeq(d2h, n + 1, Len(d2h))
    /\ h2d' = Append(h2d, Request)
    /\ await' = "reply"
    /\ resent' = (resent \/ (pc = "write" /\ attempt > 1))
    /\ UNCHANGED <<late, run, config, pc, sector, chunk, planVars, attempt, failure, ticks, devVars, faults>>

Fail(why) == pc' = "failed" /\ failure' = why

RetryOrFail(why) ==
    IF attempt < MaxAttempts
    THEN attempt' = attempt + 1 /\ UNCHANGED <<pc, failure>>
    ELSE Fail(why) /\ UNCHANGED attempt

(* A local send error is transient like a timeout.                         *)
SendFails ==
    /\ pc \in Commands /\ await = "no" /\ Fault
    /\ RetryOrFail("transport")
    /\ UNCHANGED <<late, run, config, sector, chunk, planVars, await, resent, ticks, h2d, d2h, devVars>>

Quiet == h2d = <<>> /\ d2h = <<>>

CommandTimeout ==
    /\ await = "reply" /\ (late \/ Quiet)
    /\ await' = "no"
    /\ RetryOrFail("timeout")
    /\ UNCHANGED <<late, run, config, sector, chunk, planVars, resent, ticks, h2d, d2h, devVars, faults>>

(* The keepalive task gets the lock between two commands: it sends         *)
(* GET_HEALTH without draining and takes one reply, or times out.          *)
KeepaliveSend ==
    /\ pc \in Commands /\ await = "no" /\ attempt = 1 /\ ticks < Ticks
    /\ ticks' = ticks + 1
    /\ h2d' = Append(h2d, [op |-> "HEALTH", sector |-> sector, chunk |-> chunk])
    /\ await' = "tick"
    /\ UNCHANGED <<late, run, config, pc, sector, chunk, planVars, attempt, failure, resent, d2h, devVars, faults>>

KeepaliveEnds ==
    /\ await = "tick"
    /\ IF d2h # <<>> THEN d2h' = Tail(d2h) ELSE (late \/ Quiet) /\ UNCHANGED d2h
    /\ await' = "no"
    /\ UNCHANGED <<late, run, config, pc, sector, chunk, planVars, attempt, failure, resent, ticks, h2d,
                   devVars, faults>>

-----------------------------------------------------------------------------
(* What each stage does with the ACK of its command.                       *)

Planned(crc) ==
    /\ roles' = [roles EXCEPT ![sector] = IF crc = Image[sector] THEN "skip" ELSE "write"]
    /\ sector' = IF sector = NSectors THEN 1 ELSE sector + 1
    /\ pc' = IF sector = NSectors THEN "exec" ELSE "plan"
    /\ UNCHANGED <<erased, written, chunk, failure>>

Erased ==
    /\ erased' = erased \cup {sector}
    /\ pc' = "write"
    /\ UNCHANGED <<roles, written, sector, chunk, failure>>

SectorDone ==
    /\ written' = written \cup {sector}
    /\ sector' = sector + 1
    /\ pc' = "exec"
    /\ UNCHANGED <<roles, erased, chunk, failure>>

ChunkWritten ==
    IF chunk < NChunks
    THEN chunk' = chunk + 1 /\ UNCHANGED <<roles, erased, written, sector, pc, failure>>
    ELSE IF config.verifyAfter
         THEN pc' = "verify" /\ UNCHANGED <<roles, erased, written, sector, chunk, failure>>
         ELSE SectorDone

(* Mutant: the CRC read back is not compared.                              *)
VerifiedUnchecked(crc) == SectorDone

Verified(crc) ==
    IF crc = Image[sector]
    THEN SectorDone
    ELSE Fail("crc_mismatch") /\ UNCHANGED <<roles, erased, written, sector, chunk>>

Committed == pc' = "done" /\ UNCHANGED <<roles, erased, written, sector, chunk, failure>>

(* The reply at the head of the channel, whatever command it answers: a    *)
(* transient NACK is retried, any other NACK or an ACK of another opcode   *)
(* ends the run.                                                           *)
Reply ==
    /\ await = "reply" /\ d2h # <<>>
    /\ d2h' = Tail(d2h)
    /\ await' = "no"
    /\ LET r == Head(d2h) IN
       \/ /\ r.res = "transient"
          /\ RetryOrFail("transport")
          /\ UNCHANGED <<sector, chunk, roles, erased, written>>
       \/ /\ r.res \notin {"ack", "transient"}
          /\ Fail(IF pc = "commit" /\ r.res = "crc_mismatch" THEN "final_verify" ELSE r.res)
          /\ UNCHANGED <<sector, chunk, roles, erased, written, attempt>>
       \/ /\ r.res = "ack" /\ r.op # Opcode[pc]
          /\ Fail("unexpected")
          /\ UNCHANGED <<sector, chunk, roles, erased, written, attempt>>
       \/ /\ r.res = "ack" /\ r.op = Opcode[pc]
          /\ attempt' = 1
          /\ CASE pc = "plan"   -> Planned(r.crc)
               [] pc = "erase"  -> Erased
               [] pc = "write"  -> ChunkWritten
               [] pc = "verify" -> Verified(r.crc)
               [] pc = "commit" -> Committed
    /\ UNCHANGED <<late, run, config, skipped, resent, ticks, h2d, devVars, faults>>

-----------------------------------------------------------------------------
(* The tool around the engine.                                             *)

(* Ctrl-C drops the pipeline future wherever it awaits.                    *)
Interrupt ==
    /\ pc \in Commands /\ Fault
    /\ pc' = "interrupted" /\ await' = "no"
    /\ UNCHANGED <<late, run, config, sector, chunk, planVars, attempt, failure, resent, ticks, h2d, d2h, devVars>>

(* Every way out passes through disconnect, which awaits no reply and      *)
(* ignores a send error.                                                   *)
Disconnect ==
    /\ pc \in Ends
    /\ \/ h2d' = Append(h2d, [op |-> "DISCONNECT", sector |-> sector, chunk |-> chunk]) /\ UNCHANGED faults
       \/ Fault /\ UNCHANGED h2d
    /\ pc' = "closed"
    /\ UNCHANGED <<late, run, config, sector, chunk, planVars, attempt, await, failure, resent, ticks,
                   d2h, devVars>>

(* The next invocation.  Its CONNECT was ACKed: what was sent before has   *)
(* been served, what was answered before has been read.                    *)
Rerun ==
    /\ pc = "closed" /\ run < Runs /\ h2d = <<>>
    /\ run' = run + 1
    /\ \E c \in Configs : BeginRun(c)
    /\ d2h' = <<>> /\ session' = TRUE
    /\ UNCHANGED <<late, ticks, h2d, flash, committed, faults>>

Finished ==
    /\ pc = "closed" /\ run = Runs
    /\ UNCHANGED vars

-----------------------------------------------------------------------------
(* The bootloader.                                                         *)

Receive(ops) ==
    /\ h2d # <<>> /\ Head(h2d).op \in ops
    /\ h2d' = Tail(h2d)
    /\ UNCHANGED hostVars

Answer(res) ==
    LET q == Head(h2d) IN
    d2h' = Append(d2h, [op |-> q.op, res |-> res,
                        crc |-> IF q.op = "READ_CRC" THEN flash[q.sector] ELSE <<>>])

Gated == {"READ_CRC", "ERASE", "WRITE", "VERIFY"}

ServeHealth == Receive({"HEALTH"}) /\ Answer("ack") /\ UNCHANGED <<devVars, faults>>

ServeDisconnect ==
    /\ Receive({"DISCONNECT"}) /\ Answer("ack")
    /\ session' = FALSE
    /\ UNCHANGED <<flash, committed, faults>>

RefuseGated == Receive(Gated) /\ ~session /\ Answer("bad_session") /\ UNCHANGED <<devVars, faults>>

ServeReadCrc == Receive({"READ_CRC"}) /\ session /\ Answer("ack") /\ UNCHANGED <<devVars, faults>>

ServeErase ==
    /\ Receive({"ERASE"}) /\ session /\ Answer("ack")
    /\ flash' = [flash EXCEPT ![Head(h2d).sector] = [k \in Chunks |-> Blank]]
    /\ UNCHANGED <<session, committed, faults>>

Slot == flash[Head(h2d).sector][Head(h2d).chunk]

Program(contents) == flash' = [flash EXCEPT ![Head(h2d).sector][Head(h2d).chunk] = contents]

(* Flash that is not erased cannot be programmed; the cells may also take  *)
(* a wrong value unnoticed.                                                *)
ServeWrite ==
    /\ Receive({"WRITE"}) /\ session
    /\ \/ /\ Slot # Blank
          /\ Answer("flash_hw") /\ UNCHANGED <<flash, faults>>
       \/ /\ Slot = Blank
          /\ Program(Image[Head(h2d).sector][Head(h2d).chunk])
          /\ Answer("ack") /\ UNCHANGED faults
       \/ /\ Slot = Blank /\ Fault
          /\ Program(Bad)
          /\ Answer("ack")
    /\ UNCHANGED <<session, committed>>

(* The CRC of FLASH_VERIFY covers the image, not the padding of its last   *)
(* sector; a match writes the metadata FLASHWORD.                          *)
InImage(s, k) == (s - 1) * NChunks + k <= ImageLen

Installed == \A s \in Sectors, k \in Chunks : InImage(s, k) => flash[s][k] = Image[s][k]

ServeVerify ==
    /\ Receive({"VERIFY"}) /\ session
    /\ Answer(IF Installed THEN "ack" ELSE "crc_mismatch")
    /\ committed' = (committed \/ Installed)
    /\ UNCHANGED <<session, flash, faults>>

DeviceServes ==
    \/ ServeHealth \/ ServeDisconnect \/ RefuseGated
    \/ ServeReadCrc \/ ServeErase \/ ServeWrite \/ ServeVerify

(* A frame of the command was lost on the way: the transport NACK.         *)
DeviceRefuses ==
    /\ h2d # <<>> /\ Fault
    /\ h2d' = Tail(h2d)
    /\ Answer("transient")
    /\ UNCHANGED <<hostVars, devVars>>

BusLoses ==
    /\ Fault
    /\ \/ h2d # <<>> /\ h2d' = Tail(h2d) /\ UNCHANGED d2h
       \/ d2h # <<>> /\ d2h' = Tail(d2h) /\ UNCHANGED h2d
    /\ UNCHANGED <<hostVars, devVars>>

DeviceExpires ==
    /\ session /\ Fault
    /\ session' = FALSE
    /\ UNCHANGED <<hostVars, h2d, d2h, flash, committed>>

-----------------------------------------------------------------------------

Engine == Execute \/ Conclude \/ Send \/ CommandTimeout \/ KeepaliveEnds \/ Reply

Tool == Disconnect \/ Rerun

Device == DeviceServes \/ DeviceRefuses \/ BusLoses \/ DeviceExpires

Next == Engine \/ SendFails \/ KeepaliveSend \/ Interrupt \/ Tool \/ Device \/ Finished

Spec == Init /\ [][Next]_vars

(* The engine's task is scheduled, and the device serves what reaches it.  *)
FairSpec == Spec /\ WF_vars(Engine) /\ WF_vars(Tool) /\ WF_vars(DeviceServes)

-----------------------------------------------------------------------------
(* Properties.                                                             *)

(* Every variable has its type.                                            *)
TypeOK ==
    /\ late \in BOOLEAN
    /\ run \in 1 .. MaxRuns
    /\ config \in Configs
    /\ pc \in Commands \cup Ends \cup {"exec", "closed"}
    /\ sector \in 1 .. NSectors + 1 /\ (pc \in Commands \ {"commit"} => sector \in Sectors)
    /\ chunk \in Chunks
    /\ roles \in [Sectors -> {"none", "skip", "write"}]
    /\ erased \subseteq Sectors /\ written \subseteq Sectors /\ skipped \subseteq Sectors
    /\ attempt \in 1 .. MaxAttempts
    /\ await \in {"no", "reply", "tick"}
    /\ session \in BOOLEAN /\ committed \in BOOLEAN /\ resent \in BOOLEAN
    /\ flash \in Flash
    /\ ticks \in 0 .. MaxTicks /\ faults \in 0 .. MaxFaults

(* A run that reports success after FLASH_VERIFY has installed the image,  *)
(* whatever was lost, late, mis-programmed or refused on the way.          *)
SuccessMeansInstalled ==
    pc = "done" /\ config.finalCommit /\ ~config.dryRun => Installed /\ committed

(* Without the commit, the per-sector verify vouches for the sectors it    *)
(* rewrote, padding included, as long as no reply outlives its command.    *)
VerifyMeansWritten ==
    pc = "done" /\ config.verifyAfter /\ ~config.dryRun /\ ~late
    => \A s \in written : flash[s] = Image[s]

(* A sector changes only under a plan to write it, never in a dry run, not *)
(* even by commands still in flight when the run has ended.                *)
OnlyPlannedSectorsChange ==
    [][\A s \in Sectors : flash'[s] # flash[s] => roles[s] = "write" /\ ~config.dryRun]_vars

(* The engine never programs flash it has not erased: the device answers   *)
(* FLASH_HW only to a WRITE that was sent again.                           *)
FlashHwOnlyAfterResend == failure = "flash_hw" => resent

(* A re-run recovers (the NOTE of the Ctrl-C arm of cli/flash.rs): once    *)
(* faults have stopped, a run started over whatever was left succeeds.     *)
Fresh ==
    /\ pc \in {"plan", "exec"} /\ sector = 1 /\ attempt = 1 /\ await = "no"
    /\ erased = {} /\ written = {} /\ skipped = {}
    /\ session /\ ~config.dryRun

RerunRecovers == Fresh /\ ~late /\ faults = MaxFaults ~> pc = "done" /\ flash = Image

=============================================================================
