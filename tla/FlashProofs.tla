---------------------------- MODULE FlashProofs -----------------------------
(***************************************************************************)
(* Proofs about FlashManager, for any image, any geometry, any retry       *)
(* budget and any number of runs and faults, with replies in time or late. *)
(***************************************************************************)
EXTENDS FlashManager, SequenceTheorems, TLAPS

-----------------------------------------------------------------------------
(* Sequences as the link uses them.                                        *)

Members(q) == {q[i] : i \in 1 .. Len(q)}

LEMMA EmptyMembers == Members(<<>>) = {}
  BY DEF Members

(* What taking the head leaves.                                            *)
LEMMA TailOf ==
  ASSUME NEW S, NEW q \in Seq(S), q # <<>>
  PROVE  /\ Tail(q) \in Seq(S) /\ Len(Tail(q)) = Len(q) - 1
         /\ Len(q) \in Nat /\ Len(q) >= 1 /\ 1 \in 1 .. Len(q)
         /\ Head(q) = q[1] /\ Head(q) \in S /\ Head(q) \in Members(q)
         /\ Members(Tail(q)) \subseteq Members(q)
         /\ \A i \in 1 .. Len(Tail(q)) : i + 1 \in 1 .. Len(q) /\ Tail(q)[i] = q[i + 1]
<1>1. Len(q) \in Nat /\ Len(q) >= 1 /\ 1 \in 1 .. Len(q) /\ Head(q) = q[1] /\ Head(q) \in S
  BY EmptySeq
<1>2. /\ Tail(q) \in Seq(S) /\ Len(Tail(q)) = Len(q) - 1
      /\ \A i \in 1 .. Len(Tail(q)) : i + 1 \in 1 .. Len(q) /\ Tail(q)[i] = q[i + 1]
  BY <1>1, HeadTailProperties
<1> QED
  BY <1>1, <1>2 DEF Members

(* What a send adds.                                                       *)
LEMMA AppendOf ==
  ASSUME NEW S, NEW q \in Seq(S), NEW e \in S
  PROVE  /\ Append(q, e) \in Seq(S) /\ Len(q) \in Nat /\ Len(Append(q, e)) = Len(q) + 1
         /\ Append(q, e) # <<>>
         /\ Append(q, e)[Len(q) + 1] = e
         /\ \A i \in 1 .. Len(q) : Append(q, e)[i] = q[i]
         /\ Members(Append(q, e)) = Members(q) \cup {e}
<1>1. /\ Append(q, e) \in Seq(S) /\ Len(q) \in Nat /\ Len(Append(q, e)) = Len(q) + 1
      /\ Append(q, e) # <<>>
      /\ Append(q, e)[Len(q) + 1] = e
      /\ \A i \in 1 .. Len(q) : Append(q, e)[i] = q[i]
  BY AppendProperties, LenProperties, EmptySeq
<1>2. Members(Append(q, e)) \subseteq Members(q) \cup {e}
  <2> SUFFICES ASSUME NEW i \in 1 .. Len(q) + 1
               PROVE  Append(q, e)[i] \in Members(q) \cup {e}
    BY <1>1 DEF Members
  <2>1. CASE i = Len(q) + 1
    BY <1>1, <2>1
  <2>2. CASE i # Len(q) + 1
    <3>1. i \in 1 .. Len(q)
      BY <1>1, <2>2
    <3> QED
      BY <1>1, <3>1 DEF Members
  <2> QED
    BY <2>1, <2>2
<1>3. Members(q) \cup {e} \subseteq Members(Append(q, e))
  <2>1. \A i \in 1 .. Len(q) + 1 : Append(q, e)[i] \in Members(Append(q, e))
    BY <1>1 DEF Members
  <2>2. \A i \in 1 .. Len(q) : i \in 1 .. Len(q) + 1
    BY <1>1
  <2>3. Len(q) + 1 \in 1 .. Len(q) + 1
    BY <1>1
  <2>4. e \in Members(Append(q, e))
    BY <1>1, <2>1, <2>3
  <2>5. \A m \in Members(q) : m \in Members(Append(q, e))
    BY <1>1, <2>1, <2>2 DEF Members
  <2> QED
    BY <2>4, <2>5
<1> QED
  BY <1>1, <1>2, <1>3

(* What a drain leaves.                                                    *)
LEMMA DrainOf ==
  ASSUME NEW S, NEW q \in Seq(S), NEW n \in 0 .. Len(q)
  PROVE  LET rest == SubSeq(q, n + 1, Len(q)) IN
         /\ rest \in Seq(S) /\ Len(q) \in Nat /\ Len(rest) = Len(q) - n
         /\ Members(rest) \subseteq Members(q)
         /\ \A i \in 1 .. Len(rest) : i + n \in 1 .. Len(q) /\ rest[i] = q[i + n]
<1> DEFINE rest == SubSeq(q, n + 1, Len(q))
<1>1. Len(q) \in Nat
  BY LenProperties
<1>2. \A i \in n + 1 .. Len(q) : q[i] \in S
  BY <1>1, ElementOfSeq
<1>3. /\ rest \in Seq(S)
      /\ Len(rest) = IF n + 1 <= Len(q) THEN Len(q) - (n + 1) + 1 ELSE 0
      /\ \A i \in 1 .. Len(q) - (n + 1) + 1 : rest[i] = q[(n + 1) + i - 1]
  BY <1>1, <1>2, SubSeqProperties
<1>4. Len(rest) = Len(q) - n
  BY <1>1, <1>3
<1>5. \A i \in 1 .. Len(rest) : i + n \in 1 .. Len(q) /\ rest[i] = q[i + n]
  BY <1>1, <1>3, <1>4
<1>6. Members(rest) \subseteq Members(q)
  BY <1>5 DEF Members
<1> QED
  BY <1>1, <1>3, <1>4, <1>5, <1>6

-----------------------------------------------------------------------------
(* Types, of the messages in flight too.                                   *)

Opcodes == {"READ_CRC", "ERASE", "WRITE", "VERIFY", "HEALTH", "DISCONNECT"}
Results == {"ack", "transient", "flash_hw", "bad_session", "crc_mismatch"}

(* A command that names a sector names one of the image.                   *)
Message == {m \in [op : Opcodes, sector : 1 .. NSectors + 1, chunk : Chunks] :
               m.op \in {"READ_CRC", "ERASE", "WRITE"} => m.sector \in Sectors}

Response == [op : Opcodes, res : Results, crc : [Chunks -> Contents] \cup {<<>>}]

TypeInv ==
    /\ TypeOK
    /\ h2d \in Seq(Message) /\ d2h \in Seq(Response)
    /\ pc \notin Commands => await = "no"
    /\ await = "tick" => attempt = 1

LEMMA Constants ==
  /\ NSectors \in Nat /\ NSectors >= 1 /\ NChunks \in Nat /\ NChunks >= 1
  /\ MaxAttempts \in Nat /\ MaxAttempts >= 1
  /\ MaxRuns \in Nat /\ MaxRuns >= 1 /\ MaxTicks \in Nat /\ MaxFaults \in Nat
  /\ 1 \in Chunks /\ 1 \in Sectors
  /\ \A s \in Sectors : s \in Nat /\ 1 <= s /\ s <= NSectors /\ s + 1 \in 1 .. NSectors + 1
  /\ Runs \in Nat /\ Runs <= MaxRuns /\ Ticks \in Nat /\ Ticks <= MaxTicks
  BY FlashAssumption DEF Chunks, Sectors, Runs, Ticks

LEMMA Geometry ==
  /\ Image \in Flash
  /\ \A s \in Sectors : Image[s] \in [Chunks -> Contents]
  /\ \A s \in Sectors, k \in Chunks : Image[s][k] \in Contents
  /\ Blank \in Contents /\ Bad \in Contents /\ Old \in Contents
  BY FlashAssumption DEF Flash, Contents

LEMMA OpcodeOf ==
  /\ Opcode["plan"] = "READ_CRC" /\ Opcode["erase"] = "ERASE" /\ Opcode["write"] = "WRITE"
  /\ Opcode["verify"] = "READ_CRC" /\ Opcode["commit"] = "VERIFY"
  /\ \A p \in Commands : Opcode[p] \in {"READ_CRC", "ERASE", "WRITE", "VERIFY"}
  BY DEF Opcode, Commands

LEMMA InitTypes == Init => TypeInv
<1> SUFFICES ASSUME Init PROVE TypeInv
  OBVIOUS
<1> USE Constants
<1>1. config \in FlashConfig /\ config.diff \in BOOLEAN
  BY FlashAssumption DEF Init, FlashConfig
<1>2. h2d \in Seq(Message) /\ d2h \in Seq(Response)
  BY DEF Init
<1>3. flash \in Flash
  BY DEF Init
<1>4. late \in BOOLEAN
  BY FlashAssumption DEF Init
<1>5. roles \in [Sectors -> {"none", "skip", "write"}]
  BY <1>1 DEF Init
<1>6. pc \in {"plan", "exec"} /\ sector = 1 /\ sector \in 1 .. NSectors + 1 /\ chunk \in Chunks
  BY <1>1 DEF Init
<1>7. attempt \in 1 .. MaxAttempts /\ await = "no"
  BY DEF Init
<1>8. run \in 1 .. MaxRuns /\ ticks \in 0 .. MaxTicks /\ faults \in 0 .. MaxFaults
  BY DEF Init
<1>9. /\ erased = {} /\ written = {} /\ skipped = {} /\ config \in Configs
      /\ session \in BOOLEAN /\ committed \in BOOLEAN /\ resent \in BOOLEAN
  BY DEF Init
<1>10. pc \in Commands \cup Ends \cup {"exec", "closed"} /\ sector \in Sectors
  BY <1>6 DEF Commands
<1>11. TypeOK
  BY <1>3, <1>4, <1>5, <1>6, <1>7, <1>8, <1>9, <1>10 DEF TypeOK
<1> QED
  BY <1>2, <1>7, <1>11 DEF TypeInv

(* A command that the engine may send.                                     *)
LEMMA RequestTypes ==
  ASSUME TypeOK, NEW op \in Opcodes,
         op \in {"READ_CRC", "ERASE", "WRITE"} => sector \in Sectors
  PROVE  [op |-> op, sector |-> sector, chunk |-> chunk] \in Message
  BY DEF TypeOK, Message

LEMMA ExecuteTypes ==
  ASSUME TypeInv, Execute \/ Conclude
  PROVE  TypeInv'
<1> USE Constants
<1>1. CASE Execute
  <2>1. sector \in Sectors /\ sector \in Nat /\ sector + 1 \in 1 .. NSectors + 1
    BY <1>1 DEF Execute
  <2>2. pc' \in {"exec", "erase"} /\ sector' \in {sector, sector + 1} /\ chunk' \in {chunk, 1}
    BY <1>1 DEF Execute
  <2>5. pc' = "erase" => sector' = sector
    BY <1>1 DEF Execute
  <2>3. skipped' \subseteq Sectors /\ written' \subseteq Sectors
    BY <1>1, <2>1 DEF Execute, TypeInv, TypeOK
  <2>4. UNCHANGED <<late, run, config, roles, erased, attempt, await, failure, resent, ticks, h2d, d2h,
                    session, flash, committed, faults>> /\ pc = "exec"
    BY <1>1 DEF Execute, devVars
  <2> QED
    BY <2>1, <2>2, <2>5, <2>3, <2>4 DEF TypeInv, TypeOK, Commands
<1>2. CASE Conclude
  BY <1>2 DEF Conclude, TypeInv, TypeOK, planVars, devVars, Commands, Ends
<1> QED
  BY <1>1, <1>2

(* What a failed exchange does to the host.                                *)
LEMMA RetryTypes ==
  ASSUME TypeOK, NEW why, RetryOrFail(why), pc \in Commands
  PROVE  pc' \in {pc, "failed"} /\ attempt' \in 1 .. MaxAttempts
  BY Constants DEF TypeOK, RetryOrFail, Fail

LEMMA ExchangeTypes ==
  ASSUME TypeInv, Send \/ SendFails \/ CommandTimeout \/ KeepaliveSend \/ KeepaliveEnds
  PROVE  TypeInv'
<1> USE Constants
<1>0. await = "reply" => pc \in Commands
  BY DEF TypeInv
<1>1. CASE Send
  <2>1. Request \in Message
    <3>1. pc \in Commands
      BY <1>1 DEF Send
    <3>2. Opcode[pc] \in Opcodes /\ (Opcode[pc] # "VERIFY" => sector \in Sectors)
      BY <3>1, OpcodeOf DEF Opcodes, TypeInv, TypeOK, Commands
    <3> QED
      BY <3>2, RequestTypes DEF Request, TypeInv
  <2>2. h2d' \in Seq(Message)
    BY <1>1, <2>1, AppendOf DEF Send, TypeInv
  <2>3. d2h' \in Seq(Response)
    BY <1>1, DrainOf DEF Send, TypeInv
  <2>4. await' = "reply" /\ pc \in Commands /\ resent' \in BOOLEAN
    BY <1>1 DEF Send, TypeInv, TypeOK
  <2>5. UNCHANGED <<late, run, config, pc, sector, chunk, roles, erased, written, skipped, attempt, failure,
                    ticks, session, flash, committed, faults>>
    BY <1>1 DEF Send, planVars, devVars
  <2> QED
    BY <2>2, <2>3, <2>4, <2>5 DEF TypeInv, TypeOK
<1>2. CASE SendFails \/ CommandTimeout
  <2>1. pc \in Commands /\ \E why : RetryOrFail(why)
    BY <1>0, <1>2 DEF SendFails, CommandTimeout
  <2>2. pc' \in {pc, "failed"} /\ attempt' \in 1 .. MaxAttempts
    BY <2>1, RetryTypes DEF TypeInv
  <2>3. await' = "no" /\ faults' \in 0 .. MaxFaults
    BY <1>2 DEF SendFails, CommandTimeout, Fault, TypeInv, TypeOK
  <2>4. UNCHANGED <<late, run, config, sector, chunk, roles, erased, written, skipped, resent, ticks, h2d, d2h,
                    session, flash, committed>>
    BY <1>2 DEF SendFails, CommandTimeout, planVars, devVars
  <2> QED
    BY <2>1, <2>2, <2>3, <2>4 DEF TypeInv, TypeOK, Commands, Ends
<1>3. CASE KeepaliveSend
  <2>1. h2d' \in Seq(Message)
    <3>1. [op |-> "HEALTH", sector |-> sector, chunk |-> chunk] \in Message
      BY RequestTypes DEF TypeInv, Opcodes
    <3> QED
      BY <1>3, <3>1, AppendOf DEF KeepaliveSend, TypeInv
  <2>2. ticks' \in 0 .. MaxTicks
    BY <1>3 DEF KeepaliveSend, TypeInv, TypeOK
  <2>3. await' = "tick" /\ attempt = 1 /\ pc \in Commands
    BY <1>3 DEF KeepaliveSend
  <2>4. UNCHANGED <<late, run, config, pc, sector, chunk, roles, erased, written, skipped, attempt, failure,
                    resent, d2h, session, flash, committed, faults>>
    BY <1>3 DEF KeepaliveSend, planVars, devVars
  <2> QED
    BY <2>1, <2>2, <2>3, <2>4 DEF TypeInv, TypeOK
<1>4. CASE KeepaliveEnds
  <2>1. d2h' \in Seq(Response)
    BY <1>4, TailOf DEF KeepaliveEnds, TypeInv
  <2> QED
    BY <1>4, <2>1 DEF KeepaliveEnds, planVars, devVars, TypeInv, TypeOK
<1> QED
  BY <1>1, <1>2, <1>3, <1>4

(* What the ACK of its command does to each stage.                         *)
LEMMA StageTypes ==
  ASSUME TypeInv, pc \in Commands, NEW crc,
         \/ pc = "plan" /\ Planned(crc)
         \/ pc = "erase" /\ Erased
         \/ pc = "write" /\ ChunkWritten
         \/ pc = "verify" /\ Verified(crc)
         \/ pc = "commit" /\ Committed
  PROVE  /\ pc' \in Commands \cup Ends \cup {"exec", "closed"}
         /\ sector' \in 1 .. NSectors + 1 /\ (pc' \in Commands \ {"commit"} => sector' \in Sectors)
         /\ chunk' \in Chunks
         /\ roles' \in [Sectors -> {"none", "skip", "write"}]
         /\ erased' \subseteq Sectors /\ written' \subseteq Sectors
<1> USE Constants
<1>0. /\ sector \in 1 .. NSectors + 1 /\ (pc # "commit" => sector \in Sectors)
      /\ chunk \in Chunks /\ roles \in [Sectors -> {"none", "skip", "write"}]
      /\ erased \subseteq Sectors /\ written \subseteq Sectors
  BY DEF TypeInv, TypeOK
<1>1. CASE pc = "plan" /\ Planned(crc)
  <2>1. roles' \in [Sectors -> {"none", "skip", "write"}] /\ UNCHANGED <<erased, written, chunk>>
    BY <1>0, <1>1 DEF Planned
  <2>2. sector' = 1 \/ (sector # NSectors /\ sector' = sector + 1)
    BY <1>1 DEF Planned
  <2>3. sector' \in Sectors /\ sector' \in 1 .. NSectors + 1
    BY <1>0, <1>1, <2>2 DEF Sectors
  <2>4. pc' \in {"exec", "plan"}
    BY <1>1 DEF Planned
  <2> QED
    BY <1>0, <2>1, <2>3, <2>4 DEF Commands
<1>2. CASE pc = "erase" /\ Erased
  BY <1>0, <1>2 DEF Erased, Commands
<1>3. ASSUME SectorDone, sector \in Sectors
      PROVE  /\ pc' = "exec" /\ sector' \in 1 .. NSectors + 1 /\ chunk' = chunk /\ roles' = roles
             /\ erased' = erased /\ written' \subseteq Sectors
  BY <1>0, <1>3 DEF SectorDone
<1>4. CASE pc = "write" /\ ChunkWritten
  <2>1. CASE chunk < NChunks
    <3>1. chunk' = chunk + 1 /\ chunk' \in Chunks
      BY <1>0, <1>4, <2>1 DEF ChunkWritten, Chunks
    <3> QED
      BY <1>0, <1>4, <2>1, <3>1 DEF ChunkWritten
  <2>2. CASE ~(chunk < NChunks) /\ config.verifyAfter
    BY <1>0, <1>4, <2>2 DEF ChunkWritten, Commands
  <2>3. CASE ~(chunk < NChunks) /\ ~config.verifyAfter
    BY <1>0, <1>3, <1>4, <2>3 DEF ChunkWritten, Commands
  <2> QED
    BY <2>1, <2>2, <2>3
<1>5. CASE pc = "verify" /\ Verified(crc)
  BY <1>0, <1>3, <1>5 DEF Verified, Fail, Commands, Ends
<1>6. CASE pc = "commit" /\ Committed
  BY <1>0, <1>6 DEF Committed, Commands, Ends
<1> QED
  BY <1>1, <1>2, <1>4, <1>5, <1>6

(* The ways a reply is taken: an exchange that did not succeed, or the ACK *)
(* of the command.                                                         *)
LEMMA ReplyWays ==
  ASSUME TypeInv, Reply
  PROVE  /\ pc \in Commands /\ await = "reply" /\ await' = "no" /\ d2h # <<>> /\ d2h' = Tail(d2h)
         /\ UNCHANGED <<late, run, config, skipped, resent, ticks, h2d, session, flash, committed, faults>>
         /\ \/ /\ (Head(d2h).res = "transient" /\ RetryOrFail("transport"))
                    \/ (pc' = "failed" /\ attempt' = attempt /\ (failure' # Head(d2h).res =>
                           failure' \in {"final_verify", "unexpected"}) /\ Head(d2h).res # "transient")
               /\ UNCHANGED <<sector, chunk, roles, erased, written>>
            \/ /\ Head(d2h).res = "ack" /\ Head(d2h).op = Opcode[pc] /\ attempt' = 1
               /\ \/ pc = "plan" /\ Planned(Head(d2h).crc)
                  \/ pc = "erase" /\ Erased
                  \/ pc = "write" /\ ChunkWritten
                  \/ pc = "verify" /\ Verified(Head(d2h).crc)
                  \/ pc = "commit" /\ Committed
<1>1. /\ pc \in Commands /\ await = "reply" /\ await' = "no" /\ d2h # <<>> /\ d2h' = Tail(d2h)
      /\ UNCHANGED <<late, run, config, skipped, resent, ticks, h2d, session, flash, committed, faults>>
  BY DEF Reply, TypeInv, devVars
<1> DEFINE r == Head(d2h)
           stages == \/ pc = "plan" /\ Planned(r.crc)
                     \/ pc = "erase" /\ Erased
                     \/ pc = "write" /\ ChunkWritten
                     \/ pc = "verify" /\ Verified(r.crc)
                     \/ pc = "commit" /\ Committed
<1>2. CASE r.res = "transient" /\ RetryOrFail("transport") /\ UNCHANGED <<sector, chunk, roles, erased, written>>
  BY <1>1, <1>2
<1>3. CASE /\ r.res \notin {"ack", "transient"}
           /\ Fail(IF pc = "commit" /\ r.res = "crc_mismatch" THEN "final_verify" ELSE r.res)
           /\ UNCHANGED <<sector, chunk, roles, erased, written, attempt>>
  BY <1>1, <1>3 DEF Fail
<1>4. CASE /\ r.res = "ack" /\ r.op # Opcode[pc]
           /\ Fail("unexpected")
           /\ UNCHANGED <<sector, chunk, roles, erased, written, attempt>>
  BY <1>1, <1>4 DEF Fail
<1>5. CASE /\ r.res = "ack" /\ r.op = Opcode[pc]
           /\ attempt' = 1
           /\ CASE pc = "plan"   -> Planned(r.crc)
                [] pc = "erase"  -> Erased
                [] pc = "write"  -> ChunkWritten
                [] pc = "verify" -> Verified(r.crc)
                [] pc = "commit" -> Committed
  <2>1. stages
    BY <1>1, <1>5 DEF Commands
  <2> QED
    BY <1>1, <1>5, <2>1
<1> QED
  BY <1>2, <1>3, <1>4, <1>5 DEF Reply

LEMMA ReplyTypes ==
  ASSUME TypeInv, Reply
  PROVE  TypeInv'
<1> USE Constants
<1>1. /\ pc \in Commands /\ await' = "no" /\ d2h # <<>> /\ d2h' = Tail(d2h)
      /\ UNCHANGED <<late, run, config, skipped, resent, ticks, h2d, session, flash, committed, faults>>
  BY ReplyWays
<1>2. d2h' \in Seq(Response)
  BY <1>1, TailOf DEF TypeInv
<1>3. /\ pc' \in Commands \cup Ends \cup {"exec", "closed"}
      /\ sector' \in 1 .. NSectors + 1 /\ (pc' \in Commands \ {"commit"} => sector' \in Sectors)
      /\ chunk' \in Chunks
      /\ roles' \in [Sectors -> {"none", "skip", "write"}]
      /\ erased' \subseteq Sectors /\ written' \subseteq Sectors
      /\ attempt' \in 1 .. MaxAttempts
  <2>1. CASE /\ RetryOrFail("transport") \/ (pc' = "failed" /\ attempt' = attempt)
             /\ UNCHANGED <<sector, chunk, roles, erased, written>>
    <3>1. pc' \in {pc, "failed"} /\ attempt' \in 1 .. MaxAttempts
      BY <1>1, <2>1, RetryTypes DEF TypeInv, TypeOK
    <3> QED
      BY <1>1, <2>1, <3>1 DEF TypeInv, TypeOK, Commands, Ends
  <2>2. CASE /\ attempt' = 1
             /\ \/ pc = "plan" /\ Planned(Head(d2h).crc)
                \/ pc = "erase" /\ Erased
                \/ pc = "write" /\ ChunkWritten
                \/ pc = "verify" /\ Verified(Head(d2h).crc)
                \/ pc = "commit" /\ Committed
    BY <1>1, <2>2, StageTypes
  <2> QED
    BY <2>1, <2>2, ReplyWays
<1>4. TypeOK'
  BY <1>1, <1>3 DEF TypeInv, TypeOK
<1> QED
  BY <1>1, <1>2, <1>4 DEF TypeInv

LEMMA ToolTypes ==
  ASSUME TypeInv, Interrupt \/ Disconnect \/ Rerun
  PROVE  TypeInv'
<1> USE Constants
<1>1. CASE Interrupt
  BY <1>1 DEF Interrupt, Fault, planVars, devVars, TypeInv, TypeOK, Commands, Ends
<1>2. CASE Disconnect
  <2>1. h2d' \in Seq(Message)
    <3>1. [op |-> "DISCONNECT", sector |-> sector, chunk |-> chunk] \in Message
      BY RequestTypes DEF TypeInv, Opcodes
    <3>2. h2d \in Seq(Message)
      BY DEF TypeInv
    <3>3. Append(h2d, [op |-> "DISCONNECT", sector |-> sector, chunk |-> chunk]) \in Seq(Message)
      BY <3>1, <3>2, AppendOf
    <3> QED
      BY <1>2, <3>2, <3>3 DEF Disconnect
  <2>2. faults' \in 0 .. MaxFaults
    BY <1>2 DEF Disconnect, Fault, TypeInv, TypeOK
  <2>3. pc' = "closed" /\ pc \in Ends
    BY <1>2 DEF Disconnect
  <2>4. UNCHANGED <<late, run, config, sector, chunk, roles, erased, written, skipped, attempt, await, failure,
                    resent, ticks, d2h, session, flash, committed>>
    BY <1>2 DEF Disconnect, planVars, devVars
  <2> QED
    BY <2>1, <2>2, <2>3, <2>4 DEF TypeInv, TypeOK, Commands, Ends
<1>3. CASE Rerun
  <2>1. PICK c \in Configs : BeginRun(c)
    BY <1>3 DEF Rerun
  <2>2. c.diff \in BOOLEAN
    BY FlashAssumption DEF FlashConfig
  <2>3. run' \in 1 .. MaxRuns
    BY <1>3 DEF Rerun, TypeInv, TypeOK
  <2>4. h2d' = h2d /\ d2h' = <<>> /\ session' = TRUE /\ UNCHANGED <<late, ticks, flash, committed, faults>>
    BY <1>3 DEF Rerun
  <2>5. /\ config' \in Configs /\ pc' \in {"plan", "exec"}
        /\ sector' = 1 /\ sector' \in Sectors /\ sector' \in 1 .. NSectors + 1 /\ chunk' \in Chunks
        /\ roles' \in [Sectors -> {"none", "skip", "write"}]
        /\ erased' = {} /\ written' = {} /\ skipped' = {}
        /\ attempt' \in 1 .. MaxAttempts /\ await' = "no" /\ resent' = FALSE
    BY <2>1, <2>2 DEF BeginRun
  <2>6. TypeOK'
    BY <2>3, <2>4, <2>5 DEF TypeInv, TypeOK, Commands
  <2> QED
    BY <2>4, <2>5, <2>6 DEF TypeInv
<1> QED
  BY <1>1, <1>2, <1>3

(* What a step of the device or of the bus may do, seen from the link.     *)
LEMMA DeviceFrame ==
  ASSUME TypeInv, Device
  PROVE  /\ UNCHANGED hostVars
         /\ h2d' = h2d \/ (h2d # <<>> /\ h2d' = Tail(h2d))
         /\ h2d' \in Seq(Message) /\ Members(h2d') \subseteq Members(h2d)
<1>1. UNCHANGED hostVars /\ (h2d' = h2d \/ (h2d # <<>> /\ h2d' = Tail(h2d)))
  BY DEF Device, DeviceServes, ServeHealth, ServeDisconnect, RefuseGated, ServeReadCrc, ServeErase,
         ServeWrite, ServeVerify, Receive, DeviceRefuses, BusLoses, DeviceExpires
<1> QED
  BY <1>1, TailOf DEF TypeInv

(* What an answer looks like.                                              *)
LEMMA AnswerTypes ==
  ASSUME TypeInv, h2d # <<>>, NEW res \in Results, Answer(res)
  PROVE  LET q == Head(h2d)
             a == [op |-> q.op, res |-> res, crc |-> IF q.op = "READ_CRC" THEN flash[q.sector] ELSE <<>>]
         IN  /\ q \in Message /\ q = h2d[1] /\ q \in Members(h2d)
             /\ a \in Response /\ d2h' = Append(d2h, a) /\ d2h' \in Seq(Response)
<1> DEFINE q == Head(h2d)
           a == [op |-> q.op, res |-> res, crc |-> IF q.op = "READ_CRC" THEN flash[q.sector] ELSE <<>>]
<1>1. q \in Message /\ q = h2d[1] /\ q \in Members(h2d)
  BY TailOf DEF TypeInv
<1>2. q.op = "READ_CRC" => flash[q.sector] \in [Chunks -> Contents]
  BY <1>1 DEF Message, TypeInv, TypeOK, Flash
<1>3. a \in Response
  BY <1>1, <1>2 DEF Response, Message
<1>4. d2h' = Append(d2h, a)
  BY DEF Answer
<1> HIDE DEF a
<1>5. d2h' \in Seq(Response)
  BY <1>3, <1>4, AppendOf DEF TypeInv
<1> QED
  BY <1>1, <1>3, <1>4, <1>5 DEF a

LEMMA DeviceTypes ==
  ASSUME TypeInv, Device
  PROVE  TypeInv'
<1> USE Constants
<1>1. UNCHANGED hostVars /\ h2d' \in Seq(Message)
  BY DeviceFrame
<1>2. d2h' \in Seq(Response)
  <2>1. CASE \E res \in Results : h2d # <<>> /\ Answer(res)
    BY <2>1, AnswerTypes
  <2>2. CASE d2h' = d2h
    BY <2>2 DEF TypeInv
  <2>3. CASE d2h # <<>> /\ d2h' = Tail(d2h)
    BY <2>3, TailOf DEF TypeInv
  <2>4. \/ \E res \in Results : h2d # <<>> /\ Answer(res)
        \/ d2h' = d2h
        \/ d2h # <<>> /\ d2h' = Tail(d2h)
    <3>1. \A ops : Receive(ops) => h2d # <<>>
      BY DEF Receive
    <3>2. {"ack", "transient", "flash_hw", "bad_session", "crc_mismatch"} = Results
      BY DEF Results
    <3>3. CASE ServeHealth \/ ServeDisconnect \/ ServeReadCrc \/ ServeErase
      BY <3>1, <3>2, <3>3 DEF ServeHealth, ServeDisconnect, ServeReadCrc, ServeErase
    <3>4. CASE RefuseGated \/ DeviceRefuses
      BY <3>1, <3>2, <3>4 DEF RefuseGated, DeviceRefuses
    <3>5. CASE ServeWrite
      BY <3>1, <3>2, <3>5 DEF ServeWrite
    <3>6. CASE ServeVerify
      BY <3>1, <3>2, <3>6 DEF ServeVerify
    <3>7. CASE BusLoses \/ DeviceExpires
      BY <3>7 DEF BusLoses, DeviceExpires
    <3> QED
      BY <3>3, <3>4, <3>5, <3>6, <3>7 DEF Device, DeviceServes
  <2> QED
    BY <2>1, <2>2, <2>3, <2>4
<1>3. session' \in BOOLEAN /\ committed' \in BOOLEAN
  BY DEF Device, DeviceServes, ServeHealth, ServeDisconnect, RefuseGated, ServeReadCrc, ServeErase,
         ServeWrite, ServeVerify, DeviceRefuses, BusLoses, DeviceExpires, devVars, TypeInv, TypeOK
<1>4. faults' \in 0 .. MaxFaults
  BY DEF Device, DeviceServes, ServeHealth, ServeDisconnect, RefuseGated, ServeReadCrc, ServeErase,
         ServeWrite, ServeVerify, DeviceRefuses, BusLoses, DeviceExpires, Fault, TypeInv, TypeOK
<1>5. flash' \in Flash
  <2>1. CASE ServeErase
    BY <2>1, Geometry DEF ServeErase, TypeInv, TypeOK, Flash
  <2>2. CASE ServeWrite
    <3>1. CASE UNCHANGED flash
      BY <3>1 DEF TypeInv, TypeOK
    <3>2. ASSUME NEW v \in Contents, Program(v)
          PROVE  flash' \in Flash
      BY <3>2 DEF Program, TypeInv, TypeOK, Flash
    <3>3. Receive({"WRITE"})
      BY <2>2 DEF ServeWrite
    <3>4. Head(h2d) \in Message /\ Head(h2d).op = "WRITE"
      BY <3>3, TailOf DEF Receive, TypeInv
    <3>5. Image[Head(h2d).sector][Head(h2d).chunk] \in Contents
      BY <3>4, Geometry DEF Message
    <3> QED
      BY <2>2, <3>1, <3>2, <3>5, Geometry DEF ServeWrite
  <2>3. CASE ~(ServeErase \/ ServeWrite)
    BY <2>3 DEF Device, DeviceServes, ServeHealth, ServeDisconnect, RefuseGated, ServeReadCrc,
         ServeVerify, DeviceRefuses, BusLoses, DeviceExpires, devVars, TypeInv, TypeOK
  <2> QED
    BY <2>1, <2>2, <2>3
<1>6. TypeOK'
  BY <1>1, <1>3, <1>4, <1>5 DEF TypeInv, TypeOK, hostVars, planVars
<1> QED
  BY <1>1, <1>2, <1>6 DEF TypeInv, hostVars

LEMMA TypeStep == TypeInv /\ [Next]_vars => TypeInv'
<1> SUFFICES ASSUME TypeInv, [Next]_vars PROVE TypeInv'
  OBVIOUS
<1>1. CASE UNCHANGED vars
  BY <1>1 DEF vars, hostVars, planVars, devVars, TypeInv, TypeOK
<1>2. CASE Next
  BY <1>1, <1>2, ExecuteTypes, ExchangeTypes, ReplyTypes, ToolTypes, DeviceTypes
     DEF Next, Engine, Tool, Finished
<1> QED
  BY <1>1, <1>2

LEMMA TypeInvariant == Spec => []TypeInv
  BY InitTypes, TypeStep, PTL DEF Spec

(* Every variable of the engine and of the bootloader keeps its type: no   *)
(* loop of src/flash/mod.rs runs past the image it was given.              *)
THEOREM FlashTypeCorrect == Spec => []TypeOK
<1>1. TypeInv => TypeOK
  BY DEF TypeInv
<1> QED
  BY <1>1, TypeInvariant, PTL

-----------------------------------------------------------------------------
(* The plan is kept.                                                       *)

Busy == Commands \cup {"exec"}

(* The commands that change flash.                                         *)
Changing == {"ERASE", "WRITE"}

NoChange == \A m \in Members(h2d) : m.op \notin Changing

(* The plan is complete before the first sector is touched, and what is    *)
(* sent to change flash was planned, also what is left in flight.          *)
PlanInv ==
    /\ pc = "plan" => NoChange /\ \A s \in 1 .. sector - 1 : roles[s] # "none"
    /\ pc \in Busy \ {"plan"} => \A s \in Sectors : roles[s] # "none"
    /\ pc \in {"erase", "write"} => roles[sector] = "write" /\ ~config.dryRun
    /\ \A m \in Members(h2d) : m.op \in Changing => roles[m.sector] = "write" /\ ~config.dryRun

(* A step that leaves the plan alone and stays in its stage or ends the    *)
(* run.                                                                    *)
LEMMA PlanFrame ==
  ASSUME PlanInv, UNCHANGED <<roles, config>>, (pc' = pc /\ sector' = sector) \/ pc' \notin Busy,
         \A m \in Members(h2d') : m \in Members(h2d) \/ m.op \notin Changing
  PROVE  PlanInv'
<1>1. NoChange => NoChange'
  BY DEF NoChange
<1>2. \A m \in Members(h2d') : m.op \in Changing => roles'[m.sector] = "write" /\ ~config'.dryRun
  BY DEF PlanInv
<1>3. "plan" \in Busy /\ "erase" \in Busy /\ "write" \in Busy
  BY DEF Busy, Commands
<1> QED
  BY <1>1, <1>2, <1>3 DEF PlanInv

LEMMA ExecuteKeepsPlan ==
  ASSUME TypeInv, PlanInv, Execute \/ Conclude
  PROVE  PlanInv'
<1>1. pc = "exec" /\ pc \in Busy \ {"plan"} /\ UNCHANGED <<roles, config, h2d>>
  BY DEF Execute, Conclude, planVars, Busy
<1>2. \A s \in Sectors : roles[s] # "none"
  BY <1>1 DEF PlanInv
<1>3. pc' # "plan"
  BY <1>1 DEF Execute, Conclude
<1>4. pc' \in {"erase", "write"} => roles[sector'] = "write" /\ ~config.dryRun
  <2>1. CASE Execute
    <3>1. roles[sector] \in {"skip", "write"}
      BY <1>2, <2>1 DEF Execute, TypeInv, TypeOK
    <3> QED
      BY <1>1, <2>1, <3>1 DEF Execute
  <2>2. CASE Conclude
    BY <2>2 DEF Conclude
  <2> QED
    BY <2>1, <2>2
<1> QED
  BY <1>1, <1>2, <1>3, <1>4 DEF PlanInv

LEMMA ExchangeKeepsPlan ==
  ASSUME TypeInv, PlanInv, Send \/ SendFails \/ CommandTimeout \/ KeepaliveSend \/ KeepaliveEnds
  PROVE  PlanInv'
<1>1. CASE Send
  <2>1. UNCHANGED <<roles, config, pc, sector>> /\ pc \in Commands
    BY <1>1 DEF Send, planVars
  <2>2. Request \in Message /\ Request.op = Opcode[pc] /\ Request.sector = sector
    <3>1. Opcode[pc] \in Opcodes /\ (Opcode[pc] # "VERIFY" => sector \in Sectors)
      BY <2>1, OpcodeOf DEF Opcodes, TypeInv, TypeOK, Commands
    <3> QED
      BY <3>1, RequestTypes DEF Request, TypeInv
  <2>3. Members(h2d') = Members(h2d) \cup {Request}
    BY <1>1, <2>2, AppendOf DEF Send, TypeInv
  <2>4. Request.op \in Changing => pc \in {"erase", "write"}
    BY <2>1, <2>2, OpcodeOf DEF Changing, Commands
  <2>5. NoChange /\ pc = "plan" => NoChange'
    BY <2>3, <2>4 DEF NoChange
  <2>6. \A m \in Members(h2d') : m.op \in Changing => roles[m.sector] = "write" /\ ~config.dryRun
    BY <2>2, <2>3, <2>4 DEF PlanInv
  <2> QED
    BY <2>1, <2>5, <2>6 DEF PlanInv
<1>2. CASE SendFails \/ CommandTimeout
  <2>1. UNCHANGED <<roles, config, sector, h2d>> /\ \E why : RetryOrFail(why)
    BY <1>2 DEF SendFails, CommandTimeout, planVars
  <2>2. pc' = pc \/ pc' \notin Busy
    BY <2>1 DEF RetryOrFail, Fail, Busy, Commands
  <2> QED
    BY <2>1, <2>2, PlanFrame
<1>3. CASE KeepaliveSend
  <2>1. UNCHANGED <<roles, config, pc, sector>>
    BY <1>3 DEF KeepaliveSend, planVars
  <2> DEFINE m == [op |-> "HEALTH", sector |-> sector, chunk |-> chunk]
  <2>2. m \in Message /\ m.op \notin Changing
    BY RequestTypes DEF TypeInv, Opcodes, Changing
  <2>3. h2d' = Append(h2d, m)
    BY <1>3 DEF KeepaliveSend
  <2> HIDE DEF m
  <2>4. Members(h2d') = Members(h2d) \cup {m}
    BY <2>2, <2>3, AppendOf DEF TypeInv
  <2> QED
    BY <2>1, <2>2, <2>4, PlanFrame
<1>4. CASE KeepaliveEnds
  BY <1>4, PlanFrame DEF KeepaliveEnds, planVars
<1> QED
  BY <1>1, <1>2, <1>3, <1>4

LEMMA ReplyKeepsPlan ==
  ASSUME TypeInv, PlanInv, Reply
  PROVE  PlanInv'
<1> USE Constants
<1>1. pc \in Commands /\ UNCHANGED <<config, h2d>>
  BY ReplyWays
<1>2. CASE /\ RetryOrFail("transport") \/ pc' = "failed"
           /\ UNCHANGED <<sector, roles>>
  <2>1. pc' = pc \/ pc' \notin Busy
    BY <1>2 DEF RetryOrFail, Fail, Busy, Commands
  <2> QED
    BY <1>1, <1>2, <2>1, PlanFrame
<1>3. CASE pc = "plan" /\ Planned(Head(d2h).crc)
  <2>1. sector \in Sectors /\ sector \in Nat /\ roles \in [Sectors -> {"none", "skip", "write"}]
    BY <1>3 DEF TypeInv, TypeOK, Commands
  <2>2. roles' \in [Sectors -> {"none", "skip", "write"}] /\ roles'[sector] # "none"
        /\ \A s \in Sectors \ {sector} : roles'[s] = roles[s]
    BY <1>3, <2>1 DEF Planned
  <2>3. NoChange /\ NoChange'
    BY <1>1, <1>3 DEF PlanInv, NoChange
  <2>4. \A s \in 1 .. sector : s \in Sectors /\ roles'[s] # "none"
    <3> SUFFICES ASSUME NEW s \in 1 .. sector PROVE s \in Sectors /\ roles'[s] # "none"
      OBVIOUS
    <3>1. s \in Sectors
      BY <2>1 DEF Sectors
    <3>2. s # sector => s \in 1 .. sector - 1
      BY <2>1
    <3> QED
      BY <1>3, <2>2, <3>1, <3>2 DEF PlanInv
  <2>5. CASE sector = NSectors
    <3>1. pc' = "exec"
      BY <1>3, <2>5 DEF Planned
    <3> QED
      BY <2>3, <2>4, <2>5, <3>1 DEF PlanInv, NoChange, Sectors
  <2>6. CASE sector # NSectors
    <3>1. pc' = "plan" /\ sector' = sector + 1
      BY <1>3, <2>6 DEF Planned
    <3>2. 1 .. sector' - 1 = 1 .. sector
      BY <2>1, <3>1
    <3> QED
      BY <2>3, <2>4, <3>1, <3>2 DEF PlanInv, NoChange
  <2> QED
    BY <2>5, <2>6
<1>4. ASSUME pc \in {"erase", "write", "verify", "commit"}, roles' = roles,
             pc' \notin {"plan", "erase"},
             pc' = "write" => sector' = sector /\ pc \in {"erase", "write"}
      PROVE  PlanInv'
  <2>1. \A s \in Sectors : roles[s] # "none"
    BY <1>4 DEF PlanInv, Busy, Commands
  <2> QED
    BY <1>1, <1>4, <2>1 DEF PlanInv
<1>5. CASE \/ pc = "erase" /\ Erased
           \/ pc = "write" /\ ChunkWritten
           \/ pc = "verify" /\ Verified(Head(d2h).crc)
           \/ pc = "commit" /\ Committed
  <2>1. roles' = roles /\ pc' \notin {"plan", "erase"} /\ (pc' = "write" => sector' = sector /\ pc \in {"erase", "write"})
    BY <1>5 DEF Erased, ChunkWritten, Verified, Committed, SectorDone, Fail
  <2> QED
    BY <1>4, <1>5, <2>1
<1> QED
  BY <1>2, <1>3, <1>5, ReplyWays

LEMMA ToolKeepsPlan ==
  ASSUME TypeInv, PlanInv, Interrupt \/ Disconnect \/ Rerun
  PROVE  PlanInv'
<1>1. CASE Interrupt
  BY <1>1, PlanFrame DEF Interrupt, planVars, Busy, Commands
<1>2. CASE Disconnect
  <2> DEFINE m == [op |-> "DISCONNECT", sector |-> sector, chunk |-> chunk]
  <2>1. m \in Message /\ m.op \notin Changing
    BY RequestTypes DEF TypeInv, Opcodes, Changing
  <2>2. h2d' = Append(h2d, m) \/ h2d' = h2d
    BY <1>2 DEF Disconnect
  <2> HIDE DEF m
  <2>3. Members(Append(h2d, m)) = Members(h2d) \cup {m}
    BY <2>1, AppendOf DEF TypeInv
  <2>4. Members(h2d') \subseteq Members(h2d) \cup {m}
    BY <2>2, <2>3
  <2> QED
    BY <1>2, <2>1, <2>4, PlanFrame DEF Disconnect, planVars, Busy, Commands
<1>3. CASE Rerun
  <2>1. PICK c \in Configs : BeginRun(c)
    BY <1>3 DEF Rerun
  <2>2. Members(h2d') = {}
    BY <1>3, EmptyMembers DEF Rerun
  <2>3. c.diff \in BOOLEAN
    BY FlashAssumption DEF FlashConfig
  <2> QED
    BY <2>1, <2>2, <2>3 DEF BeginRun, PlanInv, NoChange
<1> QED
  BY <1>1, <1>2, <1>3

LEMMA PlanStep ==
  ASSUME TypeInv, PlanInv, [Next]_vars
  PROVE  PlanInv'
<1>1. CASE Device
  BY <1>1, DeviceFrame, PlanFrame DEF hostVars, planVars
<1>2. CASE UNCHANGED vars
  BY <1>2 DEF vars, hostVars, planVars, PlanInv, NoChange
<1> QED
  BY <1>1, <1>2, ExecuteKeepsPlan, ExchangeKeepsPlan, ReplyKeepsPlan, ToolKeepsPlan
     DEF Next, Engine, Tool, Finished

LEMMA PlanInvariant == Spec => []PlanInv
<1>1. Init => PlanInv
  <2> SUFFICES ASSUME Init PROVE PlanInv
    OBVIOUS
  <2>1. config.diff \in BOOLEAN
    BY FlashAssumption DEF Init, FlashConfig
  <2>2. Members(h2d) = {}
    BY EmptyMembers DEF Init
  <2> QED
    BY <2>1, <2>2 DEF Init, PlanInv, NoChange
<1>2. TypeInv /\ PlanInv /\ [Next]_vars => PlanInv'
  BY PlanStep
<1> QED
  BY <1>1, <1>2, TypeInvariant, PTL DEF Spec

(* Flash changes by ERASE and WRITE only, in the sector they name.         *)
LEMMA ChangesWhere ==
  ASSUME TypeInv, [Next]_vars, NEW s \in Sectors, flash'[s] # flash[s]
  PROVE  /\ ServeErase \/ ServeWrite
         /\ h2d # <<>> /\ Head(h2d) \in Members(h2d)
         /\ Head(h2d).op \in Changing /\ Head(h2d).sector = s
<1>1. ServeErase \/ ServeWrite
  BY DEF Next, Engine, Tool, Device, DeviceServes, Finished, Execute, Conclude, Send, SendFails, CommandTimeout,
         KeepaliveSend, KeepaliveEnds, Reply, Interrupt, Disconnect, Rerun, ServeHealth, ServeDisconnect,
         RefuseGated, ServeReadCrc, ServeVerify, DeviceRefuses, BusLoses, DeviceExpires, devVars, vars
<1>2. h2d # <<>> /\ Head(h2d).op \in Changing
  BY <1>1 DEF ServeErase, ServeWrite, Receive, Changing
<1>3. Head(h2d) \in Members(h2d)
  BY <1>2, TailOf DEF TypeInv
<1>4. Head(h2d).sector = s
  BY <1>1 DEF ServeErase, ServeWrite, Program, TypeInv, TypeOK, Flash
<1> QED
  BY <1>1, <1>2, <1>3, <1>4

(* A sector of the device changes only if the run's plan is to write it,   *)
(* never in a dry run: not by a command that was sent again, arrives late  *)
(* or outlives the run.                                                    *)
THEOREM OnlyPlannedChange == Spec => OnlyPlannedSectorsChange
<1>1. TypeInv /\ PlanInv /\ [Next]_vars
      => [\A s \in Sectors : flash'[s] # flash[s] => roles[s] = "write" /\ ~config.dryRun]_vars
  BY ChangesWhere DEF PlanInv
<1> QED
  BY <1>1, TypeInvariant, PlanInvariant, PTL DEF Spec, OnlyPlannedSectorsChange

-----------------------------------------------------------------------------
(* The commit vouches for the flash.                                       *)

Sealed == Installed /\ committed /\ NoChange

NoVerify(q) == \A m \in Members(q) : m.op # "VERIFY"

(* VERIFY is the last command of a run that could change anything: no      *)
(* ERASE or WRITE follows one, so an ACK of it speaks of the final flash.  *)
SealInv ==
    /\ \A i, j \in 1 .. Len(h2d) : i < j /\ h2d[i].op = "VERIFY" => h2d[j].op \notin Changing
    /\ pc \in Busy \ {"commit"} => NoVerify(h2d) /\ NoVerify(d2h)
    /\ \A r \in Members(d2h) : r.op = "VERIFY" /\ r.res = "ack" => Sealed
    /\ pc = "done" /\ config.finalCommit /\ ~config.dryRun => Sealed

(* An order of two commands that a new last one, or the loss of the first, *)
(* leaves alone.                                                           *)
LEMMA OrderAppend ==
  ASSUME NEW q \in Seq(Message), NEW e \in Message,
         \A i, j \in 1 .. Len(q) : i < j /\ q[i].op = "VERIFY" => q[j].op \notin Changing,
         e.op \in Changing => NoVerify(q)
  PROVE  LET p == Append(q, e) IN
         \A i, j \in 1 .. Len(p) : i < j /\ p[i].op = "VERIFY" => p[j].op \notin Changing
<1> DEFINE p == Append(q, e)
<1>1. /\ Len(q) \in Nat /\ Len(p) = Len(q) + 1 /\ p[Len(q) + 1] = e
      /\ \A i \in 1 .. Len(q) : p[i] = q[i]
  BY AppendOf
<1> HIDE DEF p
<1> SUFFICES ASSUME NEW i \in 1 .. Len(p), NEW j \in 1 .. Len(p), i < j, p[i].op = "VERIFY"
             PROVE  p[j].op \notin Changing
  BY DEF p
<1>2. i \in 1 .. Len(q) /\ q[i].op = "VERIFY" /\ q[i] \in Members(q)
  BY <1>1 DEF Members
<1>3. CASE j \in 1 .. Len(q)
  BY <1>1, <1>2, <1>3
<1>4. CASE j = Len(q) + 1
  BY <1>1, <1>2, <1>4 DEF NoVerify
<1> QED
  BY <1>1, <1>3, <1>4

LEMMA OrderTail ==
  ASSUME NEW q \in Seq(Message), q # <<>>,
         \A i, j \in 1 .. Len(q) : i < j /\ q[i].op = "VERIFY" => q[j].op \notin Changing
  PROVE  LET p == Tail(q) IN
         /\ \A i, j \in 1 .. Len(p) : i < j /\ p[i].op = "VERIFY" => p[j].op \notin Changing
         /\ Head(q).op = "VERIFY" => \A m \in Members(p) : m.op \notin Changing
<1> DEFINE p == Tail(q)
<1>1. /\ Len(q) \in Nat /\ Len(p) = Len(q) - 1 /\ Head(q) = q[1] /\ 1 \in 1 .. Len(q)
      /\ \A i \in 1 .. Len(p) : i + 1 \in 1 .. Len(q) /\ p[i] = q[i + 1]
  BY TailOf
<1> HIDE DEF p
<1>2. \A i, j \in 1 .. Len(p) : i < j /\ p[i].op = "VERIFY" => p[j].op \notin Changing
  <2> SUFFICES ASSUME NEW i \in 1 .. Len(p), NEW j \in 1 .. Len(p), i < j, p[i].op = "VERIFY"
               PROVE  p[j].op \notin Changing
    OBVIOUS
  <2>1. i + 1 \in 1 .. Len(q) /\ j + 1 \in 1 .. Len(q) /\ i + 1 < j + 1
    BY <1>1
  <2> QED
    BY <1>1, <2>1
<1>3. Head(q).op = "VERIFY" => \A m \in Members(p) : m.op \notin Changing
  <2> SUFFICES ASSUME Head(q).op = "VERIFY", NEW i \in 1 .. Len(p) PROVE p[i].op \notin Changing
    BY DEF Members
  <2>1. 1 < i + 1
    BY <1>1
  <2> QED
    BY <1>1, <2>1
<1> QED
  BY <1>2, <1>3 DEF p

(* A step that only drops messages, in a stage it does not leave for a     *)
(* stage of the run.                                                       *)
LEMMA SealFrame ==
  ASSUME TypeInv, SealInv, UNCHANGED <<h2d, flash, committed>>,
         pc' \in Busy \ {"commit"} => pc \in Busy \ {"commit"},
         pc' = "done" => pc = "done",
         config' = config, Members(d2h') \subseteq Members(d2h)
  PROVE  SealInv'
BY DEF SealInv, Sealed, Installed, NoChange, NoVerify

(* A command sent in a stage where it may be.                              *)
LEMMA SealSend ==
  ASSUME TypeInv, SealInv, UNCHANGED <<flash, committed, config>>,
         NEW m \in Message, h2d' = Append(h2d, m),
         m.op \in Changing => pc \in Busy \ {"commit"},
         pc' = pc \/ pc' = "closed",
         m.op = "VERIFY" => pc' \notin Busy \ {"commit"},
         Members(d2h') \subseteq Members(d2h)
  PROVE  SealInv'
<1>1. Members(h2d') = Members(h2d) \cup {m}
  BY AppendOf DEF TypeInv
<1>2. \A i, j \in 1 .. Len(h2d') : i < j /\ h2d'[i].op = "VERIFY" => h2d'[j].op \notin Changing
  BY OrderAppend DEF TypeInv, SealInv
<1>3. m.op \notin Changing => (Sealed => Sealed')
  BY <1>1 DEF Sealed, Installed, NoChange
<1>4. "closed" \notin Busy /\ "done" \notin Busy
  BY DEF Busy, Commands
<1>5. CASE m.op \in Changing
  BY <1>1, <1>2, <1>4, <1>5 DEF SealInv, NoVerify
<1>6. CASE m.op \notin Changing
  BY <1>1, <1>2, <1>3, <1>4, <1>6 DEF SealInv, NoVerify
<1> QED
  BY <1>5, <1>6

LEMMA EngineKeepsSeal ==
  ASSUME TypeInv, SealInv, Engine \/ SendFails \/ KeepaliveSend
  PROVE  SealInv'
<1> USE DEF Commands, Busy
<1>1. CASE Execute
  <2>1. pc = "exec" /\ pc' \in {"exec", "erase"} /\ UNCHANGED <<config, h2d, d2h, flash, committed>>
    BY <1>1 DEF Execute, devVars
  <2> QED
    BY <2>1, SealFrame
<1>2. CASE Conclude
  BY <1>2 DEF Conclude, devVars, SealInv, Sealed, Installed, NoChange, NoVerify
<1>3. CASE Send
  <2>1. UNCHANGED <<config, pc, flash, committed>> /\ pc \in Commands /\ h2d' = Append(h2d, Request)
    BY <1>3 DEF Send, devVars
  <2>2. Request \in Message /\ Request.op = Opcode[pc]
    <3>1. Opcode[pc] \in Opcodes /\ (Opcode[pc] # "VERIFY" => sector \in Sectors)
      BY <2>1, OpcodeOf DEF Opcodes, TypeInv, TypeOK
    <3> QED
      BY <3>1, RequestTypes DEF Request, TypeInv
  <2>3. (Request.op \in Changing => pc # "commit") /\ (Request.op = "VERIFY" => pc = "commit")
    BY <2>1, <2>2, OpcodeOf DEF Changing
  <2>4. Members(d2h') \subseteq Members(d2h)
    BY <1>3, DrainOf DEF Send, TypeInv
  <2> QED
    BY <2>1, <2>2, <2>3, <2>4, SealSend
<1>4. CASE SendFails \/ CommandTimeout
  <2>1. UNCHANGED <<config, h2d, d2h, flash, committed>> /\ \E why : RetryOrFail(why)
    BY <1>4 DEF SendFails, CommandTimeout, devVars
  <2>2. pc' \in {pc, "failed"}
    BY <2>1 DEF RetryOrFail, Fail
  <2> QED
    BY <2>1, <2>2, SealFrame
<1>5. CASE KeepaliveSend
  <2> DEFINE m == [op |-> "HEALTH", sector |-> sector, chunk |-> chunk]
  <2>1. m \in Message /\ m.op \notin Changing /\ m.op # "VERIFY"
    BY RequestTypes DEF TypeInv, Opcodes, Changing
  <2>2. h2d' = Append(h2d, m) /\ UNCHANGED <<config, pc, d2h, flash, committed>>
    BY <1>5 DEF KeepaliveSend, devVars
  <2> HIDE DEF m
  <2> QED
    BY <2>1, <2>2, SealSend
<1>6. CASE KeepaliveEnds
  <2>1. Members(d2h') \subseteq Members(d2h)
    BY <1>6, TailOf DEF KeepaliveEnds, TypeInv
  <2> QED
    BY <1>6, <2>1, SealFrame DEF KeepaliveEnds, devVars
<1>7. CASE Reply
  <2>1. /\ pc \in Commands /\ d2h # <<>> /\ UNCHANGED <<config, h2d, flash, committed>>
        /\ Head(d2h) \in Members(d2h) /\ Members(d2h') \subseteq Members(d2h)
    BY <1>7, ReplyWays, TailOf DEF TypeInv
  <2>2. CASE RetryOrFail("transport") \/ pc' = "failed"
    <3>1. pc' \in {pc, "failed"}
      BY <2>2 DEF RetryOrFail, Fail
    <3> QED
      BY <2>1, <3>1, SealFrame
  <2>3. CASE \/ pc = "plan" /\ Planned(Head(d2h).crc)
             \/ pc = "erase" /\ Erased
             \/ pc = "write" /\ ChunkWritten
             \/ pc = "verify" /\ Verified(Head(d2h).crc)
    <3>1. pc # "commit" /\ pc' # "done"
      BY <2>3 DEF Planned, Erased, ChunkWritten, Verified, SectorDone, Fail
    <3> QED
      BY <2>1, <3>1, SealFrame
  <2>4. CASE pc = "commit" /\ Committed /\ Head(d2h).res = "ack" /\ Head(d2h).op = Opcode[pc]
    <3>1. Sealed /\ pc' = "done"
      BY <2>1, <2>4, OpcodeOf DEF SealInv, Committed
    <3>2. Sealed'
      BY <2>1, <3>1 DEF Sealed, Installed, NoChange
    <3> QED
      BY <2>1, <3>1, <3>2 DEF SealInv
  <2> QED
    BY <1>7, <2>2, <2>3, <2>4, ReplyWays
<1> QED
  BY <1>1, <1>2, <1>3, <1>4, <1>5, <1>6, <1>7 DEF Engine

LEMMA ToolKeepsSeal ==
  ASSUME TypeInv, SealInv, Interrupt \/ Disconnect \/ Rerun
  PROVE  SealInv'
<1> USE DEF Commands, Busy
<1>1. CASE Interrupt
  BY <1>1, SealFrame DEF Interrupt, devVars
<1>2. CASE Disconnect
  <2> DEFINE m == [op |-> "DISCONNECT", sector |-> sector, chunk |-> chunk]
  <2>1. m \in Message /\ m.op \notin Changing /\ m.op # "VERIFY"
    BY RequestTypes DEF TypeInv, Opcodes, Changing
  <2>2. /\ h2d' = Append(h2d, m) \/ h2d' = h2d
        /\ pc' = "closed" /\ UNCHANGED <<config, d2h, flash, committed>>
    BY <1>2 DEF Disconnect, devVars
  <2> HIDE DEF m
  <2>3. CASE h2d' = Append(h2d, m)
    BY <2>1, <2>2, <2>3, SealSend
  <2>4. CASE h2d' = h2d
    BY <2>2, <2>4, SealFrame
  <2> QED
    BY <2>2, <2>3, <2>4
<1>3. CASE Rerun
  <2>1. h2d' = <<>> /\ d2h' = <<>>
    BY <1>3 DEF Rerun
  <2>2. Members(h2d') = {} /\ Members(d2h') = {} /\ Len(h2d') = 0
    BY <2>1, EmptyMembers
  <2>3. pc' # "done"
    BY <1>3 DEF Rerun, BeginRun
  <2> QED
    BY <2>2, <2>3 DEF SealInv, NoVerify
<1> QED
  BY <1>1, <1>2, <1>3

(* What the device makes of the command at the head.                       *)
LEMMA SealServe ==
  ASSUME TypeInv, SealInv, UNCHANGED hostVars, h2d # <<>>, h2d' = Tail(h2d),
         NEW a \in Response, d2h' = Append(d2h, a), a.op = Head(h2d).op,
         a.op = "VERIFY" /\ a.res = "ack" => Installed' /\ committed',
         a.op \in Changing \/ flash' = flash,
         committed => committed'
  PROVE  SealInv'
<1>1. /\ Head(h2d) \in Members(h2d) /\ Members(h2d') \subseteq Members(h2d)
      /\ Members(d2h') = Members(d2h) \cup {a}
  BY TailOf, AppendOf DEF TypeInv
<1>2. /\ \A i, j \in 1 .. Len(h2d') : i < j /\ h2d'[i].op = "VERIFY" => h2d'[j].op \notin Changing
      /\ a.op = "VERIFY" => NoChange'
  BY OrderTail DEF TypeInv, SealInv, NoChange
<1>3. Sealed => Sealed'
  <2> SUFFICES ASSUME Sealed PROVE Sealed'
    OBVIOUS
  <2>1. a.op \notin Changing
    BY <1>1 DEF Sealed, NoChange
  <2> QED
    BY <1>1, <2>1 DEF Sealed, NoChange, Installed
<1>4. \A r \in Members(d2h') : r.op = "VERIFY" /\ r.res = "ack" => Sealed'
  BY <1>1, <1>2, <1>3 DEF SealInv, Sealed
<1>5. pc \in Busy \ {"commit"} => NoVerify(h2d') /\ NoVerify(d2h')
  BY <1>1 DEF SealInv, NoVerify
<1>6. pc' = pc /\ config' = config
  BY DEF hostVars
<1> QED
  BY <1>2, <1>3, <1>4, <1>5, <1>6 DEF SealInv, NoVerify

LEMMA DeviceKeepsSeal ==
  ASSUME TypeInv, SealInv, Device
  PROVE  SealInv'
<1>0. UNCHANGED hostVars
  BY DeviceFrame
<1>1. ASSUME NEW res \in Results, h2d # <<>>, h2d' = Tail(h2d), Answer(res),
             Head(h2d).op = "VERIFY" /\ res = "ack" => Installed' /\ committed',
             Head(h2d).op \in Changing \/ flash' = flash,
             committed => committed'
      PROVE  SealInv'
  <2>1. PICK a \in Response : a.op = Head(h2d).op /\ a.res = res /\ d2h' = Append(d2h, a)
    BY <1>1, AnswerTypes
  <2> QED
    BY <1>0, <1>1, <2>1, SealServe
<1>2. CASE ServeHealth \/ ServeDisconnect \/ RefuseGated \/ ServeReadCrc \/ ServeErase \/ DeviceRefuses
  BY <1>1, <1>2 DEF ServeHealth, ServeDisconnect, RefuseGated, ServeReadCrc, ServeErase, DeviceRefuses,
     Receive, Results, devVars, Changing
<1>3. CASE ServeWrite
  BY <1>1, <1>3 DEF ServeWrite, Receive, Results, Changing
<1>4. CASE ServeVerify
  <2>1. h2d # <<>> /\ h2d' = Tail(h2d) /\ flash' = flash /\ committed' = (committed \/ Installed)
    BY <1>4 DEF ServeVerify, Receive
  <2>2. Installed' <=> Installed
    BY <2>1 DEF Installed
  <2>3. CASE Installed /\ Answer("ack")
    BY <1>1, <2>1, <2>2, <2>3 DEF Results
  <2>4. CASE ~Installed /\ Answer("crc_mismatch")
    BY <1>1, <2>1, <2>4 DEF Results
  <2> QED
    BY <1>4, <2>3, <2>4 DEF ServeVerify
<1>5. CASE BusLoses \/ DeviceExpires
  <2>1. UNCHANGED <<pc, config, flash, committed>>
    BY <1>0, <1>5 DEF hostVars, BusLoses, DeviceExpires, devVars
  <2>2. CASE h2d' = h2d
    <3>1. Members(d2h') \subseteq Members(d2h)
      BY <1>5, TailOf DEF BusLoses, DeviceExpires, TypeInv
    <3> QED
      BY <2>1, <2>2, <3>1, SealFrame
  <2>3. CASE h2d # <<>> /\ h2d' = Tail(h2d) /\ d2h' = d2h
    <3>1. Members(h2d') \subseteq Members(h2d)
      BY DeviceFrame
    <3>2. \A i, j \in 1 .. Len(h2d') : i < j /\ h2d'[i].op = "VERIFY" => h2d'[j].op \notin Changing
      BY <2>3, OrderTail DEF TypeInv, SealInv
    <3>3. Sealed => Sealed'
      BY <2>1, <3>1 DEF Sealed, Installed, NoChange
    <3> QED
      BY <2>1, <2>3, <3>1, <3>2, <3>3 DEF SealInv, NoVerify
  <2> QED
    BY <1>5, <2>2, <2>3 DEF BusLoses, DeviceExpires
<1> QED
  BY <1>2, <1>3, <1>4, <1>5 DEF Device, DeviceServes

LEMMA SealStep ==
  ASSUME TypeInv, SealInv, [Next]_vars
  PROVE  SealInv'
<1>1. CASE UNCHANGED vars
  BY <1>1 DEF vars, hostVars, devVars, SealInv, Sealed, Installed, NoChange, NoVerify
<1> QED
  BY <1>1, EngineKeepsSeal, ToolKeepsSeal, DeviceKeepsSeal DEF Next, Tool, Finished

(* A run that reports success has installed the image and committed it,    *)
(* for any image, however many commands were lost, refused, mis-programmed *)
(* or answered late: what FLASH_VERIFY ACKed cannot change any more.       *)
THEOREM SuccessIsInstalled == Spec => []SuccessMeansInstalled
<1>1. Init => SealInv
  <2> SUFFICES ASSUME Init PROVE SealInv
    OBVIOUS
  <2>1. Members(h2d) = {} /\ Members(d2h) = {} /\ Len(h2d) = 0 /\ pc # "done"
    BY EmptyMembers DEF Init
  <2> QED
    BY <2>1 DEF SealInv, NoVerify
<1>2. TypeInv /\ SealInv /\ [Next]_vars => SealInv'
  BY SealStep
<1>3. SealInv => SuccessMeansInstalled
  BY DEF SealInv, Sealed, SuccessMeansInstalled
<1> QED
  BY <1>1, <1>2, <1>3, TypeInvariant, PTL DEF Spec

-----------------------------------------------------------------------------
(* The verify of a sector.                                                 *)

(* As long as no reply outlives its command there is at most one message   *)
(* in flight, about the sector the engine is at, and the sectors before it *)
(* are done.                                                               *)
LinkInv ==
    ~late /\ pc \in Busy \cup {"done"} =>
        /\ Len(h2d) + Len(d2h) <= IF await = "no" THEN 0 ELSE 1
        /\ \A m \in Members(h2d) : m.op \in Changing \cup {"READ_CRC"} => m.sector = sector
        /\ \A r \in Members(d2h) : r.op = "READ_CRC" /\ r.res = "ack" => r.crc = flash[sector]
        /\ \A s \in written : s < sector
        /\ pc = "plan" => written = {}
        /\ config.verifyAfter /\ ~config.dryRun => \A s \in written : flash[s] = Image[s]

LEMMA EmptyOrOne ==
  ASSUME NEW S, NEW T, NEW p \in Seq(S), NEW q \in Seq(T)
  PROVE  /\ Len(p) \in Nat /\ Len(q) \in Nat
         /\ Len(p) + Len(q) <= 0 => p = <<>> /\ q = <<>>
         /\ Len(p) + Len(q) <= 1 /\ p # <<>> => Len(p) = 1 /\ q = <<>>
         /\ Len(p) + Len(q) <= 1 /\ q # <<>> => Len(q) = 1 /\ p = <<>>
<1>1. Len(p) \in Nat /\ Len(q) \in Nat /\ (p # <<>> => Len(p) >= 1) /\ (q # <<>> => Len(q) >= 1)
  BY TailOf, LenProperties
<1>2. (Len(p) = 0 => p = <<>>) /\ (Len(q) = 0 => q = <<>>)
  BY EmptySeq
<1>3. \A x, y \in Nat : /\ x + y <= 0 => x = 0 /\ y = 0
                        /\ x + y <= 1 /\ x >= 1 => x = 1 /\ y = 0
                        /\ x + y <= 1 /\ y >= 1 => y = 1 /\ x = 0
  OBVIOUS
<1> QED
  BY <1>1, <1>2, <1>3, Zenon

LEMMA LinkLens ==
  ASSUME TypeInv
  PROVE  /\ Len(h2d) \in Nat /\ Len(d2h) \in Nat
         /\ Len(h2d) + Len(d2h) <= 0 => h2d = <<>> /\ d2h = <<>>
         /\ Len(h2d) + Len(d2h) <= 1 /\ h2d # <<>> => Len(h2d) = 1 /\ d2h = <<>>
         /\ Len(h2d) + Len(d2h) <= 1 /\ d2h # <<>> => Len(d2h) = 1 /\ h2d = <<>>
  BY EmptyOrOne DEF TypeInv

(* Between two exchanges nothing is in flight.                             *)
LEMMA NothingBetween ==
  ASSUME TypeInv, LinkInv, ~late, pc \in Busy \cup {"done"}, await = "no"
  PROVE  h2d = <<>> /\ d2h = <<>> /\ Members(h2d) = {} /\ Members(d2h) = {}
<1>1. Len(h2d) + Len(d2h) <= 0
  BY DEF LinkInv
<1> QED
  BY <1>1, LinkLens, EmptyMembers

(* A step that ends with nothing in flight and leaves what was written.    *)
LEMMA LinkQuiet ==
  ASSUME h2d' = <<>>, d2h' = <<>>,
         ~late' /\ pc' \in Busy \cup {"done"} =>
             /\ \A s \in written' : s < sector'
             /\ pc' = "plan" => written' = {}
             /\ config'.verifyAfter /\ ~config'.dryRun => \A s \in written' : flash'[s] = Image[s]
  PROVE  LinkInv'
<1>1. Members(h2d') = {} /\ Members(d2h') = {}
  BY EmptyMembers
<1>2. Len(h2d') + Len(d2h') <= 0 /\ Len(h2d') + Len(d2h') <= 1
  OBVIOUS
<1> QED
  BY <1>1, <1>2 DEF LinkInv

(* A step that sends one message over the empty link.                      *)
LEMMA LinkSend ==
  ASSUME TypeInv, LinkInv, UNCHANGED <<late, config, pc, sector, written, flash>>,
         ~late, pc \in Busy, await = "no", await' # "no",
         NEW m \in Message, m.sector = sector, h2d' = Append(h2d, m), d2h' = <<>>
  PROVE  LinkInv'
<1>1. h2d = <<>> /\ Members(h2d) = {}
  BY NothingBetween
<1>2. Len(h2d') = 1 /\ Members(h2d') = {m}
  <2>1. Len(h2d') = Len(h2d) + 1 /\ Members(h2d') = Members(h2d) \cup {m}
    BY AppendOf DEF TypeInv
  <2> QED
    BY <1>1, <2>1
<1>3. Len(d2h') = 0 /\ Members(d2h') = {}
  BY EmptyMembers
<1>4. Len(h2d') + Len(d2h') <= 1
  BY <1>2, <1>3
<1>5. /\ \A s \in written : s < sector
      /\ pc = "plan" => written = {}
      /\ config.verifyAfter /\ ~config.dryRun => \A s \in written : flash[s] = Image[s]
  BY DEF LinkInv
<1> QED
  BY <1>2, <1>3, <1>4, <1>5 DEF LinkInv

LEMMA EngineKeepsLink ==
  ASSUME TypeInv, LinkInv, Engine \/ SendFails \/ KeepaliveSend
  PROVE  LinkInv'
<1> USE DEF Commands, Busy
<1>0. CASE late
  <2>1. late' = late
    BY DEF Engine, Execute, Conclude, Send, SendFails, CommandTimeout, KeepaliveSend, KeepaliveEnds, Reply
  <2> QED
    BY <1>0, <2>1 DEF LinkInv
<1> SUFFICES ASSUME ~late PROVE LinkInv'
  BY <1>0
<1>1. pc \in Busy
  BY DEF Engine, Execute, Conclude, Send, SendFails, CommandTimeout, KeepaliveSend, KeepaliveEnds, Reply, TypeInv
<1>2. /\ \A s \in written : s < sector
      /\ pc = "plan" => written = {}
      /\ config.verifyAfter /\ ~config.dryRun => \A s \in written : flash[s] = Image[s]
  BY <1>1 DEF LinkInv
<1>3. CASE Execute \/ Conclude
  <2>1. pc = "exec" /\ h2d = <<>> /\ d2h = <<>>
    BY <1>3, NothingBetween DEF Execute, Conclude, TypeInv
  <2>2. UNCHANGED <<late, config, h2d, d2h, flash>> /\ pc' # "plan"
    BY <1>3 DEF Execute, Conclude, devVars
  <2>3. CASE UNCHANGED <<sector, written>>
    BY <1>2, <2>1, <2>2, <2>3, LinkQuiet
  <2>4. CASE sector' = sector + 1 /\ (written' = written \/ (config.dryRun /\ written' = written \cup {sector}))
    <3>1. sector \in Nat /\ \A s \in written : s \in Nat
      BY DEF TypeInv, TypeOK, Sectors
    <3>2. \A s \in written' : s < sector'
      BY <1>2, <2>4, <3>1
    <3> QED
      BY <1>2, <2>1, <2>2, <2>4, <3>2, LinkQuiet
  <2> QED
    BY <1>3, <2>3, <2>4 DEF Execute, Conclude, planVars
<1>4. CASE Send
  <2>1. h2d = <<>> /\ d2h = <<>>
    BY <1>1, <1>4, NothingBetween DEF Send
  <2>2. d2h' = <<>>
    <3>1. PICK n \in 0 .. Len(d2h) : d2h' = SubSeq(d2h, n + 1, Len(d2h))
      BY <1>4 DEF Send
    <3>2. d2h' \in Seq(Response) /\ Len(d2h') = Len(d2h) - n
      BY <3>1, DrainOf DEF TypeInv
    <3>3. Len(d2h) = 0
      BY <2>1
    <3>4. Len(d2h') = 0
      BY <3>1, <3>2, <3>3
    <3> QED
      BY <3>2, <3>4, EmptySeq
  <2>3. Request \in Message /\ Request.sector = sector
    <3>1. Opcode[pc] \in Opcodes /\ (Opcode[pc] # "VERIFY" => sector \in Sectors)
      BY <1>4, OpcodeOf DEF Send, Opcodes, TypeInv, TypeOK
    <3> QED
      BY <3>1, RequestTypes DEF Request, TypeInv
  <2>4. /\ UNCHANGED <<late, config, pc, sector, written, flash>> /\ await = "no" /\ await' # "no"
        /\ h2d' = Append(h2d, Request)
    BY <1>4 DEF Send, planVars, devVars
  <2> QED
    BY <1>1, <2>2, <2>3, <2>4, LinkSend
<1>5. CASE KeepaliveSend
  <2> DEFINE m == [op |-> "HEALTH", sector |-> sector, chunk |-> chunk]
  <2>1. m \in Message /\ m.sector = sector
    BY RequestTypes DEF TypeInv, Opcodes
  <2>2. /\ UNCHANGED <<late, config, pc, sector, written, flash>> /\ await = "no" /\ await' # "no"
        /\ h2d' = Append(h2d, m) /\ d2h' = d2h
    BY <1>5 DEF KeepaliveSend, planVars, devVars
  <2>3. d2h' = <<>>
    BY <1>1, <2>2, NothingBetween
  <2> HIDE DEF m
  <2> QED
    BY <1>1, <2>1, <2>2, <2>3, LinkSend
<1>6. CASE SendFails \/ CommandTimeout
  <2>1. h2d = <<>> /\ d2h = <<>>
    BY <1>1, <1>6, NothingBetween DEF SendFails, CommandTimeout, Quiet
  <2>2. UNCHANGED <<late, config, sector, written, h2d, d2h, flash>> /\ \E why : RetryOrFail(why)
    BY <1>6 DEF SendFails, CommandTimeout, planVars, devVars
  <2>3. pc' \in {pc, "failed"}
    BY <2>2 DEF RetryOrFail, Fail
  <2> QED
    BY <1>2, <2>1, <2>2, <2>3, LinkQuiet
<1>7. ASSUME d2h # <<>>
      PROVE  h2d = <<>> /\ Tail(d2h) = <<>>
  <2>1. Len(h2d) + Len(d2h) <= 1
    <3>1. Len(h2d) + Len(d2h) <= IF await = "no" THEN 0 ELSE 1
      BY <1>1 DEF LinkInv
    <3> QED
      BY <3>1, LinkLens
  <2>2. Len(d2h) = 1 /\ h2d = <<>>
    BY <1>7, <2>1, LinkLens
  <2>3. Tail(d2h) \in Seq(Response) /\ Len(Tail(d2h)) = 0
    BY <1>7, <2>2, TailOf DEF TypeInv
  <2> QED
    BY <2>2, <2>3, EmptySeq
<1>8. CASE KeepaliveEnds
  <2>1. h2d' = <<>> /\ d2h' = <<>>
    BY <1>7, <1>8 DEF KeepaliveEnds, Quiet
  <2> QED
    BY <1>2, <1>8, <2>1, LinkQuiet DEF KeepaliveEnds, planVars, devVars
<1>9. CASE Reply
  <2>1. /\ UNCHANGED <<late, config, flash>> /\ h2d' = <<>> /\ d2h' = <<>> /\ d2h # <<>>
    BY <1>7, <1>9, ReplyWays
  <2>2. CASE /\ RetryOrFail("transport") \/ pc' = "failed"
             /\ UNCHANGED <<sector, written>>
    <3>1. pc' \in {pc, "failed"}
      BY <2>2 DEF RetryOrFail, Fail
    <3> QED
      BY <1>2, <2>1, <2>2, <3>1, LinkQuiet
  <2>3. CASE pc = "plan" /\ Planned(Head(d2h).crc)
    BY <1>2, <2>1, <2>3, LinkQuiet DEF Planned
  <2>4. CASE UNCHANGED <<sector, written>> /\ pc' # "plan"
    BY <1>2, <2>1, <2>4, LinkQuiet
  <2>5. CASE SectorDone /\ sector \in Sectors /\ (config.verifyAfter => flash[sector] = Image[sector])
    <3>1. sector \in Nat /\ \A s \in written : s \in Nat
      BY DEF TypeInv, TypeOK, Sectors
    <3>2. \A s \in written' : s < sector'
      BY <1>2, <2>5, <3>1 DEF SectorDone
    <3> QED
      BY <1>2, <2>1, <2>5, <3>2, LinkQuiet DEF SectorDone
  <2>6. CASE \/ pc = "erase" /\ Erased
             \/ pc = "commit" /\ Committed
    BY <2>4, <2>6 DEF Erased, Committed
  <2>7. CASE pc = "write" /\ ChunkWritten
    BY <2>4, <2>5, <2>7 DEF ChunkWritten, TypeInv, TypeOK
  <2>8. CASE pc = "verify" /\ Verified(Head(d2h).crc) /\ Head(d2h).res = "ack" /\ Head(d2h).op = Opcode[pc]
    <3>1. Head(d2h) \in Members(d2h)
      BY <2>1, TailOf DEF TypeInv
    <3>2. Head(d2h).crc = flash[sector]
      BY <1>1, <2>8, <3>1, OpcodeOf DEF LinkInv
    <3> QED
      BY <2>4, <2>5, <2>8, <3>2 DEF Verified, Fail, TypeInv, TypeOK
  <2>9. \/ (RetryOrFail("transport") \/ pc' = "failed") /\ UNCHANGED <<sector, written>>
        \/ pc = "plan" /\ Planned(Head(d2h).crc)
        \/ pc = "erase" /\ Erased
        \/ pc = "commit" /\ Committed
        \/ pc = "write" /\ ChunkWritten
        \/ pc = "verify" /\ Verified(Head(d2h).crc) /\ Head(d2h).res = "ack" /\ Head(d2h).op = Opcode[pc]
    BY <1>9, ReplyWays
  <2> QED
    BY <2>2, <2>3, <2>6, <2>7, <2>8, <2>9
<1> QED
  BY <1>3, <1>4, <1>5, <1>6, <1>8, <1>9 DEF Engine

(* The device serves the one command that is in flight.                    *)
LEMMA DeviceKeepsLink ==
  ASSUME TypeInv, LinkInv, [Next]_vars, Device
  PROVE  LinkInv'
<1> USE DEF Commands, Busy
<1>0. UNCHANGED <<late, config, pc, sector, written, await>>
  BY DeviceFrame DEF hostVars, planVars
<1>1. CASE late \/ pc \notin Busy \cup {"done"}
  BY <1>0, <1>1 DEF LinkInv
<1> SUFFICES ASSUME ~late, pc \in Busy \cup {"done"} PROVE LinkInv'
  BY <1>1
<1>2. /\ \A s \in written : s < sector /\ s \in Sectors
      /\ pc = "plan" => written = {}
      /\ config.verifyAfter /\ ~config.dryRun => \A s \in written : flash[s] = Image[s]
  BY DEF LinkInv, TypeInv, TypeOK
<1>3. \A s \in Sectors : flash'[s] # flash[s] => s = sector /\ Head(h2d).op \in Changing /\ (ServeErase \/ ServeWrite)
  BY ChangesWhere DEF LinkInv
<1>4. config.verifyAfter /\ ~config.dryRun => \A s \in written : flash'[s] = Image[s]
  <2>1. \A s \in written : s # sector
    BY <1>2 DEF TypeInv, TypeOK, Sectors
  <2> QED
    BY <1>2, <1>3, <2>1
<1>5. /\ Len(h2d) + Len(d2h) <= IF await = "no" THEN 0 ELSE 1
      /\ \A m \in Members(h2d) : m.op \in Changing \cup {"READ_CRC"} => m.sector = sector
      /\ \A r \in Members(d2h) : r.op = "READ_CRC" /\ r.res = "ack" => r.crc = flash[sector]
  BY DEF LinkInv
<1>6. Len(h2d) + Len(d2h) <= 1
  BY <1>5, LinkLens
<1>7. ASSUME NEW res \in Results, h2d # <<>>, h2d' = Tail(h2d), Answer(res),
             res = "ack" /\ Head(h2d).op = "READ_CRC" => UNCHANGED flash
      PROVE  LinkInv'
  <2>1. Len(h2d) = 1 /\ d2h = <<>> /\ Members(d2h) = {} /\ await # "no"
    BY <1>5, <1>6, <1>7, LinkLens, EmptyMembers
  <2>2. PICK a \in Response : /\ d2h' = Append(d2h, a) /\ a.op = Head(h2d).op /\ a.res = res
                              /\ a.op = "READ_CRC" => a.crc = flash[Head(h2d).sector]
    BY <1>7, AnswerTypes
  <2>3. Len(d2h') = 1 /\ Members(d2h') = {a}
    <3>1. Len(d2h') = Len(d2h) + 1 /\ Members(d2h') = Members(d2h) \cup {a}
      BY <2>2, AppendOf DEF TypeInv
    <3> QED
      BY <2>1, <3>1
  <2>4. Len(h2d') = 0 /\ Members(h2d') = {}
    <3>1. Len(h2d') = 0 /\ h2d' \in Seq(Message)
      BY <1>7, <2>1, TailOf DEF TypeInv
    <3> QED
      BY <3>1, EmptySeq, EmptyMembers
  <2>5. Head(h2d) \in Members(h2d)
    BY <1>7, TailOf DEF TypeInv
  <2>6. a.op = "READ_CRC" /\ a.res = "ack" => a.crc = flash'[sector]
    BY <1>5, <1>7, <2>2, <2>5
  <2>7. Len(h2d') + Len(d2h') <= 1
    BY <2>3, <2>4
  <2> QED
    BY <1>0, <1>2, <1>4, <2>1, <2>3, <2>4, <2>6, <2>7 DEF LinkInv
<1>8. CASE ServeHealth \/ ServeDisconnect \/ RefuseGated \/ ServeReadCrc \/ ServeErase \/ DeviceRefuses
  BY <1>7, <1>8 DEF ServeHealth, ServeDisconnect, RefuseGated, ServeReadCrc, ServeErase, DeviceRefuses,
     Receive, Results, devVars
<1>9. CASE ServeWrite
  BY <1>7, <1>9 DEF ServeWrite, Receive, Results
<1>10. CASE ServeVerify
  BY <1>7, <1>10 DEF ServeVerify, Receive, Results
<1>11. CASE BusLoses \/ DeviceExpires
  <2>1. flash' = flash /\ Members(h2d') \subseteq Members(h2d)
    BY <1>11, DeviceFrame DEF BusLoses, DeviceExpires, devVars
  <2>2. Members(d2h') \subseteq Members(d2h)
    BY <1>11, TailOf DEF BusLoses, DeviceExpires, TypeInv
  <2>3. Len(h2d') + Len(d2h') <= IF await = "no" THEN 0 ELSE 1
    <3>1. CASE UNCHANGED <<h2d, d2h>>
      BY <1>5, <3>1
    <3>2. CASE h2d # <<>> /\ h2d' = Tail(h2d) /\ d2h' = d2h
      <4>1. Len(h2d') = Len(h2d) - 1
        BY <3>2, TailOf DEF TypeInv
      <4> QED
        BY <1>5, <3>2, <4>1, LinkLens
    <3>3. CASE d2h # <<>> /\ d2h' = Tail(d2h) /\ h2d' = h2d
      <4>1. Len(d2h') = Len(d2h) - 1
        BY <3>3, TailOf DEF TypeInv
      <4> QED
        BY <1>5, <3>3, <4>1, LinkLens
    <3> QED
      BY <1>11, <3>1, <3>2, <3>3 DEF BusLoses, DeviceExpires
  <2> QED
    BY <1>0, <1>2, <1>5, <2>1, <2>2, <2>3 DEF LinkInv
<1> QED
  BY <1>8, <1>9, <1>10, <1>11 DEF Device, DeviceServes

LEMMA LinkStep ==
  ASSUME TypeInv, LinkInv, [Next]_vars
  PROVE  LinkInv'
<1>1. CASE Interrupt \/ Disconnect
  BY <1>1 DEF Interrupt, Disconnect, LinkInv, Busy, Commands
<1>2. CASE Rerun
  <2>1. h2d' = <<>> /\ d2h' = <<>> /\ written' = {}
    BY <1>2 DEF Rerun, BeginRun
  <2> QED
    BY <2>1, LinkQuiet
<1>3. CASE UNCHANGED vars
  BY <1>3 DEF vars, hostVars, planVars, devVars, LinkInv
<1> QED
  BY <1>1, <1>2, <1>3, EngineKeepsLink, DeviceKeepsLink DEF Next, Tool, Finished

(* The per-sector verify vouches for the sectors a run rewrote, padding    *)
(* included, for any image and any loss, as long as no reply outlives its  *)
(* command.                                                                *)
THEOREM VerifyIsWritten == Spec => []VerifyMeansWritten
<1>1. Init => LinkInv
  <2> SUFFICES ASSUME Init PROVE LinkInv
    OBVIOUS
  <2>1. Members(h2d) = {} /\ Members(d2h) = {} /\ Len(h2d) + Len(d2h) <= 0 /\ await = "no" /\ written = {}
    BY EmptyMembers DEF Init
  <2> QED
    BY <2>1 DEF LinkInv
<1>2. TypeInv /\ LinkInv /\ [Next]_vars => LinkInv'
  BY LinkStep
<1>3. LinkInv => VerifyMeansWritten
  BY DEF LinkInv, VerifyMeansWritten, Busy, Commands
<1> QED
  BY <1>1, <1>2, <1>3, TypeInvariant, PTL DEF Spec

-----------------------------------------------------------------------------
(* FLASH_HW.                                                               *)

IsBlank(s) == \A k \in Chunks : flash[s][k] = Blank

(* The WRITE of the current chunk has been tried.                          *)
Tried == pc = "write" /\ (await = "reply" \/ attempt > 1)

(* An answer to a WRITE is the last message in flight; an ACK of ERASE,    *)
(* while the engine waits for one, speaks of its sector.                   *)
AnswersInOrder ==
    \A i \in 1 .. Len(d2h) :
        /\ d2h[i].res # "flash_hw"
        /\ d2h[i].op = "WRITE" => Tried /\ i = Len(d2h) /\ h2d = <<>>
        /\ d2h[i].op = "ERASE" => pc \in {"erase", "write"}
        /\ d2h[i].op = "ERASE" /\ d2h[i].res = "ack" /\ pc = "erase" => IsBlank(sector)

(* A WRITE is the last message in flight and finds its chunk erased; an    *)
(* ERASE is of the current sector and comes before it.                     *)
CommandsInOrder ==
    \A i \in 1 .. Len(h2d) :
        /\ h2d[i].op = "WRITE" =>
              /\ Tried /\ i = Len(h2d)
              /\ h2d[i].sector = sector /\ h2d[i].chunk = chunk
              /\ flash[sector][chunk] = Blank
        /\ h2d[i].op = "ERASE" => pc \in {"erase", "write"} /\ h2d[i].sector = sector

(* What is left to be written of a sector is erased.                       *)
RestIsBlank ==
    pc = "write" =>
        /\ \A k \in Chunks : k > chunk => flash[sector][k] = Blank
        /\ Tried \/ flash[sector][chunk] = Blank

WriteInv ==
    /\ failure = "flash_hw" => resent
    /\ pc \in Busy /\ ~resent => AnswersInOrder /\ CommandsInOrder /\ RestIsBlank

(* Neither ERASE nor WRITE is in flight, nor an answer to one.             *)
NoneOf(q) == \A i \in 1 .. Len(q) : q[i].op \notin Changing

(* In the stages between two sectors nothing is under way that changes     *)
(* flash.                                                                  *)
LEMMA NoneBetween ==
  ASSUME WriteInv, pc \in Busy, ~resent, pc \notin {"erase", "write"}
  PROVE  NoneOf(h2d) /\ NoneOf(d2h) /\ (\A i \in 1 .. Len(d2h) : d2h[i].res # "flash_hw")
BY DEF WriteInv, AnswersInOrder, CommandsInOrder, NoneOf, Changing, Tried

(* A step to a stage other than the writing of a sector.                   *)
LEMMA WriteQuiet ==
  ASSUME NoneOf(h2d'), NoneOf(d2h'), \A i \in 1 .. Len(d2h') : d2h'[i].res # "flash_hw",
         pc' # "write", failure' = "flash_hw" => resent'
  PROVE  WriteInv'
BY DEF WriteInv, AnswersInOrder, CommandsInOrder, RestIsBlank, NoneOf, Changing

LEMMA DropKeepsNone ==
  ASSUME NEW S, NEW q \in Seq(S), NEW p, NoneOf(q), \A i \in 1 .. Len(q) : q[i].res # "flash_hw",
         \/ q # <<>> /\ p = Tail(q)
         \/ \E n \in 0 .. Len(q) : p = SubSeq(q, n + 1, Len(q))
  PROVE  NoneOf(p) /\ \A i \in 1 .. Len(p) : p[i].res # "flash_hw"
<1>1. \A i \in 1 .. Len(p) : \E j \in 1 .. Len(q) : p[i] = q[j]
  <2>1. CASE q # <<>> /\ p = Tail(q)
    BY <2>1, TailOf
  <2>2. CASE \E n \in 0 .. Len(q) : p = SubSeq(q, n + 1, Len(q))
    <3>1. PICK n \in 0 .. Len(q) : p = SubSeq(q, n + 1, Len(q))
      BY <2>2
    <3>2. \A i \in 1 .. Len(p) : i + n \in 1 .. Len(q) /\ p[i] = q[i + n]
      BY <3>1, DrainOf
    <3> QED
      BY <3>2
  <2> QED
    BY <2>1, <2>2
<1> QED
  BY <1>1 DEF NoneOf

LEMMA AppendKeepsNone ==
  ASSUME NEW S, NEW q \in Seq(S), NEW e \in S, NoneOf(q), e.op \notin Changing
  PROVE  NoneOf(Append(q, e))
<1>1. /\ Len(q) \in Nat /\ Len(Append(q, e)) = Len(q) + 1
      /\ Append(q, e)[Len(q) + 1] = e
      /\ \A i \in 1 .. Len(q) : Append(q, e)[i] = q[i]
  BY AppendOf
<1>2. \A i \in 1 .. Len(q) + 1 : i \in 1 .. Len(q) \/ i = Len(q) + 1
  BY <1>1
<1> QED
  BY <1>1, <1>2 DEF NoneOf

LEMMA SendKeepsWrite ==
  ASSUME TypeInv, WriteInv, Send
  PROVE  WriteInv'
<1>0. /\ pc \in Commands /\ await = "no" /\ await' = "reply" /\ h2d' = Append(h2d, Request)
      /\ \E n \in 0 .. Len(d2h) : d2h' = SubSeq(d2h, n + 1, Len(d2h))
      /\ UNCHANGED <<pc, sector, chunk, attempt, failure, flash>>
      /\ resent' = (resent \/ (pc = "write" /\ attempt > 1))
  BY DEF Send, devVars
<1>1. CASE resent'
  BY <1>1 DEF WriteInv
<1> SUFFICES ASSUME ~resent' PROVE WriteInv'
  BY <1>1
<1>2. ~resent /\ pc \in Busy /\ ~Tried
  BY <1>0 DEF Busy, Tried
<1>3. AnswersInOrder /\ CommandsInOrder /\ RestIsBlank /\ failure # "flash_hw"
  BY <1>2 DEF WriteInv
<1>4. Request \in Message /\ Request.op = Opcode[pc] /\ Request.sector = sector /\ Request.chunk = chunk
  <2>1. Opcode[pc] \in Opcodes /\ (Opcode[pc] # "VERIFY" => sector \in Sectors)
    BY <1>0, OpcodeOf DEF Opcodes, TypeInv, TypeOK, Commands
  <2> QED
    BY <2>1, RequestTypes DEF Request, TypeInv
<1>5. /\ Len(h2d) \in Nat /\ Len(h2d') = Len(h2d) + 1 /\ h2d'[Len(h2d) + 1] = Request
      /\ \A i \in 1 .. Len(h2d) : h2d'[i] = h2d[i]
  BY <1>0, <1>4, AppendOf DEF TypeInv
<1>6. \A i \in 1 .. Len(d2h') : \E j \in 1 .. Len(d2h) : d2h'[i] = d2h[j]
  BY <1>0, DrainOf DEF TypeInv
<1>7. AnswersInOrder'
  BY <1>0, <1>2, <1>3, <1>6 DEF AnswersInOrder, IsBlank
<1>8. Request.op = "WRITE" => pc = "write" /\ Tried' /\ flash[sector][chunk] = Blank
  BY <1>0, <1>2, <1>3, <1>4, OpcodeOf DEF RestIsBlank, Tried, Commands
<1>9. Request.op = "ERASE" => pc = "erase"
  BY <1>0, <1>4, OpcodeOf DEF Commands
<1>10. CommandsInOrder'
  <2> SUFFICES ASSUME NEW i \in 1 .. Len(h2d')
               PROVE  /\ h2d'[i].op = "WRITE" =>
                            /\ Tried' /\ i = Len(h2d')
                            /\ h2d'[i].sector = sector /\ h2d'[i].chunk = chunk
                            /\ flash[sector][chunk] = Blank
                      /\ h2d'[i].op = "ERASE" => pc \in {"erase", "write"} /\ h2d'[i].sector = sector
    BY <1>0 DEF CommandsInOrder
  <2>1. CASE i = Len(h2d) + 1
    BY <1>4, <1>5, <1>8, <1>9, <2>1
  <2>2. CASE i \in 1 .. Len(h2d)
    BY <1>2, <1>3, <1>5, <2>2 DEF CommandsInOrder
  <2> QED
    BY <1>5, <2>1, <2>2
<1>11. RestIsBlank'
  BY <1>0, <1>3 DEF RestIsBlank, Tried
<1> QED
  BY <1>0, <1>3, <1>7, <1>10, <1>11 DEF WriteInv

LEMMA EngineKeepsWrite ==
  ASSUME TypeInv, WriteInv, Engine \/ SendFails \/ KeepaliveSend
  PROVE  WriteInv'
<1> USE DEF Commands, Busy
<1>1. CASE Execute \/ Conclude
  <2>1. /\ pc = "exec" /\ pc' # "write"
        /\ UNCHANGED <<failure, resent, h2d, d2h>>
    BY <1>1 DEF Execute, Conclude
  <2>2. CASE resent
    BY <2>1, <2>2 DEF WriteInv
  <2>3. CASE ~resent
    BY <2>1, <2>3, NoneBetween, WriteQuiet DEF WriteInv
  <2> QED
    BY <2>2, <2>3
<1>2. CASE Send
  BY <1>2, SendKeepsWrite
<1>3. CASE SendFails \/ CommandTimeout
  <2>1. /\ pc \in Commands /\ UNCHANGED <<sector, chunk, resent, h2d, d2h, flash>>
        /\ \E why : why # "flash_hw" /\ RetryOrFail(why)
    BY <1>3 DEF SendFails, CommandTimeout, devVars, TypeInv
  <2>2. CASE pc' = "failed" /\ failure' # "flash_hw"
    BY <2>2 DEF WriteInv
  <2>3. CASE UNCHANGED <<pc, failure>> /\ attempt' = attempt + 1
    <3>1. attempt' > 1
      BY <2>3 DEF TypeInv, TypeOK
    <3>2. Tried => Tried'
      BY <2>3, <3>1 DEF Tried
    <3> QED
      BY <2>1, <2>3, <3>2 DEF WriteInv, AnswersInOrder, CommandsInOrder, RestIsBlank, IsBlank
  <2> QED
    BY <2>1, <2>2, <2>3 DEF RetryOrFail, Fail
<1>4. CASE KeepaliveSend
  <2> DEFINE m == [op |-> "HEALTH", sector |-> sector, chunk |-> chunk]
  <2>1. m \in Message /\ m.op \notin Changing
    BY RequestTypes DEF TypeInv, Opcodes, Changing
  <2>2. h2d' = Append(h2d, m) /\ UNCHANGED <<pc, sector, chunk, attempt, failure, resent, d2h, flash>>
    BY <1>4 DEF KeepaliveSend, devVars
  <2>3. ~Tried /\ ~Tried'
    BY <1>4, <2>2 DEF Tried, KeepaliveSend
  <2> HIDE DEF m
  <2>4. /\ Len(h2d) \in Nat /\ Len(h2d') = Len(h2d) + 1 /\ h2d'[Len(h2d) + 1] = m
        /\ \A i \in 1 .. Len(h2d) : h2d'[i] = h2d[i]
    BY <2>1, <2>2, AppendOf DEF TypeInv
  <2>5. \A i \in 1 .. Len(h2d) + 1 : i \in 1 .. Len(h2d) \/ i = Len(h2d) + 1
    BY <2>4
  <2>6. CommandsInOrder => CommandsInOrder'
    BY <2>1, <2>2, <2>3, <2>4, <2>5 DEF CommandsInOrder, Changing
  <2>7. AnswersInOrder => AnswersInOrder'
    BY <2>2, <2>3 DEF AnswersInOrder, IsBlank
  <2>8. RestIsBlank => RestIsBlank'
    BY <2>2, <2>3 DEF RestIsBlank
  <2> QED
    BY <2>2, <2>6, <2>7, <2>8 DEF WriteInv
<1>5. CASE KeepaliveEnds
  <2>1. UNCHANGED <<pc, sector, chunk, attempt, failure, resent, h2d, flash>> /\ attempt = 1
    BY <1>5 DEF KeepaliveEnds, devVars, TypeInv
  <2>2. ~Tried /\ ~Tried'
    BY <1>5, <2>1 DEF Tried, KeepaliveEnds
  <2>3. \A i \in 1 .. Len(d2h') : \E j \in 1 .. Len(d2h) : d2h'[i] = d2h[j]
    BY <1>5, TailOf DEF KeepaliveEnds, TypeInv
  <2>4. AnswersInOrder => AnswersInOrder'
    BY <2>1, <2>2, <2>3 DEF AnswersInOrder, IsBlank
  <2> QED
    BY <2>1, <2>2, <2>4 DEF WriteInv, CommandsInOrder, RestIsBlank
<1>6. CASE Reply
  <2>1. /\ UNCHANGED <<resent, h2d, flash>> /\ pc \in Commands /\ await = "reply" /\ await' = "no"
        /\ d2h # <<>> /\ d2h' = Tail(d2h)
    BY <1>6, ReplyWays
  <2>2. /\ Len(d2h) \in Nat /\ 1 \in 1 .. Len(d2h) /\ Head(d2h) = d2h[1] /\ Len(d2h') = Len(d2h) - 1
        /\ \A i \in 1 .. Len(d2h') : i + 1 \in 1 .. Len(d2h) /\ d2h'[i] = d2h[i + 1]
    BY <2>1, TailOf DEF TypeInv
  <2>3. failure' = "flash_hw" => resent
    <3>1. ~resent => Head(d2h).res # "flash_hw"
      BY <2>1, <2>2 DEF WriteInv, AnswersInOrder
    <3>2. failure' \in {failure, "transport", Head(d2h).res, "final_verify", "unexpected", "crc_mismatch"}
      BY <1>6, ReplyWays DEF RetryOrFail, Fail, Planned, Erased, ChunkWritten, Verified, SectorDone, Committed
    <3> QED
      BY <3>1, <3>2 DEF WriteInv
  <2>4. CASE resent \/ pc' \notin Busy
    BY <2>1, <2>3, <2>4 DEF WriteInv
  <2> SUFFICES ASSUME ~resent, pc' \in Busy PROVE WriteInv'
    BY <2>4
  <2>5. AnswersInOrder /\ CommandsInOrder /\ RestIsBlank
    BY <2>1 DEF WriteInv
  <2>6. CASE pc' = pc /\ attempt' = attempt + 1 /\ UNCHANGED <<sector, chunk>>
    <3>1. attempt' > 1
      BY <2>6 DEF TypeInv, TypeOK
    <3>2. Tried => Tried'
      BY <2>6, <3>1 DEF Tried
    <3>3. AnswersInOrder'
      <4> SUFFICES ASSUME NEW i \in 1 .. Len(d2h')
                   PROVE  /\ d2h'[i].res # "flash_hw"
                          /\ d2h'[i].op = "WRITE" => Tried' /\ i = Len(d2h') /\ h2d = <<>>
                          /\ d2h'[i].op = "ERASE" => pc \in {"erase", "write"}
                          /\ d2h'[i].op = "ERASE" /\ d2h'[i].res = "ack" /\ pc = "erase" => IsBlank(sector)
        BY <2>1, <2>6 DEF AnswersInOrder, IsBlank
      <4>1. i + 1 \in 1 .. Len(d2h) /\ d2h'[i] = d2h[i + 1] /\ (i + 1 = Len(d2h) => i = Len(d2h'))
        BY <2>2
      <4> QED
        BY <2>5, <3>2, <4>1 DEF AnswersInOrder
    <3>4. CommandsInOrder' /\ RestIsBlank'
      BY <2>1, <2>5, <2>6, <3>2 DEF CommandsInOrder, RestIsBlank
    <3> QED
      BY <2>3, <2>1, <3>3, <3>4 DEF WriteInv
  <2>7. ASSUME pc \in {"plan", "verify", "commit"}, pc' # "write"
        PROVE  WriteInv'
    <3>1. NoneOf(h2d) /\ NoneOf(d2h) /\ (\A i \in 1 .. Len(d2h) : d2h[i].res # "flash_hw")
      BY <2>1, <2>7, NoneBetween
    <3>2. NoneOf(d2h') /\ \A i \in 1 .. Len(d2h') : d2h'[i].res # "flash_hw"
      BY <2>1, <3>1, DropKeepsNone DEF TypeInv
    <3>3. NoneOf(h2d')
      BY <2>1, <3>1
    <3> QED
      BY <2>1, <2>3, <2>7, <3>2, <3>3, WriteQuiet
  <2>8. CASE \/ pc = "plan" /\ Planned(Head(d2h).crc)
             \/ pc = "verify" /\ Verified(Head(d2h).crc)
             \/ pc = "commit" /\ Committed
    BY <2>7, <2>8 DEF Planned, Verified, SectorDone, Committed, Fail
  <2>9. CASE pc = "erase" /\ Erased /\ Head(d2h).res = "ack" /\ Head(d2h).op = Opcode[pc] /\ attempt' = 1
    <3>1. IsBlank(sector) /\ ~Tried
      BY <2>2, <2>5, <2>9, OpcodeOf DEF AnswersInOrder, Tried
    <3>2. pc' = "write" /\ UNCHANGED <<sector, chunk>> /\ ~Tried'
      BY <2>1, <2>9 DEF Erased, Tried
    <3>3. \A i \in 1 .. Len(d2h') : \E j \in 1 .. Len(d2h) : d2h'[i] = d2h[j]
      BY <2>2
    <3>4. AnswersInOrder' /\ CommandsInOrder'
      BY <2>1, <2>5, <3>1, <3>2, <3>3 DEF AnswersInOrder, CommandsInOrder
    <3>5. RestIsBlank'
      BY <2>1, <3>1, <3>2 DEF RestIsBlank, IsBlank, TypeInv, TypeOK
    <3> QED
      BY <2>1, <2>3, <3>4, <3>5 DEF WriteInv
  <2>10. CASE pc = "write" /\ ChunkWritten /\ Head(d2h).op = Opcode[pc]
    <3>1. Len(d2h) = 1 /\ h2d = <<>>
      BY <2>2, <2>5, <2>10, OpcodeOf DEF AnswersInOrder
    <3>2. Len(d2h') = 0 /\ Len(h2d') = 0
      BY <2>1, <2>2, <3>1
    <3>3. AnswersInOrder' /\ CommandsInOrder'
      BY <3>2 DEF AnswersInOrder, CommandsInOrder
    <3>4. RestIsBlank'
      <4>1. CASE pc' # "write"
        BY <4>1 DEF RestIsBlank
      <4>2. CASE pc' = "write"
        <5>1. chunk < NChunks /\ chunk' = chunk + 1 /\ sector' = sector
          BY <2>10, <4>2 DEF ChunkWritten, SectorDone
        <5>2. chunk \in Nat /\ chunk' \in Chunks /\ chunk' > chunk
          BY <5>1, Constants DEF TypeInv, TypeOK, Chunks
        <5>3. \A k \in Chunks : k > chunk' => k > chunk
          BY <5>1, <5>2 DEF Chunks
        <5> QED
          BY <2>1, <2>5, <2>10, <5>1, <5>2, <5>3 DEF RestIsBlank
      <4> QED
        BY <4>1, <4>2
    <3> QED
      BY <2>1, <2>3, <3>3, <3>4 DEF WriteInv
  <2>11. \/ pc' = pc /\ attempt' = attempt + 1 /\ UNCHANGED <<sector, chunk>>
         \/ pc = "plan" /\ Planned(Head(d2h).crc)
         \/ pc = "verify" /\ Verified(Head(d2h).crc)
         \/ pc = "commit" /\ Committed
         \/ pc = "erase" /\ Erased /\ Head(d2h).res = "ack" /\ Head(d2h).op = Opcode[pc] /\ attempt' = 1
         \/ pc = "write" /\ ChunkWritten /\ Head(d2h).op = Opcode[pc]
    <3>1. RetryOrFail("transport") => (pc' = pc /\ attempt' = attempt + 1)
      BY DEF RetryOrFail, Fail
    <3>2. pc' # "failed"
      OBVIOUS
    <3> QED
      BY <1>6, <3>1, <3>2, ReplyWays
  <2> QED
    BY <2>6, <2>8, <2>9, <2>10, <2>11
<1> QED
  BY <1>1, <1>2, <1>3, <1>4, <1>5, <1>6 DEF Engine

(* What the device answers, and what it has made of its flash by then.     *)
LEMMA ServeKeepsWrite ==
  ASSUME TypeInv, WriteInv, UNCHANGED hostVars, h2d # <<>>, h2d' = Tail(h2d),
         NEW a \in Response, d2h' = Append(d2h, a), a.op = Head(h2d).op,
         \/ UNCHANGED flash /\ (a.op = "ERASE" => a.res # "ack") /\ a.res # "flash_hw"
         \/ ServeErase /\ a.res # "flash_hw"
         \/ ServeWrite /\ (Slot = Blank => a.res # "flash_hw")
  PROVE  WriteInv'
<1>0. UNCHANGED <<pc, sector, chunk, attempt, await, failure, resent>> /\ (Tried' <=> Tried)
  BY DEF hostVars, Tried
<1>1. CASE pc \notin Busy \/ resent
  BY <1>0, <1>1 DEF WriteInv
<1> SUFFICES ASSUME pc \in Busy, ~resent PROVE WriteInv'
  BY <1>1
<1>2. AnswersInOrder /\ CommandsInOrder /\ RestIsBlank
  BY DEF WriteInv
<1>3. /\ Len(h2d) \in Nat /\ 1 \in 1 .. Len(h2d) /\ Head(h2d) = h2d[1] /\ Len(h2d') = Len(h2d) - 1
      /\ \A i \in 1 .. Len(h2d') : i + 1 \in 1 .. Len(h2d) /\ h2d'[i] = h2d[i + 1]
      /\ Head(h2d) \in Message /\ h2d' \in Seq(Message)
  BY TailOf DEF TypeInv
<1>4. /\ Len(d2h) \in Nat /\ Len(d2h') = Len(d2h) + 1 /\ d2h'[Len(d2h) + 1] = a
      /\ \A i \in 1 .. Len(d2h) : d2h'[i] = d2h[i]
  BY AppendOf DEF TypeInv
<1>5. Head(h2d).op = "WRITE" =>
         Tried /\ h2d' = <<>> /\ Head(h2d).sector = sector /\ Head(h2d).chunk = chunk /\ flash[sector][chunk] = Blank
  <2> SUFFICES ASSUME Head(h2d).op = "WRITE"
               PROVE  Tried /\ h2d' = <<>> /\ Head(h2d).sector = sector /\ Head(h2d).chunk = chunk
                      /\ flash[sector][chunk] = Blank
    OBVIOUS
  <2>1. Tried /\ 1 = Len(h2d) /\ Head(h2d).sector = sector /\ Head(h2d).chunk = chunk /\ flash[sector][chunk] = Blank
    BY <1>2, <1>3 DEF CommandsInOrder
  <2>2. Len(h2d') = 0
    BY <1>3, <2>1
  <2> QED
    BY <1>3, <2>1, <2>2, EmptySeq
<1>6. Head(h2d).op = "ERASE" => pc \in {"erase", "write"} /\ Head(h2d).sector = sector
  BY <1>2, <1>3 DEF CommandsInOrder
<1>7. a.res # "flash_hw"
  BY <1>5 DEF ServeWrite, Receive, Slot
(* Flash only becomes blank, but for the chunk of a WRITE.                 *)
<1>8. /\ \A k \in Chunks : flash[sector][k] = Blank /\ (pc = "write" /\ k = chunk => Head(h2d).op # "WRITE")
             => flash'[sector][k] = Blank
      /\ Head(h2d).op = "ERASE" /\ a.res = "ack" => IsBlank(sector)'
  <2>1. CASE UNCHANGED flash /\ (a.op = "ERASE" => a.res # "ack")
    BY <2>1
  <2>2. CASE ServeErase
    <3>1. /\ Head(h2d).op = "ERASE"
          /\ flash' = [flash EXCEPT ![sector] = [k \in Chunks |-> Blank]]
          /\ sector \in Sectors
      BY <1>3, <1>6, <2>2 DEF ServeErase, Receive, Message
    <3>2. \A k \in Chunks : flash'[sector][k] = Blank
      BY <3>1 DEF TypeInv, TypeOK, Flash
    <3> QED
      BY <1>0, <3>2 DEF IsBlank
  <2>3. CASE ServeWrite
    <3>1. Head(h2d).op = "WRITE"
      BY <2>3 DEF ServeWrite, Receive
    <3>2. pc = "write" /\ sector \in Sectors /\ chunk \in Chunks
      BY <1>3, <1>5, <3>1 DEF Tried, Message
    <3>3. \A k \in Chunks : k # chunk => flash'[sector][k] = flash[sector][k]
      BY <1>5, <2>3, <3>1, <3>2 DEF ServeWrite, Program, TypeInv, TypeOK, Flash
    <3> QED
      BY <3>1, <3>2, <3>3
  <2> QED
    BY <2>1, <2>2, <2>3
<1>9. \A i \in 1 .. Len(d2h) : d2h[i].op # "WRITE"
  BY <1>2 DEF AnswersInOrder
<1>10. AnswersInOrder'
  <2> SUFFICES ASSUME NEW i \in 1 .. Len(d2h')
               PROVE  /\ d2h'[i].res # "flash_hw"
                      /\ d2h'[i].op = "WRITE" => Tried /\ i = Len(d2h') /\ h2d' = <<>>
                      /\ d2h'[i].op = "ERASE" => pc \in {"erase", "write"}
                      /\ d2h'[i].op = "ERASE" /\ d2h'[i].res = "ack" /\ pc = "erase" => IsBlank(sector)'
    BY <1>0 DEF AnswersInOrder, IsBlank
  <2>1. CASE i = Len(d2h) + 1
    BY <1>4, <1>5, <1>6, <1>7, <1>8, <2>1
  <2>2. CASE i \in 1 .. Len(d2h)
    <3>1. IsBlank(sector) /\ pc = "erase" => IsBlank(sector)'
      BY <1>0, <1>8 DEF IsBlank
    <3> QED
      BY <1>2, <1>4, <1>9, <2>2, <3>1 DEF AnswersInOrder
  <2> QED
    BY <1>4, <2>1, <2>2
<1>11. CommandsInOrder'
  <2> SUFFICES ASSUME NEW i \in 1 .. Len(h2d')
               PROVE  /\ h2d'[i].op = "WRITE" =>
                            /\ Tried /\ i = Len(h2d')
                            /\ h2d'[i].sector = sector /\ h2d'[i].chunk = chunk
                            /\ flash'[sector][chunk] = Blank
                      /\ h2d'[i].op = "ERASE" => pc \in {"erase", "write"} /\ h2d'[i].sector = sector
    BY <1>0 DEF CommandsInOrder
  <2>1. Head(h2d).op # "WRITE"
    <3>1. h2d' # <<>>
      BY <1>3
    <3> QED
      BY <1>5, <3>1
  <2>2. i + 1 \in 1 .. Len(h2d) /\ h2d'[i] = h2d[i + 1] /\ (i + 1 = Len(h2d) => i = Len(h2d'))
    <3>1. \A n, x, y \in Nat : y = n - 1 /\ x + 1 = n => x = y
      OBVIOUS
    <3>2. Len(h2d') \in Nat /\ i \in Nat
      BY <1>3, LenProperties
    <3> QED
      BY <1>3, <3>1, <3>2, Zenon
  <2>3. chunk \in Chunks
    BY DEF TypeInv, TypeOK
  <2> QED
    BY <1>2, <1>8, <2>1, <2>2, <2>3 DEF CommandsInOrder
<1>12. RestIsBlank'
  <2> SUFFICES ASSUME pc = "write"
               PROVE  /\ \A k \in Chunks : k > chunk => flash'[sector][k] = Blank
                      /\ Tried \/ flash'[sector][chunk] = Blank
    BY <1>0 DEF RestIsBlank
  <2>1. chunk \in Chunks /\ \A k \in Chunks : k > chunk => k # chunk
    BY DEF TypeInv, TypeOK, Chunks
  <2> QED
    BY <1>2, <1>5, <1>8, <2>1 DEF RestIsBlank
<1> QED
  BY <1>0, <1>10, <1>11, <1>12 DEF WriteInv

LEMMA DeviceKeepsWrite ==
  ASSUME TypeInv, WriteInv, Device
  PROVE  WriteInv'
<1>0. UNCHANGED hostVars
  BY DeviceFrame
<1>1. ASSUME NEW res \in Results, h2d # <<>>, h2d' = Tail(h2d), Answer(res),
             \/ UNCHANGED flash /\ (Head(h2d).op = "ERASE" => res # "ack") /\ res # "flash_hw"
             \/ ServeErase /\ res # "flash_hw"
             \/ ServeWrite /\ (Slot = Blank => res # "flash_hw")
      PROVE  WriteInv'
  <2>1. PICK a \in Response : a.op = Head(h2d).op /\ a.res = res /\ d2h' = Append(d2h, a)
    BY <1>1, AnswerTypes
  <2> QED
    BY <1>0, <1>1, <2>1, ServeKeepsWrite
<1>2. CASE ServeHealth \/ ServeDisconnect \/ ServeReadCrc
  BY <1>1, <1>2 DEF ServeHealth, ServeDisconnect, ServeReadCrc, Receive, Results, devVars
<1>3. CASE RefuseGated \/ DeviceRefuses
  BY <1>1, <1>3 DEF RefuseGated, DeviceRefuses, Receive, Results, devVars
<1>4. CASE ServeErase
  <2>1. h2d # <<>> /\ h2d' = Tail(h2d) /\ Answer("ack")
    BY <1>4 DEF ServeErase, Receive
  <2> QED
    BY <1>1, <1>4, <2>1 DEF Results
<1>5. CASE ServeWrite
  <2>1. h2d # <<>> /\ h2d' = Tail(h2d) /\ (Answer("ack") \/ (Slot # Blank /\ Answer("flash_hw")))
    BY <1>5 DEF ServeWrite, Receive
  <2> QED
    BY <1>1, <1>5, <2>1 DEF Results
<1>6. CASE ServeVerify
  <2>1. h2d # <<>> /\ h2d' = Tail(h2d) /\ UNCHANGED flash /\ Head(h2d).op # "ERASE"
        /\ (Answer("ack") \/ Answer("crc_mismatch"))
    BY <1>6 DEF ServeVerify, Receive
  <2> QED
    BY <1>1, <2>1 DEF Results
<1>7. CASE BusLoses \/ DeviceExpires
  <2>1. UNCHANGED <<pc, sector, chunk, attempt, await, failure, resent, flash>> /\ (Tried' <=> Tried)
    BY <1>0, <1>7 DEF hostVars, BusLoses, DeviceExpires, devVars, Tried
  <2>2. RestIsBlank => RestIsBlank'
    BY <2>1 DEF RestIsBlank
  <2>3. CASE UNCHANGED <<h2d, d2h>>
    BY <2>1, <2>2, <2>3 DEF WriteInv, AnswersInOrder, CommandsInOrder, IsBlank
  <2>4. CASE h2d # <<>> /\ h2d' = Tail(h2d) /\ d2h' = d2h
    <3>1. /\ Len(h2d) \in Nat /\ Len(h2d') = Len(h2d) - 1
          /\ \A i \in 1 .. Len(h2d') : i + 1 \in 1 .. Len(h2d) /\ h2d'[i] = h2d[i + 1]
      BY <2>4, TailOf DEF TypeInv
    <3>2. \A i \in 1 .. Len(h2d') : i + 1 = Len(h2d) => i = Len(h2d')
      BY <3>1
    <3>3. CommandsInOrder => CommandsInOrder'
      BY <2>1, <3>1, <3>2 DEF CommandsInOrder
    <3>4. AnswersInOrder => AnswersInOrder'
      BY <2>1, <2>4 DEF AnswersInOrder, IsBlank
    <3> QED
      BY <2>1, <2>2, <3>3, <3>4 DEF WriteInv
  <2>5. CASE d2h # <<>> /\ d2h' = Tail(d2h) /\ h2d' = h2d
    <3>1. /\ Len(d2h) \in Nat /\ Len(d2h') = Len(d2h) - 1
          /\ \A i \in 1 .. Len(d2h') : i + 1 \in 1 .. Len(d2h) /\ d2h'[i] = d2h[i + 1]
      BY <2>5, TailOf DEF TypeInv
    <3>2. \A i \in 1 .. Len(d2h') : i + 1 = Len(d2h) => i = Len(d2h')
      BY <3>1
    <3>3. CommandsInOrder => CommandsInOrder'
      BY <2>1, <2>5 DEF CommandsInOrder
    <3>4. AnswersInOrder => AnswersInOrder'
      BY <2>1, <2>5, <3>1, <3>2 DEF AnswersInOrder, IsBlank
    <3> QED
      BY <2>1, <2>2, <3>3, <3>4 DEF WriteInv
  <2> QED
    BY <1>7, <2>3, <2>4, <2>5 DEF BusLoses, DeviceExpires
<1> QED
  BY <1>2, <1>3, <1>4, <1>5, <1>6, <1>7 DEF Device, DeviceServes

LEMMA WriteStep ==
  ASSUME TypeInv, WriteInv, [Next]_vars
  PROVE  WriteInv'
<1>1. CASE Interrupt \/ Disconnect
  BY <1>1 DEF Interrupt, Disconnect, WriteInv, Busy, Commands
<1>2. CASE Rerun
  <2>1. h2d' = <<>> /\ d2h' = <<>> /\ failure' = "none" /\ pc' # "write"
    BY <1>2 DEF Rerun, BeginRun
  <2>2. Len(h2d') = 0 /\ Len(d2h') = 0
    BY <2>1
  <2> QED
    BY <2>1, <2>2, WriteQuiet DEF NoneOf
<1>3. CASE UNCHANGED vars
  BY <1>3 DEF vars, hostVars, devVars, WriteInv, AnswersInOrder, CommandsInOrder, RestIsBlank, Tried, IsBlank
<1> QED
  BY <1>1, <1>2, <1>3, EngineKeepsWrite, DeviceKeepsWrite DEF Next, Tool, Finished

(* The engine programs no flash it has not erased: a run that ends with    *)
(* FLASH_HW had to send a WRITE again, for any image and with replies in   *)
(* time or late.                                                           *)
THEOREM FlashHwNeedsResend == Spec => []FlashHwOnlyAfterResend
<1>1. Init => WriteInv
  BY DEF Init, WriteInv, AnswersInOrder, CommandsInOrder, RestIsBlank
<1>2. TypeInv /\ WriteInv /\ [Next]_vars => WriteInv'
  BY WriteStep
<1>3. WriteInv => FlashHwOnlyAfterResend
  BY DEF WriteInv, FlashHwOnlyAfterResend
<1> QED
  BY <1>1, <1>2, <1>3, TypeInvariant, PTL DEF Spec

=============================================================================
