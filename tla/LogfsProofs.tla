---------------------------- MODULE LogfsProofs -----------------------------
(***************************************************************************)
(* Proofs about LogfsPull, for files of any length, any chunk size, any    *)
(* retry budgets and any number of faults and session drops.               *)
(***************************************************************************)
EXTENDS LogfsPull, SequenceTheorems, TLAPS

-----------------------------------------------------------------------------
(* Sequences as the link uses them.                                        *)

Members(q) == {q[i] : i \in 1 .. Len(q)}

LEMMA EmptyMembers == Members(<<>>) = {}
  BY DEF Members

(* What taking the head leaves.                                            *)
LEMMA TailOf ==
  ASSUME NEW S, NEW q \in Seq(S), q # <<>>
  PROVE  /\ Tail(q) \in Seq(S) /\ Len(Tail(q)) = Len(q) - 1
         /\ Len(q) \in Nat /\ Len(q) >= 1 /\ 1 \in 1 .. Len(q)
         /\ Head(q) = q[1] /\ Head(q) \in S /\ Head(q) \in Members(q)
         /\ Members(Tail(q)) \subseteq Members(q)
         /\ \A i \in 1 .. Len(Tail(q)) : i + 1 \in 1 .. Len(q) /\ Tail(q)[i] = q[i + 1]
<1>1. Len(q) \in Nat /\ Len(q) >= 1 /\ 1 \in 1 .. Len(q) /\ Head(q) = q[1] /\ Head(q) \in S
  BY EmptySeq
<1>2. /\ Tail(q) \in Seq(S) /\ Len(Tail(q)) = Len(q) - 1
      /\ \A i \in 1 .. Len(Tail(q)) : i + 1 \in 1 .. Len(q) /\ Tail(q)[i] = q[i + 1]
  BY <1>1, HeadTailProperties
<1> QED
  BY <1>1, <1>2 DEF Members

(* What a send adds.                                                       *)
LEMMA AppendOf ==
  ASSUME NEW S, NEW q \in Seq(S), NEW e \in S
  PROVE  /\ Append(q, e) \in Seq(S) /\ Len(q) \in Nat /\ Len(Append(q, e)) = Len(q) + 1
         /\ Append(q, e) # <<>>
         /\ Append(q, e)[Len(q) + 1] = e
         /\ \A i \in 1 .. Len(q) : Append(q, e)[i] = q[i]
         /\ Members(Append(q, e)) = Members(q) \cup {e}
<1>1. /\ Append(q, e) \in Seq(S) /\ Len(q) \in Nat /\ Len(Append(q, e)) = Len(q) + 1
      /\ Append(q, e) # <<>>
      /\ Append(q, e)[Len(q) + 1] = e
      /\ \A i \in 1 .. Len(q) : Append(q, e)[i] = q[i]
  BY AppendProperties, LenProperties, EmptySeq
<1>2. Members(Append(q, e)) \subseteq Members(q) \cup {e}
  <2> SUFFICES ASSUME NEW i \in 1 .. Len(q) + 1
               PROVE  Append(q, e)[i] \in Members(q) \cup {e}
    BY <1>1 DEF Members
  <2>1. CASE i = Len(q) + 1
    BY <1>1, <2>1
  <2>2. CASE i # Len(q) + 1
    <3>1. i \in 1 .. Len(q)
      BY <1>1, <2>2
    <3> QED
      BY <1>1, <3>1 DEF Members
  <2> QED
    BY <2>1, <2>2
<1>3. Members(q) \cup {e} \subseteq Members(Append(q, e))
  <2>1. \A i \in 1 .. Len(q) + 1 : Append(q, e)[i] \in Members(Append(q, e))
    BY <1>1 DEF Members
  <2>2. \A i \in 1 .. Len(q) : i \in 1 .. Len(q) + 1
    BY <1>1
  <2>3. Len(q) + 1 \in 1 .. Len(q) + 1
    BY <1>1
  <2>4. e \in Members(Append(q, e))
    BY <1>1, <2>1, <2>3
  <2>5. \A m \in Members(q) : m \in Members(Append(q, e))
    BY <1>1, <2>1, <2>2 DEF Members
  <2> QED
    BY <2>4, <2>5
<1> QED
  BY <1>1, <1>2, <1>3

(* What a drain leaves.                                                    *)
LEMMA DrainOf ==
  ASSUME NEW S, NEW q \in Seq(S), NEW n \in 0 .. Len(q)
  PROVE  LET rest == SubSeq(q, n + 1, Len(q)) IN
         /\ rest \in Seq(S) /\ Len(q) \in Nat /\ Len(rest) = Len(q) - n
         /\ Members(rest) \subseteq Members(q)
         /\ \A i \in 1 .. Len(rest) : i + n \in 1 .. Len(q) /\ rest[i] = q[i + n]
<1> DEFINE rest == SubSeq(q, n + 1, Len(q))
<1>1. Len(q) \in Nat
  BY LenProperties
<1>2. \A i \in n + 1 .. Len(q) : q[i] \in S
  BY <1>1, ElementOfSeq
<1>3. /\ rest \in Seq(S)
      /\ Len(rest) = IF n + 1 <= Len(q) THEN Len(q) - (n + 1) + 1 ELSE 0
      /\ \A i \in 1 .. Len(q) - (n + 1) + 1 : rest[i] = q[(n + 1) + i - 1]
  BY <1>1, <1>2, SubSeqProperties
<1>4. Len(rest) = Len(q) - n
  BY <1>1, <1>3
<1>5. \A i \in 1 .. Len(rest) : i + n \in 1 .. Len(q) /\ rest[i] = q[i + n]
  BY <1>1, <1>3, <1>4
<1>6. Members(rest) \subseteq Members(q)
  BY <1>5 DEF Members
<1> QED
  BY <1>1, <1>3, <1>4, <1>5, <1>6

(* Two queues with at most one message between them.                       *)
LEMMA EmptyOrOne ==
  ASSUME NEW S, NEW T, NEW p \in Seq(S), NEW q \in Seq(T)
  PROVE  /\ Len(p) \in Nat /\ Len(q) \in Nat
         /\ Len(p) + Len(q) <= 0 => p = <<>> /\ q = <<>>
         /\ Len(p) + Len(q) <= 1 /\ p # <<>> => Len(p) = 1 /\ q = <<>>
         /\ Len(p) + Len(q) <= 1 /\ q # <<>> => Len(q) = 1 /\ p = <<>>
<1>1. Len(p) \in Nat /\ Len(q) \in Nat /\ (p # <<>> => Len(p) >= 1) /\ (q # <<>> => Len(q) >= 1)
  BY TailOf, LenProperties
<1>2. (Len(p) = 0 => p = <<>>) /\ (Len(q) = 0 => q = <<>>)
  BY EmptySeq
<1>3. \A x, y \in Nat : /\ x + y <= 0 => x = 0 /\ y = 0
                        /\ x + y <= 1 /\ x >= 1 => x = 1 /\ y = 0
                        /\ x + y <= 1 /\ y >= 1 => y = 1 /\ x = 0
  OBVIOUS
<1> QED
  BY <1>1, <1>2, <1>3, Zenon

-----------------------------------------------------------------------------
(* Types, of the messages in flight too.                                   *)

Opcodes == {"CONNECT", "OPEN", "READ", "CRC", "CLOSE"}

Message == [op : Opcodes, handle : 0 .. MaxHandle, off : Nat]

Response == [op : Opcodes, res : {"ack", "bad_session", "bad_handle"}, handle : 0 .. MaxHandle, bytes : Seq(Nat)]

TypeInv ==
    /\ TypeOK
    /\ h2d \in Seq(Message) /\ d2h \in Seq(Response)
    /\ pc \notin Exchanges => ~await
    /\ pc = "loop" => attempt = 1

LEMMA Constants ==
  /\ ChunkLen \in Nat /\ ChunkLen >= 1 /\ MaxAttempts \in Nat /\ MaxAttempts >= 1
  /\ MaxStalled \in Nat /\ MaxHandle \in Nat /\ MaxHandle >= 2 /\ MaxFaults \in Nat
  /\ \A n \in Lengths : n \in Nat
  BY LogfsAssumption

LEMMA OpcodeOf ==
  /\ Exchanges = {"connect", "open", "read", "crc", "close"}
  /\ Opcode["connect"] = "CONNECT" /\ Opcode["open"] = "OPEN" /\ Opcode["read"] = "READ"
  /\ Opcode["crc"] = "CRC" /\ Opcode["close"] = "CLOSE"
  /\ \A p \in Exchanges : Opcode[p] \in Opcodes
  BY DEF Opcode, Exchanges, Opcodes

(* The bytes a READ is answered with.                                      *)
LEMMA WindowOf ==
  ASSUME size \in Nat, NEW off \in Nat
  PROVE  /\ Window(off) \in Seq(Nat)
         /\ LET end == IF off + ChunkLen < size THEN off + ChunkLen ELSE size IN
            /\ Len(Window(off)) = IF off + 1 <= end THEN end - off ELSE 0
            /\ \A i \in 1 .. end - off : Window(off)[i] = off + i
<1> USE Constants
<1> DEFINE end == IF off + ChunkLen < size THEN off + ChunkLen ELSE size
<1>1. end \in Nat /\ end <= size
  OBVIOUS
<1>2. \A i \in off + 1 .. end : File[i] \in Nat /\ File[i] = i
  BY <1>1 DEF File
<1>3. /\ SubSeq(File, off + 1, end) \in Seq(Nat)
      /\ Len(SubSeq(File, off + 1, end)) = IF off + 1 <= end THEN end - (off + 1) + 1 ELSE 0
      /\ \A i \in 1 .. end - (off + 1) + 1 : SubSeq(File, off + 1, end)[i] = File[off + 1 + i - 1]
  <2> HIDE DEF end
  <2>1. off + 1 \in Int /\ end \in Int /\ \A i \in off + 1 .. end : File[i] \in Nat
    BY <1>1, <1>2
  <2> QED
    BY <2>1, SubSeqProperties
<1>4. Window(off) = SubSeq(File, off + 1, end)
  BY DEF Window
<1> HIDE DEF end
<1>5. end - (off + 1) + 1 = end - off
  BY <1>1
<1>6. \A i \in 1 .. end - off : off + 1 + i - 1 = off + i /\ off + i \in off + 1 .. end
  BY <1>1
<1>7. \A i \in 1 .. end - off : SubSeq(File, off + 1, end)[i] = off + i
  BY <1>2, <1>3, <1>5, <1>6
<1> QED
  BY <1>1, <1>3, <1>4, <1>5, <1>7 DEF end

LEMMA InitTypes == Init => TypeInv
<1> SUFFICES ASSUME Init PROVE TypeInv
  OBVIOUS
<1> USE Constants, OpcodeOf
<1>1. late \in BOOLEAN /\ size \in Lengths /\ verify \in BOOLEAN /\ deferred \in BOOLEAN
  BY LogfsAssumption DEF Init
<1>2. pc = "open" /\ handle = 0 /\ data = <<>> /\ stalled = 0 /\ attempt = 1 /\ ~await /\ ~cancelled
      /\ session /\ open = 0 /\ nextHandle = 1 /\ drops = 0 /\ faults = 0 /\ h2d = <<>> /\ d2h = <<>>
  BY DEF Init
<1>3. await \in BOOLEAN /\ cancelled \in BOOLEAN /\ session \in BOOLEAN
  BY DEF Init
<1>4. h2d \in Seq(Message) /\ d2h \in Seq(Response) /\ data \in Seq(Nat)
  BY <1>2
<1>5. /\ handle \in 0 .. MaxHandle /\ stalled \in 0 .. MaxStalled /\ attempt \in 1 .. MaxAttempts
      /\ open \in 0 .. MaxHandle /\ nextHandle \in 1 .. MaxHandle /\ drops \in 0 .. MaxStalled + 1
      /\ faults \in 0 .. MaxFaults
  BY <1>2
<1> QED
  BY <1>1, <1>2, <1>3, <1>4, <1>5 DEF TypeInv, TypeOK

(* The request of an exchange.                                             *)
LEMMA RequestTypes ==
  ASSUME TypeInv, pc \in Exchanges
  PROVE  [op |-> Opcode[pc], handle |-> handle, off |-> Len(data)] \in Message
<1>1. Len(data) \in Nat /\ Opcode[pc] \in Opcodes
  BY OpcodeOf, LenProperties DEF TypeInv, TypeOK
<1> QED
  BY <1>1 DEF Message, TypeInv, TypeOK

LEMMA SendTypes ==
  ASSUME TypeInv, Send
  PROVE  TypeInv'
<1> DEFINE m == [op |-> Opcode[pc], handle |-> handle, off |-> Len(data)]
<1>1. m \in Message /\ pc \in Exchanges
  BY RequestTypes DEF Send
<1>2. h2d' = Append(h2d, m) /\ await' = TRUE
  BY DEF Send
<1> HIDE DEF m
<1>3. h2d' \in Seq(Message)
  BY <1>1, <1>2, AppendOf DEF TypeInv
<1>4. d2h' \in Seq(Response)
  BY DrainOf DEF Send, TypeInv
<1>5. UNCHANGED <<late, size, verify, deferred, pc, handle, data, stalled, attempt, cancelled, result,
                  session, open, nextHandle, drops, faults>>
  BY DEF Send, config, devVars
<1> QED
  BY <1>1, <1>2, <1>3, <1>4, <1>5, OpcodeOf DEF TypeInv, TypeOK

LEMMA RetryTypes ==
  ASSUME TypeInv, RetryOrFail, pc \in Exchanges
  PROVE  /\ \/ pc' = pc /\ pc # "connect" /\ attempt' = attempt + 1 /\ result' = result
            \/ /\ pc' = "ended" /\ attempt' = attempt /\ (pc = "connect" \/ attempt = MaxAttempts)
               /\ result' = IF pc = "close" THEN result ELSE "transport"
         /\ attempt' \in 1 .. MaxAttempts
  BY Constants DEF TypeInv, TypeOK, RetryOrFail, Failed

LEMMA TimersTypes ==
  ASSUME TypeInv, SendFails \/ CommandTimeout
  PROVE  TypeInv'
<1> USE Constants
<1>1. pc \in Exchanges /\ RetryOrFail
  BY DEF SendFails, CommandTimeout, TypeInv
<1>2. pc' \in {pc, "ended"} /\ attempt' \in 1 .. MaxAttempts
  BY <1>1, RetryTypes
<1>3. await' = FALSE /\ faults' \in 0 .. MaxFaults
  BY DEF SendFails, CommandTimeout, Fault, TypeInv, TypeOK
<1>4. UNCHANGED <<late, size, verify, deferred, handle, data, stalled, cancelled, h2d, d2h,
                  session, open, nextHandle, drops>>
  BY DEF SendFails, CommandTimeout, config, devVars
<1>5. pc' # "loop"
  BY <1>1, <1>2, OpcodeOf
<1> QED
  BY <1>1, <1>2, <1>3, <1>4, <1>5 DEF TypeInv, TypeOK

(* What is done with an answer: a drop, a refusal, or what the exchange    *)
(* was for.                                                                *)
LEMMA ReplyWays ==
  ASSUME TypeInv, Reply
  PROVE  LET r == Head(d2h) IN
         /\ pc \in Exchanges /\ await /\ await' = FALSE /\ attempt' = 1 /\ d2h # <<>> /\ d2h' = Tail(d2h)
         /\ UNCHANGED <<late, size, verify, deferred, cancelled, h2d, session, open, nextHandle, faults>>
         /\ \/ r.res = "bad_session" /\ SessionLost
            \/ \E why \in {"bad_handle", "unexpected"} :
                  /\ why = "unexpected" => r.op # Opcode[pc]
                  /\ why = "bad_handle" => r.res = "bad_handle"
                  /\ Failed(why) /\ UNCHANGED <<handle, data, stalled, drops>>
            \/ pc = "connect" /\ r.res = "ack" /\ ConnectAcked(r)
            \/ r.res = "ack" /\ r.op = "OPEN" /\ pc = "open" /\ OpenAcked(r.handle)
            \/ r.res = "ack" /\ r.op = "READ" /\ pc = "read" /\ ReadAcked(r.bytes)
            \/ pc = "crc" /\ Checked(data) /\ UNCHANGED <<handle, data, stalled, drops>>
            \/ /\ r.res = "ack" /\ r.op = "CLOSE" /\ pc = "close"
               /\ End(result) /\ UNCHANGED <<handle, data, stalled, drops>>
BY OpcodeOf DEF Reply, config, devVars, TypeInv

(* The four ways a short read ends.                                        *)
LEMMA AtEofWays ==
  ASSUME NEW bytes, AtEof(bytes)
  PROVE  \/ pc' = "crc" /\ result' = result
         \/ /\ pc' = "close" /\ result' \in {"ok", "crc", "size"}
            /\ result' = "ok" /\ verify => bytes = File
BY DEF AtEof, CloseAnd, Checked

LEMMA ReplyTypes ==
  ASSUME TypeInv, Reply
  PROVE  TypeInv'
<1> USE Constants, OpcodeOf
<1> DEFINE r == Head(d2h)
<1>1. /\ pc \in Exchanges /\ await' = FALSE /\ attempt' = 1 /\ d2h # <<>> /\ d2h' = Tail(d2h)
      /\ UNCHANGED <<late, size, verify, deferred, cancelled, h2d, session, open, nextHandle, faults>>
  BY ReplyWays
<1>2. d2h' \in Seq(Response) /\ r \in Response
  BY <1>1, TailOf DEF TypeInv
<1>3. r.handle \in 0 .. MaxHandle /\ r.bytes \in Seq(Nat)
  BY <1>2 DEF Response
<1> HIDE DEF r
<1>4. /\ pc' \in Exchanges \cup {"loop", "ended"}
      /\ handle' \in 0 .. MaxHandle /\ data' \in Seq(Nat)
      /\ stalled' \in 0 .. MaxStalled /\ drops' \in 0 .. MaxStalled + 1
  <2>1. /\ handle \in 0 .. MaxHandle /\ data \in Seq(Nat)
        /\ stalled \in 0 .. MaxStalled /\ drops \in 0 .. MaxStalled + 1
    BY DEF TypeInv, TypeOK
  <2>2. CASE SessionLost
    BY <1>1, <2>1, <2>2 DEF SessionLost, End, Failed
  <2>3. CASE UNCHANGED <<handle, data, stalled, drops>> /\ (Checked(data) \/ End(result) \/ \E why : Failed(why))
    BY <1>1, <2>1, <2>3 DEF Checked, CloseAnd, End, Failed
  <2>4. CASE ConnectAcked(r) \/ OpenAcked(r.handle)
    BY <1>1, <1>3, <2>1, <2>4 DEF ConnectAcked, OpenAcked, Failed
  <2>5. CASE ReadAcked(r.bytes)
    <3>1. data' = data \o r.bytes /\ data' \in Seq(Nat)
      BY <1>3, <2>1, <2>5, ConcatProperties DEF ReadAcked
    <3>2. stalled' \in {stalled, 0} /\ drops' \in {drops, 0, 1} /\ handle' = handle
      BY <2>5 DEF ReadAcked
    <3>3. pc' \in {"loop", "crc", "close"}
      BY <2>5, AtEofWays DEF ReadAcked
    <3> QED
      BY <2>1, <3>1, <3>2, <3>3
  <2> QED
    BY <2>2, <2>3, <2>4, <2>5, ReplyWays DEF r
<1>5. /\ UNCHANGED <<late, size, verify, deferred, cancelled, h2d, session, open, nextHandle, faults>>
      /\ await' = FALSE /\ attempt' = 1
  BY <1>1
<1>6. /\ late' \in BOOLEAN /\ size' \in Lengths /\ verify' \in BOOLEAN /\ deferred' \in BOOLEAN
      /\ await' \in BOOLEAN /\ cancelled' \in BOOLEAN
  BY <1>5 DEF TypeInv, TypeOK
<1>7. session' \in BOOLEAN /\ open' \in 0 .. MaxHandle /\ nextHandle' \in 1 .. MaxHandle
  BY <1>5 DEF TypeInv, TypeOK
<1>8. faults' \in 0 .. MaxFaults /\ attempt' \in 1 .. MaxAttempts
  BY <1>5 DEF TypeInv, TypeOK
<1>9. TypeOK'
  BY <1>4, <1>6, <1>7, <1>8 DEF TypeOK
<1> QED
  BY <1>2, <1>5, <1>9 DEF TypeInv

LEMMA OperatorTypes ==
  ASSUME TypeInv, LoopHead \/ Cancel \/ DropSession
  PROVE  TypeInv'
<1> USE Constants, OpcodeOf
<1>1. CASE LoopHead
  BY <1>1 DEF LoopHead, CloseAnd, config, devVars, TypeInv, TypeOK
<1>2. CASE Cancel
  BY <1>2 DEF Cancel, config, devVars, TypeInv, TypeOK
<1>3. CASE DropSession
  <2>1. drops' \in 0 .. MaxStalled + 1
    BY <1>3 DEF DropSession, TypeInv, TypeOK
  <2>2. /\ UNCHANGED <<late, size, verify, deferred, pc, handle, data, stalled, attempt, await, cancelled,
                        h2d, d2h, nextHandle, faults>>
        /\ session' = FALSE /\ open' = 0
    BY <1>3 DEF DropSession, hostVars, config
  <2>3. session' \in BOOLEAN /\ open' \in 0 .. MaxHandle
    <3>1. session' \in BOOLEAN
      BY <2>2
    <3>2. 0 \in 0 .. MaxHandle
      OBVIOUS
    <3> QED
      BY <2>2, <3>1, <3>2, Zenon
  <2>4. /\ late' \in BOOLEAN /\ size' \in Lengths /\ verify' \in BOOLEAN /\ deferred' \in BOOLEAN
        /\ await' \in BOOLEAN /\ cancelled' \in BOOLEAN /\ attempt' \in 1 .. MaxAttempts
        /\ faults' \in 0 .. MaxFaults /\ nextHandle' \in 1 .. MaxHandle
    BY <2>2 DEF TypeInv, TypeOK
  <2>5. TypeOK'
    BY <2>1, <2>2, <2>3, <2>4 DEF TypeInv, TypeOK
  <2> QED
    BY <2>2, <2>5 DEF TypeInv
<1> QED
  BY <1>1, <1>2, <1>3

(* What an answer of the service looks like.                               *)
LEMMA AnswerTypes ==
  ASSUME TypeInv, h2d # <<>>, NEW res \in {"ack", "bad_session", "bad_handle"},
         NEW h \in 0 .. MaxHandle, NEW b \in Seq(Nat), Answer(res, h, b)
  PROVE  LET q == Head(h2d)
             a == [op |-> q.op, res |-> res, handle |-> h, bytes |-> b]
         IN  /\ q \in Message /\ q \in Members(h2d)
             /\ a \in Response /\ d2h' = Append(d2h, a) /\ d2h' \in Seq(Response)
             /\ Len(d2h') = Len(d2h) + 1 /\ Members(d2h') = Members(d2h) \cup {a}
<1> DEFINE q == Head(h2d)
           a == [op |-> q.op, res |-> res, handle |-> h, bytes |-> b]
<1>1. q \in Message /\ q \in Members(h2d)
  BY TailOf DEF TypeInv
<1>2. a \in Response
  BY <1>1 DEF Response, Message
<1>3. d2h' = Append(d2h, a)
  BY DEF Answer
<1> HIDE DEF a
<1>4. d2h' \in Seq(Response) /\ Len(d2h') = Len(d2h) + 1 /\ Members(d2h') = Members(d2h) \cup {a}
  BY <1>2, <1>3, AppendOf DEF TypeInv
<1> QED
  BY <1>1, <1>2, <1>3, <1>4 DEF a

(* The answer a is the last message of d2h.                                *)
Answered(a) ==
    /\ a.op = Head(h2d).op
    /\ d2h' = Append(d2h, a) /\ d2h' \in Seq(Response)
    /\ Len(d2h') = Len(d2h) + 1 /\ Members(d2h') = Members(d2h) \cup {a}

(* What the service has done when it answers a.                            *)
Outcome(a) ==
    \/ /\ a.op = "CONNECT" /\ a.res = "ack"
       /\ session' = TRUE /\ open' = 0 /\ nextHandle' = nextHandle
    \/ a.op # "CONNECT" /\ a.res = "bad_session" /\ ~session /\ UNCHANGED devVars
    \/ /\ a.op = "OPEN" /\ a.res = "ack" /\ a.handle = nextHandle /\ session
       /\ open' = nextHandle /\ nextHandle' \in 1 .. MaxHandle /\ UNCHANGED session
    \/ a.op \in {"READ", "CRC", "CLOSE"} /\ a.res = "bad_handle" /\ ~Known /\ UNCHANGED devVars
    \/ a.op = "READ" /\ a.res = "ack" /\ a.bytes = Window(Head(h2d).off) /\ UNCHANGED devVars
    \/ a.op = "CRC" /\ a.res = "ack" /\ UNCHANGED devVars
    \/ a.op = "CLOSE" /\ a.res = "ack" /\ open' = 0 /\ UNCHANGED <<session, nextHandle>>

(* What an answer that is not to a READ carries.                           *)
NoBytes == <<>>

(* One step of the service: it takes the request at the head and answers.  *)
LEMMA ServiceWays ==
  ASSUME TypeInv, Service
  PROVE  /\ UNCHANGED <<hostVars, drops, faults>>
         /\ h2d # <<>> /\ h2d' = Tail(h2d) /\ h2d' \in Seq(Message) /\ Head(h2d) \in Members(h2d)
         /\ Len(h2d') = Len(h2d) - 1 /\ Members(h2d') \subseteq Members(h2d)
         /\ \E a \in Response : Answered(a) /\ Outcome(a)
<1>1. /\ UNCHANGED <<hostVars, drops, faults>> /\ h2d # <<>> /\ h2d' = Tail(h2d)
  BY DEF Service, ServeConnect, Refuse, ServeOpen, RefuseHandle, ServeRead, ServeCrc, ServeClose, Receive
<1>2. h2d' \in Seq(Message) /\ Len(h2d') = Len(h2d) - 1 /\ Members(h2d') \subseteq Members(h2d)
      /\ Head(h2d) \in Message /\ Head(h2d) \in Members(h2d)
  BY <1>1, TailOf DEF TypeInv
<1>3. NoBytes \in Seq(Nat) /\ 0 \in 0 .. MaxHandle /\ nextHandle \in 0 .. MaxHandle /\ nextHandle \in 1 .. MaxHandle
  BY Constants DEF NoBytes, TypeInv, TypeOK
<1>4. Window(Head(h2d).off) \in Seq(Nat)
  BY <1>2, WindowOf, Constants DEF Message, TypeInv, TypeOK
<1>5. ASSUME NEW res \in {"ack", "bad_session", "bad_handle"}, NEW h \in 0 .. MaxHandle, NEW b \in Seq(Nat),
             Answer(res, h, b)
      PROVE  \E a \in Response : /\ Answered(a) /\ a.op = Head(h2d).op
                                 /\ a.res = res /\ a.handle = h /\ a.bytes = b
  <2> DEFINE a == [op |-> Head(h2d).op, res |-> res, handle |-> h, bytes |-> b]
  <2>1. a.op = Head(h2d).op /\ a.res = res /\ a.handle = h /\ a.bytes = b
    OBVIOUS
  <2>2. /\ a \in Response /\ d2h' = Append(d2h, a) /\ d2h' \in Seq(Response)
        /\ Len(d2h') = Len(d2h) + 1 /\ Members(d2h') = Members(d2h) \cup {a}
    BY <1>1, <1>5, AnswerTypes
  <2> HIDE DEF a
  <2>3. Answered(a)
    BY <2>1, <2>2, Zenon DEF Answered
  <2> QED
    BY <2>1, <2>2, <2>3, Zenon
<1>6. CASE ServeConnect
  <2>1. /\ Answer("ack", 0, NoBytes)
        /\ Head(h2d).op = "CONNECT" /\ session' = TRUE /\ open' = 0 /\ nextHandle' = nextHandle
    BY <1>6 DEF ServeConnect, Receive, NoBytes
  <2>2. PICK a \in Response : /\ Answered(a) /\ a.op = Head(h2d).op
                             /\ a.res = "ack" /\ a.handle = 0 /\ a.bytes = NoBytes
    BY <1>3, <1>4, <1>5, <2>1
  <2>3. Outcome(a)
    BY <2>1, <2>2 DEF Outcome
  <2> QED
    BY <1>1, <1>2, <2>2, <2>3, Zenon
<1>7. CASE Refuse
  <2>1. /\ Answer("bad_session", 0, NoBytes)
        /\ Head(h2d).op # "CONNECT" /\ ~session /\ UNCHANGED devVars
    BY <1>7 DEF Refuse, Receive, NoBytes
  <2>2. PICK a \in Response : /\ Answered(a) /\ a.op = Head(h2d).op
                             /\ a.res = "bad_session" /\ a.handle = 0 /\ a.bytes = NoBytes
    BY <1>3, <1>4, <1>5, <2>1
  <2>3. Outcome(a)
    BY <2>1, <2>2 DEF Outcome
  <2> QED
    BY <1>1, <1>2, <2>2, <2>3, Zenon
<1>8. CASE ServeOpen
  <2>1. /\ Answer("ack", nextHandle, NoBytes)
        /\ Head(h2d).op = "OPEN" /\ session /\ open' = nextHandle /\ UNCHANGED session
        /\ nextHandle' = IF nextHandle = MaxHandle THEN 1 ELSE nextHandle + 1
    BY <1>8 DEF ServeOpen, Receive, NoBytes
  <2>2. PICK a \in Response : /\ Answered(a) /\ a.op = Head(h2d).op
                             /\ a.res = "ack" /\ a.handle = nextHandle /\ a.bytes = NoBytes
    BY <1>3, <1>4, <1>5, <2>1
  <2>3. nextHandle' \in 1 .. MaxHandle
    BY <1>3, <2>1, Constants
  <2>4. Outcome(a)
    BY <2>1, <2>2, <2>3 DEF Outcome
  <2> QED
    BY <1>1, <1>2, <2>2, <2>4, Zenon
<1>9. CASE RefuseHandle
  <2>1. /\ Answer("bad_handle", 0, NoBytes)
        /\ Head(h2d).op \in {"READ", "CRC", "CLOSE"} /\ ~Known /\ UNCHANGED devVars
    BY <1>9 DEF RefuseHandle, Receive, NoBytes
  <2>2. PICK a \in Response : /\ Answered(a) /\ a.op = Head(h2d).op
                             /\ a.res = "bad_handle" /\ a.handle = 0 /\ a.bytes = NoBytes
    BY <1>3, <1>4, <1>5, <2>1
  <2>3. Outcome(a)
    BY <2>1, <2>2 DEF Outcome
  <2> QED
    BY <1>1, <1>2, <2>2, <2>3, Zenon
<1>10. CASE ServeRead
  <2>1. /\ Answer("ack", 0, Window(Head(h2d).off))
        /\ Head(h2d).op = "READ" /\ UNCHANGED devVars
    BY <1>10 DEF ServeRead, Receive, NoBytes
  <2>2. PICK a \in Response : /\ Answered(a) /\ a.op = Head(h2d).op
                             /\ a.res = "ack" /\ a.handle = 0 /\ a.bytes = Window(Head(h2d).off)
    BY <1>3, <1>4, <1>5, <2>1
  <2>3. Outcome(a)
    BY <2>1, <2>2 DEF Outcome
  <2> QED
    BY <1>1, <1>2, <2>2, <2>3, Zenon
<1>11. CASE ServeCrc
  <2>1. /\ Answer("ack", 0, NoBytes)
        /\ Head(h2d).op = "CRC" /\ UNCHANGED devVars
    BY <1>11 DEF ServeCrc, Receive, NoBytes
  <2>2. PICK a \in Response : /\ Answered(a) /\ a.op = Head(h2d).op
                             /\ a.res = "ack" /\ a.handle = 0 /\ a.bytes = NoBytes
    BY <1>3, <1>4, <1>5, <2>1
  <2>3. Outcome(a)
    BY <2>1, <2>2 DEF Outcome
  <2> QED
    BY <1>1, <1>2, <2>2, <2>3, Zenon
<1>12. CASE ServeClose
  <2>1. /\ Answer("ack", 0, NoBytes)
        /\ Head(h2d).op = "CLOSE" /\ open' = 0 /\ UNCHANGED <<session, nextHandle>>
    BY <1>12 DEF ServeClose, Receive, NoBytes
  <2>2. PICK a \in Response : /\ Answered(a) /\ a.op = Head(h2d).op
                             /\ a.res = "ack" /\ a.handle = 0 /\ a.bytes = NoBytes
    BY <1>3, <1>4, <1>5, <2>1
  <2>3. Outcome(a)
    BY <2>1, <2>2 DEF Outcome
  <2> QED
    BY <1>1, <1>2, <2>2, <2>3, Zenon
<1> QED
  BY <1>6, <1>7, <1>8, <1>9, <1>10, <1>11, <1>12 DEF Service

(* One message lost.                                                       *)
LEMMA LoseWays ==
  ASSUME TypeInv, Lose
  PROVE  /\ UNCHANGED <<hostVars, devVars, drops>> /\ faults' = faults + 1 /\ faults' \in 0 .. MaxFaults
         /\ h2d' \in Seq(Message) /\ Members(h2d') \subseteq Members(h2d)
         /\ d2h' \in Seq(Response) /\ Members(d2h') \subseteq Members(d2h)
         /\ \/ h2d # <<>> /\ Len(h2d') = Len(h2d) - 1 /\ d2h' = d2h
            \/ d2h # <<>> /\ Len(d2h') = Len(d2h) - 1 /\ h2d' = h2d
<1>1. UNCHANGED <<hostVars, devVars, drops>> /\ faults' = faults + 1 /\ faults' \in 0 .. MaxFaults
  BY Constants DEF Lose, Fault, TypeInv, TypeOK
<1>2. CASE h2d # <<>> /\ h2d' = Tail(h2d) /\ d2h' = d2h
  BY <1>1, <1>2, TailOf DEF TypeInv
<1>3. CASE d2h # <<>> /\ d2h' = Tail(d2h) /\ h2d' = h2d
  BY <1>1, <1>3, TailOf DEF TypeInv
<1> QED
  BY <1>2, <1>3 DEF Lose

LEMMA TypeStep == TypeInv /\ [Next]_vars => TypeInv'
<1> SUFFICES ASSUME TypeInv, [Next]_vars PROVE TypeInv'
  OBVIOUS
<1> USE Constants
<1>1. CASE UNCHANGED vars
  BY <1>1 DEF vars, hostVars, config, devVars, TypeInv, TypeOK
<1>2. CASE Service
  <2>1. PICK a \in Response : Answered(a) /\ Outcome(a)
    BY <1>2, ServiceWays
  <2>2. h2d' \in Seq(Message) /\ d2h' \in Seq(Response)
    BY <1>2, <2>1, ServiceWays DEF Answered
  <2>3. session' \in BOOLEAN /\ open' \in 0 .. MaxHandle /\ nextHandle' \in 1 .. MaxHandle
    <3>1. session \in BOOLEAN /\ open \in 0 .. MaxHandle /\ nextHandle \in 1 .. MaxHandle
          /\ nextHandle \in 0 .. MaxHandle /\ 0 \in 0 .. MaxHandle
      BY DEF TypeInv, TypeOK
    <3>2. /\ session' \in {TRUE, session} /\ open' \in {0, nextHandle, open}
          /\ nextHandle' = nextHandle \/ nextHandle' \in 1 .. MaxHandle
      BY <2>1 DEF Outcome, devVars
    <3>3. open' \in 0 .. MaxHandle /\ nextHandle' \in 1 .. MaxHandle
      BY <3>1, <3>2, Zenon
    <3> QED
      BY <3>1, <3>2, <3>3
  <2>4. UNCHANGED <<late, size, verify, deferred, pc, handle, data, stalled, attempt, await, cancelled, drops, faults>>
    BY <1>2, ServiceWays DEF hostVars, config
  <2> QED
    BY <2>2, <2>3, <2>4 DEF TypeInv, TypeOK
<1>3. CASE Lose
  <2>1. UNCHANGED <<late, size, verify, deferred, pc, handle, data, stalled, attempt, await, cancelled, drops,
                    session, open, nextHandle>>
    BY <1>3, LoseWays DEF hostVars, config, devVars
  <2>2. faults' \in 0 .. MaxFaults /\ h2d' \in Seq(Message) /\ d2h' \in Seq(Response)
    BY <1>3, LoseWays
  <2> QED
    BY <2>1, <2>2 DEF TypeInv, TypeOK
<1> QED
  BY <1>1, <1>2, <1>3, SendTypes, TimersTypes, ReplyTypes, OperatorTypes DEF Next, Host, Finished

LEMMA TypeInvariant == Spec => []TypeInv
  BY InitTypes, TypeStep, PTL DEF Spec

(* Every variable of the pull keeps its type: neither the retries nor the  *)
(* reconnects of src/logfs_client.rs exceed their budgets.                 *)
THEOREM LogfsTypeCorrect == Spec => []TypeOK
<1>1. TypeInv => TypeOK
  BY DEF TypeInv
<1> QED
  BY <1>1, TypeInvariant, PTL

-----------------------------------------------------------------------------
(* The verdict.                                                            *)

(* The result is settled once, by the last check of the pull, and the      *)
(* bytes it speaks of do not change afterwards.                            *)
VerdictInv ==
    /\ result # "none" => pc \in {"close", "ended"}
    /\ pc = "close" => result \in {"ok", "cancelled", "size", "crc"}
    /\ result = "stuck" => pc = "ended"
    /\ result = "ok" /\ verify => data = File

LEMMA ReplyKeepsVerdict ==
  ASSUME TypeInv, VerdictInv, Reply
  PROVE  VerdictInv'
<1> USE OpcodeOf
<1> DEFINE r == Head(d2h)
<1>1. pc \in Exchanges /\ UNCHANGED <<size, verify>> /\ (File' = File)
  BY ReplyWays DEF File
<1>2. ASSUME NEW why, why \notin {"none", "ok", "stuck"}, Failed(why), data' = data
      PROVE  VerdictInv'
  BY <1>1, <1>2 DEF Failed, VerdictInv
<1>3. CASE SessionLost
  <2>1. CASE pc = "read"
    <3>1. \/ pc' = "ended" /\ result' = "stuck"
          \/ pc' = "connect" /\ result' = result
      BY <1>3, <2>1, Constants DEF SessionLost, End, TypeInv, TypeOK
    <3>2. result = "none" /\ data' = data
      BY <1>3, <2>1 DEF SessionLost, VerdictInv
    <3> QED
      BY <1>1, <3>1, <3>2 DEF VerdictInv
  <2>2. CASE pc # "read"
    BY <1>2, <1>3, <2>2 DEF SessionLost
  <2> QED
    BY <2>1, <2>2
<1>4. CASE ConnectAcked(r) /\ pc = "connect"
  BY <1>1, <1>2, <1>4 DEF ConnectAcked, VerdictInv
<1>5. CASE OpenAcked(r.handle) /\ pc = "open"
  BY <1>1, <1>5 DEF OpenAcked, VerdictInv
<1>6. CASE ReadAcked(r.bytes) /\ pc = "read"
  <2>1. result = "none"
    BY <1>6 DEF VerdictInv
  <2>2. data' = data \o r.bytes
    BY <1>6 DEF ReadAcked
  <2> DEFINE all == data \o r.bytes
  <2>3. AtEof(all) \/ (pc' = "loop" /\ result' = result)
    BY <1>6 DEF ReadAcked
  <2> HIDE DEF all
  <2>4. \/ pc' \in {"crc", "loop"} /\ result' = result
        \/ pc' = "close" /\ result' \in {"ok", "crc", "size"} /\ (result' = "ok" /\ verify => all = File)
    BY <2>3, AtEofWays
  <2>5. data' = all
    BY <2>2 DEF all
  <2> QED
    BY <1>1, <2>1, <2>4, <2>5 DEF VerdictInv
<1>7. CASE Checked(data) /\ data' = data
  BY <1>1, <1>7 DEF Checked, CloseAnd, VerdictInv
<1>8. CASE End(result) /\ data' = data /\ pc = "close"
  BY <1>1, <1>8 DEF End, VerdictInv
<1>9. \/ SessionLost
      \/ \E why \in {"bad_handle", "unexpected"} : Failed(why) /\ data' = data
      \/ pc = "connect" /\ ConnectAcked(r)
      \/ pc = "open" /\ OpenAcked(r.handle)
      \/ pc = "read" /\ ReadAcked(r.bytes)
      \/ Checked(data) /\ data' = data
      \/ pc = "close" /\ End(result) /\ data' = data
  BY ReplyWays
<1> HIDE DEF r
<1> QED
  BY <1>2, <1>3, <1>4, <1>5, <1>6, <1>7, <1>8, <1>9

(* The steps that leave the pull where it is.                              *)
LEMMA Elsewhere ==
  ASSUME TypeInv, Service \/ DropSession \/ Lose \/ Cancel
  PROVE  UNCHANGED <<late, size, verify, deferred, pc, handle, data, stalled, attempt, await, result>>
<1>1. CASE Service
  BY <1>1, ServiceWays DEF hostVars, config
<1>2. CASE DropSession
  BY <1>2 DEF DropSession, hostVars, config
<1>3. CASE Lose
  BY <1>3 DEF Lose, hostVars, config
<1>4. CASE Cancel
  BY <1>4 DEF Cancel, config
<1> QED
  BY <1>1, <1>2, <1>3, <1>4

LEMMA VerdictStep ==
  ASSUME TypeInv, VerdictInv, [Next]_vars
  PROVE  VerdictInv'
<1> USE OpcodeOf
<1>1. CASE UNCHANGED <<pc, result, verify, data, size>>
  BY <1>1 DEF VerdictInv, File
<1>2. CASE Service \/ DropSession \/ Lose \/ Cancel
  BY <1>1, <1>2, Elsewhere
<1>3. CASE Send
  BY <1>1, <1>3 DEF Send, config
<1>4. CASE SendFails \/ CommandTimeout
  <2>1. pc \in Exchanges /\ RetryOrFail /\ UNCHANGED <<verify, data, size>> /\ File' = File
    BY <1>4 DEF SendFails, CommandTimeout, config, TypeInv, File
  <2> QED
    BY <2>1, RetryTypes DEF VerdictInv
<1>5. CASE LoopHead
  <2>1. pc = "loop" /\ result = "none" /\ UNCHANGED <<verify, data, size>> /\ File' = File
    BY <1>5 DEF LoopHead, config, VerdictInv, File
  <2>2. \/ pc' = "close" /\ result' = "cancelled"
        \/ pc' = "read" /\ result' = result
    BY <1>5 DEF LoopHead, CloseAnd
  <2> QED
    BY <2>1, <2>2 DEF VerdictInv
<1>6. CASE UNCHANGED vars
  BY <1>1, <1>6 DEF vars, hostVars, config
<1> QED
  BY <1>2, <1>3, <1>4, <1>5, <1>6, ReplyKeepsVerdict DEF Next, Host, Finished

LEMMA VerdictInvariant == Spec => []VerdictInv
<1>1. Init => VerdictInv
  BY DEF Init, VerdictInv
<1>2. TypeInv /\ VerdictInv /\ [Next]_vars => VerdictInv'
  BY VerdictStep
<1> QED
  BY <1>1, <1>2, TypeInvariant, PTL DEF Spec

(* A pull that reports a verified file returns the node's bytes, for a     *)
(* file of any length, whatever was lost, came late or answered another    *)
(* request.                                                                *)
THEOREM VerifiedFileIsFile == Spec => []VerifiedIsFile
<1>1. VerdictInv => VerifiedIsFile
  BY DEF VerdictInv, VerifiedIsFile
<1> QED
  BY <1>1, VerdictInvariant, PTL

-----------------------------------------------------------------------------
(* The link when replies come in time.                                     *)

(* At most one message is in flight, and it is about the exchange under    *)
(* way.                                                                    *)
LinkInv ==
    ~late =>
        /\ Len(h2d) + Len(d2h) <= IF await THEN 1 ELSE 0
        /\ \A m \in Members(h2d) : m.op = Opcode[pc] /\ m.handle = handle /\ m.off = Len(data)
        /\ \A r \in Members(d2h) :
              /\ r.op = Opcode[pc]
              /\ r.op = "READ" /\ r.res = "ack" => r.bytes = Window(Len(data))
              /\ r.op = "CONNECT" => r.res = "ack"

LEMMA LinkLens ==
  ASSUME TypeInv
  PROVE  /\ Len(h2d) \in Nat /\ Len(d2h) \in Nat
         /\ Len(h2d) + Len(d2h) <= 0 => h2d = <<>> /\ d2h = <<>>
         /\ Len(h2d) + Len(d2h) <= 1 /\ h2d # <<>> => Len(h2d) = 1 /\ d2h = <<>>
         /\ Len(h2d) + Len(d2h) <= 1 /\ d2h # <<>> => Len(d2h) = 1 /\ h2d = <<>>
  BY EmptyOrOne DEF TypeInv

LEMMA OneInFlight ==
  ASSUME TypeInv, LinkInv, ~late
  PROVE  /\ ~await => h2d = <<>> /\ d2h = <<>> /\ Members(h2d) = {} /\ Members(d2h) = {}
         /\ h2d # <<>> => Len(h2d) = 1 /\ d2h = <<>> /\ Members(d2h) = {} /\ await
         /\ d2h # <<>> => Len(d2h) = 1 /\ h2d = <<>> /\ Members(h2d) = {} /\ Tail(d2h) = <<>> /\ await
<1>1. Len(h2d) + Len(d2h) <= IF await THEN 1 ELSE 0
  BY DEF LinkInv
<1>2. ~await => h2d = <<>> /\ d2h = <<>>
  BY <1>1, LinkLens
<1>3. Len(h2d) + Len(d2h) <= 1
  BY <1>1, LinkLens
<1>4. d2h # <<>> => Tail(d2h) = <<>>
  <2> SUFFICES ASSUME d2h # <<>> PROVE Tail(d2h) = <<>>
    OBVIOUS
  <2>1. Len(d2h) = 1
    BY <1>3, LinkLens
  <2>2. Tail(d2h) \in Seq(Response) /\ Len(Tail(d2h)) = 0
    BY <2>1, TailOf DEF TypeInv
  <2> QED
    BY <2>2, EmptySeq
<1> QED
  BY <1>2, <1>3, <1>4, LinkLens, EmptyMembers

LEMMA LinkQuiet ==
  ASSUME h2d' = <<>>, d2h' = <<>>, await' \in BOOLEAN
  PROVE  LinkInv'
<1>1. Members(h2d') = {} /\ Members(d2h') = {} /\ Len(h2d') + Len(d2h') <= 0 /\ Len(h2d') + Len(d2h') <= 1
  BY EmptyMembers
<1> QED
  BY <1>1 DEF LinkInv

LEMMA LinkStep ==
  ASSUME TypeInv, LinkInv, [Next]_vars
  PROVE  LinkInv'
<1>0. UNCHANGED late
  BY ReplyWays, Elsewhere DEF Next, Host, Finished, Send, SendFails, CommandTimeout, LoopHead, config, hostVars, vars
<1>1. CASE late
  BY <1>0, <1>1 DEF LinkInv
<1> SUFFICES ASSUME ~late PROVE LinkInv'
  BY <1>1
<1>2. CASE Send
  <2> DEFINE m == [op |-> Opcode[pc], handle |-> handle, off |-> Len(data)]
  <2>1. m \in Message /\ m.op = Opcode[pc] /\ m.handle = handle /\ m.off = Len(data)
    BY <1>2, RequestTypes DEF Send
  <2>2. h2d' = Append(h2d, m) /\ await' = TRUE /\ ~await /\ UNCHANGED <<pc, handle, data>>
    BY <1>2 DEF Send
  <2> HIDE DEF m
  <2>3. h2d = <<>> /\ d2h = <<>> /\ Members(h2d) = {}
    BY <2>2, OneInFlight
  <2>4. Len(h2d') = 1 /\ Members(h2d') = {m}
    <3>1. Len(h2d') = Len(h2d) + 1 /\ Members(h2d') = Members(h2d) \cup {m}
      BY <2>1, <2>2, AppendOf DEF TypeInv
    <3> QED
      BY <2>3, <3>1
  <2>5. Len(d2h') = 0 /\ Members(d2h') = {}
    <3>1. PICK n \in 0 .. Len(d2h) : d2h' = SubSeq(d2h, n + 1, Len(d2h))
      BY <1>2 DEF Send
    <3>2. d2h' \in Seq(Response) /\ Len(d2h') = Len(d2h) - n
      BY <3>1, DrainOf DEF TypeInv
    <3>3. Len(d2h) = 0
      BY <2>3
    <3>4. Len(d2h') = 0
      BY <3>1, <3>2, <3>3
    <3> QED
      BY <3>2, <3>4, EmptySeq, EmptyMembers
  <2>6. Len(h2d') + Len(d2h') <= 1
    BY <2>4, <2>5
  <2> QED
    BY <2>1, <2>2, <2>4, <2>5, <2>6 DEF LinkInv
<1>3. CASE SendFails \/ CommandTimeout \/ LoopHead \/ Reply
  <2>1. h2d' = <<>> /\ d2h' = <<>>
    <3>1. CASE SendFails \/ LoopHead
      BY <3>1, OneInFlight, OpcodeOf DEF SendFails, LoopHead, TypeInv
    <3>2. CASE CommandTimeout
      BY <3>2 DEF CommandTimeout, Quiet
    <3>3. CASE Reply
      BY <3>3, ReplyWays, OneInFlight
    <3> QED
      BY <1>3, <3>1, <3>2, <3>3
  <2>2. await' \in BOOLEAN
    BY <1>3, TypeStep DEF TypeInv, TypeOK
  <2> QED
    BY <2>1, <2>2, LinkQuiet
<1>4. CASE Service
  <2>1. PICK a \in Response : Answered(a) /\ Outcome(a)
    BY <1>4, ServiceWays
  <2>2. UNCHANGED <<pc, handle, data, size, await>>
    BY <1>4, Elsewhere
  <2>3. h2d # <<>> /\ Len(h2d') = Len(h2d) - 1 /\ Members(h2d') \subseteq Members(h2d) /\ Head(h2d) \in Members(h2d)
    BY <1>4, ServiceWays
  <2>4. Len(h2d) = 1 /\ d2h = <<>> /\ Members(d2h) = {} /\ await
    BY <2>3, OneInFlight
  <2>5. Len(d2h') = 1 /\ Members(d2h') = {a} /\ a.op = Head(h2d).op
    <3>1. Len(d2h') = Len(d2h) + 1 /\ Members(d2h') = Members(d2h) \cup {a} /\ a.op = Head(h2d).op
      BY <2>1 DEF Answered
    <3>2. Len(d2h) = 0
      BY <2>4
    <3> QED
      BY <2>4, <3>1, <3>2
  <2>6. Len(h2d') + Len(d2h') <= 1
    BY <2>3, <2>4, <2>5
  <2>7. Head(h2d).op = Opcode[pc] /\ Head(h2d).off = Len(data)
    BY <2>3 DEF LinkInv
  <2>8. Window(Len(data))' = Window(Len(data))
    BY <2>2 DEF Window, File
  <2>9. /\ a.op = "READ" /\ a.res = "ack" => a.bytes = Window(Len(data))
        /\ a.op = "CONNECT" => a.res = "ack"
    BY <2>1, <2>7 DEF Outcome
  <2>10. \A m \in Members(h2d') : m.op = Opcode[pc] /\ m.handle = handle /\ m.off = Len(data)
    BY <2>3 DEF LinkInv
  <2> QED
    BY <2>2, <2>4, <2>5, <2>6, <2>7, <2>8, <2>9, <2>10 DEF LinkInv
<1>5. CASE DropSession \/ Cancel \/ UNCHANGED vars
  <2>1. UNCHANGED <<pc, handle, data, size, await, h2d, d2h>>
    BY <1>5, Elsewhere DEF DropSession, Cancel, vars, hostVars, config
  <2>2. Window(Len(data))' = Window(Len(data))
    BY <2>1 DEF Window, File
  <2> QED
    BY <2>1, <2>2 DEF LinkInv
<1>6. CASE Lose
  <2>1. UNCHANGED <<pc, handle, data, size, await>>
    BY <1>6, Elsewhere
  <2>2. Window(Len(data))' = Window(Len(data))
    BY <2>1 DEF Window, File
  <2>3. Members(h2d') \subseteq Members(h2d) /\ Members(d2h') \subseteq Members(d2h)
    BY <1>6, LoseWays
  <2>4. Len(h2d') + Len(d2h') <= IF await THEN 1 ELSE 0
    <3>1. Len(h2d) + Len(d2h) <= IF await THEN 1 ELSE 0
      BY DEF LinkInv
    <3>2. /\ Len(h2d) \in Nat /\ Len(d2h) \in Nat
          /\ \/ Len(h2d') = Len(h2d) - 1 /\ Len(d2h') = Len(d2h)
             \/ Len(d2h') = Len(d2h) - 1 /\ Len(h2d') = Len(h2d)
      BY <1>6, LoseWays, LinkLens
    <3> QED
      BY <3>1, <3>2
  <2> QED
    BY <2>1, <2>2, <2>3, <2>4 DEF LinkInv
<1> QED
  BY <1>2, <1>3, <1>4, <1>5, <1>6 DEF Next, Host, Finished

LEMMA LinkInvariant == Spec => []LinkInv
<1>1. Init => LinkInv
  <2> SUFFICES ASSUME Init PROVE LinkInv
    OBVIOUS
  <2>1. Members(h2d) = {} /\ Members(d2h) = {} /\ Len(h2d) + Len(d2h) <= 0 /\ ~await
    BY EmptyMembers DEF Init
  <2> QED
    BY <2>1 DEF LinkInv
<1>2. TypeInv /\ LinkInv /\ [Next]_vars => LinkInv'
  BY LinkStep
<1> QED
  BY <1>1, <1>2, TypeInvariant, PTL DEF Spec


-----------------------------------------------------------------------------
(* The bytes received.                                                     *)

(* A prefix of the file, position by position.                             *)
LEMMA PrefixForm ==
  ASSUME size \in Nat, NEW d \in Seq(Nat), Len(d) <= size
  PROVE  d = SubSeq(File, 1, Len(d)) <=> \A i \in 1 .. Len(d) : d[i] = i
<1> DEFINE p == SubSeq(File, 1, Len(d))
<1>1. Len(d) \in Nat /\ 1 \in Int /\ Len(d) \in Int
  BY LenProperties
<1>2. \A i \in 1 .. Len(d) : File[i] \in Nat /\ File[i] = i
  BY <1>1 DEF File
<1>3. /\ p \in Seq(Nat)
      /\ Len(p) = IF 1 <= Len(d) THEN Len(d) - 1 + 1 ELSE 0
      /\ \A i \in 1 .. Len(d) - 1 + 1 : p[i] = File[1 + i - 1]
  BY <1>1, <1>2, SubSeqProperties
<1> HIDE DEF p
<1>4. Len(p) = Len(d)
  BY <1>1, <1>3
<1>5. \A i \in 1 .. Len(d) : p[i] = i
  <2> SUFFICES ASSUME NEW i \in 1 .. Len(d) PROVE p[i] = i
    OBVIOUS
  <2>1. 1 + i - 1 = i /\ i \in 1 .. Len(d) - 1 + 1
    BY <1>1
  <2> QED
    BY <1>2, <1>3, <2>1
<1>6. (\A i \in 1 .. Len(d) : d[i] = i) => d = p
  BY <1>3, <1>4, <1>5, SeqEqual
<1>7. d = p => \A i \in 1 .. Len(d) : d[i] = i
  BY <1>5
<1> QED
  BY <1>6, <1>7 DEF p

(* The answer to the READ at the end of what is there carries it on.       *)
LEMMA LongerPrefix ==
  ASSUME size \in Nat, NEW d \in Seq(Nat), Len(d) <= size, \A i \in 1 .. Len(d) : d[i] = i
  PROVE  LET all == d \o Window(Len(d)) IN
         /\ all \in Seq(Nat) /\ Len(all) <= size /\ \A i \in 1 .. Len(all) : all[i] = i
<1> DEFINE w == Window(Len(d))
           end == IF Len(d) + ChunkLen < size THEN Len(d) + ChunkLen ELSE size
           all == d \o w
<1>1. Len(d) \in Nat /\ end \in Nat /\ Len(d) <= end /\ end <= size
  BY LenProperties, Constants
<1>2. /\ w \in Seq(Nat) /\ Len(w) = IF Len(d) + 1 <= end THEN end - Len(d) ELSE 0
      /\ \A i \in 1 .. end - Len(d) : w[i] = Len(d) + i
  BY <1>1, WindowOf
<1> HIDE DEF w, end
<1>3. Len(w) = end - Len(d)
  BY <1>1, <1>2
<1>4. /\ all \in Seq(Nat) /\ Len(all) = Len(d) + Len(w)
      /\ \A i \in 1 .. Len(d) + Len(w) : all[i] = IF i <= Len(d) THEN d[i] ELSE w[i - Len(d)]
  BY <1>2, ConcatProperties
<1> HIDE DEF all
<1>5. Len(all) = end
  BY <1>1, <1>3, <1>4
<1>6. ASSUME NEW i \in 1 .. Len(all) PROVE all[i] = i
  <2>1. i \in 1 .. Len(d) + Len(w) /\ i \in Nat /\ i >= 1 /\ i <= end
    BY <1>1, <1>4, <1>5, <1>6
  <2>2. CASE i <= Len(d)
    BY <1>1, <1>4, <2>1, <2>2
  <2>3. CASE ~(i <= Len(d))
    <3>1. i - Len(d) \in 1 .. end - Len(d) /\ Len(d) + (i - Len(d)) = i
      BY <1>1, <2>1, <2>3
    <3>2. all[i] = w[i - Len(d)]
      BY <1>4, <2>1, <2>3
    <3> QED
      BY <1>2, <3>1, <3>2
  <2> QED
    BY <2>2, <2>3
<1> QED
  BY <1>1, <1>4, <1>5, <1>6 DEF all, w

(* Where the data grow: on an answered READ, by the bytes of its window.   *)
LEMMA ReadWays ==
  ASSUME TypeInv, LinkInv, Reply
  PROVE  \/ UNCHANGED data
         \/ ~late /\ data' = data \o Window(Len(data))
         \/ late
<1> DEFINE r == Head(d2h)
<1>1. ASSUME ~late, r.res = "ack", r.op = "READ", ReadAcked(r.bytes)
      PROVE  data' = data \o Window(Len(data))
  <2>1. r \in Members(d2h)
    BY ReplyWays, TailOf DEF TypeInv
  <2>2. r.bytes = Window(Len(data))
    BY <1>1, <2>1 DEF LinkInv
  <2> QED
    BY <1>1, <2>2 DEF ReadAcked
<1> QED
  BY <1>1, ReplyWays DEF SessionLost, ConnectAcked, OpenAcked

(* Retries and reconnects neither repeat nor skip a byte, whatever the     *)
(* length of the file and of its chunks, as long as no reply outlives its  *)
(* request: the offset of a READ is the number of bytes already there.     *)
THEOREM PulledDataIsPrefix == Spec => []DataIsPrefix
<1>1. Init => DataIsPrefix
  <2> SUFFICES ASSUME Init PROVE Len(data) <= size /\ data = SubSeq(File, 1, Len(data))
    BY DEF DataIsPrefix
  <2>1. data \in Seq(Nat) /\ Len(data) = 0 /\ size \in Nat
    BY Constants DEF Init
  <2> QED
    BY <2>1, PrefixForm
<1>2. TypeInv /\ LinkInv /\ DataIsPrefix /\ [Next]_vars => DataIsPrefix'
  <2> SUFFICES ASSUME TypeInv, LinkInv, DataIsPrefix, [Next]_vars PROVE DataIsPrefix'
    OBVIOUS
  <2>1. UNCHANGED <<late, size>>
    BY ReplyWays, Elsewhere
       DEF Next, Host, Finished, Send, SendFails, CommandTimeout, LoopHead, config, hostVars, vars
  <2>2. size \in Nat /\ data \in Seq(Nat) /\ File' = File
    BY <2>1, Constants DEF TypeInv, TypeOK, File
  <2>3. CASE UNCHANGED data
    BY <2>1, <2>2, <2>3 DEF DataIsPrefix
  <2>4. CASE late
    BY <2>1, <2>4 DEF DataIsPrefix
  <2>5. CASE ~late /\ data' = data \o Window(Len(data))
    <3>1. Len(data) <= size /\ \A i \in 1 .. Len(data) : data[i] = i
      BY <2>2, <2>5, PrefixForm DEF DataIsPrefix
    <3>2. data' \in Seq(Nat) /\ Len(data') <= size /\ \A i \in 1 .. Len(data') : data'[i] = i
      BY <2>2, <2>5, <3>1, LongerPrefix
    <3>3. data' = SubSeq(File, 1, Len(data'))
      BY <2>2, <3>2, PrefixForm
    <3> QED
      BY <2>1, <2>2, <3>2, <3>3 DEF DataIsPrefix
  <2>6. Reply \/ UNCHANGED data
    BY Elsewhere DEF Next, Host, Finished, Send, SendFails, CommandTimeout, LoopHead, config, hostVars, vars
  <2> QED
    BY <2>3, <2>4, <2>5, <2>6, ReadWays
<1> QED
  BY <1>1, <1>2, TypeInvariant, LinkInvariant, PTL DEF Spec

-----------------------------------------------------------------------------
(* The budget of reconnects.                                               *)

(* The drops the pull has used up, and the one it has not noticed yet.     *)
Owed == stalled + (IF session THEN 0 ELSE 1)

(* Every reconnect was forced by a drop of its own: one is owed as soon as *)
(* the session is up again, by which the reconnect under way is paid.      *)
CountInv ==
    ~late =>
        /\ drops >= stalled
        /\ pc \notin {"connect", "ended"} \/ d2h # <<>> => drops >= Owed
        /\ \A r \in Members(d2h) : r.res = "bad_session" => ~session
        /\ result = "stuck" => drops > MaxStalled

LEMMA CountTypes ==
  ASSUME TypeInv
  PROVE  /\ drops \in Nat /\ stalled \in Nat /\ stalled <= MaxStalled /\ MaxStalled \in Nat
         /\ session => Owed = stalled
         /\ ~session => Owed = stalled + 1
  BY Constants DEF TypeInv, TypeOK, Owed

(* Nothing is left of what arrived before a request.                       *)
LEMMA SendEmpties ==
  ASSUME TypeInv, LinkInv, ~late, Send
  PROVE  d2h' = <<>>
<1>1. PICK n \in 0 .. Len(d2h) : d2h' = SubSeq(d2h, n + 1, Len(d2h))
  BY DEF Send
<1>2. d2h' \in Seq(Response) /\ Len(d2h') = Len(d2h) - n
  BY <1>1, DrainOf DEF TypeInv
<1>3. d2h = <<>>
  BY OneInFlight DEF Send
<1>4. Len(d2h) = 0
  BY <1>3
<1>5. Len(d2h') = 0
  BY <1>1, <1>2, <1>4
<1> QED
  BY <1>2, <1>5, EmptySeq

(* How the service's answer is about the exchange under way.               *)
LEMMA AnswerIsAbout ==
  ASSUME TypeInv, LinkInv, ~late, Service
  PROVE  /\ await /\ pc \in Exchanges /\ UNCHANGED <<late, pc, handle, data, stalled, attempt, await, result, drops, faults>>
         /\ h2d' = <<>> /\ d2h = <<>>
         /\ Head(h2d).op = Opcode[pc] /\ Head(h2d).handle = handle
         /\ \E a \in Response : Outcome(a) /\ a.op = Opcode[pc] /\ Members(d2h') = {a} /\ d2h' # <<>>
<1>1. h2d # <<>> /\ Head(h2d) \in Members(h2d) /\ h2d' = Tail(h2d) /\ h2d' \in Seq(Message) /\ Len(h2d') = Len(h2d) - 1
  BY ServiceWays
<1>2. Len(h2d) = 1 /\ d2h = <<>> /\ Members(d2h) = {} /\ await
  BY <1>1, OneInFlight
<1>3. Head(h2d).op = Opcode[pc] /\ Head(h2d).handle = handle
  BY <1>1 DEF LinkInv
<1>4. Len(h2d') = 0
  BY <1>1, <1>2
<1>5. h2d' = <<>>
  BY <1>1, <1>4, EmptySeq
<1>6. PICK a \in Response : Answered(a) /\ Outcome(a)
  BY ServiceWays
<1>7. a.op = Opcode[pc] /\ Members(d2h') = {a}
  BY <1>2, <1>3, <1>6 DEF Answered
<1>8. d2h' # <<>>
  BY <1>7, EmptyMembers
<1>9. UNCHANGED <<late, pc, handle, data, stalled, attempt, await, result, drops, faults>>
  BY ServiceWays DEF hostVars, config
<1>10. pc \in Exchanges
  BY <1>2 DEF TypeInv
<1> QED
  BY <1>2, <1>3, <1>5, <1>6, <1>7, <1>8, <1>9, <1>10

LEMMA ReplyKeepsCount ==
  ASSUME TypeInv, VerdictInv, LinkInv, CountInv, ~late, Reply
  PROVE  CountInv'
<1> USE OpcodeOf
<1> DEFINE r == Head(d2h)
<1>1. pc \in Exchanges /\ UNCHANGED session /\ d2h # <<>> /\ d2h' = <<>> /\ r \in Members(d2h) /\ result # "stuck"
  BY ReplyWays, OneInFlight, TailOf DEF TypeInv, VerdictInv
<1>2. drops >= stalled /\ drops >= Owed
  BY <1>1 DEF CountInv
<1>3. Members(d2h') = {}
  BY <1>1, EmptyMembers
<1>4. ASSUME drops' = drops, stalled' = stalled, result' # "stuck"
      PROVE  CountInv'
  <2>1. Owed' = Owed
    BY <1>1, <1>4 DEF Owed
  <2> QED
    BY <1>1, <1>2, <1>3, <1>4, <2>1 DEF CountInv
<1>5. ASSUME NEW why, why # "stuck", Failed(why)
      PROVE  result' # "stuck"
  BY <1>1, <1>5 DEF Failed
<1>6. CASE r.res = "bad_session" /\ SessionLost
  <2>1. drops >= stalled + 1 /\ drops' = drops
    BY <1>1, <1>2, <1>6, CountTypes DEF CountInv, SessionLost
  <2>2. CASE pc = "read" /\ stalled >= MaxStalled
    <3>1. drops > MaxStalled /\ stalled' = stalled /\ pc' = "ended"
      BY <1>6, <2>1, <2>2, CountTypes DEF SessionLost, End
    <3> QED
      BY <1>1, <1>2, <1>3, <2>1, <3>1 DEF CountInv
  <2>3. CASE pc = "read" /\ stalled < MaxStalled
    <3>1. stalled' = stalled + 1 /\ pc' = "connect" /\ result' = result
      BY <1>6, <2>3, CountTypes DEF SessionLost
    <3> QED
      BY <1>1, <1>3, <2>1, <3>1 DEF CountInv
  <2>4. CASE pc # "read"
    BY <1>4, <1>5, <1>6, <2>4 DEF SessionLost
  <2> QED
    BY <2>2, <2>3, <2>4, CountTypes
<1>7. CASE ConnectAcked(r)
  BY <1>1, <1>4, <1>5, <1>7 DEF ConnectAcked
<1>8. CASE OpenAcked(r.handle)
  BY <1>1, <1>4, <1>8 DEF OpenAcked
<1>9. CASE ReadAcked(r.bytes)
  <2> DEFINE all == data \o r.bytes
  <2>1. AtEof(all) \/ result' = result
    BY <1>9 DEF ReadAcked
  <2> HIDE DEF all
  <2>2. result' # "stuck"
    BY <1>1, <2>1, AtEofWays
  <2>3. CASE r.bytes = <<>>
    BY <1>4, <1>9, <2>2, <2>3 DEF ReadAcked
  <2>4. CASE r.bytes # <<>>
    <3>1. stalled' = 0 /\ drops' = IF session THEN 0 ELSE 1
      BY <1>9, <2>4 DEF ReadAcked
    <3>2. drops' >= stalled' /\ drops' >= Owed'
      BY <1>1, <3>1 DEF Owed
    <3> QED
      BY <1>3, <2>2, <3>2 DEF CountInv
  <2> QED
    BY <2>3, <2>4
<1>10. CASE UNCHANGED <<stalled, drops>> /\ (Checked(data) \/ End(result))
  BY <1>1, <1>4, <1>10 DEF Checked, CloseAnd, End
<1>11. \/ r.res = "bad_session" /\ SessionLost
       \/ \E why \in {"bad_handle", "unexpected"} : Failed(why) /\ UNCHANGED <<stalled, drops>>
       \/ ConnectAcked(r)
       \/ OpenAcked(r.handle)
       \/ ReadAcked(r.bytes)
       \/ (Checked(data) \/ End(result)) /\ UNCHANGED <<stalled, drops>>
  BY ReplyWays
<1> HIDE DEF r
<1> QED
  BY <1>4, <1>5, <1>6, <1>7, <1>8, <1>9, <1>10, <1>11

LEMMA CountStep ==
  ASSUME TypeInv, VerdictInv, LinkInv, CountInv, [Next]_vars
  PROVE  CountInv'
<1> USE OpcodeOf
<1>0. UNCHANGED late
  BY ReplyWays, Elsewhere DEF Next, Host, Finished, Send, SendFails, CommandTimeout, LoopHead, config, hostVars, vars
<1>1. CASE late
  BY <1>0, <1>1 DEF CountInv
<1> SUFFICES ASSUME ~late PROVE CountInv'
  BY <1>1
<1>2. ASSUME UNCHANGED <<stalled, session, drops>>, Members(d2h') \subseteq Members(d2h),
             pc' \notin {"connect", "ended"} \/ d2h' # <<>> => pc \notin {"connect", "ended"} \/ d2h # <<>>,
             result' = "stuck" => result = "stuck"
      PROVE  CountInv'
  <2>1. Owed' = Owed
    BY <1>2 DEF Owed
  <2> QED
    BY <1>2, <2>1 DEF CountInv
<1>3. CASE Send
  <2>1. d2h' = <<>> /\ Members(d2h') = {}
    BY <1>3, SendEmpties, EmptyMembers
  <2>2. UNCHANGED <<pc, stalled, session, drops, result>>
    BY <1>3 DEF Send, devVars
  <2> QED
    BY <1>2, <2>1, <2>2
<1>4. CASE SendFails \/ CommandTimeout
  <2>1. pc \in Exchanges /\ RetryOrFail /\ UNCHANGED <<stalled, session, drops, d2h>>
    BY <1>4 DEF SendFails, CommandTimeout, devVars, TypeInv
  <2>2. \/ pc' = pc /\ result' = result
        \/ pc' = "ended" /\ (result' = result \/ result' = "transport")
    BY <2>1, RetryTypes
  <2> QED
    BY <1>2, <2>1, <2>2
<1>5. CASE LoopHead
  <2>1. pc = "loop" /\ UNCHANGED <<stalled, session, drops, d2h>> /\ (result' = result \/ result' = "cancelled")
    BY <1>5 DEF LoopHead, CloseAnd, devVars
  <2> QED
    BY <1>2, <2>1
<1>6. CASE Cancel \/ UNCHANGED vars
  BY <1>2, <1>6 DEF Cancel, vars, hostVars, devVars
<1>7. CASE Service
  <2>1. /\ pc \in Exchanges /\ UNCHANGED <<stalled, pc, drops, result>> /\ d2h = <<>>
        /\ \E a \in Response : Outcome(a) /\ a.op = Opcode[pc] /\ Members(d2h') = {a}
    BY <1>7, AnswerIsAbout
  <2>2. PICK a \in Response : Outcome(a) /\ a.op = Opcode[pc] /\ Members(d2h') = {a}
    BY <2>1
  <2>3. drops >= stalled /\ (result = "stuck" => drops > MaxStalled)
    BY DEF CountInv
  <2>4. CASE a.op = "CONNECT"
    <3>1. a.res = "ack" /\ session'
      BY <2>2, <2>4 DEF Outcome
    <3>2. Owed' = stalled
      BY <2>1, <3>1, CountTypes DEF Owed
    <3> QED
      BY <2>1, <2>2, <2>3, <3>1, <3>2 DEF CountInv
  <2>5. CASE a.op # "CONNECT"
    <3>1. session' = session /\ (a.res = "bad_session" => ~session)
      BY <2>2, <2>5 DEF Outcome, devVars
    <3>2. pc \notin {"connect", "ended"}
      BY <2>1, <2>2, <2>5
    <3>3. drops >= Owed
      BY <3>2 DEF CountInv
    <3>4. Owed' = Owed
      BY <2>1, <3>1 DEF Owed
    <3> QED
      BY <2>1, <2>2, <2>3, <3>1, <3>3, <3>4 DEF CountInv
  <2> QED
    BY <2>4, <2>5
<1>8. CASE DropSession
  <2>1. /\ session /\ session' = FALSE /\ UNCHANGED <<stalled, d2h, result>>
        /\ drops' = IF drops > MaxStalled THEN drops ELSE drops + 1
    BY <1>8 DEF DropSession, hostVars
  <2>2. drops >= stalled
    BY DEF CountInv
  <2>3. drops' >= drops /\ drops' >= stalled + 1 /\ drops' >= stalled
    BY <2>1, <2>2, CountTypes
  <2>4. Owed' = stalled + 1
    BY <2>1 DEF Owed
  <2>5. result' = "stuck" => drops' > MaxStalled
    BY <2>1, <2>3, CountTypes DEF CountInv
  <2> QED
    BY <2>1, <2>3, <2>4, <2>5 DEF CountInv
<1>9. CASE Lose
  <2>1. UNCHANGED <<pc, stalled, session, drops, result>>
    BY <1>9 DEF Lose, hostVars, devVars
  <2>2. Members(d2h') \subseteq Members(d2h) /\ (d2h # <<>> \/ d2h' = d2h)
    BY <1>9, LoseWays
  <2> QED
    BY <1>2, <2>1, <2>2
<1> QED
  BY <1>3, <1>4, <1>5, <1>6, <1>7, <1>8, <1>9, ReplyKeepsCount DEF Next, Host, Finished

LEMMA CountInvariant == Spec => []CountInv
<1>1. Init => CountInv
  <2> SUFFICES ASSUME Init PROVE CountInv
    OBVIOUS
  <2>1. drops = 0 /\ stalled = 0 /\ session /\ result = "none" /\ Members(d2h) = {}
    BY EmptyMembers DEF Init
  <2> QED
    BY <2>1 DEF CountInv, Owed
<1>2. TypeInv /\ VerdictInv /\ LinkInv /\ CountInv /\ [Next]_vars => CountInv'
  BY CountStep
<1> QED
  BY <1>1, <1>2, TypeInvariant, VerdictInvariant, LinkInvariant, PTL DEF Spec

(* A pull gives up as stuck only if the session was dropped more often     *)
(* than MAX_STALLED_RESYNCS since a byte last arrived, whatever the budget *)
(* is: every reconnect it counted was forced by a drop of its own.         *)
THEOREM OnlyStuckGivesUp == Spec => []AdvancingPullSurvives
<1>1. CountInv => AdvancingPullSurvives
  BY DEF CountInv, AdvancingPullSurvives
<1> QED
  BY <1>1, CountInvariant, PTL

-----------------------------------------------------------------------------
(* The handle.                                                             *)

(* A handle lives in a session.                                            *)
SessionHandle == ~session => open = 0

(* The ends a CLOSE goes before.                                           *)
OrderlyEnds == {"ok", "cancelled", "size", "crc"}

(* A request whose answer will not come.                                   *)
Lost == IF await /\ Quiet THEN 1 ELSE 0

(* From its OPEN to the end the pull knows the handle that is open; every  *)
(* CLOSE that failed has cost a fault.                                     *)
HandleInv ==
    ~late =>
        /\ pc \in {"loop", "read", "crc", "close"} => open \in {0, handle}
        /\ \A r \in Members(d2h) : /\ r.op = "OPEN" /\ r.res = "ack" => open \in {0, r.handle}
                                   /\ r.op = "CLOSE" => open = 0
        /\ pc = "close" => faults + 1 >= attempt + Lost
        /\ pc = "ended" /\ result \in OrderlyEnds /\ faults < MaxAttempts => open = 0

LEMMA SessionHandleInvariant == Spec => []SessionHandle
<1>1. Init => SessionHandle
  BY DEF Init, SessionHandle
<1>2. TypeInv /\ SessionHandle /\ [Next]_vars => SessionHandle'
  <2> SUFFICES ASSUME TypeInv, SessionHandle, [Next]_vars PROVE SessionHandle'
    OBVIOUS
  <2>1. CASE UNCHANGED devVars
    BY <2>1 DEF devVars, SessionHandle
  <2>2. CASE Service
    <3>1. PICK a \in Response : Outcome(a)
      BY <2>2, ServiceWays
    <3> QED
      BY <3>1 DEF Outcome, devVars, SessionHandle
  <2>3. CASE DropSession
    BY <2>3 DEF DropSession, SessionHandle
  <2>4. UNCHANGED devVars \/ Service \/ DropSession
    BY ReplyWays DEF Next, Host, Finished, Send, SendFails, CommandTimeout, LoopHead, Cancel, Lose, devVars, vars
  <2> QED
    BY <2>1, <2>2, <2>3, <2>4
<1> QED
  BY <1>1, <1>2, TypeInvariant, PTL DEF Spec

LEMMA CountsAreNumbers ==
  ASSUME TypeInv
  PROVE  /\ faults \in Nat /\ attempt \in Nat /\ attempt <= MaxAttempts /\ MaxAttempts \in Nat
         /\ Lost \in {0, 1} /\ (Lost = 1 <=> await /\ Quiet)
  BY Constants DEF TypeInv, TypeOK, Lost

(* A reply ends an exchange: the handle it was about is known, or closed.  *)
LEMMA ReplyKeepsHandle ==
  ASSUME TypeInv, LinkInv, HandleInv, ~late, Reply
  PROVE  HandleInv'
<1> USE OpcodeOf
<1> DEFINE r == Head(d2h)
<1>1. /\ pc \in Exchanges /\ UNCHANGED <<open, faults>> /\ await' = FALSE /\ attempt' = 1
      /\ d2h # <<>> /\ d2h' = <<>> /\ r \in Members(d2h) /\ r.op = Opcode[pc]
  BY ReplyWays, OneInFlight, TailOf DEF TypeInv, LinkInv
<1>2. Members(d2h') = {}
  BY <1>1, EmptyMembers
<1>3. faults' + 1 >= attempt' + Lost'
  <2>1. Lost' = 0
    BY <1>1 DEF Lost
  <2> QED
    BY <1>1, <2>1, CountsAreNumbers
<1>4. pc = "close" => open = 0
  BY <1>1 DEF HandleInv
<1>5. ASSUME NEW why, why \notin OrderlyEnds, Failed(why)
      PROVE  HandleInv'
  <2>1. pc' = "ended" /\ (pc = "close" \/ result' = why)
    BY <1>5 DEF Failed
  <2> QED
    BY <1>1, <1>2, <1>4, <1>5, <2>1 DEF HandleInv
<1>6. ASSUME pc \in {"read", "crc"}, handle' = handle, pc' \in {"loop", "crc", "close"}
      PROVE  HandleInv'
  <2>1. open' \in {0, handle'}
    BY <1>1, <1>6 DEF HandleInv
  <2> QED
    BY <1>2, <1>3, <1>6, <2>1 DEF HandleInv
<1>7. ASSUME pc' \in {"connect", "open"}
      PROVE  HandleInv'
  BY <1>2, <1>7 DEF HandleInv
<1>8. CASE SessionLost
  <2>1. CASE pc = "read"
    <3>1. pc' = "connect" \/ (pc' = "ended" /\ result' = "stuck")
      BY <1>8, <2>1, CountTypes DEF SessionLost, End
    <3> QED
      BY <1>2, <1>7, <3>1 DEF HandleInv, OrderlyEnds
  <2>2. CASE pc # "read"
    BY <1>5, <1>8, <2>2 DEF SessionLost, OrderlyEnds
  <2> QED
    BY <2>1, <2>2
<1>9. CASE ConnectAcked(r)
  BY <1>5, <1>7, <1>9 DEF ConnectAcked, OrderlyEnds
<1>10. CASE r.res = "ack" /\ r.op = "OPEN" /\ OpenAcked(r.handle)
  <2>1. open \in {0, r.handle}
    BY <1>1, <1>10 DEF HandleInv
  <2>2. handle' = r.handle /\ pc' = "loop"
    BY <1>10 DEF OpenAcked
  <2> QED
    BY <1>1, <1>2, <2>1, <2>2 DEF HandleInv
<1>11. CASE pc = "read" /\ ReadAcked(r.bytes)
  <2> DEFINE all == data \o r.bytes
  <2>1. handle' = handle /\ (AtEof(all) \/ pc' = "loop")
    BY <1>11 DEF ReadAcked
  <2> HIDE DEF all
  <2> QED
    BY <1>6, <1>11, <2>1, AtEofWays
<1>12. CASE pc = "crc" /\ Checked(data) /\ UNCHANGED handle
  BY <1>6, <1>12 DEF Checked, CloseAnd
<1>13. CASE pc = "close" /\ End(result)
  BY <1>1, <1>2, <1>4, <1>13 DEF End, HandleInv
<1>14. \/ SessionLost
       \/ \E why \in {"bad_handle", "unexpected"} : Failed(why)
       \/ ConnectAcked(r)
       \/ r.res = "ack" /\ r.op = "OPEN" /\ OpenAcked(r.handle)
       \/ pc = "read" /\ ReadAcked(r.bytes)
       \/ pc = "crc" /\ Checked(data) /\ UNCHANGED handle
       \/ pc = "close" /\ End(result)
  BY ReplyWays
<1> HIDE DEF r
<1> QED
  BY <1>5, <1>8, <1>9, <1>10, <1>11, <1>12, <1>13, <1>14 DEF OrderlyEnds

(* A CLOSE that is refused finds nothing open.                             *)
LEMMA ServiceKeepsHandle ==
  ASSUME TypeInv, LinkInv, SessionHandle, HandleInv, ~late, Service
  PROVE  HandleInv'
<1> USE OpcodeOf
<1>1. /\ await /\ pc \in Exchanges /\ UNCHANGED <<pc, handle, attempt, await, result, faults>>
      /\ Head(h2d).handle = handle /\ d2h = <<>> /\ h2d # <<>>
  BY AnswerIsAbout, ServiceWays
<1>2. PICK a \in Response : Outcome(a) /\ a.op = Opcode[pc] /\ Members(d2h') = {a} /\ d2h' # <<>>
  BY AnswerIsAbout
<1>3. Lost = 0 /\ Lost' = 0
  BY <1>1, <1>2 DEF Lost, Quiet
<1>4. pc' = "close" => faults' + 1 >= attempt' + Lost'
  BY <1>1, <1>3 DEF HandleInv
<1>5. pc' # "ended"
  BY <1>1
<1>6. CASE a.op \in {"CONNECT", "OPEN"}
  <2>1. pc \in {"connect", "open"}
    BY <1>1, <1>2, <1>6
  <2>2. a.op = "OPEN" /\ a.res = "ack" => open' = a.handle
    BY <1>2 DEF Outcome
  <2> QED
    BY <1>1, <1>2, <1>6, <2>1, <2>2 DEF HandleInv
<1>7. CASE a.op \notin {"CONNECT", "OPEN"}
  <2>1. pc \in {"read", "crc", "close"}
    BY <1>1, <1>2, <1>7
  <2>2. open \in {0, handle}
    BY <2>1 DEF HandleInv
  <2>3. open' \in {0, handle'}
    BY <1>1, <1>2, <1>7, <2>2 DEF Outcome, devVars
  <2>4. a.op = "CLOSE" => open' = 0
    <3>1. CASE ~session \/ ~Known
      BY <1>1, <1>2, <1>7, <2>2, <3>1 DEF Outcome, devVars, SessionHandle, Known
    <3>2. CASE session /\ Known
      BY <1>2, <1>7, <3>2 DEF Outcome
    <3> QED
      BY <3>1, <3>2
  <2> QED
    BY <1>2, <1>4, <1>5, <1>7, <2>3, <2>4 DEF HandleInv
<1> QED
  BY <1>6, <1>7

LEMMA HandleStep ==
  ASSUME TypeInv, LinkInv, SessionHandle, HandleInv, [Next]_vars
  PROVE  HandleInv'
<1> USE OpcodeOf
<1>0. UNCHANGED late
  BY ReplyWays, Elsewhere DEF Next, Host, Finished, Send, SendFails, CommandTimeout, LoopHead, config, hostVars, vars
<1>1. CASE late
  BY <1>0, <1>1 DEF HandleInv
<1> SUFFICES ASSUME ~late PROVE HandleInv'
  BY <1>1
<1>2. CASE Send
  <2>1. d2h' = <<>> /\ Members(d2h') = {} /\ h2d' # <<>>
    <3>1. h2d' = Append(h2d, [op |-> Opcode[pc], handle |-> handle, off |-> Len(data)])
      BY <1>2 DEF Send
    <3>2. [op |-> Opcode[pc], handle |-> handle, off |-> Len(data)] \in Message
      BY <1>2, RequestTypes DEF Send
    <3>3. h2d' # <<>>
      BY <3>1, <3>2, AppendOf DEF TypeInv
    <3> QED
      BY <1>2, <3>3, SendEmpties, EmptyMembers
  <2>2. UNCHANGED <<pc, handle, attempt, result, open, faults>> /\ ~await
    BY <1>2 DEF Send, devVars
  <2>3. Lost = 0 /\ Lost' = 0
    BY <2>1, <2>2 DEF Lost, Quiet
  <2> QED
    BY <2>1, <2>2, <2>3 DEF HandleInv
<1>3. CASE SendFails \/ CommandTimeout
  <2>1. /\ pc \in Exchanges /\ RetryOrFail /\ UNCHANGED <<handle, open, d2h, h2d>> /\ await' = FALSE
    BY <1>3 DEF SendFails, CommandTimeout, devVars, TypeInv
  <2>2. Lost' = 0 /\ faults' \in {faults, faults + 1}
    BY <1>3, <2>1 DEF Lost, SendFails, CommandTimeout, Fault
  <2>3. pc = "close" => faults' + 1 >= attempt + 1
    <3>1. pc = "close" => faults + 1 >= attempt + Lost
      BY DEF HandleInv
    <3>2. CASE SendFails
      BY <3>1, <3>2, CountsAreNumbers DEF SendFails, Fault
    <3>3. CASE CommandTimeout
      <4>1. Lost = 1 /\ faults' = faults
        BY <3>3, CountsAreNumbers DEF CommandTimeout
      <4> QED
        BY <3>1, <4>1
    <3> QED
      BY <1>3, <3>2, <3>3
  <2>4. \/ pc' = pc /\ attempt' = attempt + 1 /\ result' = result
        \/ /\ pc' = "ended" /\ (pc = "connect" \/ attempt = MaxAttempts)
           /\ result' = IF pc = "close" THEN result ELSE "transport"
    BY <2>1, RetryTypes
  <2>5. CASE pc' = pc /\ attempt' = attempt + 1
    <3>1. pc' = "close" => faults' + 1 >= attempt' + Lost'
      BY <2>2, <2>3, <2>5, CountsAreNumbers
    <3>2. pc' # "ended"
      BY <2>1, <2>5
    <3> QED
      BY <2>1, <2>5, <3>1, <3>2 DEF HandleInv
  <2>6. CASE /\ pc' = "ended" /\ (pc = "connect" \/ attempt = MaxAttempts)
             /\ result' = IF pc = "close" THEN result ELSE "transport"
    <3>1. result' \in OrderlyEnds => ~(faults' < MaxAttempts)
      BY <2>2, <2>3, <2>6, CountsAreNumbers DEF OrderlyEnds
    <3> QED
      BY <2>1, <2>6, <3>1 DEF HandleInv
  <2> QED
    BY <2>4, <2>5, <2>6
<1>4. CASE LoopHead
  <2>1. /\ pc = "loop" /\ pc' \in {"close", "read"} /\ UNCHANGED <<handle, open, d2h, faults, attempt, await>>
        /\ attempt = 1 /\ ~await
    BY <1>4 DEF LoopHead, CloseAnd, devVars, TypeInv
  <2>2. Lost' = 0
    BY <2>1 DEF Lost
  <2>3. faults' + 1 >= attempt' + Lost'
    BY <2>1, <2>2, CountsAreNumbers
  <2> QED
    BY <2>1, <2>3 DEF HandleInv
<1>5. CASE Cancel \/ UNCHANGED vars
  <2>1. UNCHANGED <<pc, handle, attempt, await, result, open, faults, d2h, h2d>>
    BY <1>5 DEF Cancel, vars, hostVars, devVars
  <2>2. Lost' = Lost
    BY <2>1 DEF Lost, Quiet
  <2> QED
    BY <2>1, <2>2 DEF HandleInv
<1>6. CASE DropSession
  <2>1. UNCHANGED <<pc, handle, attempt, await, result, faults, d2h, h2d>> /\ open' = 0
    BY <1>6 DEF DropSession, hostVars
  <2>2. Lost' = Lost
    BY <2>1 DEF Lost, Quiet
  <2> QED
    BY <2>1, <2>2 DEF HandleInv
<1>7. CASE Lose
  <2>1. UNCHANGED <<pc, handle, attempt, await, result, open>> /\ faults' = faults + 1
        /\ Members(d2h') \subseteq Members(d2h) /\ (h2d # <<>> \/ d2h # <<>>)
    BY <1>7, LoseWays DEF hostVars, devVars
  <2>2. Lost = 0 /\ Lost' \in {0, 1}
    BY <2>1 DEF Lost, Quiet
  <2>3. pc' = "close" => faults' + 1 >= attempt' + Lost'
    BY <2>1, <2>2, CountsAreNumbers DEF HandleInv
  <2>4. faults' < MaxAttempts => faults < MaxAttempts
    BY <2>1, CountsAreNumbers
  <2> QED
    BY <2>1, <2>3, <2>4 DEF HandleInv
<1> QED
  BY <1>2, <1>3, <1>4, <1>5, <1>6, <1>7, ReplyKeepsHandle, ServiceKeepsHandle DEF Next, Host, Finished

(* A pull that ended in order, was cancelled or failed its checks leaves   *)
(* no handle open on the node, whatever was dropped or lost on the way,    *)
(* unless as many messages were lost as a CLOSE has attempts.              *)
THEOREM EndedPullClosesHandle == Spec => []HandleClosed
<1>1. Init => HandleInv
  <2> SUFFICES ASSUME Init PROVE HandleInv
    OBVIOUS
  <2>1. pc = "open" /\ Members(d2h) = {}
    BY EmptyMembers DEF Init
  <2> QED
    BY <2>1 DEF HandleInv
<1>2. TypeInv /\ LinkInv /\ SessionHandle /\ HandleInv /\ [Next]_vars => HandleInv'
  BY HandleStep
<1>3. HandleInv => HandleClosed
  BY DEF HandleInv, HandleClosed, OrderlyEnds
<1> QED
  BY <1>1, <1>2, <1>3, TypeInvariant, LinkInvariant, SessionHandleInvariant, PTL DEF Spec
=============================================================================
