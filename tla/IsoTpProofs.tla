----------------------------- MODULE IsoTpProofs -----------------------------
(***************************************************************************)
(* Proofs about IsoTp, for any sizes of the protocol, any messages and any *)
(* number of them, of faults and of clock ticks.                           *)
(***************************************************************************)
EXTENDS IsoTp, SequenceTheorems, TLAPS

-----------------------------------------------------------------------------
(* Sequence numbers and sequences.                                         *)

LEMMA SeqNext ==
  ASSUME NEW x \in 0 .. SeqMod - 1
  PROVE  (x + 1) % SeqMod \in 0 .. SeqMod - 1 /\ (x + 1) % SeqMod # x
<1>1. CASE x + 1 < SeqMod
  BY <1>1, IsoTpAssumption
<1>2. CASE x + 1 = SeqMod
  BY <1>2, IsoTpAssumption
<1> QED
  BY <1>1, <1>2, IsoTpAssumption

LEMMA MinOf ==
  ASSUME NEW a \in Int, NEW b \in Int
  PROVE  Min2(a, b) \in Int /\ Min2(a, b) <= a /\ Min2(a, b) <= b /\ Min2(a, b) \in {a, b}
BY DEF Min2

Bytes == Nat \X Nat

LEMMA MessageTyped ==
  ASSUME NEW m \in Nat, NEW n \in Nat
  PROVE  Message(m, n) \in Seq(Bytes) /\ Len(Message(m, n)) = n
<1>1. Message(m, n) \in [1 .. n -> Bytes]
  BY DEF Message, Bytes
<1> QED
  BY <1>1

LEMMA SeqOfFunction ==
  ASSUME NEW T, NEW n \in Nat, NEW s \in [1 .. n -> T]
  PROVE  s \in Seq(T) /\ Len(s) = n
OBVIOUS

LEMMA AppendLast ==
  ASSUME NEW T, NEW s \in Seq(T), NEW x \in T
  PROVE  /\ Append(s, x) # <<>> /\ Append(s, x)[Len(Append(s, x))] = x
         /\ Len(Append(s, x)) = Len(s) + 1
         /\ \A i \in 1 .. Len(s) : Append(s, x)[i] = s[i]
OBVIOUS

(* A part of a sequence.                                                   *)
LEMMA PartOf ==
  ASSUME NEW T, NEW s \in Seq(T), NEW a \in Nat, NEW b \in Nat, a <= b, b <= Len(s)
  PROVE  /\ SubSeq(s, a + 1, b) \in Seq(T) /\ Len(SubSeq(s, a + 1, b)) = b - a
         /\ \A i \in 1 .. b - a : SubSeq(s, a + 1, b)[i] = s[a + i]
BY SubSeqProperties

(* What the bus pads a frame with is not taken.                            *)
LEMMA PaddedPart ==
  ASSUME NEW d \in Seq(Bytes), Len(d) <= CfPayload, NEW f, f.data = d
  PROVE  /\ Pad(f) \in Seq(Bytes) /\ Len(Pad(f)) = CfPayload
         /\ SubSeq(Pad(f), 1, Len(d)) = d
<1> DEFINE zeros == [j \in 1 .. CfPayload - Len(d) |-> <<0, 0>>]
<1>1. Len(d) \in Nat /\ CfPayload - Len(d) \in Nat
  BY IsoTpAssumption
<1>2. zeros \in [1 .. CfPayload - Len(d) -> Bytes]
  BY DEF Bytes
<1>3. zeros \in Seq(Bytes) /\ Len(zeros) = CfPayload - Len(d)
  <2> HIDE DEF zeros
  <2> QED
    BY <1>1, <1>2, SeqOfFunction
<1>4. Pad(f) = d \o zeros
  BY DEF Pad
<1> HIDE DEF zeros
<1>5. Pad(f) \in Seq(Bytes) /\ Len(Pad(f)) = CfPayload
  BY <1>1, <1>3, <1>4, ConcatProperties, IsoTpAssumption
<1>6. SubSeq(Pad(f), 1, Len(d)) = d
  <2>1. CASE Len(d) = 0
    <3>1. d = <<>>
      BY <2>1
    <3>2. SubSeq(Pad(f), 1, Len(d)) = <<>>
      BY <2>1, SubSeqEmpty
    <3> QED
      BY <3>1, <3>2
  <2>2. CASE Len(d) # 0
    <3>1. 1 \in 1 .. Len(d) /\ Len(d) \in 1 .. Len(d)
      BY <1>1, <2>2
    <3>2. SubSeq(d \o zeros, 1, Len(d)) = SubSeq(d, 1, Len(d))
      BY <1>3, <3>1, SubSeqOfConcat1
    <3> QED
      BY <1>4, <3>2, SubSeqFull
  <2> QED
    BY <2>1, <2>2
<1> QED
  BY <1>5, <1>6

-----------------------------------------------------------------------------
(* Types.  The segmenter is somewhere in the last message; the buffer of a *)
(* reassembly is shorter than the message announced, which is one that     *)
(* needs more than a single frame.                                         *)

(* A frame as the bus brings it.                                           *)
FrameTyped(f) ==
    /\ f.data \in Seq(Bytes)
    /\ \/ f.pci = "SF"
       \/ f.pci = "FF" /\ Len(f.data) = FfInitial /\ f.arg \in SfMax + 1 .. MaxMsg
       \/ f.pci = "CF" /\ Len(f.data) <= CfPayload
       \/ f.pci = "FC"

(* The frame emitted last, of the message in progress.                     *)
LastOf ==
    /\ FrameTyped(last) /\ last.short = FALSE
    /\ \/ last.pci = "SF" /\ last.data = Current /\ SegmenterDone /\ Len(Current) <= SfMax
       \/ /\ last.pci = "FF" /\ last.data = SubSeq(Current, 1, FfInitial) /\ last.arg = Len(Current)
          /\ offset = FfInitial /\ nextSeq = 1 /\ Len(Current) > SfMax
       \/ last.pci = "CF" /\ last.arg # nextSeq

SegInv ==
    /\ msgs \in Seq(Seq(Bytes)) /\ \A m \in 1 .. Len(msgs) : Len(msgs[m]) <= MaxMsg
    /\ emittedFirst \in BOOLEAN /\ intact \in BOOLEAN
    /\ offset \in 0 .. Len(Current) /\ nextSeq \in 0 .. SeqMod - 1
    /\ ~emittedFirst => offset = 0 /\ nextSeq = 1 /\ msgs # <<>>
    /\ emittedFirst /\ msgs # <<>> => LastOf

ReasmInv ==
    /\ state \in {"Idle", "WaitCf"} /\ buffer \in Seq(Bytes) /\ totalLen \in Nat
    /\ expectedSeq \in 0 .. SeqMod - 1
    /\ state = "Idle" => buffer = <<>> /\ totalLen = 0 /\ expectedSeq = 0
    /\ state = "WaitCf" => Len(buffer) < totalLen /\ totalLen \in SfMax + 1 .. MaxMsg
    /\ lastRx \in 0 .. now /\ delivered \in Seq(Seq(Bytes))

TypeInv ==
    /\ ticked \in TickModes /\ SegInv /\ ReasmInv
    /\ now \in 0 .. MaxTime /\ faults \in 0 .. MaxFaults

LEMMA CurrentTyped ==
  ASSUME SegInv
  PROVE  Current \in Seq(Bytes) /\ Len(Current) \in 0 .. MaxMsg
<1>1. CASE msgs = <<>>
  BY <1>1, IsoTpAssumption DEF Current
<1>2. CASE msgs # <<>>
  BY <1>2 DEF SegInv, Current
<1> QED
  BY <1>1, <1>2

(* The frame the segmenter yields.                                         *)
LEMMA FrameOf ==
  ASSUME SegInv, ~SegmenterDone, NEW short \in BOOLEAN
  PROVE  /\ Frame(short).short = short /\ Frame(short).data \in Seq(Bytes)
         /\ Frame(short).pci = NextFrame.pci /\ Frame(short).data = NextFrame.data
         /\ ~emittedFirst /\ Len(Current) <= SfMax =>
              /\ Frame(short).pci = "SF" /\ Frame(short).arg = Len(Current) /\ Frame(short).data = Current
         /\ ~emittedFirst /\ Len(Current) > SfMax =>
              /\ Frame(short).pci = "FF" /\ Frame(short).arg = Len(Current)
              /\ Frame(short).data = SubSeq(Current, 1, FfInitial) /\ Len(Frame(short).data) = FfInitial
         /\ emittedFirst =>
              /\ offset < Len(Current) /\ Frame(short).pci = "CF" /\ Frame(short).arg = nextSeq
              /\ Frame(short).data = SubSeq(Current, offset + 1, Min2(Len(Current), offset + CfPayload))
              /\ Len(Frame(short).data) = Min2(Len(Current), offset + CfPayload) - offset
              /\ Len(Frame(short).data) \in 1 .. CfPayload
<1> DEFINE n == Len(Current)
<1>0. Current \in Seq(Bytes) /\ n \in Nat /\ offset \in Nat /\ emittedFirst \in BOOLEAN
  BY CurrentTyped DEF SegInv
<1>1. /\ Frame(short).short = short /\ Frame(short).pci = NextFrame.pci
      /\ Frame(short).arg = NextFrame.arg /\ Frame(short).data = NextFrame.data
  BY DEF Frame
<1>2. CASE ~emittedFirst /\ n <= SfMax
  <2>1. NextFrame = [pci |-> "SF", arg |-> n, data |-> Current]
    BY <1>0, <1>2, IsoTpAssumption DEF NextFrame
  <2> QED
    BY <1>0, <1>1, <1>2, <2>1, IsoTpAssumption
<1>3. CASE ~emittedFirst /\ n > SfMax
  <2>1. NextFrame = [pci |-> "FF", arg |-> n, data |-> SubSeq(Current, 1, FfInitial)]
    BY <1>0, <1>3, IsoTpAssumption DEF NextFrame
  <2>2. SubSeq(Current, 0 + 1, FfInitial) \in Seq(Bytes) /\ Len(SubSeq(Current, 0 + 1, FfInitial)) = FfInitial - 0
    <3>1. 0 <= FfInitial /\ FfInitial <= n /\ FfInitial \in Nat
      BY <1>0, <1>3, IsoTpAssumption
    <3> QED
      BY <1>0, <3>1, PartOf
  <2>3. SubSeq(Current, 1, FfInitial) \in Seq(Bytes) /\ Len(SubSeq(Current, 1, FfInitial)) = FfInitial
    BY <2>2, IsoTpAssumption
  <2> QED
    BY <1>0, <1>1, <1>3, <2>1, <2>3, IsoTpAssumption
<1>4. CASE emittedFirst
  <2> DEFINE b == Min2(n, offset + CfPayload)
  <2>1. offset < n
    BY <1>0, <1>4 DEF SegmenterDone
  <2>2. NextFrame = [pci |-> "CF", arg |-> nextSeq, data |-> SubSeq(Current, offset + 1, b)]
    BY <1>4 DEF NextFrame
  <2>3. b \in Nat /\ offset <= b /\ b <= n /\ b - offset \in 1 .. CfPayload
    BY <1>0, <2>1, IsoTpAssumption DEF Min2
  <2>4. SubSeq(Current, offset + 1, b) \in Seq(Bytes) /\ Len(SubSeq(Current, offset + 1, b)) = b - offset
    BY <1>0, <2>3, PartOf
  <2> HIDE DEF b
  <2>5. /\ Frame(short).data = SubSeq(Current, offset + 1, b) /\ Frame(short).pci = "CF"
        /\ Frame(short).arg = nextSeq
    BY <1>1, <2>2
  <2> QED
    BY <1>1, <1>4, <2>1, <2>3, <2>4, <2>5 DEF b
<1> QED
  BY <1>0, <1>2, <1>3, <1>4, IsoTpAssumption

(* What the reassembler makes of a frame.                                  *)
LEMMA IdleKept ==
  ASSUME ReasmInv, IF state = "Idle" THEN Keep ELSE Reset
  PROVE  Reset
BY DEF ReasmInv, Keep, Reset

LEMMA SfFed ==
  ASSUME ReasmInv, NEW f, f.pci = "SF", Feed(f)
  PROVE  /\ Reset
         /\ \/ f.short /\ f.arg > 0 /\ UNCHANGED <<lastRx, delivered>>
            \/ ~(f.short /\ f.arg > 0) /\ delivered' = Append(delivered, f.data) /\ lastRx' = now
<1>1. FeedSf(f)
  BY DEF Feed
<1> QED
  BY <1>1, IdleKept DEF FeedSf

LEMMA FfFed ==
  ASSUME ReasmInv, NEW f, f.pci = "FF", Feed(f)
  PROVE  \/ f.short /\ Reset /\ UNCHANGED <<lastRx, delivered>>
         \/ /\ ~f.short /\ state' = "WaitCf" /\ buffer' = f.data /\ totalLen' = f.arg /\ expectedSeq' = 1
            /\ lastRx' = now /\ UNCHANGED delivered
<1>1. FeedFf(f)
  BY DEF Feed
<1> QED
  BY <1>1, IdleKept DEF FeedFf

LEMMA FcFed ==
  ASSUME ReasmInv, NEW f, f.pci = "FC", Feed(f)
  PROVE  Reset /\ UNCHANGED <<lastRx, delivered>>
BY IdleKept DEF Feed

(* What a consecutive frame adds.                                          *)
Taken(f) == Min2(totalLen - Len(buffer), CfPayload)
Got(f) == buffer \o SubSeq(Pad(f), 1, Taken(f))

LEMMA GotTyped ==
  ASSUME ReasmInv, state = "WaitCf", NEW f, f.data \in Seq(Bytes), Len(f.data) <= CfPayload
  PROVE  /\ Taken(f) \in 1 .. CfPayload
         /\ Got(f) \in Seq(Bytes) /\ Len(Got(f)) = Len(buffer) + Taken(f) /\ Len(Got(f)) <= totalLen
<1>1. Len(buffer) \in Nat /\ totalLen \in Nat /\ Len(buffer) < totalLen
  BY DEF ReasmInv
<1>2. Taken(f) \in 1 .. CfPayload /\ Taken(f) <= totalLen - Len(buffer)
  BY <1>1, IsoTpAssumption DEF Taken, Min2
<1>3. Pad(f) \in Seq(Bytes) /\ Len(Pad(f)) = CfPayload
  BY PaddedPart
<1>4. SubSeq(Pad(f), 0 + 1, Taken(f)) \in Seq(Bytes) /\ Len(SubSeq(Pad(f), 0 + 1, Taken(f))) = Taken(f) - 0
  <2>1. 0 <= Taken(f) /\ Taken(f) <= CfPayload /\ Taken(f) \in Nat
    BY <1>2, IsoTpAssumption
  <2> QED
    BY <1>3, <2>1, PartOf
<1>5. SubSeq(Pad(f), 1, Taken(f)) \in Seq(Bytes) /\ Len(SubSeq(Pad(f), 1, Taken(f))) = Taken(f)
  BY <1>2, <1>4, IsoTpAssumption
<1> HIDE DEF Taken
<1>6. Got(f) \in Seq(Bytes) /\ Len(Got(f)) = Len(buffer) + Taken(f)
  BY <1>5, ConcatProperties DEF Got, ReasmInv
<1> QED
  BY <1>1, <1>2, <1>6

LEMMA CfFed ==
  ASSUME ReasmInv, NEW f, f.pci = "CF", Feed(f)
  PROVE  \/ (state = "Idle" \/ f.arg # expectedSeq) /\ Reset /\ UNCHANGED <<lastRx, delivered>>
         \/ f.short /\ state = "WaitCf" /\ Keep /\ UNCHANGED <<lastRx, delivered>>
         \/ /\ ~f.short /\ f.arg = expectedSeq /\ state = "WaitCf" /\ lastRx' = now
            /\ Len(Got(f)) >= totalLen /\ Reset /\ delivered' = Append(delivered, Got(f))
         \/ /\ ~f.short /\ f.arg = expectedSeq /\ state = "WaitCf" /\ lastRx' = now
            /\ ~(Len(Got(f)) >= totalLen) /\ buffer' = Got(f) /\ expectedSeq' = (expectedSeq + 1) % SeqMod
            /\ UNCHANGED <<state, totalLen, delivered>>
<1>1. CASE state = "Idle"
  BY <1>1 DEF Feed, Keep, Reset, ReasmInv
<1>2. CASE state = "WaitCf"
  <2>1. FeedCf(f)
    BY <1>2 DEF Feed
  <2> QED
    BY <1>2, <2>1 DEF FeedCf, Got, Taken
<1> QED
  BY <1>1, <1>2 DEF ReasmInv

-----------------------------------------------------------------------------
(* Every step keeps the types.                                             *)

LEMMA FrameIsTyped ==
  ASSUME SegInv, ~SegmenterDone, NEW short \in BOOLEAN
  PROVE  FrameTyped(Frame(short))
<1>1. Len(Current) \in 0 .. MaxMsg /\ emittedFirst \in BOOLEAN
  BY CurrentTyped DEF SegInv
<1>2. CASE ~emittedFirst /\ Len(Current) <= SfMax
  BY <1>2, FrameOf DEF FrameTyped
<1>3. CASE ~emittedFirst /\ Len(Current) > SfMax
  BY <1>1, <1>3, FrameOf, IsoTpAssumption DEF FrameTyped
<1>4. CASE emittedFirst
  BY <1>4, FrameOf, IsoTpAssumption DEF FrameTyped
<1> QED
  BY <1>1, <1>2, <1>3, <1>4, IsoTpAssumption

LEMMA AdvanceOf ==
  ASSUME SegInv, Advance, intact' \in BOOLEAN
  PROVE  /\ SegInv' /\ UNCHANGED <<msgs, ticked>> /\ Current' = Current /\ emittedFirst' = TRUE
         /\ ~emittedFirst => nextSeq' = 1
         /\ emittedFirst => nextSeq' = (nextSeq + 1) % SeqMod
         /\ ~emittedFirst /\ Len(Current) <= SfMax => offset' = Len(Current)
         /\ ~emittedFirst /\ Len(Current) > SfMax => offset' = FfInitial
         /\ emittedFirst => offset' = Min2(Len(Current), offset + CfPayload)
<1>0. /\ ~SegmenterDone /\ offset' = offset + Len(NextFrame.data) /\ emittedFirst' = TRUE
      /\ nextSeq' = IF emittedFirst THEN (nextSeq + 1) % SeqMod ELSE nextSeq
      /\ UNCHANGED <<ticked, msgs>>
  BY DEF Advance
<1>1. Current' = Current
  BY <1>0 DEF Current
<1>2. offset \in Nat /\ Len(Current) \in Nat /\ emittedFirst \in BOOLEAN
  BY CurrentTyped DEF SegInv
<1>3. /\ ~emittedFirst /\ Len(Current) <= SfMax => offset' = Len(Current)
      /\ ~emittedFirst /\ Len(Current) > SfMax => offset' = FfInitial
      /\ emittedFirst => offset' = Min2(Len(Current), offset + CfPayload)
  <2>1. CASE ~emittedFirst
    <3>1. offset = 0
      BY <2>1 DEF SegInv
    <3> QED
      BY <1>0, <1>2, <2>1, <3>1, FrameOf, IsoTpAssumption
  <2>2. CASE emittedFirst
    <3>1. Len(NextFrame.data) = Min2(Len(Current), offset + CfPayload) - offset
      BY <1>0, <2>2, FrameOf
    <3>2. Min2(Len(Current), offset + CfPayload) \in Int
      BY <1>2, IsoTpAssumption DEF Min2
    <3> QED
      BY <1>0, <1>2, <2>2, <3>1, <3>2
  <2> QED
    BY <1>2, <2>1, <2>2
<1>4. offset' \in 0 .. Len(Current)
  BY <1>2, <1>3, IsoTpAssumption DEF Min2
<1>5. nextSeq' \in 0 .. SeqMod - 1
  BY <1>0, SeqNext DEF SegInv
<1>a. LastOf'
  <2> DEFINE f == Frame(FALSE)
  <2>0. last' = f /\ FrameTyped(f) /\ f.short = FALSE /\ Len(Current) \in Nat
    BY <1>0, <1>2, FrameOf, FrameIsTyped DEF Advance
  <2>1. CASE ~emittedFirst /\ Len(Current) <= SfMax
    <3>1. f.pci = "SF" /\ f.data = Current
      BY <1>0, <2>1, FrameOf
    <3>2. SegmenterDone'
      BY <1>0, <1>1, <1>3, <2>0, <2>1 DEF SegmenterDone
    <3> HIDE DEF f
    <3>3. FrameTyped(last)' /\ (last.pci = "SF")' /\ last'.short = FALSE /\ last'.data = Current'
      BY <1>1, <2>0, <3>1 DEF FrameTyped
    <3> QED
      BY <1>1, <2>1, <3>2, <3>3 DEF LastOf
  <2>2. CASE ~emittedFirst /\ Len(Current) > SfMax
    <3>1. f.pci = "FF" /\ f.arg = Len(Current) /\ f.data = SubSeq(Current, 1, FfInitial)
      BY <1>0, <2>2, FrameOf
    <3>2. offset' = FfInitial /\ nextSeq' = 1
      BY <1>0, <1>3, <2>2 DEF SegInv
    <3> HIDE DEF f
    <3>3. FrameTyped(last)'
      BY <2>0 DEF FrameTyped
    <3> QED
      BY <1>1, <2>0, <2>2, <3>1, <3>2, <3>3 DEF LastOf
  <2>3. CASE emittedFirst
    <3>1. f.pci = "CF" /\ f.arg = nextSeq
      BY <1>0, <2>3, FrameOf
    <3>2. nextSeq' # nextSeq
      BY <1>0, <2>3, SeqNext DEF SegInv
    <3> HIDE DEF f
    <3>3. FrameTyped(last)'
      BY <2>0 DEF FrameTyped
    <3> QED
      BY <2>0, <3>1, <3>2, <3>3 DEF LastOf
  <2> QED
    BY <1>2, <2>0, <2>1, <2>2, <2>3, IsoTpAssumption
<1>6. SegInv'
  BY <1>0, <1>1, <1>4, <1>5, <1>a DEF SegInv
<1>7. ~emittedFirst => nextSeq' = 1
  BY <1>0 DEF SegInv
<1> QED
  BY <1>0, <1>1, <1>3, <1>6, <1>7

ResetTyped == ReasmInv /\ Reset /\ now' \in Nat /\ lastRx' \in 0 .. now' /\ delivered' \in Seq(Seq(Bytes))

LEMMA ResetTypes == ResetTyped => ReasmInv'
BY IsoTpAssumption DEF ResetTyped, ReasmInv, Reset

LEMMA FedTypes ==
  ASSUME ReasmInv, NEW f, FrameTyped(f), Feed(f), now \in Nat, now' = now
  PROVE  ReasmInv'
<1>0. lastRx \in 0 .. now /\ now \in 0 .. now /\ delivered \in Seq(Seq(Bytes))
  BY DEF ReasmInv
<1>1. CASE f.pci = "SF"
  <2>1. Append(delivered, f.data) \in Seq(Seq(Bytes))
    BY <1>0 DEF FrameTyped
  <2> QED
    BY <1>0, <1>1, <2>1, SfFed, ResetTypes DEF ResetTyped
<1>2. CASE f.pci = "FF"
  <2>1. CASE Reset /\ UNCHANGED <<lastRx, delivered>>
    BY <1>0, <2>1, ResetTypes DEF ResetTyped
  <2>2. CASE /\ state' = "WaitCf" /\ buffer' = f.data /\ totalLen' = f.arg /\ expectedSeq' = 1
             /\ lastRx' = now /\ UNCHANGED delivered
    BY <1>0, <1>2, <2>2, IsoTpAssumption DEF ReasmInv, FrameTyped
  <2> QED
    BY <1>2, <2>1, <2>2, FfFed
<1>3. CASE f.pci = "CF"
  <2>0. Len(f.data) <= CfPayload /\ f.data \in Seq(Bytes)
    BY <1>3 DEF FrameTyped
  <2>1. CASE Reset /\ UNCHANGED <<lastRx, delivered>>
    BY <1>0, <2>1, ResetTypes DEF ResetTyped
  <2>2. CASE Keep /\ UNCHANGED <<lastRx, delivered>>
    BY <2>2 DEF Keep, ReasmInv
  <2>3. CASE /\ state = "WaitCf" /\ lastRx' = now
             /\ Reset /\ delivered' = Append(delivered, Got(f))
    <3>1. Got(f) \in Seq(Bytes)
      BY <2>0, <2>3, GotTyped
    <3>2. Append(delivered, Got(f)) \in Seq(Seq(Bytes))
      BY <1>0, <3>1
    <3> QED
      BY <1>0, <2>3, <3>2, ResetTypes DEF ResetTyped
  <2>4. CASE /\ state = "WaitCf" /\ lastRx' = now
             /\ ~(Len(Got(f)) >= totalLen) /\ buffer' = Got(f) /\ expectedSeq' = (expectedSeq + 1) % SeqMod
             /\ UNCHANGED <<state, totalLen, delivered>>
    <3>1. Got(f) \in Seq(Bytes) /\ Len(Got(f)) \in Nat
      BY <2>0, <2>4, GotTyped
    <3>2. expectedSeq' \in 0 .. SeqMod - 1
      BY <2>4, SeqNext DEF ReasmInv
    <3>3. Len(buffer') < totalLen'
      BY <2>4, <3>1 DEF ReasmInv
    <3> HIDE DEF Got
    <3> QED
      BY <1>0, <2>4, <3>1, <3>2, <3>3 DEF ReasmInv
  <2> QED
    BY <1>3, <2>1, <2>2, <2>3, <2>4, CfFed
<1>4. CASE f.pci = "FC"
  BY <1>0, <1>4, FcFed, ResetTypes DEF ResetTyped
<1> QED
  BY <1>1, <1>2, <1>3, <1>4 DEF FrameTyped

LEMMA NewTypes ==
  ASSUME TypeInv, NEW n \in Lengths, New(n)
  PROVE  /\ TypeInv' /\ msgs' = Append(msgs, Message(Len(msgs) + 1, n))
         /\ Current' \in Seq(Bytes) /\ Len(Current') = n
<1> DEFINE new == Message(Len(msgs) + 1, n)
<1>0. n \in Nat /\ n <= MaxMsg /\ Len(msgs) \in Nat /\ msgs \in Seq(Seq(Bytes))
  BY IsoTpAssumption DEF New, TypeInv, SegInv
<1>1. new \in Seq(Bytes) /\ Len(new) = n
  BY <1>0, MessageTyped
<1>2. msgs' = Append(msgs, new)
  BY DEF New
<1> HIDE DEF new
<1>3. /\ msgs' \in Seq(Seq(Bytes)) /\ Len(msgs') = Len(msgs) + 1 /\ msgs' # <<>>
      /\ \A m \in 1 .. Len(msgs') : msgs'[m] = IF m = Len(msgs) + 1 THEN new ELSE msgs[m]
  BY <1>0, <1>1, <1>2
<1>4. Current' = new
  BY <1>0, <1>3 DEF Current
<1>5. \A m \in 1 .. Len(msgs') : Len(msgs'[m]) <= MaxMsg
  <2> SUFFICES ASSUME NEW m \in 1 .. Len(msgs') PROVE Len(msgs'[m]) <= MaxMsg
    OBVIOUS
  <2>1. CASE m = Len(msgs) + 1
    BY <1>0, <1>1, <1>3, <2>1
  <2>2. CASE m # Len(msgs) + 1
    <3>1. m \in 1 .. Len(msgs) /\ msgs'[m] = msgs[m]
      BY <1>0, <1>3, <2>2
    <3> QED
      BY <3>1 DEF TypeInv, SegInv
  <2> QED
    BY <2>1, <2>2
<1>6. SegInv'
  <2>1. offset' = 0 /\ nextSeq' = 1 /\ emittedFirst' = FALSE /\ intact' = TRUE
    BY DEF New
  <2>2. offset' \in 0 .. Len(Current') /\ nextSeq' \in 0 .. SeqMod - 1
    BY <1>0, <1>1, <1>4, <2>1, IsoTpAssumption
  <2> QED
    BY <1>3, <1>5, <2>1, <2>2 DEF SegInv
<1>7. UNCHANGED <<ticked, state, buffer, totalLen, expectedSeq, lastRx, delivered, now, faults>>
  BY DEF New, reasmVars
<1>8. ReasmInv'
  BY <1>7 DEF TypeInv, ReasmInv
<1> QED
  BY <1>1, <1>2, <1>4, <1>6, <1>7, <1>8 DEF TypeInv, new

LEMMA FaultTyped ==
  ASSUME TypeInv, Fault
  PROVE  faults' \in 0 .. MaxFaults
BY IsoTpAssumption DEF Fault, TypeInv

LEMMA SegKept ==
  ASSUME SegInv, UNCHANGED segVars, intact' \in BOOLEAN
  PROVE  SegInv'
<1>1. UNCHANGED <<Current, SegmenterDone, last, offset, nextSeq, emittedFirst, msgs>>
  BY DEF segVars, Current, SegmenterDone
<1>2. FrameTyped(last) => FrameTyped(last)'
  BY <1>1 DEF FrameTyped
<1>3. LastOf => LastOf'
  BY <1>1, <1>2 DEF LastOf
<1> QED
  BY <1>1, <1>3 DEF SegInv

LEMMA BusTypes ==
  ASSUME TypeInv, Deliver \/ Lose \/ Truncate \/ Repeat \/ FlowControl
  PROVE  TypeInv'
<1>0. SegInv /\ ReasmInv /\ now \in Nat
  BY IsoTpAssumption DEF TypeInv
<1>1. CASE Deliver
  <2>1. Advance /\ ~SegmenterDone /\ Feed(Frame(FALSE)) /\ UNCHANGED <<intact, now, faults>>
    BY <1>1 DEF Deliver, Advance
  <2>2. SegInv' /\ UNCHANGED ticked
    BY <1>0, <2>1, AdvanceOf DEF SegInv
  <2>3. ReasmInv'
    BY <1>0, <2>1, FedTypes, FrameIsTyped
  <2> QED
    BY <2>1, <2>2, <2>3 DEF TypeInv
<1>2. CASE Lose
  <2>1. Advance /\ intact' = FALSE /\ UNCHANGED <<reasmVars, now>> /\ Fault
    BY <1>2 DEF Lose
  <2>2. SegInv' /\ UNCHANGED ticked
    BY <1>0, <2>1, AdvanceOf
  <2>3. ReasmInv'
    BY <1>0, <2>1 DEF ReasmInv, reasmVars
  <2> QED
    BY <2>1, <2>2, <2>3, FaultTyped DEF TypeInv
<1>3. CASE Truncate
  <2>1. Advance /\ ~SegmenterDone /\ Feed(Frame(TRUE)) /\ intact' = FALSE /\ UNCHANGED now /\ Fault
    BY <1>3 DEF Truncate, Advance
  <2>2. SegInv' /\ UNCHANGED ticked
    BY <1>0, <2>1, AdvanceOf
  <2>3. ReasmInv'
    BY <1>0, <2>1, FedTypes, FrameIsTyped
  <2> QED
    BY <2>1, <2>2, <2>3, FaultTyped DEF TypeInv
<1>4. CASE FlowControl
  <2> DEFINE f == [pci |-> "FC", arg |-> 0, data |-> <<>>, short |-> FALSE]
  <2>1. Feed(f) /\ Fault /\ intact' = (intact /\ SegmenterDone) /\ UNCHANGED <<ticked, segVars, now>>
    BY <1>4 DEF FlowControl
  <2>2. FrameTyped(f)
    BY DEF FrameTyped
  <2> HIDE DEF f
  <2>3. ReasmInv'
    BY <1>0, <2>1, <2>2, FedTypes
  <2>4. intact' \in BOOLEAN
    BY <2>1, <1>0 DEF SegInv, SegmenterDone
  <2>5. SegInv'
    BY <1>0, <2>1, <2>4, SegKept
  <2> QED
    BY <2>1, <2>3, <2>5, FaultTyped DEF TypeInv
<1>5. CASE Repeat
  <2>1. /\ Feed(last) /\ Fault /\ intact' = (intact /\ SegmenterDone) /\ UNCHANGED <<ticked, segVars, now>>
        /\ msgs # <<>> /\ emittedFirst
    BY <1>5 DEF Repeat
  <2>2. FrameTyped(last)
    BY <1>0, <2>1 DEF SegInv, LastOf
  <2>3. ReasmInv'
    BY <1>0, <2>1, <2>2, FedTypes
  <2>4. intact' \in BOOLEAN
    BY <1>0, <2>1 DEF SegInv, SegmenterDone
  <2>5. SegInv'
    BY <1>0, <2>1, <2>4, SegKept
  <2> QED
    BY <2>1, <2>3, <2>5, FaultTyped DEF TypeInv
<1> QED
  BY <1>1, <1>2, <1>3, <1>4, <1>5

LEMMA ClockTypes ==
  ASSUME TypeInv, Clock
  PROVE  /\ TypeInv' /\ UNCHANGED <<ticked, msgs, offset, nextSeq, emittedFirst, faults, delivered, lastRx>>
         /\ now' = now + 1 /\ intact' = (intact /\ state' = state)
         /\ \/ UNCHANGED <<state, buffer, totalLen, expectedSeq>>
               /\ (ticked /\ state = "WaitCf" => now' - lastRx <= TimeoutMs)
            \/ Reset
<1>0. now < MaxTime /\ now \in 0 .. MaxTime /\ MaxTime \in Nat /\ lastRx \in 0 .. now /\ TimeoutMs \in Nat
  BY IsoTpAssumption DEF TypeInv, Clock, ReasmInv
<1>1. now' = now + 1 /\ UNCHANGED <<ticked, segVars, faults>> /\ intact' = (intact /\ state' = state)
  BY DEF Clock
<1>2. \/ /\ UNCHANGED reasmVars /\ (ticked /\ state = "WaitCf" => now' - lastRx <= TimeoutMs)
      \/ Reset /\ UNCHANGED <<lastRx, delivered>>
  BY <1>0, <1>1 DEF Clock, Tick
<1>3. ReasmInv'
  <2>1. CASE UNCHANGED reasmVars
    BY <1>0, <1>1, <2>1 DEF TypeInv, ReasmInv, reasmVars
  <2>2. CASE Reset /\ UNCHANGED <<lastRx, delivered>>
    BY <1>0, <1>1, <2>2, ResetTypes DEF TypeInv, ReasmInv, ResetTyped
  <2> QED
    BY <1>2, <2>1, <2>2
<1>4. SegInv'
  <2>1. intact' \in BOOLEAN
    BY <1>1 DEF TypeInv, SegInv
  <2> QED
    BY <1>1, <2>1, SegKept DEF TypeInv
<1>5. UNCHANGED <<delivered, lastRx>>
  BY <1>2 DEF reasmVars
<1> QED
  BY <1>0, <1>1, <1>2, <1>3, <1>4, <1>5 DEF TypeInv, segVars, reasmVars

LEMMA TypeStep == TypeInv /\ [Next]_vars => TypeInv'
<1> SUFFICES ASSUME TypeInv, [Next]_vars PROVE TypeInv'
  OBVIOUS
<1>1. CASE UNCHANGED vars
  <2>1. SegInv'
    BY <1>1, SegKept DEF vars, TypeInv, SegInv
  <2> QED
    BY <1>1, <2>1 DEF vars, reasmVars, TypeInv, ReasmInv
<1> QED
  BY <1>1, NewTypes, BusTypes, ClockTypes DEF Next, NewRefused, Finished

LEMMA TypeInvariant == Spec => []TypeInv
<1>1. Init => TypeInv
  <2> SUFFICES ASSUME Init PROVE TypeInv
    OBVIOUS
  <2>1. SegInv
    BY IsoTpAssumption DEF Init, SegInv, Current
  <2>2. ReasmInv
    BY IsoTpAssumption DEF Init, ReasmInv
  <2> QED
    BY <2>1, <2>2, IsoTpAssumption DEF Init, TypeInv
<1> QED
  BY <1>1, TypeStep, PTL DEF Spec

(* Types; the buffer never reaches the declared length, nor that length    *)
(* the maximum message, and an idle reassembler holds nothing: no length   *)
(* of the protocol and no fault of the bus makes the buffer outgrow the    *)
(* message announced (isotp.rs).                                           *)
THEOREM IsoTpTypeCorrect == Spec => []TypeOK
<1>1. TypeInv => TypeOK
  BY CurrentTyped, IsoTpAssumption DEF TypeInv, SegInv, ReasmInv, TypeOK
<1> QED
  BY <1>1, TypeInvariant, PTL

-----------------------------------------------------------------------------
(* The reassembler in step with the segmenter: it holds what was sent of   *)
(* the message so far, and waits for the frame that comes next.            *)

InSync ==
    /\ emittedFirst /\ state = "WaitCf" /\ totalLen = Len(Current)
    /\ buffer = SubSeq(Current, 1, offset) /\ expectedSeq = nextSeq

LEMMA InSyncIsUndone ==
  ASSUME TypeInv, InSync
  PROVE  ~SegmenterDone /\ Len(buffer) = offset
<1>1. Current \in Seq(Bytes) /\ offset \in 0 .. Len(Current) /\ Len(Current) \in Nat
  BY CurrentTyped DEF TypeInv, SegInv
<1>2. Len(SubSeq(Current, 0 + 1, offset)) = offset - 0
  BY <1>1, PartOf
<1>3. Len(buffer) = offset
  BY <1>1, <1>2 DEF InSync
<1> QED
  BY <1>1, <1>3 DEF InSync, TypeInv, ReasmInv, SegmenterDone

LEMMA UndoneIsSent ==
  ASSUME TypeInv, ~SegmenterDone
  PROVE  msgs # <<>> /\ Len(msgs) \in 1 .. Len(msgs) /\ Current = msgs[Len(msgs)]
<1>1. msgs # <<>>
  <2> SUFFICES ASSUME msgs = <<>> PROVE FALSE
    OBVIOUS
  <2>1. Len(Current) = 0 /\ offset \in Nat /\ emittedFirst
    BY DEF Current, TypeInv, SegInv
  <2> QED
    BY <2>1 DEF SegmenterDone
<1> QED
  BY <1>1 DEF Current, TypeInv, SegInv

(* A frame that arrives keeps them in step, or completes the message.      *)
Completes ==
    \/ InSync' /\ UNCHANGED delivered
    \/ SegmenterDone' /\ state' = "Idle" /\ delivered' = Append(delivered, Current)

LEMMA FirstDelivered ==
  ASSUME TypeInv, ~emittedFirst, Deliver
  PROVE  Completes
<1> DEFINE f == Frame(FALSE)
<1>0. /\ ~SegmenterDone /\ Advance /\ Feed(f) /\ UNCHANGED <<intact, now, faults>> /\ SegInv /\ ReasmInv
      /\ intact' \in BOOLEAN
  BY DEF Deliver, Advance, TypeInv, SegInv
<1>1. f.short = FALSE
  BY <1>0, FrameOf
<1>2. Len(Current) \in 0 .. MaxMsg /\ Current' = Current /\ emittedFirst' = TRUE /\ nextSeq' = 1
  BY <1>0, CurrentTyped, AdvanceOf
<1>3. CASE Len(Current) <= SfMax
  <2>1. f.pci = "SF" /\ f.data = Current
    BY <1>0, <1>3, FrameOf
  <2>2. offset' = Len(Current)
    BY <1>0, <1>3, AdvanceOf
  <2>3. SegmenterDone'
    BY <1>2, <2>2 DEF SegmenterDone
  <2> HIDE DEF f
  <2>4. state' = "Idle" /\ delivered' = Append(delivered, Current)
    BY <1>0, <1>1, <2>1, SfFed DEF Reset
  <2> QED
    BY <2>3, <2>4 DEF Completes
<1>4. CASE Len(Current) > SfMax
  <2>1. f.pci = "FF" /\ f.arg = Len(Current) /\ f.data = SubSeq(Current, 1, FfInitial)
    BY <1>0, <1>4, FrameOf
  <2>2. offset' = FfInitial
    BY <1>0, <1>4, AdvanceOf
  <2> HIDE DEF f
  <2>3. /\ state' = "WaitCf" /\ buffer' = f.data /\ totalLen' = f.arg /\ expectedSeq' = 1
        /\ UNCHANGED delivered
    BY <1>0, <1>1, <2>1, FfFed
  <2> QED
    BY <1>2, <2>1, <2>2, <2>3 DEF Completes, InSync
<1> QED
  BY <1>2, <1>3, <1>4, IsoTpAssumption

LEMMA NextDelivered ==
  ASSUME TypeInv, InSync, Deliver
  PROVE  Completes
<1> DEFINE f == Frame(FALSE)
           b == Min2(Len(Current), offset + CfPayload)
<1>0. /\ ~SegmenterDone /\ Advance /\ Feed(f) /\ UNCHANGED <<intact, now, faults>> /\ SegInv /\ ReasmInv
      /\ intact' \in BOOLEAN /\ emittedFirst
  BY DEF Deliver, Advance, TypeInv, SegInv, InSync
<1>1. /\ f.short = FALSE /\ f.pci = "CF" /\ f.arg = nextSeq /\ f.data = SubSeq(Current, offset + 1, b)
      /\ f.data \in Seq(Bytes) /\ Len(f.data) = b - offset /\ Len(f.data) <= CfPayload /\ offset < Len(Current)
  <2>1. /\ f.short = FALSE /\ f.pci = "CF" /\ f.arg = nextSeq /\ f.data = SubSeq(Current, offset + 1, b)
        /\ f.data \in Seq(Bytes) /\ Len(f.data) = b - offset /\ offset < Len(Current)
    BY <1>0, FrameOf
  <2>2. Len(f.data) \in 1 .. CfPayload
    BY <1>0, FrameOf
  <2> HIDE DEF f, b
  <2>3. Len(f.data) <= CfPayload
    BY <2>2, IsoTpAssumption
  <2> QED
    BY <2>1, <2>3
<1>2. /\ Current' = Current /\ emittedFirst' = TRUE /\ nextSeq' = (nextSeq + 1) % SeqMod /\ offset' = b
  BY <1>0, AdvanceOf
<1>3. Current \in Seq(Bytes) /\ offset \in Nat /\ Len(Current) \in Nat
  BY <1>0, CurrentTyped DEF SegInv
<1>4. b \in Nat /\ offset <= b /\ b <= Len(Current) /\ b - offset = Min2(Len(Current) - offset, CfPayload)
  BY <1>1, <1>3, IsoTpAssumption DEF Min2
<1> HIDE DEF f, b
<1>5. Taken(f) = Len(f.data)
  BY <1>1, <1>4, InSyncIsUndone DEF Taken, InSync
<1>6. SubSeq(Pad(f), 1, Taken(f)) = f.data
  BY <1>1, <1>5, PaddedPart
<1>7. SubSeq(Current, 1, offset) \o SubSeq(Current, offset + 1, b) = SubSeq(Current, 1, b)
  <2>1. 1 \in 1 .. Len(Current) + 1 /\ offset \in 1 - 1 .. Len(Current) /\ b \in offset .. Len(Current)
    BY <1>3, <1>4
  <2> QED
    BY <1>3, <2>1, ConcatAdjacentSubSeq
<1>8. Got(f) = SubSeq(Current, 1, b)
  BY <1>1, <1>6, <1>7 DEF Got, InSync
<1>9. Len(Got(f)) = b
  <2>1. Len(SubSeq(Current, 0 + 1, b)) = b - 0
    BY <1>3, <1>4, PartOf
  <2> QED
    BY <1>4, <1>8, <2>1
<1>10. f.arg = expectedSeq /\ state = "WaitCf" /\ totalLen = Len(Current)
  BY <1>1 DEF InSync
<1>11. CASE Len(Got(f)) >= totalLen
  <2>1. b = Len(Current)
    BY <1>3, <1>4, <1>9, <1>10, <1>11
  <2>2. Got(f) = Current
    BY <1>3, <1>8, <2>1, SubSeqFull
  <2>3. Reset /\ delivered' = Append(delivered, Got(f))
    BY <1>0, <1>1, <1>10, <1>11, CfFed
  <2>4. SegmenterDone'
    BY <1>2, <1>3, <2>1 DEF SegmenterDone
  <2> QED
    BY <2>2, <2>3, <2>4 DEF Completes, Reset
<1>12. CASE ~(Len(Got(f)) >= totalLen)
  <2>1. /\ buffer' = Got(f) /\ expectedSeq' = (expectedSeq + 1) % SeqMod
        /\ UNCHANGED <<state, totalLen, delivered>>
    BY <1>0, <1>1, <1>10, <1>12, CfFed
  <2>2. expectedSeq' = nextSeq'
    BY <1>2, <2>1 DEF InSync
  <2> QED
    BY <1>2, <1>8, <1>10, <2>1, <2>2 DEF Completes, InSync
<1> QED
  BY <1>11, <1>12

-----------------------------------------------------------------------------
(* A message no fault hits is delivered.                                   *)

CleanInv ==
    msgs # <<>> /\ intact =>
      \/ ~emittedFirst
      \/ InSync
      \/ SegmenterDone /\ state = "Idle" /\ delivered # <<>> /\ delivered[Len(delivered)] = Current

LEMMA CleanStep == TypeInv /\ CleanInv /\ [Next]_vars => CleanInv'
<1> SUFFICES ASSUME TypeInv, CleanInv, [Next]_vars, msgs' # <<>>, intact'
             PROVE  \/ ~emittedFirst'
                    \/ InSync'
                    \/ /\ SegmenterDone' /\ state' = "Idle"
                       /\ delivered' # <<>> /\ delivered'[Len(delivered')] = Current'
  BY DEF CleanInv
<1>1. CASE UNCHANGED vars
  BY <1>1 DEF vars, segVars, reasmVars, CleanInv, InSync, SegmenterDone, Current
<1>2. ASSUME NEW n \in Lengths, New(n) PROVE ~emittedFirst'
  BY <1>2 DEF New
<1>3. CASE Deliver
  <2>1. ~SegmenterDone /\ intact /\ Advance
    BY <1>3 DEF Deliver, Advance
  <2>2. ~emittedFirst \/ InSync
    BY <2>1, UndoneIsSent DEF CleanInv
  <2>3. Completes
    BY <1>3, <2>2, FirstDelivered, NextDelivered
  <2>4. Current' = Current
    BY <2>1 DEF Advance, Current
  <2>5. delivered \in Seq(Seq(Bytes)) /\ Current \in Seq(Bytes)
    BY CurrentTyped DEF TypeInv, ReasmInv
  <2>6. CASE delivered' = Append(delivered, Current) /\ SegmenterDone' /\ state' = "Idle"
    <3>1. delivered' # <<>> /\ delivered'[Len(delivered')] = Current
      BY <2>5, <2>6, AppendLast
    <3> QED
      BY <2>4, <2>6, <3>1
  <2> QED
    BY <2>3, <2>6 DEF Completes
<1>4. CASE Lose
  BY <1>4 DEF Lose
<1>5. CASE Truncate
  BY <1>5 DEF Truncate
<1>6. CASE FlowControl
  <2> DEFINE f == [pci |-> "FC", arg |-> 0, data |-> <<>>, short |-> FALSE]
  <2>1. SegmenterDone /\ intact /\ UNCHANGED segVars /\ Feed(f)
    BY <1>6 DEF FlowControl
  <2>2. msgs # <<>> /\ ~InSync /\ emittedFirst
    BY <2>1, InSyncIsUndone DEF segVars, SegmenterDone
  <2>3. UNCHANGED delivered /\ state' = "Idle"
    BY <2>1, FcFed DEF TypeInv, Reset
  <2> HIDE DEF f
  <2> QED
    BY <2>1, <2>2, <2>3 DEF CleanInv, segVars, SegmenterDone, Current
<1>8. CASE Repeat
  <2>1. /\ SegmenterDone /\ intact /\ UNCHANGED segVars /\ Feed(last) /\ msgs # <<>> /\ emittedFirst
        /\ ReasmInv /\ LastOf /\ delivered \in Seq(Seq(Bytes)) /\ Current \in Seq(Bytes)
    BY <1>8, CurrentTyped DEF Repeat, TypeInv, SegInv, ReasmInv
  <2>2. state = "Idle" /\ delivered # <<>> /\ delivered[Len(delivered)] = Current
    BY <2>1, InSyncIsUndone DEF CleanInv
  <2>3. SegmenterDone' /\ Current' = Current
    BY <2>1 DEF segVars, SegmenterDone, Current
  <2>4. CASE last.pci = "SF" /\ last.data = Current
    <3>1. Reset /\ delivered' = Append(delivered, Current)
      BY <2>1, <2>4, SfFed DEF LastOf
    <3> QED
      BY <2>1, <2>3, <3>1, AppendLast DEF Reset
  <2>5. CASE last.pci = "FF" /\ offset = FfInitial /\ Len(Current) > SfMax
    BY <2>1, <2>5, IsoTpAssumption DEF SegmenterDone
  <2>6. CASE last.pci = "CF"
    <3>1. Reset /\ UNCHANGED delivered
      BY <2>1, <2>2, <2>6, CfFed
    <3> QED
      BY <2>2, <2>3, <3>1 DEF Reset
  <2> QED
    BY <2>1, <2>4, <2>5, <2>6 DEF LastOf
<1>7. CASE Clock
  <2>1. intact /\ state' = state /\ UNCHANGED <<msgs, offset, nextSeq, emittedFirst, delivered>>
    BY <1>7, ClockTypes
  <2>2. CASE InSync
    <3>1. ~Reset
      BY <2>1, <2>2 DEF Reset, InSync
    <3> QED
      BY <1>7, <2>1, <2>2, <3>1, ClockTypes DEF InSync, Current
  <2>3. CASE ~InSync
    BY <2>1, <2>3 DEF CleanInv, SegmenterDone, Current
  <2> QED
    BY <2>2, <2>3
<1> QED
  BY <1>1, <1>2, <1>3, <1>4, <1>5, <1>6, <1>7, <1>8 DEF Next, NewRefused, Finished

(* A message whose frames all arrive is the one delivered, whatever an     *)
(* earlier one left in the reassembler, for every length up to MAX_MSG_LEN *)
(* and every place of the sequence number's wrap (isotp.rs).               *)
THEOREM CleanIsDelivered == Spec => []CleanMessageDelivered
<1>1. Init => CleanInv
  BY DEF Init, CleanInv
<1>2. TypeInv /\ CleanInv => CleanMessageDelivered
  BY InSyncIsUndone DEF CleanInv, CleanMessageDelivered, SegmenterDone
<1> QED
  BY <1>1, <1>2, TypeInvariant, CleanStep, PTL DEF Spec

-----------------------------------------------------------------------------
(* One fault at most.  A reassembly that is out of step waits for a frame  *)
(* that never comes: the next CF has another number, and the next first    *)
(* frame starts over.                                                      *)

(* What the order of the deliveries has of a function to the messages.     *)
Ordered(f) ==
    /\ \A i \in 1 .. Len(delivered) : delivered[i] = msgs[f[i]]
    /\ \A i, j \in 1 .. Len(delivered) : i < j =>
         \/ f[i] < f[j]
         \/ f[i] = f[j] /\ faults > 0 /\ Len(delivered[i]) <= SfMax

(* A message still being segmented has not been delivered.                 *)
Emitted == IF SegmenterDone THEN Len(msgs) ELSE Len(msgs) - 1

Sent == AmongFirst(Emitted)

OutOfStep == faults = 1 /\ (~emittedFirst \/ nextSeq # expectedSeq)

OneFaultInv == faults <= 1 => Sent /\ (state = "WaitCf" => InSync \/ OutOfStep)

LEMMA FaultsCount == TypeInv => faults \in Nat
  BY IsoTpAssumption DEF TypeInv

LEMMA AmongMore ==
  ASSUME TypeInv, NEW m \in Int, NEW n \in Int, m <= n, n <= Len(msgs'), AmongFirst(m), UNCHANGED delivered,
         faults' \in Nat, faults <= faults', \A k \in 1 .. m : msgs'[k] = msgs[k]
  PROVE  AmongFirst(n)'
<1>1. PICK f \in [1 .. Len(delivered) -> 1 .. m] : Ordered(f)
  BY DEF AmongFirst, Ordered
<1>2. f \in [1 .. Len(delivered') -> 1 .. n]
  BY 1 .. m \subseteq 1 .. n
<1>3. faults > 0 => faults' > 0
  BY DEF TypeInv
<1>4. /\ \A i \in 1 .. Len(delivered') : delivered'[i] = msgs'[f[i]]
      /\ \A i, j \in 1 .. Len(delivered') : i < j =>
           \/ f[i] < f[j]
           \/ f[i] = f[j] /\ faults' > 0 /\ Len(delivered'[i]) <= SfMax
  BY <1>1, <1>3 DEF Ordered
<1> QED
  BY <1>2, <1>4 DEF AmongFirst

LEMMA SentKept ==
  ASSUME TypeInv, Sent, UNCHANGED <<msgs, delivered>>, faults' \in Nat, faults <= faults',
         ~SegmenterDone \/ UNCHANGED <<offset, emittedFirst>>
  PROVE  Sent'
<1>1. Emitted \in Int /\ Emitted' \in Int /\ Emitted <= Emitted' /\ Emitted' <= Len(msgs')
  BY DEF Emitted, SegmenterDone, Current, TypeInv, SegInv
<1>2. AmongFirst(Emitted)
  BY DEF Sent
<1>3. PICK n \in Int : n = Emitted'
  BY <1>1
<1>4. AmongFirst(n)'
  <2> DEFINE e == Emitted
  <2>1. e \in Int /\ e <= n /\ n <= Len(msgs') /\ AmongFirst(e)
    BY <1>1, <1>2, <1>3
  <2> HIDE DEF e
  <2> QED
    BY <2>1, AmongMore
<1> QED
  BY <1>3, <1>4 DEF Sent, AmongFirst

(* The message just emitted is delivered: for the first time, or because   *)
(* its only frame is repeated.                                             *)
LEMMA SentOneMore ==
  ASSUME TypeInv, Sent, msgs # <<>>, SegmenterDone', msgs' = msgs, delivered' = Append(delivered, Current),
         faults' \in Nat, faults <= faults',
         ~SegmenterDone \/ (faults' > 0 /\ Len(Current) <= SfMax)
  PROVE  Sent'
<1> DEFINE d == Len(delivered)
           n == Len(msgs)
<1>1. delivered \in Seq(Seq(Bytes)) /\ Current \in Seq(Bytes) /\ d \in Nat
  BY CurrentTyped DEF TypeInv, ReasmInv
<1>2. /\ Len(delivered') = d + 1
      /\ delivered'[d + 1] = Current
      /\ \A i \in 1 .. d : delivered'[i] = delivered[i]
  BY <1>1, AppendLast
<1>3. /\ n \in Nat \ {0} /\ Current = msgs[n] /\ Current = msgs'[n] /\ Emitted' = n
      /\ Emitted \in {n - 1, n} /\ (~SegmenterDone => Emitted = n - 1)
  BY DEF TypeInv, SegInv, Emitted, Current
<1>4. PICK f \in [1 .. d -> 1 .. Emitted] : Ordered(f)
  BY DEF Sent, AmongFirst, Ordered
<1> DEFINE g == [i \in 1 .. d + 1 |-> IF i = d + 1 THEN n ELSE f[i]]
<1>a. faults > 0 => faults' > 0
  BY DEF TypeInv
<1>b. /\ \A i \in 1 .. d : delivered[i] = msgs[f[i]] /\ f[i] \in 1 .. Emitted
      /\ \A i, j \in 1 .. d : i < j =>
           f[i] < f[j] \/ (f[i] = f[j] /\ faults' > 0 /\ Len(delivered[i]) <= SfMax)
  BY <1>4, <1>a DEF Ordered
<1> HIDE DEF d, n
<1>5. \A i \in 1 .. d + 1 : i = d + 1 \/ i \in 1 .. d
  BY <1>1
<1>6. g \in [1 .. d + 1 -> 1 .. n]
  BY <1>3, <1>4, <1>5
<1>7. \A i \in 1 .. d + 1 : delivered'[i] = msgs'[g[i]]
  BY <1>1, <1>2, <1>3, <1>b, <1>5
<1>8. \A i, j \in 1 .. d + 1 : i < j =>
        g[i] < g[j] \/ (g[i] = g[j] /\ faults' > 0 /\ Len(delivered'[i]) <= SfMax)
  <2> SUFFICES ASSUME NEW i \in 1 .. d + 1, NEW j \in 1 .. d + 1, i < j
               PROVE  g[i] < g[j] \/ (g[i] = g[j] /\ faults' > 0 /\ Len(delivered'[i]) <= SfMax)
    OBVIOUS
  <2>1. i \in 1 .. d /\ f[i] \in 1 .. Emitted /\ g[i] = f[i] /\ delivered'[i] = delivered[i]
    BY <1>1, <1>2, <1>b
  <2>2. CASE j = d + 1
    <3>1. g[j] = n
      BY <1>1, <2>2
    <3>2. CASE f[i] < n
      BY <2>1, <3>1, <3>2
    <3>3. CASE ~(f[i] < n)
      <4>1. f[i] = n /\ SegmenterDone
        BY <1>3, <2>1, <3>3
      <4>2. delivered[i] = Current
        BY <1>3, <1>b, <2>1, <4>1
      <4> QED
        BY <2>1, <3>1, <4>1, <4>2
    <3> QED
      BY <3>2, <3>3
  <2>3. CASE j \in 1 .. d
    <3>1. g[j] = f[j]
      BY <1>1, <2>3
    <3> QED
      BY <1>b, <2>1, <2>3, <3>1
  <2> QED
    BY <1>5, <2>2, <2>3
<1> HIDE DEF g
<1>9. g \in [1 .. Len(delivered') -> 1 .. Emitted']
  BY <1>2, <1>3, <1>6
<1>10. /\ \A i \in 1 .. Len(delivered') : delivered'[i] = msgs'[g[i]]
       /\ \A i, j \in 1 .. Len(delivered') : i < j =>
            g[i] < g[j] \/ (g[i] = g[j] /\ faults' > 0 /\ Len(delivered'[i]) <= SfMax)
  BY <1>2, <1>7, <1>8
<1> QED
  BY <1>9, <1>10 DEF Sent, AmongFirst

LEMMA NewOneFault ==
  ASSUME TypeInv, OneFaultInv, NEW n \in Lengths, New(n)
  PROVE  OneFaultInv'
<1> SUFFICES ASSUME faults <= 1 PROVE Sent' /\ (state = "WaitCf" => OutOfStep')
  BY DEF New, OneFaultInv, reasmVars
<1>1. SegmenterDone /\ UNCHANGED <<state, delivered, faults>> /\ emittedFirst' = FALSE
  BY DEF New, reasmVars
<1>2. ~InSync
  BY <1>1, InSyncIsUndone
<1>3. state = "WaitCf" => OutOfStep'
  BY <1>1, <1>2 DEF OneFaultInv, OutOfStep
<1>4. Sent'
  <2>1. msgs \in Seq(Seq(Bytes)) /\ Len(msgs) \in Nat /\ n \in Nat
    BY IsoTpAssumption DEF TypeInv, SegInv
  <2>2. Message(Len(msgs) + 1, n) \in Seq(Bytes)
    BY <2>1, MessageTyped
  <2>3. Len(msgs') = Len(msgs) + 1 /\ \A m \in 1 .. Len(msgs) : msgs'[m] = msgs[m]
    <3>1. msgs' = Append(msgs, Message(Len(msgs) + 1, n))
      BY DEF New
    <3> QED
      BY <2>1, <2>2, <3>1, AppendLast
  <2>4. Emitted = Len(msgs) /\ Emitted' = Len(msgs)
    BY <1>1, <2>1, <2>3 DEF Emitted, SegmenterDone
  <2>5. AmongFirst(Len(msgs))
    BY <2>4 DEF OneFaultInv, Sent
  <2>6. \E k \in Int : k = Len(msgs) /\ AmongFirst(k)'
    BY <1>1, <2>1, <2>3, <2>5, FaultsCount, AmongMore
  <2> QED
    BY <2>4, <2>6 DEF Sent, AmongFirst
<1> QED
  BY <1>3, <1>4

LEMMA DeliverOneFault ==
  ASSUME TypeInv, OneFaultInv, Deliver
  PROVE  OneFaultInv'
<1> SUFFICES ASSUME faults <= 1 PROVE Sent' /\ (state' = "WaitCf" => InSync')
  BY DEF Deliver, OneFaultInv
<1> DEFINE f == Frame(FALSE)
<1>a. ~SegmenterDone /\ Feed(f) /\ msgs' = msgs /\ SegInv /\ ReasmInv /\ Sent /\ faults' = faults
  BY DEF Deliver, Advance, TypeInv, OneFaultInv
<1>b. msgs # <<>> /\ faults' \in Nat /\ faults <= faults'
  BY <1>a, FaultsCount, UndoneIsSent
<1>0. /\ ~SegmenterDone /\ Feed(f) /\ msgs' = msgs /\ SegInv /\ ReasmInv /\ Sent
      /\ msgs # <<>> /\ faults' \in Nat /\ faults <= faults'
  BY <1>a, <1>b
<1>1. CASE ~emittedFirst \/ InSync
  <2>1. Completes
    BY <1>1, FirstDelivered, NextDelivered
  <2>2. CASE InSync' /\ UNCHANGED delivered
    BY <1>0, <2>2, SentKept
  <2>3. CASE SegmenterDone' /\ state' = "Idle" /\ delivered' = Append(delivered, Current)
    BY <1>0, <2>3, SentOneMore
  <2> QED
    BY <2>1, <2>2, <2>3 DEF Completes
<1>2. CASE emittedFirst /\ ~InSync
  <2>1. f.pci = "CF" /\ f.arg = nextSeq /\ f.short = FALSE
    BY <1>0, <1>2, FrameOf
  <2>2. state = "Idle" \/ f.arg # expectedSeq
    BY <1>2, <2>1 DEF OneFaultInv, OutOfStep, TypeInv, ReasmInv
  <2> HIDE DEF f
  <2>3. Reset /\ UNCHANGED <<lastRx, delivered>>
    BY <1>0, <2>1, <2>2, CfFed
  <2> QED
    BY <1>0, <2>3, SentKept DEF Reset
<1> QED
  BY <1>1, <1>2 DEF TypeInv, SegInv

(* The first fault hits a reassembler that is idle or in step.             *)
LEMMA LoseOneFault ==
  ASSUME TypeInv, OneFaultInv, Lose
  PROVE  OneFaultInv'
<1> SUFFICES ASSUME faults' <= 1 PROVE Sent' /\ (state' = "WaitCf" => OutOfStep')
  BY DEF OneFaultInv
<1>1. Advance /\ intact' = FALSE /\ UNCHANGED <<state, expectedSeq, delivered>> /\ faults' = faults + 1
  BY DEF Lose, Fault, reasmVars
<1>2. faults = 0
  BY <1>1 DEF TypeInv
<1>3. Sent' /\ (state = "WaitCf" => InSync)
  BY <1>1, <1>2, FaultsCount, SentKept DEF OneFaultInv, OutOfStep, Advance
<1>4. SegInv
  BY DEF TypeInv
<1>5. ASSUME InSync PROVE OutOfStep'
  <2>1. nextSeq' = (nextSeq + 1) % SeqMod
    BY <1>1, <1>4, <1>5, AdvanceOf DEF InSync
  <2>2. nextSeq' # nextSeq /\ nextSeq = expectedSeq
    BY <1>4, <1>5, <2>1, SeqNext DEF SegInv, InSync
  <2> QED
    BY <1>1, <1>2, <2>2 DEF OutOfStep
<1> QED
  BY <1>1, <1>3, <1>5

LEMMA TruncateOneFault ==
  ASSUME TypeInv, OneFaultInv, Truncate
  PROVE  OneFaultInv'
<1> SUFFICES ASSUME faults' <= 1 PROVE Sent' /\ (state' = "WaitCf" => OutOfStep')
  BY DEF OneFaultInv
<1> DEFINE f == Frame(TRUE)
<1>a. /\ ~SegmenterDone /\ Advance /\ Feed(f) /\ intact' = FALSE /\ faults' = faults + 1 /\ msgs' = msgs
      /\ SegInv /\ ReasmInv
  BY DEF Truncate, Advance, Fault, TypeInv
<1>b. msgs # <<>> /\ faults' \in Nat /\ faults <= faults'
  BY <1>a, FaultsCount, UndoneIsSent
<1>0. /\ ~SegmenterDone /\ Advance /\ Feed(f) /\ intact' = FALSE /\ faults' = faults + 1 /\ msgs' = msgs
      /\ SegInv /\ ReasmInv /\ msgs # <<>> /\ faults' \in Nat /\ faults <= faults'
  BY <1>a, <1>b
<1>1. faults = 0
  BY <1>0 DEF TypeInv
<1>2. Sent /\ (state = "WaitCf" => InSync)
  BY <1>1 DEF OneFaultInv, OutOfStep
<1>3. f.short = TRUE /\ Len(Current) \in 0 .. MaxMsg
  BY <1>0, FrameOf, CurrentTyped
<1>4. CASE ~emittedFirst /\ Len(Current) <= SfMax
  <2>1. f.pci = "SF" /\ f.data = Current
    BY <1>0, <1>4, FrameOf
  <2> HIDE DEF f
  <2>2. Reset /\ (UNCHANGED delivered \/ delivered' = Append(delivered, Current))
    BY <1>0, <2>1, SfFed
  <2>3. SegmenterDone'
    <3>1. offset' = Len(Current) /\ emittedFirst' = TRUE /\ Current' = Current
      BY <1>0, <1>4, AdvanceOf
    <3> QED
      BY <1>3, <3>1 DEF SegmenterDone
  <2> QED
    BY <1>0, <1>2, <2>2, <2>3, SentKept, SentOneMore DEF Reset
<1>5. CASE ~emittedFirst /\ Len(Current) > SfMax
  <2>1. f.pci = "FF"
    BY <1>0, <1>5, FrameOf
  <2> HIDE DEF f
  <2>2. Reset /\ UNCHANGED delivered
    BY <1>0, <1>3, <2>1, FfFed
  <2> QED
    BY <1>0, <1>2, <2>2, SentKept DEF Reset
<1>6. CASE emittedFirst
  <2>1. f.pci = "CF" /\ f.arg = nextSeq
    BY <1>0, <1>6, FrameOf
  <2> HIDE DEF f
  <2>2. UNCHANGED delivered /\ (Reset \/ (Keep /\ state = "WaitCf"))
    BY <1>0, <1>3, <2>1, CfFed
  <2>3. Sent'
    BY <1>0, <1>2, <2>2, SentKept
  <2>4. ASSUME Keep, state = "WaitCf" PROVE OutOfStep'
    <3>1. nextSeq' = (nextSeq + 1) % SeqMod
      BY <1>0, <1>6, AdvanceOf
    <3>2. nextSeq' # nextSeq /\ nextSeq = expectedSeq
      BY <1>0, <1>2, <2>4, <3>1, SeqNext DEF SegInv, InSync
    <3> QED
      BY <1>0, <1>1, <2>4, <3>2 DEF OutOfStep, Keep
  <2> QED
    BY <2>2, <2>3, <2>4 DEF Reset
<1> QED
  BY <1>3, <1>4, <1>5, <1>6, IsoTpAssumption DEF TypeInv, SegInv

(* A frame that comes twice: a single frame is a second message, a first   *)
(* frame starts the same reassembly again, a consecutive one has not the   *)
(* number that is expected now.                                            *)
LEMMA RepeatOneFault ==
  ASSUME TypeInv, OneFaultInv, Repeat
  PROVE  OneFaultInv'
<1> SUFFICES ASSUME faults' <= 1 PROVE Sent' /\ (state' = "WaitCf" => InSync')
  BY DEF OneFaultInv
<1>0. /\ Feed(last) /\ UNCHANGED segVars /\ faults' = faults + 1 /\ msgs # <<>> /\ emittedFirst
      /\ LastOf /\ ReasmInv /\ faults \in Nat /\ faults' \in Nat
  BY IsoTpAssumption DEF Repeat, Fault, TypeInv, SegInv
<1>1. faults = 0
  BY <1>0
<1>2. Sent /\ (state = "WaitCf" => InSync)
  BY <1>1 DEF OneFaultInv, OutOfStep
<1>3. UNCHANGED <<msgs, offset, nextSeq, emittedFirst, Current, SegmenterDone>>
  BY <1>0 DEF segVars, Current, SegmenterDone
<1>4. CASE last.pci = "SF" /\ last.data = Current /\ SegmenterDone /\ Len(Current) <= SfMax
  <2>1. Reset /\ delivered' = Append(delivered, Current)
    BY <1>0, <1>4, SfFed DEF LastOf
  <2>2. Sent'
    BY <1>0, <1>1, <1>2, <1>3, <1>4, <2>1, SentOneMore
  <2> QED
    BY <2>1, <2>2 DEF Reset
<1>5. CASE /\ last.pci = "FF" /\ last.data = SubSeq(Current, 1, FfInitial) /\ last.arg = Len(Current)
           /\ offset = FfInitial /\ nextSeq = 1
  <2>1. /\ state' = "WaitCf" /\ buffer' = last.data /\ totalLen' = last.arg /\ expectedSeq' = 1
        /\ UNCHANGED delivered
    BY <1>0, <1>5, FfFed DEF LastOf
  <2>2. Sent'
    BY <1>0, <1>2, <1>3, <2>1, SentKept
  <2>3. InSync'
    BY <1>0, <1>3, <1>5, <2>1 DEF InSync
  <2> QED
    BY <2>2, <2>3
<1>6. CASE last.pci = "CF" /\ last.arg # nextSeq
  <2>1. state = "Idle" \/ last.arg # expectedSeq
    BY <1>0, <1>2, <1>6 DEF InSync, ReasmInv
  <2>2. Reset /\ UNCHANGED delivered
    BY <1>0, <1>6, <2>1, CfFed DEF LastOf
  <2> QED
    BY <1>0, <1>2, <1>3, <2>2, SentKept DEF Reset
<1> QED
  BY <1>0, <1>4, <1>5, <1>6 DEF LastOf

LEMMA OneFaultStep == TypeInv /\ OneFaultInv /\ [Next]_vars => OneFaultInv'
<1> SUFFICES ASSUME TypeInv, OneFaultInv, [Next]_vars PROVE OneFaultInv'
  OBVIOUS
<1>1. CASE UNCHANGED vars
  BY <1>1, FaultsCount, SentKept DEF vars, segVars, reasmVars, OneFaultInv, OutOfStep, InSync, Current
<1>2. CASE FlowControl
  <2> DEFINE f == [pci |-> "FC", arg |-> 0, data |-> <<>>, short |-> FALSE]
  <2>1. Feed(f) /\ UNCHANGED segVars /\ faults' = faults + 1
    BY <1>2 DEF FlowControl, Fault
  <2>2. Reset /\ UNCHANGED delivered
    BY <2>1, FcFed DEF TypeInv
  <2> HIDE DEF f
  <2>3. faults' <= 1 => faults <= 1
    BY <2>1 DEF TypeInv
  <2> QED
    BY <2>1, <2>2, <2>3, FaultsCount, SentKept DEF OneFaultInv, Reset, segVars
<1>3. CASE Clock
  <2>1. UNCHANGED <<msgs, offset, nextSeq, emittedFirst, faults, delivered>>
    BY <1>3, ClockTypes
  <2>2. CASE Reset
    BY <2>1, <2>2, FaultsCount, SentKept DEF OneFaultInv, Reset
  <2>3. CASE UNCHANGED <<state, buffer, totalLen, expectedSeq>>
    BY <2>1, <2>3, FaultsCount, SentKept DEF OneFaultInv, OutOfStep, InSync, Current
  <2> QED
    BY <1>3, <2>2, <2>3, ClockTypes
<1> QED
  BY <1>1, <1>2, <1>3, NewOneFault, DeliverOneFault, LoseOneFault, TruncateOneFault, RepeatOneFault
  DEF Next, NewRefused, Finished

(* A single frame lost, cut, repeated or foreign never makes the           *)
(* reassembler build a message out of pieces of two, one with a hole in it *)
(* or one with a piece twice, nor deliver one after a later one; only one  *)
(* that fits a single frame may come twice (isotp.rs).                     *)
THEOREM DeliveriesAreSent == Spec => []DeliveredAreSent
<1>1. Init => OneFaultInv
  <2> SUFFICES ASSUME Init PROVE Sent
    BY DEF Init, OneFaultInv
  <2>1. Emitted = 0 /\ Len(delivered) = 0
    BY DEF Init, Emitted, SegmenterDone, Current
  <2> DEFINE f == [i \in 1 .. Len(delivered) |-> 0]
  <2>2. 1 .. Len(delivered) = {}
    BY <2>1
  <2>3. f \in [1 .. Len(delivered) -> 1 .. Emitted]
    BY <2>2
  <2>4. /\ \A i \in 1 .. Len(delivered) : delivered[i] = msgs[f[i]]
        /\ \A i, j \in 1 .. Len(delivered) : i < j =>
             \/ f[i] < f[j]
             \/ f[i] = f[j] /\ faults > 0 /\ Len(delivered[i]) <= SfMax
    BY <2>2
  <2> HIDE DEF f
  <2> QED
    BY <2>3, <2>4 DEF Sent, AmongFirst
<1>2. TypeInv /\ OneFaultInv => DeliveredAreSent
  <2> SUFFICES ASSUME TypeInv, Sent PROVE AmongFirst(Len(msgs))
    BY DEF OneFaultInv, DeliveredAreSent
  <2>1. Len(msgs) \in Nat /\ Emitted <= Len(msgs) /\ Emitted \in Int
    BY DEF TypeInv, SegInv, Emitted
  <2>2. 1 .. Emitted \subseteq 1 .. Len(msgs)
    BY <2>1
  <2> QED
    BY <2>2 DEF Sent, AmongFirst
<1> QED
  BY <1>1, <1>2, TypeInvariant, OneFaultStep, PTL DEF Spec

=============================================================================
