------------------------- MODULE DoubaoProtocolProofs -------------------------
(***************************************************************************)
(* Proofs about DoubaoProtocol: whatever bytes the server sends and        *)
(* whatever lies behind them in memory, the parser reads only the bytes it *)
(* was given; build_command fills exactly what it allocates; and what the  *)
(* server lays out is what the parser finds, field by field.               *)
(***************************************************************************)
EXTENDS DoubaoProtocol, FiniteSetTheorems, TLAPS

(* Two memories that agree on the message. *)
Memory == [Nat -> Byte]

Alike(m1, m2, len) == \A i \in 1..len : m1[i] = m2[i]

-----------------------------------------------------------------------------
(* What is read within the message is the same in both. *)

LEMMA SameWord ==
  ASSUME NEW m1 \in Memory, NEW m2 \in Memory, NEW len \in Nat, Alike(m1, m2, len),
         NEW at \in Nat, at + 4 <= len
  PROVE  WordAt(m1, at) = WordAt(m2, at)
  BY DEF WordAt, Alike

LEMMA SameSlice ==
  ASSUME NEW m1 \in Memory, NEW m2 \in Memory, NEW len \in Nat, Alike(m1, m2, len),
         NEW from \in Nat, NEW to \in Nat, to <= len
  PROVE  Slice(m1, from, to) = Slice(m2, from, to)
  <1>1. \A i \in 1..(to - from) : m1[from + i] = m2[from + i]
    BY DEF Alike
  <1>2. QED
    BY <1>1 DEF Slice

LEMMA SameHeader ==
  ASSUME NEW m1 \in Memory, NEW m2 \in Memory, NEW len \in Nat, Alike(m1, m2, len), 4 <= len
  PROVE  /\ HeaderBytes(m1) = HeaderBytes(m2) /\ HeaderBytes(m1) \in Nat
         /\ MessageType(m1) = MessageType(m2)
         /\ Flags(m1) = Flags(m2)
         /\ Serial(m1) = Serial(m2)
         /\ Compression(m1) = Compression(m2)
  <1>1. m1[1] = m2[1] /\ m1[2] = m2[2] /\ m1[3] = m2[3] /\ m1[1] \in Byte
    BY DEF Alike, Memory
  <1>2. HeaderBytes(m1) \in Nat
    BY <1>1 DEF HeaderBytes, Byte
  <1>3. QED
    BY <1>1, <1>2 DEF HeaderBytes, MessageType, Flags, Serial, Compression

LEMMA LengthsAreNatural ==
  ASSUME NEW m \in Memory, NEW at \in Nat
  PROVE  Length32(WordAt(m, at)) \in Nat
  <1>1. m[at + 1] \in Byte /\ m[at + 2] \in Byte /\ m[at + 3] \in Byte /\ m[at + 4] \in Byte
    BY DEF Memory
  <1>2. PICK w : w = WordAt(m, at)
    OBVIOUS
  <1>3. w[1] \in Byte /\ w[2] \in Byte /\ w[3] \in Byte /\ w[4] \in Byte
    BY <1>1, <1>2 DEF WordAt
  <1>4. w[1] \in Nat /\ w[2] \in Nat /\ w[3] \in Nat /\ w[4] \in Nat
    BY <1>3 DEF Byte
  <1>5. w[1] * 16777216 \in Nat /\ w[2] * 65536 \in Nat /\ w[3] * 256 \in Nat
    BY <1>4, SMT
  <1>6. w[1] * 16777216 + w[2] * 65536 + w[3] * 256 + w[4] \in Nat
    BY <1>4, <1>5, SMT
  <1>7. Length32(w) \in Nat
    BY <1>6, SMT DEF Length32
  <1>8. QED
    BY <1>2, <1>7

-----------------------------------------------------------------------------
(* The fields of a response *)

LEMMA SameEnds ==
  ASSUME NEW m1 \in Memory, NEW m2 \in Memory, NEW len \in Nat, Alike(m1, m2, len), 4 <= len
  PROVE  /\ SeqEnd(m1) = SeqEnd(m2) /\ SeqEnd(m1) \in Nat /\ EventEnd(m1) \in Nat
         /\ HeaderBytes(m1) <= SeqEnd(m1) /\ SeqEnd(m1) <= EventEnd(m1)
         /\ SeqEnd(m1) > HeaderBytes(m1) => SeqEnd(m1) = HeaderBytes(m1) + 4
         /\ EventEnd(m1) > SeqEnd(m1) => EventEnd(m1) = SeqEnd(m1) + 4
         /\ EventEnd(m1) = EventEnd(m2) /\ SidStart(m1) = SidStart(m2)
         /\ SidStart(m1) = EventEnd(m1) + 4
  <1>1. /\ HeaderBytes(m1) = HeaderBytes(m2) /\ HeaderBytes(m1) \in Nat
        /\ Flags(m1) = Flags(m2)
    BY SameHeader
  <1>2. /\ SeqEnd(m1) = SeqEnd(m2) /\ SeqEnd(m1) \in Nat /\ HeaderBytes(m1) <= SeqEnd(m1)
        /\ SeqEnd(m1) > HeaderBytes(m1) => SeqEnd(m1) = HeaderBytes(m1) + 4
    BY <1>1 DEF SeqEnd
  <1>3. /\ EventEnd(m1) = EventEnd(m2) /\ EventEnd(m1) \in Nat /\ SeqEnd(m1) <= EventEnd(m1)
        /\ EventEnd(m1) > SeqEnd(m1) => EventEnd(m1) = SeqEnd(m1) + 4
    BY <1>1, <1>2 DEF EventEnd
  <1>4. QED
    BY <1>2, <1>3 DEF SidStart

LEMMA SameLengthField ==
  ASSUME NEW m1 \in Memory, NEW m2 \in Memory, NEW len \in Nat, Alike(m1, m2, len), 4 <= len,
         SidStart(m1) <= len
  PROVE  /\ SidEnd(m1) = SidEnd(m2) /\ PayloadStart(m1) = PayloadStart(m2)
         /\ SidEnd(m1) \in Nat /\ SidStart(m1) <= SidEnd(m1)
         /\ PayloadStart(m1) = SidEnd(m1) + 4
  <1>1. /\ EventEnd(m1) \in Nat /\ EventEnd(m1) = EventEnd(m2) /\ EventEnd(m1) + 4 <= len
        /\ SidStart(m1) = EventEnd(m1) + 4 /\ SidStart(m1) = SidStart(m2)
    BY SameEnds
  <1>2. WordAt(m1, EventEnd(m1)) = WordAt(m2, EventEnd(m2))
    BY <1>1, SameWord
  <1>3. Length32(WordAt(m1, EventEnd(m1))) \in Nat
    BY <1>1, LengthsAreNatural
  <1>4. SidEnd(m1) = SidEnd(m2) /\ SidEnd(m1) \in Nat /\ SidStart(m1) <= SidEnd(m1)
    BY <1>1, <1>2, <1>3 DEF SidEnd
  <1>5. QED
    BY <1>4 DEF PayloadStart

LEMMA SameChecks ==
  ASSUME NEW m1 \in Memory, NEW m2 \in Memory, NEW len \in Nat, Alike(m1, m2, len), 4 <= len
  PROVE  FieldsInside(m1, len) <=> FieldsInside(m2, len)
  <1>1. SeqEnd(m1) = SeqEnd(m2) /\ EventEnd(m1) = EventEnd(m2) /\ SidStart(m1) = SidStart(m2)
    BY SameEnds
  <1>2. CASE SidStart(m1) <= len
    <2>1. SidEnd(m1) = SidEnd(m2) /\ PayloadStart(m1) = PayloadStart(m2)
      BY <1>2, SameLengthField
    <2>2. QED
      BY <1>1, <2>1 DEF FieldsInside
  <1>3. CASE ~(SidStart(m1) <= len)
    BY <1>1, <1>3 DEF FieldsInside
  <1>4. QED
    BY <1>2, <1>3

-----------------------------------------------------------------------------
(* The payload: l bytes after s1 in one memory, after s2 in another        *)

Copies(m1, s1, m2, s2, l) == \A i \in 1..l : m1[s1 + i] = m2[s2 + i]

LEMMA SameGzipFlags ==
  ASSUME NEW m1 \in Memory, NEW m2, NEW s1 \in Nat, NEW s2 \in Nat, NEW l \in Nat,
         Copies(m1, s1, m2, s2, l), 10 <= l
  PROVE  /\ m1[s1 + 1] = m2[s2 + 1] /\ m1[s1 + 2] = m2[s2 + 2]
         /\ GzipFlags(m1, s1) = GzipFlags(m2, s2)
  BY DEF Copies, GzipFlags

LEMMA SameExtra ==
  ASSUME NEW m1 \in Memory, NEW m2, NEW s1 \in Nat, NEW s2 \in Nat, NEW l \in Nat,
         Copies(m1, s1, m2, s2, l), 10 <= l, HasBit(GzipFlags(m1, s1), 4) => 12 <= l
  PROVE  ExtraEnd(m1, s1) = ExtraEnd(m2, s2) /\ ExtraEnd(m1, s1) \in Nat
  <1>1. GzipFlags(m1, s1) = GzipFlags(m2, s2)
    BY SameGzipFlags
  <1>2. CASE HasBit(GzipFlags(m1, s1), 4)
    <2>1. m1[s1 + 11] = m2[s2 + 11] /\ m1[s1 + 12] = m2[s2 + 12]
      BY <1>2 DEF Copies
    <2>2. m1[s1 + 11] \in Nat /\ m1[s1 + 12] \in Nat
      <3>1. s1 + 11 \in Nat /\ s1 + 12 \in Nat
        OBVIOUS
      <3>2. m1[s1 + 11] \in Byte /\ m1[s1 + 12] \in Byte
        <4> HIDE DEF Byte
        <4>1. QED
          BY <3>1 DEF Memory
      <3>3. QED
        BY <3>2 DEF Byte
    <2>3. ExtraEnd(m1, s1) = 12 + m1[s1 + 11] + 256 * m1[s1 + 12]
      BY <1>2 DEF ExtraEnd
    <2>4. ExtraEnd(m2, s2) = 12 + m1[s1 + 11] + 256 * m1[s1 + 12]
      BY <1>1, <1>2, <2>1 DEF ExtraEnd
    <2>5. QED
      BY <2>2, <2>3, <2>4
  <1>3. CASE ~HasBit(GzipFlags(m1, s1), 4)
    BY <1>1, <1>3 DEF ExtraEnd
  <1>4. QED
    BY <1>2, <1>3

Below(S, p) == {q \in S : q <= p}

(* The sets Below(S, p) are finite, and strict inclusion is well-founded   *)
(* on finite sets: the least of them belongs to the least number.          *)
LEMMA LeastOf ==
  ASSUME NEW S \in SUBSET Nat, S # {}
  PROVE \E p \in S : \A q \in S : p <= q
<1> DEFINE Belows == {Below(S, p) : p \in S}
<1>1. Belows \subseteq FiniteSubsetsOf(S) /\ Belows # {}
  <2>1. \A p \in S : IsFiniteSet(Below(S, p))
    <3> SUFFICES ASSUME NEW p \in S PROVE IsFiniteSet(Below(S, p))
      OBVIOUS
    <3>1. Below(S, p) \in SUBSET Nat /\ p \in Nat /\ \A s \in Below(S, p) : s <= p
      BY DEF Below
    <3>2. QED
      BY <3>1, FS_BoundedSetOfNaturals
  <2>2. \A p \in S : Below(S, p) \subseteq S
    BY DEF Below
  <2>3. QED
    BY <2>1, <2>2 DEF FiniteSubsetsOf
<1>2. PICK B \in Belows : \A C \in Belows : <<C, B>> \notin StrictSubsetOrdering(S)
  <2> HIDE DEF Belows
  <2>1. QED
    BY <1>1, FS_StrictSubsetOrderingWellFounded, WFMin
<1>3. PICK p \in S : B = Below(S, p)
  BY <1>2
<1>4. ASSUME NEW q \in S, q < p PROVE FALSE
  <2>1. Below(S, q) \in Belows
    OBVIOUS
  <2>2. p \in Nat /\ q \in Nat /\ q < p /\ \A x \in S : x \in Nat
    BY <1>4
  <2>3. Below(S, q) \subseteq Below(S, p)
    <3> SUFFICES ASSUME NEW x \in Below(S, q) PROVE x \in Below(S, p)
      OBVIOUS
    <3>1. x \in S /\ x <= q
      BY DEF Below
    <3>2. x \in Nat /\ x <= p
      BY <2>2, <3>1
    <3>3. QED
      BY <3>1, <3>2 DEF Below
  <2>4. p \in Below(S, p) /\ p \notin Below(S, q)
    BY <2>2 DEF Below
  <2>5. Below(S, q) \in SUBSET S /\ Below(S, p) \in SUBSET S
    BY DEF Below
  <2>6. Below(S, q) \subseteq B /\ Below(S, q) # B /\ B \in SUBSET S
    BY <1>3, <2>3, <2>4, <2>5
  <2> HIDE DEF Belows
  <2>7. <<Below(S, q), B>> \in StrictSubsetOrdering(S)
    BY <2>5, <2>6 DEF StrictSubsetOrdering
  <2>8. QED
    BY <1>2, <2>1, <2>7
<1>5. QED
  BY <1>4

LEMMA FirstIsNatural ==
  ASSUME NEW S \in SUBSET Nat, S # {}
  PROVE  First(S) \in Nat
  <1>1. \E p \in S : \A q \in S : p <= q
    BY LeastOf
  <1>2. First(S) \in S
    BY <1>1, Zenon DEF First
  <1>3. QED
    BY <1>2

LEMMA SameString ==
  ASSUME NEW m1 \in Memory, NEW m2, NEW s1 \in Nat, NEW s2 \in Nat, NEW l \in Nat,
         Copies(m1, s1, m2, s2, l), NEW at \in Nat
  PROVE  /\ StringEnd(m1, s1, l, at) = StringEnd(m2, s2, l, at)
         /\ StringEnd(m1, s1, l, at) \in Nat
  <1>1. \A p \in at..(l - 1) : m1[s1 + p + 1] = m2[s2 + p + 1]
    <2> SUFFICES ASSUME NEW p \in at..(l - 1) PROVE m1[s1 + p + 1] = m2[s2 + p + 1]
      OBVIOUS
    <2>1. p + 1 \in 1..l /\ s1 + (p + 1) = s1 + p + 1 /\ s2 + (p + 1) = s2 + p + 1
      OBVIOUS
    <2>2. m1[s1 + (p + 1)] = m2[s2 + (p + 1)]
      BY <2>1 DEF Copies
    <2>3. QED
      BY <2>1, <2>2
  <1>2. Zeros(m1, s1, l, at) = Zeros(m2, s2, l, at)
    BY <1>1 DEF Zeros
  <1>3. Zeros(m1, s1, l, at) \in SUBSET Nat
    BY DEF Zeros
  <1>4. Zeros(m1, s1, l, at) # {} => First(Zeros(m1, s1, l, at)) \in Nat
    BY <1>3, FirstIsNatural
  <1>5. QED
    BY <1>2, <1>4 DEF StringEnd

LEMMA SameStart ==
  ASSUME NEW m1 \in Memory, NEW m2, NEW s1 \in Nat, NEW s2 \in Nat, NEW l \in Nat,
         Copies(m1, s1, m2, s2, l), 10 <= l, HasBit(GzipFlags(m1, s1), 4) => 12 <= l
  PROVE  DeflateStart(m1, s1, l) = DeflateStart(m2, s2, l) /\ DeflateStart(m1, s1, l) \in Nat
  <1>1. GzipFlags(m1, s1) = GzipFlags(m2, s2)
    BY SameGzipFlags
  <1>2. ExtraEnd(m1, s1) = ExtraEnd(m2, s2) /\ ExtraEnd(m1, s1) \in Nat
    BY SameExtra
  <1>3. /\ StringEnd(m1, s1, l, ExtraEnd(m1, s1)) = StringEnd(m2, s2, l, ExtraEnd(m1, s1))
        /\ StringEnd(m1, s1, l, ExtraEnd(m1, s1)) \in Nat
    BY <1>2, SameString
  <1>4. NameEnd(m1, s1, l) = NameEnd(m2, s2, l) /\ NameEnd(m1, s1, l) \in Nat
    BY <1>1, <1>2, <1>3 DEF NameEnd
  <1>5. /\ StringEnd(m1, s1, l, NameEnd(m1, s1, l)) = StringEnd(m2, s2, l, NameEnd(m1, s1, l))
        /\ StringEnd(m1, s1, l, NameEnd(m1, s1, l)) \in Nat
    BY <1>4, SameString
  <1>6. CommentEnd(m1, s1, l) = CommentEnd(m2, s2, l) /\ CommentEnd(m1, s1, l) \in Nat
    BY <1>1, <1>4, <1>5 DEF CommentEnd
  <1>7. QED
    BY <1>1, <1>6 DEF DeflateStart

LEMMA CopiedSlice ==
  ASSUME NEW m1 \in Memory, NEW m2, NEW s1 \in Nat, NEW s2 \in Nat, NEW l \in Nat,
         Copies(m1, s1, m2, s2, l), NEW from \in Nat, NEW to \in Nat, to <= l,
         NEW start1, start1 = s1 + from, NEW end1, end1 = s1 + to,
         NEW start2, start2 = s2 + from, NEW end2, end2 = s2 + to
  PROVE  Slice(m1, start1, end1) = Slice(m2, start2, end2)
  <1>1. end1 - start1 = to - from /\ end2 - start2 = to - from
    OBVIOUS
  <1>2. \A i \in 1..(to - from) : m1[start1 + i] = m2[start2 + i]
    <2> SUFFICES ASSUME NEW i \in 1..(to - from) PROVE m1[start1 + i] = m2[start2 + i]
      OBVIOUS
    <2>1. /\ from + i \in 1..l
          /\ s1 + (from + i) = start1 + i /\ s2 + (from + i) = start2 + i
      OBVIOUS
    <2>2. m1[s1 + (from + i)] = m2[s2 + (from + i)]
      BY <2>1 DEF Copies
    <2>3. QED
      BY <2>1, <2>2
  <1>3. QED
    BY <1>1, <1>2 DEF Slice

(* What a block inflates to does not depend on where it lies. *)
LEMMA SameInflated ==
  ASSUME NEW m1 \in Memory, NEW m2, NEW s1 \in Nat, NEW s2 \in Nat, NEW l \in Nat,
         Copies(m1, s1, m2, s2, l)
  PROVE  GzipDecompress(m1, s1, l) = GzipDecompress(m2, s2, l)
  <1>1. CASE ~(10 <= l)
    BY <1>1 DEF GzipDecompress, IsGzip
  <1>2. CASE 10 <= l /\ HasBit(GzipFlags(m1, s1), 4) /\ ~(12 <= l)
    <2>1. GzipFlags(m1, s1) = GzipFlags(m2, s2)
      BY <1>2, SameGzipFlags
    <2>2. ~IsGzip(m1, s1, l) /\ ~IsGzip(m2, s2, l)
      BY <1>2, <2>1 DEF IsGzip
    <2>3. QED
      BY <2>2 DEF GzipDecompress
  <1>3. CASE 10 <= l /\ (HasBit(GzipFlags(m1, s1), 4) => 12 <= l)
    <2>1. /\ m1[s1 + 1] = m2[s2 + 1] /\ m1[s1 + 2] = m2[s2 + 2]
          /\ GzipFlags(m1, s1) = GzipFlags(m2, s2)
      BY <1>3, SameGzipFlags
    <2>2. DeflateStart(m1, s1, l) = DeflateStart(m2, s2, l) /\ DeflateStart(m1, s1, l) \in Nat
      BY <1>3, SameStart
    <2>3. IsGzip(m1, s1, l) <=> IsGzip(m2, s2, l)
      BY <2>1, <2>2 DEF IsGzip
    <2>4. /\ DeflateEnd(m1, s1, l) = DeflateEnd(m2, s2, l)
          /\ DeflateEnd(m1, s1, l) \in Nat /\ DeflateEnd(m1, s1, l) <= l
      BY <1>3, <2>2 DEF DeflateEnd
    <2>5. Slice(m1, s1 + DeflateStart(m1, s1, l), s1 + DeflateEnd(m1, s1, l))
            = Slice(m2, s2 + DeflateStart(m2, s2, l), s2 + DeflateEnd(m2, s2, l))
      <3>1. PICK from \in Nat : from = DeflateStart(m1, s1, l)
        BY <2>2
      <3>2. PICK to \in Nat : to = DeflateEnd(m1, s1, l)
        BY <2>4
      <3>3. to <= l /\ from = DeflateStart(m2, s2, l) /\ to = DeflateEnd(m2, s2, l)
        BY <2>2, <2>4, <3>1, <3>2
      <3>4. Slice(m1, s1 + from, s1 + to) = Slice(m2, s2 + from, s2 + to)
        BY <3>3, CopiedSlice
      <3>5. QED
        BY <3>1, <3>2, <3>3, <3>4
    <2>6. QED
      BY <2>3, <2>5 DEF GzipDecompress
  <1>4. QED
    BY <1>1, <1>2, <1>3

LEMMA SamePayload ==
  ASSUME NEW m1 \in Memory, NEW m2 \in Memory, NEW len \in Nat, Alike(m1, m2, len), 4 <= len,
         NEW start \in Nat, start <= len
  PROVE  PayloadAt(m1, start, len) = PayloadAt(m2, start, len)
  <1>1. Compression(m1) = Compression(m2)
    BY SameHeader
  <1>2. GzipDecompress(m1, start, len - start) = GzipDecompress(m2, start, len - start)
    <2>1. len - start \in Nat
      OBVIOUS
    <2>2. Copies(m1, start, m2, start, len - start)
      <3> SUFFICES ASSUME NEW i \in 1..(len - start) PROVE m1[start + i] = m2[start + i]
        BY DEF Copies
      <3>1. start + i \in 1..len
        BY <2>1
      <3>2. QED
        BY <3>1 DEF Alike
    <2>3. QED
      BY <2>1, <2>2, SameInflated
  <1>3. Slice(m1, start, len) = Slice(m2, start, len)
    BY SameSlice
  <1>4. QED
    BY <1>1, <1>2, <1>3 DEF PayloadAt

-----------------------------------------------------------------------------
(* protocol_parse_response *)

LEMMA SameFields ==
  ASSUME NEW m1 \in Memory, NEW m2 \in Memory, NEW len \in Nat, Alike(m1, m2, len), 4 <= len
  PROVE  ParseFields(m1, len) = ParseFields(m2, len)
  <1>1. FieldsInside(m1, len) <=> FieldsInside(m2, len)
    BY SameChecks
  <1>2. CASE ~FieldsInside(m1, len)
    BY <1>1, <1>2 DEF ParseFields
  <1>3. CASE FieldsInside(m1, len)
    <2>1. SidStart(m1) <= len /\ SidEnd(m1) <= len /\ PayloadStart(m1) <= len
      BY <1>3 DEF FieldsInside
    <2>2. /\ HeaderBytes(m1) = HeaderBytes(m2) /\ HeaderBytes(m1) \in Nat
          /\ MessageType(m1) = MessageType(m2) /\ Serial(m1) = Serial(m2)
      BY SameHeader
    <2>3. /\ SeqEnd(m1) = SeqEnd(m2) /\ SeqEnd(m1) \in Nat /\ EventEnd(m1) \in Nat
          /\ SeqEnd(m1) <= EventEnd(m1)
          /\ SeqEnd(m1) > HeaderBytes(m1) => SeqEnd(m1) = HeaderBytes(m1) + 4
          /\ EventEnd(m1) > SeqEnd(m1) => EventEnd(m1) = SeqEnd(m1) + 4
          /\ EventEnd(m1) = EventEnd(m2) /\ SidStart(m1) = SidStart(m2)
          /\ SidStart(m1) = EventEnd(m1) + 4
      BY SameEnds
    <2>4. /\ SidEnd(m1) = SidEnd(m2) /\ PayloadStart(m1) = PayloadStart(m2)
          /\ SidEnd(m1) \in Nat /\ SidStart(m1) <= SidEnd(m1)
          /\ PayloadStart(m1) = SidEnd(m1) + 4
      BY <2>1, SameLengthField
    <2>5. SeqEnd(m1) > HeaderBytes(m1)
            => WordAt(m1, HeaderBytes(m1)) = WordAt(m2, HeaderBytes(m1))
      <3>1. SeqEnd(m1) > HeaderBytes(m1) => HeaderBytes(m1) + 4 <= len
        BY <2>1, <2>2, <2>3
      <3>2. QED
        BY <2>2, <3>1, SameWord
    <2>6. EventEnd(m1) > SeqEnd(m1) => WordAt(m1, SeqEnd(m1)) = WordAt(m2, SeqEnd(m1))
      <3>1. EventEnd(m1) > SeqEnd(m1) => SeqEnd(m1) + 4 <= len
        BY <2>1, <2>3
      <3>2. QED
        BY <2>3, <3>1, SameWord
    <2>7. WordAt(m1, SidEnd(m1)) = WordAt(m2, SidEnd(m1))
      BY <2>1, <2>4, SameWord
    <2>8. Sid(m1) = Sid(m2)
      <3> DEFINE to == Shorter(SidEnd(m1), SidStart(m1) + SESSION_ID_ROOM)
      <3>1. to \in Nat /\ to <= len /\ SidStart(m1) \in Nat
        BY <2>1, <2>3, <2>4 DEF Shorter, SESSION_ID_ROOM
      <3> HIDE DEF to
      <3>2. Slice(m1, SidStart(m1), to) = Slice(m2, SidStart(m1), to)
        BY <3>1, SameSlice
      <3>3. QED
        BY <2>3, <2>4, <3>2 DEF Sid, to
    <2>9. PayloadAt(m1, PayloadStart(m1), len) = PayloadAt(m2, PayloadStart(m1), len)
      BY <2>1, <2>4, SamePayload
    <2>10. QED
      BY <1>1, <2>2, <2>3, <2>4, <2>5, <2>6, <2>7, <2>8, <2>9 DEF ParseFields
  <1>4. QED
    BY <1>2, <1>3

LEMMA SameError ==
  ASSUME NEW m1 \in Memory, NEW m2 \in Memory, NEW len \in Nat, Alike(m1, m2, len), 4 <= len
  PROVE  ParseError(m1, len) = ParseError(m2, len)
  <1>1. HeaderBytes(m1) = HeaderBytes(m2) /\ HeaderBytes(m1) \in Nat
    BY SameHeader
  <1>2. CASE HeaderBytes(m1) + 8 > len
    BY <1>1, <1>2 DEF ParseError
  <1>3. CASE HeaderBytes(m1) + 8 <= len
    <2>1. WordAt(m1, HeaderBytes(m1)) = WordAt(m2, HeaderBytes(m1))
      BY <1>1, <1>3, SameWord
    <2>2. PayloadAt(m1, HeaderBytes(m1) + 8, len) = PayloadAt(m2, HeaderBytes(m1) + 8, len)
      BY <1>1, <1>3, SamePayload
    <2>3. QED
      BY <1>1, <2>1, <2>2 DEF ParseError
  <1>4. QED
    BY <1>1, <1>2, <1>3

(* What protocol_parse_response returns is decided by the bytes it was     *)
(* given: whatever the lengths in the message say, and however the message *)
(* was cut, it looks at nothing behind its end.                            *)
THEOREM ParserReadsItsBlockOnly ==
  ASSUME NEW m1 \in Memory, NEW m2 \in Memory, NEW len \in Nat, Alike(m1, m2, len)
  PROVE  ParseResponse(m1, len) = ParseResponse(m2, len)
  <1>1. CASE len < 4
    BY <1>1 DEF ParseResponse
  <1>2. CASE 4 <= len
    <2>1. HeaderBytes(m1) = HeaderBytes(m2) /\ MessageType(m1) = MessageType(m2)
      BY <1>2, SameHeader
    <2>2. ParseFields(m1, len) = ParseFields(m2, len) /\ ParseError(m1, len) = ParseError(m2, len)
      BY <1>2, SameFields, SameError
    <2>3. QED
      BY <2>1, <2>2 DEF ParseResponse
  <1>3. QED
    BY <1>1, <1>2

LEMMA Joined ==
  ASSUME NEW a \in Seq(Byte), NEW b \in Seq(Byte)
  PROVE  a \o b \in Seq(Byte) /\ Len(a \o b) = Len(a) + Len(b) /\ Len(b) \in Nat
  OBVIOUS

LEMMA FourBytes ==
  ASSUME NEW S, NEW a \in S, NEW b \in S, NEW c \in S, NEW d \in S
  PROVE  <<a, b, c, d>> \in Seq(S) /\ Len(<<a, b, c, d>>) = 4
  OBVIOUS

LEMMA BigEndian ==
  ASSUME NEW n \in Nat
  PROVE  U32(n) \in Seq(Byte) /\ Len(U32(n)) = 4
  <1>1. \A k \in Nat : k % 256 \in Byte
    BY DEF Byte
  <1>2. (n \div 16777216) \in Nat /\ (n \div 65536) \in Nat /\ (n \div 256) \in Nat
    BY SMT
  <1>3. QED
    BY <1>1, <1>2, FourBytes, SMT DEF U32

(* build_command writes as many bytes as it allocates, for every session   *)
(* id and payload.                                                         *)
THEOREM CommandsFit ==
  ASSUME NEW type \in 0..15, NEW flags \in 0..15, NEW serial \in 0..15, NEW cmd \in Nat,
         NEW session \in Seq(Byte), NEW payload \in Seq(Byte), NEW include \in BOOLEAN
  PROVE  Len(BuildCommand(type, flags, serial, cmd, session, payload, include))
           = CommandSize(session, payload, include)
  <1> DEFINE header == GenerateHeader(type, flags, serial, 0)
             id == IF include THEN U32(Len(session)) \o session ELSE <<>>
             size == U32(Len(payload))
             command == U32(cmd)
  <1>1. header \in Seq(Byte) /\ Len(header) = 4
    <2>1. 17 \in Byte /\ type * 16 + flags \in Byte /\ serial * 16 + 0 \in Byte /\ 0 \in Byte
      BY DEF Byte
    <2>2. QED
      BY <2>1, FourBytes DEF GenerateHeader
  <1>2. Len(session) \in Nat /\ Len(payload) \in Nat
    OBVIOUS
  <1>3. id \in Seq(Byte) /\ Len(id) = IF include THEN 4 + Len(session) ELSE 0
    <2>1. CASE include
      <3> DEFINE word == U32(Len(session))
      <3>1. word \in Seq(Byte) /\ Len(word) = 4
        BY <1>2, BigEndian
      <3> HIDE DEF word
      <3>2. word \o session \in Seq(Byte) /\ Len(word \o session) = 4 + Len(session)
        BY <3>1, Joined
      <3>3. QED
        BY <2>1, <3>2 DEF word
    <2>2. CASE ~include
      BY <2>2
    <2>3. QED
      BY <2>1, <2>2
  <1>4. command \in Seq(Byte) /\ Len(command) = 4
    BY BigEndian
  <1>5. size \in Seq(Byte) /\ Len(size) = 4
    BY <1>2, BigEndian
  <1>6. BuildCommand(type, flags, serial, cmd, session, payload, include)
          = header \o command \o id \o size \o payload
    BY DEF BuildCommand
  <1> HIDE DEF header, id, size, command
  <1>7. header \o command \in Seq(Byte) /\ Len(header \o command) = 8
    <2>1. header \o command \in Seq(Byte) /\ Len(header \o command) = Len(header) + Len(command)
      BY <1>1, <1>4, Joined
    <2>2. QED
      BY <1>1, <1>4, <2>1
  <1>8. /\ header \o command \o id \in Seq(Byte)
        /\ Len(header \o command \o id) = 8 + Len(id)
    BY <1>3, <1>7, Joined
  <1>9. /\ header \o command \o id \o size \in Seq(Byte)
        /\ Len(header \o command \o id \o size) = 8 + Len(id) + 4
    BY <1>5, <1>8, Joined
  <1>10. Len(header \o command \o id \o size \o payload) = 8 + Len(id) + 4 + Len(payload)
    BY <1>9, Joined
  <1>11. QED
    BY <1>2, <1>3, <1>6, <1>10 DEF CommandSize

-----------------------------------------------------------------------------
(* What the server lays out is what the parser finds *)

(* The bytes of s lie in the memory behind position at. *)
Holds(m, at, s) == \A i \in 1..Len(s) : m[at + i] = s[i]

LEMMA HoldsParts ==
  ASSUME NEW m, NEW at \in Nat, NEW s \in Seq(Byte), NEW t \in Seq(Byte),
         Holds(m, at, s \o t)
  PROVE  Holds(m, at, s) /\ Holds(m, at + Len(s), t)
  <1> DEFINE joined == s \o t
  <1>1. Len(s) \in Nat /\ Len(t) \in Nat /\ Len(joined) = Len(s) + Len(t)
    OBVIOUS
  <1>2. \A i \in 1..Len(s) : joined[i] = s[i]
    OBVIOUS
  <1>3. \A i \in 1..Len(t) : joined[Len(s) + i] = t[i]
    OBVIOUS
  <1>4. \A i \in 1..Len(joined) : m[at + i] = joined[i]
    BY DEF Holds
  <1> HIDE DEF joined
  <1>5. \A i \in 1..Len(s) : m[at + i] = s[i]
    BY <1>1, <1>2, <1>4
  <1>6. ASSUME NEW i \in 1..Len(t) PROVE m[(at + Len(s)) + i] = t[i]
    <2>1. Len(s) + i \in 1..Len(joined) /\ at + (Len(s) + i) = (at + Len(s)) + i
      BY <1>1
    <2>2. m[at + (Len(s) + i)] = joined[Len(s) + i]
      BY <1>4, <2>1
    <2>3. QED
      BY <1>3, <2>1, <2>2
  <1>7. QED
    BY <1>5, <1>6 DEF Holds

LEMMA WordsAreBytes ==
  ASSUME NEW w \in Word
  PROVE  /\ w \in Seq(Byte) /\ Len(w) = 4
         /\ w = <<w[1], w[2], w[3], w[4]>>
  <1>1. PICK a \in Byte, b \in Byte, c \in Byte, d \in Byte : w = <<a, b, c, d>>
    BY DEF Word
  <1>2. QED
    BY <1>1, FourBytes

LEMMA WordHeld ==
  ASSUME NEW m, NEW at \in Nat, NEW w \in Word, Holds(m, at, w)
  PROVE  WordAt(m, at) = w
  <1>1. Len(w) = 4 /\ w = <<w[1], w[2], w[3], w[4]>>
    BY WordsAreBytes
  <1>2. \A i \in 1..4 : m[at + i] = w[i]
    BY <1>1 DEF Holds
  <1>3. m[at + 1] = w[1] /\ m[at + 2] = w[2] /\ m[at + 3] = w[3] /\ m[at + 4] = w[4]
    BY <1>2
  <1>4. QED
    BY <1>1, <1>3 DEF WordAt

LEMMA SliceHeld ==
  ASSUME NEW m, NEW at \in Nat, NEW s \in Seq(Byte), Holds(m, at, s)
  PROVE  Slice(m, at, at + Len(s)) = s
  <1>1. Len(s) \in Nat /\ (at + Len(s)) - at = Len(s)
    OBVIOUS
  <1>2. \A i \in 1..Len(s) : m[at + i] = s[i]
    BY DEF Holds
  <1>3. s = [i \in 1..Len(s) |-> s[i]]
    OBVIOUS
  <1>4. QED
    BY <1>1, <1>2, <1>3 DEF Slice

(* write_u32_be, and what the parser reads of it. *)
LEMMA U32IsWord ==
  ASSUME NEW n \in Nat
  PROVE  U32(n) \in Word
  <1>1. \A k \in Nat : k % 256 \in Byte
    BY DEF Byte
  <1>2. (n \div 16777216) \in Nat /\ (n \div 65536) \in Nat /\ (n \div 256) \in Nat
    BY SMT
  <1>3. QED
    BY <1>1, <1>2 DEF U32, Word

LEMMA ShortLength ==
  ASSUME NEW n \in Nat, n <= SESSION_ID_ROOM
  PROVE  Length32(U32(n)) = n
  <1>1. n \in Nat /\ n <= 127
    BY DEF SESSION_ID_ROOM
  <1>2. /\ (n \div 16777216) % 256 = 0 /\ (n \div 65536) % 256 = 0
        /\ (n \div 256) % 256 = 0 /\ n % 256 = n
    BY <1>1, SMT
  <1>3. U32(n) = <<0, 0, 0, n>>
    BY <1>2 DEF U32
  <1>4. QED
    BY <1>1, <1>3 DEF Length32

LEMMA SomethingHasALength ==
  ASSUME NEW n \in Nat, n <= INT32_MAX
  PROVE  U32(n) = <<0, 0, 0, 0>> <=> n = 0
  <1>1. CASE n = 0
    <2>1. (0 \div 16777216) % 256 = 0 /\ (0 \div 65536) % 256 = 0 /\ (0 \div 256) % 256 = 0
          /\ 0 % 256 = 0
      BY SMT
    <2>2. QED
      BY <1>1, <2>1 DEF U32
  <1>2. CASE n # 0
    <2> SUFFICES ASSUME U32(n) = <<0, 0, 0, 0>> PROVE FALSE
      BY <1>2
    <2>1. /\ (n \div 16777216) % 256 = 0 /\ (n \div 65536) % 256 = 0
          /\ (n \div 256) % 256 = 0 /\ n % 256 = 0
      BY DEF U32
    <2>2. n \div 16777216 = 0
      BY <2>1, SMT DEF INT32_MAX
    <2>3. n < 16777216
      BY <2>2, SMT
    <2>4. n \div 65536 = 0
      BY <2>1, <2>3, SMT
    <2>5. n < 65536
      BY <2>4, SMT
    <2>6. n \div 256 = 0
      BY <2>1, <2>5, SMT
    <2>7. n < 256
      BY <2>6, SMT
    <2>8. QED
      BY <1>2, <2>1, <2>7, SMT
  <1>3. QED
    BY <1>1, <1>2

LEMMA HeaderHeld ==
  ASSUME NEW m, NEW type \in 0..15, NEW flags \in 0..15, NEW serial \in 0..15,
         NEW compression \in 0..15,
         Holds(m, 0, GenerateHeader(type, flags, serial, compression))
  PROVE  /\ HeaderBytes(m) = 4 /\ MessageType(m) = type /\ Flags(m) = flags
         /\ Serial(m) = serial /\ Compression(m) = compression
  <1> DEFINE header == GenerateHeader(type, flags, serial, compression)
  <1>1. /\ Len(header) = 4 /\ header[1] = 17 /\ header[2] = type * 16 + flags
        /\ header[3] = serial * 16 + compression
    BY DEF GenerateHeader
  <1>2. \A i \in 1..4 : m[0 + i] = header[i]
    BY <1>1 DEF Holds
  <1> HIDE DEF header
  <1>3. m[1] = 17 /\ m[2] = type * 16 + flags /\ m[3] = serial * 16 + compression
    <2>1. 1 \in 1..4 /\ 2 \in 1..4 /\ 3 \in 1..4 /\ 0 + 1 = 1 /\ 0 + 2 = 2 /\ 0 + 3 = 3
      OBVIOUS
    <2>2. QED
      BY <1>1, <1>2, <2>1
  <1>4. /\ (17 % 16) * 4 = 4
        /\ (type * 16 + flags) \div 16 = type /\ (type * 16 + flags) % 16 = flags
        /\ (serial * 16 + compression) \div 16 = serial
        /\ (serial * 16 + compression) % 16 = compression
    BY SMT
  <1>5. QED
    BY <1>3, <1>4 DEF HeaderBytes, MessageType, Flags, Serial, Compression

LEMMA HeaderIsBytes ==
  ASSUME NEW type \in 0..15, NEW flags \in 0..15, NEW serial \in 0..15,
         NEW compression \in 0..15
  PROVE  /\ GenerateHeader(type, flags, serial, compression) \in Seq(Byte)
         /\ Len(GenerateHeader(type, flags, serial, compression)) = 4
  <1>1. /\ 17 \in Byte /\ type * 16 + flags \in Byte /\ serial * 16 + compression \in Byte
        /\ 0 \in Byte
    BY DEF Byte
  <1>2. QED
    BY <1>1, FourBytes DEF GenerateHeader

(* The two bits of the flags nibble tell which fields are there. *)
LEMMA FlagsTell ==
  ASSUME NEW msg
  PROVE  /\ ServerFlags(msg) \in 0..15
         /\ HasBit(ServerFlags(msg), FLAG_NEG_SEQUENCE) <=> msg.seq # <<>>
         /\ HasBit(ServerFlags(msg), FLAG_MSG_WITH_EVENT) <=> msg.event # <<>>
  <1>1. ServerFlags(msg) = IF msg.seq = <<>> THEN (IF msg.event = <<>> THEN 0 ELSE 4)
                           ELSE (IF msg.event = <<>> THEN 2 ELSE 6)
    BY DEF ServerFlags, FLAG_NEG_SEQUENCE, FLAG_MSG_WITH_EVENT
  <1>2. /\ (0 \div 2) % 2 = 0 /\ (2 \div 2) % 2 = 1 /\ (4 \div 2) % 2 = 0 /\ (6 \div 2) % 2 = 1
        /\ (0 \div 4) % 2 = 0 /\ (2 \div 4) % 2 = 0 /\ (4 \div 4) % 2 = 1 /\ (6 \div 4) % 2 = 1
    BY SMT
  <1>3. QED
    BY <1>1, <1>2 DEF HasBit, FLAG_NEG_SEQUENCE, FLAG_MSG_WITH_EVENT

(* The payload is what the body carries, wherever the body lies. *)
LEMMA PayloadHeld ==
  ASSUME NEW m \in Memory, NEW compression \in 0..15, Compression(m) = compression,
         NEW body, NEW payload, Carries(body, compression, payload),
         NEW at \in Nat, Holds(m, at, body), body # <<>>
  PROVE  PayloadAt(m, at, at + Len(body)) = payload
  <1>1. /\ body \in Seq(Byte) /\ Len(body) \in Nat
        /\ payload = IF compression = COMPRESS_GZIP THEN GzipDecompress(body, 0, Len(body)) ELSE body
    BY DEF Carries
  <1>2. (at + Len(body)) - at = Len(body)
    BY <1>1
  <1>3. Slice(m, at, at + Len(body)) = body
    BY <1>1, SliceHeld
  <1>4. GzipDecompress(m, at, Len(body)) = GzipDecompress(body, 0, Len(body))
    <2>1. Copies(m, at, body, 0, Len(body))
      BY DEF Copies, Holds
    <2>2. QED
      BY <1>1, <2>1, SameInflated
  <1>5. QED
    BY <1>1, <1>2, <1>3, <1>4 DEF PayloadAt

(* A response of the server, with any of the optional fields, any session  *)
(* id the structure has room for and any payload.                          *)
LEMMA ResponseUnderstood ==
  ASSUME NEW msg, IsResponse(msg), NEW body, NEW compression,
         Carries(body, compression, msg.payload),
         NEW m \in Memory, Holds(m, 0, ServerMessage(msg, body, compression))
  PROVE  ParseResponse(m, Len(ServerMessage(msg, body, compression))) = Meaning(msg)
  <1> DEFINE header  == GenerateHeader(msg.type, ServerFlags(msg), msg.serial, compression)
             sidSize == U32(Len(msg.sid))
             size    == U32(Len(body))
             upToSeq     == header \o msg.seq
             upToEvent   == upToSeq \o msg.event
             upToSidSize == upToEvent \o sidSize
             upToSid     == upToSidSize \o msg.sid
             upToSize    == upToSid \o size
             whole       == upToSize \o body
  <1>1. /\ msg.type \in {9, 11} /\ msg.type \in 0..15 /\ msg.serial \in 0..15
        /\ compression \in 0..15 /\ ServerFlags(msg) \in 0..15
    BY FlagsTell DEF IsResponse, Carries, FULL_RESPONSE, ACK
  <1>2. /\ msg.sid \in Seq(Byte) /\ Len(msg.sid) \in Nat
        /\ body \in Seq(Byte) /\ Len(body) \in Nat
    <2>1. msg.sid \in Seq(Byte) /\ body \in Seq(Byte)
      BY DEF IsResponse, Carries
    <2>2. QED
      BY <2>1
  <1>3. header \in Seq(Byte) /\ Len(header) = 4
    BY <1>1, HeaderIsBytes
  <1>4. /\ msg.seq \in Seq(Byte) /\ Len(msg.seq) = IF msg.seq = <<>> THEN 0 ELSE 4
        /\ msg.event \in Seq(Byte) /\ Len(msg.event) = IF msg.event = <<>> THEN 0 ELSE 4
    <2>1. \A f \in Word \cup {<<>>} : f \in Seq(Byte) /\ Len(f) = IF f = <<>> THEN 0 ELSE 4
      <3> SUFFICES ASSUME NEW f \in Word \cup {<<>>}
                   PROVE  f \in Seq(Byte) /\ Len(f) = IF f = <<>> THEN 0 ELSE 4
        OBVIOUS
      <3>1. CASE f = <<>>
        BY <3>1
      <3>2. CASE f # <<>>
        <4>1. f \in Seq(Byte) /\ Len(f) = 4
          BY <3>2, WordsAreBytes
        <4>2. QED
          BY <3>2, <4>1
      <3>3. QED
        BY <3>1, <3>2
    <2>2. QED
      BY <2>1 DEF IsResponse
  <1>5. /\ sidSize \in Word /\ sidSize \in Seq(Byte) /\ Len(sidSize) = 4
        /\ size \in Word /\ size \in Seq(Byte) /\ Len(size) = 4
    BY <1>2, U32IsWord, BigEndian
  <1>6. ServerMessage(msg, body, compression) = whole
    BY DEF ServerMessage
  <1>7. Len(msg.sid) <= SESSION_ID_ROOM /\ Length32(sidSize) = Len(msg.sid)
    BY <1>2, ShortLength DEF IsResponse
  <1>8. size = <<0, 0, 0, 0>> <=> body = <<>>
    <2>1. size = <<0, 0, 0, 0>> <=> Len(body) = 0
      BY <1>2, SomethingHasALength DEF Carries
    <2>2. QED
      BY <1>2, <2>1
  <1> HIDE DEF header, sidSize, size
  <1>9. upToSeq \in Seq(Byte) /\ Len(upToSeq) = 4 + Len(msg.seq)
    BY <1>3, <1>4, Joined
  <1> HIDE DEF upToSeq
  <1>10. upToEvent \in Seq(Byte) /\ Len(upToEvent) = Len(upToSeq) + Len(msg.event)
    BY <1>4, <1>9, Joined
  <1> HIDE DEF upToEvent
  <1>11. upToSidSize \in Seq(Byte) /\ Len(upToSidSize) = Len(upToEvent) + 4
    <2>1. upToSidSize \in Seq(Byte) /\ Len(upToSidSize) = Len(upToEvent) + Len(sidSize)
      BY <1>5, <1>10, Joined
    <2>2. QED
      BY <1>5, <2>1
  <1> HIDE DEF upToSidSize
  <1>12. upToSid \in Seq(Byte) /\ Len(upToSid) = Len(upToSidSize) + Len(msg.sid)
    BY <1>2, <1>11, Joined
  <1> HIDE DEF upToSid
  <1>13. upToSize \in Seq(Byte) /\ Len(upToSize) = Len(upToSid) + 4
    <2>1. upToSize \in Seq(Byte) /\ Len(upToSize) = Len(upToSid) + Len(size)
      BY <1>5, <1>12, Joined
    <2>2. QED
      BY <1>5, <2>1
  <1> HIDE DEF upToSize
  <1>14. Len(whole) = Len(upToSize) + Len(body)
    BY <1>2, <1>13, Joined
  <1>15. Holds(m, 0, upToSize) /\ Holds(m, Len(upToSize), body)
    <2>1. Holds(m, 0, upToSize \o body)
      BY <1>6
    <2>2. Holds(m, 0, upToSize) /\ Holds(m, 0 + Len(upToSize), body)
      BY <1>2, <1>13, <2>1, HoldsParts
    <2>3. 0 + Len(upToSize) = Len(upToSize)
      BY <1>13
    <2>4. QED
      BY <2>2, <2>3
  <1> HIDE DEF whole
  <1>16. Holds(m, 0, upToSid) /\ Holds(m, Len(upToSid), size)
    <2>1. Holds(m, 0, upToSid \o size)
      BY <1>15 DEF upToSize
    <2>2. Holds(m, 0, upToSid) /\ Holds(m, 0 + Len(upToSid), size)
      BY <1>5, <1>12, <2>1, HoldsParts
    <2>3. 0 + Len(upToSid) = Len(upToSid)
      BY <1>12
    <2>4. QED
      BY <2>2, <2>3
  <1>17. Holds(m, 0, upToSidSize) /\ Holds(m, Len(upToSidSize), msg.sid)
    <2>1. Holds(m, 0, upToSidSize \o msg.sid)
      BY <1>16 DEF upToSid
    <2>2. Holds(m, 0, upToSidSize) /\ Holds(m, 0 + Len(upToSidSize), msg.sid)
      BY <1>2, <1>11, <2>1, HoldsParts
    <2>3. 0 + Len(upToSidSize) = Len(upToSidSize)
      BY <1>11
    <2>4. QED
      BY <2>2, <2>3
  <1>18. Holds(m, 0, upToEvent) /\ Holds(m, Len(upToEvent), sidSize)
    <2>1. Holds(m, 0, upToEvent \o sidSize)
      BY <1>17 DEF upToSidSize
    <2>2. Holds(m, 0, upToEvent) /\ Holds(m, 0 + Len(upToEvent), sidSize)
      BY <1>5, <1>10, <2>1, HoldsParts
    <2>3. 0 + Len(upToEvent) = Len(upToEvent)
      BY <1>10
    <2>4. QED
      BY <2>2, <2>3
  <1>19. Holds(m, 0, upToSeq) /\ Holds(m, Len(upToSeq), msg.event)
    <2>1. Holds(m, 0, upToSeq \o msg.event)
      BY <1>18 DEF upToEvent
    <2>2. Holds(m, 0, upToSeq) /\ Holds(m, 0 + Len(upToSeq), msg.event)
      BY <1>4, <1>9, <2>1, HoldsParts
    <2>3. 0 + Len(upToSeq) = Len(upToSeq)
      BY <1>9
    <2>4. QED
      BY <2>2, <2>3
  <1>20. Holds(m, 0, header) /\ Holds(m, 4, msg.seq)
    <2>1. Holds(m, 0, header \o msg.seq)
      BY <1>19 DEF upToSeq
    <2>2. Holds(m, 0, header) /\ Holds(m, 0 + Len(header), msg.seq)
      BY <1>3, <1>4, <2>1, HoldsParts
    <2>3. 0 + Len(header) = 4
      BY <1>3
    <2>4. QED
      BY <2>2, <2>3
  <1>21. /\ HeaderBytes(m) = 4 /\ MessageType(m) = msg.type /\ Flags(m) = ServerFlags(msg)
         /\ Serial(m) = msg.serial /\ Compression(m) = compression
    BY <1>1, <1>20, HeaderHeld DEF header
  <1>22. SeqEnd(m) = Len(upToSeq) /\ (SeqEnd(m) > HeaderBytes(m) <=> msg.seq # <<>>)
    <2>1. SeqEnd(m) = 4 + (IF msg.seq # <<>> THEN 4 ELSE 0)
      BY <1>21, FlagsTell DEF SeqEnd
    <2>2. QED
      BY <1>4, <1>9, <1>21, <2>1
  <1>23. EventEnd(m) = Len(upToEvent) /\ (EventEnd(m) > SeqEnd(m) <=> msg.event # <<>>)
    <2>1. EventEnd(m) = SeqEnd(m) + (IF msg.event # <<>> THEN 4 ELSE 0)
      BY <1>21, FlagsTell DEF EventEnd
    <2>2. Len(upToSeq) \in Nat
      BY <1>9
    <2>3. QED
      BY <1>4, <1>10, <1>22, <2>1, <2>2
  <1>24. /\ SidStart(m) = Len(upToSidSize) /\ SidEnd(m) = Len(upToSid)
         /\ PayloadStart(m) = Len(upToSize)
    <2>1. SidStart(m) = Len(upToSidSize)
      BY <1>11, <1>23 DEF SidStart
    <2>2. Len(upToEvent) \in Nat
      BY <1>10
    <2>3. WordAt(m, Len(upToEvent)) = sidSize
      BY <1>5, <1>18, <2>2, WordHeld
    <2>4. SidEnd(m) = Len(upToSid)
      BY <1>7, <1>12, <1>23, <2>1, <2>3 DEF SidEnd
    <2>5. QED
      BY <1>13, <2>1, <2>4 DEF PayloadStart
  <1>25. /\ Len(upToSeq) \in Nat /\ Len(upToEvent) \in Nat /\ Len(upToSidSize) \in Nat
         /\ Len(upToSid) \in Nat /\ Len(upToSize) \in Nat /\ Len(whole) \in Nat
         /\ Len(upToSeq) <= Len(upToEvent) /\ Len(upToEvent) <= Len(upToSidSize)
         /\ Len(upToSidSize) <= Len(upToSid) /\ Len(upToSid) <= Len(upToSize)
         /\ Len(upToSize) <= Len(whole) /\ 4 <= Len(whole)
    <2>1. Len(upToSeq) \in Nat /\ 4 <= Len(upToSeq)
      BY <1>4, <1>9
    <2>2. Len(upToEvent) \in Nat /\ Len(upToSeq) <= Len(upToEvent)
      BY <1>4, <1>10, <2>1
    <2>3. Len(upToSidSize) \in Nat /\ Len(upToEvent) <= Len(upToSidSize)
      BY <1>11, <2>2
    <2>4. Len(upToSid) \in Nat /\ Len(upToSidSize) <= Len(upToSid)
      BY <1>2, <1>12, <2>3
    <2>5. Len(upToSize) \in Nat /\ Len(upToSid) <= Len(upToSize)
      BY <1>13, <2>4
    <2>6. Len(whole) \in Nat /\ Len(upToSize) <= Len(whole)
      BY <1>2, <1>14, <2>5
    <2>7. 4 <= Len(whole)
      BY <2>1, <2>2, <2>3, <2>4, <2>5, <2>6
    <2>8. QED
      BY <2>1, <2>2, <2>3, <2>4, <2>5, <2>6, <2>7
  <1>26. FieldsInside(m, Len(whole))
    BY <1>22, <1>23, <1>24, <1>25 DEF FieldsInside
  <1>27. msg.seq # <<>> => WordAt(m, HeaderBytes(m)) = msg.seq
    <2>1. msg.seq # <<>> => msg.seq \in Word
      BY DEF IsResponse
    <2>2. QED
      BY <1>20, <1>21, <2>1, WordHeld
  <1>28. msg.event # <<>> => WordAt(m, SeqEnd(m)) = msg.event
    <2>1. msg.event # <<>> => msg.event \in Word
      BY DEF IsResponse
    <2>2. QED
      BY <1>19, <1>22, <1>25, <2>1, WordHeld
  <1>29. WordAt(m, SidEnd(m)) = size
    BY <1>5, <1>16, <1>24, <1>25, WordHeld
  <1>30. Sid(m) = msg.sid
    <2>1. Shorter(SidEnd(m), SidStart(m) + SESSION_ID_ROOM) = Len(upToSidSize) + Len(msg.sid)
      BY <1>2, <1>7, <1>12, <1>24, <1>25 DEF Shorter, SESSION_ID_ROOM
    <2>2. Slice(m, Len(upToSidSize), Len(upToSidSize) + Len(msg.sid)) = msg.sid
      BY <1>2, <1>17, <1>25, SliceHeld
    <2>3. QED
      BY <1>24, <2>1, <2>2 DEF Sid
  <1>31. /\ Len(whole) = PayloadStart(m) <=> body = <<>>
         /\ body = <<>> <=> msg.payload = <<>>
    <2>1. Len(whole) = PayloadStart(m) <=> Len(body) = 0
      BY <1>2, <1>14, <1>24, <1>25
    <2>2. QED
      BY <1>2, <2>1 DEF Carries
  <1>32. body # <<>> => PayloadAt(m, PayloadStart(m), Len(whole)) = msg.payload
    BY <1>1, <1>14, <1>15, <1>21, <1>24, <1>25, PayloadHeld
  <1>33. msg.payload # CannotInflate
    BY DEF Carries
  <1>34. ParseFields(m, Len(whole)) = Meaning(msg)
    <2>1. /\ (IF SeqEnd(m) > HeaderBytes(m) THEN WordAt(m, HeaderBytes(m)) ELSE <<>>) = msg.seq
          /\ (IF EventEnd(m) > SeqEnd(m) THEN WordAt(m, SeqEnd(m)) ELSE <<>>) = msg.event
      BY <1>22, <1>23, <1>27, <1>28
    <2>2. msg.type # ERROR
      BY <1>1 DEF ERROR
    <2>3. CASE body = <<>>
      <3>1. ParseFields(m, Len(whole)) = Parsed(msg.type, msg.seq, msg.event, msg.sid, <<>>, FALSE)
        BY <1>21, <1>26, <1>30, <1>31, <2>1, <2>3 DEF ParseFields
      <3>2. QED
        BY <1>31, <2>3, <3>1 DEF Meaning
    <2>4. CASE body # <<>>
      <3>1. ParseFields(m, Len(whole))
              = Parsed(msg.type, msg.seq, msg.event, msg.sid, msg.payload, msg.serial = SERIAL_NONE)
        BY <1>8, <1>21, <1>26, <1>29, <1>30, <1>31, <1>32, <1>33, <2>1, <2>4 DEF ParseFields
      <3>2. (msg.type # ERROR /\ msg.payload # <<>> /\ msg.serial = SERIAL_NONE)
              = (msg.serial = SERIAL_NONE)
        BY <1>31, <2>2, <2>4
      <3>3. QED
        BY <3>1, <3>2 DEF Meaning
    <2>5. QED
      BY <2>3, <2>4
  <1>35. ParseResponse(m, Len(whole)) = ParseFields(m, Len(whole))
    <2>1. ~(Len(whole) < 4) /\ ~(HeaderBytes(m) > Len(whole))
      BY <1>21, <1>25
    <2>2. MessageType(m) \in {FULL_RESPONSE, ACK} /\ MessageType(m) # ERROR
      BY <1>1, <1>21 DEF FULL_RESPONSE, ACK, ERROR
    <2>3. QED
      BY <2>1, <2>2 DEF ParseResponse
  <1>36. QED
    BY <1>6, <1>34, <1>35

(* An error of the server; the code takes the place of the event. *)
LEMMA ErrorUnderstood ==
  ASSUME NEW msg, IsError(msg), NEW body, NEW compression,
         Carries(body, compression, msg.payload),
         NEW m \in Memory, Holds(m, 0, ServerError(msg, body, compression))
  PROVE  ParseResponse(m, Len(ServerError(msg, body, compression))) = Meaning(msg)
  <1> DEFINE header == GenerateHeader(ERROR, 0, msg.serial, compression)
             size   == U32(Len(body))
             upToCode == header \o msg.event
             upToSize == upToCode \o size
             whole    == upToSize \o body
  <1>1. ERROR \in 0..15 /\ 0 \in 0..15 /\ msg.serial \in 0..15 /\ compression \in 0..15
    BY DEF IsError, Carries, ERROR
  <1>2. body \in Seq(Byte) /\ Len(body) \in Nat
    BY DEF Carries
  <1>3. header \in Seq(Byte) /\ Len(header) = 4
    BY <1>1, HeaderIsBytes
  <1>4. msg.event \in Word /\ msg.event \in Seq(Byte) /\ Len(msg.event) = 4
    BY WordsAreBytes DEF IsError
  <1>5. size \in Seq(Byte) /\ Len(size) = 4
    BY <1>2, BigEndian
  <1>6. ServerError(msg, body, compression) = whole
    BY DEF ServerError
  <1> HIDE DEF header, size
  <1>7. upToCode \in Seq(Byte) /\ Len(upToCode) = 8
    <2>1. upToCode \in Seq(Byte) /\ Len(upToCode) = Len(header) + Len(msg.event)
      BY <1>3, <1>4, Joined
    <2>2. QED
      BY <1>3, <1>4, <2>1
  <1> HIDE DEF upToCode
  <1>8. upToSize \in Seq(Byte) /\ Len(upToSize) = 12
    <2>1. upToSize \in Seq(Byte) /\ Len(upToSize) = Len(upToCode) + Len(size)
      BY <1>5, <1>7, Joined
    <2>2. QED
      BY <1>5, <1>7, <2>1
  <1> HIDE DEF upToSize
  <1>9. Len(whole) = 12 + Len(body)
    BY <1>2, <1>8, Joined
  <1>10. Holds(m, 0, upToSize) /\ Holds(m, 12, body)
    <2>1. Holds(m, 0, upToSize \o body)
      BY <1>6
    <2>2. Holds(m, 0, upToSize) /\ Holds(m, 0 + Len(upToSize), body)
      BY <1>2, <1>8, <2>1, HoldsParts
    <2>3. 0 + Len(upToSize) = 12
      BY <1>8
    <2>4. QED
      BY <2>2, <2>3
  <1> HIDE DEF whole
  <1>11. Holds(m, 0, upToCode)
    BY <1>5, <1>7, <1>10, HoldsParts DEF upToSize
  <1>12. Holds(m, 0, header) /\ Holds(m, 4, msg.event)
    <2>1. Holds(m, 0, header \o msg.event)
      BY <1>11 DEF upToCode
    <2>2. Holds(m, 0, header) /\ Holds(m, 0 + Len(header), msg.event)
      BY <1>3, <1>4, <2>1, HoldsParts
    <2>3. 0 + Len(header) = 4
      BY <1>3
    <2>4. QED
      BY <2>2, <2>3
  <1>13. HeaderBytes(m) = 4 /\ MessageType(m) = ERROR /\ Compression(m) = compression
    BY <1>1, <1>12, HeaderHeld DEF header
  <1>14. WordAt(m, HeaderBytes(m)) = msg.event
    BY <1>4, <1>12, <1>13, WordHeld
  <1>15. body # <<>> => PayloadAt(m, 12, Len(whole)) = msg.payload
    BY <1>1, <1>9, <1>10, <1>13, PayloadHeld
  <1>16. (Len(whole) = 12 <=> body = <<>>) /\ (body = <<>> <=> msg.payload = <<>>)
    BY <1>2, <1>9 DEF Carries
  <1>17. msg.payload # CannotInflate
    BY DEF Carries
  <1>18. ParseError(m, Len(whole)) = Parsed(ERROR, <<>>, msg.event, <<>>, msg.payload, FALSE)
    <2>1. HeaderBytes(m) + 8 = 12 /\ ~(HeaderBytes(m) + 8 > Len(whole))
      BY <1>2, <1>9, <1>13
    <2>2. QED
      BY <1>14, <1>15, <1>16, <1>17, <2>1 DEF ParseError
  <1>19. Meaning(msg) = Parsed(ERROR, <<>>, msg.event, <<>>, msg.payload, FALSE)
    BY DEF Meaning, IsError
  <1>20. ParseResponse(m, Len(whole)) = ParseError(m, Len(whole))
    <2>1. ~(Len(whole) < 4) /\ ~(HeaderBytes(m) > Len(whole))
      BY <1>2, <1>9, <1>13
    <2>2. QED
      BY <1>13, <2>1 DEF ParseResponse, FULL_RESPONSE, ACK, ERROR
  <1>21. QED
    BY <1>6, <1>18, <1>19, <1>20

(* protocol_parse_response gives back what the server laid out: the event, *)
(* the sequence number, the session id and the payload, inflated if it was *)
(* compressed, for every combination of the optional fields, every length, *)
(* and whatever lies behind the message in memory.                         *)
THEOREM ParserUnderstandsServer ==
  ASSUME NEW msg, NEW bytes, NEW body, NEW compression, SaysIt(bytes, msg, body, compression),
         NEW m \in Memory, Holds(m, 0, bytes)
  PROVE  ParseResponse(m, Len(bytes)) = Meaning(msg)
  BY ResponseUnderstood, ErrorUnderstood DEF SaysIt

=============================================================================
