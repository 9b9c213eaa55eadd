-------------------------- MODULE UdpSlices_proofs --------------------------
(***************************************************************************)
(* What TLAPS proves of the operators that the video and the audio side of *)
(* UdpCombinePackage share: sequence numbers that wrap, and packages that  *)
(* account for their slices.                                               *)
(***************************************************************************)
EXTENDS UdpSlices, FiniteSetTheorems, TLAPS

-----------------------------------------------------------------------------
(* Sequence numbers *)

\* The number after a sequence number is one.
LEMMA NextSeqType ==
    ASSUME NEW s \in SeqNo
    PROVE  NextSeq(s) \in SeqNo
BY SeqSpaceAssumption DEF NextSeq, SeqNo

\* The remainder of a number at most one round away.
LEMMA Remainder ==
    ASSUME NEW x \in Int, -SeqSpace <= x, x < 2 * SeqSpace
    PROVE  /\ x < 0 => x % SeqSpace = x + SeqSpace
           /\ 0 <= x /\ x < SeqSpace => x % SeqSpace = x
           /\ SeqSpace <= x => x % SeqSpace = x - SeqSpace
BY SeqSpaceAssumption

\* How far it is from one number to another.
LEMMA Distance ==
    ASSUME NEW a \in SeqNo, NEW b \in SeqNo
    PROVE  (b - a) % SeqSpace = IF b < a THEN b - a + SeqSpace ELSE b - a
<1>1. a \in 0 .. SeqSpace - 1 /\ b \in 0 .. SeqSpace - 1 /\ SeqSpace \in Nat \ {0}
  BY SeqSpaceAssumption DEF SeqNo
<1>2. b - a \in Int /\ -SeqSpace <= b - a /\ b - a < SeqSpace
  BY <1>1
<1>3. CASE b < a
  BY <1>1, <1>2, <1>3, Remainder
<1>4. CASE ~(b < a)
  BY <1>1, <1>2, <1>4, Remainder
<1> QED
  BY <1>3, <1>4

\* The number space is two halves.
LEMMA HalfType == Half \in Nat /\ SeqSpace = 2 * Half
BY SeqSpaceAssumption DEF Half

\* How long before the number that follows h the number s was given out: the
\* age of s, 0 for the one that comes next.
Age(h, s) == (NextSeq(h) - s) % SeqSpace

\* An age is a number of the space.
LEMMA AgeType ==
    ASSUME NEW h \in SeqNo, NEW s \in SeqNo
    PROVE  Age(h, s) \in SeqNo /\ Age(h, s) \in Int
BY NextSeqType, SeqSpaceAssumption DEF Age, SeqNo

\* Among numbers that are all younger than half the space, later in the order
\* of time_after and later in serial order are both younger.
LEMMA AgeOrders ==
    ASSUME OverflowWraps, NEW h \in SeqNo, NEW a \in SeqNo, NEW b \in SeqNo,
           Age(h, a) < Half, Age(h, b) < Half
    PROVE  /\ TimeAfter(a, b) <=> Age(h, a) < Age(h, b)
           /\ Before(a, b) <=> Age(h, b) < Age(h, a)
           /\ Age(h, a) = Age(h, b) => a = b
<1> DEFINE n == NextSeq(h)
<1>1. n \in SeqNo /\ SeqNo = 0 .. SeqSpace - 1 /\ SeqSpace \in Nat \ {0}
  BY NextSeqType, SeqSpaceAssumption DEF SeqNo
<1>2. Half \in Nat /\ SeqSpace = 2 * Half
  BY HalfType
<1> HIDE DEF n
<1>3. /\ Age(h, a) = IF n < a THEN n - a + SeqSpace ELSE n - a
      /\ Age(h, b) = IF n < b THEN n - b + SeqSpace ELSE n - b
  BY <1>1, Distance DEF Age, n
<1>4. (b - a) % SeqSpace = IF b < a THEN b - a + SeqSpace ELSE b - a
  BY Distance
<1>5. Before(a, b) <=> Age(h, b) < Age(h, a)
  BY <1>1, <1>2, <1>3, <1>4 DEF Before
<1>6. TimeAfter(a, b) <=> Age(h, a) < Age(h, b)
  BY <1>1, <1>2, <1>3 DEF TimeAfter, Signed
<1>7. Age(h, a) = Age(h, b) => a = b
  BY <1>1, <1>3
<1> QED
  BY <1>5, <1>6, <1>7

\* The stream goes on: every number that is not the oldest gets older by one.
LEMMA AgeNext ==
    ASSUME NEW h \in SeqNo, NEW s \in SeqNo, Age(h, s) < SeqSpace - 1
    PROVE  Age(NextSeq(h), s) = Age(h, s) + 1
<1>1. h \in 0 .. SeqSpace - 1 /\ s \in 0 .. SeqSpace - 1 /\ SeqSpace \in Nat \ {0}
  BY SeqSpaceAssumption DEF SeqNo
<1> DEFINE n == NextSeq(h)
<1>2. n = IF h = SeqSpace - 1 THEN 0 ELSE h + 1
  BY <1>1, Remainder DEF NextSeq
<1>3. NextSeq(n) = IF n = SeqSpace - 1 THEN 0 ELSE n + 1
  BY <1>1, <1>2, Remainder DEF NextSeq
<1>4. n \in 0 .. SeqSpace - 1 /\ NextSeq(n) \in 0 .. SeqSpace - 1
  BY <1>1, <1>2, <1>3
<1> HIDE DEF n
<1>5. Age(h, s) = IF n < s THEN n - s + SeqSpace ELSE n - s
  BY <1>1, <1>4, Remainder DEF Age, n
<1>6. Age(n, s) = IF NextSeq(n) < s THEN NextSeq(n) - s + SeqSpace ELSE NextSeq(n) - s
  BY <1>1, <1>4, Remainder DEF Age
<1>7. Age(n, s) = Age(h, s) + 1
  BY <1>1, <1>3, <1>4, <1>5, <1>6
<1> QED
  BY <1>7 DEF n

\* The number after s is younger than s by one.
LEMMA AgeOfNext ==
    ASSUME NEW h \in SeqNo, NEW s \in SeqNo, Age(h, s) > 0
    PROVE  NextSeq(s) \in SeqNo /\ Age(h, NextSeq(s)) = Age(h, s) - 1
<1>1. h \in 0 .. SeqSpace - 1 /\ s \in 0 .. SeqSpace - 1 /\ SeqSpace \in Nat \ {0}
  BY SeqSpaceAssumption DEF SeqNo
<1> DEFINE n == NextSeq(h)
           t == NextSeq(s)
<1>2. t = IF s = SeqSpace - 1 THEN 0 ELSE s + 1
  BY <1>1, Remainder DEF NextSeq
<1>3. n \in 0 .. SeqSpace - 1 /\ t \in SeqNo
  BY NextSeqType DEF SeqNo
<1> HIDE DEF n, t
<1>4. Age(h, s) = IF n < s THEN n - s + SeqSpace ELSE n - s
  BY <1>1, <1>3, Remainder DEF Age, n
<1>5. Age(h, t) = IF n < t THEN n - t + SeqSpace ELSE n - t
  BY <1>1, <1>3, Remainder DEF Age, n, SeqNo
<1>6. Age(h, t) = Age(h, s) - 1
  BY <1>1, <1>2, <1>3, <1>4, <1>5 DEF SeqNo
<1> QED
  BY <1>3, <1>6 DEF t

\* A number that can still arrive is older than the next one by at most the
\* number of those that can.
LEMMA AgeOfLive ==
    ASSUME NEW h \in SeqNo, NEW s \in SeqNo, NEW n \in Nat, n < SeqSpace,
           (h - s) % SeqSpace < n
    PROVE  Age(h, s) > 0 /\ Age(h, s) <= n
<1>1. h \in 0 .. SeqSpace - 1 /\ s \in 0 .. SeqSpace - 1 /\ SeqSpace \in Nat \ {0}
  BY SeqSpaceAssumption DEF SeqNo
<1> DEFINE k == NextSeq(h)
<1>2. k = IF h = SeqSpace - 1 THEN 0 ELSE h + 1
  BY <1>1, Remainder DEF NextSeq
<1>3. k \in 0 .. SeqSpace - 1
  BY <1>1, <1>2
<1> HIDE DEF k
<1>4. (h - s) % SeqSpace = IF h < s THEN h - s + SeqSpace ELSE h - s
  BY <1>1, Remainder
<1>5. Age(h, s) = IF k < s THEN k - s + SeqSpace ELSE k - s
  BY <1>1, <1>3, Remainder DEF Age, k
<1> QED
  BY <1>1, <1>2, <1>3, <1>4, <1>5

\* Where an overflow wraps, time_after finds what is later in serial order.
LEMMA BeforeIsAfter ==
    ASSUME OverflowWraps, NEW a \in SeqNo, NEW b \in SeqNo, Before(a, b)
    PROVE  TimeAfter(b, a)
<1>1. a \in 0 .. SeqSpace - 1 /\ b \in 0 .. SeqSpace - 1 /\ SeqSpace \in Nat \ {0}
  BY SeqSpaceAssumption DEF SeqNo
<1>2. Half \in Nat /\ SeqSpace = 2 * Half
  BY HalfType
<1>3. (b - a) % SeqSpace = IF b < a THEN b - a + SeqSpace ELSE b - a
  BY Distance
<1> QED
  BY <1>1, <1>2, <1>3 DEF Before, TimeAfter, Signed

-----------------------------------------------------------------------------
(* Packages *)

\* The slices a sender cuts a frame into.
LEMMA SliceShape ==
    ASSUME NEW s \in SeqNo, NEW m \in SlicesOf(s)
    PROVE  /\ m.seq = s
           /\ m.slices = Frames[s].slices
           /\ m.slices \in Nat \ {0}
           /\ m.cur \in 0 .. m.slices - 1
           /\ m.size = IF m.cur = m.slices - 1 THEN Frames[s].tail ELSE OnePackSize
           /\ m.size \in Nat
           /\ Frames[s].tail \in Nat
           /\ OnePackSize \in Nat
BY FramesAssumption DEF SlicesOf, Slice, SeqNo

\* A set of slice numbers is finite and its size a natural number.
LEMMA MaskFinite ==
    ASSUME NEW n \in Nat, NEW S, S \subseteq 0 .. n - 1
    PROVE  IsFiniteSet(S) /\ Cardinality(S) \in Nat /\ Cardinality(S) <= n
<1>1. IsFiniteSet(0 .. n - 1) /\ Cardinality(0 .. n - 1) = n
  BY FS_Interval
<1>2. IsFiniteSet(S) /\ Cardinality(S) <= Cardinality(0 .. n - 1)
  BY <1>1, FS_Subset
<1> QED
  BY <1>1, <1>2, FS_CardinalityType

\* One more slice adds its size to the payload.
LEMMA PayloadAdd ==
    ASSUME NEW s \in SeqNo, NEW m \in SlicesOf(s),
           NEW M, M \subseteq 0 .. Frames[s].slices - 1, m.cur \notin M
    PROVE  /\ Payload(s, M) \in Nat
           /\ Payload(s, M \cup {m.cur}) = Payload(s, M) + m.size
<1> DEFINE last == Frames[s].slices - 1
           c == Cardinality(M \ {last})
<1>0. /\ Frames[s].slices \in Nat \ {0}
      /\ m.size = IF m.cur = last THEN Frames[s].tail ELSE OnePackSize
      /\ Frames[s].tail \in Nat /\ OnePackSize \in Nat
  BY SliceShape
<1>1. IsFiniteSet(M \ {last}) /\ c \in Nat
  BY <1>0, MaskFinite
<1>2. c * OnePackSize \in Nat /\ (c + 1) * OnePackSize = c * OnePackSize + OnePackSize
  BY <1>0, <1>1
<1>3. \A S : Payload(s, S) = Cardinality(S \ {last}) * OnePackSize
                              + (IF last \in S THEN Frames[s].tail ELSE 0)
  BY DEF Payload
<1>4. Payload(s, M) = c * OnePackSize + (IF last \in M THEN Frames[s].tail ELSE 0)
  BY <1>3
<1>5. Payload(s, M) \in Nat
  <2> HIDE DEF c
  <2> QED  BY <1>0, <1>2, <1>4
<1>6. CASE m.cur = last
  <2>1. (M \cup {m.cur}) \ {last} = M \ {last}
    BY <1>6
  <2>2. Payload(s, M \cup {m.cur}) = c * OnePackSize + Frames[s].tail
    BY <1>3, <1>6, <2>1
  <2> HIDE DEF c
  <2> QED
    BY <1>0, <1>2, <1>4, <1>5, <1>6, <2>2
<1>7. CASE m.cur # last
  <2>1. (M \cup {m.cur}) \ {last} = (M \ {last}) \cup {m.cur}
    BY <1>7
  <2>2. Cardinality((M \ {last}) \cup {m.cur}) = c + 1
    BY <1>1, FS_AddElement
  <2>3. Payload(s, M \cup {m.cur})
          = (c + 1) * OnePackSize + (IF last \in M THEN Frames[s].tail ELSE 0)
    BY <1>3, <1>7, <2>1, <2>2
  <2> HIDE DEF c
  <2> QED
    BY <1>0, <1>2, <1>4, <1>5, <1>7, <2>3
<1> QED
  BY <1>5, <1>6, <1>7

PackageFields == [seq : SeqNo, slices : Nat, recv : Nat, mask : SUBSET Nat, dataSize : Nat]

\* The fields of a package after one more slice is recorded.
LEMMA AddFields ==
    ASSUME NEW p \in PackageFields, NEW m, m.cur \in Nat, m.size \in Nat
    PROVE  LET q == AddSlice(p, m)
           IN  /\ q \in PackageFields
               /\ q.seq = p.seq /\ q.slices = p.slices /\ q.recv = p.recv + 1
               /\ q.mask = p.mask \cup {m.cur} /\ q.dataSize = p.dataSize + m.size
<1>1. /\ p.mask \cup {m.cur} \in SUBSET Nat /\ p.recv + 1 \in Nat
      /\ p.dataSize + m.size \in Nat
  BY DEF PackageFields
<1> QED
  BY <1>1 DEF PackageFields, AddSlice

\* PutPackage keeps the account of a package exact (CombinePackage.cpp:91).
LEMMA PutPackageOK ==
    ASSUME NEW p \in Package, NEW s \in SeqNo, NEW m \in SlicesOf(s)
    PROVE  PutPackage(p, m) \in Package /\ PutPackage(p, m).seq = p.seq
<1>1. CASE p.seq # m.seq \/ p.slices # m.slices \/ m.cur \in p.mask
  BY <1>1 DEF PutPackage
<1>2. CASE ~(p.seq # m.seq \/ p.slices # m.slices \/ m.cur \in p.mask)
  <2> DEFINE q == PutPackage(p, m)
  <2>1. q = AddSlice(p, m)
    BY <1>2 DEF PutPackage
  <2>2. /\ p.seq = s /\ p.slices = Frames[s].slices /\ p.slices \in Nat
        /\ p.mask \subseteq 0 .. p.slices - 1 /\ m.cur \in 0 .. p.slices - 1
        /\ m.cur \notin p.mask /\ m.size \in Nat
    BY <1>2, SliceShape DEF Package
  <2>3. IsFiniteSet(p.mask) /\ Cardinality(p.mask \cup {m.cur}) = Cardinality(p.mask) + 1
    BY <2>2, MaskFinite, FS_AddElement
  <2>4. Payload(s, p.mask \cup {m.cur}) = Payload(s, p.mask) + m.size
    BY <2>2, PayloadAdd
  <2>5. /\ p \in PackageFields
        /\ p.recv = Cardinality(p.mask) /\ p.dataSize = Payload(s, p.mask)
    BY <2>2 DEF Package, PackageFields
  <2>6. /\ q \in PackageFields
        /\ q.seq = s /\ q.slices = p.slices /\ q.recv = p.recv + 1
        /\ q.mask = p.mask \cup {m.cur} /\ q.dataSize = p.dataSize + m.size
    <3>1. m.cur \in Nat /\ m.size \in Nat
      BY <2>2
    <3> HIDE DEF q
    <3> QED
      BY <2>1, <2>2, <2>5, <3>1, AddFields
  <2> QED
    BY <2>2, <2>3, <2>4, <2>5, <2>6 DEF Package, PackageFields
<1> QED
  BY <1>1, <1>2

\* A package begun with one slice accounts for that slice.
LEMMA InitPackageOK ==
    ASSUME NEW s \in SeqNo, NEW m \in SlicesOf(s)
    PROVE  InitPackage(m) \in Package /\ InitPackage(m).seq = s
<1> DEFINE q == InitPackage(m)
<1>1. /\ m.seq = s /\ m.slices = Frames[s].slices /\ m.slices \in Nat
      /\ m.cur \in 0 .. m.slices - 1 /\ m.size \in Nat
      /\ Frames[s].slices \in Nat \ {0} /\ OnePackSize \in Nat
  BY SliceShape
<1>2. q = AddSlice(Blank(m), m)
  BY <1>1 DEF InitPackage, PutPackage, Blank
<1>3. Payload(s, {}) = 0
  BY <1>1, FS_EmptySet DEF Payload
<1>4. Payload(s, {m.cur}) = m.size
  BY <1>1, <1>3, PayloadAdd
<1>5. Cardinality({m.cur}) = 1
  BY FS_Singleton
<1>6. /\ q.seq = s /\ q.slices = m.slices /\ q.recv = 1
      /\ q.mask = {m.cur} /\ q.dataSize = m.size
      /\ q \in PackageFields
  <2>1. Blank(m) \in PackageFields
    BY <1>1 DEF Blank, PackageFields
  <2>2. /\ Blank(m).seq = s /\ Blank(m).slices = m.slices /\ Blank(m).recv = 0
        /\ Blank(m).mask = {} /\ Blank(m).dataSize = 0
    BY <1>1 DEF Blank
  <2>3. /\ q \in PackageFields
        /\ q.seq = s /\ q.slices = m.slices /\ q.recv = 0 + 1
        /\ q.mask = {} \cup {m.cur} /\ q.dataSize = 0 + m.size
    <3>1. m.cur \in Nat /\ m.size \in Nat
      BY <1>1
    <3> HIDE DEF q
    <3> QED
      BY <1>2, <2>1, <2>2, <3>1, AddFields
  <2> QED
    BY <1>1, <2>3
<1> QED
  BY <1>1, <1>4, <1>5, <1>6 DEF Package, PackageFields

\* The slice numbers 0 .. n-1, with and without the last.
LEMMA SliceNumbers ==
    ASSUME NEW n \in Nat \ {0}
    PROVE  /\ IsFiniteSet(0 .. n - 1)
           /\ Cardinality(0 .. n - 1) = n
           /\ Cardinality((0 .. n - 1) \ {n - 1}) = n - 1
<1>1. IsFiniteSet(0 .. n - 1) /\ Cardinality(0 .. n - 1) = n
  BY FS_Interval
<1>2. n - 1 \in 0 .. n - 1
  OBVIOUS
<1>3. \A S, x : IsFiniteSet(S) /\ x \in S => Cardinality(S \ {x}) = Cardinality(S) - 1
  BY FS_RemoveElement
<1>4. Cardinality((0 .. n - 1) \ {n - 1}) = Cardinality(0 .. n - 1) - 1
  BY <1>1, <1>2, <1>3
<1> QED
  BY <1>1, <1>4

\* A package whose count has reached its slices is the whole frame: it has
\* every slice, and its payload is the frame's (CombinePackage.h:33).
LEMMA DoneIsWhole ==
    ASSUME NEW p \in Package, IsDone(p)
    PROVE  IsWhole(p)
<1>1. /\ p.slices \in Nat \ {0} /\ p.slices = Frames[p.seq].slices
      /\ p.mask \subseteq 0 .. p.slices - 1
      /\ p.recv = Cardinality(p.mask) /\ p.recv >= p.slices
      /\ p.dataSize = Payload(p.seq, p.mask)
  BY FramesAssumption DEF Package, SeqNo, IsDone
<1>2. /\ IsFiniteSet(0 .. p.slices - 1) /\ Cardinality(0 .. p.slices - 1) = p.slices
      /\ Cardinality((0 .. p.slices - 1) \ {p.slices - 1}) = p.slices - 1
  BY <1>1, SliceNumbers
<1>3. Cardinality(p.mask) <= p.slices /\ Cardinality(p.mask) \in Nat
  BY <1>1, MaskFinite
<1>4. Cardinality(p.mask) = Cardinality(0 .. p.slices - 1)
  BY <1>1, <1>2, <1>3
<1>5. p.mask = 0 .. p.slices - 1
  BY <1>1, <1>2, <1>4, FS_Subset
<1>6. p.slices - 1 \in 0 .. p.slices - 1
  BY <1>1
<1>7. Payload(p.seq, p.mask) = FrameSize(p.seq)
  BY <1>1, <1>2, <1>5, <1>6 DEF Payload, FrameSize
<1> QED
  BY <1>1, <1>5, <1>7 DEF IsWhole
=============================================================================
