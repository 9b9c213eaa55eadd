----------------------- MODULE UdpCombinePackage_proofs -----------------------
(***************************************************************************)
(* What TLAPS proves of audio over UDP: the account of combineAudio is     *)
(* exact, a package is reported only with all its slices, and while the    *)
(* numbers in play span less than half the number space the stream moves   *)
(* forward and never stalls.                                               *)
(***************************************************************************)
EXTENDS UdpCombinePackage, UdpSlices_proofs

-----------------------------------------------------------------------------
(* One package *)

\* What every value of combineAudio satisfies, the garbage of the constructor
\* and a package after ResetData included: the count is that of the mask.
Counted(p) == /\ p \in PackageFields
              /\ p.mask \subseteq 0 .. p.slices - 1
              /\ p.recv = Cardinality(p.mask)

\* PutPackage keeps the count exact whatever header the package has.
LEMMA PutPackageCounted ==
    ASSUME NEW p, Counted(p), NEW s \in SeqNo, NEW m \in SlicesOf(s)
    PROVE  LET q == PutPackage(p, m)
           IN  Counted(q) /\ q.seq = p.seq /\ q.slices = p.slices
<1>1. CASE p.seq # m.seq \/ p.slices # m.slices \/ m.cur \in p.mask
  BY <1>1 DEF PutPackage
<1>2. CASE ~(p.seq # m.seq \/ p.slices # m.slices \/ m.cur \in p.mask)
  <2>1. PutPackage(p, m) = AddSlice(p, m)
    BY <1>2 DEF PutPackage
  <2>2. /\ p \in PackageFields /\ p.slices = m.slices /\ p.slices \in Nat
        /\ m.cur \in 0 .. p.slices - 1 /\ m.cur \in Nat /\ m.size \in Nat
        /\ p.mask \subseteq 0 .. p.slices - 1 /\ m.cur \notin p.mask
    BY <1>2, SliceShape DEF Counted, PackageFields
  <2>3. Cardinality(p.mask \cup {m.cur}) = Cardinality(p.mask) + 1
    BY <2>2, MaskFinite, FS_AddElement
  <2>4. /\ AddSlice(p, m) \in PackageFields
        /\ AddSlice(p, m).seq = p.seq /\ AddSlice(p, m).slices = p.slices
        /\ AddSlice(p, m).recv = p.recv + 1 /\ AddSlice(p, m).mask = p.mask \cup {m.cur}
    BY <2>2, AddFields
  <2> QED
    BY <2>1, <2>2, <2>3, <2>4 DEF Counted
<1> QED
  BY <1>1, <1>2

\* InitPackage starts a counted package of the slice's frame.
LEMMA InitPackageCounted ==
    ASSUME NEW s \in SeqNo, NEW m \in SlicesOf(s)
    PROVE  LET q == InitPackage(m)
           IN  Counted(q) /\ q.seq = s /\ q.slices = Frames[s].slices
BY InitPackageOK DEF Package, PackageFields, Counted

\* ResetData keeps the header.
LEMMA ResetCounted ==
    ASSUME NEW p, Counted(p)
    PROVE  LET q == ResetData(p)
           IN  Counted(q) /\ q.seq = p.seq /\ q.slices = p.slices
<1>1. {} \subseteq 0 .. p.slices - 1 /\ {} \in SUBSET Nat /\ Cardinality({}) = 0
  BY FS_EmptySet
<1> QED
  BY <1>1 DEF Counted, PackageFields, ResetData

\* A counted package that is done has every slice.
LEMMA DoneHasAll ==
    ASSUME NEW p, Counted(p), p.slices # 0, IsDone(p)
    PROVE  p.mask = 0 .. p.slices - 1
<1>1. /\ p.slices \in Nat \ {0} /\ p.mask \subseteq 0 .. p.slices - 1
      /\ p.recv = Cardinality(p.mask) /\ p.recv >= p.slices
  BY DEF Counted, PackageFields, IsDone
<1>2. IsFiniteSet(0 .. p.slices - 1) /\ Cardinality(0 .. p.slices - 1) = p.slices
  BY <1>1, SliceNumbers
<1>3. Cardinality(p.mask) <= p.slices /\ Cardinality(p.mask) \in Nat
  BY <1>1, MaskFinite
<1>4. Cardinality(p.mask) = Cardinality(0 .. p.slices - 1)
  BY <1>1, <1>2, <1>3
<1> QED
  BY <1>1, <1>2, <1>4, FS_Subset

-----------------------------------------------------------------------------
(* TypeOK *)

\* combineAudio after the slice is looked at is counted, and its number is
\* the old one or the slice's.
LEMMA TakeAudioCounted ==
    ASSUME NEW s \in SeqNo, NEW m \in SlicesOf(s), Counted(combineAudio)
    PROVE  /\ Counted(TakeAudio(m))
           /\ TakeAudio(m).seq \in {combineAudio.seq, s}
<1>1. m.seq = s
  BY SliceShape
<1>2. CASE combineAudio.seq = m.seq
  BY <1>2, PutPackageCounted DEF TakeAudio
<1>3. CASE combineAudio.seq # m.seq /\ TimeAfter(m.seq, combineAudio.seq)
  BY <1>3, InitPackageCounted DEF TakeAudio
<1>4. CASE combineAudio.seq # m.seq /\ ~TimeAfter(m.seq, combineAudio.seq)
  BY <1>4 DEF TakeAudio
<1> QED
  BY <1>2, <1>3, <1>4

\* OnAudio leaves the package it took up, or that package after ResetData.
LEMMA OnAudioCounted ==
    ASSUME NEW s \in SeqNo, NEW m \in SlicesOf(s), Counted(combineAudio), OnAudio(m)
    PROVE  /\ Counted(combineAudio')
           /\ combineAudio'.seq = TakeAudio(m).seq
           /\ combineAudio'.slices = TakeAudio(m).slices
<1> DEFINE p == TakeAudio(m)
<1>1. Counted(p)
  BY TakeAudioCounted
<1>2. combineAudio' = ResetData(p) \/ combineAudio' = p
  BY DEF OnAudio
<1> HIDE DEF p
<1>3. Counted(combineAudio') /\ combineAudio'.seq = p.seq /\ combineAudio'.slices = p.slices
  BY <1>1, <1>2, ResetCounted
<1> QED
  BY <1>3 DEF p

\* The type invariant in terms of Counted.
LEMMA TypeIsCounted ==
    TypeOK <=> Counted(combineAudio) /\ head \in SeqNo /\ live \in 0 .. LiveWindow
BY DEF TypeOK, Counted, PackageFields

\* The constructor's package is counted, whatever its slices.
LEMMA InitType == Init => TypeOK
<1> SUFFICES ASSUME Init PROVE TypeOK
  OBVIOUS
<1>1. PICK n \in 0 .. 2 :
        combineAudio = [seq |-> SeqSpace - 1, slices |-> n, recv |-> 0, mask |-> {},
                        dataSize |-> 0]
  BY DEF Init
<1>2. SeqSpace - 1 \in SeqNo /\ Cardinality({}) = 0
  BY SeqSpaceAssumption, FS_EmptySet DEF SeqNo
<1>3. combineAudio \in PackageFields
  BY <1>1, <1>2 DEF PackageFields
<1> QED
  BY <1>1, <1>2, <1>3, TypeIsCounted, AudioAssumption DEF Init, Counted

\* Every step keeps the type invariant.
LEMMA NextType == TypeOK /\ [Next]_vars => TypeOK'
<1> SUFFICES ASSUME TypeOK, [Next]_vars
             PROVE  Counted(combineAudio)' /\ head' \in SeqNo /\ live' \in 0 .. LiveWindow
  BY TypeIsCounted DEF TypeOK, Counted, PackageFields
<1>0. Counted(combineAudio) /\ head \in SeqNo /\ live \in 0 .. LiveWindow
  BY TypeIsCounted
<1>1. CASE UNCHANGED vars
  BY <1>0, <1>1 DEF vars
<1>2. CASE Emit
  BY <1>0, <1>2, NextSeqType, AudioAssumption DEF Emit
<1>3. ASSUME NEW s \in Live, ArriveAudio(s)
      PROVE  Counted(combineAudio)' /\ head' \in SeqNo /\ live' \in 0 .. LiveWindow
  <2>1. PICK m \in SlicesOf(s) : OnAudio(m)
    BY <1>3 DEF ArriveAudio
  <2>2. s \in SeqNo
    BY DEF Live
  <2> QED
    BY <1>0, <2>1, <2>2, OnAudioCounted DEF OnAudio
<1>4. ASSUME NEW n \in Others, OnOther(n)
      PROVE  Counted(combineAudio)' /\ head' \in SeqNo /\ live' \in 0 .. LiveWindow
  BY <1>0, <1>4 DEF OnOther
<1> QED
  BY <1>1, <1>2, <1>3, <1>4 DEF Next

\* The count of combineAudio is the number of slices in its mask, and the mask
\* stays within the package (PutPackage, ResetData), for every stream.
THEOREM AudioTypeCorrect == Spec => []TypeOK
<1>1. Init => TypeOK
  BY InitType
<1>2. TypeOK /\ [Next]_vars => TypeOK'
  BY NextType
<1> QED
  BY <1>1, <1>2, PTL DEF Spec

-----------------------------------------------------------------------------
(* AudioHasAllSlices *)

\* The package has the header of a frame of the stream.
HeaderKnown(p) == p.slices = Frames[p.seq].slices

\* Before the first slice the header is the constructor's, seq -1 with any
\* count of slices. It has to be gone before it can be taken for the frame of
\* that number: all that can arrive lies in the lower half of the numbers.
Untouched == /\ combineAudio.seq = SeqSpace - 1
             /\ live <= NextSeq(head)
             /\ NextSeq(head) < Half

\* The inductive invariant of AudioHasAllSlices.
AudioInv == TypeOK /\ (HeaderKnown(combineAudio) \/ Untouched) /\ AudioHasAllSlices

\* The first slice to arrive is later than the constructor's -1 for the macro
\* time_after, and its overflow does not come into it.
LEMMA AfterTheStart ==
    ASSUME TypeOK, Untouched, NEW s \in Live
    PROVE  s # combineAudio.seq /\ TimeAfter(s, combineAudio.seq)
<1>1. /\ head \in 0 .. SeqSpace - 1 /\ s \in 0 .. SeqSpace - 1
      /\ SeqSpace \in Nat \ {0} /\ live \in Nat
  BY SeqSpaceAssumption DEF TypeOK, Live, SeqNo
<1>2. Half \in Nat /\ SeqSpace = 2 * Half
  BY HalfType
<1>3. NextSeq(head) = IF head = SeqSpace - 1 THEN 0 ELSE head + 1
  BY <1>1, Remainder DEF NextSeq
<1>4. (head - s) % SeqSpace = IF head < s THEN head - s + SeqSpace ELSE head - s
  BY <1>1, Distance DEF SeqNo
<1>5. (head - s) % SeqSpace < live
  BY DEF Live
<1>6. live <= NextSeq(head) /\ NextSeq(head) < Half /\ combineAudio.seq = SeqSpace - 1
  BY DEF Untouched
<1>7. s < Half
  BY <1>1, <1>2, <1>3, <1>4, <1>5, <1>6
<1> QED
  BY <1>1, <1>2, <1>6, <1>7 DEF TimeAfter, Signed

\* Once a slice was looked at, the header is that of a frame.
LEMMA TakeAudioKnown ==
    ASSUME AudioInv, NEW s \in Live, NEW m \in SlicesOf(s)
    PROVE  HeaderKnown(TakeAudio(m))
<1>0. Counted(combineAudio) /\ s \in SeqNo /\ m.seq = s
  BY TypeIsCounted, SliceShape DEF AudioInv, Live
<1>1. CASE combineAudio.seq # s /\ TimeAfter(s, combineAudio.seq)
  BY <1>0, <1>1, InitPackageCounted DEF TakeAudio, HeaderKnown
<1>2. CASE ~(combineAudio.seq # s /\ TimeAfter(s, combineAudio.seq))
  <2>1. HeaderKnown(combineAudio)
    BY <1>2, AfterTheStart DEF AudioInv
  <2> QED
    BY <1>0, <1>2, <2>1, PutPackageCounted DEF TakeAudio, HeaderKnown
<1> QED
  BY <1>1, <1>2

\* What OnAudio reports has every slice of its frame.
LEMMA OnAudioWhole ==
    ASSUME AudioInv, NEW s \in Live, NEW m \in SlicesOf(s), OnAudio(m)
    PROVE  HeaderKnown(combineAudio)' /\ AudioHasAllSlices'
<1> DEFINE p == TakeAudio(m)
<1>1. s \in SeqNo /\ Counted(combineAudio)
  BY TypeIsCounted DEF AudioInv, Live
<1>2. Counted(p) /\ HeaderKnown(p) /\ p.slices # 0
  <2>1. Counted(p) /\ HeaderKnown(p)
    BY <1>1, TakeAudioCounted, TakeAudioKnown
  <2> HIDE DEF p
  <2> QED
    BY <2>1, FramesAssumption DEF Counted, PackageFields, HeaderKnown, SeqNo
<1>3. HeaderKnown(combineAudio)'
  BY <1>1, <1>2, OnAudioCounted DEF HeaderKnown
<1>4. CASE IsDone(p)
  <2>1. reported' = Audio(p)
    BY <1>4 DEF OnAudio
  <2> HIDE DEF p
  <2>2. p.mask = 0 .. Frames[p.seq].slices - 1
    BY <1>2, <1>4, DoneHasAll DEF HeaderKnown
  <2> QED
    BY <1>3, <2>1, <2>2 DEF AudioHasAllSlices, Audio
<1>5. CASE ~IsDone(p)
  BY <1>3, <1>5 DEF OnAudio, AudioHasAllSlices, Nothing
<1> QED
  BY <1>4, <1>5

\* The constructor's header is untouched.
LEMMA InitAudioInv ==
    ASSUME Horizon < Half
    PROVE  Init => AudioInv
<1> SUFFICES ASSUME Init PROVE AudioInv
  OBVIOUS
<1>1. TypeOK
  BY InitType
<1>2. combineAudio.seq = SeqSpace - 1 /\ head = SeqSpace - 1 /\ live = 0
  BY DEF Init
<1>3. Half \in Nat \ {0}
  BY HalfType, SeqSpaceAssumption
<1>4. NextSeq(head) = 0
  BY <1>2, SeqSpaceAssumption, Remainder DEF NextSeq
<1>5. Untouched
  BY <1>2, <1>3, <1>4 DEF Untouched
<1>6. AudioHasAllSlices
  BY DEF Init, AudioHasAllSlices, Nothing
<1> QED
  BY <1>1, <1>5, <1>6 DEF AudioInv

\* As long as nothing has arrived, the stream does not run half a round ahead.
LEMMA EmitUntouched ==
    ASSUME Horizon < Half, TypeOK, Untouched, Emit
    PROVE  Untouched'
<1>1. head \in 0 .. SeqSpace - 1 /\ SeqSpace \in Nat \ {0} /\ Horizon \in Nat /\ live \in Nat
  BY SeqSpaceAssumption, AudioAssumption DEF TypeOK, SeqNo
<1>2. Half \in Nat /\ SeqSpace = 2 * Half
  BY HalfType
<1> DEFINE n == NextSeq(head)
<1>3. n \in 0 .. SeqSpace - 1
  BY NextSeqType, <1>1 DEF SeqNo
<1>4. head' = n /\ live' <= live + 1 /\ combineAudio' = combineAudio
  BY <1>1 DEF Emit
<1>5. live <= n /\ n < Half /\ combineAudio.seq = SeqSpace - 1
  BY DEF Untouched
<1>6. (n - (SeqSpace - 1)) % SeqSpace < Horizon
  BY <1>5 DEF Emit
<1>7. NextSeq(n) = IF n = SeqSpace - 1 THEN 0 ELSE n + 1
  BY <1>1, <1>3, Remainder DEF NextSeq
<1> HIDE DEF n
<1>8. (n - (SeqSpace - 1)) % SeqSpace
        = IF n < SeqSpace - 1 THEN n - (SeqSpace - 1) + SeqSpace ELSE n - (SeqSpace - 1)
  BY <1>1, <1>3, Distance DEF SeqNo
<1>9. NextSeq(n) = n + 1 /\ n + 1 < Half /\ live' <= n + 1
  <2>1. live' \in Int
    BY <1>1, AudioAssumption DEF Emit
  <2> QED
    BY <1>1, <1>2, <1>3, <1>4, <1>5, <1>6, <1>7, <1>8, <2>1
<1> QED
  BY <1>4, <1>5, <1>9 DEF Untouched

\* Every step keeps AudioInv.
LEMMA NextAudioInv ==
    ASSUME Horizon < Half
    PROVE  AudioInv /\ [Next]_vars => AudioInv'
<1> SUFFICES ASSUME AudioInv, [Next]_vars PROVE AudioInv'
  OBVIOUS
<1>0. TypeOK'
  BY NextType DEF AudioInv
<1>1. CASE UNCHANGED vars
  BY <1>0, <1>1 DEF vars, AudioInv, HeaderKnown, Untouched, AudioHasAllSlices
<1>2. CASE Emit
  <2>1. AudioHasAllSlices'
    BY <1>2 DEF Emit, AudioHasAllSlices, Nothing
  <2> QED
    BY <1>0, <1>2, <2>1, EmitUntouched DEF AudioInv, HeaderKnown, Emit
<1>3. ASSUME NEW s \in Live, ArriveAudio(s)
      PROVE  AudioInv'
  <2>1. PICK m \in SlicesOf(s) : OnAudio(m)
    BY <1>3 DEF ArriveAudio
  <2> QED
    BY <1>0, <2>1, OnAudioWhole DEF AudioInv
<1>4. ASSUME NEW n \in Others, OnOther(n)
      PROVE  AudioInv'
  <2>1. AudioHasAllSlices'
    BY <1>4 DEF OnOther, AudioHasAllSlices, Other, Nothing
  <2> QED
    BY <1>0, <1>4, <2>1 DEF OnOther, AudioInv, HeaderKnown, Untouched
<1> QED
  BY <1>1, <1>2, <1>3, <1>4 DEF Next

\* Audio is reported only with every slice of its package, also when slices
\* of earlier and later packages came in between, and whatever the build makes
\* of an overflow in time_after: the stream only must not run half the number
\* space ahead of what has arrived.
THEOREM AudioIsWhole ==
    ASSUME Horizon < Half
    PROVE  Spec => []AudioHasAllSlices
<1>1. Init => AudioInv
  BY InitAudioInv
<1>2. AudioInv /\ [Next]_vars => AudioInv'
  BY NextAudioInv
<1>3. AudioInv => AudioHasAllSlices
  BY DEF AudioInv
<1> QED
  BY <1>1, <1>2, <1>3, PTL DEF Spec

-----------------------------------------------------------------------------
(* LaterAudioTaken and AudioMovesForward *)

\* Audio never stalls: a slice of a later package is always taken up, on a
\* build where the subtraction of time_after wraps.
THEOREM AudioNeverStalls ==
    ASSUME OverflowWraps
    PROVE  Spec => []LaterAudioTaken
<1>1. TypeOK => LaterAudioTaken
  <2> SUFFICES ASSUME TypeOK, NEW s \in Live, Before(combineAudio.seq, s), NEW m \in SlicesOf(s)
               PROVE  TakeAudio(m).seq = s
    BY DEF LaterAudioTaken
  <2>1. s \in SeqNo /\ combineAudio.seq \in SeqNo /\ m.seq = s
    BY SliceShape DEF TypeOK, Live
  <2>2. TimeAfter(s, combineAudio.seq)
    BY <2>1, BeforeIsAfter
  <2>3. CASE combineAudio.seq = s
    <3>1. Counted(combineAudio)
      BY TypeIsCounted
    <3> QED
      BY <2>1, <2>3, <3>1, PutPackageCounted DEF TakeAudio
  <2>4. CASE combineAudio.seq # s
    BY <2>1, <2>2, <2>4, InitPackageCounted DEF TakeAudio
  <2> QED
    BY <2>3, <2>4
<1> QED
  BY <1>1, AudioTypeCorrect, PTL

\* The numbers in play span less than half the number space, and the build's
\* subtraction wraps: what time_after needs to be an order.
WithinHalf == OverflowWraps /\ Horizon < Half /\ LiveWindow < Half

\* combineAudio is younger than half the space.
Window == Age(head, combineAudio.seq) < Half

\* Another package than combineAudio is taken up only when it is younger.
LEMMA ArriveWindow ==
    ASSUME WithinHalf, TypeOK, Window, NEW s \in Live, ArriveAudio(s)
    PROVE  /\ Window'
           /\ combineAudio'.seq # combineAudio.seq
                => Before(combineAudio.seq, combineAudio'.seq)
<1>1. PICK m \in SlicesOf(s) : OnAudio(m)
  BY DEF ArriveAudio
<1>2. /\ s \in SeqNo /\ head \in SeqNo /\ combineAudio.seq \in SeqNo /\ m.seq = s
      /\ Counted(combineAudio) /\ live \in Nat /\ live <= LiveWindow
      /\ LiveWindow \in Nat
  BY SliceShape, TypeIsCounted, AudioAssumption DEF Live, Counted, PackageFields
<1>3. Half \in Nat /\ SeqSpace = 2 * Half /\ LiveWindow < Half
  BY HalfType DEF WithinHalf
<1>4. Age(head, s) <= live /\ Age(head, s) \in Int
  BY <1>2, <1>3, AgeOfLive, AgeType DEF Live
<1>5. Age(head, s) < Half
  BY <1>2, <1>3, <1>4
<1>6. head' = head /\ combineAudio'.seq = TakeAudio(m).seq
  BY <1>1, <1>2, OnAudioCounted DEF OnAudio
<1>7. TakeAudio(m).seq \in {combineAudio.seq, s}
  BY <1>2, TakeAudioCounted
<1>8. TakeAudio(m).seq # combineAudio.seq => TimeAfter(s, combineAudio.seq)
  BY <1>2, PutPackageCounted DEF TakeAudio
<1>9. TimeAfter(s, combineAudio.seq) => Before(combineAudio.seq, s)
  BY <1>2, <1>5, AgeOrders DEF Window, WithinHalf
<1> QED
  BY <1>5, <1>6, <1>7, <1>8, <1>9 DEF Window

\* The stream goes on only while combineAudio stays young.
LEMMA EmitWindow ==
    ASSUME WithinHalf, TypeOK, Window, Emit
    PROVE  Window'
<1>1. head \in SeqNo /\ combineAudio.seq \in SeqNo
  BY DEF TypeOK
<1>2. Age(head, combineAudio.seq) < Horizon /\ Age(head, combineAudio.seq) \in Int
  BY <1>1, AgeType DEF Emit, Age
<1>3. Half \in Nat /\ SeqSpace = 2 * Half /\ Horizon < Half /\ Horizon \in Nat
  BY HalfType, AudioAssumption DEF WithinHalf
<1>4. Age(NextSeq(head), combineAudio.seq) = Age(head, combineAudio.seq) + 1
  <2>1. Age(head, combineAudio.seq) < SeqSpace - 1
    BY <1>2, <1>3
  <2> QED
    BY <1>1, <2>1, AgeNext
<1>5. Age(NextSeq(head), combineAudio.seq) < Half
  BY <1>2, <1>3, <1>4
<1> QED
  BY <1>5 DEF Window, Emit

\* The constructor's -1 is the number before the first.
LEMMA InitWindow ==
    ASSUME WithinHalf
    PROVE  Init => Window
<1> SUFFICES ASSUME Init PROVE Window
  OBVIOUS
<1>1. combineAudio.seq = SeqSpace - 1 /\ head = SeqSpace - 1
  BY DEF Init
<1>2. /\ Half \in Nat /\ SeqSpace = 2 * Half /\ SeqSpace \in Nat \ {0}
      /\ LiveWindow \in Nat \ {0} /\ LiveWindow < Half
  BY HalfType, SeqSpaceAssumption, AudioAssumption DEF WithinHalf
<1>3. NextSeq(head) = 0
  BY <1>1, <1>2, Remainder DEF NextSeq
<1>4. (0 - (SeqSpace - 1)) % SeqSpace = 1
  <2>1. 0 \in SeqNo /\ SeqSpace - 1 \in SeqNo
    BY <1>2 DEF SeqNo
  <2>2. (0 - (SeqSpace - 1)) % SeqSpace
          = IF 0 < SeqSpace - 1 THEN 0 - (SeqSpace - 1) + SeqSpace ELSE 0 - (SeqSpace - 1)
    BY <2>1, Distance
  <2> QED
    BY <1>2, <2>2
<1> QED
  BY <1>1, <1>2, <1>3, <1>4 DEF Window, Age

\* The audio package only ever gives way to a later one, so nothing is
\* reported after a later package was (OnUdpSliceReceived).
THEOREM AudioGoesForward ==
    ASSUME WithinHalf
    PROVE  Spec => AudioMovesForward
<1> DEFINE Forward == combineAudio'.seq # combineAudio.seq
                        => Before(combineAudio.seq, combineAudio'.seq)
           Inv == TypeOK /\ Window
<1>1. Init => Inv
  BY InitType, InitWindow
<1>2. Inv /\ [Next]_vars => Inv' /\ [Forward]_vars
  <2> SUFFICES ASSUME TypeOK, Window, [Next]_vars PROVE Window' /\ Forward
    BY NextType
  <2>1. CASE UNCHANGED vars
    BY <2>1 DEF vars, Window
  <2>2. CASE Emit
    BY <2>2, EmitWindow DEF Emit
  <2>3. ASSUME NEW s \in Live, ArriveAudio(s)
        PROVE  Window' /\ Forward
    BY <2>3, ArriveWindow
  <2>4. ASSUME NEW n \in Others, OnOther(n)
        PROVE  Window' /\ Forward
    BY <2>4 DEF OnOther, Window
  <2> QED
    BY <2>1, <2>2, <2>3, <2>4 DEF Next
<1> QED
  BY <1>1, <1>2, PTL DEF Spec, AudioMovesForward, Forward
=============================================================================
