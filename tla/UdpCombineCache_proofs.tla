----------------------- MODULE UdpCombineCache_proofs -----------------------
(***************************************************************************)
(* What TLAPS proves of the video cache for every number space, list       *)
(* capacity, retry count, window and table of frames, and that the sender  *)
(* of UdpStream is an instance of the environment the cache has there.     *)
(***************************************************************************)
EXTENDS UdpStream, UdpSlices_proofs, SequenceTheorems, WellFoundedInduction

-----------------------------------------------------------------------------
(* The list *)

\* A stretch of a sequence.
LEMMA SubSeqType ==
    ASSUME NEW S, NEW list \in Seq(S), NEW i \in Nat \ {0}, NEW j \in 0 .. Len(list)
    PROVE  /\ SubSeq(list, i, j) \in Seq(S)
           /\ Len(SubSeq(list, i, j)) = IF i <= j THEN j - i + 1 ELSE 0
           /\ \A k \in 1 .. j - i + 1 : SubSeq(list, i, j)[k] = list[k + i - 1]
<1>1. Len(list) \in Nat /\ \A k \in 1 .. Len(list) : list[k] \in S
  BY LenProperties, ElementOfSeq
<1>2. \A k \in i .. j : list[k] \in S
  BY <1>1
<1>3. i \in Int /\ j \in Int
  BY <1>1
<1> QED
  BY <1>1, <1>2, <1>3, SubSeqProperties

\* Inserting one element.
LEMMA InsertAtType ==
    ASSUME NEW S, NEW list \in Seq(S), NEW k \in 1 .. Len(list) + 1, NEW e \in S
    PROVE  /\ InsertAt(list, k, e) \in Seq(S)
           /\ Len(InsertAt(list, k, e)) = Len(list) + 1
           /\ \A i \in 1 .. Len(list) + 1 :
                InsertAt(list, k, e)[i] = IF i < k THEN list[i]
                                          ELSE IF i = k THEN e ELSE list[i - 1]
<1> DEFINE a == SubSeq(list, 1, k - 1)
           b == SubSeq(list, k, Len(list))
           c == a \o <<e>>
<1>0. Len(list) \in Nat
  BY LenProperties
<1>1. /\ a \in Seq(S) /\ Len(a) = k - 1
      /\ \A i \in 1 .. k - 1 : a[i] = list[i]
  <2>1. k - 1 \in 0 .. Len(list)
    BY <1>0
  <2> QED
    BY <1>0, <2>1, SubSeqType
<1>2. /\ b \in Seq(S) /\ Len(b) = Len(list) - k + 1
      /\ \A i \in 1 .. Len(list) - k + 1 : b[i] = list[i + k - 1]
  <2>1. Len(list) \in 0 .. Len(list) /\ k \in Nat \ {0}
    BY <1>0
  <2> QED
    BY <1>0, <2>1, SubSeqType
<1>3. <<e>> \in Seq(S) /\ Len(<<e>>) = 1 /\ <<e>>[1] = e
  OBVIOUS
<1> HIDE DEF a, b
<1>4. /\ c \in Seq(S) /\ Len(c) = k
      /\ \A i \in 1 .. k : c[i] = IF i < k THEN list[i] ELSE e
  <2>1. /\ c \in Seq(S) /\ Len(c) = Len(a) + 1
        /\ \A i \in 1 .. Len(a) + 1 : c[i] = IF i <= Len(a) THEN a[i] ELSE <<e>>[i - Len(a)]
    BY <1>1, <1>3, ConcatProperties
  <2> HIDE DEF c
  <2>2. \A i \in 1 .. k : c[i] = IF i < k THEN list[i] ELSE e
    <3> SUFFICES ASSUME NEW i \in 1 .. k PROVE c[i] = IF i < k THEN list[i] ELSE e
      OBVIOUS
    <3>1. CASE i < k
      BY <1>0, <1>1, <2>1, <3>1
    <3>2. CASE i = k
      BY <1>0, <1>1, <1>3, <2>1, <3>2
    <3> QED
      BY <1>0, <3>1, <3>2
  <2> QED
    BY <1>0, <1>1, <2>1, <2>2
<1> HIDE DEF c
<1>5. /\ c \o b \in Seq(S) /\ Len(c \o b) = Len(c) + Len(b)
      /\ \A i \in 1 .. Len(c) + Len(b) :
           (c \o b)[i] = IF i <= Len(c) THEN c[i] ELSE b[i - Len(c)]
  BY <1>2, <1>4, ConcatProperties
<1>6. Len(c \o b) = Len(list) + 1
  BY <1>0, <1>2, <1>4, <1>5
<1>7. \A i \in 1 .. Len(list) + 1 :
         (c \o b)[i] = IF i < k THEN list[i] ELSE IF i = k THEN e ELSE list[i - 1]
  <2> SUFFICES ASSUME NEW i \in 1 .. Len(list) + 1
               PROVE  (c \o b)[i] = IF i < k THEN list[i]
                                    ELSE IF i = k THEN e ELSE list[i - 1]
    OBVIOUS
  <2>1. CASE i <= k
    BY <1>0, <1>2, <1>4, <1>5, <2>1
  <2>2. CASE i > k
    <3>1. (c \o b)[i] = b[i - k] /\ i - k \in 1 .. Len(list) - k + 1
      BY <1>0, <1>2, <1>4, <1>5, <2>2
    <3>2. b[i - k] = list[(i - k) + k - 1]
      BY <1>2, <3>1
    <3>3. (i - k) + k - 1 = i - 1
      BY <1>0
    <3> QED
      BY <1>0, <2>2, <3>1, <3>2, <3>3
  <2>3. i <= k \/ i > k
    BY <1>0
  <2> QED
    BY <2>1, <2>2, <2>3
<1> QED
  BY <1>5, <1>6, <1>7 DEF InsertAt, a, b, c

\* Eviction leaves room for one more package.
LEMMA EvictType ==
    ASSUME NEW list \in Seq(Package)
    PROVE  /\ Evict(list) \in Seq(Package)
           /\ Len(Evict(list)) < MaxList
<1>1. Len(list) \in Nat /\ MaxList \in Nat \ {0}
  BY LenProperties, CacheAssumption
<1>2. CASE Len(list) >= MaxList
  <2>1. Evict(list) = SubSeq(list, Len(list) - MaxList + 2, Len(list))
    BY <1>2 DEF Evict
  <2>2. Len(list) - MaxList + 2 \in Nat \ {0} /\ Len(list) \in 0 .. Len(list)
    BY <1>1, <1>2
  <2>3. /\ Evict(list) \in Seq(Package)
        /\ Len(Evict(list)) = IF Len(list) - MaxList + 2 <= Len(list)
                               THEN Len(list) - (Len(list) - MaxList + 2) + 1 ELSE 0
    BY <2>1, <2>2, SubSeqType
  <2> QED
    BY <1>1, <1>2, <2>3
<1>3. CASE ~(Len(list) >= MaxList)
  BY <1>1, <1>3 DEF Evict
<1> QED
  BY <1>2, <1>3

\* The list with a slice in it: packages only, never more than MaxList.
LEMMA AbsorbType ==
    ASSUME packList \in Seq(Package), Len(packList) <= MaxList,
           NEW s \in SeqNo, NEW m \in SlicesOf(s), NEW list \in Absorb(m)
    PROVE  list \in Seq(Package) /\ Len(list) \in 1 .. MaxList
<1>0. Len(packList) \in Nat /\ MaxList \in Nat \ {0}
  BY LenProperties, CacheAssumption
<1>1. CASE m.seq \in SeqsOf(packList)
  <2>1. PICK i \in DOMAIN packList :
             list = ReplaceAt(packList, i, PutPackage(packList[i], m))
    BY <1>1 DEF Absorb
  <2>2. i \in 1 .. Len(packList) /\ packList[i] \in Package
    BY <2>1, LenProperties, ElementOfSeq
  <2>3. PutPackage(packList[i], m) \in Package
    BY <2>2, PutPackageOK
  <2>4. /\ list \in Seq(Package)
        /\ Len(list) = Len(packList)
    BY <2>1, <2>2, <2>3, ExceptSeq DEF ReplaceAt
  <2> QED
    BY <1>0, <2>2, <2>4
<1>2. CASE m.seq \notin SeqsOf(packList)
  <2> DEFINE kept == Evict(packList)
  <2>1. PICK k \in InsertPos(kept, m.seq) : list = InsertAt(kept, k, InitPackage(m))
    BY <1>2 DEF Absorb
  <2>2. kept \in Seq(Package) /\ Len(kept) < MaxList /\ Len(kept) \in Nat
    BY EvictType, LenProperties
  <2>3. k \in 1 .. Len(kept) + 1
    BY <2>1 DEF InsertPos
  <2>4. InitPackage(m) \in Package
    BY InitPackageOK
  <2> HIDE DEF kept
  <2>5. list \in Seq(Package) /\ Len(list) = Len(kept) + 1
    BY <2>1, <2>2, <2>3, <2>4, InsertAtType
  <2> QED
    BY <1>0, <2>2, <2>5
<1> QED
  BY <1>1, <1>2

\* Dropping packages from the front.
LEMMA DropType ==
    ASSUME NEW list \in Seq(Package), NEW n \in 0 .. Len(list)
    PROVE  /\ Drop(list, n) \in Seq(Package)
           /\ Len(Drop(list, n)) = Len(list) - n
<1>1. Len(list) \in Nat
  BY LenProperties
<1>2. n + 1 \in Nat \ {0} /\ Len(list) \in 0 .. Len(list)
  BY <1>1
<1> QED
  BY <1>1, <1>2, SubSeqType DEF Drop

\* The tail of OnUdpSliceReceived hands up whole frames only.
LEMMA FlushOK ==
    ASSUME NEW list \in Seq(Package), Len(list) <= MaxList,
           NEW next \in SeqNo, NEW retries \in 0 .. CountRetry,
           Flush(list, next, retries)
    PROVE  /\ packList' \in Seq(Package)
           /\ Len(packList') <= MaxList
           /\ seqReport' \in SeqNo
           /\ retryCount' \in 0 .. CountRetry
           /\ resendDue' = resendDue
           /\ request' = NoRequest
           /\ reported' \in Seq(Package)
           /\ ReportedWhole'
<1>1. PICK n \in Leading(list, TRUE) :
         /\ packList' = Drop(list, n)
         /\ reported' = SubSeq(list, 1, n)
         /\ seqReport' = IF n = 0 THEN next ELSE NextSeq(list[n].seq)
         /\ retryCount' = IF n = 0 THEN retries ELSE 0
         /\ request' = NoRequest
         /\ UNCHANGED resendDue
  BY DEF Flush
<1>2. /\ Len(list) \in Nat /\ CountRetry \in Nat /\ MaxList \in Nat
      /\ n \in 0 .. Len(list) /\ \A i \in 1 .. n : IsDone(list[i])
  BY <1>1, LenProperties, CacheAssumption DEF Leading
<1>3. \A i \in 1 .. n : list[i] \in Package /\ list[i].seq \in SeqNo
  <2>1. \A i \in 1 .. n : list[i] \in Package
    BY <1>2, ElementOfSeq
  <2>2. \A p \in Package : p.seq \in SeqNo
    BY DEF Package
  <2> QED
    BY <2>1, <2>2
<1>4. packList' \in Seq(Package) /\ Len(packList') <= MaxList
  BY <1>1, <1>2, DropType
<1>5. seqReport' \in SeqNo
  BY <1>1, <1>2, <1>3, NextSeqType
<1>6. /\ reported' \in Seq(Package) /\ Len(reported') = n
      /\ \A i \in 1 .. n : reported'[i] = list[i]
  BY <1>1, <1>2, SubSeqType
<1>7. \A i \in DOMAIN reported' : IsWhole(reported'[i])
  BY <1>2, <1>3, <1>6, LenProperties, DoneIsWhole
<1> QED
  BY <1>1, <1>2, <1>4, <1>5, <1>6, <1>7 DEF ReportedWhole

-----------------------------------------------------------------------------
(* The invariant *)

\* TypeOK and ReportedWhole are inductive together: every way through
\* OnUdpSliceReceived builds the list from packages that account exactly for
\* their slices, and only Flush fills reported.
Inv == TypeOK /\ ReportedWhole

\* A call that hands up nothing.
LEMMA QuietOK ==
    ASSUME reported' = <<>>
    PROVE  reported' \in Seq(Package) /\ ReportedWhole'
BY DEF ReportedWhole

LEMMA InitInv == Init => Inv
<1> SUFFICES ASSUME Init PROVE Inv
  OBVIOUS
<1>1. packList \in Seq(Package) /\ Len(packList) = 0 /\ reported \in Seq(Package)
  BY DEF Init
<1>2. 0 \in SeqNo /\ SeqSpace - 1 \in SeqNo
  BY SeqSpaceAssumption DEF SeqNo
<1>3. 0 \in 0 .. CountRetry /\ 0 \in 0 .. LiveWindow /\ 0 <= MaxList
  BY CacheAssumption
<1>4. ReportedWhole
  BY DEF Init, ReportedWhole
<1>5. request \in Request /\ resendDue \in BOOLEAN
  BY DEF Init, Request
<1> QED
  BY <1>1, <1>2, <1>3, <1>4, <1>5 DEF Init, Inv, TypeOK

\* One arriving slice, whichever way it takes through the call.
LEMMA ArriveInv ==
    ASSUME Inv, NEW s \in SeqNo, NEW m \in SlicesOf(s), OnUdpSliceReceived(m)
    PROVE  Inv'
<1>0. /\ packList \in Seq(Package) /\ Len(packList) <= MaxList
      /\ seqReport \in SeqNo /\ retryCount \in 0 .. CountRetry
      /\ resendDue \in BOOLEAN
      /\ head' \in SeqNo /\ live' \in 0 .. LiveWindow
  BY DEF Inv, TypeOK, OnUdpSliceReceived
<1>a. NoRequest \in Request
  BY DEF Request
<1>1. CASE IgnoreOld(m)
  <2>1. Evict(packList) \in Seq(Package) /\ Len(Evict(packList)) <= MaxList
    <3>1. Len(Evict(packList)) \in Nat /\ MaxList \in Nat
      BY <1>0, EvictType, LenProperties, CacheAssumption
    <3> QED
      BY <1>0, <3>1, EvictType
  <2>2. reported' \in Seq(Package) /\ ReportedWhole'
    BY <1>1, QuietOK DEF IgnoreOld, Quiet
  <2> QED
    BY <1>0, <1>a, <1>1, <2>1, <2>2 DEF IgnoreOld, Quiet, Inv, TypeOK
<1>2. ASSUME NEW list \in Absorb(m),
             AskRange(list) \/ WaitForRange(list) \/ AskSlices(list)
               \/ Report(list) \/ GiveUp(list)
      PROVE  Inv'
  <2>0. /\ list \in Seq(Package) /\ Len(list) \in 1 .. MaxList
        /\ Len(list) <= MaxList
    <3>1. MaxList \in Nat
      BY CacheAssumption
    <3> QED
      BY <1>0, <3>1, AbsorbType
  <2>1. list[1] \in Package /\ list[1].seq \in SeqNo
    BY <2>0, ElementOfSeq DEF Package
  <2>2. CASE AskRange(list)
    <3>1. request' \in Request
      BY <1>0, <2>1, <2>2 DEF AskRange, Resend, RequestRangeSend, Request
    <3>2. retryCount' \in 0 .. CountRetry
      BY <1>0, <2>2, CacheAssumption DEF AskRange, Resend
    <3>3. reported' \in Seq(Package) /\ ReportedWhole'
      BY <2>2, QuietOK DEF AskRange, Resend
    <3> QED
      BY <1>0, <2>0, <2>2, <3>1, <3>2, <3>3 DEF AskRange, Resend, Inv, TypeOK
  <2>3. CASE WaitForRange(list)
    <3>1. reported' \in Seq(Package) /\ ReportedWhole'
      BY <2>3, QuietOK DEF WaitForRange, Quiet
    <3> QED
      BY <1>0, <1>a, <2>0, <2>3, <3>1 DEF WaitForRange, Quiet, Inv, TypeOK
  <2>4. CASE AskSlices(list)
    <3>1. list[1].mask \in SUBSET Nat /\ list[1].slices \in Nat
      BY <2>1 DEF Package
    <3>2. GetRequestSliceMask(list[1]) \in SUBSET Nat
      BY <3>1 DEF GetRequestSliceMask
    <3>3. request' \in Request
      BY <2>1, <2>4, <3>2 DEF AskSlices, Resend, RequestSend, Request
    <3>4. retryCount' \in 0 .. CountRetry
      BY <1>0, <2>4, CacheAssumption DEF AskSlices, Resend
    <3>5. reported' \in Seq(Package) /\ ReportedWhole'
      BY <2>4, QuietOK DEF AskSlices, Resend
    <3> QED
      BY <1>0, <2>0, <2>4, <3>3, <3>4, <3>5 DEF AskSlices, Resend, Inv, TypeOK
  <2>5. CASE Report(list)
    <3>1. Flush(list, seqReport, retryCount)
      BY <2>5 DEF Report
    <3> QED
      BY <1>0, <1>a, <2>0, <3>1, FlushOK DEF Inv, TypeOK
  <2>6. CASE GiveUp(list)
    <3>1. PICK n \in Leading(list, FALSE) :
             Flush(Drop(list, n), NextSeq(list[IF n < Len(list) THEN n + 1 ELSE n].seq), 0)
      BY <2>6 DEF GiveUp
    <3> DEFINE seen == IF n < Len(list) THEN n + 1 ELSE n
    <3>2. n \in 0 .. Len(list) /\ seen \in 1 .. Len(list)
      BY <2>0, <3>1 DEF Leading
    <3>3. list[seen].seq \in SeqNo
      <4>1. list[seen] \in Package
        BY <2>0, <3>2, ElementOfSeq
      <4> QED
        BY <4>1 DEF Package
    <3>4. NextSeq(list[seen].seq) \in SeqNo /\ 0 \in 0 .. CountRetry
      BY <3>3, NextSeqType, CacheAssumption
    <3>5. Drop(list, n) \in Seq(Package) /\ Len(Drop(list, n)) <= MaxList
      <4>1. /\ Drop(list, n) \in Seq(Package)
            /\ Len(Drop(list, n)) = Len(list) - n
        BY <2>0, <3>2, DropType
      <4> QED
        BY <2>0, <3>2, <4>1, CacheAssumption
    <3> QED
      BY <1>0, <1>a, <3>1, <3>4, <3>5, FlushOK DEF Inv, TypeOK
  <2> QED
    BY <1>2, <2>2, <2>3, <2>4, <2>5, <2>6
<1> QED
  BY <1>1, <1>2 DEF OnUdpSliceReceived

LEMMA NextInv == Inv /\ [Next]_vars => Inv'
<1> SUFFICES ASSUME Inv, [Next]_vars PROVE Inv'
  OBVIOUS
<1>a. NoRequest \in Request
  BY DEF Request
<1>1. CASE Emit
  <2>1. head' \in SeqNo
    BY <1>1, NextSeqType DEF Emit, Inv, TypeOK
  <2>2. live' \in 0 .. LiveWindow
    BY <1>1, CacheAssumption DEF Emit, Inv, TypeOK
  <2>3. reported' \in Seq(Package) /\ ReportedWhole'
    BY <1>1, QuietOK DEF Emit, Quiet
  <2> QED
    BY <1>a, <1>1, <2>1, <2>2, <2>3 DEF Emit, Quiet, Inv, TypeOK
<1>2. CASE Tick
  <2>1. reported' \in Seq(Package) /\ ReportedWhole'
    BY <1>2, QuietOK DEF Tick, Quiet
  <2> QED
    BY <1>a, <1>2, <2>1 DEF Tick, Quiet, Inv, TypeOK
<1>3. ASSUME NEW s \in Live, Arrive(s)
      PROVE  Inv'
  <2>1. s \in SeqNo
    BY DEF Live
  <2>2. PICK m \in SlicesOf(s) : OnUdpSliceReceived(m)
    BY <1>3 DEF Arrive
  <2> QED
    BY <2>1, <2>2, ArriveInv
<1>4. CASE UNCHANGED vars
  BY <1>4 DEF vars, Inv, TypeOK, ReportedWhole
<1> QED
  BY <1>1, <1>2, <1>3, <1>4 DEF Next

\* In every behaviour the list never exceeds its capacity and every package
\* in it accounts exactly for the slices that arrived, whatever is lost,
\* repeated or reordered (CombineCache::OnUdpSliceReceived).
THEOREM TypeCorrect == Spec => []TypeOK
<1>1. Init => Inv
  BY InitInv
<1>2. Inv /\ [Next]_vars => Inv'
  BY NextInv
<1>3. Inv => TypeOK
  BY DEF Inv
<1> QED
  BY <1>1, <1>2, <1>3, PTL DEF Spec

\* Only whole frames are reported: all slices, each counted once.
THEOREM OnlyWholeFrames == Spec => []ReportedWhole
<1>1. Init => Inv
  BY InitInv
<1>2. Inv /\ [Next]_vars => Inv'
  BY NextInv
<1>3. Inv => ReportedWhole
  BY DEF Inv
<1> QED
  BY <1>1, <1>2, <1>3, PTL DEF Spec

-----------------------------------------------------------------------------
(* The order of the list *)

\* The build wraps on overflow, and the stream never runs half the number space
\* ahead of what the cache has: the premise of what follows.
WithinHalf == OverflowWraps /\ Horizon < Half /\ LiveWindow < Half

\* The packages of a list are numbered in the order of the list, the oldest one
\* first, and all of them are younger than half the number space.
InOrder(h, list) ==
    /\ \A i \in 1 .. Len(list) : 0 < Age(h, list[i].seq) /\ Age(h, list[i].seq) < Half
    /\ \A i, j \in 1 .. Len(list) : i < j => Age(h, list[j].seq) < Age(h, list[i].seq)

\* The list and the number to be reported next lie in that window.  Serial
\* order is transitive there, which ListSorted alone does not say.
Window == InOrder(head, packList) /\ Age(head, seqReport) < Half

\* The numbers in a list of packages.
LEMMA SeqOfPackage ==
    ASSUME NEW list \in Seq(Package)
    PROVE  /\ Len(list) \in Nat
           /\ DOMAIN list = 1 .. Len(list)
           /\ \A i \in 1 .. Len(list) : list[i] \in Package /\ list[i].seq \in SeqNo
<1>1. Len(list) \in Nat /\ DOMAIN list = 1 .. Len(list)
  BY LenProperties
<1>2. \A i \in 1 .. Len(list) : list[i] \in Package
  BY ElementOfSeq
<1>3. \A p \in Package : p.seq \in SeqNo
  BY DEF Package
<1> QED
  BY <1>1, <1>2, <1>3

\* A stretch of an ordered list is ordered.
LEMMA SubSeqOrder ==
    ASSUME NEW h \in SeqNo, NEW list \in Seq(Package), InOrder(h, list),
           NEW i \in Nat \ {0}, NEW j \in 0 .. Len(list)
    PROVE  InOrder(h, SubSeq(list, i, j))
<1> DEFINE sub == SubSeq(list, i, j)
<1>0. Len(list) \in Nat
  BY LenProperties
<1>1. /\ Len(sub) = IF i <= j THEN j - i + 1 ELSE 0
      /\ \A k \in 1 .. j - i + 1 : sub[k] = list[k + i - 1]
  BY SubSeqType
<1> HIDE DEF sub
<1>2. \A k \in 1 .. Len(sub) : k + i - 1 \in 1 .. Len(list) /\ sub[k] = list[k + i - 1]
  BY <1>0, <1>1
<1>3. \A k, l \in 1 .. Len(sub) : k < l => k + i - 1 < l + i - 1
  BY <1>0, <1>1
<1>4. InOrder(h, sub)
  BY <1>2, <1>3 DEF InOrder
<1> QED
  BY <1>4 DEF sub

\* Eviction takes from the front.
LEMMA EvictOrder ==
    ASSUME NEW h \in SeqNo, NEW list \in Seq(Package), InOrder(h, list)
    PROVE  InOrder(h, Evict(list))
<1>1. Len(list) \in Nat /\ MaxList \in Nat \ {0}
  BY LenProperties, CacheAssumption
<1>2. CASE Len(list) >= MaxList
  <2>1. Len(list) - MaxList + 2 \in Nat \ {0} /\ Len(list) \in 0 .. Len(list)
    BY <1>1, <1>2
  <2>2. Evict(list) = SubSeq(list, Len(list) - MaxList + 2, Len(list))
    BY <1>2 DEF Evict
  <2> QED
    BY <2>1, <2>2, SubSeqOrder
<1>3. CASE ~(Len(list) >= MaxList)
  BY <1>3 DEF Evict
<1> QED
  BY <1>2, <1>3

\* Eviction only takes away.
LEMMA EvictSeqs ==
    ASSUME NEW list \in Seq(Package), NEW i \in 1 .. Len(Evict(list))
    PROVE  Evict(list)[i].seq \in SeqsOf(list)
<1>1. Len(list) \in Nat /\ MaxList \in Nat \ {0} /\ DOMAIN list = 1 .. Len(list)
  BY LenProperties, CacheAssumption
<1>2. CASE Len(list) >= MaxList
  <2> DEFINE k == Len(list) - MaxList + 2
  <2>1. k \in Nat \ {0} /\ Len(list) \in 0 .. Len(list)
    BY <1>1, <1>2
  <2>2. Evict(list) = SubSeq(list, k, Len(list))
    BY <1>2 DEF Evict
  <2> HIDE DEF k
  <2>3. i + k - 1 \in 1 .. Len(list) /\ Evict(list)[i] = list[i + k - 1]
    <3>1. /\ Len(Evict(list)) = IF k <= Len(list) THEN Len(list) - k + 1 ELSE 0
          /\ \A n \in 1 .. Len(list) - k + 1 : Evict(list)[n] = list[n + k - 1]
      BY <2>1, <2>2, SubSeqType
    <3> QED
      BY <1>1, <2>1, <3>1
  <2> QED
    BY <1>1, <2>3 DEF SeqsOf
<1>3. CASE ~(Len(list) >= MaxList)
  BY <1>1, <1>3 DEF Evict, SeqsOf
<1> QED
  BY <1>2, <1>3

\* A new package goes where its number belongs.
LEMMA InsertOrder ==
    ASSUME OverflowWraps, NEW h \in SeqNo, NEW list \in Seq(Package), InOrder(h, list),
           NEW p \in Package, 0 < Age(h, p.seq), Age(h, p.seq) < Half,
           \A i \in 1 .. Len(list) : list[i].seq # p.seq,
           NEW k \in InsertPos(list, p.seq)
    PROVE  InOrder(h, InsertAt(list, k, p))
<1> DEFINE new == InsertAt(list, k, p)
           s == p.seq
<1>0. /\ Len(list) \in Nat /\ s \in SeqNo
      /\ Age(h, s) \in Int
      /\ \A i \in 1 .. Len(list) : list[i].seq \in SeqNo /\ Age(h, list[i].seq) \in Int
  <2>1. \A t \in SeqNo : Age(h, t) \in Int
    BY AgeType
  <2> QED
    BY <2>1, SeqOfPackage DEF Package
<1>1. /\ k \in 1 .. Len(list) + 1
      /\ \A i \in 1 .. k - 1 : ~TimeAfter(list[i].seq, s)
      /\ k <= Len(list) => TimeAfter(list[k].seq, s)
  BY DEF InsertPos
<1>2. \A i \in 1 .. Len(list) :
         /\ TimeAfter(list[i].seq, s) <=> Age(h, list[i].seq) < Age(h, s)
         /\ Age(h, list[i].seq) # Age(h, s)
  <2> SUFFICES ASSUME NEW i \in 1 .. Len(list)
               PROVE  /\ TimeAfter(list[i].seq, s) <=> Age(h, list[i].seq) < Age(h, s)
                      /\ Age(h, list[i].seq) # Age(h, s)
    OBVIOUS
  <2>1. Age(h, list[i].seq) < Half /\ list[i].seq # s /\ list[i].seq \in SeqNo
    BY <1>0 DEF InOrder
  <2> QED
    BY <1>0, <2>1, AgeOrders
<1>4. \A i \in 1 .. Len(list) : i < k => Age(h, s) < Age(h, list[i].seq)
  BY <1>0, <1>1, <1>2
<1>5. \A i \in 1 .. Len(list) : i >= k => Age(h, list[i].seq) < Age(h, s)
  <2> SUFFICES ASSUME NEW i \in 1 .. Len(list), i >= k
               PROVE  Age(h, list[i].seq) < Age(h, s)
    OBVIOUS
  <2>1. k \in 1 .. Len(list) /\ Age(h, list[k].seq) < Age(h, s)
    BY <1>0, <1>1, <1>2
  <2>2. i = k \/ k < i
    BY <1>0, <2>1
  <2>3. k < i => Age(h, list[i].seq) < Age(h, list[k].seq)
    BY <2>1, Zenon DEF InOrder
  <2> QED
    BY <1>0, <2>1, <2>2, <2>3
<1>6. /\ Len(new) = Len(list) + 1
      /\ \A i \in 1 .. Len(list) + 1 :
           new[i] = IF i < k THEN list[i] ELSE IF i = k THEN p ELSE list[i - 1]
  <2>1. k \in 1 .. Len(list) + 1
    BY <1>1
  <2> QED
    BY <2>1, InsertAtType, SMTT(30)
<1> HIDE DEF new
<1>7. \A i \in 1 .. Len(new) :
         \/ i < k /\ i \in 1 .. Len(list) /\ new[i] = list[i]
         \/ i = k /\ new[i] = p
         \/ i > k /\ i - 1 \in 1 .. Len(list) /\ i - 1 >= k /\ new[i] = list[i - 1]
  BY <1>0, <1>1, <1>6
<1>8. \A i \in 1 .. Len(new) : 0 < Age(h, new[i].seq) /\ Age(h, new[i].seq) < Half
  BY <1>7 DEF InOrder
<1>9. ASSUME NEW i \in 1 .. Len(new), NEW j \in 1 .. Len(new), i < j
      PROVE  Age(h, new[j].seq) < Age(h, new[i].seq)
  <2>0. i \in Int /\ j \in Int /\ k \in Int
    BY <1>0, <1>1, <1>6
  <2>1. CASE j < k
    BY <1>7, <1>9, <2>0, <2>1 DEF InOrder
  <2>2. CASE j = k
    BY <1>4, <1>7, <1>9, <2>0, <2>2
  <2>3. CASE j > k /\ i <= k
    <3>1. j - 1 \in 1 .. Len(list) /\ j - 1 >= k /\ new[j] = list[j - 1]
      BY <1>7, <2>0, <2>3
    <3>2. Age(h, new[j].seq) < Age(h, s) /\ Age(h, new[j].seq) \in Int
      BY <1>0, <1>5, <3>1
    <3>3. CASE i = k
      BY <1>7, <2>0, <3>2, <3>3
    <3>4. CASE i < k
      <4>1. i \in 1 .. Len(list) /\ new[i] = list[i]
        BY <1>7, <2>0, <3>4
      <4>2. Age(h, s) < Age(h, new[i].seq) /\ Age(h, new[i].seq) \in Int
        BY <1>0, <1>4, <3>4, <4>1
      <4> QED
        BY <1>0, <3>2, <4>2
    <3> QED
      BY <2>0, <2>3, <3>3, <3>4
  <2>4. CASE i > k
    <3>1. /\ i - 1 \in 1 .. Len(list) /\ j - 1 \in 1 .. Len(list) /\ i - 1 < j - 1
          /\ new[i] = list[i - 1] /\ new[j] = list[j - 1]
      BY <1>7, <1>9, <2>0, <2>4
    <3> QED
      BY <3>1 DEF InOrder
  <2> QED
    BY <1>9, <2>0, <2>1, <2>2, <2>3, <2>4
<1> QED
  BY <1>8, <1>9 DEF InOrder, new

\* A slice that can still arrive leaves the list in order, wherever it goes.
LEMMA AbsorbOrder ==
    ASSUME OverflowWraps, NEW h \in SeqNo, packList \in Seq(Package), InOrder(h, packList),
           NEW s \in SeqNo, 0 < Age(h, s), Age(h, s) < Half,
           NEW m \in SlicesOf(s), NEW list \in Absorb(m)
    PROVE  InOrder(h, list)
<1>0. m.seq = s
  BY SliceShape
<1>1. CASE m.seq \in SeqsOf(packList)
  <2>1. PICK i \in DOMAIN packList :
             list = ReplaceAt(packList, i, PutPackage(packList[i], m))
    BY <1>1 DEF Absorb
  <2>2. i \in 1 .. Len(packList) /\ packList[i] \in Package
    BY <2>1, SeqOfPackage
  <2>3. PutPackage(packList[i], m) \in Package /\ PutPackage(packList[i], m).seq = packList[i].seq
    BY <2>2, PutPackageOK
  <2>4. /\ Len(list) = Len(packList)
        /\ \A j \in 1 .. Len(packList) :
             list[j] = IF j = i THEN PutPackage(packList[i], m) ELSE packList[j]
    BY <2>1, <2>2, <2>3, ExceptSeq DEF ReplaceAt
  <2>5. \A j \in 1 .. Len(list) : list[j].seq = packList[j].seq
    BY <2>3, <2>4
  <2> QED
    BY <2>4, <2>5 DEF InOrder
<1>2. CASE m.seq \notin SeqsOf(packList)
  <2> DEFINE kept == Evict(packList)
  <2>1. PICK k \in InsertPos(kept, m.seq) : list = InsertAt(kept, k, InitPackage(m))
    BY <1>2 DEF Absorb
  <2>2. kept \in Seq(Package) /\ InOrder(h, kept)
    BY EvictType, EvictOrder
  <2>3. \A i \in 1 .. Len(kept) : kept[i].seq # s
    BY <1>0, <1>2, EvictSeqs
  <2>4. InitPackage(m) \in Package /\ InitPackage(m).seq = s
    BY InitPackageOK
  <2> HIDE DEF kept
  <2> QED
    BY <1>0, <2>1, <2>2, <2>3, <2>4, InsertOrder
<1> QED
  BY <1>1, <1>2

\* The packages after the first n.
LEMMA DropOrder ==
    ASSUME NEW h \in SeqNo, NEW list \in Seq(Package), InOrder(h, list),
           NEW n \in 0 .. Len(list)
    PROVE  InOrder(h, Drop(list, n))
<1>1. Len(list) \in 0 .. Len(list) /\ n + 1 \in Nat \ {0}
  BY LenProperties
<1> QED
  BY <1>1, SubSeqOrder DEF Drop

\* Reporting keeps the rest in order, and the next number in the window.
LEMMA FlushOrder ==
    ASSUME NEW h \in SeqNo, NEW list \in Seq(Package), InOrder(h, list),
           NEW next \in SeqNo, Age(h, next) < Half, NEW retries,
           Flush(list, next, retries)
    PROVE  InOrder(h, packList') /\ Age(h, seqReport') < Half
<1>1. PICK n \in Leading(list, TRUE) :
         /\ packList' = Drop(list, n)
         /\ seqReport' = IF n = 0 THEN next ELSE NextSeq(list[n].seq)
  BY DEF Flush
<1>2. n \in 0 .. Len(list) /\ Len(list) \in Nat
  BY <1>1, LenProperties DEF Leading
<1>3. InOrder(h, packList')
  BY <1>1, <1>2, DropOrder
<1>4. CASE n = 0
  BY <1>1, <1>3, <1>4
<1>5. CASE n # 0
  <2>1. n \in 1 .. Len(list) /\ list[n].seq \in SeqNo
    BY <1>2, <1>5, SeqOfPackage
  <2>2. 0 < Age(h, list[n].seq) /\ Age(h, list[n].seq) < Half
    BY <2>1 DEF InOrder
  <2>3. Age(h, NextSeq(list[n].seq)) = Age(h, list[n].seq) - 1
    BY <2>1, <2>2, AgeOfNext
  <2>4. Age(h, list[n].seq) \in Int /\ Half \in Int
    BY <2>1, AgeType, HalfType
  <2> QED
    BY <1>1, <1>3, <1>5, <2>2, <2>3, <2>4
<1> QED
  BY <1>3, <1>4, <1>5

\* The numbers that can still arrive are in the window.
LEMMA LiveInWindow ==
    ASSUME WithinHalf, TypeOK, NEW s \in Live
    PROVE  s \in SeqNo /\ 0 < Age(head, s) /\ Age(head, s) < Half
<1>1. /\ s \in SeqNo /\ head \in SeqNo /\ (head - s) % SeqSpace < live
      /\ live \in 0 .. LiveWindow /\ LiveWindow \in Nat /\ LiveWindow < Half
      /\ Half \in Nat /\ SeqSpace = 2 * Half
  BY HalfType, CacheAssumption DEF Live, TypeOK, WithinHalf
<1>2. live \in Nat /\ live < SeqSpace
  BY <1>1
<1>3. 0 < Age(head, s) /\ Age(head, s) <= live
  BY <1>1, <1>2, AgeOfLive
<1>4. Age(head, s) \in Int
  BY <1>1, AgeType
<1> QED
  BY <1>1, <1>3, <1>4

\* One arriving slice.
LEMMA ArriveWindow ==
    ASSUME WithinHalf, Inv, Window, NEW s \in Live, NEW m \in SlicesOf(s),
           OnUdpSliceReceived(m)
    PROVE  Window'
<1>0. /\ packList \in Seq(Package) /\ Len(packList) <= MaxList
      /\ head \in SeqNo /\ seqReport \in SeqNo /\ head' = head /\ OverflowWraps
      /\ InOrder(head, packList) /\ Age(head, seqReport) < Half
  BY DEF Inv, TypeOK, OnUdpSliceReceived, WithinHalf, Window
<1>1. s \in SeqNo /\ 0 < Age(head, s) /\ Age(head, s) < Half
  BY LiveInWindow DEF Inv
<1> SUFFICES InOrder(head, packList') /\ Age(head, seqReport') < Half
  BY <1>0 DEF Window
<1>2. CASE IgnoreOld(m)
  BY <1>0, <1>2, EvictOrder DEF IgnoreOld
<1>3. ASSUME NEW list \in Absorb(m),
             AskRange(list) \/ WaitForRange(list) \/ AskSlices(list)
               \/ Report(list) \/ GiveUp(list)
      PROVE  InOrder(head, packList') /\ Age(head, seqReport') < Half
  <2>1. InOrder(head, list)
    BY <1>0, <1>1, AbsorbOrder
  <2>2. list \in Seq(Package) /\ Len(list) \in 1 .. MaxList
    BY <1>0, <1>1, AbsorbType
  <2>3. CASE AskRange(list) \/ WaitForRange(list) \/ AskSlices(list)
    BY <1>0, <2>1, <2>3 DEF AskRange, WaitForRange, AskSlices, Resend
  <2>4. CASE Report(list)
    BY <1>0, <2>1, <2>2, <2>4, FlushOrder DEF Report
  <2>5. CASE GiveUp(list)
    <3>1. PICK n \in Leading(list, FALSE) :
             Flush(Drop(list, n), NextSeq(list[IF n < Len(list) THEN n + 1 ELSE n].seq), 0)
      BY <2>5 DEF GiveUp
    <3> DEFINE seen == IF n < Len(list) THEN n + 1 ELSE n
    <3>2. n \in 0 .. Len(list) /\ seen \in 1 .. Len(list)
      BY <2>2, <3>1 DEF Leading
    <3>3. list[seen].seq \in SeqNo
      BY <2>2, <3>2, SeqOfPackage
    <3>4. 0 < Age(head, list[seen].seq) /\ Age(head, list[seen].seq) < Half
      BY <2>1, <3>2 DEF InOrder
    <3>5. /\ NextSeq(list[seen].seq) \in SeqNo
          /\ Age(head, NextSeq(list[seen].seq)) = Age(head, list[seen].seq) - 1
      BY <1>0, <3>3, <3>4, AgeOfNext
    <3>6. Age(head, NextSeq(list[seen].seq)) < Half
      <4>1. Age(head, list[seen].seq) \in Int /\ Half \in Int
        BY <1>0, <3>3, AgeType, HalfType
      <4> QED
        BY <3>4, <3>5, <4>1
    <3>7. Drop(list, n) \in Seq(Package) /\ InOrder(head, Drop(list, n))
      BY <1>0, <2>1, <2>2, <3>2, DropType, DropOrder
    <3> QED
      BY <1>0, <3>1, <3>5, <3>6, <3>7, FlushOrder
  <2> QED
    BY <1>3, <2>3, <2>4, <2>5
<1> QED
  BY <1>2, <1>3 DEF OnUdpSliceReceived

\* The stream goes on by one: all that the cache knows gets older by one.
LEMMA EmitWindow ==
    ASSUME WithinHalf, Inv, Window, Emit
    PROVE  Window'
<1>0. /\ packList \in Seq(Package) /\ head \in SeqNo /\ seqReport \in SeqNo
      /\ head' = NextSeq(head) /\ packList' = packList /\ seqReport' = seqReport
      /\ Horizon \in Nat /\ Horizon < Half /\ Half \in Nat /\ SeqSpace = 2 * Half
  BY HalfType, CacheAssumption DEF Inv, TypeOK, Emit, WithinHalf
<1>1. \A s \in SeqsOf(packList) \cup {seqReport} : Age(head, s) < Horizon
  BY DEF Emit, Age
<1>2. ASSUME NEW s \in SeqNo, Age(head, s) < Horizon
      PROVE  Age(head', s) = Age(head, s) + 1 /\ Age(head', s) < Half
  <2>1. Age(head, s) \in Int
    BY <1>0, AgeType
  <2>2. Age(head, s) < SeqSpace - 1
    BY <1>0, <1>2, <2>1
  <2>3. Age(NextSeq(head), s) = Age(head, s) + 1
    BY <1>0, <2>2, AgeNext
  <2> QED
    BY <1>0, <1>2, <2>1, <2>3
<1>3. Age(head', seqReport') < Half
  BY <1>0, <1>1, <1>2
<1>4. \A i \in 1 .. Len(packList) :
         /\ Age(head', packList[i].seq) = Age(head, packList[i].seq) + 1
         /\ Age(head', packList[i].seq) < Half
         /\ Age(head, packList[i].seq) \in Int
  <2>1. \A i \in 1 .. Len(packList) : packList[i].seq \in SeqNo /\ packList[i].seq \in SeqsOf(packList)
    BY <1>0, SeqOfPackage DEF SeqsOf
  <2>2. \A s \in SeqNo : Age(head, s) \in Int
    BY <1>0, AgeType
  <2> QED
    BY <1>1, <1>2, <2>1, <2>2
<1>5. InOrder(head', packList)
  BY <1>4 DEF InOrder, Window
<1> QED
  BY <1>0, <1>3, <1>5 DEF Window

LEMMA InitWindow == WithinHalf /\ Init => Window
<1> SUFFICES ASSUME WithinHalf, Init PROVE Window
  OBVIOUS
<1>1. head = SeqSpace - 1 /\ seqReport = 0 /\ packList = <<>> /\ Len(packList) = 0
  BY DEF Init
<1>2. Horizon \in Nat /\ Horizon < Half /\ Half \in Nat /\ SeqSpace = 2 * Half
  BY HalfType, CacheAssumption DEF WithinHalf
<1>3. head + 1 = SeqSpace /\ SeqSpace % SeqSpace = 0 /\ 0 % SeqSpace = 0
  BY <1>1, <1>2, Remainder
<1>4. Age(head, seqReport) = 0
  BY <1>1, <1>3 DEF Age, NextSeq
<1>5. InOrder(head, packList)
  BY <1>1 DEF InOrder
<1> QED
  BY <1>2, <1>4, <1>5 DEF Window

LEMMA NextWindow == WithinHalf /\ Inv /\ Window /\ [Next]_vars => Window'
<1> SUFFICES ASSUME WithinHalf, Inv, Window, [Next]_vars PROVE Window'
  OBVIOUS
<1>1. CASE Emit
  BY <1>1, EmitWindow
<1>2. CASE Tick
  BY <1>2 DEF Tick, Window
<1>3. ASSUME NEW s \in Live, Arrive(s) PROVE Window'
  BY <1>3, ArriveWindow DEF Arrive
<1>4. CASE UNCHANGED vars
  BY <1>4 DEF vars, Window
<1> QED
  BY <1>1, <1>2, <1>3, <1>4 DEF Next

\* In the window the order of ages is the serial order.
LEMMA WindowSorted ==
    ASSUME WithinHalf, TypeOK, Window
    PROVE  ListSorted
<1>1. /\ \A i \in 1 .. Len(packList) : packList[i].seq \in SeqNo
      /\ DOMAIN packList = 1 .. Len(packList) /\ head \in SeqNo /\ OverflowWraps
  BY SeqOfPackage DEF TypeOK, WithinHalf
<1> SUFFICES ASSUME NEW i \in 1 .. Len(packList), NEW j \in 1 .. Len(packList), i < j
             PROVE  Before(packList[i].seq, packList[j].seq)
  BY <1>1 DEF ListSorted
<1>2. /\ Age(head, packList[i].seq) < Half /\ Age(head, packList[j].seq) < Half
      /\ Age(head, packList[j].seq) < Age(head, packList[i].seq)
  BY DEF Window, InOrder
<1> QED
  BY <1>1, <1>2, AgeOrders

\* While the stream is within half the number space of the cache, the list is
\* strictly ascending in serial order, whatever order slices arrive in and also
\* when the numbers wrap (the sorted insertion of OnUdpSliceReceived).
THEOREM ListStaysSorted == ASSUME WithinHalf PROVE Spec => []ListSorted
<1>1. Init => Inv /\ Window
  BY InitInv, InitWindow
<1>2. (Inv /\ Window) /\ [Next]_vars => (Inv /\ Window)'
  BY NextInv, NextWindow
<1>3. Inv /\ Window => ListSorted
  BY WindowSorted DEF Inv
<1> QED
  BY <1>1, <1>2, <1>3, PTL DEF Spec

-----------------------------------------------------------------------------
(* What is asked for *)

\* A package that is not done lacks a slice.
LEMMA SomethingMissing ==
    ASSUME NEW p \in Package, ~IsDone(p)
    PROVE  GetRequestSliceMask(p) # {} /\ GetRequestSliceMask(p) \cap p.mask = {}
<1>1. /\ p.slices \in Nat \ {0} /\ p.mask \subseteq 0 .. p.slices - 1
      /\ p.recv = Cardinality(p.mask) /\ ~(p.recv >= p.slices)
  BY FramesAssumption DEF Package, SeqNo, IsDone
<1>2. Cardinality(0 .. p.slices - 1) = p.slices
  BY <1>1, SliceNumbers
<1>3. p.mask # 0 .. p.slices - 1
  BY <1>1, <1>2
<1> QED
  BY <1>1, <1>3 DEF GetRequestSliceMask

\* A range ends before the front of the list.
LEMMA RangeBeforeFront ==
    ASSUME WithinHalf, NEW h \in SeqNo, NEW list \in Seq(Package), InOrder(h, list),
           NEW i \in 1 .. Len(list)
    PROVE  ~Before(list[i].seq, list[1].seq)
<1>1. /\ Len(list) \in Nat /\ 1 \in 1 .. Len(list) /\ (i = 1 \/ 1 < i)
      /\ list[i].seq \in SeqNo /\ list[1].seq \in SeqNo /\ OverflowWraps
  BY SeqOfPackage DEF WithinHalf
<1>2. /\ Age(h, list[i].seq) < Half /\ Age(h, list[1].seq) < Half
      /\ i = 1 \/ Age(h, list[i].seq) < Age(h, list[1].seq)
  BY <1>1 DEF InOrder
<1>3. Age(h, list[i].seq) \in Int /\ Age(h, list[1].seq) \in Int
  BY <1>1, AgeType
<1>4. ~(Age(h, list[1].seq) < Age(h, list[i].seq))
  BY <1>2, <1>3
<1> QED
  BY <1>1, <1>2, <1>4, AgeOrders

\* A call that asks for nothing.
LEMMA AsksNothing == request' = NoRequest => RequestsOnlyMissing'
BY DEF NoRequest, RequestsOnlyMissing

\* A call that asks, asks for what it does not have.
LEMMA ArriveAsks ==
    ASSUME WithinHalf, Inv, Window, NEW s \in Live, NEW m \in SlicesOf(s),
           OnUdpSliceReceived(m)
    PROVE  RequestsOnlyMissing'
<1>0. /\ packList \in Seq(Package) /\ Len(packList) <= MaxList
      /\ head \in SeqNo /\ InOrder(head, packList)
      /\ s \in SeqNo /\ 0 < Age(head, s) /\ Age(head, s) < Half /\ OverflowWraps
  BY LiveInWindow DEF Inv, TypeOK, Window, WithinHalf
<1>1. CASE IgnoreOld(m)
  BY <1>1, AsksNothing DEF IgnoreOld, Quiet
<1>2. ASSUME NEW list \in Absorb(m),
             AskRange(list) \/ WaitForRange(list) \/ AskSlices(list)
               \/ Report(list) \/ GiveUp(list)
      PROVE  RequestsOnlyMissing'
  <2>1. InOrder(head, list)
    BY <1>0, AbsorbOrder
  <2>2. list \in Seq(Package) /\ Len(list) \in 1 .. MaxList /\ DOMAIN list = 1 .. Len(list)
    BY <1>0, AbsorbType, LenProperties
  <2>3. CASE AskRange(list)
    <3>1. /\ packList' = list
          /\ request' = [kind |-> "range", first |-> seqReport, end |-> list[1].seq]
      BY <2>3 DEF AskRange, Resend, RequestRangeSend
    <3>2. \A t \in SeqsOf(list) : ~Before(t, list[1].seq)
      BY <1>0, <2>1, <2>2, RangeBeforeFront DEF SeqsOf
    <3>3. request'.kind = "range" /\ request'.end = list[1].seq /\ request'.kind # "slices"
      BY <3>1
    <3> QED
      BY <3>1, <3>2, <3>3 DEF RequestsOnlyMissing, SeqsOf
  <2>4. CASE AskSlices(list)
    <3>1. /\ packList' = list /\ ~IsDone(list[1])
          /\ request' = [kind |-> "slices", seq |-> list[1].seq,
                         mask |-> GetRequestSliceMask(list[1])]
      BY <2>4 DEF AskSlices, Resend, RequestSend, FullBehindFront
    <3>2. list[1] \in Package
      BY <2>2, SeqOfPackage
    <3>3. /\ GetRequestSliceMask(list[1]) # {}
          /\ GetRequestSliceMask(list[1]) \cap list[1].mask = {}
      BY <3>1, <3>2, SomethingMissing
    <3>4. /\ request'.kind = "slices" /\ request'.kind # "range"
          /\ request'.seq = list[1].seq /\ request'.mask = GetRequestSliceMask(list[1])
      BY <3>1
    <3> QED
      BY <3>1, <3>3, <3>4 DEF RequestsOnlyMissing
  <2>5. CASE WaitForRange(list) \/ Report(list) \/ GiveUp(list)
    BY <2>5, AsksNothing DEF WaitForRange, Quiet, Report, GiveUp, Flush
  <2> QED
    BY <1>2, <2>3, <2>4, <2>5
<1> QED
  BY <1>1, <1>2 DEF OnUdpSliceReceived

\* The inductive invariant for the requests.
OrderInv == Inv /\ Window /\ RequestsOnlyMissing

LEMMA InitOrderInv == WithinHalf /\ Init => OrderInv
BY InitInv, InitWindow DEF OrderInv, Init, NoRequest, RequestsOnlyMissing

LEMMA NextOrderInv == WithinHalf /\ OrderInv /\ [Next]_vars => OrderInv'
<1> SUFFICES ASSUME WithinHalf, OrderInv, [Next]_vars PROVE OrderInv'
  OBVIOUS
<1>1. Inv' /\ Window'
  BY NextInv, NextWindow DEF OrderInv
<1>2. RequestsOnlyMissing'
  <2>1. CASE Emit \/ Tick
    BY <2>1, AsksNothing DEF Emit, Tick, Quiet
  <2>2. ASSUME NEW s \in Live, Arrive(s) PROVE RequestsOnlyMissing'
    BY <2>2, ArriveAsks DEF Arrive, OrderInv
  <2>3. CASE UNCHANGED vars
    BY <2>3 DEF vars, OrderInv, RequestsOnlyMissing, SeqsOf
  <2> QED
    BY <2>1, <2>2, <2>3 DEF Next
<1> QED
  BY <1>1, <1>2 DEF OrderInv

\* No resend request names what the cache holds: a range ends before the front
\* of the list, and the slices asked for are some that the front lacks
\* (RequestRangeSend, RequestSend).
THEOREM AsksOnlyMissing == ASSUME WithinHalf PROVE Spec => []RequestsOnlyMissing
<1>1. Init => OrderInv
  BY InitOrderInv
<1>2. OrderInv /\ [Next]_vars => OrderInv'
  BY NextOrderInv
<1>3. OrderInv => RequestsOnlyMissing
  BY DEF OrderInv
<1> QED
  BY <1>1, <1>2, <1>3, PTL DEF Spec

-----------------------------------------------------------------------------
(* What a step may not do *)

\* Within the window nothing comes before a number that is as old or older.
LEMMA NotBefore ==
    ASSUME OverflowWraps, NEW h \in SeqNo, NEW a \in SeqNo, NEW b \in SeqNo,
           Age(h, a) <= Age(h, b), Age(h, b) < Half
    PROVE  ~Before(a, b)
<1>1. Age(h, a) \in Int /\ Age(h, b) \in Int /\ Half \in Int
  BY AgeType, HalfType
<1>2. Age(h, a) < Half /\ ~(Age(h, b) < Age(h, a))
  BY <1>1
<1> QED
  BY <1>2, AgeOrders

\* With retries left, the next number to report does not get older.
LEMMA ArriveForward ==
    ASSUME WithinHalf, Inv, Window, NEW s \in Live, NEW m \in SlicesOf(s),
           OnUdpSliceReceived(m), retryCount # CountRetry
    PROVE  seqReport' \in SeqNo /\ Age(head, seqReport') <= Age(head, seqReport)
<1>0. /\ packList \in Seq(Package) /\ Len(packList) <= MaxList
      /\ head \in SeqNo /\ InOrder(head, packList) /\ seqReport \in SeqNo
      /\ s \in SeqNo /\ 0 < Age(head, s) /\ Age(head, s) < Half /\ OverflowWraps
      /\ Age(head, seqReport) \in Int /\ Age(head, seqReport) < Half
  BY LiveInWindow, AgeType DEF Inv, TypeOK, Window, WithinHalf
<1>1. ~(retryCount >= CountRetry)
  BY CacheAssumption DEF Inv, TypeOK
<1>2. CASE seqReport' = seqReport
  BY <1>0, <1>2
<1>3. ASSUME NEW list \in Absorb(m), Report(list)
      PROVE  seqReport' \in SeqNo /\ Age(head, seqReport') <= Age(head, seqReport)
  <2>1. /\ InOrder(head, list) /\ list \in Seq(Package) /\ Len(list) \in 1 .. MaxList
        /\ Len(list) \in Nat
    BY <1>0, AbsorbOrder, AbsorbType, LenProperties
  <2>2. PICK n \in Leading(list, TRUE) :
           seqReport' = IF n = 0 THEN seqReport ELSE NextSeq(list[n].seq)
    BY <1>3 DEF Report, Flush
  <2>3. n \in 0 .. Len(list) /\ seqReport = list[1].seq
    BY <1>3, <2>2 DEF Leading, Report
  <2>4. CASE n = 0
    BY <1>0, <2>2, <2>4
  <2>5. CASE n # 0
    <3>1. n \in 1 .. Len(list) /\ 1 \in 1 .. Len(list) /\ list[n].seq \in SeqNo
      BY <2>1, <2>3, <2>5, SeqOfPackage
    <3>2. 0 < Age(head, list[n].seq) /\ (n = 1 \/ Age(head, list[n].seq) < Age(head, list[1].seq))
      BY <2>1, <3>1 DEF InOrder
    <3>3. /\ NextSeq(list[n].seq) \in SeqNo
          /\ Age(head, NextSeq(list[n].seq)) = Age(head, list[n].seq) - 1
      BY <1>0, <3>1, <3>2, AgeOfNext
    <3>4. Age(head, list[n].seq) \in Int
      BY <1>0, <3>1, AgeType
    <3> QED
      BY <1>0, <2>2, <2>3, <2>5, <3>2, <3>3, <3>4
  <2> QED
    BY <2>4, <2>5
<1> QED
  BY <1>1, <1>2, <1>3
  DEF OnUdpSliceReceived, IgnoreOld, AskRange, WaitForRange, AskSlices, GiveUp, Resend

\* A frame older than one already reported is not reported before the retries
\* are used up: until then seqReport never moves back.
THEOREM BackOnlyAfterRetries == ASSUME WithinHalf PROVE Spec => BackOnlyAfterGivingUp
<1> DEFINE Forward == Before(seqReport', seqReport) => retryCount = CountRetry
<1>1. Init => Inv /\ Window
  BY InitInv, InitWindow
<1>2. (Inv /\ Window) /\ [Next]_vars => (Inv /\ Window)'
  BY NextInv, NextWindow
<1>3. (Inv /\ Window) /\ [Next]_vars => [Forward]_vars
  <2> SUFFICES ASSUME Inv, Window, Next, retryCount # CountRetry
               PROVE  ~Before(seqReport', seqReport)
    BY DEF Forward
  <2>0. /\ OverflowWraps /\ head \in SeqNo /\ seqReport \in SeqNo
        /\ Age(head, seqReport) \in Int /\ Age(head, seqReport) < Half
    BY AgeType DEF Inv, TypeOK, Window, WithinHalf
  <2>1. seqReport' \in SeqNo /\ Age(head, seqReport') <= Age(head, seqReport)
    <3>1. CASE Emit \/ Tick
      BY <2>0, <3>1 DEF Emit, Tick
    <3>2. ASSUME NEW s \in Live, Arrive(s)
          PROVE  seqReport' \in SeqNo /\ Age(head, seqReport') <= Age(head, seqReport)
      BY <3>2, ArriveForward DEF Arrive
    <3> QED
      BY <3>1, <3>2 DEF Next
  <2> QED
    BY <2>0, <2>1, NotBefore
<1> QED
  BY <1>1, <1>2, <1>3, PTL DEF Spec, BackOnlyAfterGivingUp, Forward

\* Without eviction a slice takes nothing out of the list.
LEMMA AbsorbKeeps ==
    ASSUME packList \in Seq(Package), Len(packList) < MaxList,
           NEW s \in SeqNo, NEW m \in SlicesOf(s), NEW list \in Absorb(m)
    PROVE  SeqsOf(packList) \subseteq SeqsOf(list)
<1> SUFFICES ASSUME NEW i \in 1 .. Len(packList)
             PROVE  \E j \in DOMAIN list : list[j].seq = packList[i].seq
  BY SeqOfPackage DEF SeqsOf
<1>0. Len(packList) \in Nat /\ MaxList \in Nat
  BY LenProperties, CacheAssumption
<1>1. CASE m.seq \in SeqsOf(packList)
  <2>1. PICK k \in DOMAIN packList :
             list = ReplaceAt(packList, k, PutPackage(packList[k], m))
    BY <1>1 DEF Absorb
  <2>2. k \in 1 .. Len(packList) /\ packList[k] \in Package
    BY <2>1, SeqOfPackage
  <2>3. PutPackage(packList[k], m) \in Package /\ PutPackage(packList[k], m).seq = packList[k].seq
    BY <2>2, PutPackageOK
  <2>4. /\ list \in Seq(Package) /\ Len(list) = Len(packList)
        /\ \A j \in 1 .. Len(packList) :
             list[j] = IF j = k THEN PutPackage(packList[k], m) ELSE packList[j]
    BY <2>1, <2>2, <2>3, ExceptSeq DEF ReplaceAt
  <2>5. i \in DOMAIN list /\ list[i].seq = packList[i].seq
    BY <2>3, <2>4, SeqOfPackage
  <2> QED
    BY <2>5
<1>2. CASE m.seq \notin SeqsOf(packList)
  <2>1. Evict(packList) = packList
    BY <1>0 DEF Evict
  <2>2. PICK k \in InsertPos(packList, m.seq) : list = InsertAt(packList, k, InitPackage(m))
    BY <1>2, <2>1 DEF Absorb
  <2>3. k \in 1 .. Len(packList) + 1
    BY <2>2 DEF InsertPos
  <2>4. InitPackage(m) \in Package
    BY InitPackageOK
  <2>5. /\ list \in Seq(Package) /\ Len(list) = Len(packList) + 1
        /\ \A j \in 1 .. Len(packList) + 1 :
             list[j] = IF j < k THEN packList[j]
                       ELSE IF j = k THEN InitPackage(m) ELSE packList[j - 1]
    BY <2>2, <2>3, <2>4, InsertAtType
  <2>6. DOMAIN list = 1 .. Len(packList) + 1
    BY <2>5, LenProperties
  <2>7. CASE i < k
    BY <1>0, <2>5, <2>6, <2>7
  <2>8. CASE ~(i < k)
    <3>1. i + 1 \in 1 .. Len(packList) + 1 /\ ~(i + 1 < k) /\ i + 1 # k /\ (i + 1) - 1 = i
      BY <1>0, <2>3, <2>8
    <3>2. list[i + 1] = packList[i]
      BY <2>5, <3>1
    <3> QED
      BY <2>6, <3>1, <3>2
  <2> QED
    BY <2>7, <2>8
<1> QED
  BY <1>1, <1>2

\* What leaves the list when it is flushed is what is reported.
LEMMA FlushKeeps ==
    ASSUME NEW list \in Seq(Package), NEW next, NEW retries, Flush(list, next, retries)
    PROVE  SeqsOf(list) \subseteq SeqsOf(packList') \cup SeqsOf(reported')
<1>1. PICK n \in Leading(list, TRUE) :
         packList' = Drop(list, n) /\ reported' = SubSeq(list, 1, n)
  BY DEF Flush
<1>2. n \in 0 .. Len(list) /\ Len(list) \in Nat /\ DOMAIN list = 1 .. Len(list)
  BY <1>1, LenProperties DEF Leading
<1>3. /\ reported' \in Seq(Package) /\ Len(reported') = n
      /\ \A k \in 1 .. n : reported'[k] = list[k]
  BY <1>1, <1>2, SubSeqType
<1>4. /\ packList' \in Seq(Package) /\ Len(packList') = Len(list) - n
      /\ \A k \in 1 .. Len(list) - n : packList'[k] = list[k + n]
  <2>1. n + 1 \in Nat \ {0} /\ Len(list) \in 0 .. Len(list)
    BY <1>2
  <2>2. /\ packList' \in Seq(Package)
        /\ Len(packList') = IF n + 1 <= Len(list) THEN Len(list) - (n + 1) + 1 ELSE 0
        /\ \A k \in 1 .. Len(list) - (n + 1) + 1 : packList'[k] = list[k + (n + 1) - 1]
    <3>1. packList' = SubSeq(list, n + 1, Len(list))
      BY <1>1 DEF Drop
    <3>2. /\ SubSeq(list, n + 1, Len(list)) \in Seq(Package)
          /\ Len(SubSeq(list, n + 1, Len(list)))
                = IF n + 1 <= Len(list) THEN Len(list) - (n + 1) + 1 ELSE 0
          /\ \A k \in 1 .. Len(list) - (n + 1) + 1 :
                SubSeq(list, n + 1, Len(list))[k] = list[k + (n + 1) - 1]
      BY <2>1, SubSeqType, Zenon
    <3> QED
      BY <3>1, <3>2
  <2>3. Len(list) - (n + 1) + 1 = Len(list) - n /\ (n + 1 <= Len(list) \/ Len(list) - n = 0)
    <3>1. \A a \in Nat : \A b \in 0 .. a :
             a - (b + 1) + 1 = a - b /\ (b + 1 <= a \/ a - b = 0)
      OBVIOUS
    <3> QED
      BY <1>2, <3>1, Zenon
  <2>4. Len(packList') = Len(list) - n
    BY <2>2, <2>3
  <2>5. ASSUME NEW k \in 1 .. Len(list) - n
        PROVE  packList'[k] = list[k + n]
    <3>1. k \in 1 .. Len(list) - (n + 1) + 1
      BY <2>3
    <3>2. packList'[k] = list[k + (n + 1) - 1]
      BY <2>2, <3>1
    <3>3. k + (n + 1) - 1 = k + n
      BY <1>2
    <3> QED
      BY <3>2, <3>3
  <2> QED
    BY <2>2, <2>4, <2>5
<1>5. DOMAIN reported' = 1 .. n /\ DOMAIN packList' = 1 .. Len(list) - n
  BY <1>3, <1>4, LenProperties
<1> SUFFICES ASSUME NEW i \in 1 .. Len(list)
             PROVE  list[i].seq \in SeqsOf(packList') \cup SeqsOf(reported')
  BY <1>2 DEF SeqsOf
<1>6. CASE i <= n
  <2>1. i \in DOMAIN reported' /\ reported'[i] = list[i]
    BY <1>2, <1>3, <1>5, <1>6
  <2> QED
    BY <2>1 DEF SeqsOf
<1>7. CASE ~(i <= n)
  <2>1. i - n \in DOMAIN packList' /\ packList'[i - n] = list[i]
    BY <1>2, <1>4, <1>5, <1>7
  <2> QED
    BY <2>1 DEF SeqsOf
<1> QED
  BY <1>6, <1>7

\* A frame that has arrived, in part or whole, leaves the list by being
\* reported, by the retries being used up or because the list is full, and in
\* no other way (OnUdpSliceReceived).
THEOREM DropsAreAccounted == Spec => NoSilentDrop
<1> DEFINE Accounted == \A s \in SeqsOf(packList) \ SeqsOf(packList') :
                          \/ s \in SeqsOf(reported')
                          \/ retryCount = CountRetry
                          \/ Len(packList) = MaxList
<1>1. Init => Inv
  BY InitInv
<1>2. Inv /\ [Next]_vars => Inv'
  BY NextInv
<1>3. Inv /\ [Next]_vars => [Accounted]_vars
  <2> SUFFICES ASSUME Inv, Next, retryCount # CountRetry, Len(packList) # MaxList
               PROVE  SeqsOf(packList) \subseteq SeqsOf(packList') \cup SeqsOf(reported')
    BY DEF Accounted
  <2>0. /\ packList \in Seq(Package)
        /\ Len(packList) < MaxList /\ Len(packList) <= MaxList
        /\ ~(Len(packList) >= MaxList) /\ ~(retryCount >= CountRetry)
    BY LenProperties, CacheAssumption DEF Inv, TypeOK
  <2>1. CASE Emit \/ Tick
    BY <2>1 DEF Emit, Tick, SeqsOf
  <2>2. ASSUME NEW s \in Live, Arrive(s)
        PROVE  SeqsOf(packList) \subseteq SeqsOf(packList') \cup SeqsOf(reported')
    <3>1. PICK m \in SlicesOf(s) : OnUdpSliceReceived(m)
      BY <2>2 DEF Arrive
    <3>2. CASE IgnoreOld(m)
      BY <2>0, <3>2 DEF IgnoreOld, Evict
    <3>3. ASSUME NEW list \in Absorb(m),
                 AskRange(list) \/ WaitForRange(list) \/ AskSlices(list) \/ Report(list)
          PROVE  SeqsOf(packList) \subseteq SeqsOf(packList') \cup SeqsOf(reported')
      <4>1. s \in SeqNo
        BY DEF Live
      <4>2. SeqsOf(packList) \subseteq SeqsOf(list) /\ list \in Seq(Package)
        BY <2>0, <4>1, AbsorbKeeps, AbsorbType
      <4>3. CASE AskRange(list) \/ WaitForRange(list) \/ AskSlices(list)
        BY <4>2, <4>3 DEF AskRange, WaitForRange, AskSlices
      <4>4. CASE Report(list)
        BY <4>2, <4>4, FlushKeeps DEF Report
      <4> QED
        BY <3>3, <4>3, <4>4
    <3> QED
      BY <2>0, <3>1, <3>2, <3>3 DEF OnUdpSliceReceived, GiveUp
  <2> QED
    BY <2>1, <2>2 DEF Next
<1> QED
  BY <1>1, <1>2, <1>3, PTL DEF Spec, NoSilentDrop, Accounted
-----------------------------------------------------------------------------
(* The stream: what its lists hold was emitted *)

\* What Only takes from a list of members of S is a list of members of S.
LEMMA OnlyType ==
    ASSUME NEW S, NEW list \in Seq(S), NEW set
    PROVE  Only(list, set) \in Seq(S \cap set)
<1> DEFINE step(f, n) == IF n = 0 THEN <<>>
                         ELSE IF list[n] \in set THEN Append(f[n - 1], list[n]) ELSE f[n - 1]
           Part(g, n) == /\ g = [k \in 0 .. n |-> g[k]]
                         /\ \A k \in 0 .. n : g[k] \in Seq(S \cap set) /\ g[k] = step(g, k)
           Bad == { n \in 0 .. Len(list) : \A g : ~Part(g, n) }
<1>1. Len(list) \in Nat /\ \A n \in 1 .. Len(list) : list[n] \in S
  BY LenProperties, ElementOfSeq
<1>2. Bad = {}
  <2> SUFFICES ASSUME Bad # {} PROVE FALSE
    OBVIOUS
  <2>1. Bad \subseteq Nat
    BY <1>1
  <2> HIDE DEF Bad
  <2>2. PICK n \in Bad : \A m \in Bad : <<m, n>> \notin OpToRel(<, Nat)
    BY <2>1, WFMin, NatLessThanWellFounded
  <2>3. \A m \in Bad : ~(m < n)
    BY <2>1, <2>2, Zenon DEF OpToRel
  <2>4. n \in 0 .. Len(list) /\ n \in Nat /\ \A g : ~Part(g, n)
    BY <1>1 DEF Bad
  <2>5. CASE n = 0
    <3>1. Part([k \in 0 .. 0 |-> <<>>], 0)
      OBVIOUS
    <3> QED
      BY <2>4, <2>5, <3>1
  <2>6. CASE n # 0
    <3>1. n - 1 \notin Bad /\ n - 1 \in 0 .. Len(list)
      BY <1>1, <2>3, <2>4, <2>6
    <3>2. PICK g : Part(g, n - 1)
      BY <3>1 DEF Bad
    <3> DEFINE h == [k \in 0 .. n |-> IF k = n THEN step(g, n) ELSE g[k]]
    <3>3. step(g, n) \in Seq(S \cap set)
      <4>1. g[n - 1] \in Seq(S \cap set) /\ n \in 1 .. Len(list) /\ list[n] \in S
        <5>1. n - 1 \in 0 .. n - 1 /\ n \in 1 .. Len(list)
          BY <1>1, <2>4, <2>6
        <5>2. g[n - 1] \in Seq(S \cap set)
          BY <3>2, <5>1
        <5> QED
          BY <1>1, <5>1, <5>2
      <4>2. list[n] \in set => Append(g[n - 1], list[n]) \in Seq(S \cap set)
        BY <4>1, AppendProperties
      <4> QED
        BY <2>6, <4>1, <4>2
    <3>4. \A k \in 0 .. n : h[k] = IF k = n THEN step(g, n) ELSE g[k]
      OBVIOUS
    <3>5. h = [k \in 0 .. n |-> h[k]]
      OBVIOUS
    <3>6. \A k \in 0 .. n : k # 0 => h[k - 1] = g[k - 1]
      BY <2>4
    <3> HIDE DEF h
    <3>7. step(h, n) = step(g, n)
      BY <2>4, <2>6, <3>6
    <3>8. \A k \in 0 .. n - 1 : step(h, k) = step(g, k)
      BY <2>4, <3>6
    <3>9. \A k \in 0 .. n : k = n \/ k \in 0 .. n - 1
      BY <2>4
    <3> HIDE DEF step
    <3>10. Part(h, n)
      BY <2>4, <3>2, <3>3, <3>4, <3>5, <3>7, <3>8, <3>9
    <3> QED
      BY <2>4, <3>10
  <2> QED
    BY <2>5, <2>6
<1>3. PICK g : Part(g, Len(list))
  <2>1. Len(list) \in 0 .. Len(list)
    BY <1>1
  <2> QED
    BY <1>2, <2>1
<1> DEFINE only == CHOOSE f : f = [n \in 0 .. Len(list) |-> step(f, n)]
<1>4. only = [n \in 0 .. Len(list) |-> step(only, n)]
  <2>1. g = [n \in 0 .. Len(list) |-> step(g, n)]
    BY <1>3
  <2> QED
    BY <2>1
<1>5. Only(list, set) = only[Len(list)]
  BY DEF Only
<1> DEFINE Odd == { n \in 0 .. Len(list) : only[n] \notin Seq(S \cap set) }
<1> HIDE DEF only
<1>6. Odd = {}
  <2> SUFFICES ASSUME Odd # {} PROVE FALSE
    OBVIOUS
  <2>1. Odd \subseteq Nat
    BY <1>1
  <2> HIDE DEF Odd
  <2>2. PICK n \in Odd : \A m \in Odd : <<m, n>> \notin OpToRel(<, Nat)
    BY <2>1, WFMin, NatLessThanWellFounded
  <2>3. \A m \in Odd : ~(m < n)
    BY <2>1, <2>2, Zenon DEF OpToRel
  <2>4. n \in 0 .. Len(list) /\ only[n] \notin Seq(S \cap set)
    BY <1>1 DEF Odd
  <2>5. only[n] = step(only, n)
    BY <1>4, <2>4
  <2>6. CASE n = 0
    BY <2>4, <2>5, <2>6
  <2>7. CASE n # 0
    <3>1. only[n - 1] \in Seq(S \cap set) /\ n \in 1 .. Len(list) /\ list[n] \in S
      <4>1. n - 1 \notin Odd /\ n - 1 \in 0 .. Len(list)
        BY <1>1, <2>3, <2>4, <2>7
      <4> QED
        BY <1>1, <2>4, <2>7, <4>1 DEF Odd
    <3>2. list[n] \in set => Append(only[n - 1], list[n]) \in Seq(S \cap set)
      BY <3>1, AppendProperties
    <3> QED
      BY <2>4, <2>5, <2>7, <3>1, <3>2
  <2> QED
    BY <2>6, <2>7
<1>7. Len(list) \in 0 .. Len(list)
  BY <1>1
<1> QED
  BY <1>5, <1>6, <1>7

\* A list of members of S is one of members of a larger set.
LEMMA SeqMono ==
    ASSUME NEW S, NEW T, S \subseteq T, NEW list \in Seq(S)
    PROVE  list \in Seq(T)
<1>1. Len(list) \in Nat /\ list = [i \in 1 .. Len(list) |-> list[i]]
  BY LenProperties
<1>2. \A i \in 1 .. Len(list) : list[i] \in T
  BY ElementOfSeq
<1> QED
  BY <1>1, <1>2, IsASeq

\* One element more at the end.
LEMMA AppendType ==
    ASSUME NEW S, NEW list \in Seq(S), NEW e \in S
    PROVE  /\ Append(list, e) \in Seq(S)
           /\ Append(list, e) # <<>>
           /\ Len(Append(list, e)) = Len(list) + 1
           /\ Append(list, e)[Len(list) + 1] = e
BY AppendProperties, LenProperties

\* One element less at the front.
LEMMA TailType ==
    ASSUME NEW S, NEW list \in Seq(S), list # <<>>
    PROVE  Tail(list) \in Seq(S) /\ list[1] \in S
BY HeadTailProperties, LenProperties, ElementOfSeq

\* The packages whose numbers are in E.
Of(E) == { p \in Package : p.seq \in E }

\* The list with a slice of a frame of E in it holds frames of E only.
LEMMA AbsorbOf ==
    ASSUME NEW E, packList \in Seq(Of(E)), Len(packList) <= MaxList,
           NEW s \in SeqNo, s \in E, NEW m \in SlicesOf(s)
    PROVE  /\ Evict(packList) \in Seq(Of(E))
           /\ \A list \in Absorb(m) : list \in Seq(Of(E)) /\ Len(list) \in Nat \ {0}
<1>0. Len(packList) \in Nat /\ MaxList \in Nat \ {0} /\ packList \in Seq(Package)
  <2>1. Of(E) \subseteq Package
    BY DEF Of
  <2> QED
    BY <2>1, LenProperties, CacheAssumption, SeqMono
<1>1. Evict(packList) \in Seq(Of(E))
  <2>1. CASE Len(packList) >= MaxList
    <3>1. Len(packList) - MaxList + 2 \in Nat \ {0} /\ Len(packList) \in 0 .. Len(packList)
      BY <1>0, <2>1
    <3> QED
      BY <2>1, <3>1, SubSeqType DEF Evict
  <2>2. CASE ~(Len(packList) >= MaxList)
    BY <2>2 DEF Evict
  <2> QED
    BY <2>1, <2>2
<1>2. ASSUME NEW list \in Absorb(m)
      PROVE  list \in Seq(Of(E)) /\ Len(list) \in Nat \ {0}
  <2>1. Len(list) \in Nat \ {0}
    BY <1>0, AbsorbType
  <2>2. CASE m.seq \in SeqsOf(packList)
    <3>1. PICK i \in DOMAIN packList :
               list = ReplaceAt(packList, i, PutPackage(packList[i], m))
      BY <2>2 DEF Absorb
    <3>2. i \in 1 .. Len(packList) /\ packList[i] \in Of(E)
      BY <3>1, LenProperties, ElementOfSeq
    <3>3. PutPackage(packList[i], m) \in Of(E)
      BY <3>2, PutPackageOK DEF Of
    <3> QED
      BY <2>1, <3>1, <3>2, <3>3, ExceptSeq DEF ReplaceAt
  <2>3. CASE m.seq \notin SeqsOf(packList)
    <3> DEFINE kept == Evict(packList)
    <3>1. PICK k \in InsertPos(kept, m.seq) : list = InsertAt(kept, k, InitPackage(m))
      BY <2>3 DEF Absorb
    <3>2. kept \in Seq(Of(E)) /\ k \in 1 .. Len(kept) + 1
      BY <1>1, <3>1 DEF InsertPos
    <3>3. InitPackage(m) \in Of(E)
      BY InitPackageOK DEF Of
    <3> HIDE DEF kept
    <3> QED
      BY <2>1, <3>1, <3>2, <3>3, InsertAtType
  <2> QED
    BY <2>2, <2>3
<1> QED
  BY <1>1, <1>2

\* A resend request for a range, or for slices of a frame of E.
Asked(E) == [kind : {"range"}, first : SeqNo, end : SeqNo]
            \cup [kind : {"slices"}, seq : E, mask : SUBSET Nat]

\* Reporting leaves frames of E.
LEMMA FlushOf ==
    ASSUME NEW E, NEW list \in Seq(Of(E)), NEW next, NEW retries, Flush(list, next, retries)
    PROVE  packList' \in Seq(Of(E)) /\ request' = NoRequest
<1>1. PICK n \in Leading(list, TRUE) : packList' = Drop(list, n) /\ request' = NoRequest
  BY DEF Flush
<1>2. n + 1 \in Nat \ {0} /\ Len(list) \in 0 .. Len(list)
  BY <1>1, LenProperties DEF Leading
<1>3. Drop(list, n) \in Seq(Of(E))
  BY <1>2, SubSeqType DEF Drop
<1> QED
  BY <1>1, <1>3

\* A slice of a frame of E leaves the cache with frames of E, and makes it
\* ask for none but those.
LEMMA ArriveOf ==
    ASSUME NEW E, Inv, packList \in Seq(Of(E)),
           NEW s \in SeqNo, s \in E, NEW m \in SlicesOf(s), OnUdpSliceReceived(m)
    PROVE  packList' \in Seq(Of(E)) /\ request' \in {NoRequest} \cup Asked(E)
<1>0. Len(packList) <= MaxList /\ seqReport \in SeqNo
  BY DEF Inv, TypeOK
<1>1. CASE IgnoreOld(m)
  BY <1>0, <1>1, AbsorbOf DEF IgnoreOld, Quiet
<1>2. ASSUME NEW list \in Absorb(m),
             AskRange(list) \/ WaitForRange(list) \/ AskSlices(list)
               \/ Report(list) \/ GiveUp(list)
      PROVE  packList' \in Seq(Of(E)) /\ request' \in {NoRequest} \cup Asked(E)
  <2>1. list \in Seq(Of(E)) /\ Len(list) \in Nat \ {0}
    BY <1>0, AbsorbOf
  <2>2. list[1] \in Package /\ list[1].seq \in E /\ list[1].seq \in SeqNo
    <3>1. list[1] \in Of(E)
      BY <2>1, ElementOfSeq
    <3> QED
      BY <3>1 DEF Of, Package
  <2>3. CASE AskRange(list)
    BY <1>0, <2>1, <2>2, <2>3 DEF AskRange, Resend, RequestRangeSend, Asked
  <2>4. CASE WaitForRange(list)
    BY <2>1, <2>4 DEF WaitForRange, Quiet
  <2>5. CASE AskSlices(list)
    <3>1. list[1].slices \in Nat
      BY <2>2 DEF Package
    <3>2. GetRequestSliceMask(list[1]) \in SUBSET Nat
      BY <3>1 DEF GetRequestSliceMask
    <3> QED
      BY <2>1, <2>2, <2>5, <3>2 DEF AskSlices, Resend, RequestSend, Asked
  <2>6. CASE Report(list)
    BY <2>1, <2>6, FlushOf DEF Report
  <2>7. CASE GiveUp(list)
    <3>1. PICK n \in Leading(list, FALSE) :
             Flush(Drop(list, n), NextSeq(list[IF n < Len(list) THEN n + 1 ELSE n].seq), 0)
      BY <2>7 DEF GiveUp
    <3>2. n + 1 \in Nat \ {0} /\ Len(list) \in 0 .. Len(list)
      BY <2>1, <3>1 DEF Leading
    <3>3. Drop(list, n) \in Seq(Of(E))
      BY <2>1, <3>2, SubSeqType DEF Drop
    <3> QED
      BY <3>1, <3>3, FlushOf
  <2> QED
    BY <1>2, <2>3, <2>4, <2>5, <2>6, <2>7
<1> QED
  BY <1>1, <1>2 DEF OnUdpSliceReceived
\* The numbers of the stream that were given out.
Emitted == IF head = SeqSpace - 1 THEN {} ELSE 0 .. head

\* Elements of sendList, and datagrams, of frames of E.
Queued(E) == [seq : E, mask : SUBSET Nat]
SlicesFrom(E) == UNION { SlicesOf(s) : s \in E }

\* All that the two sides keep, and all that is on its way between them, is
\* about frames of E.
About(E) ==
    /\ packList \in Seq(Of(E))
    /\ sent \in Seq(E)
    /\ sendList \in Seq(Queued(E))
    /\ requests \in Seq(Asked(E))
    /\ net \in Seq(SlicesFrom(E))

\* The inductive invariant of the stream.  What the cache asks for comes from
\* its list, what is in its list came over the net, and what is on the net was
\* queued when it was emitted or asked for: none of it can be left out.
StreamInv ==
    /\ Inv
    /\ head \in {SeqSpace - 1} \cup 0 .. MaxFrames - 1
    /\ About(Emitted)
    /\ Len(sent) <= MaxSize
    /\ sent # <<>> => sent[Len(sent)] = head
    /\ adding => head # SeqSpace - 1
    /\ thread \in {"check", "empty", "wait"}
    /\ losses \in 0 .. MaxLoss

\* The numbers emitted are sequence numbers and within the stream.
LEMMA EmittedType ==
    ASSUME StreamInv
    PROVE  /\ Emitted \subseteq SeqNo /\ Emitted \subseteq 0 .. MaxFrames - 1
           /\ head # SeqSpace - 1 => head \in Emitted
BY SeqSpaceAssumption, StreamAssumption DEF StreamInv, Emitted, SeqNo

LEMMA InitStreamInv == StreamInit => StreamInv
<1> SUFFICES ASSUME StreamInit PROVE StreamInv
  OBVIOUS
<1>1. Inv
  BY InitInv DEF StreamInit
<1>2. About(Emitted)
  BY EmptySeq DEF StreamInit, Init, About
<1>3. Len(sent) <= MaxSize /\ losses \in 0 .. MaxLoss
  BY StreamAssumption DEF StreamInit
<1> QED
  BY <1>1, <1>2, <1>3 DEF StreamInit, Init, StreamInv

\* The sender's next package.
LEMMA AddPackageDataOK ==
    ASSUME StreamInv, AddPackageData
    PROVE  StreamInv'
<1> DEFINE E == Emitted
           F == Emitted'
<1>0. /\ SeqSpace \in Nat \ {0} /\ SeqSpace # 1 /\ MaxFrames \in 1 .. SeqSpace - 1
      /\ MaxSize \in Nat \ {0} /\ MaxLoss \in Nat
  BY SeqSpaceAssumption, StreamAssumption
<1>1. /\ head' = NextSeq(head) /\ UNCHANGED <<packList, sendList, thread, net, losses, requests>>
      /\ sent' = Append(Kept(sent), head')
      /\ head = SeqSpace - 1 \/ head + 1 < MaxFrames
  BY DEF AddPackageData, Emit
<1>2. head \in {SeqSpace - 1} \cup 0 .. MaxFrames - 1
  BY DEF StreamInv
<1>3. /\ head' \in 0 .. MaxFrames - 1 /\ head' # SeqSpace - 1
      /\ head' = IF head = SeqSpace - 1 THEN 0 ELSE head + 1
  <2>1. CASE head = SeqSpace - 1
    BY <1>0, <1>1, <2>1, Remainder DEF NextSeq
  <2>2. CASE head # SeqSpace - 1
    BY <1>0, <1>1, <1>2, <2>2, Remainder DEF NextSeq
  <2> QED
    BY <2>1, <2>2
<1>4. E \subseteq F /\ head' \in F
  BY <1>0, <1>2, <1>3 DEF Emitted
<1>5. Inv'
  <2>1. [Next]_vars
    BY DEF AddPackageData, Next
  <2> QED
    BY <2>1, NextInv DEF StreamInv
<1> HIDE DEF E, F
<1>6. /\ sent' \in Seq(F) /\ Len(sent') <= MaxSize
      /\ sent' # <<>> /\ sent'[Len(sent')] = head'
  <2>1. sent \in Seq(E) /\ Len(sent) <= MaxSize /\ Len(sent) \in Nat
    BY LenProperties DEF StreamInv, About, E
  <2>2. Kept(sent) \in Seq(E) /\ Len(Kept(sent)) < MaxSize /\ Len(Kept(sent)) \in Nat
    <3>1. CASE Len(sent) >= MaxSize
      <4> DEFINE k == Len(sent) - MaxSize + 2
      <4>1. k \in Nat \ {0} /\ Len(sent) \in 0 .. Len(sent)
        BY <1>0, <2>1, <3>1
      <4>2. Kept(sent) = SubSeq(sent, k, Len(sent))
        BY <3>1 DEF Kept
      <4> HIDE DEF k
      <4>3. /\ Kept(sent) \in Seq(E)
            /\ Len(Kept(sent)) = IF k <= Len(sent) THEN Len(sent) - k + 1 ELSE 0
        BY <2>1, <4>1, <4>2, SubSeqType
      <4> QED
        BY <1>0, <2>1, <3>1, <4>3 DEF k
    <3>2. CASE ~(Len(sent) >= MaxSize)
      BY <1>0, <2>1, <3>2 DEF Kept
    <3> QED
      BY <3>1, <3>2
  <2>3. Kept(sent) \in Seq(F)
    BY <1>4, <2>2, SeqMono
  <2>4. /\ sent' \in Seq(F) /\ sent' # <<>> /\ Len(sent') = Len(Kept(sent)) + 1
        /\ sent'[Len(Kept(sent)) + 1] = head'
    BY <1>1, <1>4, <2>3, AppendType
  <2> QED
    BY <1>0, <2>2, <2>4
<1>7. /\ packList' \in Seq(Of(F)) /\ sendList' \in Seq(Queued(F))
      /\ requests' \in Seq(Asked(F)) /\ net' \in Seq(SlicesFrom(F))
  <2>1. /\ Of(E) \subseteq Of(F) /\ Queued(E) \subseteq Queued(F)
        /\ Asked(E) \subseteq Asked(F) /\ SlicesFrom(E) \subseteq SlicesFrom(F)
    BY <1>4 DEF Of, Queued, Asked, SlicesFrom
  <2>2. /\ packList \in Seq(Of(E)) /\ sendList \in Seq(Queued(E))
        /\ requests \in Seq(Asked(E)) /\ net \in Seq(SlicesFrom(E))
    BY DEF StreamInv, About, E
  <2>3. /\ packList \in Seq(Of(F)) /\ sendList \in Seq(Queued(F))
        /\ requests \in Seq(Asked(F)) /\ net \in Seq(SlicesFrom(F))
    BY <2>1, <2>2, SeqMono
  <2> QED
    BY <1>1, <2>3
<1>8. About(Emitted)'
  BY <1>6, <1>7 DEF About, F, Of, Queued, Asked, SlicesFrom
<1> QED
  BY <1>1, <1>3, <1>5, <1>6, <1>8 DEF StreamInv

\* What the sender does with its lists does not concern the cache.
LEMMA SenderOK ==
    ASSUME StreamInv, UNCHANGED vars,
           sent' = sent, losses' = losses,
           thread' \in {"check", "empty", "wait"},
           adding' => adding,
           sendList' \in Seq(Queued(Emitted)),
           requests' \in Seq(Asked(Emitted)),
           net' \in Seq(SlicesFrom(Emitted))
    PROVE  StreamInv'
<1>1. Inv'
  BY NextInv DEF StreamInv
<1>2. UNCHANGED <<head, packList>>
  BY DEF vars
<1>3. Emitted' = Emitted
  BY <1>2 DEF Emitted
<1>4. About(Emitted)'
  BY <1>2, <1>3 DEF StreamInv, About, Of, Queued, Asked, SlicesFrom
<1> QED
  BY <1>1, <1>2, <1>4 DEF StreamInv

\* The slices of the mask are slices of that frame.
LEMMA SlicesSentType ==
    ASSUME NEW E, E \subseteq SeqNo, NEW d \in Queued(E)
    PROVE  SlicesSent(d) \in Seq(SlicesFrom(E))
<1> DEFINE n == Frames[d.seq].slices
           all == [i \in 1 .. n |-> Slice(d.seq, i - 1)]
           wanted == { m \in SlicesOf(d.seq) : Len(all) = 1 \/ m.cur \in d.mask }
<1>1. d.seq \in E /\ n \in Nat
  BY FramesAssumption DEF Queued, SeqNo
<1>2. \A i \in 1 .. n : Slice(d.seq, i - 1) \in SlicesFrom(E)
  <2>1. \A i \in 1 .. n : i - 1 \in 0 .. n - 1
    BY <1>1
  <2>2. \A i \in 1 .. n : Slice(d.seq, i - 1) \in SlicesOf(d.seq)
    BY <2>1 DEF SlicesOf
  <2> QED
    BY <1>1, <2>2 DEF SlicesFrom
<1>3. all \in Seq(SlicesFrom(E))
  <2> HIDE DEF n
  <2> QED
    BY <1>1, <1>2, IsASeq
<1>4. SlicesSent(d) = Only(all, wanted)
  BY DEF SlicesSent
<1> HIDE DEF all, wanted
<1>5. Only(all, wanted) \in Seq(SlicesFrom(E) \cap wanted)
  BY <1>3, OnlyType
<1> QED
  BY <1>4, <1>5, SeqMono

\* The sender's other steps.
LEMMA SenderStepOK ==
    ASSUME StreamInv, Send \/ ReSend \/ SendRange \/ Sleep \/ SendFront
    PROVE  StreamInv'
<1> DEFINE E == Emitted
<1>0. /\ E \subseteq SeqNo /\ (head # SeqSpace - 1 => head \in E)
      /\ sent \in Seq(E) /\ sendList \in Seq(Queued(E))
      /\ requests \in Seq(Asked(E)) /\ net \in Seq(SlicesFrom(E))
      /\ thread \in {"check", "empty", "wait"}
      /\ adding => head # SeqSpace - 1
  BY EmittedType DEF StreamInv, About
<1>1. Signalled(thread) \in {"check", "empty", "wait"}
  BY <1>0 DEF Signalled
<1> HIDE DEF E
<1>2. CASE Send
  <2>1. head \in SeqNo /\ head \in E
    BY <1>0, <1>2 DEF Send
  <2>2. All(head) \in SUBSET Nat
    BY <2>1, FramesAssumption DEF All, SeqNo
  <2>3. [seq |-> head, mask |-> All(head)] \in Queued(E)
    BY <2>1, <2>2 DEF Queued
  <2>4. Append(sendList, [seq |-> head, mask |-> All(head)]) \in Seq(Queued(E))
    BY <1>0, <2>3, AppendType
  <2> QED
    BY <1>0, <1>1, <1>2, <2>4, SenderOK DEF Send, E
<1>3. CASE ReSend
  <2>1. requests[1] \in Asked(E) /\ requests[1].kind = "slices" /\ Tail(requests) \in Seq(Asked(E))
    BY <1>0, <1>3, TailType DEF ReSend
  <2>2. [seq |-> requests[1].seq, mask |-> requests[1].mask] \in Queued(E)
    BY <2>1 DEF Asked, Queued
  <2>3. Append(sendList, [seq |-> requests[1].seq, mask |-> requests[1].mask]) \in Seq(Queued(E))
    BY <1>0, <2>2, AppendType
  <2> QED
    BY <1>0, <1>1, <1>3, <2>1, <2>3, SenderOK DEF ReSend, E
<1>4. CASE SendRange
  <2> DEFINE range == { s \in SeqNo : InRange(s, requests[1]) }
             again == Only(sent, range)
             more == [i \in DOMAIN again |-> [seq |-> again[i], mask |-> All(again[i])]]
  <2>1. Tail(requests) \in Seq(Asked(E))
    BY <1>0, <1>4, TailType DEF SendRange
  <2>2. again \in Seq(E)
    <3> HIDE DEF range
    <3>1. again \in Seq(E \cap range)
      BY <1>0, OnlyType
    <3> HIDE DEF again
    <3> QED
      BY <3>1, SeqMono
  <2>3. sendList' = sendList \o more
    BY <1>4 DEF SendRange
  <2> HIDE DEF again
  <2>4. DOMAIN again = 1 .. Len(again) /\ Len(again) \in Nat
    BY <2>2, LenProperties
  <2>5. \A i \in 1 .. Len(again) :
           [seq |-> again[i], mask |-> All(again[i])] \in Queued(E)
    <3>1. \A i \in 1 .. Len(again) : again[i] \in E
      BY <2>2, ElementOfSeq
    <3>2. \A s \in SeqNo : All(s) \in SUBSET Nat
      BY FramesAssumption DEF All, SeqNo
    <3> QED
      BY <1>0, <3>1, <3>2 DEF Queued
  <2>6. more \in Seq(Queued(E))
    BY <2>4, <2>5, IsASeq
  <2> HIDE DEF more
  <2>7. sendList \o more \in Seq(Queued(E))
    BY <1>0, <2>6, ConcatProperties
  <2> QED
    BY <1>0, <1>4, <2>1, <2>3, <2>7, SenderOK DEF SendRange, E
<1>5. CASE Sleep
  BY <1>0, <1>5, SenderOK DEF Sleep, E
<1>6. CASE SendFront
  <2>1. sendList[1] \in Queued(E) /\ Tail(sendList) \in Seq(Queued(E))
    BY <1>0, <1>6, TailType DEF SendFront
  <2>2. SlicesSent(sendList[1]) \in Seq(SlicesFrom(E))
    BY <1>0, <2>1, SlicesSentType
  <2>3. net \o SlicesSent(sendList[1]) \in Seq(SlicesFrom(E))
    BY <1>0, <2>2, ConcatProperties
  <2>4. net' \in Seq(SlicesFrom(E))
    BY <1>0, <1>6, <2>3 DEF SendFront
  <2> QED
    BY <1>0, <1>6, <2>1, <2>4, SenderOK DEF SendFront, E
<1> QED
  BY <1>2, <1>3, <1>4, <1>5, <1>6

\* A datagram arrives: it is a slice of a frame that was emitted.
LEMMA DeliverOK ==
    ASSUME StreamInv, Deliver
    PROVE  /\ StreamInv'
           /\ \E s \in Emitted : Arrive(s)
<1> DEFINE E == Emitted
<1>0. /\ E \subseteq SeqNo /\ Inv /\ packList \in Seq(Of(E))
      /\ requests \in Seq(Asked(E)) /\ net \in Seq(SlicesFrom(E)) /\ net # <<>>
  BY EmittedType DEF StreamInv, About, Deliver
<1>1. /\ UNCHANGED <<head, senderVars, losses>> /\ net' = Tail(net)
      /\ OnUdpSliceReceived(net[1])
      /\ requests' = IF request' = NoRequest THEN requests ELSE Append(requests, request')
  BY DEF Deliver, OnUdpSliceReceived
<1>2. E' = E
  BY <1>1 DEF Emitted
<1> HIDE DEF E
<1>3. net[1] \in SlicesFrom(E) /\ Tail(net) \in Seq(SlicesFrom(E))
  BY <1>0, TailType
<1>4. PICK s \in E : net[1] \in SlicesOf(s)
  BY <1>3 DEF SlicesFrom
<1>5. Inv'
  BY <1>0, <1>1, <1>4, ArriveInv
<1>6. packList' \in Seq(Of(E)) /\ request' \in {NoRequest} \cup Asked(E)
  BY <1>0, <1>1, <1>4, ArriveOf
<1>7. requests' \in Seq(Asked(E))
  BY <1>0, <1>1, <1>6, AppendType
<1>8. About(Emitted)'
  <2>1. sent \in Seq(E) /\ sendList \in Seq(Queued(E))
    BY DEF StreamInv, About, E
  <2> QED
    BY <1>1, <1>2, <1>3, <1>6, <1>7, <2>1
    DEF About, E, senderVars, Of, Queued, Asked, SlicesFrom
<1>9. StreamInv'
  BY <1>1, <1>5, <1>8 DEF StreamInv, senderVars
<1>10. Arrive(s)
  BY <1>1, <1>4 DEF Arrive
<1> QED
  BY <1>9, <1>10 DEF E

LEMMA NextStreamInv == StreamInv /\ [StreamNext]_streamVars => StreamInv'
<1> SUFFICES ASSUME StreamInv, [StreamNext]_streamVars PROVE StreamInv'
  OBVIOUS
<1>1. CASE AddPackageData
  BY <1>1, AddPackageDataOK
<1>2. CASE Send \/ ReSend \/ SendRange \/ Sleep \/ SendFront
  BY <1>2, SenderStepOK
<1>3. CASE Deliver
  BY <1>3, DeliverOK
<1>4. CASE Lose
  <2>1. net \in Seq(SlicesFrom(Emitted)) /\ net # <<>>
    BY <1>4 DEF Lose, StreamInv, About
  <2>2. net' \in Seq(SlicesFrom(Emitted))
    BY <1>4, <2>1, TailType DEF Lose
  <2>3. UNCHANGED <<vars, senderVars, requests>> /\ losses' \in 0 .. MaxLoss
    BY <1>4, StreamAssumption DEF Lose, StreamInv
  <2>4. Inv'
    BY <2>3, NextInv DEF StreamInv
  <2>5. UNCHANGED <<head, packList, sent, adding, sendList, thread>>
    BY <2>3 DEF vars, senderVars
  <2>6. About(Emitted)'
    BY <2>2, <2>3, <2>5 DEF StreamInv, About, Emitted, Of, Queued, Asked, SlicesFrom
  <2> QED
    BY <2>3, <2>4, <2>5, <2>6 DEF StreamInv
<1>5. CASE IntervalPasses
  <2>1. UNCHANGED <<senderVars, net, losses, requests, packList, head>>
    BY <1>5 DEF IntervalPasses, Tick
  <2>2. Inv'
    BY <1>5, NextInv DEF StreamInv, IntervalPasses, Next
  <2>3. About(Emitted)'
    BY <2>1 DEF StreamInv, About, Emitted, Of, Queued, Asked, SlicesFrom, senderVars
  <2> QED
    BY <2>1, <2>2, <2>3 DEF StreamInv, senderVars
<1>6. CASE UNCHANGED streamVars
  <2>1. /\ UNCHANGED <<vars, net, losses, requests>>
        /\ UNCHANGED <<head, packList, sent, adding, sendList, thread>>
    BY <1>6 DEF streamVars, senderVars, vars
  <2>2. Inv'
    BY <2>1, NextInv DEF StreamInv
  <2>3. About(Emitted)'
    BY <2>1 DEF StreamInv, About, Emitted, Of, Queued, Asked, SlicesFrom
  <2> QED
    BY <2>1, <2>2, <2>3 DEF StreamInv
<1> QED
  BY <1>1, <1>2, <1>3, <1>4, <1>5, <1>6 DEF StreamNext

\* Neither the send thread nor a list ever holds a package that was not
\* numbered, whatever is lost and whatever is asked for again, and the newest
\* package kept is the newest there is (SendPackageCache).
THEOREM StreamTypeCorrect == StreamSpec => []StreamTypeOK
<1>1. StreamInit => StreamInv
  BY InitStreamInv
<1>2. StreamInv /\ [StreamNext]_streamVars => StreamInv'
  BY NextStreamInv
<1>3. StreamInv => StreamTypeOK
  <2> SUFFICES ASSUME StreamInv PROVE StreamTypeOK
    OBVIOUS
  <2>1. /\ Emitted \subseteq SeqNo /\ Emitted \subseteq 0 .. MaxFrames - 1
        /\ sent \in Seq(Emitted) /\ sendList \in Seq(Queued(Emitted))
    BY EmittedType DEF StreamInv, About
  <2>2. sent \in Seq(SeqNo)
    BY <2>1, SeqMono
  <2>3. ToSet(sent) \subseteq Emitted
    BY <2>1, LenProperties, ElementOfSeq DEF ToSet
  <2>4. \A i \in DOMAIN sendList : sendList[i].seq \in Emitted
    <3>1. \A i \in DOMAIN sendList : sendList[i] \in Queued(Emitted)
      BY <2>1, LenProperties, ElementOfSeq
    <3> QED
      BY <3>1 DEF Queued
  <2> QED
    BY <2>1, <2>2, <2>3, <2>4 DEF StreamInv, StreamTypeOK
<1> QED
  BY <1>1, <1>2, <1>3, PTL DEF StreamSpec

-----------------------------------------------------------------------------
(* The stream implements the environment of the cache *)

\* As long as the window of the cache's environment takes in the whole stream,
\* all that was emitted may arrive.
AllLive == live = NextSeq(head)

LEMMA EmittedIsLive ==
    ASSUME StreamInv, AllLive
    PROVE  Emitted \subseteq Live
<1> SUFFICES ASSUME NEW s \in Emitted PROVE s \in Live
  OBVIOUS
<1>1. head # SeqSpace - 1 /\ s \in 0 .. head
  BY DEF Emitted
<1>2. head \in 0 .. SeqSpace - 2 /\ SeqSpace \in Nat \ {0}
  BY <1>1, SeqSpaceAssumption, StreamAssumption DEF StreamInv
<1>3. head + 1 \in 0 .. SeqSpace - 1 /\ head - s \in 0 .. SeqSpace - 1
  BY <1>1, <1>2
<1>4. live = head + 1 /\ (head - s) % SeqSpace = head - s
  BY <1>2, <1>3, Remainder DEF AllLive, NextSeq
<1> QED
  BY <1>1, <1>2, <1>4 DEF Live, SeqNo

LEMMA NextAllLive ==
    ASSUME MaxFrames <= LiveWindow, StreamInv, AllLive, [StreamNext]_streamVars
    PROVE  AllLive'
<1>1. CASE AddPackageData
  <2>0. /\ SeqSpace \in Nat \ {0} /\ MaxFrames \in 1 .. SeqSpace - 1 /\ LiveWindow \in Nat
        /\ head \in {SeqSpace - 1} \cup 0 .. MaxFrames - 1
    BY SeqSpaceAssumption, StreamAssumption, CacheAssumption DEF StreamInv
  <2>1. /\ head' = NextSeq(head)
        /\ live' = IF live < LiveWindow THEN live + 1 ELSE live
        /\ head = SeqSpace - 1 \/ head + 1 < MaxFrames
    BY <1>1 DEF AddPackageData, Emit
  <2>2. CASE head = SeqSpace - 1
    <3>1. NextSeq(head) = 0 /\ (SeqSpace = 1 \/ NextSeq(0) = 1)
      BY <2>0, <2>2, Remainder DEF NextSeq
    <3>2. SeqSpace # 1
      BY SeqSpaceAssumption
    <3> QED
      BY <2>0, <2>1, <3>1, <3>2 DEF AllLive
  <2>3. CASE head # SeqSpace - 1
    <3>1. /\ head \in 0 .. SeqSpace - 3 /\ head + 1 < LiveWindow
      BY <2>0, <2>1, <2>3
    <3>2. \A x \in 0 .. SeqSpace - 2 : NextSeq(x) = x + 1
      BY <2>0, Remainder DEF NextSeq
    <3>3. NextSeq(head) = head + 1 /\ NextSeq(head + 1) = (head + 1) + 1
      <4>1. head \in 0 .. SeqSpace - 2 /\ head + 1 \in 0 .. SeqSpace - 2
        BY <2>0, <3>1
      <4> QED
        BY <3>2, <4>1
    <3> QED
      BY <2>0, <2>1, <3>1, <3>3 DEF AllLive
  <2> QED
    BY <2>2, <2>3
<1>2. CASE UNCHANGED <<head, live>>
  BY <1>2 DEF AllLive
<1>3. CASE Deliver \/ IntervalPasses
  BY <1>3 DEF Deliver, OnUdpSliceReceived, IntervalPasses, Tick, AllLive
<1> QED
  BY <1>1, <1>2, <1>3
  DEF StreamNext, streamVars, vars, Send, ReSend, SendRange, Sleep, SendFront, Lose

\* What the sender, its resends and the network do is what the cache is proved
\* right for: every step of theirs is one of its environment or none of its
\* business.  So all that is proved of the cache holds of it there.
THEOREM StreamImplementsCache ==
    ASSUME MaxFrames <= LiveWindow PROVE StreamSpec => ImplementsCache
<1> DEFINE SInv == StreamInv /\ AllLive
<1>1. StreamInit => Init /\ SInv
  <2> SUFFICES ASSUME StreamInit PROVE AllLive
    BY InitStreamInv DEF StreamInit
  <2>1. head = SeqSpace - 1 /\ live = 0 /\ SeqSpace \in Nat \ {0}
    BY SeqSpaceAssumption DEF StreamInit, Init
  <2>2. NextSeq(head) = 0
    BY <2>1, Remainder DEF NextSeq
  <2> QED
    BY <2>1, <2>2 DEF AllLive
<1>2. SInv /\ [StreamNext]_streamVars => SInv'
  BY NextStreamInv, NextAllLive
<1>3. SInv /\ [StreamNext]_streamVars => [Next]_vars
  <2> SUFFICES ASSUME StreamInv, AllLive, [StreamNext]_streamVars PROVE [Next]_vars
    OBVIOUS
  <2>1. CASE AddPackageData
    BY <2>1 DEF AddPackageData, Next
  <2>2. CASE Deliver
    BY <2>2, DeliverOK, EmittedIsLive DEF Next
  <2>3. CASE IntervalPasses
    BY <2>3 DEF IntervalPasses, Next
  <2>4. CASE UNCHANGED vars
    BY <2>4
  <2> QED
    BY <2>1, <2>2, <2>3, <2>4
    DEF StreamNext, streamVars, Send, ReSend, SendRange, Sleep, SendFront, Lose
<1> HIDE DEF SInv
<1> QED
  BY <1>1, <1>2, <1>3, PTL DEF StreamSpec, ImplementsCache, Spec

\* From Send on the phone to DoRecvUdpMessage: with any losses, resends and
\* signals missed, each frame reported is whole, and none that was begun is
\* dropped without being reported, given up after all retries, or pushed out of
\* a full list.
THEOREM WholeEndToEnd ==
    ASSUME MaxFrames <= LiveWindow
    PROVE  StreamSpec => []ReportedWhole /\ NoSilentDrop
<1>1. StreamSpec => Spec
  BY StreamImplementsCache DEF ImplementsCache
<1> QED
  BY <1>1, OnlyWholeFrames, DropsAreAccounted, PTL
=============================================================================
