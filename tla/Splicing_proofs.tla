-------------------------- MODULE Splicing_proofs ----------------------------
(***************************************************************************)
(* Proofs about Splicing: for any number of clients, any size of the       *)
(* screen and any behaviour of the phones, what is written to the file is  *)
(* a whole screen, and state and layout keep their types; and pictures of  *)
(* any size lie within the part of the screen that is theirs.              *)
(***************************************************************************)
EXTENDS Splicing, SequenceTheorems, FiniteSetTheorems, TLAPS

-----------------------------------------------------------------------------
(* The inductive invariant *)

\* What the argument needs of the types.
Types ==
    /\ pc \in [Clients -> {"idle", "frame", "clear", "place", "copy", "crashed"} \cup Inside]
    /\ DOMAIN place = Clients
    /\ DOMAIN YUVSplicingBuffer = Planes
    /\ \E S : \A p \in Planes : YUVSplicingBuffer[p] \in Seq(S)

\* Who works on the buffer holds mutex_YUVSplicing.
Exclusion == \A c \in Clients : pc[c] \in Inside => mutex = c

\* The planes agree while nobody works on them,
Agree == \A p \in Planes : YUVSplicingBuffer[p] = YUVSplicingBuffer["Y"]
Steady == (\A c \in Clients : pc[c] \notin Inside \cup {"crashed"}) => Agree

\* and differ by one step of the work done on them.
Cleared(c) == YUVSplicingBuffer["Y"] = <<>>
Copied(c) ==
    /\ YUVSplicingBuffer["U"] = YUVSplicingBuffer["V"]
    /\ YUVSplicingBuffer["Y"] = Spliced(YUVSplicingBuffer["U"], place[c])
Written(c) ==
    /\ Agree
    /\ YUVSplicingBuffer["Y"] # <<>>
    /\ Last(YUVSplicingBuffer["Y"]) = place[c]
Halfway ==
    \A c \in Clients :
        /\ pc[c] = "clearUV" => Cleared(c)
        /\ pc[c] = "copyUV" => Copied(c)
        /\ pc[c] = "write" => Written(c)

\* The program ends for all of its threads.
Ended == \A c, d \in Clients : pc[c] = "crashed" => pc[d] = "crashed"

IInv == Types /\ Exclusion /\ Steady /\ Halfway /\ Ended

-----------------------------------------------------------------------------
(* Lemmas *)

\* A picture copied into a plane lies on top of it.
LEMMA SplicedTop ==
    ASSUME NEW S, NEW plane \in Seq(S), NEW picture
    PROVE  /\ Spliced(plane, picture) \in Seq(S \cup {picture})
           /\ Spliced(plane, picture) # <<>>
           /\ Last(Spliced(plane, picture)) = picture
<1>1. Without(plane, picture.by) \in Seq(S)
  <2> DEFINE mine == { i \in DOMAIN plane : plane[i].by = picture.by }
  <2>1. CASE mine = {}
    BY <2>1 DEF Without
  <2>2. CASE mine # {}
    <3>1. PICK k : k = (CHOOSE i \in mine : TRUE)
      OBVIOUS
    <3>2. k \in 1 .. Len(plane) /\ Len(plane) \in Nat
      BY <2>2, <3>1, LenProperties
    <3>3. Without(plane, picture.by) = RemoveAt(plane, k)
      BY <2>2, <3>1 DEF Without
    <3>4. SubSeq(plane, 1, k - 1) \in Seq(S) /\ SubSeq(plane, k + 1, Len(plane)) \in Seq(S)
      BY <3>2, SubSeqProperties
    <3>5. RemoveAt(plane, k) \in Seq(S)
      BY <3>4, ConcatProperties DEF RemoveAt
    <3> QED
      BY <3>3, <3>5
  <2> QED
    BY <2>1, <2>2
<1>2. Without(plane, picture.by) \in Seq(S \cup {picture})
  BY <1>1
<1>3. PICK rest : rest = Without(plane, picture.by)
  OBVIOUS
<1>4. rest \in Seq(S \cup {picture})
  BY <1>2, <1>3
<1>5. Append(rest, picture) \in Seq(S \cup {picture})
  BY <1>4, AppendProperties
<1>6. Len(Append(rest, picture)) = Len(rest) + 1 /\ Len(rest) \in Nat
  BY <1>4, AppendProperties, LenProperties
<1>7. Append(rest, picture)[Len(rest) + 1] = picture
  BY <1>4, AppendProperties
<1>8. Append(rest, picture) # <<>>
  <2>1. Len(<<>>) = 0
    BY EmptySeq
  <2>2. Len(Append(rest, picture)) # 0
    BY <1>6
  <2> QED
    BY <2>1, <2>2, Zenon
<1>9. Spliced(plane, picture) = Append(rest, picture)
  BY <1>3 DEF Spliced
<1>10. Last(Append(rest, picture)) = picture
  BY <1>6, <1>7, Zenon DEF Last
<1> QED
  <2>1. Spliced(plane, picture) \in Seq(S \cup {picture})
    BY <1>5, <1>9, Zenon
  <2>2. Spliced(plane, picture) # <<>>
    BY <1>8, <1>9, Zenon
  <2>3. Last(Spliced(plane, picture)) = picture
    BY <1>9, <1>10, Zenon
  <2> QED
    BY <2>1, <2>2, <2>3

LEMMA InitIInv == ASSUME Init PROVE IInv
<1>1. Types
  <2>1. \A p \in Planes : YUVSplicingBuffer[p] \in Seq({})
    BY EmptySeq DEF Init
  <2> QED
    BY <2>1 DEF Init, Types
<1>2. Exclusion /\ Halfway
  BY DEF Init, Exclusion, Halfway, Inside
<1>3. Steady
  BY DEF Init, Steady, Agree, Planes
<1>4. Ended
  BY DEF Init, Ended
<1> QED
  BY <1>1, <1>2, <1>3, <1>4 DEF IInv

\* A thread that is alone in the buffer: no other one is inside of it.
LEMMA AloneInside ==
    ASSUME IInv, NEW c \in Clients, mutex \in {c, Nobody}
    PROVE  \A d \in Clients \ {c} : pc[d] \notin Inside
  BY SplicingAssumption DEF IInv, Exclusion

\* Threads that stay outside of the buffer keep the invariant.
LEMMA OutsideStep ==
    ASSUME IInv, NEW c \in Clients, UNCHANGED <<mutex, YUVSplicingBuffer>>,
           pc[c] \notin Inside \cup {"crashed"}, DOMAIN place' = Clients,
           \A d \in Clients \ {c} : place'[d] = place[d],
           NEW next \in {"idle", "frame", "clear", "place", "copy"},
           pc' = [pc EXCEPT ![c] = next]
    PROVE  IInv'
<1>1. pc'[c] = next /\ \A d \in Clients \ {c} : pc'[d] = pc[d]
  BY DEF IInv, Types
<1>2. next \notin Inside \cup {"crashed"}
  BY DEF Inside
<1>3. Types'
  BY DEF IInv, Types
<1>4. Exclusion'
  BY <1>1, <1>2 DEF IInv, Exclusion
<1>5. Steady'
  BY <1>1, <1>2 DEF IInv, Steady, Agree
<1>6. Halfway'
  BY <1>1, <1>2 DEF IInv, Halfway, Inside, Cleared, Copied, Written, Agree
<1>7. Ended'
  BY <1>1, <1>2 DEF IInv, Ended
<1> QED
  BY <1>3, <1>4, <1>5, <1>6, <1>7 DEF IInv

LEMMA FrameStep == ASSUME IInv, NEW c \in Clients, Frame(c) PROVE IInv'
  BY OutsideStep DEF Frame, ReportUnchanged, IInv, Types, Inside

LEMMA LayoutStep == ASSUME IInv, NEW c \in Clients, Layout(c) PROVE IInv'
<1>1. /\ pc[c] = "frame" /\ UNCHANGED <<place, mutex, YUVSplicingBuffer>>
      /\ pc' = [pc EXCEPT ![c] = "clear"] \/ pc' = [pc EXCEPT ![c] = "place"]
  BY DEF Layout
<1> QED
  BY <1>1, OutsideStep DEF IInv, Types, Inside

LEMMA PlaceStep == ASSUME IInv, NEW c \in Clients, Place(c) PROVE IInv'
<1>1. /\ pc[c] = "place" /\ UNCHANGED <<mutex, YUVSplicingBuffer>>
      /\ place' = [place EXCEPT ![c] = Picture(c)] \/ place' = place
      /\ pc' = [pc EXCEPT ![c] = "copy"] \/ pc' = [pc EXCEPT ![c] = "idle"]
  BY DEF Place
<1>2. DOMAIN place' = Clients /\ \A d \in Clients \ {c} : place'[d] = place[d]
  BY <1>1 DEF IInv, Types
<1> QED
  BY <1>1, <1>2, OutsideStep DEF Inside

\* The first step on the buffer.
LEMMA ClearYStep == ASSUME IInv, NEW c \in Clients, ClearY(c) PROVE IInv'
<1>1. /\ pc[c] = "clear" /\ mutex = Nobody /\ mutex' = c /\ place' = place
      /\ YUVSplicingBuffer' = [YUVSplicingBuffer EXCEPT !["Y"] = <<>>]
      /\ pc' = [pc EXCEPT ![c] = "clearUV"]
  BY DEF ClearY, Enter
<1>2. pc'[c] = "clearUV" /\ \A d \in Clients \ {c} : pc'[d] = pc[d] /\ pc[d] \notin Inside
  BY <1>1, AloneInside DEF IInv, Types
<1>3. YUVSplicingBuffer'["Y"] = <<>>
  BY <1>1 DEF IInv, Types, Planes
<1>4. Types'
  <2>1. PICK S : \A p \in Planes : YUVSplicingBuffer[p] \in Seq(S)
    BY DEF IInv, Types
  <2>2. \A p \in Planes : YUVSplicingBuffer'[p] \in Seq(S)
    BY <1>1, <2>1, EmptySeq DEF IInv, Types
  <2> QED
    BY <1>1, <2>2 DEF IInv, Types, Inside
<1>5. Exclusion' /\ Steady' /\ Halfway'
  BY <1>1, <1>2, <1>3 DEF Exclusion, Steady, Halfway, Cleared, Inside
<1>6. Ended'
  BY <1>1, <1>2 DEF IInv, Ended
<1> QED
  BY <1>4, <1>5, <1>6 DEF IInv

LEMMA ClearUVStep == ASSUME IInv, NEW c \in Clients, ClearUV(c) PROVE IInv'
<1>1. /\ pc[c] = "clearUV" /\ mutex' = Nobody /\ place' = place
      /\ YUVSplicingBuffer' = [YUVSplicingBuffer EXCEPT !["U"] = <<>>, !["V"] = <<>>]
      /\ pc' = [pc EXCEPT ![c] = "place"]
  BY DEF ClearUV, Leave
<1>2. mutex = c /\ YUVSplicingBuffer["Y"] = <<>>
  BY <1>1 DEF IInv, Exclusion, Halfway, Cleared, Inside
<1>3. pc'[c] = "place" /\ \A d \in Clients \ {c} : pc'[d] = pc[d] /\ pc[d] \notin Inside
  BY <1>1, <1>2, AloneInside DEF IInv, Types
<1>4. \A p \in Planes : YUVSplicingBuffer'[p] = <<>>
  BY <1>1, <1>2 DEF IInv, Types, Planes
<1>5. Types'
  <2>1. \A p \in Planes : YUVSplicingBuffer'[p] \in Seq({})
    BY <1>4, EmptySeq
  <2> QED
    BY <1>1, <2>1 DEF IInv, Types, Inside
<1>6. Agree'
  BY <1>4 DEF Agree, Planes
<1>7. Exclusion' /\ Steady' /\ Halfway'
  BY <1>3, <1>6 DEF Exclusion, Steady, Halfway, Inside
<1>8. Ended'
  BY <1>1, <1>3 DEF IInv, Ended
<1> QED
  BY <1>5, <1>7, <1>8 DEF IInv

\* A picture is copied: first its luma,
LEMMA CopyYStep == ASSUME IInv, NEW c \in Clients, CopyY(c) PROVE IInv'
<1>1. /\ pc[c] = "copy" /\ mutex = Nobody /\ mutex' = c /\ place' = place
      /\ YUVSplicingBuffer' =
            [YUVSplicingBuffer EXCEPT !["Y"] = Spliced(YUVSplicingBuffer["Y"], place[c])]
      /\ pc' = [pc EXCEPT ![c] = "copyUV"]
  BY DEF CopyY, Enter
<1>2. pc'[c] = "copyUV" /\ \A d \in Clients \ {c} : pc'[d] = pc[d] /\ pc[d] \notin Inside
  BY <1>1, AloneInside DEF IInv, Types
<1>3. PICK S : \A p \in Planes : YUVSplicingBuffer[p] \in Seq(S)
  BY DEF IInv, Types
<1>4. /\ YUVSplicingBuffer'["Y"] = Spliced(YUVSplicingBuffer["Y"], place[c])
      /\ YUVSplicingBuffer'["U"] = YUVSplicingBuffer["U"]
      /\ YUVSplicingBuffer'["V"] = YUVSplicingBuffer["V"]
      /\ DOMAIN YUVSplicingBuffer' = Planes
  BY <1>1 DEF IInv, Types, Planes
<1>5. Types'
  <2>1. YUVSplicingBuffer'["Y"] \in Seq(S \cup {place[c]})
    BY <1>3, <1>4, SplicedTop DEF Planes
  <2>2. \A p \in {"U", "V"} : YUVSplicingBuffer'[p] \in Seq(S \cup {place[c]})
    BY <1>3, <1>4 DEF Planes
  <2>3. \A p \in Planes : YUVSplicingBuffer'[p] \in Seq(S \cup {place[c]})
    BY <2>1, <2>2 DEF Planes
  <2> QED
    BY <1>1, <1>4, <2>3 DEF IInv, Types, Inside
<1>6. Copied(c)'
  <2>1. \A d \in Clients : pc[d] \notin Inside \cup {"crashed"}
    BY <1>1, <1>2 DEF IInv, Ended, Inside
  <2>2. Agree
    BY <2>1 DEF IInv, Steady
  <2> QED
    BY <1>1, <1>4, <2>2 DEF Agree, Copied, Planes
<1>7. Exclusion' /\ Steady' /\ Halfway'
  BY <1>1, <1>2, <1>6 DEF Exclusion, Steady, Halfway, Inside
<1>8. Ended'
  BY <1>1, <1>2 DEF IInv, Ended
<1> QED
  BY <1>5, <1>7, <1>8 DEF IInv

\* then its colours.
LEMMA CopyUVStep == ASSUME IInv, NEW c \in Clients, CopyUV(c) PROVE IInv'
<1>1. /\ pc[c] = "copyUV" /\ mutex' = mutex /\ place' = place
      /\ YUVSplicingBuffer' =
            [YUVSplicingBuffer EXCEPT !["U"] = Spliced(YUVSplicingBuffer["U"], place[c]),
                                      !["V"] = Spliced(YUVSplicingBuffer["V"], place[c])]
      /\ pc' = [pc EXCEPT ![c] = "write"]
  BY DEF CopyUV
<1>2. mutex = c /\ Copied(c)
  BY <1>1 DEF IInv, Exclusion, Halfway, Inside
<1>3. pc'[c] = "write" /\ \A d \in Clients \ {c} : pc'[d] = pc[d] /\ pc[d] \notin Inside
  BY <1>1, <1>2, AloneInside DEF IInv, Types
<1>4. PICK S : \A p \in Planes : YUVSplicingBuffer[p] \in Seq(S)
  BY DEF IInv, Types
<1>5. PICK whole : whole = Spliced(YUVSplicingBuffer["U"], place[c])
  OBVIOUS
<1>6. /\ whole \in Seq(S \cup {place[c]})
      /\ whole # <<>>
      /\ Last(whole) = place[c]
  BY <1>4, <1>5, SplicedTop DEF Planes
<1>7. \A p \in Planes : YUVSplicingBuffer'[p] = whole
  BY <1>1, <1>2, <1>5 DEF Copied, IInv, Types, Planes
<1>8. DOMAIN YUVSplicingBuffer' = Planes
  BY <1>1 DEF IInv, Types
<1>9. Types'
  <2>1. \A p \in Planes : YUVSplicingBuffer'[p] \in Seq(S \cup {place[c]})
    BY <1>6, <1>7
  <2> QED
    BY <1>1, <1>8, <2>1 DEF IInv, Types, Inside
<1>10. Written(c)'
  BY <1>1, <1>6, <1>7 DEF Written, Agree, Planes
<1>11. Exclusion' /\ Steady' /\ Halfway'
  BY <1>1, <1>2, <1>3, <1>10 DEF Exclusion, Steady, Halfway, Inside
<1>12. Ended'
  BY <1>1, <1>3 DEF IInv, Ended
<1> QED
  BY <1>9, <1>11, <1>12 DEF IInv

\* The screen is written.
LEMMA WriteStep == ASSUME IInv, NEW c \in Clients, Write(c) PROVE IInv'
<1>1. /\ pc[c] = "write" /\ mutex' = Nobody /\ YUVSplicingBuffer' = YUVSplicingBuffer
      /\ pc' = [pc EXCEPT ![c] = "idle"] /\ place' = [place EXCEPT ![c] = NoPicture]
  BY DEF Write, Leave
<1>2. mutex = c /\ Agree
  BY <1>1 DEF IInv, Exclusion, Halfway, Written, Inside
<1>3. pc'[c] = "idle" /\ \A d \in Clients \ {c} : pc'[d] = pc[d] /\ pc[d] \notin Inside
  BY <1>1, <1>2, AloneInside DEF IInv, Types
<1>4. Types'
  BY <1>1 DEF IInv, Types
<1>5. Exclusion' /\ Steady' /\ Halfway'
  BY <1>1, <1>2, <1>3 DEF Exclusion, Steady, Halfway, Agree, Inside
<1>6. Ended'
  BY <1>1, <1>3 DEF IInv, Ended
<1> QED
  BY <1>4, <1>5, <1>6 DEF IInv

\* The program ends.
LEMMA CrashStep == ASSUME IInv, NEW c \in Clients, Crash PROVE IInv'
<1>1. /\ \A d \in Clients : pc'[d] = "crashed"
      /\ UNCHANGED <<place, YUVSplicingBuffer>>
  BY DEF Crash
<1>2. Types'
  BY <1>1 DEF Crash, IInv, Types
<1> QED
  BY <1>1, <1>2 DEF IInv, Exclusion, Steady, Halfway, Ended, Inside

\* A receive thread touches neither the buffer nor its mutex.
LEMMA UnseenStep ==
    ASSUME IInv, UNCHANGED <<pc, place, mutex, YUVSplicingBuffer>>
    PROVE  IInv'
  BY DEF IInv, Types, Exclusion, Steady, Halfway, Cleared, Copied, Written, Agree, Ended

LEMMA NextIInv == ASSUME IInv, [Next]_vars PROVE IInv'
<1>1. ASSUME NEW c \in Clients, RecvStep(c) PROVE IInv'
  <2>1. UNCHANGED <<pc, place, mutex, YUVSplicingBuffer>>
    BY <1>1 DEF RecvStep, HandlerStep, Start, Increment, Enlist, Finish, Ask, Restart,
                Stop, Decrement, CloseFile, Forget, RecvUnchanged
  <2> QED
    BY <2>1, UnseenStep
<1>2. CASE OpenFile
  BY <1>2, UnseenStep DEF OpenFile, RecvUnchanged
<1>3. ASSUME NEW c \in Clients, Frame(c) PROVE IInv'
  BY <1>3, FrameStep
<1>4. ASSUME NEW c \in Clients, ReportStep(c) PROVE IInv'
  BY <1>4, LayoutStep, ClearYStep, ClearUVStep, PlaceStep, CopyYStep, CopyUVStep, WriteStep
     DEF ReportStep
<1>5. ASSUME NEW c \in Clients, LayoutUnset(c) \/ WriteClosed(c) PROVE IInv'
  BY <1>5, CrashStep DEF LayoutUnset, WriteClosed
<1>6. CASE UNCHANGED vars
  BY <1>6, UnseenStep DEF vars
<1> QED
  BY <1>1, <1>2, <1>3, <1>4, <1>5, <1>6 DEF Next

-----------------------------------------------------------------------------
(* Theorem *)

\* Each screen written to the file is whole, whoever else copies a picture,
\* clears the buffer, comes or goes (dump_mpp_frame_to_file and
\* mutex_YUVSplicing).
THEOREM WholeScreens == Spec => []WrittenWhole
<1>1. Init => IInv
  BY InitIInv
<1>2. IInv /\ [Next]_vars => IInv'
  BY NextIInv
<1>3. IInv => WrittenWhole
  BY DEF IInv, Halfway, Written, Agree, WrittenWhole
<1> QED
  BY <1>1, <1>2, <1>3, PTL DEF Spec

-----------------------------------------------------------------------------
(* TypeOK *)

\* clientpalyerList has each of its clients once.
Distinct(list) == \A i, j \in 1 .. Len(list) : list[i] = list[j] => i = j

\* What TypeOK needs to be inductive: a client enters the list only while it is
\* not in it, and the layout a thread has seen last has given it a canvas.
Unlisted ==
    \A c \in Clients : rpc[c] \in {"starting", "listing"} => c \notin ToSet(clientpalyerList)

TInv ==
    /\ clientpalyerList \in Seq(Clients) /\ Distinct(clientpalyerList)
    /\ Unlisted
    /\ ClientPlayernum \in Int
    /\ seen \in [Clients -> Int] /\ mNum \in [Clients -> Int]
    /\ rpc \in [Clients -> Places]
    /\ DOMAIN old = Clients /\ DOMAIN canvas = Clients
    /\ \A c \in Clients :
         /\ pc[c] \in {"clear", "place", "copy"} \cup Inside => canvas[c] # NoSize
         /\ HasCanvas(old[c].mNum) => canvas[c] # NoSize
    /\ mutex \in Clients => pc[mutex] \in Inside \cup {"crashed"}
    /\ mutex \in Clients \cup {Nobody}
    /\ mFYUVout \in {"open", "closed", "null"}
    /\ changes \in 0 .. MaxChanges

\* A list without repetitions is no longer than its elements are many.
LEMMA DistinctIsShort ==
    ASSUME NEW list \in Seq(Clients), Distinct(list)
    PROVE  Len(list) \in 0 .. Cardinality(Clients)
<1> DEFINE places == 1 .. Len(list)
<1>1. /\ Len(list) \in Nat /\ list \in [places -> Clients]
      /\ IsFiniteSet(Clients) /\ Cardinality(Clients) \in Nat
  BY LenProperties, SplicingAssumption, FS_CardinalityType
<1>2. IsFiniteSet(places) /\ Cardinality(places) = Len(list)
  <2>1. \A n \in Nat : /\ IsFiniteSet(1 .. n)
                       /\ Cardinality(1 .. n) = IF 1 > n THEN 0 ELSE n - 1 + 1
    BY FS_Interval
  <2>2. \A n \in Nat : (IF 1 > n THEN 0 ELSE n - 1 + 1) = n
    OBVIOUS
  <2> QED
    BY <1>1, <2>1, <2>2, Zenon
<1>3. ~(Cardinality(Clients) < Cardinality(places))
  <2> SUFFICES ASSUME Cardinality(Clients) < Cardinality(places) PROVE FALSE
    OBVIOUS
  <2> HIDE DEF places
  <2>1. \E x, y \in places : x # y /\ list[x] = list[y]
    BY <1>1, <1>2, FS_PigeonHole
  <2> QED
    BY <2>1 DEF places, Distinct
<1> QED
  BY <1>1, <1>2, <1>3

\* The elements of a list.
LEMMA ElementIsIn ==
    ASSUME NEW S, NEW list \in Seq(S)
    PROVE  /\ \A i \in 1 .. Len(list) : list[i] \in ToSet(list)
           /\ \A e \in ToSet(list) : \E i \in 1 .. Len(list) : e = list[i]
BY LenProperties DEF ToSet

\* A client that is not in the list is appended to it.
LEMMA AppendDistinct ==
    ASSUME NEW list \in Seq(Clients), Distinct(list), NEW c \in Clients \ ToSet(list)
    PROVE  /\ Append(list, c) \in Seq(Clients) /\ Distinct(Append(list, c))
           /\ ToSet(Append(list, c)) \subseteq ToSet(list) \cup {c}
<1>1. /\ Append(list, c) \in Seq(Clients) /\ Len(list) \in Nat
      /\ Len(Append(list, c)) = Len(list) + 1
      /\ \A i \in 1 .. Len(list) : Append(list, c)[i] = list[i]
      /\ Append(list, c)[Len(list) + 1] = c
  BY AppendProperties, LenProperties
<1>2. \A i \in 1 .. Len(list) : list[i] # c
  BY LenProperties DEF ToSet
<1>3. \A i \in 1 .. Len(Append(list, c)) : i \in 1 .. Len(list) \/ i = Len(list) + 1
  BY <1>1
<1>4. Distinct(Append(list, c))
  BY <1>1, <1>2, <1>3, Zenon DEF Distinct
<1>5. ASSUME NEW e \in ToSet(Append(list, c)) PROVE e \in ToSet(list) \cup {c}
  <2>1. PICK i \in 1 .. Len(Append(list, c)) : e = Append(list, c)[i]
    BY <1>1, ElementIsIn
  <2>2. CASE i \in 1 .. Len(list)
    BY <1>1, <2>1, <2>2, ElementIsIn
  <2>3. CASE i = Len(list) + 1
    BY <1>1, <2>1, <2>3
  <2> QED
    BY <1>3, <2>2, <2>3
<1> QED
  BY <1>1, <1>4, <1>5

\* RemoveFirst takes one element out and leaves the others in their order.
LEMMA RemoveFirstIs ==
    ASSUME NEW S, NEW list \in Seq(S), NEW e
    PROVE  \/ RemoveFirst(list, e) = list
           \/ \E k \in 1 .. Len(list) :
                /\ RemoveFirst(list, e) \in Seq(S)
                /\ Len(RemoveFirst(list, e)) = Len(list) - 1
                /\ \A x \in 1 .. Len(list) - 1 :
                     RemoveFirst(list, e)[x] = IF x < k THEN list[x] ELSE list[x + 1]
<1> DEFINE I == { x \in 1 .. Len(list) : list[x] = e }
           k == CHOOSE x \in I : \A y \in I : x <= y
           s == SubSeq(list, 1, k - 1)
           t == SubSeq(list, k + 1, Len(list))
<1>1. Len(list) \in Nat /\ \A x \in 1 .. Len(list) : list[x] \in S
  BY LenProperties, ElementOfSeq
<1>2. CASE I = {}
  BY <1>2 DEF RemoveFirst
<1>3. CASE I # {}
  <2>1. k \in 1 .. Len(list)
    <3>1. I \subseteq Nat
      BY <1>1
    <3> HIDE DEF I
    <3>2. PICK x \in I : \A y \in I : <<y, x>> \notin OpToRel(<, Nat)
      BY <1>3, <3>1, WFMin, NatLessThanWellFounded
    <3>3. \A y \in I : ~(y < x)
      BY <3>1, <3>2, Zenon DEF OpToRel
    <3>4. \A y \in I : x <= y
      BY <3>1, <3>3
    <3>5. k \in I
      BY <3>4
    <3> QED
      BY <3>5 DEF I
  <2>2. RemoveFirst(list, e) = s \o t
    BY <1>1, <1>3 DEF RemoveFirst, RemoveAt, SelectInSeq, Min
  <2> HIDE DEF k, I
  <2>3. /\ s \in Seq(S) /\ Len(s) = k - 1
        /\ \A x \in 1 .. k - 1 : s[x] = list[x]
    <3>1. \A x \in 1 .. k - 1 : list[x] \in S
      BY <1>1, <2>1
    <3> QED
      BY <1>1, <2>1, <3>1, SubSeqProperties
  <2>4. /\ t \in Seq(S) /\ Len(t) = Len(list) - k
        /\ \A x \in 1 .. Len(list) - k : t[x] = list[x + k]
    <3>1. \A x \in k + 1 .. Len(list) : list[x] \in S
      BY <1>1, <2>1
    <3> QED
      BY <1>1, <2>1, <3>1, SubSeqProperties
  <2> HIDE DEF s, t
  <2>5. /\ s \o t \in Seq(S) /\ Len(s \o t) = Len(s) + Len(t)
        /\ \A x \in 1 .. Len(s) + Len(t) :
             (s \o t)[x] = IF x <= Len(s) THEN s[x] ELSE t[x - Len(s)]
    BY <2>3, <2>4, ConcatProperties
  <2>6. Len(s \o t) = Len(list) - 1
    BY <1>1, <2>1, <2>3, <2>4, <2>5
  <2>7. ASSUME NEW x \in 1 .. Len(list) - 1
        PROVE  (s \o t)[x] = IF x < k THEN list[x] ELSE list[x + 1]
    <3>1. x \in 1 .. Len(s) + Len(t)
      BY <2>5, <2>6
    <3>2. CASE x < k
      BY <1>1, <2>1, <2>3, <2>5, <3>1, <3>2
    <3>3. CASE ~(x < k)
      <4>1. ~(x <= Len(s)) /\ x - Len(s) \in 1 .. Len(list) - k /\ x - Len(s) + k = x + 1
        BY <1>1, <2>1, <2>3, <3>3
      <4> QED
        BY <2>4, <2>5, <3>1, <3>3, <4>1
    <3> QED
      BY <3>2, <3>3
  <2> QED
    BY <2>1, <2>2, <2>5, <2>6, <2>7
<1> QED
  BY <1>2, <1>3

\* So a list without repetitions stays one.
LEMMA RemoveDistinct ==
    ASSUME NEW list \in Seq(Clients), Distinct(list), NEW c
    PROVE  /\ RemoveFirst(list, c) \in Seq(Clients) /\ Distinct(RemoveFirst(list, c))
           /\ ToSet(RemoveFirst(list, c)) \subseteq ToSet(list)
<1>1. CASE RemoveFirst(list, c) = list
  BY <1>1
<1>2. CASE RemoveFirst(list, c) # list
  <2>1. PICK k \in 1 .. Len(list) :
          /\ RemoveFirst(list, c) \in Seq(Clients)
          /\ Len(RemoveFirst(list, c)) = Len(list) - 1
          /\ \A x \in 1 .. Len(list) - 1 :
               RemoveFirst(list, c)[x] = IF x < k THEN list[x] ELSE list[x + 1]
    BY <1>2, RemoveFirstIs
  <2>2. Len(list) \in Nat
    BY LenProperties
  <2>3. ASSUME NEW x \in 1 .. Len(list) - 1, NEW y \in 1 .. Len(list) - 1,
               (IF x < k THEN list[x] ELSE list[x + 1]) = (IF y < k THEN list[y] ELSE list[y + 1])
        PROVE  x = y
    BY <2>2, <2>3 DEF Distinct
  <2>4. Distinct(RemoveFirst(list, c))
    BY <2>1, <2>2, <2>3 DEF Distinct
  <2>5. \A x \in 1 .. Len(RemoveFirst(list, c)) :
          \E y \in 1 .. Len(list) : RemoveFirst(list, c)[x] = list[y]
    <3> SUFFICES ASSUME NEW x \in 1 .. Len(list) - 1
                 PROVE  \E y \in 1 .. Len(list) : RemoveFirst(list, c)[x] = list[y]
      BY <2>1
    <3>1. x \in 1 .. Len(list) /\ x + 1 \in 1 .. Len(list)
      BY <2>2
    <3>2. RemoveFirst(list, c)[x] = list[x] \/ RemoveFirst(list, c)[x] = list[x + 1]
      BY <2>1
    <3> QED
      BY <3>1, <3>2
  <2>6. ASSUME NEW e \in ToSet(RemoveFirst(list, c)) PROVE e \in ToSet(list)
    <3>1. PICK x \in 1 .. Len(RemoveFirst(list, c)) : e = RemoveFirst(list, c)[x]
      BY <2>1, ElementIsIn
    <3>2. PICK y \in 1 .. Len(list) : RemoveFirst(list, c)[x] = list[y]
      BY <2>5
    <3> QED
      BY <3>1, <3>2, ElementIsIn
  <2> QED
    BY <2>1, <2>4, <2>6
<1> QED
  BY <1>1, <1>2


LEMMA InitTInv == ASSUME Init PROVE TInv
<1>1. clientpalyerList \in Seq(Clients) /\ Distinct(clientpalyerList)
  BY EmptySeq DEF Init, Distinct
<1>2. /\ ClientPlayernum \in Int /\ Unlisted
      /\ seen \in [Clients -> Int] /\ mNum \in [Clients -> Int] /\ rpc \in [Clients -> Places]
  BY DEF Init, Unlisted, Places
<1>3. changes \in 0 .. MaxChanges
  BY SplicingAssumption DEF Init
<1>4. \A c \in Clients : /\ pc[c] \notin {"clear", "place", "copy"} \cup Inside
                         /\ ~HasCanvas(old[c].mNum)
  BY DEF Init, Inside, HasCanvas
<1> QED
  BY <1>1, <1>2, <1>3, <1>4, SplicingAssumption DEF Init, TInv

\* The receive threads change the list, the numbers and the file.
LEMMA RecvKeepsTInv ==
    ASSUME TInv, IInv, (\E c \in Clients : RecvStep(c)) \/ OpenFile
    PROVE  TInv'
<1>1. UNCHANGED <<pc, old, canvas, mutex>>
  BY DEF RecvStep, HandlerStep, Start, Increment, Enlist, Finish, Ask, Restart, Stop,
         Decrement, CloseFile, Forget, OpenFile, RecvUnchanged
<1>2. CASE OpenFile
  BY <1>1, <1>2 DEF OpenFile, TInv, Unlisted
<1>3. ASSUME NEW c \in Clients, RecvStep(c) PROVE TInv'
  <2>1. clientpalyerList \in Seq(Clients) /\ Distinct(clientpalyerList) /\ Unlisted /\ rpc \in [Clients -> Places]
    BY DEF TInv
  <2>2. rpc' \in [Clients -> Places] /\ \A d \in Clients \ {c} : rpc'[d] = rpc[d]
    <3>1. \E there \in Places : rpc' = [rpc EXCEPT ![c] = there]
      BY <1>3 DEF RecvStep, HandlerStep, Start, Increment, Enlist, Finish, Ask, Restart, Stop,
                  Decrement, CloseFile, Forget, Goes, Places
    <3> QED
      BY <2>1, <3>1
  <2>3. clientpalyerList' \in Seq(Clients) /\ Distinct(clientpalyerList') /\ Unlisted'
    <3>1. CASE Start(c)
      <4>1. c \notin ToSet(clientpalyerList) /\ clientpalyerList' = clientpalyerList
        BY <3>1 DEF Start
      <4> QED
        BY <2>1, <2>2, <4>1 DEF Unlisted
    <3>2. CASE Enlist(c)
      <4>1. /\ rpc[c] = "listing" /\ rpc'[c] = "finishing"
            /\ clientpalyerList' = Append(clientpalyerList, c)
        BY <2>1, <3>2 DEF Enlist, Goes
      <4>2. c \in Clients \ ToSet(clientpalyerList)
        BY <2>1, <4>1 DEF Unlisted
      <4>3. /\ clientpalyerList' \in Seq(Clients) /\ Distinct(clientpalyerList')
            /\ ToSet(clientpalyerList') \subseteq ToSet(clientpalyerList) \cup {c}
        BY <2>1, <4>1, <4>2, AppendDistinct
      <4> QED
        BY <2>1, <2>2, <4>1, <4>3 DEF Unlisted
    <3>3. CASE Stop(c)
      <4>1. rpc'[c] = "stopping" /\ clientpalyerList' = RemoveFirst(clientpalyerList, c)
        BY <2>1, <3>3 DEF Stop
      <4>2. /\ clientpalyerList' \in Seq(Clients) /\ Distinct(clientpalyerList')
            /\ ToSet(clientpalyerList') \subseteq ToSet(clientpalyerList)
        BY <2>1, <4>1, RemoveDistinct
      <4> QED
        BY <2>1, <2>2, <4>1, <4>2 DEF Unlisted
    <3>4. CASE \/ Increment(c) \/ Finish(c) \/ Ask(c) \/ Restart(c)
               \/ Decrement(c) \/ CloseFile(c) \/ Forget(c)
      <4>1. /\ clientpalyerList' = clientpalyerList /\ rpc'[c] # "starting"
            /\ rpc'[c] = "listing" => rpc[c] = "starting"
        BY <2>1, <3>4 DEF Increment, Finish, Ask, Restart, Decrement, CloseFile, Forget, Goes
      <4> QED
        BY <2>1, <2>2, <4>1 DEF Unlisted
    <3> QED
      BY <1>3, <3>1, <3>2, <3>3, <3>4 DEF RecvStep, HandlerStep
  <2>4. ClientPlayernum' \in Int /\ seen' \in [Clients -> Int] /\ mNum' \in [Clients -> Int]
    BY <1>3 DEF TInv, RecvStep, HandlerStep, Start, Increment, Enlist, Finish, Ask, Restart, Stop,
                Decrement, CloseFile, Forget, Load
  <2>5. mFYUVout' \in {"open", "closed", "null"}
    BY <1>3 DEF TInv, RecvStep, HandlerStep, Start, Increment, Enlist, Finish, Ask, Restart, Stop,
                Decrement, CloseFile, Forget
  <2>6. changes' \in 0 .. MaxChanges
    <3>1. changes \in 0 .. MaxChanges /\ MaxChanges \in Nat
      BY SplicingAssumption DEF TInv
    <3>2. changes' = changes \/ (changes < MaxChanges /\ changes' = changes + 1)
      BY <1>3 DEF RecvStep, HandlerStep, Start, Increment, Enlist, Finish, Ask, Restart, Stop,
                  Decrement, CloseFile, Forget
    <3> QED
      BY <3>1, <3>2
  <2> QED
    BY <1>1, <2>2, <2>3, <2>4, <2>5, <2>6 DEF TInv
<1> QED
  BY <1>2, <1>3

\* A canvas is never as small as no canvas.
LEMMA CanvasIsSome == ASSUME NEW n, HasCanvas(n) PROVE Canvas(n) # NoSize
<1>1. n \in {1, 2, 3, 4}
  BY DEF HasCanvas
<1>2. TVScreenwidth \div 1 # 0 /\ TVScreenwidth \div 2 # 0
  BY ScreenAssumption
<1> QED
  BY <1>1, <1>2 DEF Canvas, NoSize

\* A report thread changes its own layout, and waits with a picture until it
\* has a canvas.
LEMMA ReportKeepsTInv ==
    ASSUME TInv, IInv, NEW c \in Clients, Frame(c) \/ ReportStep(c)
    PROVE  TInv'
<1>1. UNCHANGED <<clientpalyerList, ClientPlayernum, seen, mNum, rpc, mFYUVout, changes>>
  BY DEF Frame, ReportStep, Layout, ClearY, ClearUV, Place, CopyY, CopyUV, Write, ReportUnchanged
<1>2. /\ pc \in [Clients -> {"idle", "frame", "clear", "place", "copy", "crashed"} \cup Inside]
      /\ DOMAIN old = Clients /\ DOMAIN canvas = Clients
      /\ \A d \in Clients : pc[d] \in Inside => mutex = d
      /\ \A d \in Clients : pc[d] \in {"clear", "place", "copy"} \cup Inside => canvas[d] # NoSize
      /\ \A d \in Clients : HasCanvas(old[d].mNum) => canvas[d] # NoSize
      /\ mutex \in Clients => pc[mutex] \in Inside \cup {"crashed"}
      /\ mutex \in Clients \cup {Nobody} /\ Nobody \notin Clients
  BY SplicingAssumption DEF TInv, IInv, Types, Exclusion
<1> DEFINE Good == /\ DOMAIN old' = Clients /\ DOMAIN canvas' = Clients
                   /\ \A d \in Clients :
                        /\ pc'[d] \in {"clear", "place", "copy"} \cup Inside => canvas'[d] # NoSize
                        /\ HasCanvas(old'[d].mNum) => canvas'[d] # NoSize
                   /\ mutex' \in Clients => pc'[mutex'] \in Inside \cup {"crashed"}
                   /\ mutex' \in Clients \cup {Nobody}
<1> SUFFICES Good
  BY <1>1 DEF TInv, Unlisted
<1>3. CASE Layout(c)
  <2>1. mutex' = mutex /\ pc[c] = "frame" /\ pc'[c] \in {"clear", "place"}
        /\ \A d \in Clients \ {c} : pc'[d] = pc[d]
    BY <1>2, <1>3 DEF Layout
  <2>2. mutex # c
    BY <1>2, <2>1 DEF Inside
  <2>3. CASE NewLayout(c)
    <3>1. /\ canvas' = [canvas EXCEPT ![c] = IF HasCanvas(mNum[c]) THEN Canvas(mNum[c]) ELSE @]
          /\ old' = [old EXCEPT ![c] = [mNum |-> mNum[c], size |-> size[c]]]
          /\ HasCanvas(mNum[c]) \/ canvas[c] # NoSize
      BY <1>3, <2>3 DEF Layout
    <3>2. canvas'[c] # NoSize
      BY <1>2, <3>1, CanvasIsSome
    <3>3. /\ DOMAIN old' = Clients /\ DOMAIN canvas' = Clients
          /\ \A d \in Clients \ {c} : old'[d] = old[d] /\ canvas'[d] = canvas[d]
      BY <1>2, <3>1
    <3> QED
      BY <1>2, <2>1, <2>2, <3>2, <3>3
  <2>4. CASE ~NewLayout(c)
    <3>1. UNCHANGED <<canvas, old>> /\ (HasCanvas(mNum[c]) \/ canvas[c] # NoSize)
      BY <1>3, <2>4 DEF Layout
    <3>2. old[c].mNum = mNum[c]
      BY <2>4 DEF NewLayout
    <3> QED
      BY <1>2, <2>1, <2>2, <3>1, <3>2
  <2> QED
    BY <2>3, <2>4
<1>4. CASE Frame(c) \/ Place(c)
  <2>1. /\ UNCHANGED <<canvas, old, mutex>>
        /\ \/ pc[c] = "idle" /\ pc'[c] = "frame"
           \/ pc[c] = "place" /\ pc'[c] \in {"copy", "idle"}
        /\ \A d \in Clients \ {c} : pc'[d] = pc[d]
    BY <1>2, <1>4 DEF Frame, Place
  <2>2. mutex # c
    BY <1>2, <2>1 DEF Inside
  <2> QED
    BY <1>2, <2>1, <2>2 DEF Inside
<1>5. CASE ClearY(c) \/ CopyY(c)
  <2>1. /\ UNCHANGED <<canvas, old>> /\ mutex = Nobody /\ mutex' = c
        /\ \/ pc[c] = "clear" /\ pc'[c] = "clearUV"
           \/ pc[c] = "copy" /\ pc'[c] = "copyUV"
        /\ \A d \in Clients \ {c} : pc'[d] = pc[d]
    BY <1>2, <1>5 DEF ClearY, CopyY, Enter
  <2> QED
    BY <1>2, <2>1 DEF Inside
<1>6. CASE CopyUV(c)
  <2>1. /\ UNCHANGED <<canvas, old, mutex>> /\ pc[c] = "copyUV" /\ pc'[c] = "write"
        /\ \A d \in Clients \ {c} : pc'[d] = pc[d]
    BY <1>2, <1>6 DEF CopyUV
  <2> QED
    BY <1>2, <2>1 DEF Inside
<1>7. CASE ClearUV(c) \/ Write(c)
  <2>1. /\ UNCHANGED <<canvas, old>> /\ mutex' = Nobody
        /\ \/ pc[c] = "clearUV" /\ pc'[c] = "place"
           \/ pc[c] = "write" /\ pc'[c] = "idle"
        /\ \A d \in Clients \ {c} : pc'[d] = pc[d]
    BY <1>2, <1>7 DEF ClearUV, Write, Leave
  <2> QED
    BY <1>2, <2>1 DEF Inside
<1> HIDE DEF Good
<1> QED
  BY <1>3, <1>4, <1>5, <1>6, <1>7 DEF ReportStep

\* The end of the program.
LEMMA CrashKeepsTInv == ASSUME TInv, Crash PROVE TInv'
<1>1. /\ pc' = [d \in Clients |-> "crashed"] /\ rpc' = [d \in Clients |-> "crashed"]
      /\ mFYUVout' = "null"
      /\ UNCHANGED <<clientpalyerList, ClientPlayernum, seen, mNum, old, canvas, mutex, changes>>
  BY DEF Crash
<1>2. \A d \in Clients : pc'[d] = "crashed" /\ rpc'[d] = "crashed"
  BY <1>1
<1> QED
  BY <1>1, <1>2 DEF TInv, Inside, Unlisted, Places

LEMMA NextTInv == ASSUME IInv, TInv, [Next]_vars PROVE TInv'
<1>1. CASE UNCHANGED vars
  BY <1>1 DEF vars, TInv, Unlisted
<1>2. CASE Next
  BY <1>2, RecvKeepsTInv, ReportKeepsTInv, CrashKeepsTInv
     DEF Next, LayoutUnset, WriteClosed
<1> QED
  BY <1>1, <1>2

\* mutex_YUVSplicing is held by the thread that changes or writes the buffer
\* and by no other, and a picture is placed on a canvas only once there is one
\* (dump_mpp_frame_to_file, GetDisplayerResolvingPower).
THEOREM TypeCorrect == Spec => []TypeOK
<1>1. Init => IInv /\ TInv
  BY InitIInv, InitTInv
<1>2. IInv /\ TInv /\ [Next]_vars => (IInv /\ TInv)'
  BY NextIInv, NextTInv
<1>3. IInv /\ TInv => TypeOK
  BY DistinctIsShort DEF IInv, Types, Exclusion, TInv, TypeOK
<1> QED
  BY <1>1, <1>2, <1>3, PTL DEF Spec

-----------------------------------------------------------------------------
(* Where pictures lie                                                        *)

\* A quotient is no greater than what the dividend is a multiple of at most.
LEMMA Quotient ==
    ASSUME NEW a \in Nat, NEW b \in Nat, NEW d \in Nat \ {0}, a <= b * d
    PROVE  a \div d \in Nat /\ a \div d <= b
<1> DEFINE q == a \div d
<1>1. q \in Int /\ q * d <= a /\ a < (q + 1) * d
  BY Z3
<1> HIDE DEF q
<1>2. (q + 1) * d = q * d + d /\ q * d \in Int /\ b * d \in Int
  BY <1>1
<1>3. q >= 0
  <2> SUFFICES ASSUME q + 1 <= 0 PROVE FALSE
    BY <1>1
  <2>1. (q + 1) * d <= 0
    BY <1>1
  <2> QED
    BY <1>1, <1>2, <2>1
<1>4. q <= b
  <2> SUFFICES ASSUME q >= b + 1 PROVE FALSE
    BY <1>1
  <2>1. q * d >= (b + 1) * d /\ (b + 1) * d = b * d + d
    BY <1>1
  <2> QED
    BY <1>1, <1>2, <2>1
<1> QED
  BY <1>1, <1>3, <1>4 DEF q

\* Offset a is that of column x and row y.
At(a, x, y, d) == a % d = x /\ a \div d = y

\* The column and the row of an offset.
LEMMA ColumnAndRow ==
    ASSUME NEW d \in Nat \ {0}, NEW x \in 0 .. d - 1, NEW y \in Nat, NEW a, a = x + y * d
    PROVE  At(a, x, y, d)
<1> DEFINE q == a \div d
<1>1. y * d \in Nat /\ a \in Nat
  OBVIOUS
<1>2. q \in Int /\ q * d <= a /\ a < (q + 1) * d
  BY <1>1, Z3
<1>3. a % d = a - q * d
  BY <1>1, Z3
<1> HIDE DEF q
<1>4. q * d \in Int /\ (q + 1) * d = q * d + d /\ (y + 1) * d = y * d + d
  BY <1>2
<1>5. q <= y
  <2> SUFFICES ASSUME q >= y + 1 PROVE FALSE
    BY <1>2
  <2>1. q * d >= (y + 1) * d
    BY <1>2
  <2> QED
    BY <1>1, <1>2, <1>4, <2>1
<1>6. q >= y
  <2> SUFFICES ASSUME q + 1 <= y PROVE FALSE
    BY <1>2
  <2>1. (q + 1) * d <= y * d
    BY <1>2
  <2> QED
    BY <1>1, <1>2, <1>4, <2>1
<1>7. q = y
  BY <1>2, <1>5, <1>6
<1> QED
  BY <1>3, <1>7 DEF q, At

\* Even rounds up, but not beyond an even number.
LEMMA EvenIs ==
    ASSUME NEW k \in Nat, NEW m \in Nat, m % 2 = 0, k <= m
    PROVE  Even(k) \in Nat /\ Even(k) <= m /\ Even(m) = m
BY DEF Even

\* The canvas of one of two mirrors, or of one alone, on a screen of even
\* width and height.
LEMMA CanvasIs ==
    ASSUME TVScreenwidth % 4 = 0, TVScreenheight % 2 = 0, NEW n \in 1 .. 2
    PROVE  /\ Canvas(n) = [w |-> TVScreenwidth \div n, h |-> TVScreenheight]
           /\ TVScreenwidth \div n \in Nat \ {0} /\ (TVScreenwidth \div n) % 2 = 0
           /\ \A i \in 1 .. n : /\ (i - 1) * (TVScreenwidth \div n) \in Nat
                                /\ CanvasOffset(n, i, Canvas(n)) = (i - 1) * (TVScreenwidth \div n)
                                /\ (i - 1) * (TVScreenwidth \div n) + TVScreenwidth \div n
                                     <= TVScreenwidth
<1>1. TVScreenwidth \in Nat \ {0, 1}
  BY ScreenAssumption
<1>2. n = 1 \/ n = 2
  OBVIOUS
<1>3. Canvas(n) = [w |-> TVScreenwidth \div n, h |-> TVScreenheight]
  BY <1>2 DEF Canvas
<1>4. CASE n = 1
  <2>1. TVScreenwidth \div n = TVScreenwidth /\ TVScreenwidth % 2 = 0
    BY <1>1, <1>4
  <2>2. \A i \in 1 .. n : i = 1 /\ CanvasOffset(n, i, Canvas(n)) = 0
    BY <1>4 DEF CanvasOffset
  <2> QED
    BY <1>1, <1>3, <2>1, <2>2
<1>5. CASE n = 2
  <2> DEFINE w == TVScreenwidth \div 2
  <2>1. w \in Nat \ {0} /\ w % 2 = 0 /\ w + w = TVScreenwidth
    BY <1>1
  <2>2. Canvas(n).w = w
    BY <1>3, <1>5
  <2>3. \A i \in 1 .. n : /\ i = 1 \/ i = 2
                          /\ i = 1 => CanvasOffset(n, i, Canvas(n)) = 0
                          /\ i = 2 => CanvasOffset(n, i, Canvas(n)) = w
    BY <1>5, <2>2 DEF CanvasOffset
  <2> HIDE DEF w
  <2>4. TVScreenwidth \div n = w
    BY <1>5 DEF w
  <2> QED
    BY <1>1, <1>3, <2>1, <2>3, <2>4
<1> QED
  BY <1>2, <1>4, <1>5

\* The size at which a picture is shown is that of the canvas in one
\* direction, and no greater in the other one.
LEMMA DisplayerFits ==
    ASSUME NEW w \in Nat \ {0}, NEW h \in Nat \ {0}, w % 2 = 0, h % 2 = 0,
           NEW sw \in Nat \ {0}, NEW sh \in Nat \ {0},
           NEW d, d = Displayer([w |-> w, h |-> h], [w |-> sw, h |-> sh])
    PROVE  /\ d.w \in 0 .. w /\ d.h \in 0 .. h
           /\ d.w = w \/ d.h = h
<1>1. w * sh \in Nat /\ h * sw \in Nat /\ sw * h = h * sw
  OBVIOUS
<1>2. CASE w * sh < sw * h
  <2>1. (w * sh) \div sw \in Nat /\ (w * sh) \div sw <= h
    BY <1>1, <1>2, Quotient
  <2>2. d = [w |-> Even(w), h |-> Even((w * sh) \div sw)]
    BY <1>2 DEF Displayer
  <2>3. Even(w) = w /\ Even((w * sh) \div sw) \in Nat /\ Even((w * sh) \div sw) <= h
    BY <2>1, EvenIs
  <2> QED
    BY <2>2, <2>3
<1>3. CASE ~(w * sh < sw * h)
  <2>1. (h * sw) \div sh \in Nat /\ (h * sw) \div sh <= w
    BY <1>1, <1>3, Quotient
  <2>2. d = [w |-> Even((h * sw) \div sh), h |-> Even(h)]
    BY <1>3 DEF Displayer
  <2>3. Even(h) = h /\ Even((h * sw) \div sh) \in Nat /\ Even((h * sw) \div sh) <= w
    BY <2>1, EvenIs
  <2> QED
    BY <2>2, <2>3
<1> QED
  BY <1>2, <1>3

\* A picture shown at size d lies at "at": in its part of the screen, as wide or
\* as high as that part, with the same black on both sides.
PictureAt(n, i, d, at) ==
    LET w == TVScreenwidth \div n
    IN  /\ d.w \in 0 .. w /\ d.h \in 0 .. TVScreenheight
        /\ d.w = w \/ d.h = TVScreenheight
        /\ d.h = TVScreenheight =>
             at = [x |-> (i - 1) * w + (w - d.w) \div 2, y |-> 0, w |-> d.w, h |-> d.h]
        /\ d.h # TVScreenheight =>
             at = [x |-> (i - 1) * w, y |-> (TVScreenheight - d.h) \div 2,
                   w |-> d.w, h |-> d.h]

\* What is left black is shared by both sides, in the direction in which the
\* picture does not fill its canvas.
LEMMA PictureIsAt ==
    ASSUME TVScreenwidth % 4 = 0, TVScreenheight % 2 = 0,
           NEW n \in 1 .. 2, NEW i \in 1 .. n,
           NEW sw \in Nat \ {0}, NEW sh \in Nat \ {0}, NEW d,
           d = Displayer(Canvas(n), [w |-> sw, h |-> sh])
    PROVE  PictureAt(n, i, d, Rect(Y_start_section(n, i, Canvas(n), d), d.w, d.h))
<1> DEFINE W == TVScreenwidth
           w == TVScreenwidth \div n
           h == TVScreenheight
           left == (i - 1) * w
           offset == Y_start_section(n, i, Canvas(n), d)
<1>1. /\ Canvas(n) = [w |-> w, h |-> h]
      /\ w \in Nat \ {0} /\ w % 2 = 0 /\ h \in Nat \ {0} /\ h % 2 = 0
      /\ left \in Nat /\ CanvasOffset(n, i, Canvas(n)) = left /\ left + w <= W
      /\ W \in Nat \ {0}
  BY CanvasIs, ScreenAssumption
<1>2. offset = left + BlackOffset(Canvas(n), d)
  <2>1. IsPlaced(n, i)
    BY DEF IsPlaced
  <2> QED
    BY <1>1, <2>1 DEF Y_start_section
<1>3. BlackOffset(Canvas(n), d) = IF h = d.h THEN (w - d.w) \div 2
                                  ELSE IF w = d.w THEN ((h - d.h) \div 2) * W ELSE 0
  BY <1>1 DEF BlackOffset
<1> HIDE DEF w, h, left, offset, W
<1>4. d.w \in 0 .. w /\ d.h \in 0 .. h /\ (d.w = w \/ d.h = h)
  BY <1>1, DisplayerFits
<1>5. ASSUME d.h = h
      PROVE  Rect(offset, d.w, d.h)
                = [x |-> left + (w - d.w) \div 2, y |-> 0, w |-> d.w, h |-> d.h]
  <2> DEFINE b == (w - d.w) \div 2
  <2>1. b \in Nat /\ b + b <= w - d.w
    BY <1>1, <1>4
  <2>2. offset = left + b
    BY <1>2, <1>3, <1>5
  <2> HIDE DEF b
  <2>3. left + b \in 0 .. W - 1 /\ offset = (left + b) + 0 * W
    BY <1>1, <1>4, <2>1, <2>2
  <2>4. At(offset, left + b, 0, W)
    <3>1. W \in Nat \ {0} /\ 0 \in Nat
      BY <1>1
    <3> QED
      BY <2>3, <3>1, ColumnAndRow, Zenon
  <2> QED
    BY <2>4 DEF Rect, W, At, b
<1>6. ASSUME d.h # h
      PROVE  Rect(offset, d.w, d.h)
                = [x |-> left, y |-> (h - d.h) \div 2, w |-> d.w, h |-> d.h]
  <2> DEFINE b == (h - d.h) \div 2
  <2>1. b \in Nat
    BY <1>1, <1>4
  <2>2. offset = left + b * W
    BY <1>2, <1>3, <1>4, <1>6
  <2> HIDE DEF b
  <2>3. left \in 0 .. W - 1
    BY <1>1
  <2>4. At(offset, left, b, W)
    <3>1. W \in Nat \ {0} /\ b \in Nat
      BY <1>1, <2>1
    <3> QED
      BY <2>2, <2>3, <3>1, ColumnAndRow, Zenon
  <2> QED
    BY <2>4 DEF Rect, W, At, b
<1> QED
  BY <1>4, <1>5, <1>6 DEF PictureAt, w, h, left, offset

Rectangles == [x : Nat, y : Nat, w : Nat, h : Nat]

\* Whatever the size of the pictures that a phone sends, that of the only mirror
\* fills the screen in one direction, and those of two mirrors fill their half of
\* it; no row is copied past the edge of its part (GetDisplayerResolvingPower and
\* the offsets of dump_mpp_frame_to_file). The screen must have a width that is a
\* multiple of 4 and an even height, as 1920 x 1080 has: Even rounds up.
THEOREM PicturesFit ==
    ASSUME TVScreenwidth % 4 = 0, TVScreenheight % 2 = 0,
           NEW n \in 1 .. 2, NEW i \in 1 .. n,
           NEW sw \in Nat \ {0}, NEW sh \in Nat \ {0}, NEW d,
           d = Displayer(Canvas(n), [w |-> sw, h |-> sh])
    PROVE  /\ Rect(Y_start_section(n, i, Canvas(n), d), d.w, d.h) \in Rectangles
           /\ Within(Rect(Y_start_section(n, i, Canvas(n), d), d.w, d.h), Part(i, n))
           /\ d.w = Part(i, n).w \/ d.h = Part(i, n).h
<1> DEFINE w == TVScreenwidth \div n
           h == TVScreenheight
           left == (i - 1) * w
           at == Rect(Y_start_section(n, i, Canvas(n), d), d.w, d.h)
<1>1. w \in Nat /\ h \in Nat /\ left \in Nat
  BY CanvasIs, ScreenAssumption
<1>2. Part(i, n) = [x |-> left, y |-> 0, w |-> w, h |-> h]
  BY DEF Part
<1>3. /\ d.w \in 0 .. w /\ d.h \in 0 .. h /\ (d.w = w \/ d.h = h)
      /\ d.h = h => at = [x |-> left + (w - d.w) \div 2, y |-> 0, w |-> d.w, h |-> d.h]
      /\ d.h # h => at = [x |-> left, y |-> (h - d.h) \div 2, w |-> d.w, h |-> d.h]
  <2>1. PictureAt(n, i, d, at)
    BY PictureIsAt, Zenon
  <2> QED
    BY <2>1 DEF PictureAt
<1> HIDE DEF w, h, left, at
<1>4. CASE d.h = h
  <2> DEFINE b == (w - d.w) \div 2
  <2>1. b \in Nat /\ b + b <= w - d.w
    BY <1>1, <1>3
  <2>2. at = [x |-> left + b, y |-> 0, w |-> d.w, h |-> d.h]
    BY <1>3, <1>4
  <2> HIDE DEF b
  <2>3. left <= left + b /\ left + b + d.w <= left + w /\ left + b \in Nat
    BY <1>1, <1>3, <2>1
  <2>4. at \in Rectangles
    BY <1>1, <1>3, <2>2, <2>3 DEF Rectangles
  <2>5. Within(at, Part(i, n))
    <3>1. 0 <= 0 /\ 0 + d.h <= 0 + h
      BY <1>1, <1>4
    <3> QED
      BY <1>2, <2>2, <2>3, <3>1 DEF Within
  <2>6. d.h = Part(i, n).h
    BY <1>2, <1>4
  <2> QED
    BY <2>4, <2>5, <2>6 DEF at
<1>5. CASE d.h # h
  <2> DEFINE b == (h - d.h) \div 2
  <2>1. b \in Nat /\ b + b <= h - d.h
    BY <1>1, <1>3
  <2>2. at = [x |-> left, y |-> b, w |-> d.w, h |-> d.h]
    BY <1>3, <1>5
  <2> HIDE DEF b
  <2>3. 0 <= b /\ b + d.h <= h /\ left + d.w <= left + w /\ left <= left
    BY <1>1, <1>3, <2>1
  <2>4. at \in Rectangles
    BY <1>1, <1>3, <2>1, <2>2 DEF Rectangles
  <2> QED
    BY <1>1, <1>2, <1>3, <1>5, <2>2, <2>3, <2>4 DEF Within, at
<1> QED
  BY <1>4, <1>5

\* The colour planes get a picture where the luma plane has it exactly if half of
\* what is left black above and below is even; otherwise U and V lie half a row of
\* their planes off, as the code divides the offset in bytes by 4
\* (mpp_decoder_h264.cpp:259).
THEOREM ColoursFit ==
    ASSUME TVScreenwidth % 4 = 0, TVScreenheight % 2 = 0,
           NEW n \in 1 .. 2, NEW i \in 1 .. n,
           NEW sw \in Nat \ {0}, NEW sh \in Nat \ {0}, NEW d,
           d = Displayer(Canvas(n), [w |-> sw, h |-> sh]),
           NEW at, at = Rect(Y_start_section(n, i, Canvas(n), d), d.w, d.h)
    PROVE  UV_start_section(n, i, Canvas(n), d)
              = (at.y \div 2) * (TVScreenwidth \div 2) + at.x \div 2
           <=> ((TVScreenheight - d.h) \div 2) % 2 = 0
<1> DEFINE W == TVScreenwidth
           w == TVScreenwidth \div n
           h == TVScreenheight
           left == (i - 1) * w
           uv == UV_start_section(n, i, Canvas(n), d)
<1>1. /\ Canvas(n) = [w |-> w, h |-> h]
      /\ w \in Nat \ {0} /\ w % 2 = 0 /\ h \in Nat \ {0}
      /\ left \in Nat /\ CanvasOffset(n, i, Canvas(n)) = left
      /\ W \in Nat \ {0} /\ W % 4 = 0
  BY CanvasIs, ScreenAssumption
<1>2. left % 2 = 0
  <2>1. i = 1 \/ i = 2
    OBVIOUS
  <2>2. left = 0 \/ left = w
    <3>1. w \in Nat
      BY <1>1
    <3> HIDE DEF w
    <3> QED
      BY <2>1, <3>1
  <2> QED
    BY <1>1, <2>2
<1>3. /\ d.w \in 0 .. w /\ d.h \in 0 .. h /\ (d.w = w \/ d.h = h)
      /\ d.h = h => at = [x |-> left + (w - d.w) \div 2, y |-> 0, w |-> d.w, h |-> d.h]
      /\ d.h # h => at = [x |-> left, y |-> (h - d.h) \div 2, w |-> d.w, h |-> d.h]
  <2>1. PictureAt(n, i, d, at)
    BY PictureIsAt, Zenon
  <2> QED
    BY <2>1 DEF PictureAt
<1>4. /\ h = d.h => uv = left \div 2 + ((w - d.w) \div 2) \div 2
      /\ h # d.h => uv = left \div 2 + (((h - d.h) \div 2) * W) \div 4
  <2>1. IsPlaced(n, i)
    BY DEF IsPlaced
  <2>2. uv = left \div 2 + BlackOffset(Canvas(n), d) \div (IF h = d.h THEN 2 ELSE 4)
    BY <1>1, <2>1 DEF UV_start_section
  <2>3. BlackOffset(Canvas(n), d) = IF h = d.h THEN (w - d.w) \div 2
                                    ELSE IF w = d.w THEN ((h - d.h) \div 2) * W ELSE 0
    BY <1>1 DEF BlackOffset
  <2> HIDE DEF w, h, left, uv, W
  <2> QED
    BY <1>3, <2>2, <2>3
<1> HIDE DEF w, h, left, uv, W
<1>5. CASE d.h = h
  <2> DEFINE b == (w - d.w) \div 2
  <2>1. b \in Nat
    BY <1>1, <1>3
  <2>2. at.x = left + b /\ at.y = 0 /\ uv = left \div 2 + b \div 2
    BY <1>3, <1>4, <1>5
  <2> HIDE DEF b
  <2>3. (left + b) \div 2 = left \div 2 + b \div 2 /\ left \div 2 + b \div 2 \in Nat
    BY <1>1, <1>2, <2>1
  <2>4. (0 \div 2) * (W \div 2) = 0
    BY <1>1
  <2>5. uv = (at.y \div 2) * (W \div 2) + at.x \div 2
    BY <2>2, <2>3, <2>4
  <2>6. ((h - d.h) \div 2) % 2 = 0
    BY <1>1, <1>5
  <2> QED
    BY <2>5, <2>6 DEF uv, W, h
<1>6. CASE d.h # h
  <2> DEFINE b == (h - d.h) \div 2
             k == W \div 4
             c == b \div 2
             l == left \div 2
  <2>1. b \in Nat /\ k \in Nat \ {0} /\ W = 4 * k /\ c \in Nat /\ l \in Nat
    BY <1>1, <1>3
  <2>2. at.x = left /\ at.y = b /\ uv = l + (b * W) \div 4
    BY <1>3, <1>4, <1>6
  <2>3. W \div 2 = 2 * k
    BY <1>1
  <2>4. (b % 2 = 0 => b = 2 * c) /\ (b % 2 # 0 => b = 2 * c + 1)
    BY <2>1
  <2> HIDE DEF b, k
  <2>5. b * k \in Nat /\ c * k \in Nat
    BY <2>1
  <2>6. b * W = 4 * (b * k)
    BY <2>1
  <2>7. (b * W) \div 4 = b * k
    BY <2>5, <2>6
  <2>8. c * (W \div 2) = 2 * (c * k)
    BY <2>1, <2>3
  <2>9. (b % 2 = 0 => b * k = 2 * (c * k)) /\ (b % 2 # 0 => b * k = 2 * (c * k) + k)
    BY <2>1, <2>4
  <2> HIDE DEF c, l
  <2>10. uv = c * (W \div 2) + l <=> b % 2 = 0
    BY <2>1, <2>2, <2>5, <2>7, <2>8, <2>9
  <2> QED
    BY <2>2, <2>10 DEF b, c, l, uv, W, h
<1> QED
  BY <1>5, <1>6

\* So with two mirrors the picture of one never covers the other's.
THEOREM MirrorsApart ==
    ASSUME TVScreenwidth % 4 = 0, TVScreenheight % 2 = 0,
           NEW sw1 \in Nat \ {0}, NEW sh1 \in Nat \ {0},
           NEW sw2 \in Nat \ {0}, NEW sh2 \in Nat \ {0},
           NEW d1, d1 = Displayer(Canvas(2), [w |-> sw1, h |-> sh1]),
           NEW d2, d2 = Displayer(Canvas(2), [w |-> sw2, h |-> sh2])
    PROVE  Apart(Rect(Y_start_section(2, 1, Canvas(2), d1), d1.w, d1.h),
                 Rect(Y_start_section(2, 2, Canvas(2), d2), d2.w, d2.h))
<1> DEFINE r1 == Rect(Y_start_section(2, 1, Canvas(2), d1), d1.w, d1.h)
           r2 == Rect(Y_start_section(2, 2, Canvas(2), d2), d2.w, d2.h)
           half == TVScreenwidth \div 2
<1>1. 2 \in 1 .. 2 /\ 1 \in 1 .. 2
  OBVIOUS
<1>2. /\ Within(r1, Part(1, 2)) /\ Within(r2, Part(2, 2))
      /\ r1 \in Rectangles /\ r2 \in Rectangles
  BY <1>1, PicturesFit
<1>3. half \in Nat /\ Part(1, 2).x = 0 /\ Part(1, 2).w = half /\ Part(2, 2).x = half
  BY ScreenAssumption DEF Part
<1> HIDE DEF r1, r2, half
<1>4. r1.x + r1.w <= half
  BY <1>2, <1>3 DEF Within
<1>5. half <= r2.x
  BY <1>2, <1>3 DEF Within
<1>6. r1.x \in Nat /\ r1.w \in Nat /\ r2.x \in Nat
  BY <1>2 DEF Rectangles
<1>7. r1.x + r1.w <= r2.x
  BY <1>3, <1>4, <1>5, <1>6
<1> QED
  BY <1>7 DEF Apart, r1, r2

====
