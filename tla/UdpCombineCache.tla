--------------------------- MODULE UdpCombineCache ---------------------------
(***************************************************************************)
(* UdpCombinePackage::CombineCache (socket/UdpCombinePackage.{h,cpp}): the *)
(* reassembly of the video stream that one client sends over UDP.  Slices  *)
(* arrive lost, repeated and reordered; the cache keeps the packages it    *)
(* has begun in a list sorted by seq, reports complete ones in order, asks *)
(* the sender over TCP for what is missing, and gives up after CountRetry  *)
(* requests.  Nothing here runs on a timer: every decision is taken inside *)
(* the call that an arriving slice makes.                                  *)
(*                                                                         *)
(* The environment is the sender and the network: Emit gives the stream    *)
(* its next sequence number, and any slice of a live package may arrive at *)
(* any moment, any number of times, or never.                              *)
(***************************************************************************)
EXTENDS UdpSlices, Sequences, SequencesExt

CONSTANTS
    MaxList,        \* packages the list may hold (15)
    CountRetry,     \* COUNT_RETRY (5)
    LiveWindow,     \* the newest LiveWindow packages can still arrive
    Horizon         \* how far the stream may run ahead of the cache

ASSUME CacheAssumption == /\ MaxList \in Nat \ {0}
                          /\ CountRetry \in Nat \ {0}
                          /\ LiveWindow \in Nat \ {0}
                          /\ Horizon \in Nat

VARIABLES
    packList,       \* CombineCache::packList, front first
    seqReport,      \* CombineCache::seqReport
    retryCount,     \* CombineCache::retryCount
    resendDue,      \* timestamp() - resendTimestamp >= INTERVAL_RETRY
    request,        \* what the last call asked the sender for
    reported,       \* the packages the last call handed to DoRecvUdpMessage
    head,           \* newest sequence number of the stream
    live            \* how many of the newest packages can still arrive

vars == <<packList, seqReport, retryCount, resendDue, request, reported, head, live>>

\* The packages whose slices may still be on their way.
Live == { s \in SeqNo : (head - s) % SeqSpace < live }

-----------------------------------------------------------------------------
(* The list *)

SeqsOf(list) == { list[i].seq : i \in DOMAIN list }

\* Room is made before anything else is looked at: the slice that turns out
\* to be stale has already cost the front package its place.
Evict(list) ==
    IF Len(list) >= MaxList THEN SubSeq(list, Len(list) - MaxList + 2, Len(list))
    ELSE list

IsStale(list, m) == list # <<>> /\ TimeAfter(seqReport, m.seq)

\* Mutant: a new package always goes to the back.
InsertPosLast(list, s) == { Len(list) + 1 }

\* The position before the first package whose seq comes after s.
InsertPos(list, s) ==
    { k \in 1 .. Len(list) + 1 :
        /\ \A i \in 1 .. k - 1 : ~TimeAfter(list[i].seq, s)
        /\ k <= Len(list) => TimeAfter(list[k].seq, s) }

\* The list once slice m is in it: put into the first package with its seq,
\* or into a new one at its sorted place.
Absorb(m) ==
    IF m.seq \in SeqsOf(packList)
    THEN { ReplaceAt(packList, i, PutPackage(packList[i], m)) :
             i \in { j \in DOMAIN packList :
                       /\ packList[j].seq = m.seq
                       /\ \A k \in 1 .. j - 1 : packList[k].seq # m.seq } }
    ELSE LET kept == Evict(packList)
         IN  IF IsStale(kept, m) THEN {}
             ELSE { InsertAt(kept, k, InitPackage(m)) : k \in InsertPos(kept, m.seq) }

\* FindFullPackage() > 0: the front is incomplete, a later one is complete.
FullBehindFront(list) ==
    /\ ~IsDone(list[1])
    /\ \E i \in DOMAIN list : IsDone(list[i])

\* Lengths of the maximal prefix whose packages are (done) or are not (~done)
\* complete: exactly one number.
Leading(list, done) ==
    { n \in 0 .. Len(list) :
        /\ \A i \in 1 .. n : IsDone(list[i]) = done
        /\ n < Len(list) => IsDone(list[n + 1]) # done }

Drop(list, n) == SubSeq(list, n + 1, Len(list))

-----------------------------------------------------------------------------
(* Resend requests *)

NoRequest == [kind |-> "none"]
RequestRangeSend(first, end) == [kind |-> "range", first |-> first, end |-> end]
RequestSend(p) == [kind |-> "slices", seq |-> p.seq, mask |-> GetRequestSliceMask(p)]

-----------------------------------------------------------------------------
(* OnUdpSliceReceived: one action per way through the call *)

Quiet == request' = NoRequest /\ reported' = <<>>

\* Mutant: a request is not counted.
ResendUncounted(r) ==
    /\ resendDue
    /\ resendDue' = FALSE
    /\ request' = r
    /\ reported' = <<>>
    /\ UNCHANGED <<seqReport, retryCount>>

\* A request goes out, at most one every INTERVAL_RETRY.
Resend(r) ==
    /\ resendDue
    /\ resendDue' = FALSE
    /\ retryCount' = retryCount + 1
    /\ request' = r
    /\ reported' = <<>>
    /\ UNCHANGED seqReport

\* A slice of a package older than the next one to report, while others wait.
IgnoreOld(m) ==
    /\ m.seq \notin SeqsOf(packList)
    /\ IsStale(Evict(packList), m)
    /\ packList' = Evict(packList)
    /\ Quiet
    /\ UNCHANGED <<seqReport, retryCount, resendDue>>

\* The front is not the package expected next: ask for those in between.
AskRange(list) ==
    /\ retryCount < CountRetry
    /\ seqReport # list[1].seq
    /\ packList' = list
    /\ Resend(RequestRangeSend(seqReport, list[1].seq))

\* The same, less than INTERVAL_RETRY after the last request.
WaitForRange(list) ==
    /\ retryCount < CountRetry
    /\ seqReport # list[1].seq
    /\ ~resendDue
    /\ packList' = list
    /\ Quiet
    /\ UNCHANGED <<seqReport, retryCount, resendDue>>

\* The front is the expected one and incomplete, a later one is complete.
AskSlices(list) ==
    /\ retryCount < CountRetry
    /\ seqReport = list[1].seq
    /\ FullBehindFront(list)
    /\ packList' = list
    /\ Resend(RequestSend(list[1]))

\* The tail of the function: report the complete packages at the front.
\* next and retries are seqReport and retryCount when none is.
Flush(list, next, retries) ==
    \E n \in Leading(list, TRUE) :
        /\ packList' = Drop(list, n)
        /\ reported' = SubSeq(list, 1, n)
        /\ seqReport' = IF n = 0 THEN next ELSE NextSeq(list[n].seq)
        /\ retryCount' = IF n = 0 THEN retries ELSE 0
        /\ request' = NoRequest
        /\ UNCHANGED resendDue

\* Mutant: the front is reported whether or not it is the one expected.
ReportAny(list) ==
    /\ retryCount < CountRetry
    /\ Flush(list, seqReport, retryCount)

\* Nothing to ask for, or too early to ask again for the front's slices.
Report(list) ==
    /\ retryCount < CountRetry
    /\ seqReport = list[1].seq
    /\ ~(FullBehindFront(list) /\ resendDue)
    /\ Flush(list, seqReport, retryCount)

\* Mutant: one retry too few.
GiveUpEarly(list) ==
    /\ retryCount >= CountRetry - 1
    /\ \E n \in Leading(list, FALSE) :
         LET seen == IF n < Len(list) THEN n + 1 ELSE n
         IN  Flush(Drop(list, n), NextSeq(list[seen].seq), 0)

\* Retries used up: the incomplete packages at the front are dropped.  The
\* first complete one, if there is one, is looked at too before the loop
\* stops, so seqReport has already moved past it.
GiveUp(list) ==
    /\ retryCount >= CountRetry
    /\ \E n \in Leading(list, FALSE) :
         LET seen == IF n < Len(list) THEN n + 1 ELSE n
         IN  Flush(Drop(list, n), NextSeq(list[seen].seq), 0)

OnUdpSliceReceived(m) ==
    /\ UNCHANGED <<head, live>>
    /\ \/ IgnoreOld(m)
       \/ \E list \in Absorb(m) :
            \/ AskRange(list)
            \/ WaitForRange(list)
            \/ AskSlices(list)
            \/ Report(list)
            \/ GiveUp(list)

-----------------------------------------------------------------------------
(* The environment *)

\* The sender goes on to its next package.  The bound Horizon keeps every
\* number in play within half the number space, as a stream of far fewer
\* than 2^31 unanswered packages does.
Emit ==
    LET h == NextSeq(head)
    IN  /\ \A s \in SeqsOf(packList) \cup {seqReport} : (h - s) % SeqSpace < Horizon
        /\ head' = h
        /\ live' = IF live < LiveWindow THEN live + 1 ELSE live
        /\ Quiet
        /\ UNCHANGED <<packList, seqReport, retryCount, resendDue>>

\* INTERVAL_RETRY passes since the last request.
Tick ==
    /\ ~resendDue
    /\ resendDue' = TRUE
    /\ Quiet
    /\ UNCHANGED <<packList, seqReport, retryCount, head, live>>

Arrive(s) == \E m \in SlicesOf(s) : OnUdpSliceReceived(m)

Init ==
    /\ packList = <<>>
    /\ seqReport = 0
    /\ retryCount = 0
    /\ resendDue = TRUE
    /\ request = NoRequest
    /\ reported = <<>>
    /\ head = SeqSpace - 1
    /\ live = 0

Next == Emit \/ Tick \/ \E s \in Live : Arrive(s)

Spec == Init /\ [][Next]_vars

\* Time passes and the stream goes on: slices of its newest package arrive.
Fairness == WF_vars(Tick) /\ WF_vars(Emit) /\ WF_vars(live > 0 /\ Arrive(head))
LiveSpec == Spec /\ Fairness

-----------------------------------------------------------------------------
(* Properties *)

Request ==
    {NoRequest}
    \cup [kind : {"range"}, first : SeqNo, end : SeqNo]
    \cup [kind : {"slices"}, seq : SeqNo, mask : SUBSET Nat]

\* The list holds at most MaxList packages, each of which accounts exactly
\* for the slices of its frame that arrived, repeated ones counted once
\* (CombinePackage::PutPackage); retryCount never passes COUNT_RETRY.
TypeOK ==
    /\ packList \in Seq(Package)
    /\ Len(packList) <= MaxList
    /\ seqReport \in SeqNo
    /\ retryCount \in 0 .. CountRetry
    /\ resendDue \in BOOLEAN
    /\ request \in Request
    /\ reported \in Seq(Package)
    /\ head \in SeqNo
    /\ live \in 0 .. LiveWindow

\* The list is strictly ascending in serial order, so no seq is in it twice,
\* also when the numbers wrap (the sorted insertion of OnUdpSliceReceived).
ListSorted ==
    \A i, j \in DOMAIN packList :
        i < j => Before(packList[i].seq, packList[j].seq)

\* What one call hands to DoRecvUdpMessage is whole frames: none with a
\* slice missing, none with a slice counted twice.
ReportedWhole == \A i \in DOMAIN reported : IsWhole(reported[i])

\* A resend request names only what the cache does not hold: no package of a
\* requested range is in the list, and the requested slices are missing ones
\* of the front package.
RequestsOnlyMissing ==
    /\ request.kind = "range" =>
         \A s \in SeqsOf(packList) : Before(s, request.first) \/ ~Before(s, request.end)
    /\ request.kind = "slices" =>
         /\ packList[1].seq = request.seq
         /\ request.mask # {}
         /\ request.mask \cap packList[1].mask = {}

\* seqReport moves back only when the retries are used up: until then a
\* frame older than one already reported is not reported.
BackOnlyAfterGivingUp ==
    [][Before(seqReport', seqReport) => retryCount = CountRetry]_vars

\* A frame that has arrived in part or whole leaves the list by being
\* reported, by the retries being used up, or because the list is full.
NoSilentDrop ==
    [][\A s \in SeqsOf(packList) \ SeqsOf(packList') :
          \/ s \in SeqsOf(reported')
          \/ retryCount = CountRetry
          \/ Len(packList) = MaxList]_vars

\* No frame stays in the list for ever while the stream goes on: a hole in
\* front of it is filled or, after the retries, given up.
ListDrains == \A s \in SeqNo : s \in SeqsOf(packList) ~> s \notin SeqsOf(packList)
=============================================================================
