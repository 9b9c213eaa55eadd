------------------------------ MODULE UdpStream ------------------------------
(***************************************************************************)
(* Video over UDP from end to end: the sender's SendPackageCache           *)
(* (socket/SendPackageCache.cpp, called from UdpClient and, for the        *)
(* requests that come over TCP, from DoRecvMessage), a network that loses  *)
(* datagrams, and the CombineCache of UdpCombineCache.                     *)
(*                                                                         *)
(* head is SendPackageCache::seq - 1.  Repeats and reorderings by the      *)
(* network are the subject of UdpCombineCache; here datagrams that arrive  *)
(* do so in order, and an answer comes within INTERVAL_RETRY unless the    *)
(* send thread sleeps.                                                     *)
(***************************************************************************)
EXTENDS UdpCombineCache

CONSTANTS
    MaxFrames,      \* bound on the packages of the stream
    MaxSize,        \* SendPackageCache::MAX_SIZE (30)
    MaxLoss         \* how many datagrams the network loses

ASSUME StreamAssumption ==
    /\ MaxFrames \in 1 .. SeqSpace - 1
    /\ MaxSize \in Nat \ {0}
    /\ MaxLoss \in Nat

VARIABLES
    sent,           \* SendPackageCache::packList: the numbers of its packages
    adding,         \* Send has put the package into packList, not yet into sendList
    sendList,       \* SendPackageCache::sendList
    thread,         \* where threadSend is
    net,            \* the datagrams on their way
    losses,         \* how many were lost
    requests        \* the resend requests on their way over TCP

senderVars == <<sent, adding, sendList, thread>>
streamVars == <<vars, senderVars, net, losses, requests>>

-----------------------------------------------------------------------------
(* The sender *)

All(s) == 0 .. Frames[s].slices - 1

\* The members of a list that are in a set, in their order: SelectSeq, in a form
\* that can be proved about.
Only(list, set) ==
    LET only[n \in 0 .. Len(list)] ==
          IF n = 0 THEN <<>>
          ELSE IF list[n] \in set THEN Append(only[n - 1], list[n]) ELSE only[n - 1]
    IN  only[Len(list)]

\* eventSend: only who already waits notices the signal.
Signalled(pc) == IF pc = "wait" THEN "check" ELSE pc

\* Mutant: one package too many is kept.
KeptLate(list) ==
    IF Len(list) > MaxSize THEN SubSeq(list, Len(list) - MaxSize + 2, Len(list)) ELSE list

\* Room for one more package.
Kept(list) ==
    IF Len(list) >= MaxSize THEN SubSeq(list, Len(list) - MaxSize + 2, Len(list)) ELSE list

\* UdpClient::Send: AddPackageData numbers the package, makes room, keeps it,
AddPackageData ==
    /\ ~adding
    /\ head = SeqSpace - 1 \/ head + 1 < MaxFrames
    /\ Emit
    /\ sent' = Append(Kept(sent), NextSeq(head))
    /\ adding' = TRUE
    /\ UNCHANGED <<sendList, thread, net, losses, requests>>

\* and SendPackageCache::Send hands all its slices to the send thread.
Send ==
    /\ adding
    /\ adding' = FALSE
    /\ sendList' = Append(sendList, [seq |-> head, mask |-> All(head)])
    /\ thread' = Signalled(thread)
    /\ UNCHANGED <<vars, sent, net, losses, requests>>

\* TYPE_UDP_REQUEST: the missing slices of one package.
ReSend ==
    /\ requests # <<>>
    /\ requests[1].kind = "slices"
    /\ sendList' = Append(sendList, [seq |-> requests[1].seq, mask |-> requests[1].mask])
    /\ thread' = Signalled(thread)
    /\ requests' = Tail(requests)
    /\ UNCHANGED <<vars, sent, adding, net, losses>>

\* Mutant: the first package of the range is left out.
InRangeAfter(s, r) == r.first < s /\ s < r.end

InRange(s, r) == r.first <= s /\ s < r.end

\* TYPE_UDP_REQUEST2, SendRange: the packages of a range that are still kept.
\* The send thread is not signalled.
SendRange ==
    /\ requests # <<>>
    /\ requests[1].kind = "range"
    /\ LET again == Only(sent, { s \in SeqNo : InRange(s, requests[1]) })
       IN  sendList' = sendList \o [i \in DOMAIN again |-> [seq |-> again[i],
                                                            mask |-> All(again[i])]]
    /\ requests' = Tail(requests)
    /\ UNCHANGED <<vars, sent, adding, thread, net, losses>>

\* Mutant: the thread waits for a signal without a deadline.
SleepTillSignal ==
    /\ \/ thread = "check" /\ sendList = <<>> /\ thread' = "empty"
       \/ thread = "empty" /\ thread' = "wait"
    /\ UNCHANGED <<vars, sent, adding, sendList, net, losses, requests>>

\* threadSend finds the list empty, waits, and wakes by a signal or after a
\* second.
Sleep ==
    /\ \/ thread = "check" /\ sendList = <<>> /\ thread' = "empty"
       \/ thread = "empty" /\ thread' = "wait"
       \/ thread = "wait" /\ thread' = "check"
    /\ UNCHANGED <<vars, sent, adding, sendList, net, losses, requests>>

\* Mutant: the last slice is sent with the size of the others.
SlicesSentFull(d) ==
    LET all == [i \in 1 .. Frames[d.seq].slices |->
                    [Slice(d.seq, i - 1) EXCEPT !.size = OnePackSize]]
    IN  Only(all, { m \in ToSet(all) : Len(all) = 1 \/ m.cur \in d.mask })

\* Send_l: the slices of the mask, and a package of one slice in any case.
SlicesSent(d) ==
    LET all == [i \in 1 .. Frames[d.seq].slices |-> Slice(d.seq, i - 1)]
    IN  Only(all, { m \in SlicesOf(d.seq) : Len(all) = 1 \/ m.cur \in d.mask })

\* threadSend takes the first of the list and sends it, if it is still kept.
SendFront ==
    /\ thread = "check"
    /\ sendList # <<>>
    /\ sendList' = Tail(sendList)
    /\ net' = IF sendList[1].seq \in ToSet(sent) THEN net \o SlicesSent(sendList[1]) ELSE net
    /\ UNCHANGED <<vars, sent, adding, thread, losses, requests>>

-----------------------------------------------------------------------------
(* The network, the receiver and time *)

Lose ==
    /\ net # <<>>
    /\ losses < MaxLoss
    /\ net' = Tail(net)
    /\ losses' = losses + 1
    /\ UNCHANGED <<vars, senderVars, requests>>

\* UdpServer hands a datagram to the cache, whose request goes out over TCP.
Deliver ==
    /\ net # <<>>
    /\ OnUdpSliceReceived(net[1])
    /\ net' = Tail(net)
    /\ requests' = IF request' = NoRequest THEN requests ELSE Append(requests, request')
    /\ UNCHANGED <<senderVars, losses>>

\* INTERVAL_RETRY passes: longer than a datagram, a request or the sender is
\* on its way, except that the send thread may sleep for longer.
IntervalPasses ==
    /\ Tick
    /\ net = <<>> /\ requests = <<>> /\ thread = "wait"
    /\ UNCHANGED <<senderVars, net, losses, requests>>

-----------------------------------------------------------------------------

StreamInit ==
    /\ Init
    /\ sent = <<>> /\ adding = FALSE /\ sendList = <<>> /\ thread = "check"
    /\ net = <<>> /\ losses = 0 /\ requests = <<>>

StreamNext ==
    \/ AddPackageData \/ Send \/ ReSend \/ SendRange \/ Sleep \/ SendFront
    \/ Lose \/ Deliver \/ IntervalPasses

\* The sender goes on, its send thread and its handling of requests run, and
\* what is not lost arrives.
StreamSpec ==
    /\ StreamInit /\ [][StreamNext]_streamVars
    /\ WF_streamVars(AddPackageData) /\ WF_streamVars(Send)
    /\ WF_streamVars(ReSend \/ SendRange)
    /\ WF_streamVars(Sleep) /\ WF_streamVars(SendFront)
    /\ WF_streamVars(Deliver)

-----------------------------------------------------------------------------
(* Properties *)

\* What the sender does is what UdpCombineCache takes its environment to do:
\* whatever the cache is shown to keep there it keeps here.
ImplementsCache == Spec

\* With a list that does not overflow, a frame that is left out of the report
\* is one the sender no longer keeps: what it keeps is asked for and sent again
\* before the cache gives up on it.
SkipsOnlyGone ==
    [][\A s \in ToSet(sent) \ SeqsOf(reported') : seqReport <= s => seqReport' <= s]_streamVars

\* What the receiver asks for is sent, although SendRange wakes nobody and the
\* signal of Send is lost on a thread that has not begun to wait.
RequestsServed == requests # <<>> ~> (requests = <<>> /\ sendList = <<>>)

\* The send thread and the lists never hold a package that was not numbered,
\* and the sender keeps the newest ones.
StreamTypeOK ==
    /\ sent \in Seq(SeqNo) /\ Len(sent) <= MaxSize
    /\ ToSet(sent) \cup { sendList[i].seq : i \in DOMAIN sendList } \subseteq 0 .. MaxFrames - 1
    /\ sent # <<>> => sent[Len(sent)] = head
    /\ thread \in {"check", "empty", "wait"}
    /\ losses \in 0 .. MaxLoss

-----------------------------------------------------------------------------
(* What the comments say of the cache *)

\* UdpCombinePackage.h:53: when the frame to report is not seqReport, a frame
\* is lost and has to be asked for again; so as long as retries are left
\* frames are reported one after the other.
GapsAreAsked ==
    [][retryCount < CountRetry =>
         \A i \in DOMAIN reported' :
             reported'[i].seq = IF i = 1 THEN seqReport
                                ELSE NextSeq(reported'[i - 1].seq)]_vars
=============================================================================
