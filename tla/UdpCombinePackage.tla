-------------------------- MODULE UdpCombinePackage --------------------------
(***************************************************************************)
(* UdpCombinePackage::OnUdpSliceReceived (socket/UdpCombinePackage.cpp:23) *)
(* for the slices that are not video: audio is put together in the one     *)
(* package combineAudio, everything else is expected in a single slice and *)
(* reported as it is.  Video goes to the cache of UdpCombineCache, which   *)
(* shares no state with this.                                              *)
(***************************************************************************)
EXTENDS UdpSlices

CONSTANTS
    LiveWindow,     \* the newest LiveWindow audio packages can still arrive
    Horizon,        \* how far the stream may run ahead of what has arrived
    MaxPayload,     \* bound on dataSize, which repeats keep adding to
    Others          \* slice counts of other messages that arrive

ASSUME AudioAssumption == /\ LiveWindow \in Nat \ {0}
                          /\ Horizon \in Nat
                          /\ MaxPayload \in Nat
                          /\ Others \subseteq Nat

VARIABLES
    combineAudio,   \* the audio package; its header is garbage at the start
    reported,       \* what the last call handed to DoRecvUdpMessage
    head,           \* newest sequence number of the audio stream
    live            \* how many of the newest packages can still arrive

vars == <<combineAudio, reported, head, live>>

Nothing == [type |-> "none"]
Audio(p) == [type |-> "audio", pack |-> p]
Other(n) == [type |-> "other", slices |-> n]

Live == { s \in SeqNo : (head - s) % SeqSpace < live }

-----------------------------------------------------------------------------
(* OnUdpSliceReceived *)

\* Mutant: no test of the sequence number.
TakeAudioAny(m) ==
    IF combineAudio.seq # m.seq THEN InitPackage(m) ELSE PutPackage(combineAudio, m)

\* Mutant: the arguments of time_after are swapped.
TakeAudioSwapped(m) ==
    IF combineAudio.seq = m.seq THEN PutPackage(combineAudio, m)
    ELSE IF TimeAfter(combineAudio.seq, m.seq) THEN InitPackage(m)
    ELSE combineAudio

\* combineAudio once the slice is looked at: a slice of a later package
\* starts that one, one of an earlier package is discarded.
TakeAudio(m) ==
    IF combineAudio.seq = m.seq THEN PutPackage(combineAudio, m)
    ELSE IF TimeAfter(m.seq, combineAudio.seq) THEN InitPackage(m)
    ELSE combineAudio

OnAudio(m) ==
    LET p == TakeAudio(m)
    IN  /\ IF IsDone(p)
           THEN reported' = Audio(p) /\ combineAudio' = ResetData(p)
           ELSE reported' = Nothing /\ combineAudio' = p
        /\ UNCHANGED <<head, live>>

OnOther(n) ==
    /\ reported' = IF n = 1 THEN Other(n) ELSE Nothing
    /\ UNCHANGED <<combineAudio, head, live>>

-----------------------------------------------------------------------------
(* The environment *)

\* The sender goes on to its next package; Horizon keeps the numbers in play
\* within half the number space, as a gap of far fewer than 2^31 does.
Emit ==
    /\ (NextSeq(head) - combineAudio.seq) % SeqSpace < Horizon
    /\ head' = NextSeq(head)
    /\ live' = IF live < LiveWindow THEN live + 1 ELSE live
    /\ reported' = Nothing
    /\ UNCHANGED combineAudio

\* The constructor sets seq to -1 and the count to 0; slices is whatever the
\* new buffer holds, and the first slice of a stream replaces it.
Init ==
    /\ \E n \in 0 .. 2 :
         combineAudio = [seq |-> SeqSpace - 1, slices |-> n, recv |-> 0, mask |-> {},
                         dataSize |-> 0]
    /\ reported = Nothing
    /\ head = SeqSpace - 1
    /\ live = 0

\* The network repeats a package so often only that dataSize stays bounded.
ArriveAudio(s) ==
    /\ s = combineAudio.seq => combineAudio.dataSize <= MaxPayload
    /\ \E m \in SlicesOf(s) : OnAudio(m)

Next ==
    \/ Emit
    \/ \E s \in Live : ArriveAudio(s)
    \/ \E n \in Others : OnOther(n)

Spec == Init /\ [][Next]_vars

-----------------------------------------------------------------------------
(* Properties *)

\* The count of combineAudio is the number of slices in its mask, and the mask
\* stays within the package.
TypeOK ==
    /\ combineAudio \in [seq : SeqNo, slices : Nat, recv : Nat, mask : SUBSET Nat,
                          dataSize : Nat]
    /\ combineAudio.mask \subseteq 0 .. combineAudio.slices - 1
    /\ combineAudio.recv = Cardinality(combineAudio.mask)
    /\ head \in SeqNo
    /\ live \in 0 .. LiveWindow

\* Audio is reported only with every slice of its package, also when slices
\* of earlier and later packages came in between.
AudioHasAllSlices ==
    reported.type = "audio" =>
        reported.pack.mask = 0 .. Frames[reported.pack.seq].slices - 1

\* The audio package only ever gives way to a later one, so nothing is
\* reported after a later package was.
AudioMovesForward ==
    [][combineAudio'.seq # combineAudio.seq
         => Before(combineAudio.seq, combineAudio'.seq)]_vars

\* Audio never stalls: a slice of a later package is always taken up.
LaterAudioTaken ==
    \A s \in Live : Before(combineAudio.seq, s) =>
        \A m \in SlicesOf(s) : TakeAudio(m).seq = s
=============================================================================
