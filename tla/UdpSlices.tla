------------------------------ MODULE UdpSlices ------------------------------
(***************************************************************************)
(* What the video and the audio side of UdpCombinePackage share: 32-bit    *)
(* sequence numbers that wrap, their comparison by the time_after macro,   *)
(* and the slices a sender cuts a frame into (SendPackageCache::           *)
(* AddPackageData and Send_l).                                             *)
(***************************************************************************)
EXTENDS CombinePackage

CONSTANTS
    SeqSpace,       \* sequence numbers are 0 .. SeqSpace-1 (2^32 in the code)
    OverflowWraps,  \* what the build makes of int32 overflow in time_after
    OnePackSize,    \* UDP_PACKENGTH, payload of every slice but the last
    Frames          \* Frames[s]: number of slices of frame s, size of its last

ASSUME SeqSpaceAssumption == /\ SeqSpace \in Nat \ {0}
                             /\ SeqSpace % 2 = 0
                             /\ OverflowWraps \in BOOLEAN
ASSUME FramesAssumption ==
    /\ OnePackSize \in Nat \ {0}
    /\ Frames \in [0 .. SeqSpace - 1 -> [slices : Nat \ {0}, tail : 1 .. OnePackSize]]

-----------------------------------------------------------------------------
(* Sequence numbers *)

SeqNo == 0 .. SeqSpace - 1
Half == SeqSpace \div 2

\* (int32_t) x
Signed(x) == IF x < Half THEN x ELSE x - SeqSpace

\* (int32_t)(b) - (int32_t)(a) < 0.  The subtraction overflows when a and b
\* lie on different sides of the sign change; that is undefined, and a build
\* either wraps or, as gcc does when it optimises, compares b < a.
TimeAfter(a, b) ==
    LET d == Signed(b) - Signed(a)
    IN  IF -Half <= d /\ d < Half THEN d < 0
        ELSE IF OverflowWraps THEN d > 0 ELSE d < 0

NextSeq(s) == (s + 1) % SeqSpace

\* Serial order, whatever the build makes of an overflow.
Before(a, b) ==
    LET d == (b - a) % SeqSpace
    IN  0 < d /\ d < Half

-----------------------------------------------------------------------------
(* Slices on the wire *)

Slice(s, i) ==
    [seq |-> s, slices |-> Frames[s].slices, cur |-> i,
     size |-> IF i = Frames[s].slices - 1 THEN Frames[s].tail ELSE OnePackSize]

SlicesOf(s) == { Slice(s, i) : i \in 0 .. Frames[s].slices - 1 }

-----------------------------------------------------------------------------
(* Packages a receiver can hold *)

\* What the payload of a package adds up to for the slices in its mask.
Payload(s, mask) ==
    LET last == Frames[s].slices - 1
    IN  Cardinality(mask \ {last}) * OnePackSize
        + (IF last \in mask THEN Frames[s].tail ELSE 0)

\* A package some slices of one frame were put into, each counted once.
Package ==
    { p \in [seq : SeqNo, slices : Nat, recv : Nat, mask : SUBSET Nat, dataSize : Nat] :
        /\ p.slices = Frames[p.seq].slices
        /\ p.mask \subseteq 0 .. p.slices - 1
        /\ p.mask # {}
        /\ p.recv = Cardinality(p.mask)
        /\ p.dataSize = Payload(p.seq, p.mask) }

FrameSize(s) == (Frames[s].slices - 1) * OnePackSize + Frames[s].tail

\* Every slice of the frame, and the payload of each of them once.
IsWhole(p) == /\ p.mask = 0 .. Frames[p.seq].slices - 1
              /\ p.dataSize = FrameSize(p.seq)
=============================================================================
