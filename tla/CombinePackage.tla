--------------------------- MODULE CombinePackage ---------------------------
(***************************************************************************)
(* socket/CombinePackage.{h,cpp}: one package under reassembly.  A package *)
(* is sent as slices; the receiver counts them, remembers which arrived in *)
(* a bit mask and adds up their payload.                                   *)
(*                                                                         *)
(* A slice is a record [seq, slices, cur, size]: the fields of             *)
(* SocketPackageData that the code reads.  A package is a record           *)
(* [seq, slices, recv, mask, dataSize]; the bit mask is the set of the     *)
(* slice numbers whose bit is set, and the payload bytes are left out      *)
(* (slice i of a package always lands at offset i * onePackSize).          *)
(***************************************************************************)
EXTENDS Integers, FiniteSets

\* A freshly reset package with the header of slice m and nothing in it.
Blank(m) == [seq |-> m.seq, slices |-> m.slices, recv |-> 0, mask |-> {},
             dataSize |-> 0]

\* Mutant: one slice too few.
IsDoneEarly(p) == p.recv >= p.slices - 1

IsDone(p) == p.recv >= p.slices

\* Slice m counted: mRecvPackages, the mask and dataSize.
AddSlice(p, m) ==
    [p EXCEPT !.recv = @ + 1, !.mask = @ \cup {m.cur}, !.dataSize = @ + m.size]

\* Mutant: a repeated slice is counted again.
PutPackageAgain(p, m) ==
    IF p.seq # m.seq \/ p.slices # m.slices THEN p ELSE AddSlice(p, m)

\* A slice of another package is refused; a repeated slice is only copied
\* over its own bytes.
PutPackage(p, m) ==
    IF p.seq # m.seq \/ p.slices # m.slices \/ m.cur \in p.mask
    THEN p
    ELSE AddSlice(p, m)

InitPackage(m) == PutPackage(Blank(m), m)

\* Only the count and the mask go: seq, slices and dataSize stay.
ResetData(p) == [p EXCEPT !.recv = 0, !.mask = {}]

\* Mutant: the mask of what is there instead of its complement.
GetSliceMaskInstead(p) == p.mask

\* The complement of the mask, within the slices the package has: the bits
\* above p.slices are requested too, and the sender has no slice for them.
GetRequestSliceMask(p) == (0 .. p.slices - 1) \ p.mask
=============================================================================
