------------------------- MODULE MCUdpCombineCache -------------------------
(* Model checking of UdpCombineCache: constants. *)
EXTENDS UdpCombineCache

\* Odd packages are one full slice, even ones two with a short tail.
MCFrames == [s \in 0 .. SeqSpace - 1 |->
    IF s % 2 = 0 THEN [slices |-> 2, tail |-> 1]
    ELSE [slices |-> 1, tail |-> OnePackSize]]
=============================================================================
