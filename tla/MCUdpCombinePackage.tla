------------------------ MODULE MCUdpCombinePackage ------------------------
(* Model checking of UdpCombinePackage: constants. *)
EXTENDS UdpCombinePackage

\* Packages of one, two and three slices, with a tail that is full for some.
MCFrames == [s \in 0 .. SeqSpace - 1 |->
    [slices |-> 1 + (s % 3), tail |-> 1 + (s % OnePackSize)]]
=============================================================================
