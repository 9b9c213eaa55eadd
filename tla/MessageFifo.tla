----------------------------- MODULE MessageFifo -----------------------------
(***************************************************************************)
(* What a TCP connection between two TcpClients promises: the messages     *)
(* that were sent out whole are handed to DoRecvMessage one by one, each   *)
(* once, whole and in the order they were sent.                            *)
(***************************************************************************)
EXTENDS Sequences

CONSTANTS
    Message,    \* the messages
    NoMessage   \* no message was received yet

VARIABLES
    chan,       \* sent and not yet received
    received    \* the last one received

Init == chan = <<>> /\ received = NoMessage

Send(m) == chan' = Append(chan, m) /\ UNCHANGED received

Receive == /\ chan # <<>>
           /\ received' = Head(chan)
           /\ chan' = Tail(chan)

Next == Receive \/ \E m \in Message : Send(m)

Spec == Init /\ [][Next]_<<chan, received>>
=============================================================================
