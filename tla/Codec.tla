------------------------------- MODULE Codec ---------------------------------
(***************************************************************************)
(* Codec::init and Codec::decode_one_pkt (mpp/mpp_decoder_h264.cpp): one   *)
(* client's report thread and the decoder of the MPP library.  The thread  *)
(* offers a packet until the decoder has room for it, and between two      *)
(* offers takes what frames there are; the decoder stops while its output  *)
(* is full, and after a change of the picture size until the thread has    *)
(* set up buffers and said so.  Splicing has what becomes of a frame.      *)
(*                                                                         *)
(* The library is modelled from how it is used: it accepts a packet or     *)
(* refuses it, and a call for a frame returns one, none, or times out.     *)
(* Every packet is one picture.                                            *)
(***************************************************************************)
EXTENDS Integers, Sequences

CONSTANTS
    InSize,     \* packets the decoder holds undecoded
    OutSize,    \* frames it holds that nobody has taken
    Times       \* times (5): how often a call for a frame is repeated

ASSUME CodecAssumption == /\ InSize \in Nat \ {0}
                          /\ OutSize \in Nat \ {0}
                          /\ Times \in Nat

VARIABLES
    mCtx,       \* the decoder: "none", "ready", or "failed" to be set up
    mFrmGrp,    \* the buffer group: "none", "created", "set" for the decoder
    pc,         \* where the report thread is
    packet,     \* the packet in hand: "new" if it changes the picture size
    pkt_done,   \* it has been accepted
    times,      \* how often a call for a frame may still be repeated
    input,      \* the decoder's packets
    output,     \* its frames; "info" is the notice of a new picture size
    waiting,    \* it waits for MPP_DEC_SET_INFO_CHANGE_READY
    owed,       \* calls of decode_one_pkt less frames that have been dumped
    gaveUp      \* a step of setting up buffers has failed

vars == <<mCtx, mFrmGrp, pc, packet, pkt_done, times, input, output, waiting, owed, gaveUp>>

decoder == <<input, output, waiting>>

Kinds == {"same", "new"}

-----------------------------------------------------------------------------
(* The report thread *)

\* mpp_create, MPP_DEC_SET_PARSER_SPLIT_MODE and mpp_init, each of which may
\* fail: init returns, and the client goes on without a decoder.  Without
\* mpp_create mApi stays null, and the first packet ends the program: that is
\* left out, "failed" is a decoder that takes no packet.
Setup ==
    /\ mCtx = "none"
    /\ mCtx' \in {"ready", "failed"}
    /\ UNCHANGED <<mFrmGrp, pc, packet, pkt_done, times, decoder, owed, gaveUp>>

\* decode_one_pkt is called with the next packet.
Call ==
    /\ pc = "idle"
    /\ mCtx # "none"
    /\ packet' \in Kinds
    /\ pkt_done' = FALSE
    /\ times' = Times
    /\ pc' = "put"
    /\ owed' = owed + 1
    /\ UNCHANGED <<mCtx, mFrmGrp, decoder, gaveUp>>

Accepts == mCtx = "ready" /\ Len(input) < InSize

\* Mutant: a packet that is refused is not offered again.
PutOnce ==
    /\ pc = "put"
    /\ input' = IF Accepts THEN Append(input, packet) ELSE input
    /\ pkt_done' = TRUE
    /\ pc' = "get"
    /\ UNCHANGED <<mCtx, mFrmGrp, packet, times, output, waiting, owed, gaveUp>>

\* Mutant: no frame is taken before the packet is accepted.
PutFirst ==
    /\ pc = "put"
    /\ input' = IF ~pkt_done /\ Accepts THEN Append(input, packet) ELSE input
    /\ pkt_done' = (pkt_done \/ Accepts)
    /\ pc' = IF pkt_done' THEN "get" ELSE "put"
    /\ UNCHANGED <<mCtx, mFrmGrp, packet, times, output, waiting, owed, gaveUp>>

\* decode_put_packet, accepted or not.
Put ==
    /\ pc = "put"
    /\ input' = IF ~pkt_done /\ Accepts THEN Append(input, packet) ELSE input
    /\ pkt_done' = (pkt_done \/ Accepts)
    /\ pc' = "get"
    /\ UNCHANGED <<mCtx, mFrmGrp, packet, times, output, waiting, owed, gaveUp>>

\* decode_get_frame returns a frame,
GetFrame ==
    /\ pc = "get"
    /\ output # <<>>
    /\ output' = Tail(output)
    /\ pc' = Head(output)
    /\ UNCHANGED <<mCtx, mFrmGrp, packet, pkt_done, times, input, waiting, owed, gaveUp>>

\* none, or an error,
GetNothing ==
    /\ pc = "get"
    /\ output = <<>>
    /\ pc' = "next"
    /\ UNCHANGED <<mCtx, mFrmGrp, packet, pkt_done, times, decoder, owed, gaveUp>>

\* Mutant: once too often.
TimeoutOnceMore ==
    /\ pc = "get"
    /\ output = <<>>
    /\ times >= 0
    /\ times' = times - 1
    /\ UNCHANGED <<mCtx, mFrmGrp, pc, packet, pkt_done, decoder, owed, gaveUp>>

\* or it times out and is repeated.  When times is used up a timeout is one
\* more error.
Timeout ==
    /\ pc = "get"
    /\ output = <<>>
    /\ times > 0
    /\ times' = times - 1
    /\ UNCHANGED <<mCtx, mFrmGrp, pc, packet, pkt_done, decoder, owed, gaveUp>>

\* The notice of a new picture size: a buffer group is created and given to
\* the decoder, or the one there is cleared; its limit is set, and the
\* decoder is told to go on.
Info ==
    /\ pc = "info"
    /\ mFrmGrp' = "set"
    /\ waiting' = FALSE
    /\ pc' = "get"
    /\ UNCHANGED <<mCtx, packet, pkt_done, times, input, output, owed, gaveUp>>

\* One of these steps but the last fails: the notice is not given back and the
\* decoder is not told.
InfoFails ==
    /\ pc = "info"
    /\ mFrmGrp' \in IF mFrmGrp = "none" THEN {"none", "created", "set"} ELSE {mFrmGrp}
    /\ gaveUp' = TRUE
    /\ pc' = "next"
    /\ UNCHANGED <<mCtx, packet, pkt_done, times, decoder, owed>>

\* The last one fails, MPP_DEC_SET_INFO_CHANGE_READY, whose result nobody looks
\* at: the thread goes on as if the decoder had been told.
ReadyFails ==
    /\ pc = "info"
    /\ mFrmGrp' = "set"
    /\ gaveUp' = TRUE
    /\ pc' = "get"
    /\ UNCHANGED <<mCtx, packet, pkt_done, times, decoder, owed>>

\* The frame is handed to dump_mpp_frame_to_file, which draws none that has no
\* buffer, and is given back.
Dump ==
    /\ pc = "frame"
    /\ owed' = owed - 1
    /\ pc' = "get"
    /\ UNCHANGED <<mCtx, mFrmGrp, packet, pkt_done, times, decoder, gaveUp>>

\* The call ends once the packet has been accepted, and goes round otherwise;
\* running is not looked at.
NextRound ==
    /\ pc = "next"
    /\ pc' = IF pkt_done THEN "idle" ELSE "put"
    /\ times' = Times
    /\ UNCHANGED <<mCtx, mFrmGrp, packet, pkt_done, decoder, owed, gaveUp>>

-----------------------------------------------------------------------------
(* The decoder *)

\* It needs buffers before its first picture and for each new size.
NeedsBuffers == Head(input) = "new" \/ mFrmGrp # "set"

Decode ==
    /\ ~waiting
    /\ input # <<>>
    /\ Len(output) < OutSize
    /\ IF NeedsBuffers
       THEN /\ output' = Append(output, "info")
            /\ waiting' = TRUE
            /\ input' = [input EXCEPT ![1] = "same"]
       ELSE /\ output' = Append(output, "frame")
            /\ input' = Tail(input)
            /\ UNCHANGED waiting
    /\ UNCHANGED <<mCtx, mFrmGrp, pc, packet, pkt_done, times, owed, gaveUp>>

-----------------------------------------------------------------------------

Init ==
    /\ mCtx = "none"
    /\ mFrmGrp = "none"
    /\ pc = "idle"
    /\ packet = "same"
    /\ pkt_done = TRUE
    /\ times = Times
    /\ input = <<>>
    /\ output = <<>>
    /\ waiting = FALSE
    /\ owed = 0
    /\ gaveUp = FALSE

decode_one_pkt ==
    \/ Put \/ GetFrame \/ GetNothing \/ Timeout
    \/ Info \/ InfoFails \/ ReadyFails
    \/ Dump \/ NextRound

Next == Setup \/ Call \/ decode_one_pkt \/ Decode

Spec == Init /\ [][Next]_vars

\* The report thread runs, and so does the decoder.
Fairness == WF_vars(decode_one_pkt) /\ WF_vars(Decode)

LiveSpec == Spec /\ Fairness

-----------------------------------------------------------------------------
(* Properties *)

\* A notice of a new size is the last frame, and the decoder waits from then
\* on until the thread is through with it; it waits for ever when the thread has
\* given up, and a group that is not set is left only then.
TypeOK ==
    /\ mCtx \in {"none", "ready", "failed"}
    /\ mFrmGrp \in {"none", "created", "set"}
    /\ pc \in {"idle", "put", "get", "info", "frame", "next"}
    /\ packet \in Kinds
    /\ pkt_done \in BOOLEAN
    /\ times \in 0 .. Times
    /\ Len(input) <= InSize /\ Len(output) <= OutSize
    /\ \A i \in DOMAIN output : output[i] = "info" => waiting /\ i = Len(output)
    /\ pc = "info" => waiting
    /\ gaveUp => waiting /\ pc # "info" /\ \A i \in DOMAIN output : output[i] # "info"
    /\ mFrmGrp = "created" => gaveUp

\* The pictures among its output, where a notice can only be the last.
PicturesIn(frames) ==
    IF frames # <<>> /\ frames[Len(frames)] = "info" THEN Len(frames) - 1 ELSE Len(frames)

\* The packet that is not accepted yet, and the frame in the thread's hand.
InHand == IF pkt_done THEN 0 ELSE 1
Dumped == IF pc = "frame" THEN 1 ELSE 0

\* Each packet given to decode_one_pkt becomes one picture on the screen: it
\* is offered until it is accepted, and not again, and every frame that is
\* taken is dumped.
NoFrameLost == owed = InHand + Len(input) + PicturesIn(output) + Dumped

\* A call of decode_one_pkt ends, though the thread waits for room in the
\* decoder and the decoder for its frames to be taken, unless there is no
\* decoder or its buffers could not be set up.
PacketsTaken == pc # "idle" ~> (pc = "idle" \/ mCtx = "failed" \/ gaveUp)
=============================================================================
