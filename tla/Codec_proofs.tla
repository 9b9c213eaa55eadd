---------------------------- MODULE Codec_proofs -----------------------------
(***************************************************************************)
(* Proofs about Codec: for every size of the decoder's queues and every    *)
(* number of repeated calls, the notice of a new picture size and the      *)
(* decoder's wait for it belong together, and no picture is lost.          *)
(***************************************************************************)
EXTENDS Codec, SequenceTheorems, TLAPS

-----------------------------------------------------------------------------
(* The inductive invariant *)

\* What TypeOK leaves out.
Types ==
    /\ input \in Seq(Kinds)
    /\ output \in Seq({"frame", "info"})
    /\ waiting \in BOOLEAN /\ gaveUp \in BOOLEAN
    /\ owed \in Int

\* There is one notice at a time.
OneNotice == pc = "info" => \A i \in DOMAIN output : output[i] # "info"

\* decode_one_pkt returns only once its packet has been accepted.
IdleAccepted == pc = "idle" => pkt_done

IInv == Types /\ TypeOK /\ OneNotice /\ IdleAccepted /\ NoFrameLost

-----------------------------------------------------------------------------

LEMMA InitIInv == ASSUME Init PROVE IInv
<1>1. Types
  <2>1. input \in Seq(Kinds) /\ output \in Seq({"frame", "info"})
    BY EmptySeq DEF Init
  <2>2. waiting \in BOOLEAN
    BY Zenon DEF Init
  <2>3. gaveUp \in BOOLEAN
    BY Zenon DEF Init
  <2>4. owed \in Int
    BY DEF Init
  <2> QED
    BY <2>1, <2>2, <2>3, <2>4, Zenon DEF Types
<1>2. Len(input) = 0 /\ Len(output) = 0 /\ DOMAIN output = {}
  BY DEF Init
<1>3. TypeOK
  BY <1>2, CodecAssumption DEF Init, TypeOK, Kinds
<1>4. PicturesIn(output) = 0
  BY <1>2 DEF PicturesIn
<1>5. InHand = 0 /\ Dumped = 0
  BY Zenon DEF Init, InHand, Dumped
<1>6. owed = 0
  BY DEF Init
<1>7. NoFrameLost
  BY <1>2, <1>4, <1>5, <1>6 DEF NoFrameLost
<1> QED
  BY <1>1, <1>2, <1>3, <1>7 DEF Init, IInv, OneNotice, IdleAccepted

\* How many of a sequence of output are pictures, by what is last.
LEMMA PicturesOf ==
    ASSUME NEW s \in Seq({"frame", "info"})
    PROVE  /\ Len(s) \in Nat
           /\ DOMAIN s = 1 .. Len(s)
           /\ s = <<>> <=> Len(s) = 0
           /\ PicturesIn(s) \in Int
           /\ (\A i \in DOMAIN s : s[i] # "info") => PicturesIn(s) = Len(s)
           /\ Len(s) > 0 /\ s[Len(s)] = "info" => PicturesIn(s) = Len(s) - 1
           /\ Len(s) > 0 /\ s[Len(s)] # "info" => PicturesIn(s) = Len(s)
           /\ Len(s) = 0 => PicturesIn(s) = 0
<1>1. Len(s) \in Nat /\ DOMAIN s = 1 .. Len(s) /\ (s = <<>> <=> Len(s) = 0)
  BY LenProperties, EmptySeq
<1>2. Len(s) > 0 <=> s # <<>>
  BY <1>1
<1>3. s # <<>> => Len(s) \in DOMAIN s
  BY <1>1
<1>4. s # <<>> /\ s[Len(s)] = "info" => PicturesIn(s) = Len(s) - 1
  BY DEF PicturesIn
<1>5. ~(s # <<>> /\ s[Len(s)] = "info") => PicturesIn(s) = Len(s)
  BY DEF PicturesIn
<1>6. PicturesIn(s) \in Int
  BY <1>1, <1>4, <1>5
<1>7. Len(s) = 0 => PicturesIn(s) = 0
  BY <1>1, <1>5, Zenon
<1> QED
  BY <1>1, <1>2, <1>3, <1>4, <1>5, <1>6, <1>7, Zenon

\* The terms of NoFrameLost are integers.
LEMMA Terms ==
    ASSUME Types
    PROVE  /\ owed \in Int /\ Len(input) \in Nat /\ PicturesIn(output) \in Int
           /\ InHand \in {0, 1} /\ Dumped \in {0, 1}
<1>1. owed \in Int /\ Len(input) \in Nat
  BY LenProperties DEF Types
<1>2. PicturesIn(output) \in Int
  BY PicturesOf DEF Types
<1>3. InHand \in {0, 1} /\ Dumped \in {0, 1}
  BY Zenon DEF InHand, Dumped
<1> QED
  BY <1>1, <1>2, <1>3

\* Taking the first of the output leaves the rest one place further on.
LEMMA TailOutput ==
    ASSUME Types, output # <<>>
    PROVE  /\ Tail(output) \in Seq({"frame", "info"})
           /\ Len(Tail(output)) = Len(output) - 1
           /\ \A i \in DOMAIN Tail(output) :
                i + 1 \in DOMAIN output /\ Tail(output)[i] = output[i + 1]
           /\ Head(output) = output[1]
           /\ output[1] \in {"frame", "info"}
           /\ DOMAIN output = 1 .. Len(output)
           /\ Len(output) \in Nat \ {0}
  BY DEF Types

\* decode_get_frame returns a frame or the notice.
LEMMA GetFrameStep == ASSUME IInv, GetFrame PROVE IInv'
<1>1. output' = Tail(output) /\ output # <<>> /\ pc = "get" /\ pc' = output[1]
  BY TailOutput DEF IInv, GetFrame
<1>2. UNCHANGED <<mCtx, mFrmGrp, packet, pkt_done, times, input, waiting, owed, gaveUp>>
  BY DEF GetFrame
<1>3. \A i \in DOMAIN output : output[i] = "info" => waiting /\ i = Len(output)
  BY DEF IInv, TypeOK
<1>4. Len(output') = Len(output) - 1 /\ Len(output) \in Nat \ {0}
  BY <1>1, TailOutput DEF IInv
<1>5. \A i \in DOMAIN output' : i + 1 \in DOMAIN output /\ output'[i] = output[i + 1]
  BY <1>1, TailOutput DEF IInv
<1>6. DOMAIN output' = 1 .. Len(output') /\ DOMAIN output = 1 .. Len(output)
  BY <1>1, TailOutput DEF IInv, Types
<1>7. output[1] \in {"frame", "info"}
  BY <1>1, TailOutput DEF IInv
<1>8. output[1] = "info" => waiting /\ Len(output) = 1
  BY <1>3, <1>4, <1>6
<1>9. Types'
  BY <1>1, <1>2, TailOutput DEF IInv, Types
<1>10. TypeOK'
  <2>1. \A i \in DOMAIN output' : output'[i] = "info" => waiting' /\ i = Len(output')
    BY <1>2, <1>3, <1>4, <1>5, <1>6
  <2>2. pc' = "info" => waiting'
    BY <1>1, <1>2, <1>8
  <2>3. gaveUp' => waiting' /\ pc' # "info" /\ \A i \in DOMAIN output' : output'[i] # "info"
    BY <1>1, <1>2, <1>4, <1>5, <1>6 DEF IInv, TypeOK
  <2>4. pc' \in {"idle", "put", "get", "info", "frame", "next"}
    BY <1>1, <1>7
  <2>5. Len(output') <= OutSize
    BY <1>4, CodecAssumption DEF IInv, TypeOK
  <2> QED
    BY <1>2, <2>1, <2>2, <2>3, <2>4, <2>5 DEF IInv, TypeOK
<1>11. OneNotice'
  BY <1>1, <1>4, <1>6, <1>8 DEF OneNotice
<1>12. IdleAccepted'
  BY <1>1, <1>7 DEF IdleAccepted
<1>13. InHand' = InHand /\ Dumped = 0
  BY <1>1, <1>2, Zenon DEF InHand, Dumped
<1>14. owed = InHand + Len(input) + PicturesIn(output)
  BY <1>13, Terms DEF IInv, NoFrameLost
<1>15. owed' = owed /\ input' = input
  BY <1>2
<1>16. PicturesIn(output') + Dumped' = PicturesIn(output)
  <2> output \in Seq({"frame", "info"}) /\ output' \in Seq({"frame", "info"})
    BY <1>9 DEF IInv, Types
  <2>1. CASE output[1] = "info"
    <3>0. Len(output) = 1 /\ Len(output') = 0
      BY <1>4, <1>8, <2>1
    <3>1. PicturesIn(output) = 0
      BY <2>1, <3>0, PicturesOf
    <3>2. PicturesIn(output') = 0
      BY <3>0, PicturesOf
    <3>3. Dumped' = 0
      BY <1>1, <2>1 DEF Dumped
    <3> QED
      BY <3>1, <3>2, <3>3
  <2>2. CASE output[1] = "frame"
    <3>1. Dumped' = 1
      BY <1>1, <2>2 DEF Dumped
    <3>2. CASE Len(output) = 1
      <4>0. Len(output) > 0 /\ output[Len(output)] # "info" /\ Len(output') = 0
        BY <1>4, <2>2, <3>2
      <4>1. PicturesIn(output) = 1
        BY <3>2, <4>0, PicturesOf
      <4>2. PicturesIn(output') = 0
        BY <4>0, PicturesOf
      <4> QED
        BY <3>1, <4>1, <4>2
    <3>3. CASE Len(output) > 1
      <4>1. output'[Len(output')] = output[Len(output)]
        BY <1>4, <1>5, <1>6, <3>3
      <4>2. PicturesIn(output') = PicturesIn(output) - 1
        BY <1>4, <1>9, <3>3, <4>1, PicturesOf DEF IInv, Types
      <4> QED
        BY <3>1, <4>2, Terms DEF IInv
    <3> QED
      BY <1>4, <3>2, <3>3
  <2> QED
    BY <1>7, <2>1, <2>2
<1>17. NoFrameLost'
  <2>1. Dumped' \in {0, 1}
    BY Zenon DEF Dumped
  <2>2. PicturesIn(output') \in Int
    BY <1>9, PicturesOf DEF Types
  <2> QED
    BY <1>13, <1>14, <1>15, <1>16, <2>1, <2>2, Terms DEF IInv, NoFrameLost
<1> QED
  BY <1>9, <1>10, <1>11, <1>12, <1>17 DEF IInv

\* The decoder decodes a packet, or finds that it needs buffers first.
LEMMA DecodeStep == ASSUME IInv, Decode PROVE IInv'
<1>1. /\ ~waiting /\ input # <<>> /\ Len(output) < OutSize
      /\ UNCHANGED <<mCtx, mFrmGrp, pc, packet, pkt_done, times, owed, gaveUp>>
  BY DEF Decode
<1>2. \A i \in DOMAIN output : output[i] # "info"
  BY <1>1 DEF IInv, TypeOK
<1>3. ~gaveUp /\ pc # "info"
  BY <1>1 DEF IInv, TypeOK
<1>4. DOMAIN output = 1 .. Len(output) /\ Len(output) \in Nat
  BY PicturesOf DEF IInv, Types
<1>5. ASSUME NEW e \in {"frame", "info"}, output' = Append(output, e)
      PROVE  /\ output' \in Seq({"frame", "info"})
             /\ Len(output') = Len(output) + 1
             /\ DOMAIN output' = 1 .. Len(output) + 1
             /\ \A i \in 1 .. Len(output) : output'[i] = output[i]
             /\ output'[Len(output) + 1] = e
  <2>1. output \in Seq({"frame", "info"})
    BY DEF IInv, Types
  <2>2. output' \in Seq({"frame", "info"})
    BY <1>5, <2>1, AppendProperties
  <2> QED
    BY <1>5, <2>1, <2>2, AppendProperties, LenProperties
<1>6. PicturesIn(output) = Len(output)
  BY <1>2, PicturesOf DEF IInv, Types
<1>7. InHand' = InHand /\ Dumped' = Dumped
  BY <1>1, Zenon DEF InHand, Dumped
<1>8. owed' = owed
  BY <1>1
<1>9. CASE NeedsBuffers
  <2>1. /\ output' = Append(output, "info") /\ waiting' = TRUE
        /\ input' = [input EXCEPT ![1] = "same"]
    BY <1>9 DEF Decode
  <2>2. input' \in Seq(Kinds) /\ Len(input') = Len(input)
    BY <1>1, <2>1 DEF IInv, Types, Kinds
  <2>3. Types'
    BY <1>1, <1>5, <2>1, <2>2 DEF IInv, Types
  <2>4. TypeOK'
    <3>1. \A i \in DOMAIN output' : output'[i] = "info" => waiting' /\ i = Len(output')
      BY <1>2, <1>4, <1>5, <2>1
    <3>2. Len(input') <= InSize /\ Len(output') <= OutSize
      BY <1>1, <1>4, <1>5, <2>1, <2>2, CodecAssumption DEF IInv, TypeOK
    <3> QED
      BY <1>1, <1>3, <2>1, <3>1, <3>2 DEF IInv, TypeOK
  <2>5. OneNotice' /\ IdleAccepted'
    BY <1>1, <1>3 DEF IInv, OneNotice, IdleAccepted
  <2>6. PicturesIn(output') = Len(output)
    <3>1. Len(output') = Len(output) + 1 /\ output'[Len(output')] = "info"
      BY <1>2, <1>4, <1>5, <2>1
    <3> QED
      BY <1>4, <2>3, <3>1, PicturesOf DEF Types
  <2>7. NoFrameLost'
    BY <1>6, <1>7, <1>8, <2>2, <2>6, Terms DEF IInv, NoFrameLost
  <2> QED
    BY <2>3, <2>4, <2>5, <2>7 DEF IInv
<1>10. CASE ~NeedsBuffers
  <2>1. /\ output' = Append(output, "frame") /\ waiting' = waiting
        /\ input' = Tail(input)
    BY <1>10 DEF Decode
  <2>2. input' \in Seq(Kinds) /\ Len(input') = Len(input) - 1 /\ Len(input) \in Nat
    BY <1>1, <2>1 DEF IInv, Types, Kinds
  <2>3. Types'
    BY <1>1, <1>5, <2>1, <2>2 DEF IInv, Types
  <2>4. TypeOK'
    <3>1. \A i \in DOMAIN output' : output'[i] # "info"
      BY <1>2, <1>4, <1>5, <2>1
    <3>2. Len(input') <= InSize /\ Len(output') <= OutSize
      BY <1>1, <1>4, <1>5, <2>1, <2>2, CodecAssumption DEF IInv, TypeOK
    <3> QED
      BY <1>1, <1>3, <2>1, <3>1, <3>2 DEF IInv, TypeOK
  <2>5. OneNotice' /\ IdleAccepted'
    BY <1>1, <1>3 DEF IInv, OneNotice, IdleAccepted
  <2>6. PicturesIn(output') = Len(output) + 1
    <3>1. Len(output') = Len(output) + 1 /\ output'[Len(output')] = "frame"
      BY <1>2, <1>4, <1>5, <2>1
    <3> QED
      BY <1>4, <2>3, <3>1, PicturesOf DEF Types
  <2>7. NoFrameLost'
    <3>1. owed = InHand + Len(input) + Len(output) + Dumped
      BY <1>6, Zenon DEF IInv, NoFrameLost
    <3>2. owed \in Int /\ InHand \in Int /\ Dumped \in Int
      BY Terms DEF IInv
    <3>3. owed = InHand + Len(input') + (Len(output) + 1) + Dumped
      BY <1>4, <2>2, <3>1, <3>2
    <3> QED
      BY <1>7, <1>8, <2>6, <3>3, Zenon DEF NoFrameLost
  <2> QED
    BY <2>3, <2>4, <2>5, <2>7 DEF IInv
<1> QED
  BY <1>9, <1>10

\* The decoder is set up, or cannot be.
LEMMA SetupStep == ASSUME IInv, Setup PROVE IInv'
<1>1. Types' /\ OneNotice' /\ IdleAccepted'
  BY DEF IInv, Types, OneNotice, IdleAccepted, Setup, decoder
<1>2. TypeOK'
  BY DEF IInv, TypeOK, Setup, decoder
<1>3. NoFrameLost'
  BY Zenon DEF IInv, NoFrameLost, InHand, Dumped, Setup, decoder
<1> QED
  BY <1>1, <1>2, <1>3 DEF IInv

\* decode_one_pkt is called.
LEMMA CallStep == ASSUME IInv, Call PROVE IInv'
<1>1. Types' /\ OneNotice' /\ IdleAccepted'
  BY DEF IInv, Types, OneNotice, IdleAccepted, Call, decoder
<1>2. TypeOK'
  <2>1. /\ UNCHANGED <<mCtx, mFrmGrp, input, output, waiting, gaveUp>>
        /\ packet' \in Kinds /\ times' = Times /\ pc' = "put"
    BY DEF Call, decoder
  <2>2. pkt_done' \in BOOLEAN
    BY Zenon DEF Call
  <2> QED
    BY <2>1, <2>2, CodecAssumption DEF IInv, TypeOK
<1>3. NoFrameLost'
  <2>1. InHand = 0 /\ InHand' = 1
    BY Zenon DEF IInv, IdleAccepted, InHand, Call
  <2>2. Dumped = 0 /\ Dumped' = 0
    BY DEF Dumped, Call
  <2>3. owed' = owed + 1 /\ UNCHANGED <<input, output>>
    BY DEF Call, decoder
  <2> QED
    BY <2>1, <2>2, <2>3, Terms DEF IInv, NoFrameLost
<1> QED
  BY <1>1, <1>2, <1>3 DEF IInv

\* A packet is offered.
LEMMA PutStep == ASSUME IInv, Put PROVE IInv'
<1>1. UNCHANGED <<mCtx, mFrmGrp, packet, times, output, waiting, owed, gaveUp>>
  BY DEF Put
<1>2. pc = "put" /\ pc' = "get"
  BY DEF Put
<1>3. OneNotice' /\ IdleAccepted'
  BY <1>1, <1>2 DEF OneNotice, IdleAccepted
<1>4. Dumped = 0 /\ Dumped' = 0
  BY <1>2 DEF Dumped
<1>5. CASE ~pkt_done /\ Accepts
  <2>1. input' = Append(input, packet) /\ Len(input) < InSize
    BY <1>5 DEF Put, Accepts
  <2>2. pkt_done' = TRUE
    BY <1>5, Zenon DEF Put
  <2>3. Len(input') = Len(input) + 1 /\ input' \in Seq(Kinds) /\ Len(input) \in Nat
    BY <2>1, AppendProperties, LenProperties DEF IInv, Types, TypeOK
  <2>4. Types'
    BY <1>1, <2>3 DEF IInv, Types
  <2>5. TypeOK'
    BY <1>1, <1>2, <2>1, <2>2, <2>3, CodecAssumption DEF IInv, TypeOK
  <2>6. InHand = 1 /\ InHand' = 0
    BY <1>5, <2>2, Zenon DEF InHand
  <2>7. NoFrameLost'
    BY <1>1, <1>4, <2>3, <2>6, Terms DEF IInv, NoFrameLost
  <2> QED
    BY <1>3, <2>4, <2>5, <2>7 DEF IInv
<1>6. CASE ~(~pkt_done /\ Accepts)
  <2>1. input' = input
    BY <1>6, Zenon DEF Put
  <2>2. pkt_done' = pkt_done
    BY <1>6, Zenon DEF Put, IInv, TypeOK
  <2>3. Types'
    BY <1>1, <2>1 DEF IInv, Types
  <2>4. TypeOK'
    BY <1>1, <1>2, <2>1, <2>2 DEF IInv, TypeOK
  <2>5. InHand' = InHand
    BY <2>2, Zenon DEF InHand
  <2>6. NoFrameLost'
    BY <1>1, <1>4, <2>1, <2>5, Zenon DEF IInv, NoFrameLost
  <2> QED
    BY <1>3, <2>3, <2>4, <2>6 DEF IInv
<1> QED
  BY <1>5, <1>6

\* There is no frame, a call for one times out, or the call ends or goes
\* round: nothing that is counted changes.
LEMMA QuietStep ==
    ASSUME IInv, GetNothing \/ Timeout \/ NextRound
    PROVE  IInv'
<1>1. UNCHANGED <<mCtx, mFrmGrp, packet, pkt_done, decoder, owed, gaveUp>>
  BY DEF GetNothing, Timeout, NextRound
<1>2. pc # "frame" /\ pc' # "frame" /\ pc' # "info"
  BY DEF GetNothing, Timeout, NextRound
<1>3. pc' = "idle" => pkt_done
  BY Zenon DEF GetNothing, Timeout, NextRound
<1>4. pc' \in {"idle", "put", "get", "info", "frame", "next"} /\ times' \in 0 .. Times
  BY CodecAssumption DEF GetNothing, Timeout, NextRound, IInv, TypeOK
<1>5. Types' /\ OneNotice'
  BY <1>1, <1>2 DEF IInv, Types, OneNotice, decoder
<1>6. IdleAccepted'
  BY <1>1, <1>3, Zenon DEF IdleAccepted
<1>7. TypeOK'
  BY <1>1, <1>2, <1>4 DEF IInv, TypeOK, decoder
<1>8. NoFrameLost'
  <2>1. InHand' = InHand
    BY <1>1, Zenon DEF InHand
  <2>2. Dumped' = Dumped
    BY <1>2, Zenon DEF Dumped
  <2> QED
    BY <1>1, <2>1, <2>2, Zenon DEF IInv, NoFrameLost, decoder
<1> QED
  BY <1>5, <1>6, <1>7, <1>8 DEF IInv

\* The notice of a new size is answered, or cannot be.
LEMMA InfoStep == ASSUME IInv, Info \/ InfoFails \/ ReadyFails PROVE IInv'
<1>1. /\ UNCHANGED <<mCtx, packet, pkt_done, times, input, output, owed>>
      /\ pc = "info" /\ pc' \in {"get", "next"}
  BY DEF Info, InfoFails, ReadyFails, decoder
<1>2. waiting /\ ~gaveUp /\ \A i \in DOMAIN output : output[i] # "info"
  BY <1>1 DEF IInv, TypeOK, OneNotice
<1>3. Types'
  BY <1>1 DEF IInv, Types, Info, InfoFails, ReadyFails, decoder
<1>4. OneNotice' /\ IdleAccepted'
  BY <1>1 DEF OneNotice, IdleAccepted
<1>5. TypeOK'
  <2>1. CASE Info
    <3>1. mFrmGrp' = "set" /\ waiting' = FALSE /\ gaveUp' = gaveUp
      BY <2>1 DEF Info
    <3> QED
      BY <1>1, <1>2, <3>1 DEF IInv, TypeOK
  <2>2. CASE InfoFails \/ ReadyFails
    <3>1. /\ mFrmGrp' \in {"none", "created", "set"}
          /\ waiting' = waiting /\ gaveUp' = TRUE
      BY <2>2 DEF InfoFails, ReadyFails, decoder, IInv, TypeOK
    <3> QED
      BY <1>1, <1>2, <3>1 DEF IInv, TypeOK
  <2> QED
    BY <2>1, <2>2
<1>6. NoFrameLost'
  <2>1. InHand' = InHand
    BY <1>1, Zenon DEF InHand
  <2>2. Dumped' = Dumped
    BY <1>1 DEF Dumped
  <2> QED
    BY <1>1, <2>1, <2>2, Zenon DEF IInv, NoFrameLost
<1> QED
  BY <1>3, <1>4, <1>5, <1>6 DEF IInv

\* A frame is dumped.
LEMMA DumpStep == ASSUME IInv, Dump PROVE IInv'
<1>1. Types' /\ OneNotice' /\ IdleAccepted'
  BY DEF IInv, Types, OneNotice, IdleAccepted, Dump, decoder
<1>2. TypeOK'
  BY DEF IInv, TypeOK, Dump, decoder
<1>3. NoFrameLost'
  <2>1. InHand' = InHand
    BY Zenon DEF InHand, Dump
  <2>2. Dumped = 1 /\ Dumped' = 0
    BY DEF Dumped, Dump
  <2>3. owed' = owed - 1 /\ UNCHANGED <<input, output>>
    BY DEF Dump, decoder
  <2> QED
    BY <2>1, <2>2, <2>3, Terms DEF IInv, NoFrameLost
<1> QED
  BY <1>1, <1>2, <1>3 DEF IInv

LEMMA NextIInv == ASSUME IInv, [Next]_vars PROVE IInv'
<1>1. CASE Setup
  BY <1>1, SetupStep
<1>2. CASE Call
  BY <1>2, CallStep
<1>3. CASE decode_one_pkt
  BY <1>3, PutStep, GetFrameStep, QuietStep, InfoStep, DumpStep DEF decode_one_pkt
<1>4. CASE Decode
  BY <1>4, DecodeStep
<1>5. CASE UNCHANGED vars
  BY <1>5, Zenon DEF vars, IInv, Types, TypeOK, OneNotice, IdleAccepted, NoFrameLost,
                     InHand, Dumped
<1> QED
  BY <1>1, <1>2, <1>3, <1>4, <1>5 DEF Next

-----------------------------------------------------------------------------
(* Theorems *)

\* The decoder waits exactly while a notice of a new picture size is under
\* way or could not be answered (Codec::decode_one_pkt).
THEOREM TypeCorrect == Spec => []TypeOK
<1>1. Init => IInv
  BY InitIInv
<1>2. IInv /\ [Next]_vars => IInv'
  BY NextIInv
<1>3. IInv => TypeOK
  BY DEF IInv
<1> QED
  BY <1>1, <1>2, <1>3, PTL DEF Spec

\* Each packet given to decode_one_pkt is offered to the decoder until it is
\* accepted, and each picture made of one is dumped once.
THEOREM NothingLost == Spec => []NoFrameLost
<1>1. Init => IInv
  BY InitIInv
<1>2. IInv /\ [Next]_vars => IInv'
  BY NextIInv
<1>3. IInv => NoFrameLost
  BY DEF IInv
<1> QED
  BY <1>1, <1>2, <1>3, PTL DEF Spec
=============================================================================
