------------------------------ MODULE TcpStream ------------------------------
(***************************************************************************)
(* Messages over TCP: SendCacheManager of one TcpClient (PutSendData,      *)
(* GetSendData, DoThreadSendData in socket/TcpClient.cpp) sends slices of  *)
(* messages into a byte stream, and DoRecvLoop of the TcpClient at the     *)
(* other end cuts the stream into slices and the slices into messages.     *)
(*                                                                         *)
(* Bytes are counted, their values left out: the stream is the sequence    *)
(* wire of the slices in it, of which the receiver's buffer holds the      *)
(* first pos bytes.  A send() takes a slice whole or fails whole.          *)
(***************************************************************************)
EXTENDS CombinePackage, Sequences

CONSTANTS
    Lengths,        \* payload sizes of messages
    HeadSize,       \* SOCKPACKAGEHEAD_SIZE
    MaxSlice,       \* MAXSIZE_SENDSOCKPACKAGE (64 KiB)
    RecvBufSize,    \* RECV_BUFSIZE
    VideoLimit,     \* elements of videoList up to which commands are taken (30)
    AudioLimit,     \* the same for audio (200)
    MaxMessages,    \* bound on the messages put
    MaxWire,        \* bound on the slices in the socket buffers
    NoMessage

\* native.h:12: the receiver has room for the largest slice of a sender.
ASSUME StreamAssumption ==
    /\ Lengths \subseteq Nat
    /\ {HeadSize, MaxSlice, VideoLimit, AudioLimit, MaxMessages, MaxWire} \subseteq Nat \ {0}
    /\ RecvBufSize \in Nat /\ RecvBufSize >= HeadSize + MaxSlice

VARIABLES
    cmdList, audioList, videoList,  \* the lists of SendCacheManager
    put,            \* messages put so far
    sending,        \* the message DoThreadSendData is sending, or NoMessage
    slice,          \* its next slice
    seq,            \* the sequence number of that message
    wire,           \* the slices sent and not yet processed
    pos,            \* bytes of them in the receiver's buffer
    combinePackage, \* the package the receiver is combining
    header,         \* the message whose first slice that package began with
    delivered       \* what DoRecvMessage was last called with

senderVars == <<cmdList, audioList, videoList, put, sending, slice, seq>>
receiverVars == <<pos, combinePackage, header, delivered>>
streamVars == <<senderVars, wire, receiverVars>>

Types == {"cmd", "audio", "video"}
Message == [id : 1 .. MaxMessages, type : Types, len : Lengths]

-----------------------------------------------------------------------------
(* The sender *)

\* Both the limit for audio and the one for commands are compared with the
\* length of the list of video data.  What is not taken is thrown away.
PutSendData(t, n) ==
    LET m == [id |-> put + 1, type |-> t, len |-> n]
    IN  /\ put < MaxMessages
        /\ put' = put + 1
        /\ cmdList' = IF t = "cmd" /\ Len(videoList) < VideoLimit
                      THEN Append(cmdList, m) ELSE cmdList
        /\ audioList' = IF t = "audio" /\ Len(videoList) < AudioLimit
                        THEN Append(audioList, m) ELSE audioList
        /\ videoList' = IF t = "video" /\ Len(videoList) < VideoLimit
                        THEN Append(videoList, m) ELSE videoList
        /\ UNCHANGED <<sending, slice, seq, wire, receiverVars>>

\* ClearAudioData and ClearVideoData, when mirroring starts or stops.
Clear ==
    /\ audioList' = <<>>
    /\ videoList' = <<>>
    /\ UNCHANGED <<cmdList, put, sending, slice, seq, wire, receiverVars>>

\* Mutant: the newest element is taken.
TakeLast(list, rest) ==
    /\ sending = NoMessage
    /\ list # <<>>
    /\ sending' = list[Len(list)]
    /\ rest = SubSeq(list, 1, Len(list) - 1)
    /\ slice' = 0

TakeFrom(list, rest) ==
    /\ sending = NoMessage
    /\ list # <<>>
    /\ sending' = Head(list)
    /\ rest = Tail(list)
    /\ slice' = 0

\* Commands first, then audio, then video.
GetSendData ==
    /\ \/ TakeFrom(cmdList, cmdList') /\ UNCHANGED <<audioList, videoList>>
       \/ /\ cmdList = <<>>
          /\ TakeFrom(audioList, audioList') /\ UNCHANGED <<cmdList, videoList>>
       \/ /\ cmdList = <<>> /\ audioList = <<>>
          /\ TakeFrom(videoList, videoList') /\ UNCHANGED <<cmdList, audioList>>
    /\ UNCHANGED <<put, seq, wire, receiverVars>>

SlicesOf(n) == IF n = 0 THEN 1 ELSE (n + MaxSlice - 1) \div MaxSlice

Slice(m, i) ==
    LET left == m.len - i * MaxSlice
    IN  [seq |-> seq, slices |-> SlicesOf(m.len), cur |-> i,
         size |-> IF left >= MaxSlice THEN MaxSlice ELSE left, msg |-> m]

\* The next slice goes out, and with the last one the message is finished.
SendSlice ==
    /\ sending # NoMessage
    /\ Len(wire) < MaxWire
    /\ wire' = Append(wire, Slice(sending, slice))
    /\ IF slice + 1 = SlicesOf(sending.len)
       THEN sending' = NoMessage /\ slice' = 0 /\ seq' = seq + 1
       ELSE slice' = slice + 1 /\ UNCHANGED <<sending, seq>>
    /\ UNCHANGED <<cmdList, audioList, videoList, put, receiverVars>>

\* send() fails or times out: the rest of the message is given up.
SendFails ==
    /\ sending # NoMessage
    /\ sending' = NoMessage
    /\ slice' = 0
    /\ seq' = seq + 1
    /\ UNCHANGED <<cmdList, audioList, videoList, put, wire, receiverVars>>

-----------------------------------------------------------------------------
(* The receiver *)

\* SOCKPACKAGE_SIZE
PackageSize(s) == HeadSize + s.size

\* The bytes of the slices of w.
Bytes(w) ==
    LET upTo[n \in 0 .. Len(w)] == IF n = 0 THEN 0 ELSE upTo[n - 1] + PackageSize(w[n])
    IN  upTo[Len(w)]
OnWire == Bytes(wire)

\* Mutant: a slice is waited for until a byte of what follows it is there.
HasSliceLate == pos >= HeadSize /\ pos > PackageSize(wire[1])

\* The buffer begins with a whole slice.
HasSlice == pos >= HeadSize /\ pos >= PackageSize(wire[1])

\* Mutant: the whole buffer size is asked for, wherever it is read to.
RecvAnywhere ==
    /\ ~HasSlice
    /\ \E n \in 1 .. OnWire - pos : pos' = pos + n
    /\ UNCHANGED <<senderVars, wire, combinePackage, header, delivered>>

\* recv(): any part of what is on its way, as far as the buffer has room.
Recv ==
    /\ ~HasSlice
    /\ \E n \in 1 .. OnWire - pos :
         /\ pos + n <= RecvBufSize
         /\ pos' = pos + n
    /\ UNCHANGED <<senderVars, wire, combinePackage, header, delivered>>

\* Mutant: a first slice does not begin a new package.
CombinePut(s) == PutPackage(combinePackage, s)

\* The package once slice s is processed.
Combine(s) == IF s.cur = 0 THEN InitPackage(s) ELSE PutPackage(combinePackage, s)

\* The slice at the head of the buffer is combined, a message that is done
\* handed on, and the rest of the buffer moved to its head.
Process ==
    /\ HasSlice
    /\ LET s == wire[1]
           p == Combine(s)
       IN  /\ header' = IF s.cur = 0 THEN s.msg ELSE header
           /\ IF IsDone(p)
              THEN /\ delivered' = [msg |-> header', dataSize |-> p.dataSize]
                   /\ combinePackage' = ResetData(p)
              ELSE /\ combinePackage' = p
                   /\ UNCHANGED delivered
           /\ pos' = pos - PackageSize(s)
    /\ wire' = Tail(wire)
    /\ UNCHANGED senderVars

-----------------------------------------------------------------------------

StreamInit ==
    /\ cmdList = <<>> /\ audioList = <<>> /\ videoList = <<>>
    /\ put = 0
    /\ sending = NoMessage
    /\ slice = 0
    /\ seq = 0
    /\ wire = <<>>
    /\ pos = 0
    /\ combinePackage = [seq |-> -1, slices |-> 1, recv |-> 0, mask |-> {}, dataSize |-> 0]
    /\ header = NoMessage
    /\ delivered = [msg |-> NoMessage, dataSize |-> 0]

StreamNext ==
    \/ \E t \in Types, n \in Lengths : PutSendData(t, n)
    \/ Clear
    \/ GetSendData
    \/ SendSlice
    \/ SendFails
    \/ Recv
    \/ Process

StreamSpec == StreamInit /\ [][StreamNext]_streamVars

\* TCP brings what was sent, and the receive thread runs.
LiveStreamSpec == StreamSpec /\ WF_streamVars(Recv) /\ WF_streamVars(Process)

-----------------------------------------------------------------------------
(* Properties *)

\* The messages whose last slice is in w.
Whole(w) ==
    LET upTo[n \in 0 .. Len(w)] ==
          IF n = 0 THEN <<>>
          ELSE IF w[n].cur = w[n].slices - 1 THEN Append(upTo[n - 1], w[n].msg)
          ELSE upTo[n - 1]
    IN  upTo[Len(w)]

\* The messages that have been sent out whole and not been received.
SentWhole == Whole(wire)

\* The message DoRecvMessage was last given, with the length it has there.
Received ==
    IF delivered.msg = NoMessage THEN NoMessage
    ELSE [delivered.msg EXCEPT !.len = delivered.dataSize]

Fifo == INSTANCE MessageFifo WITH chan <- SentWhole, received <- Received

\* The two loops implement the FIFO: however the stream is cut into reads and
\* wherever a send fails, DoRecvMessage gets what was sent whole, in order and
\* in its length.
ImplementsFifo == Fifo!Spec

\* Where a message can be between Send and DoRecvMessage, in the order it moves.
Waiting(t) ==
    CASE t = "cmd" -> cmdList [] t = "audio" -> audioList [] t = "video" -> videoList
InTransit(t) ==
    <<delivered.msg, header>> \o [i \in DOMAIN wire |-> wire[i].msg] \o <<sending>> \o Waiting(t)
IsOf(m, t) == m # NoMessage /\ m.type = t

\* The receiver's buffer never ends before the stream does, and holds no more
\* of it than it has room for.
StreamTypeOK ==
    /\ \A t \in Types : Waiting(t) \in Seq(Message)
    /\ sending \in Message \cup {NoMessage}
    /\ pos \in 0 .. OnWire /\ pos <= RecvBufSize
    /\ combinePackage.recv = Cardinality(combinePackage.mask)

\* Messages of one type overtake each other nowhere between Send and
\* DoRecvMessage, though commands and audio overtake video.
OrderedPerType ==
    \A t \in Types : \A i, j \in DOMAIN InTransit(t) :
        i < j /\ IsOf(InTransit(t)[i], t) /\ IsOf(InTransit(t)[j], t)
            => InTransit(t)[i].id <= InTransit(t)[j].id

\* The buffer always has room for the rest of the slice it begins with: recv()
\* is never asked for no bytes, which would end the connection.
RoomToRecv == ~HasSlice => pos < RecvBufSize

\* A message that was sent out whole is received in the end, though the
\* stream behind it may never go on.
SentArrives ==
    \A id \in 1 .. MaxMessages :
        (\E i \in DOMAIN SentWhole : SentWhole[i].id = id)
        ~> (delivered.msg # NoMessage /\ delivered.msg.id = id)
=============================================================================
