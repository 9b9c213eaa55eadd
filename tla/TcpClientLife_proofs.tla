------------------------ MODULE TcpClientLife_proofs ------------------------
(***************************************************************************)
(* Proofs about TcpClientLife: for every bound on the lists, mutex_write   *)
(* is held by whom the code says, the send thread writes only to an open   *)
(* socket, and a client is freed only when its threads have ended.         *)
(***************************************************************************)
EXTENDS TcpClientLife, TLAPS

-----------------------------------------------------------------------------
(* The inductive invariant: how far Release has come says what is over *)

\* Where the listening thread has cleared fd_socket and running.
Closed == {"joinRecv", "joinAudio", "joinVideo", "joinSend", "done"}

SocketClosed == release \in Closed <=> ~fd_socket
RunningCleared == release \in Closed => ~running
RecvJoined == release \in Closed \ {"joinRecv"} => recv = "ended"
AudioJoined == release \in {"joinVideo", "joinSend", "done"} => report["audio"] = "ended"
VideoJoined == release \in {"joinSend", "done"} => report["video"] = "ended"
SendJoined == release = "done" => send = "ended"

IInv == /\ TypeOK
        /\ SocketClosed
        /\ RunningCleared
        /\ RecvJoined
        /\ AudioJoined
        /\ VideoJoined
        /\ SendJoined

-----------------------------------------------------------------------------

\* A signal moves a thread that waits and no other (Event::Signal).
LEMMA SignalledType ==
    /\ \A pc \in Readers : Signalled(pc) \in Readers
    /\ \A pc : Signalled(pc) = "ended" <=> pc = "ended"
    /\ \A pc : Signalled(pc) = "use" <=> pc = "use"
    /\ Signalled("open") = "open"
  BY DEF Signalled, Readers

\* PutSendData leaves the type of what it changes, and where the send thread
\* is in mutex_write or ended.
LEMMA PutSendDataType ==
    ASSUME IInv, PutSendData
    PROVE  /\ cmdList' \in 0 .. MaxData
           /\ send' \in Readers \cup {"open"}
           /\ send' = "use" <=> send = "use"
           /\ send = "ended" => send' = "ended"
  BY SignalledType, LifeAssumption DEF IInv, TypeOK, PutSendData, Signalled, Readers

\* PutData leaves the type of what it changes, and a report thread that has
\* ended.
LEMMA PutDataType ==
    ASSUME IInv, NEW s \in Streams, PutData(s)
    PROVE  /\ threadDataList' \in [Streams -> 0 .. MaxData]
           /\ report' \in [Streams -> Readers]
           /\ \A t \in Streams : report[t] = "ended" => report'[t] = "ended"
  BY SignalledType, LifeAssumption DEF IInv, TypeOK, PutData

LEMMA InitIInv == Init => IInv
  BY LifeAssumption DEF Init, IInv, TypeOK, Streams, Readers, Decoders, Releasing, Closed, SocketClosed,
        RunningCleared, RecvJoined, AudioJoined, VideoJoined, SendJoined

\* What the receive thread does.
LEMMA RecvKeepsIInv == IInv /\ (Receive \/ Handle \/ EndRecv) => IInv'
<1> USE DEF SocketClosed, RunningCleared, RecvJoined, AudioJoined, VideoJoined, SendJoined,
            Closed, Releasing, Streams
<1>1. IInv /\ Receive => IInv'
  BY DEF IInv, TypeOK, Receive
<1>2. ASSUME IInv, EndRecv PROVE IInv'
  <2>1. running' \in BOOLEAN /\ ~running' /\ recv' = "ended"
    BY <1>2 DEF EndRecv
  <2>2. UNCHANGED <<fd_socket, mutex_write, mppctx, report, threadDataList, send, cmdList,
                    release>>
    BY <1>2 DEF EndRecv
  <2> QED BY <1>2, <2>1, <2>2 DEF IInv, TypeOK
<1>3. ASSUME IInv, Handle PROVE IInv'
  <2>1. /\ threadDataList' \in [Streams -> 0 .. MaxData]
        /\ report' \in [Streams -> Readers]
        /\ \A t \in Streams : report[t] = "ended" => report'[t] = "ended"
    BY <1>3, PutDataType, LifeAssumption DEF Handle, IInv, TypeOK
  <2>2. /\ cmdList' \in 0 .. MaxData
        /\ send' \in Readers \cup {"open"}
        /\ send' = "use" <=> send = "use"
        /\ send = "ended" => send' = "ended"
    BY <1>3, PutSendDataType DEF Handle, IInv, TypeOK
  <2>3. /\ recv' = "recv" /\ recv = "handle"
        /\ UNCHANGED <<fd_socket, running, mutex_write, mppctx, release>>
    BY <1>3 DEF Handle
  <2> QED BY <1>3, <2>1, <2>2, <2>3 DEF IInv, TypeOK
<1> QED BY <1>1, <1>2, <1>3

\* What a report thread does.
LEMMA ReportKeepsIInv ==
    ASSUME IInv, NEW s \in Streams, ReportStep(s) PROVE IInv'
<1> USE DEF SocketClosed, RunningCleared, RecvJoined, AudioJoined, VideoJoined, SendJoined,
            Closed, Releasing, Streams
<1>1. /\ threadDataList' \in [Streams -> 0 .. MaxData]
      /\ report' \in [Streams -> Readers]
      /\ \A t \in Streams : report[t] = "ended" => report'[t] = "ended"
  <2>1. CASE Check(s)
    BY <2>1 DEF Check, IInv, TypeOK, Readers
  <2>2. CASE Wait(s) \/ TimedOut(s) \/ Use(s)
    BY <2>2 DEF Wait, TimedOut, Use, IInv, TypeOK, Readers
  <2>4. CASE Look(s)
    BY <2>4, LifeAssumption DEF Look, IInv, TypeOK, Readers
  <2>5. CASE Get(s)
    BY <2>5 DEF Get, IInv, TypeOK, Readers
  <2>3. CASE Take(s)
    BY <2>3, LifeAssumption DEF Take, IInv, TypeOK, Readers
  <2> QED BY <2>1, <2>2, <2>3, <2>4, <2>5 DEF ReportStep
<1>2. /\ cmdList' \in 0 .. MaxData
      /\ send' \in Readers \cup {"open"}
      /\ send' = "use" <=> send = "use"
      /\ send = "ended" => send' = "ended"
  BY PutSendDataType DEF ReportStep, Check, Look, Get, Wait, TimedOut, Take, Use, IInv, TypeOK
<1>3. UNCHANGED <<fd_socket, running, mutex_write, mppctx, recv, release>>
  BY DEF ReportStep
<1> QED BY <1>1, <1>2, <1>3 DEF IInv, TypeOK

\* A decoder that begins to refuse, and a report thread that goes on with what
\* has been deleted or refused.
LEMMA DecoderKeepsIInv == IInv /\ (Refuse \/ \E s \in Streams : GoOn(s)) => IInv'
<1> USE DEF SocketClosed, RunningCleared, RecvJoined, AudioJoined, VideoJoined, SendJoined,
            Closed, Releasing, Streams
<1>1. IInv /\ Refuse => IInv'
  BY DEF IInv, TypeOK, Refuse, Decoders
<1>2. ASSUME IInv, NEW s \in Streams, GoOn(s) PROVE IInv'
  <2>1. /\ report' \in [Streams -> Readers]
        /\ \A t \in Streams : report[t] = "ended" => report'[t] = "ended"
    BY <1>2 DEF GoOn, Astray, IInv, TypeOK, Readers
  <2>2. UNCHANGED <<fd_socket, running, mutex_write, mppctx, recv, threadDataList, send,
                    cmdList, release>>
    BY <1>2 DEF GoOn
  <2> QED BY <1>2, <2>1, <2>2 DEF IInv, TypeOK
<1> QED BY <1>1, <1>2

\* What the send thread does: it takes mutex_write only from nobody, so not
\* while Release is past Lock.
LEMMA SendKeepsIInv == IInv /\ SendStep => IInv'
<1> USE DEF SocketClosed, RunningCleared, RecvJoined, AudioJoined, VideoJoined, SendJoined,
            Closed, Releasing, SendUnchanged, Readers
<1>1. IInv /\ (SendCheck \/ SendWait) => IInv'
  BY DEF IInv, TypeOK, SendCheck, SendWait
<1>2. IInv /\ SendTake => IInv'
  BY LifeAssumption DEF IInv, TypeOK, SendTake
<1>3. IInv /\ (SendLock \/ SendUnlock) => IInv'
  BY DEF IInv, TypeOK, SendLock, SendUnlock
<1> QED BY <1>1, <1>2, <1>3 DEF SendStep

\* What the listening thread does: each join leaves one thread fewer.
LEMMA ReleaseKeepsIInv == IInv /\ (Reconnect \/ ReleaseStep) => IInv'
<1> USE DEF SocketClosed, RunningCleared, RecvJoined, AudioJoined, VideoJoined, SendJoined,
            Closed, Releasing, ReleaseUnchanged
<1>1. IInv /\ (Reconnect \/ Lock \/ Close) => IInv'
  BY DEF IInv, TypeOK, Reconnect, Lock, Close
<1>2. ASSUME IInv, JoinRecv \/ JoinAudio PROVE IInv'
  <2>1. /\ report' \in [Streams -> Readers]
        /\ report["audio"] = "ended" => report'["audio"] = "ended"
    BY <1>2, SignalledType DEF IInv, TypeOK, JoinRecv, JoinAudio, Streams
  <2>2. /\ mppctx' \in Decoders
        /\ recv = "ended"
        /\ UNCHANGED <<fd_socket, running, mutex_write, threadDataList, send, cmdList, recv>>
    BY <1>2 DEF IInv, TypeOK, JoinRecv, JoinAudio, Decoders
  <2>3. \/ release = "joinRecv" /\ release' = "joinAudio"
        \/ release = "joinAudio" /\ release' = "joinVideo" /\ report["audio"] = "ended"
    BY <1>2 DEF JoinRecv, JoinAudio
  <2> QED BY <1>2, <2>1, <2>2, <2>3 DEF IInv, TypeOK
<1>3. IInv /\ JoinVideo => IInv'
  BY SignalledType DEF IInv, TypeOK, JoinVideo, Signalled, Readers
<1>4. IInv /\ JoinSend => IInv'
  BY DEF IInv, TypeOK, JoinSend
<1> QED BY <1>1, <1>2, <1>3, <1>4 DEF ReleaseStep

LEMMA StepIInv == IInv /\ [Next]_vars => IInv'
<1>1. IInv /\ Next => IInv'
  BY RecvKeepsIInv, ReportKeepsIInv, DecoderKeepsIInv, SendKeepsIInv, ReleaseKeepsIInv DEF Next
<1>2. IInv /\ UNCHANGED vars => IInv'
  BY DEF vars, IInv, TypeOK, SocketClosed, RunningCleared, RecvJoined, AudioJoined,
         VideoJoined, SendJoined
<1> QED BY <1>1, <1>2

\* Release is exactly as far as the ended threads and fd_socket say.
THEOREM ReleaseProgress == Spec => []IInv
  BY InitIInv, StepIInv, PTL DEF Spec

-----------------------------------------------------------------------------

\* mutex_write is held by whom the code says holds it (SendSlices, Release).
THEOREM TypeCorrect == Spec => []TypeOK
<1>1. IInv => TypeOK
  BY DEF IInv
<1> QED BY <1>1, ReleaseProgress, PTL

\* A client is freed only when none of its four threads is left (Release).
THEOREM FreedWhenJoined == Spec => []JoinedBeforeFreed
<1>1. IInv => JoinedBeforeFreed
  BY DEF IInv, JoinedBeforeFreed, RecvJoined, AudioJoined, VideoJoined, SendJoined, Closed,
         Streams
<1> QED BY <1>1, ReleaseProgress, PTL

\* The send thread writes only to a socket that Release has not given up,
\* although it looks at fd_socket before it has mutex_write.
THEOREM NoSendAfterClose == Spec => []SendsOnOpenSocket
<1>1. IInv => SendsOnOpenSocket
  BY DEF IInv, TypeOK, SendsOnOpenSocket, SocketClosed, SendJoined, Closed, Releasing
<1> QED BY <1>1, ReleaseProgress, PTL
=============================================================================
