---------------------------- MODULE TcpClientLife ----------------------------
(***************************************************************************)
(* The threads of one TcpClient of the server (socket/TcpClient.cpp) and   *)
(* the end they come to: the receive thread (DoRecvLoop), a report thread  *)
(* for audio and one for video (DoThreadReportData), the send thread       *)
(* (DoThreadSendData), and the listening thread, which deletes the client  *)
(* when its phone connects again (Tcp::FreeClient, Release).               *)
(*                                                                         *)
(* A step is what a thread does between two operations on a lock, a        *)
(* condition variable or another thread; what the threads exchange is      *)
(* abstracted to how much of it waits.                                     *)
(***************************************************************************)
EXTENDS Integers

CONSTANTS
    MaxData     \* bound on what waits in a list

ASSUME LifeAssumption == MaxData \in Nat \ {0}

Streams == {"audio", "video"}

VARIABLES
    fd_socket,      \* fd_socket > 0
    running,        \* TcpClient::running
    mutex_write,    \* who holds mutex_write: nobody, the send thread, Release
    mppctx,         \* what the decoders are good for
    recv,           \* where the receive thread is
    report,         \* where each report thread is
    threadDataList, \* how much waits for each report thread
    send,           \* where the send thread is
    cmdList,        \* how much waits for the send thread
    release         \* where the listening thread is in Release

vars == <<fd_socket, running, mutex_write, mppctx, recv, report, threadDataList,
          send, cmdList, release>>

\* A thread that reads from a list: it gets to the list, has found it "empty"
\* and then waits, takes the first element and uses it.  Before that a report
\* thread looks at the layout its decoder has (mppctx->mNum).
Readers == {"check", "look", "get", "empty", "wait", "take", "use", "ended"}

\* mppctx and faaddecoder: a decoder that could not be set up, at first or for
\* a new picture size, refuses its packets.
Decoders == {"works", "refuses", "deleted"}

\* The condition variable of a reader: only who waits notices the signal.
Signalled(pc) == IF pc = "wait" THEN "take" ELSE pc

-----------------------------------------------------------------------------
(* Putting data into the lists *)

\* ThreadDataProcessor::PutData.
PutData(s) ==
    /\ threadDataList[s] < MaxData
    /\ threadDataList' = [threadDataList EXCEPT ![s] = @ + 1]
    /\ report' = [report EXCEPT ![s] = Signalled(@)]

\* TcpClient::Send and PutSendData, of a command.
CanSend == running /\ fd_socket
PutSendData ==
    /\ cmdList < MaxData
    /\ cmdList' = cmdList + 1
    /\ send' = Signalled(send)

-----------------------------------------------------------------------------
(* The receive thread *)

\* A message is there, and the loop still runs.
Receive ==
    /\ recv = "recv"
    /\ running
    /\ recv' = "handle"
    /\ UNCHANGED <<fd_socket, running, mutex_write, mppctx, report, threadDataList, send,
                   cmdList, release>>

\* DoRecvMessage: audio or video data, a stop (FreeList of the video data), a
\* message that is answered, or one that is not.
Handle ==
    /\ recv = "handle"
    /\ recv' = "recv"
    /\ \/ /\ \E s \in Streams : PutData(s)
          /\ UNCHANGED <<send, cmdList>>
       \/ /\ threadDataList' = [threadDataList EXCEPT !["video"] = 0]
          /\ UNCHANGED <<report, send, cmdList>>
       \/ /\ IF CanSend THEN PutSendData ELSE UNCHANGED <<send, cmdList>>
          /\ UNCHANGED <<report, threadDataList>>
       \/ UNCHANGED <<report, threadDataList, send, cmdList>>
    /\ UNCHANGED <<fd_socket, running, mutex_write, mppctx, release>>

\* recv() reports the end of the connection or 15 seconds of silence, or the
\* loop finds running cleared.
EndRecv ==
    /\ recv = "recv"
    /\ recv' = "ended"
    /\ running' = FALSE
    /\ UNCHANGED <<fd_socket, mutex_write, mppctx, report, threadDataList, send, cmdList,
                   release>>

-----------------------------------------------------------------------------
(* A report thread *)

\* Mutant: the thread does not look at running.
CheckAlways(s) ==
    /\ report[s] = "check"
    /\ \E pc \in {"look", "get"} : report' = [report EXCEPT ![s] = pc]
    /\ UNCHANGED <<threadDataList, send, cmdList>>

\* The head of the loop: it ends, or looks at the layout if the client mirrors.
Check(s) ==
    /\ report[s] = "check"
    /\ IF running
       THEN \E pc \in {"look", "get"} : report' = [report EXCEPT ![s] = pc]
       ELSE report' = [report EXCEPT ![s] = "ended"]
    /\ UNCHANGED <<threadDataList, send, cmdList>>

\* The layout is up to date, or the thread asks the phone for another picture
\* size and throws its list away.
Look(s) ==
    /\ report[s] = "look"
    /\ mppctx # "deleted"
    /\ report' = [report EXCEPT ![s] = "get"]
    /\ \/ UNCHANGED <<threadDataList, send, cmdList>>
       \/ /\ IF CanSend THEN PutSendData ELSE UNCHANGED <<send, cmdList>>
          /\ threadDataList' = [threadDataList EXCEPT ![s] = 0]

\* GetData looks at the list, without its mutex.
Get(s) ==
    /\ report[s] = "get"
    /\ report' = [report EXCEPT ![s] = IF threadDataList[s] = 0 THEN "empty" ELSE "take"]
    /\ UNCHANGED <<threadDataList, send, cmdList>>

\* event.Wait(1000): a signal that came since the list was empty is lost.
Wait(s) ==
    /\ report[s] = "empty"
    /\ report' = [report EXCEPT ![s] = "wait"]
    /\ UNCHANGED <<threadDataList, send, cmdList>>

\* Mutant: the wait has no deadline.
NeverTimedOut(s) ==
    /\ report[s] = "wait"
    /\ FALSE
    /\ report' = report
    /\ UNCHANGED <<threadDataList, send, cmdList>>

\* The deadline passes.
TimedOut(s) ==
    /\ report[s] = "wait"
    /\ report' = [report EXCEPT ![s] = "take"]
    /\ UNCHANGED <<threadDataList, send, cmdList>>

Take(s) ==
    /\ report[s] = "take"
    /\ IF threadDataList[s] = 0
       THEN /\ report' = [report EXCEPT ![s] = "check"]
            /\ UNCHANGED threadDataList
       ELSE /\ report' = [report EXCEPT ![s] = "use"]
            /\ threadDataList' = [threadDataList EXCEPT ![s] = @ - 1]
    /\ UNCHANGED <<send, cmdList>>

\* The data has been decoded: decode_one_pkt returns when the decoder has taken
\* its packet, faad_decode_frame when it is through.
Use(s) ==
    /\ report[s] = "use"
    /\ mppctx = "works" \/ (mppctx = "refuses" /\ s = "audio")
    /\ report' = [report EXCEPT ![s] = "check"]
    /\ UNCHANGED <<threadDataList, send, cmdList>>

ReportStep(s) ==
    /\ Check(s) \/ Look(s) \/ Get(s) \/ Wait(s) \/ TimedOut(s) \/ Take(s) \/ Use(s)
    /\ UNCHANGED <<fd_socket, running, mutex_write, mppctx, recv, release>>

\* The buffers of a new picture size cannot be set up: the decoder takes no
\* packet any more, and decode_one_pkt goes round without looking at running.
Refuse ==
    /\ report["video"] = "use"
    /\ mppctx = "works"
    /\ mppctx' = "refuses"
    /\ UNCHANGED <<fd_socket, running, mutex_write, recv, report, threadDataList, send,
                   cmdList, release>>

\* Report threads that read or decode with what Release has deleted.
Astray == { s \in Streams : mppctx = "deleted" /\ report[s] \in {"look", "use"} }

\* Such a thread may go on, whatever it has read, or not (a crash is not told
\* apart from a call that does not return).  One whose decoder refuses goes on
\* only if the client stopped mirroring before, and the packet is not decoded.
GoOn(s) ==
    /\ s \in Astray \/ (s = "video" /\ report[s] = "use" /\ mppctx = "refuses")
    /\ report' = [report EXCEPT ![s] = IF @ = "look" THEN "get" ELSE "check"]
    /\ UNCHANGED <<fd_socket, running, mutex_write, mppctx, recv, threadDataList, send,
                   cmdList, release>>

-----------------------------------------------------------------------------
(* The send thread *)

SendUnchanged == UNCHANGED <<fd_socket, running, mppctx, recv, report, threadDataList, release>>

SendCheck ==
    /\ send = "check"
    /\ send' = IF ~running THEN "ended" ELSE IF cmdList = 0 THEN "empty" ELSE "take"
    /\ UNCHANGED <<mutex_write, cmdList>>
    /\ SendUnchanged

SendWait ==
    /\ send \in {"empty", "wait"}
    /\ send' = IF send = "empty" THEN "wait" ELSE "take"
    /\ UNCHANGED <<mutex_write, cmdList>>
    /\ SendUnchanged

\* GetSendData, and the look at fd_socket before mutex_write is taken.
SendTake ==
    /\ send = "take"
    /\ send' = IF cmdList = 0 \/ ~fd_socket THEN "check" ELSE "open"
    /\ cmdList' = IF cmdList = 0 THEN 0 ELSE cmdList - 1
    /\ UNCHANGED mutex_write
    /\ SendUnchanged

SendLock ==
    /\ send = "open"
    /\ mutex_write = "nobody"
    /\ mutex_write' = "send"
    /\ send' = "use"
    /\ UNCHANGED cmdList
    /\ SendUnchanged

\* send() returns, at the latest after its timeout of 3 seconds.
SendUnlock ==
    /\ send = "use"
    /\ mutex_write' = "nobody"
    /\ send' = "check"
    /\ UNCHANGED cmdList
    /\ SendUnchanged

SendStep == SendCheck \/ SendWait \/ SendTake \/ SendLock \/ SendUnlock

-----------------------------------------------------------------------------
(* The listening thread: delete, Release *)

ReleaseUnchanged == UNCHANGED <<threadDataList, cmdList, recv>>

\* The phone connects again.
Reconnect ==
    /\ release = "idle"
    /\ release' = "lock"
    /\ UNCHANGED <<fd_socket, running, mutex_write, mppctx, report, send>>
    /\ ReleaseUnchanged

\* Mutant: mutex_write is not taken.
LockNothing ==
    /\ release = "lock"
    /\ release' = "close"
    /\ UNCHANGED <<fd_socket, running, mutex_write, mppctx, report, send>>
    /\ ReleaseUnchanged

Lock ==
    /\ release = "lock"
    /\ mutex_write = "nobody"
    /\ mutex_write' = "release"
    /\ release' = "close"
    /\ UNCHANGED <<fd_socket, running, mppctx, report, send>>
    /\ ReleaseUnchanged

\* fd_socket and running are cleared, the socket shut down.
Close ==
    /\ release = "close"
    /\ fd_socket' = FALSE
    /\ running' = FALSE
    /\ release' = "joinRecv"
    /\ UNCHANGED <<mutex_write, mppctx, report, send>>
    /\ ReleaseUnchanged

\* The decoders go, while the report threads are still there.
JoinRecv ==
    /\ release = "joinRecv"
    /\ recv = "ended"
    /\ mppctx' = "deleted"
    /\ report' = [report EXCEPT !["audio"] = Signalled(@)]
    /\ release' = "joinAudio"
    /\ UNCHANGED <<fd_socket, running, mutex_write, send>>
    /\ ReleaseUnchanged

\* Mutant: the audio thread is signalled and not joined.
JoinNoAudio ==
    /\ release = "joinAudio"
    /\ report' = [report EXCEPT !["video"] = Signalled(@)]
    /\ release' = "joinVideo"
    /\ UNCHANGED <<fd_socket, running, mutex_write, mppctx, send>>
    /\ ReleaseUnchanged

JoinAudio ==
    /\ release = "joinAudio"
    /\ report["audio"] = "ended"
    /\ report' = [report EXCEPT !["video"] = Signalled(@)]
    /\ release' = "joinVideo"
    /\ UNCHANGED <<fd_socket, running, mutex_write, mppctx, send>>
    /\ ReleaseUnchanged

JoinVideo ==
    /\ release = "joinVideo"
    /\ report["video"] = "ended"
    /\ send' = Signalled(send)
    /\ release' = "joinSend"
    /\ UNCHANGED <<fd_socket, running, mutex_write, mppctx, report>>
    /\ ReleaseUnchanged

\* The send thread is joined with mutex_write held; then the client is freed.
JoinSend ==
    /\ release = "joinSend"
    /\ send = "ended"
    /\ mutex_write' = "nobody"
    /\ release' = "done"
    /\ UNCHANGED <<fd_socket, running, mppctx, report, send>>
    /\ ReleaseUnchanged

ReleaseStep == Lock \/ Close \/ JoinRecv \/ JoinAudio \/ JoinVideo \/ JoinSend

-----------------------------------------------------------------------------

\* The threads have been created.  The receive thread has run far enough to
\* have stored tidRecv, without which Release would not join it.
Init ==
    /\ fd_socket = TRUE
    /\ running = TRUE
    /\ mutex_write = "nobody"
    /\ mppctx \in {"works", "refuses"}
    /\ recv = "recv"
    /\ report = [s \in Streams |-> "check"]
    /\ threadDataList = [s \in Streams |-> 0]
    /\ send = "check"
    /\ cmdList = 0
    /\ release = "idle"

Next ==
    \/ Receive \/ Handle \/ EndRecv
    \/ \E s \in Streams : ReportStep(s) \/ GoOn(s)
    \/ Refuse
    \/ SendStep
    \/ Reconnect \/ ReleaseStep

Spec == Init /\ [][Next]_vars

\* Every thread runs whenever it can, but nothing is assumed of one that is in a
\* decoder that refuses its packet or has been deleted; a phone need not send
\* anything nor ever close, but shutdown() and a cleared running end the receive
\* thread.  The send thread leaves mutex_write between commands, which come a few
\* a second: Release gets it in the end.
Fairness ==
    /\ WF_vars(Handle)
    /\ WF_vars(~running /\ EndRecv)
    /\ \A s \in Streams : WF_vars(ReportStep(s))
    /\ WF_vars(SendStep)
    /\ SF_vars(Lock)
    /\ WF_vars(ReleaseStep)

LiveSpec == Spec /\ Fairness

-----------------------------------------------------------------------------
(* Properties *)

Releasing == {"close", "joinRecv", "joinAudio", "joinVideo", "joinSend"}

\* mutex_write is held by whom the code says holds it, and by nobody else.
TypeOK ==
    /\ fd_socket \in BOOLEAN /\ running \in BOOLEAN /\ mppctx \in Decoders
    /\ mutex_write \in {"nobody", "send", "release"}
    /\ recv \in {"recv", "handle", "ended"}
    /\ report \in [Streams -> Readers]
    /\ threadDataList \in [Streams -> 0 .. MaxData]
    /\ send \in Readers \cup {"open"}
    /\ cmdList \in 0 .. MaxData
    /\ release \in {"idle", "lock", "done"} \cup Releasing
    /\ mutex_write = "send" <=> send = "use"
    /\ mutex_write = "release" <=> release \in Releasing

\* No thread of a client is left when the client is freed (Release).
JoinedBeforeFreed ==
    release = "done" =>
        /\ recv = "ended"
        /\ \A s \in Streams : report[s] = "ended"
        /\ send = "ended"

\* The send thread never writes to a descriptor that Release has given up,
\* though it looks at fd_socket before it takes mutex_write.
SendsOnOpenSocket == send = "use" => fd_socket

\* Data that waits for a report thread is taken, whatever the order in which
\* the thread finds its list empty and the signal is given (GetData, PutData).
DataTaken ==
    \A s \in Streams :
        (threadDataList[s] > 0 /\ running)
        ~> (report[s] = "use" \/ threadDataList[s] = 0 \/ ~running)

\* Release gets past the receive thread and both report threads, wherever they
\* are, unless one of them is caught with the decoders that Release deletes
\* before it joins it: in the loop of decode_one_pkt, or between its look at
\* running and the use of what it has taken.
ReportThreadsJoined ==
    release = "lock" ~> (release \in {"joinSend", "done"} \/ Astray # {})

-----------------------------------------------------------------------------
(* What the comments say *)

\* Tcp.cpp:148: when a phone connects again its last connection must be cut;
\* so the deletion that Accept waits for comes to an end, be it that no report
\* thread is caught with a deleted decoder.
ReleaseEnds == release = "lock" ~> (release = "done" \/ Astray # {})
=============================================================================
