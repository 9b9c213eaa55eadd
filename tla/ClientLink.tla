----------------------------- MODULE ClientLink ------------------------------
(***************************************************************************)
(* Connect, DoHeartbeatLoop and the heartbeat branch of DoRecvMessage      *)
(* (socket/TcpClient.cpp): how the two ends of a connection know that the  *)
(* other is there.  The client sends a heartbeat each second, the server   *)
(* answers it, and each ends when it has heard nothing for 15 seconds.     *)
(*                                                                         *)
(* Time goes by in seconds.  What is due within a second is done before    *)
(* the next one, in any order; bytes take less than that unless the link   *)
(* is down, and TCP delivers them when it is up again.  Video and audio    *)
(* are left out: each of them would count as a heartbeat.                  *)
(*                                                                         *)
(* A comment beside the limit says that 15 is for the end of the dongle    *)
(* only and that the TV keeps 5; the code has no such distinction, both    *)
(* ends run the same line, and so they do here.                            *)
(***************************************************************************)
EXTENDS Integers, Sequences, SequencesExt

CONSTANTS
    Limit,      \* the 15 timeouts of recv() that end a connection, at both ends
    MaxOutage   \* seconds the link may be down before it is up again

ASSUME LinkAssumption == Limit \in Nat \ {0} /\ MaxOutage \in Nat

Sides == {"client", "server"}
Other(s) == IF s = "client" THEN "server" ELSE "client"

VARIABLES
    fd_socket,          \* the client's fd_socket > 0
    accepted,           \* what the host connected to did: "no", "waits",
                        \* "yes", "leaked" without a free slot, "refused"
    running,            \* TcpClient::running of each end
    mRecvTimeoutCounter,
    listening,          \* recv() has waited since before the second began
    sleeping,           \* the heartbeat thread: "ended", in its second of
                        \* sleep, or "awake"
    mHeartbeatFlags,    \* the server's: HBFLAG_CLIENTINFO is set
    asked,              \* the client's upper layer owes a TYPE_CLIENT_INFO
    sent,               \* messages on their way to each end
    link,               \* "up", "down" or "cut"
    outage,             \* seconds the link has been down
    excused             \* an end has left, or the link been cut

vars == <<fd_socket, accepted, running, mRecvTimeoutCounter, listening, sleeping,
          mHeartbeatFlags, asked, sent, link, outage, excused>>

environment == <<link, outage, excused>>

\* TYPE_SOCKET_HEARTBEAT with rid = 0; with rid # 0, and with or without
\* HBFLAG_CLIENTINFO; TYPE_CLIENT_INFO; TYPE_UDP_SUPPORT; and the end of the
\* stream of bytes.
Messages == {"heartbeat", "reply", "replyAsk", "info", "udpSupport", "end"}

\* On its way to an end that does not read any more, or over a link that is
\* cut, a message is as good as lost.
Sent(s, m, on) ==
    IF running[Other(s)] /\ link # "cut" THEN [on EXCEPT ![Other(s)] = Append(@, m)] ELSE on

\* Send, from s.
Send(s, m) == IF running[s] THEN Sent(s, m, sent) ELSE sent

-----------------------------------------------------------------------------
(* Connecting *)

\* Connect, when the host is there.  It fails without a trace when the host
\* does not answer within 5 seconds or on an error; a host that refuses makes
\* the socket writable too, and is taken for one that accepts.  fd_socket is
\* never cleared again: there is no second connection.
Connect ==
    /\ ~fd_socket
    /\ link = "up"
    /\ fd_socket' = TRUE
    /\ running' = [running EXCEPT !["client"] = TRUE]
    /\ mRecvTimeoutCounter' = [mRecvTimeoutCounter EXCEPT !["client"] = 0]
    /\ sleeping' = "sleep"
    /\ accepted' \in {"waits", "refused"}
    /\ UNCHANGED <<listening, mHeartbeatFlags, asked, sent, environment>>

\* Tcp::StartServer gives the connection a client, whose receive thread sends
\* TYPE_UDP_SUPPORT,
Accept ==
    /\ accepted = "waits"
    /\ accepted' = "yes"
    /\ running' = [running EXCEPT !["server"] = TRUE]
    /\ mHeartbeatFlags' = TRUE
    /\ sent' = Sent("server", "udpSupport", sent)
    /\ UNCHANGED <<fd_socket, mRecvTimeoutCounter, listening, sleeping, asked, environment>>

\* or finds no slot for it and leaves it open.
Leak ==
    /\ accepted = "waits"
    /\ accepted' = "leaked"
    /\ UNCHANGED <<fd_socket, running, mRecvTimeoutCounter, listening, sleeping,
                   mHeartbeatFlags, asked, sent, environment>>

-----------------------------------------------------------------------------
(* DoHeartbeatLoop.  There is one connection, so hbToken and fd_socket are   *)
(* what they were.                                                           *)

Heartbeat ==
    /\ sleeping = "awake"
    /\ sleeping' = IF running["client"] THEN "sleep" ELSE "ended"
    /\ sent' = Send("client", "heartbeat")
    /\ UNCHANGED <<fd_socket, accepted, running, mRecvTimeoutCounter, listening,
                   mHeartbeatFlags, asked, environment>>

-----------------------------------------------------------------------------
(* DoRecvLoop and DoRecvMessage *)

Readable(s) == running[s] /\ link = "up" /\ sent[s] # <<>>

\* Mutant: the answer asks for nothing.
ReplyOnly(s) == "reply"

Reply(s) == IF s = "server" /\ mHeartbeatFlags THEN "replyAsk" ELSE "reply"

\* Mutant: an answer is answered.
AnswerAll(s, m) == m \in {"heartbeat", "reply", "replyAsk"}

\* Only a heartbeat that is not itself an answer is answered.
Answered(s, m) == m = "heartbeat"

\* Mutant: the count of timeouts goes on.
ResetNothing(s) == mRecvTimeoutCounter' = mRecvTimeoutCounter

Reset(s) == mRecvTimeoutCounter' = [mRecvTimeoutCounter EXCEPT ![s] = 0]

\* A message is there and is handled.
Receive(s) ==
    /\ Readable(s)
    /\ LET m == Head(sent[s])
           rest == [sent EXCEPT ![s] = Tail(@)]
       IN  /\ m # "end"
           /\ sent' = IF Answered(s, m)
                      THEN Sent(s, Reply(s), rest)
                      ELSE rest
           /\ mHeartbeatFlags' = (mHeartbeatFlags /\ ~(s = "server" /\ m = "info"))
           /\ asked' = (asked \/ m = "replyAsk")
    /\ Reset(s)
    /\ listening' = [listening EXCEPT ![s] = FALSE]
    /\ UNCHANGED <<fd_socket, accepted, running, sleeping, environment>>

\* recv() returns 0, or -1 on a connection that was refused.
ReceiveEnd(s) ==
    /\ \/ Readable(s) /\ Head(sent[s]) = "end"
       \/ running[s] /\ s = "client" /\ accepted = "refused"
    /\ running' = [running EXCEPT ![s] = FALSE]
    /\ sent' = [sent EXCEPT ![s] = <<>>]
    /\ UNCHANGED <<fd_socket, accepted, mRecvTimeoutCounter, listening, sleeping,
                   mHeartbeatFlags, asked, environment>>

\* Mutant: a timeout is not counted.
NotCounted(s) ==
    /\ running[s] /\ listening[s] /\ ~Readable(s)
    /\ listening' = [listening EXCEPT ![s] = FALSE]
    /\ UNCHANGED <<fd_socket, accepted, running, mRecvTimeoutCounter, sleeping,
                   mHeartbeatFlags, asked, sent, environment>>

\* recv() times out after a second.  The socket stays open when the loop ends.
RecvTimeout(s) ==
    /\ running[s] /\ listening[s] /\ ~Readable(s)
    /\ mRecvTimeoutCounter' = [mRecvTimeoutCounter EXCEPT ![s] = @ + 1]
    /\ running' = [running EXCEPT ![s] = mRecvTimeoutCounter'[s] < Limit]
    /\ sent' = IF running'[s] THEN sent ELSE [sent EXCEPT ![s] = <<>>]
    /\ listening' = [listening EXCEPT ![s] = FALSE]
    /\ UNCHANGED <<fd_socket, accepted, sleeping, mHeartbeatFlags, asked, environment>>

\* The client's upper layer answers TYPE_REQUEST_CLIENTINFO.
ClientInfo ==
    /\ asked
    /\ asked' = FALSE
    /\ sent' = Send("client", "info")
    /\ UNCHANGED <<fd_socket, accepted, running, mRecvTimeoutCounter, listening, sleeping,
                   mHeartbeatFlags, environment>>

-----------------------------------------------------------------------------
(* The program at one end, the link, and time *)

ThreadsUnchanged == UNCHANGED <<fd_socket, accepted, mRecvTimeoutCounter, listening,
                                mHeartbeatFlags, asked>>

\* One end goes, in order: its socket is shut down by Release or with its
\* process.
Leave(s) ==
    /\ running[s]
    /\ running' = [running EXCEPT ![s] = FALSE]
    /\ sent' = Sent(s, "end", [sent EXCEPT ![s] = <<>>])
    /\ excused' = TRUE
    /\ UNCHANGED <<sleeping, link, outage>>
    /\ ThreadsUnchanged

\* What is due in this second has been done.
Quiet ==
    /\ accepted # "waits"
    /\ sleeping # "awake"
    /\ \A s \in Sides : running[s] => ~listening[s]
    /\ link = "up" => \A s \in Sides : ~Readable(s)

\* An outage begins when what an earlier one held up has arrived.
GoDown ==
    /\ link = "up"
    /\ Quiet
    /\ link' = "down"
    /\ outage' = 0
    /\ UNCHANGED <<running, sleeping, sent, excused>>
    /\ ThreadsUnchanged

ComeUp ==
    /\ link = "down"
    /\ link' = "up"
    /\ outage' = 0
    /\ UNCHANGED <<running, sleeping, sent, excused>>
    /\ ThreadsUnchanged

\* A phone out of reach, a cable pulled: what is on its way is lost.
Cut ==
    /\ link # "cut"
    /\ link' = "cut"
    /\ outage' = 0
    /\ excused' = TRUE
    /\ sent' = [s \in Sides |-> <<>>]
    /\ UNCHANGED <<running, sleeping>>
    /\ ThreadsUnchanged

Second ==
    /\ Quiet
    /\ link = "down" => outage < MaxOutage
    /\ outage' = IF link = "down" THEN outage + 1 ELSE outage
    /\ listening' = [s \in Sides |-> running[s]]
    /\ sleeping' = IF sleeping = "sleep" THEN "awake" ELSE sleeping
    /\ UNCHANGED <<fd_socket, accepted, running, mRecvTimeoutCounter, mHeartbeatFlags,
                   asked, sent, link, excused>>

-----------------------------------------------------------------------------

Init ==
    /\ fd_socket = FALSE
    /\ accepted = "no"
    /\ running = [s \in Sides |-> FALSE]
    /\ mRecvTimeoutCounter = [s \in Sides |-> 0]
    /\ listening = [s \in Sides |-> FALSE]
    /\ sleeping = "ended"
    /\ mHeartbeatFlags = FALSE
    /\ asked = FALSE
    /\ sent = [s \in Sides |-> <<>>]
    /\ link = "up"
    /\ outage = 0
    /\ excused = FALSE

Next ==
    \/ Connect \/ Accept \/ Leak
    \/ Heartbeat \/ ClientInfo
    \/ \E s \in Sides : Receive(s) \/ ReceiveEnd(s) \/ RecvTimeout(s) \/ Leave(s)
    \/ GoDown \/ ComeUp \/ Cut \/ Second

Spec == Init /\ [][Next]_vars

\* Threads run, seconds go by, an outage ends after MaxOutage seconds, and the
\* upper layer answers what it is asked.
Fairness ==
    /\ WF_vars(Accept \/ Leak)
    /\ WF_vars(Heartbeat)
    /\ WF_vars(ClientInfo)
    /\ \A s \in Sides : WF_vars(Receive(s) \/ ReceiveEnd(s) \/ RecvTimeout(s))
    /\ WF_vars(Second)
    /\ WF_vars(outage = MaxOutage /\ ComeUp)

LiveSpec == Spec /\ Fairness

-----------------------------------------------------------------------------
(* Properties *)

\* An answer never travels to the server, nor anything but answers and
\* TYPE_UDP_SUPPORT to the client; and what waits for an end that listens is
\* no more than an outage holds back.
TypeOK ==
    /\ fd_socket \in BOOLEAN
    /\ accepted \in {"no", "waits", "yes", "leaked", "refused"}
    /\ running \in [Sides -> BOOLEAN]
    /\ mRecvTimeoutCounter \in [Sides -> 0 .. Limit]
    /\ listening \in [Sides -> BOOLEAN]
    /\ sleeping \in {"ended", "sleep", "awake"}
    /\ mHeartbeatFlags \in BOOLEAN /\ asked \in BOOLEAN /\ excused \in BOOLEAN
    /\ sent["server"] \in Seq({"heartbeat", "info", "end"})
    /\ sent["client"] \in Seq({"reply", "replyAsk", "udpSupport", "end"})
    /\ \A s \in Sides : Len(sent[s]) <= MaxOutage + 4
    /\ link \in {"up", "down", "cut"}
    /\ outage \in 0 .. MaxOutage

\* While both programs run and the link is not cut, no end takes the other for
\* gone, whatever the outages of up to MaxOutage seconds (DoRecvLoop,
\* DoHeartbeatLoop).  It is about the code's limit, 15 at both ends: a TV that
\* gave up after 5 would lose the connection in an outage of 5 seconds.
LiveKept == accepted = "yes" /\ ~excused => \A s \in Sides : running[s]

\* An end whose receive loop is over, by silence or because the other has left,
\* is missed by the other end, though its socket stays open and says nothing;
\* and so is a server that never took the connection (TcpClient.cpp:645).
EndNoticed ==
    /\ (accepted = "yes" /\ ~running["client"]) ~> ~running["server"]
    /\ (accepted \in {"yes", "leaked", "refused"} /\ ~running["server"]) ~> ~running["client"]

\* The server learns who the client is: it asks with each heartbeat until it
\* does (HBFLAG_CLIENTINFO).
InfoArrives == mHeartbeatFlags ~> (~mHeartbeatFlags \/ ~running["server"])
=============================================================================
