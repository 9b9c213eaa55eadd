------------------------------ MODULE TcpServer ------------------------------
(***************************************************************************)
(* Tcp (socket/Tcp.{h,cpp}) and the part of TcpClient that shares its      *)
(* state: the table of clients, which the listening thread fills and       *)
(* clears, and the number and the list of the clients that mirror, which   *)
(* every client's receive thread changes and every client's two report     *)
(* threads read, with no lock around any of it.                            *)
(*                                                                         *)
(* When a client starts or stops mirroring, the others notice that their   *)
(* layout number mNum no longer equals ClientPlayernum, ask their phones   *)
(* for another picture size and wait for the TYPE_MIRROR_RESOLUTION that   *)
(* comes with it.  The phone is the environment.                           *)
(***************************************************************************)
EXTENDS Integers, Sequences, SequencesExt, FiniteSets

CONSTANTS
    Ips,            \* addresses phones connect from
    NoAddress,      \* what the stack holds before accept() stores an address
    MaxClients,     \* MAX_CLIENTS (12)
    Streams,        \* report threads of a client: audio and video
    NoClient,       \* nullptr in the table
    StartValues,    \* what Clientnum and ClientPlayernum, which no constructor
                    \* sets, can hold in the memory Tcp is created in
    Faults,         \* "leave": a phone vanishes while it mirrors, and may
                    \* connect again;
                    \* "stop": a phone that does not mirror sends a stop;
                    \* "accept": accept() returns -1
    MaxCount        \* bound on Clientnum, ClientPlayernum and the list, which
                    \* faults let drift

ASSUME ServerAssumption == /\ MaxClients \in Nat \ {0}
                           /\ StartValues \subseteq Int
                           /\ Faults \subseteq {"leave", "stop", "accept"}
                           /\ MaxCount \in Nat

Addresses == Ips \cup {NoAddress}
Slots == 0 .. MaxClients - 1

VARIABLES
    addrClient,         \* the address accept() stored last, in doStartListen
    clients,            \* Tcp::clients
    Clientnum,          \* Tcp::Clientnum
    ClientPlayernum,    \* Tcp::ClientPlayernum
    clientpalyerList    \* Tcp::clientpalyerList

vars == <<addrClient, clients, Clientnum, ClientPlayernum, clientpalyerList>>

-----------------------------------------------------------------------------
(* One client *)

\* doing is where the receive thread is: in recv(), or inside the handler of
\* a start or of a stop; seen is the ClientPlayernum it has loaded.  asking
\* holds the report threads that have found the layout out of date and not
\* acted on it yet; due says that a quality request is not answered by the
\* phone.  mNum is garbage until the first start, and not read before.  fd says
\* whether fd_socket is the descriptor of a connection (IsValid) or -1.
Client ==
    [ip : Addresses, fd : BOOLEAN, running : BOOLEAN, working : BOOLEAN,
     mediaDecoderReady : BOOLEAN, mNum : Int, doing : {"recv", "start", "finish", "stop"}, seen : Int,
     asking : SUBSET Streams, due : BOOLEAN]

NewClient(a, fd) ==
    [ip |-> a, fd |-> fd, running |-> TRUE, working |-> FALSE, mediaDecoderReady |-> FALSE,
     mNum |-> 0, doing |-> "recv", seen |-> 0, asking |-> {}, due |-> FALSE]

\* nullptr is no client.
ASSUME NoClientAssumption == NoClient \notin Client

Connected == { i \in Slots : clients[i] # NoClient }
Mirroring == { i \in Connected : clients[i].working }

\* Client i's receive thread, between two messages.  recv() from -1 fails.
Receiving(i) == clients[i].running /\ clients[i].doing = "recv"

-----------------------------------------------------------------------------
(* The listening thread *)

\* Mutant: a client that comes back does not replace its old connection.
StaleSlotsInvalid(a) == { i \in Connected : ~clients[i].fd }

\* FreeClient: the slots whose client is deleted.  A client whose receive
\* thread has ended stays until its own address connects again: only Release
\* clears fd_socket, so that IsValid() is false of a client made with -1 only.
StaleSlots(a) == { i \in Connected : ~clients[i].fd \/ clients[i].ip = a }

\* Release counts a deleted client off Clientnum at its end, which it does not
\* reach for a client without a descriptor.
Released(gone) == { i \in gone : clients[i].fd }

\* What follows accept(): the clients that must go are deleted (the threads of
\* those released are joined first), and the first free slot gets the new
\* client.  Without a free slot the connection is neither kept nor closed.
Replace(a, fd) ==
    LET gone == StaleSlots(a)
        free == { i \in Slots : clients[i] = NoClient \/ i \in gone }
        kept == [i \in Slots |-> IF i \in gone THEN NoClient ELSE clients[i]]
        left == Clientnum - Cardinality(Released(gone))
    IN  /\ \A i \in gone : clients[i].doing = "recv" /\ clients[i].asking = {}
        /\ IF free = {}
           THEN clients' = kept /\ Clientnum' = left
           ELSE \E i \in free :
                  /\ \A j \in free : i <= j
                  /\ clients' = [kept EXCEPT ![i] = NewClient(a, fd)]
                  /\ Clientnum' = left + 1
        /\ UNCHANGED <<ClientPlayernum, clientpalyerList>>

\* A connection from a.  The address is kept only where an accept() can fail,
\* which alone reads it again: a bound on the states.
Accept(a) ==
    /\ \A i \in StaleSlots(a) : ~clients[i].working \/ "leave" \in Faults
    /\ addrClient' = IF "accept" \in Faults THEN a ELSE addrClient
    /\ Replace(a, TRUE)

\* accept() fails, as it does without a descriptor left, and -1 is taken for
\* one, from the address of the connection before: its client is deleted,
\* whether it mirrors or not, and a client without a descriptor made instead.
AcceptFails ==
    /\ "accept" \in Faults
    /\ Clientnum < MaxCount
    /\ Replace(addrClient, FALSE)
    /\ UNCHANGED addrClient

-----------------------------------------------------------------------------
(* A client's receive thread *)

\* Mutant: a client that already mirrors is counted again.
StartAgain(i) ==
    /\ Receiving(i) /\ clients[i].fd
    /\ ClientPlayernum < MaxCount /\ Len(clientpalyerList) < MaxCount
    /\ clients' = [clients EXCEPT ![i].doing = "start", ![i].seen = ClientPlayernum]
    /\ UNCHANGED <<addrClient, Clientnum, ClientPlayernum, clientpalyerList>>

\* TYPE_MIRROR_RESOLUTION from a client that does not mirror: ClientPlayernum
\* is loaded,
Start(i) ==
    /\ Receiving(i) /\ clients[i].fd
    /\ ~clients[i].working
    /\ ClientPlayernum < MaxCount /\ Len(clientpalyerList) < MaxCount
    /\ clients' = [clients EXCEPT ![i].doing = "start", ![i].seen = ClientPlayernum]
    /\ UNCHANGED <<addrClient, Clientnum, ClientPlayernum, clientpalyerList>>

\* stored one higher, the phone told its picture size, the list extended,
StartCount(i) ==
    /\ clients[i].doing = "start"
    /\ ClientPlayernum' = clients[i].seen + 1
    /\ clientpalyerList' = Append(clientpalyerList, i)
    /\ clients' = [clients EXCEPT ![i].doing = "finish", ![i].seen = 0]
    /\ UNCHANGED <<addrClient, Clientnum>>

\* and ClientPlayernum read once more for the layout.
StartFinish(i) ==
    /\ clients[i].doing = "finish"
    /\ clients' = [clients EXCEPT ![i].doing = "recv", ![i].mNum = ClientPlayernum,
                                  ![i].working = TRUE, ![i].mediaDecoderReady = TRUE]
    /\ UNCHANGED <<addrClient, Clientnum, ClientPlayernum, clientpalyerList>>

\* Mutant: the layout number is not refreshed.
RestartOnly(i) ==
    /\ Receiving(i)
    /\ clients[i].working
    /\ clients' = [clients EXCEPT ![i].mediaDecoderReady = TRUE, ![i].due = FALSE]
    /\ UNCHANGED <<addrClient, Clientnum, ClientPlayernum, clientpalyerList>>

\* TYPE_MIRROR_RESOLUTION from a client that mirrors: the picture size of its
\* stream changed, be it because it was asked to.
Restart(i) ==
    /\ Receiving(i)
    /\ clients[i].working
    /\ clients' = [clients EXCEPT ![i].mNum = ClientPlayernum,
                                  ![i].mediaDecoderReady = TRUE, ![i].due = FALSE]
    /\ UNCHANGED <<addrClient, Clientnum, ClientPlayernum, clientpalyerList>>

\* Mutant: the entry at the front of the list goes, whosever it is.
StopFirst(i) ==
    /\ Receiving(i) /\ clients[i].fd
    /\ clients[i].working \/ "stop" \in Faults
    /\ clients' = [clients EXCEPT ![i].doing = "stop", ![i].seen = ClientPlayernum,
                                  ![i].working = FALSE, ![i].mediaDecoderReady = FALSE,
                                  ![i].due = FALSE]
    /\ clientpalyerList' = IF clientpalyerList = <<>> THEN <<>> ELSE Tail(clientpalyerList)
    /\ ClientPlayernum > -MaxCount
    /\ UNCHANGED <<addrClient, Clientnum, ClientPlayernum>>

\* TYPE_MIRROR_STOP, StopCtrl: out of the list, ClientPlayernum loaded,
Stop(i) ==
    /\ Receiving(i) /\ clients[i].fd
    /\ clients[i].working \/ "stop" \in Faults
    /\ clients' = [clients EXCEPT ![i].doing = "stop", ![i].seen = ClientPlayernum,
                                  ![i].working = FALSE, ![i].mediaDecoderReady = FALSE,
                                  ![i].due = FALSE]
    /\ clientpalyerList' = RemoveFirst(clientpalyerList, i)
    /\ ClientPlayernum > -MaxCount
    /\ UNCHANGED <<addrClient, Clientnum, ClientPlayernum>>

\* and stored one lower, whether or not the client was counted.
StopCount(i) ==
    /\ clients[i].doing = "stop"
    /\ ClientPlayernum' = clients[i].seen - 1
    /\ clients' = [clients EXCEPT ![i].doing = "recv", ![i].seen = 0,
                                  ![i].mNum = ClientPlayernum']
    /\ UNCHANGED <<addrClient, Clientnum, clientpalyerList>>

\* The connection ends, by the phone or by 15 seconds of silence.  Nothing
\* but running changes.
Leave(i) ==
    /\ Receiving(i)
    /\ ~clients[i].working \/ "leave" \in Faults
    /\ clients' = [clients EXCEPT ![i].running = FALSE]
    /\ UNCHANGED <<addrClient, Clientnum, ClientPlayernum, clientpalyerList>>

-----------------------------------------------------------------------------
(* A client's report threads *)

\* DoThreadReportData: the layout is out of date,
Look(i, s) ==
    /\ s \notin clients[i].asking
    /\ clients[i].running
    /\ clients[i].working
    /\ clients[i].mNum # ClientPlayernum
    /\ clients' = [clients EXCEPT ![i].asking = @ \cup {s}]
    /\ UNCHANGED <<addrClient, Clientnum, ClientPlayernum, clientpalyerList>>

\* Mutant: the decoder is stopped and the phone not asked.
AskNobody(i, s) ==
    /\ s \in clients[i].asking
    /\ clients' = [clients EXCEPT ![i].asking = @ \ {s}, ![i].mediaDecoderReady = FALSE]
    /\ UNCHANGED <<addrClient, Clientnum, ClientPlayernum, clientpalyerList>>

\* so decoding waits, the phone is asked for the new size (Send refuses when
\* the connection has ended, and a phone that has stopped does not answer)
\* and what is queued is thrown away.
Ask(i, s) ==
    /\ s \in clients[i].asking
    /\ clients' = [clients EXCEPT ![i].asking = @ \ {s}, ![i].mediaDecoderReady = FALSE,
                                  ![i].due = clients[i].running /\ clients[i].working]
    /\ UNCHANGED <<addrClient, Clientnum, ClientPlayernum, clientpalyerList>>

-----------------------------------------------------------------------------

Init ==
    /\ addrClient = NoAddress
    /\ clients = [i \in Slots |-> NoClient]
    /\ Clientnum \in StartValues
    /\ ClientPlayernum \in StartValues
    /\ clientpalyerList = <<>>

RecvStep(i) ==
    Start(i) \/ StartCount(i) \/ StartFinish(i) \/ Restart(i) \/ Stop(i)
    \/ StopCount(i) \/ Leave(i)

Next ==
    \/ \E a \in Ips : Accept(a)
    \/ AcceptFails
    \/ \E i \in Connected : RecvStep(i)
    \/ \E i \in Connected, s \in Streams : Look(i, s) \/ Ask(i, s)

Spec == Init /\ [][Next]_vars

\* Every thread gets to run, and a phone answers a quality request it got
\* while it mirrors with the resolution it changes to.
Fairness ==
    \A i \in Slots :
        /\ WF_vars(i \in Connected /\ (StartCount(i) \/ StartFinish(i) \/ StopCount(i)))
        /\ WF_vars(i \in Connected /\ clients[i].due /\ Restart(i))
        /\ \A s \in Streams :
             /\ WF_vars(i \in Connected /\ Look(i, s))
             /\ WF_vars(i \in Connected /\ Ask(i, s))

LiveSpec == Spec /\ Fairness

-----------------------------------------------------------------------------
(* Properties *)

\* A client inside the handler of a start or of a stop is not yet, or no
\* longer, working, only a working client's phone owes an answer, and a client
\* without a descriptor hears of neither.
TypeOK ==
    /\ addrClient \in Addresses
    /\ clients \in [Slots -> Client \cup {NoClient}]
    /\ \A i \in Connected :
         /\ clients[i].doing # "recv" => ~clients[i].working
         /\ clients[i].due => clients[i].working
         /\ clients[i].working \/ clients[i].doing # "recv" => clients[i].fd
    /\ Clientnum \in Int
    /\ ClientPlayernum \in Int
    /\ clientpalyerList \in Seq(Slots)

\* A client that mirrors is in the list that gives it its place on the screen,
\* whatever other clients and the entries of vanished ones do to it
\* (DoRecvMessage, StopCtrl).  Nothing of the kind holds of ClientPlayernum.
MirrorsListed == Mirroring \subseteq ToSet(clientpalyerList)

\* A phone that connects again replaces its old connection, and a client
\* without a descriptor does not outlive the next accept() (FreeClient).
OneClientPerPhone ==
    /\ \A i, j \in Connected : clients[i].ip = clients[j].ip => i = j
    /\ \A i, j \in Connected : ~clients[i].fd /\ ~clients[j].fd => i = j

\* Clientnum never falls below the number of clients, so that the Release that
\* finds it at 1, and destroys mutex_YUVSplicing, is that of the last one,
\* though not every last one finds it so (doStartListen, Release).
LastOneDestroys == Clientnum >= Cardinality(Connected)

\* What the listening thread keeps, whatever accept() returns.
TableSound == OneClientPerPhone /\ LastOneDestroys

\* A client whose layout is for another number of mirrors does not stay so:
\* its phone is asked and answers (DoThreadReportData).
LayoutFollows ==
    \A i \in Slots :
        (i \in Connected /\ clients[i].running /\ clients[i].working
            /\ clients[i].mNum # ClientPlayernum)
        ~> (i \in Connected => \/ ~clients[i].running
                               \/ ~clients[i].working
                               \/ clients[i].mNum = ClientPlayernum)

\* Decoding stopped for a new layout goes on again: no order of the check in
\* the report thread and the answer in the receive thread loses the answer.
DecodingResumes ==
    \A i \in Slots :
        (i \in Connected /\ clients[i].running /\ clients[i].working
            /\ ~clients[i].mediaDecoderReady)
        ~> (i \in Connected => \/ ~clients[i].running
                               \/ ~clients[i].working
                               \/ clients[i].mediaDecoderReady)
=============================================================================
