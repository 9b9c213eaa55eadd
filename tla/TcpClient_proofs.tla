-------------------------- MODULE TcpClient_proofs --------------------------
(***************************************************************************)
(* What TLAPS proves of a TcpClient, for every value of the constants: of  *)
(* its heartbeats (ClientLink), for any number of timeouts that end a      *)
(* connection and for outages of any length, and of its messages as a      *)
(* stream (TcpStream), for slices, buffers and messages of any size.       *)
(***************************************************************************)
EXTENDS ClientLink, TcpStream, SequenceTheorems, FiniteSetTheorems, WellFoundedInduction,
        TLAPS

-----------------------------------------------------------------------------
(* What is on its way                                                        *)

ToServer == {"heartbeat", "info", "end"}
ToClient == {"reply", "replyAsk", "udpSupport", "end"}

Queues == [Sides -> Seq(Messages)]

\* Sent puts a message behind the others of the other end, and of nobody else,
\* if that end reads and the link is not cut.
LEMMA SentIs ==
    ASSUME NEW s \in Sides, NEW m \in Messages, NEW on \in Queues
    PROVE  /\ Sent(s, m, on) \in Queues
           /\ Sent(s, m, on)[s] = on[s]
           /\ running[Other(s)] /\ link # "cut"
                => Sent(s, m, on)[Other(s)] = Append(on[Other(s)], m)
           /\ ~(running[Other(s)] /\ link # "cut") => Sent(s, m, on) = on
<1>1. Other(s) \in Sides /\ Other(s) # s
  BY DEF Sides, Other
<1>2. Append(on[Other(s)], m) \in Seq(Messages)
  BY <1>1 DEF Queues
<1> QED
  BY <1>1, <1>2 DEF Sent, Queues

\* The same of Send.
LEMMA SendIs ==
    ASSUME NEW s \in Sides, NEW m \in Messages, sent \in Queues
    PROVE  /\ Send(s, m) \in Queues
           /\ Send(s, m)[s] = sent[s]
           /\ running[s] /\ running[Other(s)] /\ link # "cut"
                => Send(s, m)[Other(s)] = Append(sent[Other(s)], m)
           /\ ~(running[s] /\ running[Other(s)] /\ link # "cut") => Send(s, m) = sent
BY SentIs DEF Send

-----------------------------------------------------------------------------
(* TypeOK *)

One(b) == IF b THEN 1 ELSE 0

\* The messages on their way and the steps that will send one more.
Load == Len(sent["server"]) + Len(sent["client"]) + One(asked) + One(sleeping = "awake")

\* A second adds one heartbeat, and each end may add its "end" at last.
LoadBound == (IF link = "down" THEN 1 + outage ELSE MaxOutage + 2)
             + (IF \A s \in Sides : running[s] THEN 0 ELSE 1)

LinkTypes ==
    /\ fd_socket \in BOOLEAN
    /\ accepted \in {"no", "waits", "yes", "leaked", "refused"}
    /\ running \in [Sides -> BOOLEAN]
    /\ mRecvTimeoutCounter \in [Sides -> 0 .. Limit]
    /\ listening \in [Sides -> BOOLEAN]
    /\ sleeping \in {"ended", "sleep", "awake"}
    /\ mHeartbeatFlags \in BOOLEAN /\ asked \in BOOLEAN /\ excused \in BOOLEAN
    /\ sent \in Queues
    /\ sent["server"] \in Seq(ToServer)
    /\ sent["client"] \in Seq(ToClient)
    /\ link \in {"up", "down", "cut"}
    /\ outage \in 0 .. MaxOutage

\* Until the host has taken the connection nothing happens on it.
Early ==
    /\ fd_socket = (accepted # "no")
    /\ accepted = "no" => sleeping = "ended" /\ ~running["client"]
    /\ accepted = "waits" => sleeping = "sleep"
    /\ accepted \in {"no", "waits"} =>
        /\ ~running["server"] /\ ~asked
        /\ \A s \in Sides : mRecvTimeoutCounter[s] = 0 /\ ~listening[s] /\ sent[s] = <<>>

\* An end that runs has not yet counted to Limit, and nothing is on its way to
\* one that does not, or over a link that is cut.
Silence ==
    /\ \A s \in Sides : running[s] => mRecvTimeoutCounter[s] < Limit
    /\ \A s \in Sides : ~running[s] \/ link = "cut" => sent[s] = <<>>

LinkInv == LinkTypes /\ Early /\ Silence /\ Load <= LoadBound

\* What is due being done, nothing is on its way over a link that is up.
LEMMA QuietIsEmpty ==
    ASSUME LinkTypes, Silence, Quiet
    PROVE  link # "down" => \A s \in Sides : sent[s] = <<>>
BY DEF LinkTypes, Silence, Quiet, Readable

\* Nothing has happened on the connection yet.
LEMMA InitLink == Init => LinkInv
<1> SUFFICES ASSUME Init PROVE LinkInv
  OBVIOUS
<1> USE LinkAssumption
<1>1. LinkTypes
  <2>1. <<>> \in Seq(Messages) /\ <<>> \in Seq(ToServer) /\ <<>> \in Seq(ToClient)
    OBVIOUS
  <2>2. sent = [s \in Sides |-> <<>>] /\ "server" \in Sides /\ "client" \in Sides
    BY DEF Init, Sides
  <2>3. sent \in Queues /\ sent["server"] = <<>> /\ sent["client"] = <<>>
    BY <2>1, <2>2 DEF Queues
  <2>4. 0 \in 0 .. Limit /\ outage \in 0 .. MaxOutage
    BY DEF Init
  <2>5. mRecvTimeoutCounter \in [Sides -> 0 .. Limit]
    BY <2>4, Zenon DEF Init
  <2> QED
    BY <2>1, <2>3, <2>4, <2>5 DEF Init, LinkTypes
<1>2. Early /\ Silence
  BY DEF Init, Early, Silence, Sides
<1>3. Load <= LoadBound
  BY DEF Init, Load, LoadBound, One, Sides
<1> QED
  BY <1>1, <1>2, <1>3 DEF LinkInv
\* What the server does with a message: it takes it from the front, and
\* answers a heartbeat of a client that reads.
LEMMA ReceiveAtServer ==
    ASSUME LinkTypes, Receive("server")
    PROVE  /\ running["server"] /\ link = "up" /\ sent["server"] # <<>>
           /\ sent' \in Queues
           /\ sent'["server"] = Tail(sent["server"])
           /\ Head(sent["server"]) = "heartbeat" /\ running["client"] =>
                \E m \in {"reply", "replyAsk"} :
                    sent'["client"] = Append(sent["client"], m)
           /\ ~(Head(sent["server"]) = "heartbeat" /\ running["client"]) =>
                sent'["client"] = sent["client"]
           /\ asked' = asked
<1> DEFINE m == Head(sent["server"])
           rest == [sent EXCEPT !["server"] = Tail(@)]
<1>1. /\ "server" \in Sides /\ "client" \in Sides /\ Other("server") = "client"
      /\ "client" # "server"
  BY DEF Sides, Other
<1>2. running["server"] /\ link = "up" /\ sent["server"] # <<>>
  BY DEF Receive, Readable
<1>3. m \in ToServer /\ m # "replyAsk"
  BY <1>2 DEF LinkTypes, ToServer
<1>4. /\ rest \in Queues /\ rest["server"] = Tail(sent["server"])
      /\ rest["client"] = sent["client"]
  <2>1. sent["server"] \in Seq(Messages) /\ sent \in Queues
    BY <1>1 DEF LinkTypes, Queues
  <2>2. Tail(sent["server"]) \in Seq(Messages)
    BY <2>1, <1>2
  <2> QED
    BY <1>1, <2>1, <2>2 DEF Queues
<1>5. asked' = asked
  BY <1>3 DEF Receive, LinkTypes
<1>6. Reply("server") \in {"reply", "replyAsk"} /\ Reply("server") \in Messages
  BY DEF Reply, Messages
<1>7. /\ m = "heartbeat" => sent' = Sent("server", Reply("server"), rest)
      /\ m # "heartbeat" => sent' = rest
  BY DEF Receive, Answered
<1>8. /\ Sent("server", Reply("server"), rest) \in Queues
      /\ Sent("server", Reply("server"), rest)["server"] = rest["server"]
      /\ running["client"] => Sent("server", Reply("server"), rest)["client"]
                                 = Append(rest["client"], Reply("server"))
      /\ ~running["client"] => Sent("server", Reply("server"), rest) = rest
  <2> HIDE DEF rest
  <2>1. \A a \in Messages, on \in Queues :
          /\ Sent("server", a, on) \in Queues
          /\ Sent("server", a, on)["server"] = on["server"]
          /\ running[Other("server")] /\ link # "cut"
               => Sent("server", a, on)[Other("server")] = Append(on[Other("server")], a)
          /\ ~(running[Other("server")] /\ link # "cut") => Sent("server", a, on) = on
    BY <1>1, SentIs
  <2>2. link # "cut"
    BY <1>2
  <2> QED
    BY <1>1, <1>4, <1>6, <2>1, <2>2
<1> HIDE DEF m, rest
<1>9. /\ sent' \in Queues
      /\ sent'["server"] = rest["server"]
      /\ m = "heartbeat" /\ running["client"] =>
            sent'["client"] = Append(rest["client"], Reply("server"))
      /\ ~(m = "heartbeat" /\ running["client"]) => sent'["client"] = rest["client"]
  BY <1>4, <1>7, <1>8
<1> QED
  BY <1>2, <1>4, <1>5, <1>6, <1>9 DEF m

\* What the client does with one: it takes it from the front, and may owe an
\* answer of its own.
LEMMA ReceiveAtClient ==
    ASSUME LinkTypes, Receive("client")
    PROVE  /\ running["client"] /\ link = "up" /\ sent["client"] # <<>>
           /\ sent' \in Queues
           /\ sent'["client"] = Tail(sent["client"])
           /\ sent'["server"] = sent["server"]
           /\ asked' \in BOOLEAN
<1>1. "server" \in Sides /\ "client" \in Sides
  BY DEF Sides
<1>2. running["client"] /\ link = "up" /\ sent["client"] # <<>>
  BY DEF Receive, Readable
<1>3. Head(sent["client"]) # "heartbeat"
  BY <1>2 DEF LinkTypes, ToClient
<1>4. sent' = [sent EXCEPT !["client"] = Tail(@)] /\ asked' \in BOOLEAN
  BY <1>3 DEF Receive, Answered, LinkTypes
<1>5. sent["client"] \in Seq(Messages) /\ sent \in Queues
  BY <1>1 DEF LinkTypes, Queues
<1>6. Tail(sent["client"]) \in Seq(Messages)
  BY <1>2, <1>5
<1> QED
  BY <1>1, <1>2, <1>4, <1>5, <1>6 DEF Queues
\* A message of the client's is one that goes to the server, added once.
LEMMA ClientSends ==
    ASSUME LinkTypes, NEW m \in {"heartbeat", "info"}, sent' = Send("client", m)
    PROVE  /\ sent' \in Queues
           /\ sent'["client"] = sent["client"]
           /\ running["client"] /\ running["server"] /\ link # "cut"
                => sent'["server"] = Append(sent["server"], m)
           /\ ~(running["client"] /\ running["server"] /\ link # "cut") => sent' = sent
<1>1. m \in Messages /\ "client" \in Sides /\ Other("client") = "server"
  BY DEF Messages, Sides, Other
<1> QED
  BY <1>1, SendIs DEF LinkTypes

\* An end that leaves drops what it has not read and sends the end of its
\* stream.
LEMMA LeaveIs ==
    ASSUME LinkTypes, NEW s \in Sides, Leave(s)
    PROVE  /\ sent' \in Queues
           /\ running' = [running EXCEPT ![s] = FALSE]
           /\ sent'[s] = <<>>
           /\ running[Other(s)] /\ link # "cut"
                => sent'[Other(s)] = Append(sent[Other(s)], "end")
           /\ ~(running[Other(s)] /\ link # "cut") => sent'[Other(s)] = sent[Other(s)]
<1> DEFINE on == [sent EXCEPT ![s] = <<>>]
<1>1. "end" \in Messages /\ Other(s) \in Sides /\ Other(s) # s
  BY DEF Messages, Sides, Other
<1>2. <<>> \in Seq(Messages)
  OBVIOUS
<1>3. on \in Queues /\ on[s] = <<>> /\ on[Other(s)] = sent[Other(s)]
  BY <1>1, <1>2 DEF LinkTypes, Queues
<1>4. sent' = Sent(s, "end", on) /\ running' = [running EXCEPT ![s] = FALSE]
  BY DEF Leave
<1> HIDE DEF on
<1> QED
  BY <1>1, <1>3, <1>4, SentIs

\* An end whose loop is over reads no more.
LEMMA EndIs ==
    ASSUME LinkTypes, NEW s \in Sides,
           sent' = [sent EXCEPT ![s] = <<>>] \/ sent' = sent
    PROVE  /\ sent' \in Queues
           /\ sent'[Other(s)] = sent[Other(s)]
           /\ sent' = sent \/ sent'[s] = <<>>
<1>1. Other(s) \in Sides /\ Other(s) # s
  BY DEF Sides, Other
<1>2. <<>> \in Seq(Messages)
  OBVIOUS
<1> QED
  BY <1>1, <1>2 DEF LinkTypes, Queues

\* Each message stays one that goes where it goes, and what does not read has
\* nothing on its way to it.
LEMMA QueueStep ==
    ASSUME LinkInv, Next
    PROVE  /\ sent' \in Queues
           /\ sent'["server"] \in Seq(ToServer)
           /\ sent'["client"] \in Seq(ToClient)
           /\ \A s \in Sides : ~running'[s] \/ link' = "cut" => sent'[s] = <<>>
<1> DEFINE Goal == /\ sent' \in Queues
                   /\ sent'["server"] \in Seq(ToServer)
                   /\ sent'["client"] \in Seq(ToClient)
                   /\ \A s \in Sides : ~running'[s] \/ link' = "cut" => sent'[s] = <<>>
<1> SUFFICES Goal
  OBVIOUS
<1>1. /\ LinkTypes /\ Silence
      /\ Sides = {"client", "server"} /\ "client" # "server"
      /\ Other("client") = "server" /\ Other("server") = "client"
  BY DEF LinkInv, Sides, Other
<1>2. /\ sent \in Queues
      /\ sent["server"] \in Seq(ToServer) /\ sent["client"] \in Seq(ToClient)
      /\ running \in [Sides -> BOOLEAN]
      /\ \A s \in Sides : ~running[s] \/ link = "cut" => sent[s] = <<>>
  BY <1>1 DEF LinkTypes, Silence
<1>3. <<>> \in Seq(ToServer) /\ <<>> \in Seq(ToClient) /\ <<>> \in Seq(Messages)
  OBVIOUS
<1>4. CASE Connect
  <2>1. /\ sent' = sent /\ link' = link
        /\ running' = [running EXCEPT !["client"] = TRUE]
    BY <1>4 DEF Connect, environment
  <2> QED
    BY <1>1, <1>2, <2>1
<1>5. CASE Accept
  <2>1. /\ sent' = Sent("server", "udpSupport", sent) /\ link' = link
        /\ running' = [running EXCEPT !["server"] = TRUE]
    BY <1>5 DEF Accept, environment
  <2>2. "udpSupport" \in Messages /\ "udpSupport" \in ToClient
    BY DEF Messages, ToClient
  <2>3. /\ sent' \in Queues /\ sent'["server"] = sent["server"]
        /\ running["client"] /\ link # "cut"
             => sent'["client"] = Append(sent["client"], "udpSupport")
        /\ ~(running["client"] /\ link # "cut") => sent' = sent
    BY <1>1, <1>2, <2>1, <2>2, SentIs
  <2>4. Append(sent["client"], "udpSupport") \in Seq(ToClient)
    BY <1>2, <2>2
  <2>5. running'["server"] /\ running'["client"] = running["client"]
    BY <1>1, <1>2, <2>1
  <2>6. ~running'["client"] \/ link' = "cut" => sent' = sent
    BY <2>1, <2>3, <2>5
  <2> QED
    BY <1>1, <1>2, <2>1, <2>3, <2>4, <2>5, <2>6
<1>6. CASE Leak \/ GoDown \/ ComeUp \/ Second
  <2>1. sent' = sent /\ running' = running /\ (link' = "cut" => link = "cut")
    BY <1>6 DEF Leak, GoDown, ComeUp, Second, environment
  <2> QED
    BY <1>2, <2>1
<1>7. CASE Heartbeat \/ ClientInfo
  <2>1. PICK m \in {"heartbeat", "info"} : sent' = Send("client", m)
    BY <1>7 DEF Heartbeat, ClientInfo
  <2>2. running' = running /\ link' = link
    BY <1>7 DEF Heartbeat, ClientInfo, environment
  <2>3. m \in ToServer
    BY DEF ToServer
  <2>4. /\ sent' \in Queues /\ sent'["client"] = sent["client"]
        /\ running["client"] /\ running["server"] /\ link # "cut"
             => sent'["server"] = Append(sent["server"], m)
        /\ ~(running["client"] /\ running["server"] /\ link # "cut") => sent' = sent
    BY <1>1, <2>1, ClientSends
  <2>5. Append(sent["server"], m) \in Seq(ToServer)
    BY <1>2, <2>3
  <2>6. ~running'["server"] \/ link' = "cut" => sent' = sent
    BY <2>2, <2>4
  <2> QED
    BY <1>1, <1>2, <2>2, <2>4, <2>5, <2>6
<1>8. CASE Receive("server")
  <2>1. running' = running /\ link' = link
    BY <1>8 DEF Receive, environment
  <2>2. {"reply", "replyAsk"} \subseteq ToClient
    BY DEF ToClient
  <2>3. /\ link = "up" /\ sent["server"] # <<>> /\ sent' \in Queues
        /\ sent'["server"] = Tail(sent["server"])
        /\ \/ \E m \in {"reply", "replyAsk"} : /\ running["client"]
                                              /\ sent'["client"] = Append(sent["client"], m)
           \/ sent'["client"] = sent["client"]
    BY <1>1, <1>8, ReceiveAtServer
  <2>4. sent'["client"] \in Seq(ToClient)
    BY <1>2, <2>2, <2>3
  <2>5. sent'["server"] \in Seq(ToServer)
    BY <1>2, <2>3
  <2>6. running["server"]
    BY <1>8 DEF Receive, Readable
  <2>7. ~running["client"] => sent'["client"] = <<>>
    BY <1>1, <1>2, <2>3
  <2> QED
    BY <1>1, <1>2, <2>1, <2>3, <2>4, <2>5, <2>6, <2>7
<1>9. CASE Receive("client")
  <2>1. running' = running /\ link' = link
    BY <1>9 DEF Receive, environment
  <2>2. /\ running["client"] /\ link = "up" /\ sent["client"] # <<>> /\ sent' \in Queues
        /\ sent'["client"] = Tail(sent["client"]) /\ sent'["server"] = sent["server"]
    BY <1>1, <1>9, ReceiveAtClient
  <2> QED
    BY <1>1, <1>2, <2>1, <2>2
<1>10. ASSUME NEW s \in Sides, ReceiveEnd(s) \/ RecvTimeout(s) PROVE Goal
  <2>1. link' = link /\ \A e \in Sides \ {s} : running'[e] = running[e]
    BY <1>2, <1>10 DEF ReceiveEnd, RecvTimeout, environment
  <2>2. \/ sent' = [sent EXCEPT ![s] = <<>>]
        \/ running[s] /\ running'[s] /\ sent' = sent
    BY <1>10 DEF ReceiveEnd, RecvTimeout
  <2>3. CASE sent' = [sent EXCEPT ![s] = <<>>]
    <3>1. sent' \in Queues /\ sent'[s] = <<>> /\ \A e \in Sides \ {s} : sent'[e] = sent[e]
      BY <1>2, <1>3, <2>3 DEF Queues
    <3>2. sent'["server"] \in Seq(ToServer) /\ sent'["client"] \in Seq(ToClient)
      BY <1>1, <1>2, <1>3, <3>1
    <3>3. ASSUME NEW e \in Sides, ~running'[e] \/ link' = "cut" PROVE sent'[e] = <<>>
      BY <1>2, <2>1, <3>1, <3>3
    <3> QED
      BY <3>1, <3>2, <3>3
  <2>4. CASE running[s] /\ running'[s] /\ sent' = sent
    BY <1>2, <2>1, <2>4
  <2> QED
    BY <2>2, <2>3, <2>4
<1>11. ASSUME NEW s \in Sides, Leave(s) PROVE Goal
  <2>1. link' = link
    BY <1>11 DEF Leave
  <2>2. "end" \in ToServer /\ "end" \in ToClient
    BY DEF ToServer, ToClient
  <2>3. /\ sent' \in Queues /\ running' = [running EXCEPT ![s] = FALSE] /\ sent'[s] = <<>>
        /\ running[Other(s)] /\ link # "cut"
             => sent'[Other(s)] = Append(sent[Other(s)], "end")
        /\ ~(running[Other(s)] /\ link # "cut") => sent'[Other(s)] = sent[Other(s)]
    BY <1>1, <1>11, LeaveIs
  <2>4. /\ Append(sent["server"], "end") \in Seq(ToServer)
        /\ Append(sent["client"], "end") \in Seq(ToClient)
    BY <1>2, <2>2
  <2>5. sent'["server"] \in Seq(ToServer) /\ sent'["client"] \in Seq(ToClient)
    <3>1. CASE s = "server"
      BY <1>1, <1>2, <1>3, <2>3, <2>4, <3>1
    <3>2. CASE s = "client"
      BY <1>1, <1>2, <1>3, <2>3, <2>4, <3>2
    <3> QED
      BY <1>1, <3>1, <3>2
  <2>6. running'[Other(s)] = running[Other(s)] /\ Other(s) # s /\ Other(s) \in Sides
    BY <1>1, <1>2, <2>3
  <2>7. ~running'[Other(s)] \/ link' = "cut" => sent'[Other(s)] = <<>>
    BY <1>2, <2>1, <2>3, <2>6
  <2>8. \A e \in Sides : e = s \/ e = Other(s)
    BY <1>1
  <2> QED
    BY <2>3, <2>5, <2>7, <2>8
<1>12. CASE Cut
  <2>1. sent' = [s \in Sides |-> <<>>]
    BY <1>12 DEF Cut
  <2> QED
    BY <1>1, <1>3, <2>1 DEF Queues
<1> QED
  <2> HIDE DEF Goal
  <2>1. ASSUME NEW s \in Sides, Receive(s) PROVE Goal
    BY <1>1, <1>8, <1>9, <2>1 DEF Goal
  <2> QED
    BY <1>4, <1>5, <1>6, <1>7, <1>10, <1>11, <1>12, <2>1 DEF Next
\* Each variable keeps its type.
LEMMA TypesStep ==
    ASSUME LinkInv, Next
    PROVE  LinkTypes' /\ \A s \in Sides : running'[s] => mRecvTimeoutCounter'[s] < Limit
<1> USE LinkAssumption
<1> DEFINE Rest == /\ fd_socket' \in BOOLEAN
                   /\ accepted' \in {"no", "waits", "yes", "leaked", "refused"}
                   /\ running' \in [Sides -> BOOLEAN]
                   /\ listening' \in [Sides -> BOOLEAN]
                   /\ sleeping' \in {"ended", "sleep", "awake"}
                   /\ mHeartbeatFlags' \in BOOLEAN /\ asked' \in BOOLEAN
                   /\ excused' \in BOOLEAN
                   /\ link' \in {"up", "down", "cut"}
                   /\ outage' \in 0 .. MaxOutage
           Count == /\ mRecvTimeoutCounter' \in [Sides -> 0 .. Limit]
                    /\ \A s \in Sides : running'[s] => mRecvTimeoutCounter'[s] < Limit
           Good == LinkTypes' /\ \A s \in Sides : running'[s] => mRecvTimeoutCounter'[s] < Limit
<1> SUFFICES Good
  OBVIOUS
<1>1. /\ LinkTypes /\ Early /\ Silence
      /\ Sides = {"client", "server"} /\ "client" # "server"
  BY DEF LinkInv, Sides
<1>2. /\ running \in [Sides -> BOOLEAN] /\ mRecvTimeoutCounter \in [Sides -> 0 .. Limit]
      /\ \A s \in Sides : running[s] => mRecvTimeoutCounter[s] < Limit
      /\ accepted = "waits" => mRecvTimeoutCounter["server"] = 0
  BY <1>1 DEF LinkTypes, Early, Silence
<1>3. CASE Connect
  <2>1. 0 \in 0 .. Limit /\ 0 < Limit
    OBVIOUS
  <2>2. Rest
    BY <1>1, <1>3 DEF Connect, environment, LinkTypes
  <2>3. Count
    BY <1>1, <1>2, <1>3, <2>1 DEF Connect
  <2> QED
    BY <2>2, <2>3, QueueStep DEF LinkTypes
<1>4. CASE Accept
  <2>1. Rest
    BY <1>1, <1>4 DEF Accept, environment, LinkTypes
  <2>2. Count
    BY <1>1, <1>2, <1>4 DEF Accept
  <2> QED
    BY <2>1, <2>2, QueueStep DEF LinkTypes
<1>5. CASE Leak \/ Heartbeat \/ ClientInfo
  <2>1. Rest /\ running' = running /\ mRecvTimeoutCounter' = mRecvTimeoutCounter
    BY <1>1, <1>5 DEF Leak, Heartbeat, ClientInfo, environment, LinkTypes
  <2> QED
    BY <1>2, <2>1, QueueStep DEF LinkTypes
<1>6. ASSUME NEW s \in Sides, Receive(s) PROVE Rest /\ Count
  <2>1. 0 \in 0 .. Limit /\ 0 < Limit
    OBVIOUS
  <2>2. Rest
    BY <1>1, <1>6 DEF Receive, environment, LinkTypes
  <2>3. Count
    BY <1>2, <1>6, <2>1 DEF Receive, Reset
  <2> QED
    BY <2>2, <2>3
<1>7. ASSUME NEW s \in Sides, ReceiveEnd(s) PROVE Rest /\ Count
  <2>1. Rest
    BY <1>1, <1>7 DEF ReceiveEnd, environment, LinkTypes
  <2>2. Count
    BY <1>2, <1>7 DEF ReceiveEnd
  <2> QED
    BY <2>1, <2>2
<1>8. ASSUME NEW s \in Sides, RecvTimeout(s) PROVE Rest /\ Count
  <2>1. Rest
    BY <1>1, <1>8 DEF RecvTimeout, environment, LinkTypes
  <2>2. mRecvTimeoutCounter[s] < Limit /\ mRecvTimeoutCounter[s] \in Nat
    BY <1>2, <1>8 DEF RecvTimeout
  <2>3. mRecvTimeoutCounter' \in [Sides -> 0 .. Limit]
    BY <1>2, <1>8, <2>2 DEF RecvTimeout
  <2>4. /\ running'[s] => mRecvTimeoutCounter'[s] < Limit
        /\ \A e \in Sides \ {s} : /\ running'[e] = running[e]
                                 /\ mRecvTimeoutCounter'[e] = mRecvTimeoutCounter[e]
    BY <1>2, <1>8 DEF RecvTimeout
  <2> QED
    BY <1>2, <2>1, <2>3, <2>4
<1>9. ASSUME NEW s \in Sides, Leave(s) PROVE Rest /\ Count
  <2>1. Rest
    BY <1>1, <1>9 DEF Leave, ThreadsUnchanged, LinkTypes
  <2>2. Count
    BY <1>2, <1>9 DEF Leave, ThreadsUnchanged
  <2> QED
    BY <2>1, <2>2
<1>10. CASE GoDown \/ ComeUp \/ Cut
  <2>1. outage' = 0 /\ 0 \in 0 .. MaxOutage
    BY <1>10 DEF GoDown, ComeUp, Cut
  <2>2. /\ UNCHANGED <<running, sleeping, fd_socket, accepted, mRecvTimeoutCounter, listening,
                        mHeartbeatFlags, asked>>
        /\ link' \in {"up", "down", "cut"} /\ excused' \in {excused, TRUE}
    BY <1>10 DEF GoDown, ComeUp, Cut, ThreadsUnchanged
  <2>3. Rest
    BY <1>1, <2>1, <2>2 DEF LinkTypes
  <2> QED
    BY <1>2, <2>2, <2>3, QueueStep DEF LinkTypes
<1>11. CASE Second
  <2>1. Rest /\ running' = running /\ mRecvTimeoutCounter' = mRecvTimeoutCounter
    BY <1>1, <1>11 DEF Second, LinkTypes
  <2> QED
    BY <1>2, <2>1, QueueStep DEF LinkTypes
<1> HIDE DEF Rest, Count
<1>12. Rest /\ Count => Good
  BY QueueStep DEF LinkTypes, Rest, Count
<1>13. ASSUME NEW s \in Sides, Receive(s) \/ ReceiveEnd(s) \/ RecvTimeout(s) \/ Leave(s)
       PROVE  Good
  BY <1>6, <1>7, <1>8, <1>9, <1>12, <1>13
<1> HIDE DEF Good
<1> QED
  BY <1>3, <1>4, <1>5, <1>10, <1>11, <1>13 DEF Next

\* Nothing happens before the host has taken the connection.
LEMMA EarlyStep ==
    ASSUME LinkInv, Next
    PROVE  Early'
<1>1. /\ LinkTypes /\ Early /\ Silence
      /\ Sides = {"client", "server"} /\ "client" # "server"
  BY DEF LinkInv, Sides
<1>2. CASE accepted \notin {"no", "waits"}
  <2>1. /\ accepted' = accepted /\ fd_socket' = fd_socket
        \/ Connect
    BY <1>2 DEF Next, Accept, Leak, Heartbeat, ClientInfo, Receive, ReceiveEnd,
              RecvTimeout, Leave, GoDown, ComeUp, Cut, Second, ThreadsUnchanged
  <2>2. fd_socket
    BY <1>1, <1>2 DEF Early
  <2> QED
    BY <1>2, <2>1, <2>2, <1>1 DEF Early, Connect
<1>3. CASE accepted \in {"no", "waits"}
  <2>1. /\ ~running["server"] /\ ~asked /\ sleeping # "awake"
        /\ \A s \in Sides : mRecvTimeoutCounter[s] = 0 /\ ~listening[s] /\ sent[s] = <<>>
    BY <1>1, <1>3 DEF Early
  <2>2. ~Heartbeat /\ ~ClientInfo
    BY <2>1 DEF Heartbeat, ClientInfo
  <2>3. \A s \in Sides : ~Receive(s) /\ ~ReceiveEnd(s) /\ ~RecvTimeout(s)
    BY <1>3, <2>1 DEF Receive, ReceiveEnd, RecvTimeout, Readable
  <2>4. CASE Connect
    BY <1>1, <2>1, <2>4 DEF Connect, environment, Early, LinkTypes
  <2>5. CASE Accept \/ Leak
    BY <1>1, <1>3, <2>5 DEF Accept, Leak, Early
  <2>6. ASSUME NEW s \in Sides, Leave(s) PROVE Early'
    <3>1. s = "client" /\ running["client"]
      BY <1>1, <2>1, <2>6 DEF Leave
    <3>2. ~running[Other(s)] /\ Other(s) = "server"
      BY <2>1, <3>1 DEF Other
    <3>3. sent'[s] = <<>> /\ sent'["server"] = sent["server"]
      BY <1>1, <2>6, <3>2, LeaveIs
    <3> QED
      BY <1>1, <2>1, <2>6, <3>1, <3>3 DEF Leave, ThreadsUnchanged, Early, LinkTypes
  <2>7. CASE GoDown \/ ComeUp \/ Cut
    BY <1>1, <2>1, <2>7 DEF GoDown, ComeUp, Cut, ThreadsUnchanged, Early
  <2>8. CASE Second
    <3>1. accepted = "no" /\ ~running["client"] /\ sleeping = "ended"
      BY <1>1, <1>3, <2>8 DEF Second, Quiet, Early
    <3> QED
      BY <1>1, <2>1, <2>8, <3>1 DEF Second, Early
  <2> QED
    BY <2>2, <2>3, <2>4, <2>5, <2>6, <2>7, <2>8 DEF Next
<1> QED
  BY <1>2, <1>3

\* The load, with the two ends by name.
LEMMA LoadIs ==
    ASSUME LinkTypes
    PROVE  /\ Load = Len(sent["server"]) + Len(sent["client"])
                     + (IF asked THEN 1 ELSE 0) + (IF sleeping = "awake" THEN 1 ELSE 0)
           /\ Len(sent["server"]) \in Nat /\ Len(sent["client"]) \in Nat
           /\ LoadBound = (IF link = "down" THEN 1 + outage ELSE MaxOutage + 2)
                          + (IF running["client"] /\ running["server"] THEN 0 ELSE 1)
BY DEF LinkTypes, Load, One, LoadBound, Sides

\* What is on its way, and what will be sent, stays within what a link that is
\* down may have held back.
LEMMA LoadStep ==
    ASSUME LinkInv, Next
    PROVE  Load' <= LoadBound'
<1> USE LinkAssumption
<1> DEFINE v == Len(sent["server"])
           c == Len(sent["client"])
           vv == Len(sent'["server"])
           cc == Len(sent'["client"])
           a == IF asked THEN 1 ELSE 0
           aa == IF asked' THEN 1 ELSE 0
           h == IF sleeping = "awake" THEN 1 ELSE 0
           hh == IF sleeping' = "awake" THEN 1 ELSE 0
           d == IF link = "down" THEN 1 + outage ELSE MaxOutage + 2
           dd == IF link' = "down" THEN 1 + outage' ELSE MaxOutage + 2
           e == IF running["client"] /\ running["server"] THEN 0 ELSE 1
           ee == IF running'["client"] /\ running'["server"] THEN 0 ELSE 1
<1>1. /\ LinkTypes /\ Early /\ Silence /\ Load <= LoadBound
      /\ Sides = {"client", "server"} /\ "client" # "server"
      /\ Other("client") = "server" /\ Other("server") = "client"
  BY DEF LinkInv, Sides, Other
<1>2. LinkTypes'
  BY TypesStep
<1>3. /\ v \in Nat /\ c \in Nat /\ vv \in Nat /\ cc \in Nat
      /\ outage \in 0 .. MaxOutage /\ outage' \in 0 .. MaxOutage
      /\ d \in Nat /\ dd \in Nat
      /\ a \in 0 .. 1 /\ aa \in 0 .. 1 /\ h \in 0 .. 1 /\ hh \in 0 .. 1
      /\ e \in 0 .. 1 /\ ee \in 0 .. 1
      /\ d >= 1 /\ dd >= 1
  <2>1. v \in Nat /\ c \in Nat
    BY <1>1, LoadIs
  <2>2. sent'["server"] \in Seq(ToServer) /\ sent'["client"] \in Seq(ToClient)
    BY <1>2 DEF LinkTypes
  <2>3. vv \in Nat /\ cc \in Nat
    BY <2>2
  <2>4. outage \in 0 .. MaxOutage /\ outage' \in 0 .. MaxOutage
    BY <1>1, <1>2 DEF LinkTypes
  <2>5. d \in Nat /\ d >= 1
    BY <2>4
  <2>6. dd \in Nat /\ dd >= 1
    <3>1. /\ \A o \in 0 .. MaxOutage : 1 + o \in Nat /\ 1 + o >= 1
          /\ MaxOutage + 2 \in Nat /\ MaxOutage + 2 >= 1
      OBVIOUS
    <3> QED
      BY <2>4, <3>1, Zenon
  <2>7. /\ a \in 0 .. 1 /\ aa \in 0 .. 1 /\ h \in 0 .. 1 /\ hh \in 0 .. 1
        /\ e \in 0 .. 1 /\ ee \in 0 .. 1
    OBVIOUS
  <2> HIDE DEF v, c, vv, cc, a, aa, h, hh, d, dd, e, ee
  <2> QED
    BY <2>1, <2>3, <2>4, <2>5, <2>6, <2>7
<1>4. v + c + a + h <= d + e
  BY <1>1, LoadIs
<1>5. Load' = vv + cc + aa + hh /\ LoadBound' = dd + ee
  <2>1. LinkTypes' => /\ Load' = vv + cc + aa + hh
                  /\ LoadBound' = dd + ee
    BY DEF LinkTypes, Load, One, LoadBound, Sides
  <2> QED
    BY <1>2, <2>1
<1> SUFFICES vv + cc + aa + hh <= dd + ee
  BY <1>5
\* A step that leaves the link: no more is on its way than before, or as many
\* more as the bound has grown by.
<1>6. ASSUME link' = link, outage' = outage,
             vv + cc + aa + hh + e <= v + c + a + h + ee
      PROVE  vv + cc + aa + hh <= dd + ee
  <2>1. dd = d
    BY <1>6
  <2> HIDE DEF v, c, vv, cc, a, aa, h, hh, d, dd, e, ee
  <2> QED
    BY <1>3, <1>4, <1>6, <2>1
<1>7. running \in [Sides -> BOOLEAN]
  BY <1>1 DEF LinkTypes
<1>8. CASE Connect
  <2>1. /\ sent' = sent /\ asked' = asked /\ link' = link /\ outage' = outage
        /\ sleeping' = "sleep"
        /\ running' = [running EXCEPT !["client"] = TRUE] /\ ~running["server"]
    BY <1>1, <1>8 DEF Connect, environment, Early
  <2>2. vv = v /\ cc = c /\ aa = a /\ hh = 0 /\ ee = e
    BY <1>1, <1>7, <2>1
  <2> HIDE DEF v, c, vv, cc, a, aa, h, hh, e, ee
  <2> QED
    BY <1>3, <1>6, <2>1, <2>2
<1>9. CASE Accept
  <2>1. /\ sent["server"] = <<>> /\ sent["client"] = <<>> /\ ~asked /\ sleeping = "sleep"
    BY <1>1, <1>9 DEF Accept, Early
  <2>2. /\ asked' = asked /\ sleeping' = sleeping
        /\ sent' = Sent("server", "udpSupport", sent)
    BY <1>9 DEF Accept
  <2>3. "udpSupport" \in Messages /\ sent \in Queues
    BY <1>1 DEF Messages, LinkTypes
  <2>4. /\ sent'["server"] = <<>>
        /\ sent'["client"] = <<>> \/ sent'["client"] = Append(<<>>, "udpSupport")
    BY <1>1, <2>1, <2>2, <2>3, SentIs
  <2>5. Len(Append(<<>>, "udpSupport")) = 1 /\ Len(<<>>) = 0
    <3>1. <<>> \in Seq(Messages)
      OBVIOUS
    <3> QED
      BY <2>3, <3>1
  <2>6. vv = 0 /\ cc <= 1
    <3>1. vv = Len(<<>>) /\ (cc = Len(<<>>) \/ cc = Len(Append(<<>>, "udpSupport")))
      BY <2>4, Zenon
    <3> HIDE DEF vv, cc
    <3> QED
      BY <2>5, <3>1
  <2>7. aa = 0 /\ hh = 0
    BY <2>1, <2>2
  <2> HIDE DEF vv, cc, aa, hh, dd, ee
  <2> QED
    BY <1>3, <2>6, <2>7
<1>10. CASE Leak
  <2>1. UNCHANGED <<sent, asked, sleeping, link, outage, running>>
    BY <1>10 DEF Leak, environment
  <2>2. vv = v /\ cc = c /\ aa = a /\ hh = h /\ ee = e
    BY <2>1
  <2> HIDE DEF v, c, vv, cc, a, aa, h, hh, e, ee
  <2> QED
    BY <1>3, <1>6, <2>1, <2>2
<1>11. ASSUME NEW m \in {"heartbeat", "info"}, sent' = Send("client", m)
       PROVE  vv <= v + 1 /\ cc = c
  <2>1. \/ sent' = sent
        \/ sent'["client"] = sent["client"] /\ sent'["server"] = Append(sent["server"], m)
    BY <1>1, <1>11, ClientSends
  <2>2. Len(Append(sent["server"], m)) = v + 1
    BY <1>1 DEF LinkTypes
  <2> QED
    BY <1>3, <2>1, <2>2
<1>12. CASE Heartbeat
  <2>1. /\ UNCHANGED <<asked, link, outage, running>>
        /\ sent' = Send("client", "heartbeat")
        /\ sleeping = "awake" /\ sleeping' # "awake"
    BY <1>12 DEF Heartbeat, environment
  <2>2. aa = a /\ h = 1 /\ hh = 0 /\ ee = e
    BY <2>1
  <2>3. vv <= v + 1 /\ cc = c
    BY <1>11, <2>1
  <2> HIDE DEF v, c, vv, cc, a, aa, h, hh, e, ee
  <2> QED
    BY <1>3, <1>6, <2>1, <2>2, <2>3
<1>13. CASE ClientInfo
  <2>1. /\ UNCHANGED <<sleeping, link, outage, running>>
        /\ sent' = Send("client", "info") /\ asked /\ ~asked'
    BY <1>13 DEF ClientInfo, environment
  <2>2. a = 1 /\ aa = 0 /\ h = hh /\ ee = e
    BY <2>1
  <2>3. vv <= v + 1 /\ cc = c
    BY <1>11, <2>1
  <2> HIDE DEF v, c, vv, cc, a, aa, h, hh, e, ee
  <2> QED
    BY <1>3, <1>6, <2>1, <2>2, <2>3
<1>14. CASE Receive("server")
  <2>1. UNCHANGED <<sleeping, link, outage, running>>
    BY <1>14 DEF Receive, environment
  <2>2. /\ asked' = asked /\ sent["server"] # <<>> /\ sent'["server"] = Tail(sent["server"])
        /\ \/ \E m \in {"reply", "replyAsk"} : sent'["client"] = Append(sent["client"], m)
           \/ sent'["client"] = sent["client"]
    BY <1>1, <1>14, ReceiveAtServer
  <2>3. aa = a /\ h = hh /\ ee = e
    BY <2>1, <2>2
  <2>4. vv = v - 1
    BY <1>1, <2>2 DEF LinkTypes
  <2>5. cc <= c + 1
    BY <1>1, <1>3, <2>2 DEF LinkTypes
  <2> HIDE DEF v, c, vv, cc, a, aa, h, hh, e, ee
  <2> QED
    BY <1>3, <1>6, <2>1, <2>3, <2>4, <2>5
<1>15. CASE Receive("client")
  <2>1. UNCHANGED <<sleeping, link, outage, running>>
    BY <1>15 DEF Receive, environment
  <2>2. /\ sent["client"] # <<>> /\ sent'["client"] = Tail(sent["client"])
        /\ sent'["server"] = sent["server"]
    BY <1>1, <1>15, ReceiveAtClient
  <2>3. h = hh /\ ee = e
    BY <2>1
  <2>4. cc = c - 1 /\ vv = v
    BY <1>1, <2>2 DEF LinkTypes
  <2> HIDE DEF v, c, vv, cc, a, aa, h, hh, e, ee
  <2> QED
    BY <1>3, <1>6, <2>1, <2>3, <2>4
<1>16. ASSUME NEW s \in Sides, ReceiveEnd(s) \/ RecvTimeout(s)
       PROVE  vv + cc + aa + hh <= dd + ee
  <2>1. UNCHANGED <<asked, sleeping, link, outage>>
    BY <1>16 DEF ReceiveEnd, RecvTimeout, environment
  <2>2. /\ running[s]
        /\ running' = [running EXCEPT ![s] = running'[s]]
        /\ sent' = [sent EXCEPT ![s] = <<>>] \/ sent' = sent
    BY <1>16, <1>7 DEF ReceiveEnd, RecvTimeout, Readable
  <2>3. aa = a /\ h = hh
    BY <2>1
  <2>4. e <= ee
    BY <1>1, <1>7, <2>2
  <2>5. vv <= v /\ cc <= c
    <3>1. /\ sent'["server"] = sent["server"] \/ sent'["server"] = <<>>
          /\ sent'["client"] = sent["client"] \/ sent'["client"] = <<>>
      BY <1>1, <2>2 DEF LinkTypes, Queues
    <3> QED
      BY <1>3, <3>1
  <2> HIDE DEF v, c, vv, cc, a, aa, h, hh, e, ee
  <2> QED
    BY <1>3, <1>6, <2>1, <2>3, <2>4, <2>5
<1>17. ASSUME NEW s \in Sides, Leave(s) PROVE vv + cc + aa + hh <= dd + ee
  <2>1. UNCHANGED <<asked, sleeping, link, outage>> /\ running[s]
    BY <1>17 DEF Leave, ThreadsUnchanged
  <2>2. /\ running' = [running EXCEPT ![s] = FALSE] /\ sent'[s] = <<>>
        /\ running[Other(s)] /\ link # "cut"
             => sent'[Other(s)] = Append(sent[Other(s)], "end")
        /\ ~(running[Other(s)] /\ link # "cut") => sent'[Other(s)] = sent[Other(s)]
    BY <1>1, <1>17, LeaveIs
  <2>3. aa = a /\ h = hh /\ ee = 1
    BY <1>1, <1>7, <2>1, <2>2
  <2>4. running[Other(s)] => e = 0
    BY <1>1, <2>1
  <2>5. /\ Len(sent'[s]) = 0
        /\ \/ Len(sent'[Other(s)]) = Len(sent[Other(s)])
           \/ Len(sent'[Other(s)]) = Len(sent[Other(s)]) + 1 /\ running[Other(s)]
    <3>1. Len(Append(sent[Other(s)], "end")) = Len(sent[Other(s)]) + 1
      BY <1>1 DEF LinkTypes, Queues
    <3> QED
      BY <2>2, <3>1
  <2>6. vv + cc <= v + c + (IF running[Other(s)] THEN 1 ELSE 0)
    <3>1. CASE s = "server"
      <4>1. Other(s) = "client"
        BY <1>1, <3>1
      <4>2. vv = 0 /\ (cc = c \/ (cc = c + 1 /\ running[Other(s)]))
        BY <2>5, <3>1, <4>1
      <4> HIDE DEF v, c, vv, cc
      <4> QED
        BY <1>3, <4>2
    <3>2. CASE s = "client"
      <4>1. Other(s) = "server"
        BY <1>1, <3>2
      <4>2. cc = 0 /\ (vv = v \/ (vv = v + 1 /\ running[Other(s)]))
        BY <2>5, <3>2, <4>1
      <4> HIDE DEF v, c, vv, cc
      <4> QED
        BY <1>3, <4>2
    <3> QED
      BY <1>1, <3>1, <3>2
  <2> HIDE DEF v, c, vv, cc, a, aa, h, hh, e, ee
  <2> QED
    BY <1>3, <1>6, <2>1, <2>3, <2>4, <2>6
<1>18. CASE GoDown
  <2>1. /\ Quiet /\ link = "up" /\ link' = "down" /\ outage' = 0
        /\ UNCHANGED <<sent, asked, sleeping>>
    BY <1>18 DEF GoDown, ThreadsUnchanged
  <2>2. /\ sent["server"] = <<>> /\ sent["client"] = <<>> /\ sleeping # "awake"
    BY <1>1, <2>1, QuietIsEmpty DEF Quiet
  <2>3. vv = 0 /\ cc = 0 /\ hh = 0 /\ dd = 1
    BY <2>1, <2>2
  <2> HIDE DEF vv, cc, aa, hh, dd, ee
  <2> QED
    BY <1>3, <2>3
<1>19. CASE ComeUp
  <2>1. /\ link = "down" /\ link' = "up"
        /\ UNCHANGED <<sent, asked, sleeping, running>>
    BY <1>19 DEF ComeUp, ThreadsUnchanged
  <2>2. vv = v /\ cc = c /\ aa = a /\ hh = h /\ ee = e /\ d <= dd
    BY <1>3, <2>1
  <2> HIDE DEF v, c, vv, cc, a, aa, h, hh, d, dd, e, ee
  <2> QED
    BY <1>3, <1>4, <2>2
<1>20. CASE Cut
  <2>1. sent' = [s \in Sides |-> <<>>] /\ link' = "cut"
    BY <1>20 DEF Cut
  <2>2. vv = 0 /\ cc = 0 /\ dd = MaxOutage + 2
    BY <1>1, <2>1
  <2> HIDE DEF vv, cc, aa, hh, dd, ee
  <2> QED
    BY <1>3, <2>2
<1>21. CASE Second
  <2>1. /\ Quiet /\ UNCHANGED <<sent, asked, running, link>>
        /\ link = "down" => outage' = outage + 1
    BY <1>21 DEF Second
  <2>2. sleeping # "awake"
    BY <2>1 DEF Quiet
  <2>3. vv = v /\ cc = c /\ aa = a /\ h = 0 /\ ee = e
    BY <2>1, <2>2
  <2>4. CASE link = "down"
    <3>1. dd = d + 1
      BY <1>3, <2>1, <2>4
    <3> HIDE DEF v, c, vv, cc, a, aa, h, hh, d, dd, e, ee
    <3> QED
      BY <1>3, <1>4, <2>3, <3>1
  <2>5. CASE link # "down"
    <3>1. v = 0 /\ c = 0
      BY <1>1, <2>1, <2>5, QuietIsEmpty
    <3>2. dd = MaxOutage + 2
      BY <2>1, <2>5
    <3> HIDE DEF v, c, vv, cc, a, aa, h, hh, d, dd, e, ee
    <3> QED
      BY <1>3, <2>3, <3>1, <3>2
  <2> QED
    BY <2>4, <2>5
<1> HIDE DEF v, c, vv, cc, a, aa, h, hh, d, dd, e, ee
<1>22. ASSUME NEW s \in Sides, Receive(s) \/ ReceiveEnd(s) \/ RecvTimeout(s) \/ Leave(s)
       PROVE  vv + cc + aa + hh <= dd + ee
  <2>1. s = "server" \/ s = "client"
    BY <1>1
  <2>2. CASE Receive(s)
    BY <1>14, <1>15, <2>1, <2>2
  <2> QED
    BY <1>16, <1>17, <1>22, <2>2
<1> QED
  BY <1>8, <1>9, <1>10, <1>12, <1>13, <1>18, <1>19, <1>20, <1>21, <1>22 DEF Next

\* LinkInv is inductive.
LEMMA LinkInvStep == LinkInv /\ [Next]_vars => LinkInv'
<1>1. LinkInv /\ Next => LinkInv'
  BY TypesStep, EarlyStep, LoadStep, QueueStep DEF LinkInv, Silence
<1>2. LinkInv /\ UNCHANGED vars => LinkInv'
  <2>1. UNCHANGED vars => UNCHANGED <<fd_socket, accepted, running, mRecvTimeoutCounter,
                                      listening, sleeping, mHeartbeatFlags, asked, sent,
                                      link, outage, excused>>
    BY DEF vars
  <2>2. LinkInv /\ UNCHANGED vars => LinkTypes'
    BY <2>1 DEF LinkInv, LinkTypes
  <2>3. LinkInv /\ UNCHANGED vars => Early' /\ Silence'
    BY <2>1 DEF LinkInv, Early, Silence
  <2>4. LinkInv /\ UNCHANGED vars => (Load <= LoadBound)'
    BY <2>1 DEF LinkInv, Load, LoadBound
  <2> QED
    BY <2>2, <2>3, <2>4 DEF LinkInv
<1> QED
  BY <1>1, <1>2

\* Each variable of Connect, DoHeartbeatLoop and DoRecvMessage keeps its type:
\* no answer ever goes to the server, and no more waits for an end than an
\* outage holds back.
THEOREM TypeCorrect == Spec => []TypeOK
<1>1. Init => LinkInv
  BY InitLink
<1>2. LinkInv /\ [Next]_vars => LinkInv'
  BY LinkInvStep
<1>3. LinkInv => TypeOK
  <2> SUFFICES ASSUME LinkInv PROVE TypeOK
    OBVIOUS
  <2> USE LinkAssumption
  <2> DEFINE v == Len(sent["server"])
             c == Len(sent["client"])
             a == IF asked THEN 1 ELSE 0
             h == IF sleeping = "awake" THEN 1 ELSE 0
             d == IF link = "down" THEN 1 + outage ELSE MaxOutage + 2
             e == IF running["client"] /\ running["server"] THEN 0 ELSE 1
  <2>1. LinkTypes /\ Load <= LoadBound
    BY DEF LinkInv
  <2>2. v \in Nat /\ c \in Nat /\ v + c + a + h <= d + e
    BY <2>1, LoadIs
  <2>3. a \in 0 .. 1 /\ h \in 0 .. 1 /\ e \in 0 .. 1
    OBVIOUS
  <2>4. d \in Nat /\ d <= MaxOutage + 2
    BY <2>1 DEF LinkTypes
  <2>5. v <= MaxOutage + 4 /\ c <= MaxOutage + 4
    <3> HIDE DEF v, c, a, h, d, e
    <3> QED
      BY <2>2, <2>3, <2>4
  <2>6. \A s \in Sides : Len(sent[s]) <= MaxOutage + 4
    BY <2>5 DEF Sides
  <2> QED
    BY <2>1, <2>6 DEF LinkTypes, TypeOK, ToServer, ToClient
<1> QED
  BY <1>1, <1>2, <1>3, PTL DEF Spec

-----------------------------------------------------------------------------
(* LiveKept *)

Both == accepted = "yes" /\ ~excused

\* A second has begun in which s has heard nothing yet.
Waits(s) == mRecvTimeoutCounter[s] > 0 \/ listening[s]

\* The seconds s has heard nothing.
Missed(s) == mRecvTimeoutCounter[s] + One(listening[s])

\* The most it may be when the link is up: the second that has just begun, or
\* those of the outage that is over.
Most == IF MaxOutage > 1 THEN MaxOutage ELSE 1

NoEnd(q) == q \in Seq(Messages \ {"end"})

Holds(q) == \E n \in 1 .. Len(q) : q[n] = "heartbeat"

\* The heartbeat thread goes on, each end has missed no more seconds than the
\* link was down, and what it waits for is on its way: as the heartbeat that is
\* due, as a message, or as the answer to one.
Lively ==
    /\ running["client"] /\ running["server"]
    /\ sleeping # "ended"
    /\ NoEnd(sent["client"]) /\ NoEnd(sent["server"])
    /\ \A s \in Sides : Missed(s) <= (IF link = "down" THEN outage ELSE Most)
    /\ Waits("server") => sleeping = "awake" \/ sent["server"] # <<>>
    /\ Waits("client") => sleeping = "awake" \/ Holds(sent["server"]) \/ sent["client"] # <<>>

Kept ==
    /\ link = "cut" => excused
    /\ accepted = "waits" /\ ~excused => running["client"]
    /\ Both => Lively

\* A heartbeat behind another message is there when that one is taken, and
\* when one more is added.
LEMMA Behind ==
    ASSUME NEW q \in Seq(ToServer)
    PROVE  /\ q # <<>> /\ Head(q) # "heartbeat" /\ Holds(q)
                => Holds(Tail(q))
           /\ \A m \in ToServer :
                Holds(q) \/ m = "heartbeat"
                => Holds(Append(q, m))
<1>1. ASSUME q # <<>>, Head(q) # "heartbeat", NEW n \in 1 .. Len(q), q[n] = "heartbeat"
      PROVE  Holds(Tail(q))
  <2>1. n # 1
    BY <1>1
  <2>2. n - 1 \in 1 .. Len(Tail(q)) /\ Tail(q)[n - 1] = q[n]
    BY <1>1, <2>1
  <2> QED
    BY <1>1, <2>2 DEF Holds
<1>2. ASSUME NEW m \in ToServer, NEW n \in 1 .. Len(q), q[n] = "heartbeat"
      PROVE  Holds(Append(q, m))
  <2>1. n \in 1 .. Len(Append(q, m)) /\ Append(q, m)[n] = q[n]
    OBVIOUS
  <2> QED
    BY <1>2, <2>1 DEF Holds
<1>3. ASSUME NEW m \in ToServer, m = "heartbeat"
      PROVE  Holds(Append(q, m))
  <2>1. /\ Len(q) + 1 \in 1 .. Len(Append(q, m))
        /\ Append(q, m)[Len(q) + 1] = m
    OBVIOUS
  <2> QED
    BY <1>3, <2>1 DEF Holds
<1> QED
  BY <1>1, <1>2, <1>3 DEF Holds

\* Who waits has a count or listens, and who does not has missed nothing.
LEMMA MissedIs ==
    ASSUME LinkTypes, NEW s \in Sides
    PROVE  /\ Missed(s) \in Nat
           /\ Missed(s) = mRecvTimeoutCounter[s] + (IF listening[s] THEN 1 ELSE 0)
           /\ ~Waits(s) => Missed(s) = 0
           /\ mRecvTimeoutCounter[s] = 0 /\ ~listening[s] => ~Waits(s) /\ Missed(s) = 0
BY DEF LinkTypes, Missed, One, Waits

\* No step with which nobody leaves ends an end.
LEMMA LivelyStep ==
    ASSUME LinkInv, Next, LinkTypes', Both, Both', Lively, link # "cut",
           MaxOutage < Limit, Limit > 1
    PROVE  Lively'
<1> USE LinkAssumption
<1> DEFINE bound == IF link = "down" THEN outage ELSE Most
<1>1. /\ LinkTypes /\ Early /\ Silence
      /\ Sides = {"client", "server"} /\ "client" # "server"
      /\ Other("client") = "server" /\ Other("server") = "client"
      /\ accepted = "yes" /\ ~excused /\ ~excused'
  BY DEF LinkInv, Sides, Other, Both
<1>2. /\ running["client"] /\ running["server"] /\ sleeping # "ended"
      /\ NoEnd(sent["client"]) /\ NoEnd(sent["server"])
      /\ \A s \in Sides : Missed(s) <= bound
      /\ Waits("server") => sleeping = "awake" \/ sent["server"] # <<>>
      /\ Waits("client") => sleeping = "awake" \/ Holds(sent["server"]) \/ sent["client"] # <<>>
  BY DEF Lively
<1>3. /\ Most \in Nat /\ Most < Limit /\ 1 <= Most /\ MaxOutage <= Most
      /\ outage \in 0 .. MaxOutage
      /\ sent["server"] \in Seq(ToServer) /\ sent["client"] \in Seq(ToClient)
  BY <1>1 DEF Most, LinkTypes
<1>4. bound \in Nat /\ bound < Limit
  BY <1>3
\* What a step that keeps the link and both ends has to show.
<1>5. ASSUME link' = link, outage' = outage, running' = running, sleeping' # "ended",
             NoEnd(sent'["client"]), NoEnd(sent'["server"]),
             \A s \in Sides : Missed(s)' <= Missed(s),
             Waits("server")' => sleeping' = "awake" \/ sent'["server"] # <<>>,
             Waits("client")' => sleeping' = "awake" \/ Holds(sent'["server"]) \/ sent'["client"] # <<>>
      PROVE  Lively'
  <2>1. \A s \in Sides : Missed(s) \in Nat /\ Missed(s)' \in Nat
    BY <1>1 DEF LinkTypes, Missed, One
  <2>2. \A s \in Sides : Missed(s)' <= (IF link' = "down" THEN outage' ELSE Most)
    BY <1>2, <1>4, <1>5, <2>1
  <2> QED
    BY <1>2, <1>5, <2>2 DEF Lively, Most
<1>6. ASSUME UNCHANGED <<mRecvTimeoutCounter, listening>>, NEW s \in Sides
      PROVE  Missed(s)' = Missed(s) /\ Waits(s)' = Waits(s) /\ Missed(s)' <= Missed(s)
  <2>1. Missed(s) \in Nat /\ Missed(s)' = Missed(s) /\ Waits(s)' = Waits(s)
    BY <1>1, <1>6, MissedIs DEF Missed, Waits
  <2> QED
    BY <2>1
\* What waits is there, and is behind no more than before.
<1>7. ASSUME NEW m \in {"heartbeat", "info"}, sent' = Send("client", m)
      PROVE  /\ sent'["client"] = sent["client"]
             /\ sent'["server"] = Append(sent["server"], m) /\ sent'["server"] # <<>>
             /\ NoEnd(sent'["client"]) /\ NoEnd(sent'["server"])
             /\ Holds(sent["server"]) \/ m = "heartbeat" => Holds(sent'["server"])
  <2>1. sent'["client"] = sent["client"] /\ sent'["server"] = Append(sent["server"], m)
    BY <1>1, <1>2, <1>7, ClientSends
  <2>2. m \in ToServer /\ m \in Messages \ {"end"}
    BY DEF ToServer, Messages
  <2>3. NoEnd(Append(sent["server"], m))
    BY <1>2, <2>2 DEF NoEnd
  <2>4. Append(sent["server"], m) # <<>>
    BY <1>3, <2>2
  <2> QED
    BY <1>2, <1>3, <2>1, <2>2, <2>3, <2>4, Behind
<1>8. CASE Connect \/ Accept \/ Leak
  BY <1>1, <1>8 DEF Connect, Accept, Leak, Early
<1>9. CASE Heartbeat
  <2>1. /\ UNCHANGED <<link, outage, running, mRecvTimeoutCounter, listening>>
        /\ sleeping' = "sleep" /\ sent' = Send("client", "heartbeat")
    BY <1>2, <1>9 DEF Heartbeat, environment
  <2> QED
    BY <1>1, <1>5, <1>6, <1>7, <2>1
<1>10. CASE ClientInfo
  <2>1. /\ UNCHANGED <<link, outage, running, sleeping, mRecvTimeoutCounter, listening>>
        /\ sent' = Send("client", "info")
    BY <1>10 DEF ClientInfo, environment
  <2> QED
    BY <1>1, <1>2, <1>5, <1>6, <1>7, <2>1
\* An end that receives has missed nothing.
<1>11. ASSUME NEW s \in Sides, Receive(s)
       PROVE  /\ UNCHANGED <<link, outage, running, sleeping>>
              /\ ~Waits(s)' /\ \A e \in Sides \ {s} : Waits(e)' = Waits(e)
              /\ \A e \in Sides : Missed(e)' <= Missed(e)
  <2>1. /\ UNCHANGED <<link, outage, running, sleeping>>
        /\ mRecvTimeoutCounter' = [mRecvTimeoutCounter EXCEPT ![s] = 0]
        /\ listening' = [listening EXCEPT ![s] = FALSE]
    BY <1>11 DEF Receive, Reset, environment
  <2>2. /\ mRecvTimeoutCounter \in [Sides -> 0 .. Limit] /\ listening \in [Sides -> BOOLEAN]
        /\ \A e \in Sides : Missed(e) \in Nat
    BY <1>1, MissedIs DEF LinkTypes
  <2>3. /\ mRecvTimeoutCounter'[s] = 0 /\ listening'[s] = FALSE
        /\ \A e \in Sides \ {s} : /\ mRecvTimeoutCounter'[e] = mRecvTimeoutCounter[e]
                                 /\ listening'[e] = listening[e]
    BY <2>1, <2>2
  <2>4. ~Waits(s)' /\ Missed(s)' = 0
    BY <2>3 DEF Waits, Missed, One
  <2>5. \A e \in Sides \ {s} : Waits(e)' = Waits(e) /\ Missed(e)' = Missed(e)
    BY <2>3 DEF Waits, Missed
  <2> QED
    BY <2>1, <2>2, <2>4, <2>5
<1>12. CASE Receive("server")
  <2>1. /\ sent["server"] # <<>> /\ sent'["server"] = Tail(sent["server"])
        /\ Head(sent["server"]) = "heartbeat" =>
             \E m \in {"reply", "replyAsk"} : sent'["client"] = Append(sent["client"], m)
        /\ Head(sent["server"]) # "heartbeat" => sent'["client"] = sent["client"]
    BY <1>1, <1>2, <1>12, ReceiveAtServer
  <2>2. {"reply", "replyAsk"} \subseteq ToClient \cap (Messages \ {"end"})
    BY DEF ToClient, Messages
  <2>3. \A m \in {"reply", "replyAsk"} : /\ Append(sent["client"], m) # <<>>
                                         /\ NoEnd(Append(sent["client"], m))
    BY <1>2, <1>3, <2>2 DEF NoEnd
  <2>4. NoEnd(sent'["client"]) /\ NoEnd(sent'["server"])
    <3>1. NoEnd(Tail(sent["server"]))
      BY <1>2, <2>1 DEF NoEnd
    <3> QED
      BY <1>2, <2>1, <2>3, <3>1
  <2>5. \/ sent'["client"] # <<>>
        \/ sent'["client"] = sent["client"] /\ (Holds(sent["server"]) => Holds(sent'["server"]))
    BY <1>3, <2>1, <2>3, Behind
  <2>6. /\ UNCHANGED <<link, outage, running, sleeping>>
        /\ ~Waits("server")' /\ Waits("client")' = Waits("client")
        /\ \A e \in Sides : Missed(e)' <= Missed(e)
    BY <1>1, <1>11, <1>12
  <2> QED
    BY <1>2, <1>5, <2>4, <2>5, <2>6
<1>13. CASE Receive("client")
  <2>1. /\ sent["client"] # <<>> /\ sent'["client"] = Tail(sent["client"])
        /\ sent'["server"] = sent["server"]
    BY <1>1, <1>13, ReceiveAtClient
  <2>2. NoEnd(sent'["client"]) /\ NoEnd(sent'["server"])
    BY <1>2, <2>1 DEF NoEnd
  <2>3. /\ UNCHANGED <<link, outage, running, sleeping>>
        /\ ~Waits("client")' /\ Waits("server")' = Waits("server")
        /\ \A e \in Sides : Missed(e)' <= Missed(e)
    BY <1>1, <1>11, <1>13
  <2> QED
    BY <1>2, <1>5, <2>1, <2>2, <2>3
<1>14. ASSUME NEW s \in Sides PROVE ~ReceiveEnd(s)
  <2>1. sent[s] # <<>> => Head(sent[s]) # "end"
    BY <1>1, <1>2 DEF NoEnd
  <2> QED
    BY <1>1, <2>1 DEF ReceiveEnd, Readable
\* A timeout counts the second that s has listened, which is not the last one.
<1>15. ASSUME NEW s \in Sides, RecvTimeout(s) PROVE Lively'
  <2>1. /\ listening[s] /\ mRecvTimeoutCounter[s] \in Nat
        /\ Missed(s) = mRecvTimeoutCounter[s] + 1
    BY <1>1, <1>15, MissedIs DEF RecvTimeout, LinkTypes
  <2>2. mRecvTimeoutCounter[s] + 1 < Limit
    BY <1>2, <1>4, <2>1
  <2>3. /\ mRecvTimeoutCounter'[s] = mRecvTimeoutCounter[s] + 1 /\ ~listening'[s]
        /\ \A e \in Sides \ {s} : /\ mRecvTimeoutCounter'[e] = mRecvTimeoutCounter[e]
                                 /\ listening'[e] = listening[e]
    BY <1>1, <1>15 DEF RecvTimeout, LinkTypes
  <2>4. UNCHANGED <<link, outage, sleeping>>
    BY <1>15 DEF RecvTimeout, environment
  <2>5. running' = running /\ sent' = sent
    BY <1>1, <1>2, <1>15, <2>2, <2>3 DEF RecvTimeout, LinkTypes
  <2>6. Missed(s)' = Missed(s) /\ Waits(s)
    BY <2>1, <2>3 DEF Missed, Waits, One
  <2>7. \A e \in Sides \ {s} : Waits(e)' = Waits(e) /\ Missed(e)' = Missed(e)
    BY <2>3 DEF Waits, Missed
  <2>8. \A e \in Sides : Missed(e) \in Nat
    BY <1>1, MissedIs
  <2>9. \A e \in Sides : Missed(e)' <= Missed(e) /\ (Waits(e)' => Waits(e))
    BY <2>6, <2>7, <2>8
  <2> QED
    BY <1>1, <1>2, <1>5, <2>4, <2>5, <2>9
<1>16. ASSUME NEW s \in Sides PROVE ~Leave(s) /\ ~Cut
  BY <1>1 DEF Leave, Cut
\* Nobody waits when all that is due is done and the link is up.
<1>17. ASSUME Quiet, link = "up"
       PROVE  /\ sleeping # "awake" /\ sent["client"] = <<>> /\ sent["server"] = <<>>
              /\ \A s \in Sides : mRecvTimeoutCounter[s] = 0 /\ ~listening[s]
  <2>1. sleeping # "awake" /\ sent["client"] = <<>> /\ sent["server"] = <<>>
    BY <1>1, <1>17, QuietIsEmpty DEF Quiet
  <2>2. ~Holds(sent["server"])
    BY <2>1 DEF Holds
  <2>3. \A s \in Sides : ~Waits(s)
    BY <1>1, <1>2, <2>1, <2>2
  <2> QED
    BY <1>1, <2>1, <2>3 DEF Waits, LinkTypes
<1>18. CASE GoDown
  <2>1. /\ Quiet /\ link = "up" /\ link' = "down" /\ outage' = 0
        /\ UNCHANGED <<sent, sleeping, running, mRecvTimeoutCounter, listening>>
    BY <1>18 DEF GoDown, ThreadsUnchanged
  <2>2. \A s \in Sides : mRecvTimeoutCounter'[s] = 0 /\ ~listening'[s]
    BY <1>17, <2>1
  <2>3. \A s \in Sides : Missed(s)' = 0 /\ ~Waits(s)'
    BY <2>2 DEF Missed, Waits, One
  <2> QED
    BY <1>1, <1>2, <2>1, <2>3 DEF Lively
<1>19. CASE ComeUp
  <2>1. /\ link = "down" /\ link' = "up"
        /\ UNCHANGED <<sent, sleeping, running, mRecvTimeoutCounter, listening>>
    BY <1>19 DEF ComeUp, ThreadsUnchanged
  <2>2. \A s \in Sides : Missed(s) \in Nat /\ Missed(s)' = Missed(s) /\ Waits(s)' = Waits(s)
    BY <1>1, <1>6, <2>1, MissedIs
  <2>3. \A s \in Sides : Missed(s)' <= Most'
    BY <1>2, <1>3, <2>1, <2>2 DEF Most
  <2> QED
    BY <1>1, <1>2, <2>1, <2>2, <2>3 DEF Lively
<1>20. CASE Second
  <2>1. /\ Quiet
        /\ UNCHANGED <<link, running, mRecvTimeoutCounter, sent>>
        /\ link = "down" => outage' = outage + 1
        /\ listening' = [s \in Sides |-> running[s]]
        /\ sleeping' = IF sleeping = "sleep" THEN "awake" ELSE sleeping
    BY <1>20 DEF Second
  <2>2. sleeping' = "awake"
    BY <1>1, <1>2, <2>1 DEF Quiet, LinkTypes
  <2>3. \A s \in Sides : Missed(s)' = mRecvTimeoutCounter[s] + 1
    BY <1>1, <1>2, <2>1 DEF Missed, One
  <2>4. \A s \in Sides : mRecvTimeoutCounter[s] \in Nat /\ Missed(s) = mRecvTimeoutCounter[s]
    BY <1>1, <1>2, <2>1, MissedIs DEF Quiet, LinkTypes
  <2>5. CASE link = "down"
    <3>1. \A s \in Sides : Missed(s)' <= outage'
      <4>1. \A s \in Sides : mRecvTimeoutCounter[s] <= outage
        BY <1>2, <2>4, <2>5
      <4>2. outage \in Nat /\ outage' = outage + 1
        BY <1>3, <2>1, <2>5
      <4> QED
        BY <2>3, <2>4, <4>1, <4>2
    <3> QED
      BY <1>2, <2>1, <2>2, <2>5, <3>1 DEF Lively
  <2>6. CASE link # "down"
    <3>1. link = "up"
      BY <1>1, <2>6 DEF LinkTypes
    <3>2. \A s \in Sides : Missed(s)' = 1
      BY <1>17, <2>1, <2>3, <3>1
    <3>3. \A s \in Sides : Missed(s)' <= Most
      BY <1>3, <3>2
    <3> QED
      BY <1>2, <2>1, <2>2, <2>6, <3>3 DEF Lively, Most
  <2> QED
    BY <2>5, <2>6
<1>21. ASSUME NEW s \in Sides, Receive(s) \/ ReceiveEnd(s) \/ RecvTimeout(s) \/ Leave(s)
       PROVE  Lively'
  <2>1. s = "server" \/ s = "client"
    BY <1>1
  <2>2. CASE Receive(s)
    BY <1>12, <1>13, <2>1, <2>2
  <2> QED
    BY <1>14, <1>15, <1>16, <1>21, <2>2
<1> QED
  BY <1>1, <1>8, <1>9, <1>10, <1>16, <1>18, <1>19, <1>20, <1>21 DEF Next

\* Kept is inductive while an outage is shorter than what the ends put up with.
LEMMA KeptStep ==
    ASSUME LinkInv, LinkInv', Next, Kept, MaxOutage < Limit, Limit > 1
    PROVE  Kept'
<1>1. /\ LinkTypes /\ LinkTypes' /\ Early
      /\ Sides = {"client", "server"} /\ "client" # "server"
      /\ Other("client") = "server" /\ Other("server") = "client"
  BY DEF LinkInv, Sides, Other
<1>2. /\ excused => excused'
      /\ accepted # "yes" /\ accepted' = "yes" => Accept
      /\ ~excused' => \A s \in Sides : ~Leave(s)
      /\ link' = "cut" => link = "cut" \/ excused'
      /\ accepted' = "waits" => accepted = "waits" \/ Connect
  <2>1. CASE Connect \/ Accept \/ Leak
    BY <1>1, <2>1 DEF Connect, Accept, Leak, environment, Early, Leave
  <2>2. CASE Heartbeat \/ ClientInfo
    BY <2>2 DEF Heartbeat, ClientInfo, environment, Leave
  <2>3. ASSUME NEW s \in Sides, Receive(s) \/ ReceiveEnd(s) \/ RecvTimeout(s) \/ Leave(s)
        PROVE  UNCHANGED accepted /\ (excused => excused') /\ (link' = "cut" => link = "cut")
    BY <2>3 DEF Receive, ReceiveEnd, RecvTimeout, Leave, ThreadsUnchanged, environment
  <2>4. CASE GoDown \/ ComeUp \/ Cut \/ Second
    BY <2>4 DEF GoDown, ComeUp, Cut, Second, ThreadsUnchanged, Leave
  <2>5. ~excused' => \A s \in Sides : ~Leave(s)
    BY DEF Leave
  <2> QED
    BY <2>1, <2>2, <2>3, <2>4, <2>5 DEF Next
<1>3. link' = "cut" => excused'
  BY <1>2 DEF Kept
<1>4. ASSUME accepted' = "waits", ~excused' PROVE running'["client"]
  <2>1. CASE Connect
    BY <1>1, <2>1 DEF Connect, LinkTypes
  <2>2. CASE accepted = "waits"
    <3>1. ~excused /\ running["client"]
      BY <1>2, <1>4, <2>2 DEF Kept
    <3>2. /\ \A s \in Sides : ~listening[s] /\ sent[s] = <<>>
      BY <1>1, <2>2 DEF Early
    <3>3. \A s \in Sides : ~ReceiveEnd(s) /\ ~RecvTimeout(s)
      BY <2>2, <3>2 DEF ReceiveEnd, RecvTimeout, Readable
    <3>4. running' = running \/ Accept \/ Connect
      BY <1>2, <1>4, <3>3 DEF Next, Leak, Heartbeat, ClientInfo, Receive, GoDown, ComeUp, Cut,
                              Second
    <3> QED
      BY <1>1, <1>4, <2>1, <3>1, <3>4 DEF Accept
  <2> QED
    BY <1>2, <1>4, <2>1, <2>2
<1>5. ASSUME Both' PROVE Lively'
  <2>1. accepted' = "yes" /\ ~excused' /\ ~excused
    BY <1>2, <1>5 DEF Both
  <2>2. link # "cut"
    BY <2>1 DEF Kept
  <2>3. CASE accepted = "yes"
    BY <1>1, <1>5, <2>1, <2>2, <2>3, LivelyStep DEF Kept, Both
  <2>4. CASE accepted # "yes"
    <3>1. Accept
      BY <1>2, <2>1, <2>4
    <3>2. /\ accepted = "waits"
          /\ running' = [running EXCEPT !["server"] = TRUE]
          /\ sent' = Sent("server", "udpSupport", sent)
          /\ UNCHANGED <<mRecvTimeoutCounter, listening, sleeping, link, outage>>
      BY <3>1 DEF Accept, environment
    <3>3. /\ running["client"] /\ sleeping = "sleep"
          /\ \A s \in Sides : mRecvTimeoutCounter[s] = 0 /\ ~listening[s] /\ sent[s] = <<>>
      BY <1>1, <2>1, <3>2 DEF Early, Kept
    <3>4. "udpSupport" \in Messages \ {"end"}
      BY DEF Messages
    <3>5. sent'["server"] = <<>> /\ sent'["client"] = Append(<<>>, "udpSupport")
      BY <1>1, <2>2, <3>2, <3>3, <3>4, SentIs DEF LinkTypes
    <3>6. NoEnd(sent'["server"]) /\ NoEnd(sent'["client"])
      BY <3>4, <3>5 DEF NoEnd
    <3>7. \A s \in Sides : Missed(s)' = 0 /\ ~Waits(s)'
      BY <3>2, <3>3 DEF Missed, Waits, One
    <3>8. running'["server"] /\ running'["client"]
      BY <1>1, <3>2, <3>3 DEF LinkTypes
    <3>9. 0 <= Most /\ 0 <= outage'
      BY <1>1, LinkAssumption DEF Most, LinkTypes
    <3>10. \A s \in Sides : Missed(s)' <= (IF link' = "down" THEN outage' ELSE Most)
      BY <3>7, <3>9
    <3> QED
      BY <1>1, <3>2, <3>3, <3>6, <3>7, <3>8, <3>10 DEF Lively, Most
  <2> QED
    BY <2>3, <2>4
<1> QED
  BY <1>3, <1>4, <1>5 DEF Kept

\* While both programs run and the link is not cut, neither end takes the other
\* for gone, though the link be down again and again, if an outage is always
\* shorter than the Limit seconds of DoRecvLoop.
THEOREM EndsAreKept ==
    ASSUME MaxOutage < Limit, Limit > 1
    PROVE  Spec => []LiveKept
<1>1. Init => LinkInv /\ Kept
  <2>1. Init => Kept
    BY DEF Init, Kept, Both
  <2> QED
    BY <2>1, InitLink
<1>2. LinkInv /\ Kept /\ [Next]_vars => (LinkInv /\ Kept)'
  <2>1. LinkInv /\ [Next]_vars => LinkInv'
    BY LinkInvStep
  <2>2. LinkInv /\ LinkInv' /\ Kept /\ Next => Kept'
    BY KeptStep
  <2>3. Kept /\ UNCHANGED vars => Kept'
    BY DEF vars, Kept, Both, Lively, Missed, Waits, NoEnd, Holds, Most
  <2> QED
    BY <2>1, <2>2, <2>3
<1>3. LinkInv /\ Kept => LiveKept
  BY DEF Kept, Both, Lively, LiveKept, Sides
<1> QED
  BY <1>1, <1>2, <1>3, PTL DEF Spec

-----------------------------------------------------------------------------
(* Slices and their sizes                                                    *)

\* The constants are numbers, and the receiver has room for a whole slice.
LEMMA Sizes ==
    /\ Lengths \subseteq Nat
    /\ MaxSlice \in Nat /\ MaxSlice > 0
    /\ HeadSize \in Nat /\ HeadSize > 0
    /\ MaxMessages \in Nat
    /\ RecvBufSize \in Nat /\ RecvBufSize >= HeadSize + MaxSlice
BY StreamAssumption

\* What a message is made of.
LEMMA MessageFields ==
    ASSUME NEW m \in Message
    PROVE  m.len \in Nat /\ m.id \in 1 .. MaxMessages /\ m.type \in Types
<1>1. m.len \in Lengths /\ m.id \in 1 .. MaxMessages /\ m.type \in Types
  BY DEF Message
<1> QED
  BY <1>1, Sizes

\* Slice i of message m, sent under number q.
Piece(q, m, i) ==
    LET left == m.len - i * MaxSlice
    IN  [seq |-> q, slices |-> SlicesOf(m.len), cur |-> i,
         size |-> IF left >= MaxSlice THEN MaxSlice ELSE left, msg |-> m]

\* Slice numbers its slices with the sequence number of the sender.
LEMMA SliceIsPiece == \A m, i : Slice(m, i) = Piece(seq, m, i)
BY DEF Slice, Piece

\* All slices but the last are full, and the last one ends where the message ends.
LEMMA SlicesCover ==
    ASSUME NEW n \in Nat
    PROVE  /\ SlicesOf(n) \in Nat \ {0}
           /\ \A i \in 0 .. SlicesOf(n) - 1 : /\ i * MaxSlice \in Nat
                                              /\ i * MaxSlice <= n
           /\ \A i \in 0 .. SlicesOf(n) - 2 : (i + 1) * MaxSlice <= n
           /\ n <= SlicesOf(n) * MaxSlice
<1>1. MaxSlice \in Nat /\ MaxSlice > 0
  BY StreamAssumption
<1>2. CASE n = 0
  BY <1>1, <1>2 DEF SlicesOf
<1>3. CASE n > 0
  <2> DEFINE q == SlicesOf(n)
  <2>1. q = (n + MaxSlice - 1) \div MaxSlice
    BY <1>3 DEF SlicesOf
  <2>2. /\ q \in Int
        /\ q * MaxSlice <= n + MaxSlice - 1
        /\ n + MaxSlice - 1 < (q + 1) * MaxSlice
    BY <1>1, <2>1, Z3
  <2> HIDE DEF q
  <2>3. (q + 1) * MaxSlice = q * MaxSlice + MaxSlice /\ (q - 1) * MaxSlice = q * MaxSlice - MaxSlice
    BY <1>1, <2>2
  <2>4. q * MaxSlice \in Int
    BY <1>1, <2>2
  <2>5. n <= q * MaxSlice /\ (q - 1) * MaxSlice < n
    BY <1>1, <2>2, <2>3, <2>4
  <2>6. q >= 1
    BY <1>1, <1>3, <2>2, <2>5
  <2>7. ASSUME NEW i \in 0 .. q - 1
        PROVE  i * MaxSlice \in Nat /\ i * MaxSlice <= (q - 1) * MaxSlice
    BY <1>1, <2>2
  <2>8. \A i \in 0 .. q - 2 : (i + 1) * MaxSlice <= n
    BY <2>2, <2>5, <2>7, <1>1
  <2> QED
    BY <2>2, <2>4, <2>5, <2>6, <2>7, <2>8 DEF q
<1> QED
  BY <1>2, <1>3

-----------------------------------------------------------------------------
(* What the two recursive functions on the wire compute                      *)

\* A set of numbers that is not empty has a least member.
LEMMA Least ==
    ASSUME NEW B, B \subseteq Nat, B # {}
    PROVE  \E n \in B : \A m \in B : ~(m < n)
<1>1. PICK n \in B : \A m \in B : <<m, n>> \notin OpToRel(<, Nat)
  BY WFMin, NatLessThanWellFounded
<1> QED
  BY <1>1, Zenon DEF OpToRel

\* f begins with zero and takes N steps.
Steps(f, zero, next, N) == f[0] = zero /\ \A n \in 1 .. N : f[n] = next[n][f[n - 1]]

\* What is computed step by step from the first of N elements to the last is
\* there, and is of the type that the steps stay in.
LEMMA StepByStep ==
    ASSUME NEW S, NEW zero \in S, NEW N \in Nat, NEW next \in [1 .. N -> [S -> S]]
    PROVE  \E f \in [0 .. N -> S] : Steps(f, zero, next, N)
<1> DEFINE Upto(f, k) == /\ f \in [0 .. k -> S]
                         /\ f[0] = zero
                         /\ \A n \in 1 .. k : f[n] = next[n][f[n - 1]]
           Bad == { k \in 0 .. N : \A f : ~Upto(f, k) }
<1>1. Bad = {}
  <2> SUFFICES ASSUME Bad # {} PROVE FALSE
    OBVIOUS
  <2>1. Bad \subseteq 0 .. N /\ Bad \subseteq Nat
    OBVIOUS
  <2>2. \A k \in 0 .. N : k \notin Bad => \E f : Upto(f, k)
    OBVIOUS
  <2>3. \A k \in Bad : \A f : ~Upto(f, k)
    OBVIOUS
  <2> HIDE DEF Bad
  <2>4. PICK k \in Bad : \A m \in Bad : ~(m < k)
    BY <2>1, Least
  <2>5. k \in 0 .. N
    BY <2>1
  <2>6. CASE k = 0
    <3>1. Upto([n \in 0 .. 0 |-> zero], 0)
      OBVIOUS
    <3> QED
      BY <2>3, <2>6, <3>1
  <2>7. CASE k # 0
    <3>1. k - 1 \in 0 .. N /\ k - 1 < k
      BY <2>5, <2>7
    <3>2. PICK f : Upto(f, k - 1)
      BY <2>2, <2>4, <3>1
    <3> DEFINE g == [n \in 0 .. k |-> IF n = k THEN next[k][f[k - 1]] ELSE f[n]]
    <3>3. next[k][f[k - 1]] \in S
      <4>1. k - 1 \in 0 .. k - 1 /\ k \in 1 .. N
        BY <2>5, <2>7
      <4> QED
        BY <3>2, <4>1
    <3>4. \A n \in 0 .. k : g[n] = IF n = k THEN next[k][f[k - 1]] ELSE f[n]
      OBVIOUS
    <3>5. g \in [0 .. k -> S]
      BY <2>5, <2>7, <3>2, <3>3
    <3> HIDE DEF g
    <3>6. g[0] = zero
      BY <2>5, <2>7, <3>2, <3>4
    <3>7. \A n \in 1 .. k : g[n] = next[n][g[n - 1]]
      BY <2>5, <2>7, <3>2, <3>4
    <3>8. Upto(g, k)
      BY <3>5, <3>6, <3>7
    <3> QED
      BY <2>3, <3>8
  <2> QED
    BY <2>6, <2>7
<1>2. N \in 0 .. N
  OBVIOUS
<1>3. PICK f : Upto(f, N)
  <2> HIDE DEF Upto
  <2> QED
    BY <1>1, <1>2, Zenon
<1> QED
  BY <1>3 DEF Steps

\* Two such computations that take the same steps agree.
Agree(f, g, n) == f[n] = g[n]

LEMMA SameSteps ==
    ASSUME NEW N \in Nat, NEW f, NEW g, Agree(f, g, 0),
           \A n \in 1 .. N : Agree(f, g, n - 1) => Agree(f, g, n)
    PROVE  \A n \in 0 .. N : Agree(f, g, n)
<1> DEFINE Bad == { n \in 0 .. N : ~Agree(f, g, n) }
<1> SUFFICES ASSUME Bad # {} PROVE FALSE
  OBVIOUS
<1>1. Bad \subseteq Nat
  OBVIOUS
<1>2. PICK n \in Bad : \A m \in Bad : ~(m < n)
  <2> HIDE DEF Bad
  <2> QED
    BY <1>1, Least
<1>3. n \in 1 .. N /\ ~Agree(f, g, n)
  BY <1>2
<1>4. n - 1 \in 0 .. N /\ n - 1 \notin Bad
  BY <1>2, <1>3
<1> QED
  BY <1>3, <1>4

\* The bytes are a number, and add up from slice to slice.
LEMMA BytesSteps ==
    ASSUME NEW S, NEW w \in Seq(S), \A s \in S : PackageSize(s) \in Nat
    PROVE  \E f \in [0 .. Len(w) -> Nat] :
             /\ f[0] = 0
             /\ \A n \in 1 .. Len(w) : f[n] = f[n - 1] + PackageSize(w[n])
             /\ Bytes(w) = f[Len(w)]
<1> DEFINE step(f, n) == IF n = 0 THEN 0 ELSE f[n - 1] + PackageSize(w[n])
           bytes == CHOOSE f : f = [n \in 0 .. Len(w) |-> step(f, n)]
           next == [n \in 1 .. Len(w) |-> [x \in Nat |-> x + PackageSize(w[n])]]
<1>1. Len(w) \in Nat /\ \A n \in 1 .. Len(w) : PackageSize(w[n]) \in Nat
  BY LenProperties, ElementOfSeq
<1>2. next \in [1 .. Len(w) -> [Nat -> Nat]]
  BY <1>1
<1>3. \A n \in 1 .. Len(w), x \in Nat : next[n][x] = x + PackageSize(w[n])
  <2> SUFFICES ASSUME NEW n \in 1 .. Len(w) PROVE \A x \in Nat : next[n][x] = x + PackageSize(w[n])
    OBVIOUS
  <2>1. next[n] = [x \in Nat |-> x + PackageSize(w[n])]
    OBVIOUS
  <2> HIDE DEF next
  <2> QED
    BY <2>1
<1> HIDE DEF next
<1>4. PICK f \in [0 .. Len(w) -> Nat] : Steps(f, 0, next, Len(w))
  <2>1. 0 \in Nat
    OBVIOUS
  <2>2. Len(w) \in Nat
    BY <1>1
  <2> HIDE DEF bytes, step
  <2> QED
    BY <1>2, <2>1, <2>2, StepByStep, Zenon
<1>5. \A n \in 1 .. Len(w) : f[n] = f[n - 1] + PackageSize(w[n])
  <2> SUFFICES ASSUME NEW n \in 1 .. Len(w) PROVE f[n] = f[n - 1] + PackageSize(w[n])
    OBVIOUS
  <2>1. n - 1 \in 0 .. Len(w)
    BY <1>1
  <2>2. f[n - 1] \in Nat
    BY <2>1
  <2> QED
    BY <1>3, <1>4, <2>2 DEF Steps
<1>6. \A n \in 0 .. Len(w) : n # 0 => n \in 1 .. Len(w)
  BY <1>1
<1>7. \A n \in 0 .. Len(w) : f[n] = step(f, n)
  BY <1>4, <1>5, <1>6 DEF Steps
<1>8. f = [n \in 0 .. Len(w) |-> step(f, n)]
  <2> HIDE DEF step
  <2> QED
    BY <1>7
<1>9. bytes = [n \in 0 .. Len(w) |-> step(bytes, n)]
  <2> HIDE DEF step
  <2> QED
    BY <1>8
<1>10. Bytes(w) = bytes[Len(w)]
  BY DEF Bytes
<1> HIDE DEF bytes
<1>11. \A n \in 0 .. Len(w) : bytes[n] = step(bytes, n)
  BY <1>9
<1>12. 0 \in 0 .. Len(w) /\ Len(w) \in 0 .. Len(w) /\ \A n \in 1 .. Len(w) : n \in 0 .. Len(w) /\ n # 0
  BY <1>1
<1>13. Agree(bytes, f, 0)
  BY <1>4, <1>11, <1>12 DEF Steps, Agree
<1>14. \A n \in 1 .. Len(w) : Agree(bytes, f, n - 1) => Agree(bytes, f, n)
  BY <1>5, <1>11, <1>12 DEF Agree
<1>15. \A n \in 0 .. Len(w) : Agree(bytes, f, n)
  BY <1>1, <1>13, <1>14, SameSteps, Zenon
<1> QED
  BY <1>4, <1>5, <1>10, <1>12, <1>15 DEF Steps, Agree

\* Slice s is the last of its message.
IsLast(s) == s.cur = s.slices - 1

\* f collects the messages of the last slices of w.
Collects(f, w) ==
    /\ f[0] = <<>>
    /\ \A n \in 1 .. Len(w) :
         f[n] = IF IsLast(w[n]) THEN Append(f[n - 1], w[n].msg) ELSE f[n - 1]

\* The same for the messages sent out whole.
LEMMA WholeSteps ==
    ASSUME NEW S, NEW M, NEW w \in Seq(S), \A s \in S : s.msg \in M
    PROVE  \E f \in [0 .. Len(w) -> Seq(M)] : Collects(f, w) /\ Whole(w) = f[Len(w)]
<1> DEFINE take(x, n) == IF IsLast(w[n]) THEN Append(x, w[n].msg) ELSE x
           step(f, n) == IF n = 0 THEN <<>>
                         ELSE IF w[n].cur = w[n].slices - 1 THEN Append(f[n - 1], w[n].msg)
                         ELSE f[n - 1]
           whole == CHOOSE f : f = [n \in 0 .. Len(w) |-> step(f, n)]
           next == [n \in 1 .. Len(w) |-> [x \in Seq(M) |-> take(x, n)]]
<1>1. Len(w) \in Nat /\ \A n \in 1 .. Len(w) : w[n].msg \in M
  BY LenProperties, ElementOfSeq
<1>2. \A n \in 1 .. Len(w), x \in Seq(M) : take(x, n) \in Seq(M)
  BY <1>1, AppendProperties
<1>3. \A f, n : n # 0 => step(f, n) = take(f[n - 1], n)
  BY DEF IsLast
<1> HIDE DEF take
<1>4. next \in [1 .. Len(w) -> [Seq(M) -> Seq(M)]]
  BY <1>2
<1>5. \A n \in 1 .. Len(w), x \in Seq(M) : next[n][x] = take(x, n)
  <2> SUFFICES ASSUME NEW n \in 1 .. Len(w) PROVE \A x \in Seq(M) : next[n][x] = take(x, n)
    OBVIOUS
  <2>1. next[n] = [x \in Seq(M) |-> take(x, n)]
    OBVIOUS
  <2> HIDE DEF next
  <2> QED
    BY <2>1
<1> HIDE DEF next
<1>6. PICK f \in [0 .. Len(w) -> Seq(M)] : Steps(f, <<>>, next, Len(w))
  <2>1. <<>> \in Seq(M)
    BY EmptySeq
  <2>2. Len(w) \in Nat
    BY <1>1
  <2> HIDE DEF whole, step
  <2> QED
    BY <1>4, <2>1, <2>2, StepByStep, Zenon
<1>7. \A n \in 1 .. Len(w) : n \in 0 .. Len(w) /\ n - 1 \in 0 .. Len(w) /\ n # 0
  BY <1>1
<1>8. \A n \in 1 .. Len(w) : f[n] = take(f[n - 1], n)
  BY <1>5, <1>6, <1>7 DEF Steps
<1>9. \A n \in 0 .. Len(w) : n # 0 => n \in 1 .. Len(w)
  BY <1>1
<1>10. f[0] = <<>>
  BY <1>6 DEF Steps
<1>11. \A g : step(g, 0) = <<>>
  OBVIOUS
<1> HIDE DEF step
<1>12. \A n \in 0 .. Len(w) : f[n] = step(f, n)
  BY <1>3, <1>8, <1>9, <1>10, <1>11, Zenon
<1>13. f = [n \in 0 .. Len(w) |-> step(f, n)]
  BY <1>12
<1>14. whole = [n \in 0 .. Len(w) |-> step(whole, n)]
  BY <1>13
<1>15. Whole(w) = whole[Len(w)]
  BY DEF Whole, step
<1> HIDE DEF whole
<1>16. \A n \in 0 .. Len(w) : whole[n] = step(whole, n)
  BY <1>14
<1>17. 0 \in 0 .. Len(w) /\ Len(w) \in 0 .. Len(w)
  BY <1>1
<1>18. Agree(whole, f, 0)
  BY <1>10, <1>11, <1>16, <1>17 DEF Agree
<1>19. \A n \in 1 .. Len(w) : Agree(whole, f, n - 1) => Agree(whole, f, n)
  BY <1>3, <1>7, <1>8, <1>16 DEF Agree
<1>20. \A n \in 0 .. Len(w) : Agree(whole, f, n)
  BY <1>1, <1>18, <1>19, SameSteps, Zenon
<1> QED
  <2>1. Collects(f, w)
    BY <1>8, <1>10 DEF take, Collects
  <2>2. Whole(w) = f[Len(w)]
    BY <1>15, <1>17, <1>20 DEF Agree
  <2> QED
    BY <2>1, <2>2

\* One slice more.
LEMMA OneMore ==
    ASSUME NEW S, NEW w \in Seq(S), NEW e \in S
    PROVE  /\ Append(w, e) \in Seq(S)
           /\ Len(w) \in Nat /\ Len(Append(w, e)) = Len(w) + 1
           /\ \A n \in 1 .. Len(w) : Append(w, e)[n] = w[n]
           /\ Append(w, e)[Len(w) + 1] = e
           /\ \A n \in 1 .. Len(w) + 1 : n \in 1 .. Len(w) \/ n = Len(w) + 1
BY AppendProperties, LenProperties

\* One slice less.
LEMMA OneLess ==
    ASSUME NEW S, NEW w \in Seq(S), w # <<>>
    PROVE  /\ Tail(w) \in Seq(S) /\ w[1] \in S
           /\ Len(w) \in Nat \ {0} /\ Len(Tail(w)) = Len(w) - 1
           /\ \A n \in 1 .. Len(w) - 1 : Tail(w)[n] = w[n + 1] /\ n + 1 \in 1 .. Len(w)
<1>1. Tail(w) \in Seq(S) /\ Len(Tail(w)) = Len(w) - 1 /\ \A n \in 1 .. Len(Tail(w)) : Tail(w)[n] = w[n + 1]
  BY HeadTailProperties
<1>2. Len(w) \in Nat \ {0}
  BY LenProperties, EmptySeq
<1>3. w[1] \in S
  BY <1>2, ElementOfSeq
<1> QED
  BY <1>1, <1>2, <1>3

\* A slice more on the wire, and its bytes.
LEMMA BytesAppend ==
    ASSUME NEW S, NEW w \in Seq(S), NEW e \in S, \A s \in S : PackageSize(s) \in Nat
    PROVE  /\ Bytes(w) \in Nat
           /\ Bytes(Append(w, e)) = Bytes(w) + PackageSize(e)
<1> DEFINE v == Append(w, e)
<1>1. /\ v \in Seq(S) /\ Len(w) \in Nat /\ Len(v) = Len(w) + 1
      /\ \A n \in 1 .. Len(w) : v[n] = w[n] /\ n \in 1 .. Len(v)
      /\ v[Len(w) + 1] = e
  BY OneMore
<1> HIDE DEF v
<1>2. PICK f \in [0 .. Len(w) -> Nat] :
             /\ f[0] = 0
             /\ \A n \in 1 .. Len(w) : f[n] = f[n - 1] + PackageSize(w[n])
             /\ Bytes(w) = f[Len(w)]
  BY BytesSteps
<1>3. PICK g \in [0 .. Len(v) -> Nat] :
             /\ g[0] = 0
             /\ \A n \in 1 .. Len(v) : g[n] = g[n - 1] + PackageSize(v[n])
             /\ Bytes(v) = g[Len(v)]
  BY <1>1, BytesSteps
<1>4. \A n \in 1 .. Len(w) : Agree(f, g, n - 1) => Agree(f, g, n)
  BY <1>1, <1>2, <1>3 DEF Agree
<1>5. \A n \in 0 .. Len(w) : Agree(f, g, n)
  <2>1. Len(w) \in Nat /\ Agree(f, g, 0)
    BY <1>1, <1>2, <1>3 DEF Agree
  <2> QED
    BY <1>4, <2>1, SameSteps, Zenon
<1>6. Len(v) \in 1 .. Len(v) /\ Len(v) - 1 = Len(w) /\ Len(w) \in 0 .. Len(w)
  BY <1>1
<1>7. Bytes(v) = g[Len(w)] + PackageSize(e)
  BY <1>1, <1>3, <1>6
<1> QED
  BY <1>2, <1>5, <1>6, <1>7 DEF v, Agree

\* A slice less, and its bytes.
LEMMA BytesTail ==
    ASSUME NEW S, NEW w \in Seq(S), w # <<>>, \A s \in S : PackageSize(s) \in Nat
    PROVE  /\ Bytes(Tail(w)) \in Nat
           /\ Bytes(w) = PackageSize(w[1]) + Bytes(Tail(w))
<1> DEFINE v == Tail(w)
<1>1. /\ v \in Seq(S) /\ w[1] \in S
      /\ Len(w) \in Nat \ {0} /\ Len(v) = Len(w) - 1
      /\ \A n \in 1 .. Len(w) - 1 : v[n] = w[n + 1] /\ n + 1 \in 1 .. Len(w)
  BY OneLess
<1> HIDE DEF v
<1>2. PICK f \in [0 .. Len(w) -> Nat] :
             /\ f[0] = 0
             /\ \A n \in 1 .. Len(w) : f[n] = f[n - 1] + PackageSize(w[n])
             /\ Bytes(w) = f[Len(w)]
  BY BytesSteps
<1>3. PICK g \in [0 .. Len(v) -> Nat] :
             /\ g[0] = 0
             /\ \A n \in 1 .. Len(v) : g[n] = g[n - 1] + PackageSize(v[n])
             /\ Bytes(v) = g[Len(v)]
  BY <1>1, BytesSteps
<1> DEFINE F == [n \in 0 .. Len(v) |-> f[n + 1]]
           G == [n \in 0 .. Len(v) |-> PackageSize(w[1]) + g[n]]
<1>4. \A n \in 0 .. Len(v) : F[n] = f[n + 1] /\ G[n] = PackageSize(w[1]) + g[n]
  OBVIOUS
<1>5. PackageSize(w[1]) \in Nat /\ Len(v) \in Nat
  BY <1>1
<1> HIDE DEF F, G
<1>6. Agree(F, G, 0)
  <2>1. 0 \in 0 .. Len(v) /\ 1 \in 1 .. Len(w) /\ 0 + 1 = 1 /\ 1 - 1 = 0
    BY <1>1
  <2>2. F[0] = f[1] /\ G[0] = PackageSize(w[1]) + g[0]
    BY <1>4, <2>1
  <2>3. f[1] = f[0] + PackageSize(w[1])
    BY <1>2, <2>1
  <2> QED
    BY <1>2, <1>3, <1>5, <2>2, <2>3 DEF Agree
<1>7. ASSUME NEW n \in 1 .. Len(v), Agree(F, G, n - 1)
      PROVE  Agree(F, G, n)
  <2>1. /\ n \in 0 .. Len(v) /\ n - 1 \in 0 .. Len(v) /\ n \in 1 .. Len(w) - 1
        /\ n - 1 + 1 = n /\ n + 1 - 1 = n
    BY <1>1
  <2>2. F[n] = f[n + 1] /\ G[n] = PackageSize(w[1]) + g[n]
    BY <1>4, <2>1
  <2>3. f[n] = PackageSize(w[1]) + g[n - 1]
    BY <1>4, <1>7, <2>1 DEF Agree
  <2>4. f[n + 1] = f[n] + PackageSize(v[n]) /\ g[n] = g[n - 1] + PackageSize(v[n])
    <3>1. v[n] = w[n + 1] /\ n + 1 \in 1 .. Len(w)
      BY <1>1, <2>1
    <3>2. f[n + 1] = f[n + 1 - 1] + PackageSize(w[n + 1])
      BY <1>2, <3>1
    <3>3. g[n] = g[n - 1] + PackageSize(v[n])
      BY <1>3
    <3> QED
      BY <2>1, <3>1, <3>2, <3>3
  <2>5. g[n - 1] \in Nat
    BY <2>1
  <2>6. PackageSize(v[n]) \in Nat
    BY <1>1, ElementOfSeq
  <2> QED
    BY <1>5, <2>2, <2>3, <2>4, <2>5, <2>6 DEF Agree
<1>8. \A n \in 0 .. Len(v) : Agree(F, G, n)
  BY <1>5, <1>6, <1>7, SameSteps, Zenon
<1>9. Len(v) \in 0 .. Len(v) /\ Len(v) + 1 = Len(w)
  BY <1>1
<1>10. Bytes(w) = PackageSize(w[1]) + Bytes(v) /\ Bytes(v) \in Nat
  BY <1>2, <1>3, <1>4, <1>8, <1>9 DEF Agree
<1> QED
  BY <1>10 DEF v

\* Nothing on the wire completes no message.
LEMMA WholeNone ==
    ASSUME NEW S, NEW M, \A s \in S : s.msg \in M
    PROVE  Whole(<<>>) = <<>>
<1>1. <<>> \in Seq(S) /\ Len(<<>>) = 0
  BY EmptySeq
<1>2. PICK f \in [0 .. Len(<<>>) -> Seq(M)] : Collects(f, <<>>) /\ Whole(<<>>) = f[Len(<<>>)]
  BY <1>1, WholeSteps, Zenon
<1> QED
  BY <1>1, <1>2 DEF Collects

\* A last slice behind the others completes its message, another slice none.
LEMMA WholeAppend ==
    ASSUME NEW S, NEW w \in Seq(S), NEW e \in S
    PROVE  /\ IsLast(e) => Whole(Append(w, e)) = Append(Whole(w), e.msg)
           /\ ~IsLast(e) => Whole(Append(w, e)) = Whole(w)
<1> DEFINE v == Append(w, e)
           M == { s.msg : s \in S }
<1>1. /\ v \in Seq(S) /\ Len(w) \in Nat /\ Len(v) = Len(w) + 1
      /\ \A n \in 1 .. Len(w) : v[n] = w[n] /\ n \in 1 .. Len(v)
      /\ v[Len(w) + 1] = e
  BY OneMore
<1>2. \A s \in S : s.msg \in M
  OBVIOUS
<1> HIDE DEF v, M
<1>3. PICK f \in [0 .. Len(w) -> Seq(M)] : Collects(f, w) /\ Whole(w) = f[Len(w)]
  BY <1>2, WholeSteps, Zenon
<1>4. PICK g \in [0 .. Len(v) -> Seq(M)] : Collects(g, v) /\ Whole(v) = g[Len(v)]
  BY <1>1, <1>2, WholeSteps, Zenon
<1>5. \A n \in 1 .. Len(w) : Agree(f, g, n - 1) => Agree(f, g, n)
  BY <1>1, <1>3, <1>4 DEF Agree, Collects
<1>6. \A n \in 0 .. Len(w) : Agree(f, g, n)
  <2>1. Len(w) \in Nat /\ Agree(f, g, 0)
    BY <1>1, <1>3, <1>4 DEF Agree, Collects
  <2> QED
    BY <1>5, <2>1, SameSteps, Zenon
<1>7. Len(v) \in 1 .. Len(v) /\ Len(v) - 1 = Len(w) /\ Len(w) \in 0 .. Len(w)
  BY <1>1
<1>8. Whole(v) = IF IsLast(e) THEN Append(g[Len(w)], e.msg) ELSE g[Len(w)]
  BY <1>1, <1>4, <1>7 DEF Collects
<1> QED
  BY <1>3, <1>6, <1>7, <1>8 DEF v, Agree

\* What a message ahead of x and one behind it have to do with each other.
LEMMA ConsAppend ==
    ASSUME NEW M, NEW a \in Seq(M), NEW x \in Seq(M), NEW m \in M
    PROVE  /\ a \o <<>> = a
           /\ a \o x \in Seq(M)
           /\ a \o Append(x, m) = Append(a \o x, m)
OBVIOUS

\* A last slice that leaves at the front takes its message with it.
LEMMA WholeTail ==
    ASSUME NEW S, NEW M, NEW w \in Seq(S), w # <<>>, \A s \in S : s.msg \in M
    PROVE  /\ Whole(Tail(w)) \in Seq(M)
           /\ Whole(w) = (IF IsLast(w[1]) THEN <<w[1].msg>> ELSE <<>>) \o Whole(Tail(w))
<1> DEFINE v == Tail(w)
           a == IF IsLast(w[1]) THEN <<w[1].msg>> ELSE <<>>
<1>1. /\ v \in Seq(S) /\ w[1] \in S
      /\ Len(w) \in Nat \ {0} /\ Len(v) = Len(w) - 1
      /\ \A n \in 1 .. Len(w) - 1 : v[n] = w[n + 1] /\ n + 1 \in 1 .. Len(w)
  BY OneLess
<1> HIDE DEF v
<1>2. PICK f \in [0 .. Len(w) -> Seq(M)] : Collects(f, w) /\ Whole(w) = f[Len(w)]
  BY WholeSteps, Zenon
<1>3. PICK g \in [0 .. Len(v) -> Seq(M)] : Collects(g, v) /\ Whole(v) = g[Len(v)]
  <2>1. v \in Seq(S)
    BY <1>1
  <2> HIDE DEF a
  <2> QED
    BY <2>1, WholeSteps, Zenon
<1> DEFINE F == [n \in 0 .. Len(v) |-> f[n + 1]]
           G == [n \in 0 .. Len(v) |-> a \o g[n]]
<1>4. \A n \in 0 .. Len(v) : F[n] = f[n + 1] /\ G[n] = a \o g[n]
  OBVIOUS
<1>5. a \in Seq(M) /\ Len(v) \in Nat
  <2>1. w[1].msg \in M
    BY <1>1
  <2> QED
    BY <1>1, <2>1
<1>6. Append(<<>>, w[1].msg) = <<w[1].msg>>
  OBVIOUS
<1>7. f[1] = a
  <2>1. 1 \in 1 .. Len(w) /\ 1 - 1 = 0
    BY <1>1
  <2> QED
    BY <1>2, <1>6, <2>1 DEF Collects
<1> HIDE DEF F, G, a
<1>8. Agree(F, G, 0)
  <2>1. 0 \in 0 .. Len(v) /\ 0 + 1 = 1
    BY <1>5
  <2>2. F[0] = f[1] /\ G[0] = a \o g[0]
    BY <1>4, <2>1
  <2>3. a \o <<>> = a
    BY <1>5
  <2> QED
    BY <1>3, <1>7, <2>2, <2>3 DEF Agree, Collects
<1>9. ASSUME NEW n \in 1 .. Len(v), Agree(F, G, n - 1)
      PROVE  Agree(F, G, n)
  <2>1. /\ n \in 0 .. Len(v) /\ n - 1 \in 0 .. Len(v) /\ n \in 1 .. Len(w) - 1
        /\ n - 1 + 1 = n /\ n + 1 - 1 = n
    BY <1>1
  <2>2. F[n] = f[n + 1] /\ G[n] = a \o g[n]
    BY <1>4, <2>1
  <2>3. f[n] = a \o g[n - 1]
    BY <1>4, <1>9, <2>1 DEF Agree
  <2>4. v[n] = w[n + 1] /\ n + 1 \in 1 .. Len(w)
    BY <1>1, <2>1
  <2>5. f[n + 1] = IF IsLast(v[n]) THEN Append(f[n], v[n].msg) ELSE f[n]
    <3>1. f[n + 1] = IF IsLast(w[n + 1]) THEN Append(f[n + 1 - 1], w[n + 1].msg)
                     ELSE f[n + 1 - 1]
      BY <1>2, <2>4 DEF Collects
    <3> QED
      BY <2>1, <2>4, <3>1
  <2>6. g[n] = IF IsLast(v[n]) THEN Append(g[n - 1], v[n].msg) ELSE g[n - 1]
    BY <1>3 DEF Collects
  <2>7. g[n - 1] \in Seq(M)
    BY <2>1
  <2>8. v[n].msg \in M
    BY <1>1, ElementOfSeq
  <2>9. a \o Append(g[n - 1], v[n].msg) = Append(a \o g[n - 1], v[n].msg)
    BY <1>5, <2>7, <2>8, ConsAppend
  <2> QED
    BY <2>2, <2>3, <2>5, <2>6, <2>9 DEF Agree
<1>10. \A n \in 0 .. Len(v) : Agree(F, G, n)
  BY <1>5, <1>8, <1>9, SameSteps, Zenon
<1>11. Len(v) \in 0 .. Len(v) /\ Len(v) + 1 = Len(w)
  BY <1>1
<1>12. Whole(w) = a \o Whole(v) /\ Whole(v) \in Seq(M)
  BY <1>2, <1>3, <1>4, <1>10, <1>11 DEF Agree
<1> QED
  BY <1>12 DEF v, a

-----------------------------------------------------------------------------
(* The inductive invariant: the slices come in an unbroken row               *)

\* What SendSlice sends.
Pieces == { s \in [seq : Nat, slices : Nat, cur : Nat, size : 0 .. MaxSlice, msg : Message] :
              /\ s.msg # NoMessage
              /\ s.cur < s.slices
              /\ s = Piece(s.seq, s.msg, s.cur) }

\* Lists of messages of type t.
ListsOf(t) == { list \in Seq(Message) : \A k \in 1 .. Len(list) : list[k].type = t }

ListTypes == /\ cmdList \in ListsOf("cmd")
             /\ audioList \in ListsOf("audio")
             /\ videoList \in ListsOf("video")
             /\ put \in 0 .. MaxMessages

\* A slice of the message is left to send.
SenderTypes == /\ sending \in Message \cup {NoMessage}
               /\ seq \in Nat
               /\ slice \in Nat
               /\ sending # NoMessage => slice < SlicesOf(sending.len)
               /\ sending = NoMessage => slice = 0

WireTypes == /\ wire \in Seq(Pieces)
             /\ pos \in 0 .. OnWire /\ pos <= RecvBufSize

PackageTypes == /\ combinePackage.recv \in Nat
                /\ combinePackage.mask = 0 .. combinePackage.recv - 1
                /\ header \in Message \cup {NoMessage}
                /\ delivered.msg \in Message \cup {NoMessage}

\* The receiver has the c slices before slice c of message m.
InPackage(q, m, c) ==
    /\ header = m
    /\ combinePackage = [seq |-> q, slices |-> SlicesOf(m.len), recv |-> c,
                         mask |-> 0 .. c - 1, dataSize |-> c * MaxSlice]

\* Slice i of message m does not come after another one than slice a.
Follows(a, q, m, i) == i > 0 => a = Piece(q, m, i - 1)

\* Slices follow each other on the wire, the slice to send next follows those, and
\* what has gone before is in combinePackage.
Unbroken ==
    /\ \A i \in 1 .. Len(wire) - 1 : Follows(wire[i], wire[i + 1].seq, wire[i + 1].msg, wire[i + 1].cur)
    /\ wire # <<>> => Follows(wire[Len(wire)], seq, sending, slice)
    /\ wire # <<>> /\ wire[1].cur > 0 => InPackage(wire[1].seq, wire[1].msg, wire[1].cur)
    /\ wire = <<>> /\ slice > 0 => InPackage(seq, sending, slice)

StreamInv == ListTypes /\ SenderTypes /\ WireTypes /\ PackageTypes /\ Unbroken

\* Each slice number below SlicesOf gives a slice.
LEMMA PieceOK ==
    ASSUME NEW q \in Nat, NEW m \in Message, m # NoMessage,
           NEW i \in Nat, i < SlicesOf(m.len)
    PROVE  /\ Piece(q, m, i) \in Pieces
           /\ Piece(q, m, i).seq = q /\ Piece(q, m, i).msg = m /\ Piece(q, m, i).cur = i
           /\ Piece(q, m, i).slices = SlicesOf(m.len)
           /\ i + 1 < SlicesOf(m.len) => Piece(q, m, i).size = MaxSlice
           /\ i + 1 = SlicesOf(m.len) => i * MaxSlice + Piece(q, m, i).size = m.len
<1> DEFINE n == m.len
           left == n - i * MaxSlice
           size == IF left >= MaxSlice THEN MaxSlice ELSE left
<1>1. n \in Nat /\ MaxSlice \in Nat /\ MaxSlice > 0
  BY MessageFields, Sizes
<1>2. /\ SlicesOf(n) \in Nat \ {0}
      /\ i * MaxSlice \in Nat /\ i * MaxSlice <= n
      /\ i + 1 < SlicesOf(n) => (i + 1) * MaxSlice <= n
      /\ n <= SlicesOf(n) * MaxSlice
  BY <1>1, SlicesCover
<1>3. (i + 1) * MaxSlice = i * MaxSlice + MaxSlice
  BY <1>1
<1>4. /\ size \in 0 .. MaxSlice
      /\ i + 1 < SlicesOf(n) => size = MaxSlice
      /\ i + 1 = SlicesOf(n) => i * MaxSlice + size = n
  BY <1>1, <1>2, <1>3
<1>5. Piece(q, m, i) = [seq |-> q, slices |-> SlicesOf(n), cur |-> i, size |-> size, msg |-> m]
  BY DEF Piece
<1> HIDE DEF size
<1>6. Piece(q, m, i) \in [seq : Nat, slices : Nat, cur : Nat, size : 0 .. MaxSlice, msg : Message]
  BY <1>2, <1>4, <1>5
<1>7. /\ Piece(q, m, i).seq = q /\ Piece(q, m, i).msg = m /\ Piece(q, m, i).cur = i
      /\ Piece(q, m, i).slices = SlicesOf(m.len) /\ Piece(q, m, i).size = size
  BY <1>5
<1> QED
  BY <1>4, <1>6, <1>7 DEF Pieces

\* What a slice on the wire looks like.
LEMMA PieceFacts ==
    ASSUME NEW s \in Pieces
    PROVE  /\ s.msg \in Message /\ s.msg # NoMessage
           /\ s.seq \in Nat /\ s.cur \in Nat /\ s.slices \in Nat /\ s.size \in 0 .. MaxSlice
           /\ s.cur < s.slices /\ s.slices = SlicesOf(s.msg.len)
           /\ PackageSize(s) \in Nat
           /\ HeadSize <= PackageSize(s) /\ PackageSize(s) <= HeadSize + MaxSlice
           /\ ~IsLast(s) => s.size = MaxSlice
           /\ IsLast(s) => s.cur * MaxSlice + s.size = s.msg.len
<1>1. /\ s.msg \in Message /\ s.msg # NoMessage
      /\ s.seq \in Nat /\ s.cur \in Nat /\ s.slices \in Nat /\ s.size \in 0 .. MaxSlice
      /\ s.cur < s.slices /\ s = Piece(s.seq, s.msg, s.cur)
  BY DEF Pieces
<1>2. Piece(s.seq, s.msg, s.cur).slices = SlicesOf(s.msg.len)
  BY DEF Piece
<1>3. s.slices = SlicesOf(s.msg.len)
  BY <1>1, <1>2
<1>4. /\ s.cur + 1 < SlicesOf(s.msg.len) => s.size = MaxSlice
      /\ s.cur + 1 = SlicesOf(s.msg.len) => s.cur * MaxSlice + s.size = s.msg.len
  <2> DEFINE p == Piece(s.seq, s.msg, s.cur)
  <2>1. s.cur < SlicesOf(s.msg.len)
    BY <1>1, <1>3
  <2>2. /\ s.cur + 1 < SlicesOf(s.msg.len) => p.size = MaxSlice
        /\ s.cur + 1 = SlicesOf(s.msg.len) => s.cur * MaxSlice + p.size = s.msg.len
    BY <1>1, <2>1, PieceOK
  <2>3. s = p
    BY <1>1
  <2> HIDE DEF p
  <2> QED
    BY <2>2, <2>3
<1>5. /\ PackageSize(s) \in Nat
      /\ HeadSize <= PackageSize(s) /\ PackageSize(s) <= HeadSize + MaxSlice
  BY <1>1, Sizes DEF PackageSize
<1>6. IsLast(s) <=> s.cur + 1 = s.slices
  BY <1>1 DEF IsLast
<1>7. ~IsLast(s) => s.cur + 1 < s.slices
  BY <1>1, <1>6
<1> QED
  BY <1>1, <1>3, <1>4, <1>5, <1>6, <1>7

\* A slice counted into a package.
Packages == [seq : Nat, slices : Nat, recv : Nat, mask : SUBSET Nat, dataSize : Nat]

\* A slice that continues the package adds its number and its bytes.
LEMMA SliceAdded ==
    ASSUME NEW p \in Packages, NEW s \in Pieces
    PROVE  AddSlice(p, s) = [seq |-> p.seq, slices |-> p.slices, recv |-> p.recv + 1,
                             mask |-> p.mask \cup {s.cur}, dataSize |-> p.dataSize + s.size]
<1> DEFINE more == p.mask \cup {s.cur}
           total == p.dataSize + s.size
           r == [seq |-> p.seq, slices |-> p.slices, recv |-> p.recv + 1, mask |-> more,
                 dataSize |-> total]
<1>1. /\ p.seq \in Nat /\ p.slices \in Nat /\ p.recv \in Nat /\ p.mask \in SUBSET Nat
      /\ p.dataSize \in Nat
  BY DEF Packages
<1>2. s.cur \in Nat /\ s.size \in Nat
  BY PieceFacts, Sizes
<1>3. more \in SUBSET Nat /\ total \in Nat /\ p.recv + 1 \in Nat
  BY <1>1, <1>2
<1> HIDE DEF more, total
<1>4. /\ r \in Packages /\ r.seq = p.seq /\ r.slices = p.slices /\ r.recv = p.recv + 1
      /\ r.mask = more /\ r.dataSize = total
  BY <1>1, <1>3 DEF Packages
<1> HIDE DEF r
<1>5. /\ AddSlice(p, s) \in Packages
      /\ AddSlice(p, s).seq = p.seq /\ AddSlice(p, s).slices = p.slices
      /\ AddSlice(p, s).recv = p.recv + 1
      /\ AddSlice(p, s).mask = more /\ AddSlice(p, s).dataSize = total
  BY <1>1, <1>3 DEF AddSlice, Packages, more, total
<1>6. AddSlice(p, s) = r
  BY <1>4, <1>5 DEF Packages
<1> QED
  BY <1>6 DEF r, more, total

\* The slice that comes is the one the package waits for.
LEMMA CombineHolds ==
    ASSUME NEW s \in Pieces, s.cur > 0 => InPackage(s.seq, s.msg, s.cur)
    PROVE  /\ Combine(s) = [seq |-> s.seq, slices |-> s.slices, recv |-> s.cur + 1,
                            mask |-> 0 .. s.cur, dataSize |-> s.cur * MaxSlice + s.size]
           /\ s.cur > 0 => header = s.msg
<1>1. /\ s.cur \in Nat /\ s.size \in 0 .. MaxSlice /\ s.slices = SlicesOf(s.msg.len)
      /\ MaxSlice \in Nat
  BY PieceFacts, StreamAssumption
<1>2. CASE s.cur = 0
  <2>1. 0 .. 0 = {0} /\ 0 * MaxSlice = 0 /\ 0 + s.size = s.size
    BY <1>1
  <2>2. Combine(s) = [seq |-> s.seq, slices |-> s.slices, recv |-> 0 + 1,
                      mask |-> {} \cup {s.cur}, dataSize |-> 0 + s.size]
    BY <1>2 DEF Combine, InitPackage, PutPackage, Blank, AddSlice
  <2> QED
    BY <1>2, <2>1, <2>2
<1>3. CASE s.cur > 0
  <2> DEFINE p == combinePackage
             c == s.cur
  <2>1. /\ header = s.msg
        /\ p = [seq |-> s.seq, slices |-> s.slices, recv |-> c,
                mask |-> 0 .. c - 1, dataSize |-> c * MaxSlice]
    BY <1>1, <1>3 DEF InPackage
  <2>2. c \notin 0 .. c - 1 /\ (0 .. c - 1) \cup {c} = 0 .. c
    BY <1>1, <1>3
  <2>3. p.seq = s.seq /\ p.slices = s.slices /\ s.cur \notin p.mask
    BY <2>1, <2>2
  <2>4. Combine(s) = AddSlice(p, s)
    BY <1>3, <2>3 DEF Combine, PutPackage
  <2>5. AddSlice(p, s) = [seq |-> s.seq, slices |-> s.slices, recv |-> c + 1,
                          mask |-> (0 .. c - 1) \cup {c}, dataSize |-> c * MaxSlice + s.size]
    <3>1. c \in Nat /\ c * MaxSlice \in Nat /\ 0 .. c - 1 \in SUBSET Nat
      BY <1>1, <1>3
    <3>2. s.seq \in Nat /\ s.slices \in Nat
      BY PieceFacts
    <3>3. /\ p \in Packages /\ p.seq = s.seq /\ p.slices = s.slices /\ p.recv = c
          /\ p.mask = 0 .. c - 1 /\ p.dataSize = c * MaxSlice
      BY <2>1, <3>1, <3>2 DEF Packages
    <3> HIDE DEF p
    <3> QED
      BY <3>3, SliceAdded
  <2> QED
    BY <2>1, <2>2, <2>4, <2>5
<1> QED
  BY <1>1, <1>2, <1>3

-----------------------------------------------------------------------------
(* Every step keeps it                                                       *)

\* The bytes on the wire are a number, and those of the first slice are among them.
LEMMA WireBytes ==
    ASSUME NEW w \in Seq(Pieces)
    PROVE  /\ Bytes(w) \in Nat
           /\ w = <<>> => Bytes(w) = 0
<1>1. \A s \in Pieces : PackageSize(s) \in Nat
  BY PieceFacts
<1>2. PICK f \in [0 .. Len(w) -> Nat] : f[0] = 0 /\ Bytes(w) = f[Len(w)]
  BY <1>1, BytesSteps
<1>3. Len(w) \in Nat /\ (w = <<>> => Len(w) = 0)
  BY LenProperties, EmptySeq
<1> QED
  BY <1>2, <1>3

\* Nothing is under way at first.
LEMMA StreamInvInit == StreamInit => StreamInv
<1> SUFFICES ASSUME StreamInit PROVE StreamInv
  OBVIOUS
<1>1. <<>> \in Seq(Message) /\ <<>> \in Seq(Pieces) /\ Len(<<>>) = 0
  BY EmptySeq
<1>2. ListTypes
  BY <1>1, Sizes DEF StreamInit, ListTypes, ListsOf
<1>3. SenderTypes
  BY DEF StreamInit, SenderTypes
<1>4. WireTypes
  <2>1. Bytes(<<>>) = 0
    BY <1>1, WireBytes
  <2>2. wire = <<>> /\ pos = 0
    BY DEF StreamInit
  <2> QED
    BY <1>1, <2>1, <2>2, Sizes DEF WireTypes, OnWire
<1>5. PackageTypes
  BY DEF StreamInit, PackageTypes
<1>6. Unbroken
  BY <1>1 DEF StreamInit, Unbroken
<1> QED
  BY <1>2, <1>3, <1>4, <1>5, <1>6 DEF StreamInv

\* A message more at the end, or one less at the front.
LEMMA ListMore ==
    ASSUME NEW t, NEW list \in ListsOf(t), NEW m \in Message, m.type = t
    PROVE  Append(list, m) \in ListsOf(t)
<1>1. list \in Seq(Message) /\ \A k \in 1 .. Len(list) : list[k].type = t
  BY DEF ListsOf
<1>2. /\ Append(list, m) \in Seq(Message) /\ Len(list) \in Nat
      /\ Len(Append(list, m)) = Len(list) + 1
      /\ \A n \in 1 .. Len(list) : Append(list, m)[n] = list[n]
      /\ Append(list, m)[Len(list) + 1] = m
      /\ \A n \in 1 .. Len(list) + 1 : n \in 1 .. Len(list) \/ n = Len(list) + 1
  BY <1>1, OneMore
<1> QED
  BY <1>1, <1>2 DEF ListsOf

\* A list without its first message.
LEMMA ListLess ==
    ASSUME NEW t, NEW list \in ListsOf(t), list # <<>>
    PROVE  Tail(list) \in ListsOf(t) /\ Head(list) \in Message /\ Head(list) = list[1]
           /\ Len(list) \in Nat \ {0} /\ Head(list).type = t
<1>1. list \in Seq(Message) /\ \A k \in 1 .. Len(list) : list[k].type = t
  BY DEF ListsOf
<1>2. /\ Tail(list) \in Seq(Message) /\ list[1] \in Message
      /\ Len(list) \in Nat \ {0} /\ Len(Tail(list)) = Len(list) - 1
      /\ \A n \in 1 .. Len(list) - 1 : Tail(list)[n] = list[n + 1] /\ n + 1 \in 1 .. Len(list)
  BY <1>1, OneLess
<1>3. Head(list) = list[1]
  BY <1>1, HeadTailProperties
<1>4. Tail(list) \in ListsOf(t)
  BY <1>1, <1>2 DEF ListsOf
<1> QED
  BY <1>1, <1>2, <1>3, <1>4

\* The steps of the sender that leave the wire alone.
LEMMA PutKeeps ==
    ASSUME ListTypes, NEW t \in Types, NEW n \in Lengths, PutSendData(t, n)
    PROVE  ListTypes'
<1> DEFINE m == [id |-> put + 1, type |-> t, len |-> n]
<1>1. put \in Nat /\ put + 1 \in 1 .. MaxMessages
  BY Sizes DEF ListTypes, PutSendData
<1>2. m \in Message /\ m.type = t
  BY <1>1 DEF Message
<1>3. /\ put' = put + 1
      /\ cmdList' = cmdList \/ (cmdList' = Append(cmdList, m) /\ t = "cmd")
      /\ audioList' = audioList \/ (audioList' = Append(audioList, m) /\ t = "audio")
      /\ videoList' = videoList \/ (videoList' = Append(videoList, m) /\ t = "video")
  BY DEF PutSendData
<1> HIDE DEF m
<1> QED
  <2>1. cmdList' \in ListsOf("cmd")
    BY <1>2, <1>3, ListMore DEF ListTypes
  <2>2. audioList' \in ListsOf("audio")
    BY <1>2, <1>3, ListMore DEF ListTypes
  <2>3. videoList' \in ListsOf("video")
    BY <1>2, <1>3, ListMore DEF ListTypes
  <2>4. put' \in 0 .. MaxMessages
    BY <1>1, <1>3, Sizes
  <2> QED
    BY <2>1, <2>2, <2>3, <2>4 DEF ListTypes

\* What was waiting before is what waits now and what is being sent.
LEMMA GetIs ==
    ASSUME ListTypes, GetSendData
    PROVE  /\ sending = NoMessage
           /\ \E t \in Types :
                /\ Waiting(t) \in ListsOf(t) /\ Waiting(t) # <<>>
                /\ sending' = Head(Waiting(t)) /\ Waiting(t)' = Tail(Waiting(t))
                /\ \A u \in Types \ {t} : Waiting(u)' = Waiting(u)
           /\ slice' = 0
           /\ UNCHANGED <<put, seq, wire, receiverVars>>
<1>1. UNCHANGED <<put, seq, wire, receiverVars>>
  BY DEF GetSendData
<1>2. CASE TakeFrom(cmdList, cmdList') /\ UNCHANGED <<audioList, videoList>>
  BY <1>1, <1>2 DEF TakeFrom, ListTypes, Waiting, Types
<1>3. CASE TakeFrom(audioList, audioList') /\ UNCHANGED <<cmdList, videoList>>
  BY <1>1, <1>3 DEF TakeFrom, ListTypes, Waiting, Types
<1>4. CASE TakeFrom(videoList, videoList') /\ UNCHANGED <<cmdList, audioList>>
  BY <1>1, <1>4 DEF TakeFrom, ListTypes, Waiting, Types
<1> QED
  BY <1>2, <1>3, <1>4 DEF GetSendData

\* The lists of the three types, by type.
LEMMA ListsByType ==
    /\ ListTypes <=> put \in 0 .. MaxMessages /\ \A t \in Types : Waiting(t) \in ListsOf(t)
    /\ ListTypes' <=> put' \in 0 .. MaxMessages /\ \A t \in Types : Waiting(t)' \in ListsOf(t)
BY DEF ListTypes, Types, Waiting

\* A step that leaves wire and receiver alone and sends nothing else.
LEMMA WireKept ==
    ASSUME WireTypes, PackageTypes, UNCHANGED <<wire, receiverVars>>
    PROVE  WireTypes' /\ PackageTypes'
BY DEF receiverVars, WireTypes, PackageTypes, OnWire

\* A step that leaves wire, package and sender alone keeps the row.
LEMMA RowKept ==
    ASSUME Unbroken, UNCHANGED <<wire, receiverVars>>,
           slice' = 0 \/ UNCHANGED <<sending, slice, seq>>
    PROVE  Unbroken'
<1>1. \A q, m, c : InPackage(q, m, c)' <=> InPackage(q, m, c)
  BY DEF InPackage, receiverVars
<1>2. CASE slice' = 0
  BY <1>1, <1>2 DEF Unbroken, Follows
<1>3. CASE UNCHANGED <<sending, slice, seq>>
  BY <1>1, <1>3 DEF Unbroken, Follows
<1> QED
  BY <1>2, <1>3

\* GetSendData begins a message with its slice 0.
LEMMA GetKeeps ==
    ASSUME StreamInv, GetSendData
    PROVE  StreamInv'
<1>1. PICK t \in Types :
                /\ Waiting(t) \in ListsOf(t) /\ Waiting(t) # <<>>
                /\ sending' = Head(Waiting(t)) /\ Waiting(t)' = Tail(Waiting(t))
                /\ \A u \in Types \ {t} : Waiting(u)' = Waiting(u)
  BY GetIs DEF StreamInv
<1>2. slice' = 0 /\ UNCHANGED <<put, seq, wire, receiverVars>>
  BY GetIs DEF StreamInv
<1>3. ListTypes'
  <2>1. Waiting(t)' \in ListsOf(t)
    BY <1>1, ListLess
  <2> QED
    BY <1>1, <1>2, <2>1, ListsByType DEF StreamInv
<1>4. SenderTypes'
  <2>1. sending' \in Message
    BY <1>1, ListLess
  <2>2. SlicesOf(sending'.len) \in Nat \ {0}
    BY <2>1, MessageFields, SlicesCover
  <2> QED
    BY <1>2, <2>1, <2>2 DEF SenderTypes, StreamInv
<1> QED
  BY <1>2, <1>3, <1>4, WireKept, RowKept DEF StreamInv

\* SendSlice puts the next piece on the wire.
LEMMA SendIsPiece ==
    ASSUME StreamInv, SendSlice
    PROVE  /\ sending \in Message /\ sending # NoMessage
           /\ seq \in Nat /\ slice \in Nat /\ slice < SlicesOf(sending.len)
           /\ Piece(seq, sending, slice) \in Pieces
           /\ wire' = Append(wire, Piece(seq, sending, slice))
<1>1. /\ sending \in Message /\ sending # NoMessage
      /\ seq \in Nat /\ slice \in Nat /\ slice < SlicesOf(sending.len)
  BY DEF StreamInv, SenderTypes, SendSlice
<1> QED
  BY <1>1, PieceOK, SliceIsPiece DEF SendSlice

\* SendSlice puts the next slice behind the row.
LEMMA SendKeeps ==
    ASSUME StreamInv, SendSlice
    PROVE  StreamInv'
<1> DEFINE e == Piece(seq, sending, slice)
<1>1. /\ sending \in Message /\ sending # NoMessage
      /\ seq \in Nat /\ slice \in Nat /\ slice < SlicesOf(sending.len)
      /\ e \in Pieces
      /\ wire' = Append(wire, e)
  BY SendIsPiece
<1>2. e.seq = seq /\ e.msg = sending /\ e.cur = slice
  BY <1>1, PieceOK
<1>3. /\ wire \in Seq(Pieces) /\ pos \in 0 .. OnWire /\ pos <= RecvBufSize
      /\ UNCHANGED <<cmdList, audioList, videoList, put, receiverVars>>
  BY DEF StreamInv, WireTypes, SendSlice
<1>4. \/ sending' = NoMessage /\ slice' = 0 /\ seq' = seq + 1
      \/ /\ slice + 1 # SlicesOf(sending.len)
         /\ slice' = slice + 1 /\ UNCHANGED <<sending, seq>>
  BY DEF SendSlice
<1>5. ListTypes'
  BY <1>3 DEF StreamInv, ListTypes
<1>6. SenderTypes'
  <2>1. SlicesOf(sending.len) \in Nat
    BY <1>1, MessageFields, SlicesCover
  <2> QED
    BY <1>1, <1>4, <2>1 DEF SenderTypes
<1>7. WireTypes'
  <2>1. \A s \in Pieces : PackageSize(s) \in Nat
    BY PieceFacts
  <2>2. Bytes(wire) \in Nat /\ Bytes(Append(wire, e)) = Bytes(wire) + PackageSize(e)
    BY <1>1, <1>3, <2>1, BytesAppend
  <2>3. wire' \in Seq(Pieces)
    BY <1>1, <1>3, OneMore
  <2>4. pos' = pos
    BY <1>3 DEF receiverVars
  <2>5. PackageSize(e) \in Nat
    BY <1>1, <2>1
  <2>6. OnWire' = OnWire + PackageSize(e) /\ OnWire \in Nat
    BY <1>1, <2>2 DEF OnWire
  <2> HIDE DEF e
  <2> QED
    BY <1>3, <2>3, <2>4, <2>5, <2>6 DEF WireTypes
<1>8. PackageTypes'
  BY <1>3 DEF StreamInv, PackageTypes, receiverVars
<1>9. Unbroken'
  <2>1. /\ Len(wire) \in Nat /\ Len(wire') = Len(wire) + 1
        /\ \A n \in 1 .. Len(wire) : wire'[n] = wire[n]
        /\ wire'[Len(wire) + 1] = e
    BY <1>1, <1>3, OneMore
  <2>2. wire' # <<>> /\ (wire = <<>> <=> Len(wire) = 0)
    BY <1>3, <2>1, EmptySeq
  <2> HIDE DEF e
  <2>4. ASSUME NEW i \in 1 .. Len(wire') - 1
        PROVE  Follows(wire'[i], wire'[i + 1].seq, wire'[i + 1].msg, wire'[i + 1].cur)
    <3>1. CASE i = Len(wire)
      <4>1. wire # <<>> /\ wire'[i] = wire[Len(wire)] /\ wire'[i + 1] = e
        BY <2>1, <2>2, <3>1
      <4> QED
        BY <1>2, <4>1 DEF StreamInv, Unbroken
    <3>2. CASE i # Len(wire)
      <4>1. i \in 1 .. Len(wire) - 1 /\ wire'[i] = wire[i] /\ wire'[i + 1] = wire[i + 1]
        BY <2>1, <3>2
      <4> QED
        BY <4>1 DEF StreamInv, Unbroken
    <3> QED
      BY <3>1, <3>2
  <2>5. Follows(wire'[Len(wire')], seq', sending', slice')
    <3>1. wire'[Len(wire')] = e
      BY <2>1
    <3>2. slice' = 0 \/ (slice' = slice + 1 /\ slice' - 1 = slice /\ sending' = sending /\ seq' = seq)
      BY <1>1, <1>4
    <3> QED
      BY <3>1, <3>2 DEF Follows, e
  <2>6. wire'[1].cur > 0 => InPackage(wire'[1].seq, wire'[1].msg, wire'[1].cur)
    <3>1. CASE wire = <<>>
      <4>1. wire'[1] = e
        BY <2>1, <2>2, <3>1
      <4> QED
        BY <1>2, <3>1, <4>1 DEF StreamInv, Unbroken
    <3>2. CASE wire # <<>>
      <4>1. wire'[1] = wire[1]
        BY <2>1, <2>2, <3>2
      <4> QED
        BY <3>2, <4>1 DEF StreamInv, Unbroken
    <3> QED
      BY <3>1, <3>2
  <2>7. header' = header /\ combinePackage' = combinePackage
    BY <1>3 DEF receiverVars
  <2> QED
    BY <2>2, <2>4, <2>5, <2>6, <2>7 DEF Unbroken, InPackage
<1> QED
  BY <1>5, <1>6, <1>7, <1>8, <1>9 DEF StreamInv

\* What Process does with the slice at the head of the buffer: the last slice of
\* a message completes it, in its length, and no other does.
LEMMA ProcessIs ==
    ASSUME StreamInv, Process
    PROVE  /\ wire # <<>> /\ wire[1] \in Pieces /\ wire' = Tail(wire)
           /\ pos >= PackageSize(wire[1]) /\ pos' = pos - PackageSize(wire[1])
           /\ header' = wire[1].msg
           /\ IsLast(wire[1]) =>
                /\ delivered' = [msg |-> wire[1].msg, dataSize |-> wire[1].msg.len]
                /\ combinePackage'.recv = 0 /\ combinePackage'.mask = {}
           /\ ~IsLast(wire[1]) =>
                /\ delivered' = delivered
                /\ combinePackage' = [seq |-> wire[1].seq, slices |-> wire[1].slices,
                                      recv |-> wire[1].cur + 1, mask |-> 0 .. wire[1].cur,
                                      dataSize |-> (wire[1].cur + 1) * MaxSlice]
           /\ UNCHANGED senderVars
<1> DEFINE s == wire[1]
           p == Combine(s)
           total == s.cur * MaxSlice + s.size
<1>1. wire \in Seq(Pieces) /\ pos \in 0 .. OnWire
  BY DEF StreamInv, WireTypes
<1>2. wire # <<>>
  <2>1. pos > 0
    BY <1>1, Sizes, WireBytes DEF Process, HasSlice, OnWire
  <2> QED
    BY <1>1, <2>1, WireBytes DEF OnWire
<1>3. s \in Pieces
  BY <1>1, <1>2, OneLess
<1>4. s.cur > 0 => InPackage(s.seq, s.msg, s.cur)
  BY <1>2 DEF StreamInv, Unbroken
<1>5. /\ s.cur \in Nat /\ s.slices \in Nat /\ s.size \in 0 .. MaxSlice /\ s.cur < s.slices
      /\ s.seq \in Nat /\ MaxSlice \in Nat
      /\ ~IsLast(s) => s.size = MaxSlice
      /\ IsLast(s) => total = s.msg.len
  BY <1>3, PieceFacts, Sizes
<1>6. /\ p = [seq |-> s.seq, slices |-> s.slices, recv |-> s.cur + 1,
              mask |-> 0 .. s.cur, dataSize |-> total]
      /\ s.cur > 0 => header = s.msg
  BY <1>3, <1>4, CombineHolds
<1>7. /\ header' = IF s.cur = 0 THEN s.msg ELSE header
      /\ IF IsDone(p)
         THEN /\ delivered' = [msg |-> header', dataSize |-> p.dataSize]
              /\ combinePackage' = ResetData(p)
         ELSE /\ combinePackage' = p
              /\ UNCHANGED delivered
      /\ pos' = pos - PackageSize(s)
      /\ pos >= PackageSize(s)
      /\ wire' = Tail(wire)
      /\ UNCHANGED senderVars
  BY DEF Process, HasSlice
<1> HIDE DEF p, s
<1>8. header' = s.msg
  BY <1>5, <1>6, <1>7
<1>9. p.recv = s.cur + 1 /\ p.slices = s.slices /\ p.dataSize = total
  BY <1>6
<1>10. IsDone(p) <=> IsLast(s)
  <2>1. IsDone(p) <=> s.cur + 1 >= s.slices
    BY <1>9 DEF IsDone
  <2>2. s.cur \in Nat /\ s.slices \in Nat /\ s.cur < s.slices
    BY <1>5
  <2> QED
    BY <2>1, <2>2 DEF IsLast
<1>11. CASE IsLast(s)
  <2>1. delivered' = [msg |-> s.msg, dataSize |-> s.msg.len] /\ combinePackage' = ResetData(p)
    BY <1>5, <1>7, <1>8, <1>9, <1>10, <1>11
  <2>2. p \in Packages
    <3>1. total \in Nat /\ s.cur + 1 \in Nat /\ 0 .. s.cur \in SUBSET Nat
      BY <1>5
    <3> HIDE DEF total
    <3> QED
      BY <1>5, <1>6, <3>1 DEF Packages
  <2>3. ResetData(p).recv = 0 /\ ResetData(p).mask = {}
    BY <2>2 DEF ResetData, Packages
  <2> QED
    BY <1>2, <1>3, <1>7, <1>8, <1>11, <2>1, <2>3 DEF s
<1>12. CASE ~IsLast(s)
  <2>1. combinePackage' = p /\ delivered' = delivered
    BY <1>7, <1>10, <1>12
  <2>2. total = (s.cur + 1) * MaxSlice
    BY <1>5, <1>12
  <2> HIDE DEF total
  <2>3. combinePackage' = [seq |-> s.seq, slices |-> s.slices, recv |-> s.cur + 1,
                           mask |-> 0 .. s.cur, dataSize |-> (s.cur + 1) * MaxSlice]
    BY <1>6, <2>1, <2>2
  <2> QED
    BY <1>2, <1>3, <1>7, <1>8, <1>12, <2>1, <2>3 DEF s
<1> QED
  BY <1>11, <1>12

\* Process takes the first slice of the row into the package.
LEMMA ProcessKeeps ==
    ASSUME StreamInv, Process
    PROVE  StreamInv'
<1> DEFINE s == wire[1]
<1>1. /\ wire # <<>> /\ s \in Pieces /\ wire' = Tail(wire)
      /\ pos >= PackageSize(s) /\ pos' = pos - PackageSize(s)
      /\ header' = s.msg
      /\ IsLast(s) => delivered'.msg = s.msg /\ combinePackage'.recv = 0 /\ combinePackage'.mask = {}
      /\ ~IsLast(s) =>
            /\ delivered' = delivered
            /\ combinePackage' = [seq |-> s.seq, slices |-> s.slices, recv |-> s.cur + 1,
                                  mask |-> 0 .. s.cur, dataSize |-> (s.cur + 1) * MaxSlice]
      /\ UNCHANGED senderVars
  BY ProcessIs
<1>2. wire \in Seq(Pieces) /\ pos \in 0 .. OnWire /\ pos <= RecvBufSize
  BY DEF StreamInv, WireTypes
<1>3. /\ s.msg \in Message /\ s.cur \in Nat /\ s.slices \in Nat /\ s.cur < s.slices
      /\ PackageSize(s) \in Nat
  BY <1>1, PieceFacts
<1>4. /\ wire' \in Seq(Pieces)
      /\ Len(wire) \in Nat \ {0} /\ Len(wire') = Len(wire) - 1
      /\ \A n \in 1 .. Len(wire) - 1 : wire'[n] = wire[n + 1]
  BY <1>1, <1>2, OneLess
<1>5. ListTypes' /\ SenderTypes'
  BY <1>1 DEF StreamInv, ListTypes, SenderTypes, senderVars
<1>6. WireTypes'
  <2>1. \A x \in Pieces : PackageSize(x) \in Nat
    BY PieceFacts
  <2>2. OnWire' \in Nat /\ OnWire = PackageSize(s) + OnWire'
    BY <1>1, <1>2, <2>1, BytesTail DEF OnWire
  <2> HIDE DEF s
  <2> QED
    BY <1>1, <1>2, <1>3, <1>4, <2>2, Sizes DEF WireTypes
<1>7. PackageTypes'
  <2>1. /\ combinePackage'.recv \in Nat
        /\ combinePackage'.mask = 0 .. combinePackage'.recv - 1
    <3> HIDE DEF s
    <3>1. CASE IsLast(s)
      <4>1. 0 .. 0 - 1 = {} /\ combinePackage'.recv = 0 /\ combinePackage'.mask = {}
        BY <1>1, <3>1
      <4> QED
        BY <4>1
    <3>2. CASE ~IsLast(s)
      <4>1. combinePackage'.recv = s.cur + 1 /\ combinePackage'.mask = 0 .. s.cur
        BY <1>1, <3>2
      <4> QED
        BY <1>3, <4>1
    <3> QED
      BY <3>1, <3>2
  <2>2. delivered'.msg \in Message \cup {NoMessage}
    BY <1>1, <1>3 DEF StreamInv, PackageTypes
  <2> QED
    BY <1>1, <1>3, <2>1, <2>2 DEF PackageTypes
<1>8. ASSUME NEW q, NEW m \in Message, NEW i \in Nat, i > 0, i < SlicesOf(m.len),
             s = Piece(q, m, i - 1)
      PROVE  /\ header' = m
             /\ combinePackage' = [seq |-> q, slices |-> SlicesOf(m.len), recv |-> i,
                                   mask |-> 0 .. i - 1, dataSize |-> i * MaxSlice]
  <2>1. s.seq = q /\ s.msg = m /\ s.cur = i - 1 /\ s.slices = SlicesOf(m.len)
    BY <1>8 DEF Piece
  <2> HIDE DEF s
  <2>2. SlicesOf(m.len) \in Nat
    BY MessageFields, SlicesCover
  <2>3. ~IsLast(s) /\ s.cur + 1 = i
    BY <1>8, <2>1, <2>2 DEF IsLast
  <2> QED
    BY <1>1, <2>1, <2>3
<1>9. Unbroken'
  <2>1. ASSUME NEW i \in 1 .. Len(wire') - 1
        PROVE  Follows(wire'[i], wire'[i + 1].seq, wire'[i + 1].msg, wire'[i + 1].cur)
    <3>1. /\ i + 1 \in 1 .. Len(wire) - 1 /\ i \in 1 .. Len(wire) - 1
      BY <1>4
    <3>2. wire'[i] = wire[i + 1] /\ wire'[i + 1] = wire[i + 1 + 1]
      BY <1>4, <3>1
    <3> QED
      BY <3>1, <3>2 DEF StreamInv, Unbroken
  <2>2. UNCHANGED <<seq, sending, slice>>
    BY <1>1 DEF senderVars
  <2>3. wire' # <<>> => Follows(wire'[Len(wire')], seq', sending', slice')
    <3> SUFFICES ASSUME wire' # <<>> PROVE Follows(wire'[Len(wire')], seq', sending', slice')
      OBVIOUS
    <3>1. Len(wire') \in 1 .. Len(wire) - 1 /\ Len(wire') + 1 = Len(wire)
      BY <1>4, EmptySeq
    <3>2. wire'[Len(wire')] = wire[Len(wire)]
      BY <1>4, <3>1
    <3> QED
      BY <1>1, <2>2, <3>2 DEF StreamInv, Unbroken
  <2>4. ASSUME wire' # <<>>, wire'[1].cur > 0
        PROVE  /\ header' = wire'[1].msg
               /\ combinePackage' = [seq |-> wire'[1].seq, slices |-> SlicesOf(wire'[1].msg.len),
                                     recv |-> wire'[1].cur, mask |-> 0 .. wire'[1].cur - 1,
                                     dataSize |-> wire'[1].cur * MaxSlice]
    <3> DEFINE x == wire'[1]
    <3>1. 1 \in 1 .. Len(wire) - 1 /\ 1 \in 1 .. Len(wire')
      BY <1>4, <2>4, EmptySeq
    <3>2. x = wire[1 + 1] /\ x \in Pieces
      BY <1>4, <3>1, ElementOfSeq
    <3>3. Follows(s, x.seq, x.msg, x.cur)
      BY <3>1, <3>2 DEF StreamInv, Unbroken
    <3>4. /\ x.msg \in Message /\ x.cur \in Nat /\ x.cur < SlicesOf(x.msg.len)
      BY <3>2, PieceFacts
    <3>5. x.cur > 0
      BY <2>4
    <3> HIDE DEF x, s
    <3>6. s = Piece(x.seq, x.msg, x.cur - 1)
      BY <3>3, <3>5 DEF Follows
    <3>7. /\ header' = x.msg
          /\ combinePackage' = [seq |-> x.seq, slices |-> SlicesOf(x.msg.len), recv |-> x.cur,
                                mask |-> 0 .. x.cur - 1, dataSize |-> x.cur * MaxSlice]
      BY <1>8, <3>4, <3>5, <3>6
    <3> QED
      BY <3>7 DEF x
  <2>5. ASSUME wire' = <<>>, slice' > 0
        PROVE  /\ header' = sending'
               /\ combinePackage' = [seq |-> seq', slices |-> SlicesOf(sending'.len), recv |-> slice',
                                     mask |-> 0 .. slice' - 1, dataSize |-> slice' * MaxSlice]
    <3>1. Len(wire) = 1
      BY <1>4, <2>5, EmptySeq
    <3>2. Follows(s, seq, sending, slice)
      BY <1>1, <3>1 DEF StreamInv, Unbroken
    <3>3. sending \in Message /\ slice \in Nat /\ slice > 0 /\ slice < SlicesOf(sending.len)
      BY <2>2, <2>5 DEF StreamInv, SenderTypes
    <3> HIDE DEF s
    <3>4. s = Piece(seq, sending, slice - 1)
      BY <3>2, <3>3 DEF Follows
    <3> QED
      BY <1>8, <2>2, <3>3, <3>4
  <2> HIDE DEF s
  <2> QED
    BY <2>1, <2>3, <2>4, <2>5 DEF Unbroken, InPackage
<1> QED
  BY <1>5, <1>6, <1>7, <1>9 DEF StreamInv

\* The invariant is inductive.
LEMMA StreamInvStep ==
    ASSUME StreamInv, [StreamNext]_streamVars
    PROVE  StreamInv'
<1>1. ASSUME NEW t \in Types, NEW n \in Lengths, PutSendData(t, n)
      PROVE  StreamInv'
  <2>1. UNCHANGED <<sending, slice, seq, wire, receiverVars>>
    BY <1>1 DEF PutSendData
  <2>2. ListTypes'
    BY <1>1, PutKeeps DEF StreamInv
  <2>3. SenderTypes'
    BY <2>1 DEF StreamInv, SenderTypes
  <2> QED
    BY <2>1, <2>2, <2>3, WireKept, RowKept DEF StreamInv
<1>2. CASE Clear
  <2>1. UNCHANGED <<sending, slice, seq, wire, receiverVars>>
    BY <1>2 DEF Clear
  <2>2. ListTypes'
    <3>1. <<>> \in Seq(Message) /\ Len(<<>>) = 0
      BY EmptySeq
    <3> QED
      BY <1>2, <3>1 DEF Clear, StreamInv, ListTypes, ListsOf
  <2>3. SenderTypes'
    BY <2>1 DEF StreamInv, SenderTypes
  <2> QED
    BY <2>1, <2>2, <2>3, WireKept, RowKept DEF StreamInv
<1>3. CASE GetSendData
  BY <1>3, GetKeeps
<1>4. CASE SendSlice
  BY <1>4, SendKeeps
<1>5. CASE SendFails
  <2>1. /\ UNCHANGED <<cmdList, audioList, videoList, put, wire, receiverVars>>
        /\ sending' = NoMessage /\ slice' = 0 /\ seq' = seq + 1
    BY <1>5 DEF SendFails
  <2>2. ListTypes'
    BY <2>1 DEF StreamInv, ListTypes
  <2>3. SenderTypes'
    BY <2>1 DEF StreamInv, SenderTypes
  <2> QED
    BY <2>1, <2>2, <2>3, WireKept, RowKept DEF StreamInv
<1>6. CASE Recv
  <2>1. PICK n \in 1 .. OnWire - pos : pos + n <= RecvBufSize /\ pos' = pos + n
    BY <1>6 DEF Recv
  <2>2. UNCHANGED <<senderVars, wire, combinePackage, header, delivered>>
    BY <1>6 DEF Recv
  <2>3. wire \in Seq(Pieces) /\ pos \in 0 .. OnWire
    BY DEF StreamInv, WireTypes
  <2>4. OnWire \in Nat /\ OnWire' = OnWire
    BY <2>2, <2>3, WireBytes DEF OnWire
  <2>5. WireTypes'
    BY <2>1, <2>2, <2>3, <2>4 DEF WireTypes
  <2>6. ListTypes' /\ SenderTypes' /\ PackageTypes'
    BY <2>2 DEF StreamInv, ListTypes, SenderTypes, PackageTypes, senderVars
  <2>7. Unbroken'
    BY <2>2 DEF StreamInv, Unbroken, InPackage, senderVars
  <2> QED
    BY <2>5, <2>6, <2>7 DEF StreamInv
<1>7. CASE Process
  BY <1>7, ProcessKeeps
<1>8. CASE UNCHANGED streamVars
  <2>1. UNCHANGED <<senderVars, wire, receiverVars>>
    BY <1>8 DEF streamVars
  <2>2. ListTypes' /\ SenderTypes'
    BY <2>1 DEF StreamInv, ListTypes, SenderTypes, senderVars
  <2>3. UNCHANGED <<sending, slice, seq>>
    BY <2>1 DEF senderVars
  <2> QED
    BY <2>1, <2>2, <2>3, WireKept, RowKept DEF StreamInv
<1> QED
  BY <1>1, <1>2, <1>3, <1>4, <1>5, <1>6, <1>7, <1>8 DEF StreamNext

\* The row is unbroken in every state.
LEMMA StreamKeepsInv == StreamSpec => []StreamInv
<1>1. StreamInv /\ [StreamNext]_streamVars => StreamInv'
  BY StreamInvStep
<1> QED
  BY StreamInvInit, <1>1, PTL DEF StreamSpec

\* The lists hold messages, and the receiver's buffer is a part of the stream.
THEOREM StreamTypeCorrect == StreamSpec => []StreamTypeOK
<1>1. StreamInv => StreamTypeOK
  <2> SUFFICES ASSUME StreamInv PROVE StreamTypeOK
    OBVIOUS
  <2>1. \A t \in Types : Waiting(t) \in Seq(Message)
    BY ListsByType DEF StreamInv, ListsOf
  <2>2. sending \in Message \cup {NoMessage} /\ pos \in 0 .. OnWire /\ pos <= RecvBufSize
    BY DEF StreamInv, SenderTypes, WireTypes
  <2>3. combinePackage.recv \in Nat /\ combinePackage.mask = 0 .. combinePackage.recv - 1
    BY DEF StreamInv, PackageTypes
  <2>4. Cardinality(0 .. combinePackage.recv - 1) = combinePackage.recv
    BY <2>3, FS_Interval
  <2> QED
    BY <2>1, <2>2, <2>3, <2>4 DEF StreamTypeOK
<1> QED
  BY <1>1, StreamKeepsInv, PTL

\* The receive loop never asks recv() for no bytes (TcpClient.cpp:434).
THEOREM AlwaysRoom == StreamSpec => []RoomToRecv
<1>1. StreamInv => RoomToRecv
  <2> SUFFICES ASSUME StreamInv, ~HasSlice PROVE pos < RecvBufSize
    BY DEF RoomToRecv
  <2>1. wire \in Seq(Pieces) /\ pos \in 0 .. OnWire /\ pos <= RecvBufSize /\ OnWire \in Nat
    BY WireBytes DEF StreamInv, WireTypes, OnWire
  <2>2. CASE wire = <<>>
    <3>1. pos = 0
      <4>1. Bytes(wire) = 0
        BY <2>1, <2>2, WireBytes
      <4> QED
        BY <2>1, <4>1 DEF OnWire
    <3> QED
      BY <3>1, Sizes
  <2>3. CASE wire # <<>>
    <3>1. wire[1] \in Pieces
      BY <2>1, <2>3, OneLess
    <3>2. PackageSize(wire[1]) \in Nat /\ PackageSize(wire[1]) <= HeadSize + MaxSlice
      BY <3>1, PieceFacts
    <3>3. ~(pos >= HeadSize /\ pos >= PackageSize(wire[1]))
      BY DEF HasSlice
    <3> QED
      BY <2>1, <3>2, <3>3, Sizes
  <2> QED
    BY <2>2, <2>3
<1> QED
  BY <1>1, StreamKeepsInv, PTL

-----------------------------------------------------------------------------
(* The two loops implement the FIFO *)

\* The head of a list with one message in front.
LEMMA ConsHead ==
    ASSUME NEW M, NEW m \in M, NEW x \in Seq(M)
    PROVE  /\ <<m>> \o x # <<>>
           /\ Head(<<m>> \o x) = m
           /\ Tail(<<m>> \o x) = x
           /\ <<>> \o x = x
OBVIOUS

\* The last slice of a message is the Send of the FIFO, processing it the Receive.
LEMMA FifoStep ==
    ASSUME StreamInv, [StreamNext]_streamVars
    PROVE  [Fifo!Next]_<<SentWhole, Received>>
<1>1. ASSUME UNCHANGED <<wire, delivered>>
      PROVE  UNCHANGED <<SentWhole, Received>>
  BY <1>1 DEF SentWhole, Received
<1>2. \A s \in Pieces : s.msg \in Message
  BY PieceFacts
<1>3. wire \in Seq(Pieces)
  BY DEF StreamInv, WireTypes
<1>4. CASE SendSlice
  <2> DEFINE e == Piece(seq, sending, slice)
  <2>1. sending \in Message /\ e \in Pieces /\ wire' = Append(wire, e)
    BY <1>4, SendIsPiece
  <2>2. e.msg = sending
    BY DEF Piece
  <2>3. delivered' = delivered
    BY <1>4 DEF SendSlice, receiverVars
  <2> HIDE DEF e
  <2>4. /\ IsLast(e) => Whole(Append(wire, e)) = Append(Whole(wire), e.msg)
        /\ ~IsLast(e) => Whole(Append(wire, e)) = Whole(wire)
    <3>1. e \in Pieces
      BY <2>1
    <3> QED
      BY <1>3, <3>1, WholeAppend
  <2>5. Received' = Received
    BY <2>3 DEF Received
  <2>6. CASE IsLast(e)
    <3>1. SentWhole' = Append(SentWhole, sending)
      BY <2>1, <2>2, <2>4, <2>6 DEF SentWhole
    <3> QED
      BY <2>1, <2>5, <3>1 DEF Fifo!Next, Fifo!Send
  <2>7. CASE ~IsLast(e)
    <3>1. SentWhole' = SentWhole
      BY <2>1, <2>4, <2>7 DEF SentWhole
    <3> QED
      BY <2>5, <3>1
  <2> QED
    BY <2>6, <2>7
<1>5. CASE Process
  <2> DEFINE s == wire[1]
  <2>1. /\ wire # <<>> /\ s \in Pieces /\ wire' = Tail(wire)
        /\ IsLast(s) => delivered' = [msg |-> s.msg, dataSize |-> s.msg.len]
        /\ ~IsLast(s) => delivered' = delivered
    BY <1>5, ProcessIs
  <2>2. s.msg \in Message /\ s.msg # NoMessage
    BY <2>1, PieceFacts
  <2>3. /\ Whole(wire') \in Seq(Message)
        /\ Whole(wire) = (IF IsLast(s) THEN <<s.msg>> ELSE <<>>) \o Whole(wire')
    BY <1>2, <1>3, <2>1, WholeTail
  <2> HIDE DEF s
  <2>4. CASE IsLast(s)
    <3>1. SentWhole # <<>> /\ Head(SentWhole) = s.msg /\ Tail(SentWhole) = SentWhole'
      BY <2>2, <2>3, <2>4, ConsHead DEF SentWhole
    <3>2. Received' = [s.msg EXCEPT !.len = s.msg.len]
      BY <2>1, <2>2, <2>4 DEF Received
    <3>3. [s.msg EXCEPT !.len = s.msg.len] = s.msg
      BY <2>2 DEF Message
    <3> QED
      BY <3>1, <3>2, <3>3 DEF Fifo!Next, Fifo!Receive
  <2>5. CASE ~IsLast(s)
    <3>1. SentWhole' = SentWhole
      BY <2>3, <2>5, ConsHead DEF SentWhole
    <3>2. Received' = Received
      BY <2>1, <2>5 DEF Received
    <3> QED
      BY <3>1, <3>2
  <2> QED
    BY <2>4, <2>5
<1>6. CASE ~SendSlice /\ ~Process
  <2>1. UNCHANGED <<wire, delivered>>
    BY <1>6 DEF StreamNext, PutSendData, Clear, GetSendData, SendFails, Recv, streamVars, receiverVars
  <2> QED
    BY <1>1, <2>1
<1> QED
  BY <1>4, <1>5, <1>6

\* However recv() cuts the stream and wherever a send fails, the loops of sender
\* and receiver together are a FIFO of whole messages.
THEOREM StreamImplementsFifo == StreamSpec => ImplementsFifo
<1>1. StreamInit => Fifo!Init
  <2> SUFFICES ASSUME StreamInit PROVE Fifo!Init
    OBVIOUS
  <2>1. wire = <<>> /\ delivered.msg = NoMessage
    BY DEF StreamInit
  <2>2. Whole(<<>>) = <<>>
    <3>1. \A s \in Pieces : s.msg \in Message
      BY PieceFacts
    <3> QED
      BY <3>1, WholeNone, Zenon
  <2> QED
    BY <2>1, <2>2 DEF Fifo!Init, SentWhole, Received
<1>2. StreamInv /\ [StreamNext]_streamVars => [Fifo!Next]_<<SentWhole, Received>>
  BY FifoStep
<1> QED
  BY <1>1, <1>2, StreamKeepsInv, PTL DEF StreamSpec, ImplementsFifo, Fifo!Spec

-----------------------------------------------------------------------------
(* No message overtakes another one of its type                              *)

Ordered(a, b) == a # NoMessage /\ b # NoMessage /\ a.type = b.type => a.id <= b.id

\* The messages the send thread is through with.
Past == {delivered.msg, header} \cup { wire[i].msg : i \in 1 .. Len(wire) }

WireOrder == /\ Ordered(delivered.msg, header)
             /\ \A i \in 1 .. Len(wire) : /\ Ordered(delivered.msg, wire[i].msg)
                                          /\ Ordered(header, wire[i].msg)
             /\ \A i, j \in 1 .. Len(wire) : i < j => Ordered(wire[i].msg, wire[j].msg)

SendOrder == \A m \in Past : Ordered(m, sending)

WaitOrder == \A m \in Past \cup {sending} : \A t \in Types :
                 \A k \in 1 .. Len(Waiting(t)) : Ordered(m, Waiting(t)[k])

ListOrder == \A t \in Types : \A j, k \in 1 .. Len(Waiting(t)) :
                 j < k => Waiting(t)[j].id <= Waiting(t)[k].id

\* Messages are numbered as they are put.
Numbered == /\ \A m \in Past \cup {sending} : m # NoMessage => m.id <= put
            /\ \A t \in Types : \A k \in 1 .. Len(Waiting(t)) : Waiting(t)[k].id <= put

InOrder == WireOrder /\ SendOrder /\ WaitOrder /\ ListOrder /\ Numbered

\* What there is to compare.
LEMMA Comparable ==
    ASSUME StreamInv
    PROVE  /\ Past \subseteq Message \cup {NoMessage}
           /\ sending \in Message \cup {NoMessage}
           /\ put \in Nat
           /\ \A t \in Types : /\ Waiting(t) \in ListsOf(t) /\ Waiting(t) \in Seq(Message)
                               /\ Len(Waiting(t)) \in Nat
                               /\ \A k \in 1 .. Len(Waiting(t)) : /\ Waiting(t)[k] \in Message
                                                                  /\ Waiting(t)[k].type = t
           /\ \A m \in Message : m.id \in Nat
<1>1. \A i \in 1 .. Len(wire) : wire[i].msg \in Message
  <2> SUFFICES ASSUME NEW i \in 1 .. Len(wire) PROVE wire[i].msg \in Message
    OBVIOUS
  <2>1. wire[i] \in Pieces
    BY ElementOfSeq DEF StreamInv, WireTypes
  <2> QED
    BY <2>1, PieceFacts
<1>2. Past \subseteq Message \cup {NoMessage}
  BY <1>1 DEF Past, StreamInv, PackageTypes
<1>3. sending \in Message \cup {NoMessage} /\ put \in Nat
  BY Sizes DEF StreamInv, SenderTypes, ListTypes
<1>4. ASSUME NEW t \in Types
      PROVE  /\ Waiting(t) \in ListsOf(t) /\ Waiting(t) \in Seq(Message)
             /\ Len(Waiting(t)) \in Nat
             /\ \A k \in 1 .. Len(Waiting(t)) : /\ Waiting(t)[k] \in Message
                                                /\ Waiting(t)[k].type = t
  <2>1. Waiting(t) \in ListsOf(t)
    BY ListsByType DEF StreamInv
  <2>2. Waiting(t) \in Seq(Message) /\ \A k \in 1 .. Len(Waiting(t)) : Waiting(t)[k].type = t
    BY <2>1 DEF ListsOf
  <2>3. Len(Waiting(t)) \in Nat /\ \A k \in 1 .. Len(Waiting(t)) : Waiting(t)[k] \in Message
    BY <2>2, LenProperties, ElementOfSeq
  <2> QED
    BY <2>1, <2>2, <2>3
<1>5. \A m \in Message : m.id \in Nat
  BY MessageFields
<1> QED
  BY <1>2, <1>3, <1>4, <1>5

\* A step that leaves wire, receiver and sender alone and adds nothing to the lists.
LEMMA PastKept ==
    ASSUME UNCHANGED <<wire, receiverVars>>
    PROVE  Past' = Past /\ (WireOrder => WireOrder')
BY DEF Past, WireOrder, receiverVars

\* A message put has the highest number so far, behind all others.
LEMMA PutOrder ==
    ASSUME StreamInv, InOrder, NEW t \in Types, NEW n \in Lengths, PutSendData(t, n)
    PROVE  InOrder'
<1> DEFINE m == [id |-> put + 1, type |-> t, len |-> n]
<1>1. /\ UNCHANGED <<sending, wire, receiverVars>> /\ put' = put + 1
      /\ \A u \in Types : Waiting(u)' = Waiting(u) \/ Waiting(u)' = Append(Waiting(u), m)
  BY DEF PutSendData, Waiting, Types
<1>2. m.id = put + 1
  OBVIOUS
<1> HIDE DEF m
<1>3. Past' = Past /\ WireOrder' /\ sending' = sending
  BY <1>1, PastKept DEF InOrder
<1>4. SendOrder'
  BY <1>3 DEF InOrder, SendOrder
<1>5. \A x \in Past \cup {sending} : x # NoMessage => x.id \in Nat /\ x.id <= put
  BY Comparable DEF InOrder, Numbered
<1>6. put \in Nat
  BY Comparable
<1>7. \A x \in Past \cup {sending} : Ordered(x, m)
  BY <1>2, <1>5, <1>6 DEF Ordered
<1>8. ASSUME NEW u \in Types
      PROVE  /\ \A k \in 1 .. Len(Waiting(u)') : \A x \in Past \cup {sending} : Ordered(x, Waiting(u)'[k])
             /\ \A j, k \in 1 .. Len(Waiting(u)') : j < k => Waiting(u)'[j].id <= Waiting(u)'[k].id
             /\ \A k \in 1 .. Len(Waiting(u)') : Waiting(u)'[k].id <= put + 1
  <2> DEFINE old == Waiting(u)
             new == Waiting(u)'
  <2>1. /\ old \in Seq(Message) /\ Len(old) \in Nat
        /\ \A k \in 1 .. Len(old) : /\ old[k].id \in Nat /\ old[k].id <= put
                                    /\ \A x \in Past \cup {sending} : Ordered(x, old[k])
        /\ \A j, k \in 1 .. Len(old) : j < k => old[j].id <= old[k].id
    BY Comparable DEF InOrder, WaitOrder, ListOrder, Numbered
  <2>2. new = old \/ new = Append(old, m)
    BY <1>1
  <2> HIDE DEF old, new
  <2>3. CASE new = old
    BY <1>6, <2>1, <2>3 DEF new
  <2>4. CASE new = Append(old, m)
    <3>1. /\ Len(new) = Len(old) + 1
          /\ \A k \in 1 .. Len(old) : new[k] = old[k]
          /\ new[Len(old) + 1] = m
      BY <2>1, <2>4, AppendProperties
    <3>2. \A k \in 1 .. Len(new) : k \in 1 .. Len(old) \/ (k = Len(old) + 1 /\ new[k] = m)
      BY <2>1, <3>1
    <3>3. \A k \in 1 .. Len(new) : \A x \in Past \cup {sending} : Ordered(x, new[k])
      BY <1>7, <2>1, <3>1, <3>2
    <3>4. \A k \in 1 .. Len(new) : new[k].id <= put + 1
      BY <1>2, <1>6, <2>1, <3>1, <3>2
    <3>5. \A j, k \in 1 .. Len(new) : j < k => new[j].id <= new[k].id
      <4> SUFFICES ASSUME NEW j \in 1 .. Len(new), NEW k \in 1 .. Len(new), j < k
                   PROVE  new[j].id <= new[k].id
        OBVIOUS
      <4>1. j \in 1 .. Len(old)
        BY <2>1, <3>1
      <4>2. CASE k \in 1 .. Len(old)
        BY <2>1, <3>1, <4>1, <4>2
      <4>3. CASE new[k] = m
        BY <1>2, <1>6, <2>1, <3>1, <4>1, <4>3
      <4> QED
        BY <3>2, <4>2, <4>3
    <3> QED
      BY <3>3, <3>4, <3>5 DEF new
  <2> QED
    BY <2>2, <2>3, <2>4
<1>9. WaitOrder' /\ ListOrder'
  BY <1>3, <1>8 DEF WaitOrder, ListOrder
<1>10. Numbered'
  BY <1>1, <1>3, <1>5, <1>6, <1>8 DEF Numbered
<1> QED
  BY <1>3, <1>4, <1>9, <1>10 DEF InOrder

\* The message taken is the oldest of its list, behind all that left it.
LEMMA GetOrder ==
    ASSUME StreamInv, InOrder, GetSendData
    PROVE  InOrder'
<1>1. PICK t \in Types :
                /\ Waiting(t) \in ListsOf(t) /\ Waiting(t) # <<>>
                /\ sending' = Head(Waiting(t)) /\ Waiting(t)' = Tail(Waiting(t))
                /\ \A u \in Types \ {t} : Waiting(u)' = Waiting(u)
  BY GetIs DEF StreamInv
<1>2. UNCHANGED <<put, wire, receiverVars>>
  BY GetIs DEF StreamInv
<1>3. Past' = Past /\ WireOrder' /\ put' = put
  BY <1>2, PastKept DEF InOrder
<1> DEFINE old == Waiting(t)
           new == Waiting(t)'
<1>4. old \in Seq(Message) /\ old # <<>> /\ new = Tail(old) /\ sending' = Head(old)
  BY <1>1 DEF ListsOf
<1>5. /\ Len(old) \in Nat
      /\ \A k \in 1 .. Len(old) : /\ old[k] \in Message /\ old[k].id \in Nat /\ old[k].id <= put
                                  /\ old[k].type = t
                                  /\ \A x \in Past \cup {sending} : Ordered(x, old[k])
      /\ \A j, k \in 1 .. Len(old) : j < k => old[j].id <= old[k].id
  BY Comparable DEF InOrder, WaitOrder, ListOrder, Numbered
<1>6. \A u \in Types \ {t} : \A k \in 1 .. Len(Waiting(u)) :
          /\ Waiting(u)[k].type = u /\ Waiting(u)[k].id <= put
          /\ \A x \in Past : Ordered(x, Waiting(u)[k])
  BY Comparable DEF InOrder, WaitOrder, Numbered
<1>7. \A u \in Types \ {t} : \A j, k \in 1 .. Len(Waiting(u)) :
          j < k => Waiting(u)[j].id <= Waiting(u)[k].id
  BY DEF InOrder, ListOrder
<1> HIDE DEF old, new
<1>8. /\ Len(old) \in Nat \ {0} /\ 1 \in 1 .. Len(old) /\ sending' = old[1]
      /\ Len(new) = Len(old) - 1
      /\ \A k \in 1 .. Len(new) : new[k] = old[k + 1] /\ k + 1 \in 1 .. Len(old) /\ 1 < k + 1
  <2>1. Len(new) = Len(old) - 1 /\ \A k \in 1 .. Len(new) : new[k] = old[k + 1]
    BY <1>4, HeadTailProperties
  <2>2. Len(old) \in Nat \ {0}
    BY <1>4, OneLess
  <2>3. Head(old) = old[1]
    BY <1>4, HeadTailProperties
  <2> QED
    BY <1>4, <2>1, <2>2, <2>3
<1>9. SendOrder'
  BY <1>3, <1>5, <1>8 DEF SendOrder
<1>10. \A k \in 1 .. Len(new) : /\ new[k].id <= put
                                /\ \A x \in Past \cup {sending'} : Ordered(x, new[k])
  <2> SUFFICES ASSUME NEW k \in 1 .. Len(new)
               PROVE  /\ new[k].id <= put
                      /\ \A x \in Past \cup {sending'} : Ordered(x, new[k])
    OBVIOUS
  <2>1. new[k] = old[k + 1] /\ k + 1 \in 1 .. Len(old) /\ 1 < k + 1
    BY <1>8
  <2>2. new[k].id <= put /\ \A x \in Past : Ordered(x, new[k])
    BY <1>5, <2>1
  <2>3. Ordered(sending', new[k])
    BY <1>5, <1>8, <2>1 DEF Ordered
  <2> QED
    BY <2>2, <2>3
<1>11. \A j, k \in 1 .. Len(new) : j < k => new[j].id <= new[k].id
  <2> SUFFICES ASSUME NEW j \in 1 .. Len(new), NEW k \in 1 .. Len(new), j < k
               PROVE  new[j].id <= new[k].id
    OBVIOUS
  <2>1. j + 1 < k + 1
    BY <1>8
  <2> QED
    BY <1>5, <1>8, <2>1
<1>12. \A u \in Types \ {t} : \A k \in 1 .. Len(Waiting(u)) : Ordered(sending', Waiting(u)[k])
  BY <1>5, <1>6, <1>8 DEF Ordered
<1>13. WaitOrder'
  <2> SUFFICES ASSUME NEW x \in Past \cup {sending'}, NEW u \in Types,
                      NEW k \in 1 .. Len(Waiting(u)')
               PROVE  Ordered(x, Waiting(u)'[k])
    BY <1>3 DEF WaitOrder
  <2>1. CASE u = t
    BY <1>10, <2>1 DEF new
  <2>2. CASE u # t
    BY <1>1, <1>6, <1>12, <2>2
  <2> QED
    BY <2>1, <2>2
<1>14. ListOrder'
  <2> SUFFICES ASSUME NEW u \in Types,
                      NEW j \in 1 .. Len(Waiting(u)'), NEW k \in 1 .. Len(Waiting(u)'), j < k
               PROVE  Waiting(u)'[j].id <= Waiting(u)'[k].id
    BY DEF ListOrder
  <2>1. CASE u = t
    BY <1>11, <2>1 DEF new
  <2>2. CASE u # t
    BY <1>1, <1>7, <2>2
  <2> QED
    BY <2>1, <2>2
<1>15. Numbered'
  <2>1. \A x \in Past : x # NoMessage => x.id <= put
    BY DEF InOrder, Numbered
  <2>2. sending'.id <= put
    BY <1>5, <1>8
  <2>3. ASSUME NEW u \in Types, NEW k \in 1 .. Len(Waiting(u)')
        PROVE  Waiting(u)'[k].id <= put
    <3>1. CASE u = t
      BY <1>10, <3>1 DEF new
    <3>2. CASE u # t
      BY <1>1, <1>6, <3>2
    <3> QED
      BY <3>1, <3>2
  <2> QED
    BY <1>3, <2>1, <2>2, <2>3 DEF Numbered
<1> QED
  BY <1>3, <1>9, <1>13, <1>14, <1>15 DEF InOrder

\* Steps that empty lists, or drop what is being sent, or move bytes only.
LEMMA OtherOrder ==
    ASSUME StreamInv, InOrder, UNCHANGED <<wire, delivered, header, put>>,
           sending' = sending \/ sending' = NoMessage,
           \A t \in Types : Waiting(t)' = Waiting(t) \/ Waiting(t)' = <<>>
    PROVE  InOrder'
<1>1. Past' = Past /\ WireOrder'
  BY DEF Past, InOrder, WireOrder
<1>2. Len(<<>>) = 0 /\ put' = put
  BY EmptySeq
<1>3. \A x : Ordered(x, NoMessage) /\ Ordered(NoMessage, x)
  BY DEF Ordered
<1>4. SendOrder'
  BY <1>1, <1>3 DEF InOrder, SendOrder
<1>5. WaitOrder'
  BY <1>1, <1>2, <1>3 DEF InOrder, WaitOrder
<1>6. ListOrder'
  BY <1>2 DEF InOrder, ListOrder
<1>7. Numbered'
  BY <1>1, <1>2 DEF InOrder, Numbered
<1> QED
  BY <1>1, <1>4, <1>5, <1>6, <1>7 DEF InOrder

\* A slice goes behind those on the wire.
LEMMA SliceOrder ==
    ASSUME StreamInv, InOrder, SendSlice
    PROVE  InOrder'
<1> DEFINE e == Piece(seq, sending, slice)
<1>1. /\ sending \in Message /\ sending # NoMessage
      /\ e \in Pieces
      /\ wire' = Append(wire, e)
  BY SendIsPiece
<1>2. e.msg = sending
  BY DEF Piece
<1> HIDE DEF e
<1>3. /\ UNCHANGED <<cmdList, audioList, videoList, put, delivered, header>>
      /\ sending' = sending \/ sending' = NoMessage
  BY DEF SendSlice, receiverVars
<1>4. \A t \in Types : Waiting(t)' = Waiting(t)
  BY <1>3 DEF Waiting
<1>5. /\ Len(wire) \in Nat /\ Len(wire') = Len(wire) + 1
      /\ \A n \in 1 .. Len(wire) : wire'[n] = wire[n]
      /\ wire'[Len(wire) + 1] = e
      /\ \A n \in 1 .. Len(wire') : n \in 1 .. Len(wire) \/ (n = Len(wire) + 1 /\ wire'[n] = e)
  <2>1. wire \in Seq(Pieces)
    BY DEF StreamInv, WireTypes
  <2>2. /\ Len(wire) \in Nat /\ Len(wire') = Len(wire) + 1
        /\ \A n \in 1 .. Len(wire) : wire'[n] = wire[n]
        /\ wire'[Len(wire) + 1] = e
    BY <1>1, <2>1, OneMore
  <2> QED
    BY <2>2
<1>6. Past' \subseteq Past \cup {sending}
  BY <1>2, <1>3, <1>5 DEF Past
<1>7. \A m \in Past : Ordered(m, sending)
  BY DEF InOrder, SendOrder
<1>8. delivered.msg \in Past /\ header \in Past /\ \A i \in 1 .. Len(wire) : wire[i].msg \in Past
  BY DEF Past
<1>9. WireOrder'
  <2>1. Ordered(delivered'.msg, header')
    BY <1>3 DEF InOrder, WireOrder
  <2>2. ASSUME NEW i \in 1 .. Len(wire')
        PROVE  Ordered(delivered'.msg, wire'[i].msg) /\ Ordered(header', wire'[i].msg)
    <3>1. CASE i \in 1 .. Len(wire)
      BY <1>3, <1>5, <3>1 DEF InOrder, WireOrder
    <3>2. CASE wire'[i] = e
      BY <1>2, <1>3, <1>7, <1>8, <3>2
    <3> QED
      BY <1>5, <3>1, <3>2
  <2>3. ASSUME NEW i \in 1 .. Len(wire'), NEW j \in 1 .. Len(wire'), i < j
        PROVE  Ordered(wire'[i].msg, wire'[j].msg)
    <3>1. i \in 1 .. Len(wire) /\ wire'[i] = wire[i]
      BY <1>5, <2>3
    <3>2. CASE j \in 1 .. Len(wire)
      BY <1>5, <2>3, <3>1, <3>2 DEF InOrder, WireOrder
    <3>3. CASE wire'[j] = e
      BY <1>2, <1>7, <1>8, <3>1, <3>3
    <3> QED
      BY <1>5, <3>2, <3>3
  <2> QED
    BY <2>1, <2>2, <2>3 DEF WireOrder
<1>10. \A x : Ordered(x, NoMessage) /\ Ordered(NoMessage, x)
  BY DEF Ordered
<1>11. Ordered(sending, sending)
  BY <1>1, Comparable DEF Ordered
<1>12. SendOrder'
  BY <1>3, <1>6, <1>7, <1>10, <1>11 DEF SendOrder
<1>13. WaitOrder'
  BY <1>3, <1>4, <1>6, <1>10 DEF InOrder, WaitOrder
<1>14. ListOrder'
  BY <1>4 DEF InOrder, ListOrder
<1>15. Numbered'
  BY <1>3, <1>4, <1>6 DEF InOrder, Numbered
<1> QED
  BY <1>9, <1>12, <1>13, <1>14, <1>15 DEF InOrder

\* The first slice on the wire comes before the rest of them.
LEMMA ProcessOrder ==
    ASSUME StreamInv, InOrder, Process
    PROVE  InOrder'
<1> DEFINE m == wire[1].msg
<1>1. /\ wire # <<>> /\ wire[1] \in Pieces /\ wire' = Tail(wire)
      /\ header' = m
      /\ delivered'.msg = m \/ delivered' = delivered
      /\ UNCHANGED senderVars
  BY ProcessIs
<1>2. m \in Message
  BY <1>1, PieceFacts
<1>3. /\ Len(wire) \in Nat \ {0} /\ 1 \in 1 .. Len(wire) /\ Len(wire') = Len(wire) - 1
      /\ \A n \in 1 .. Len(wire') : wire'[n] = wire[n + 1] /\ n + 1 \in 1 .. Len(wire) /\ 1 < n + 1
  <2>1. wire \in Seq(Pieces)
    BY DEF StreamInv, WireTypes
  <2>2. /\ Len(wire) \in Nat \ {0} /\ Len(wire') = Len(wire) - 1
        /\ \A n \in 1 .. Len(wire) - 1 : wire'[n] = wire[n + 1] /\ n + 1 \in 1 .. Len(wire)
    BY <1>1, <2>1, OneLess
  <2> QED
    BY <2>2
<1>4. \A t \in Types : Waiting(t)' = Waiting(t)
  BY <1>1 DEF Waiting, senderVars
<1>5. sending' = sending /\ put' = put
  BY <1>1 DEF senderVars
<1>6. Ordered(m, m)
  BY <1>2, Comparable DEF Ordered
<1>7. Ordered(delivered.msg, m) /\ \A i \in 1 .. Len(wire) : 1 < i => Ordered(m, wire[i].msg)
  BY <1>3 DEF InOrder, WireOrder
<1>8. Past' \subseteq Past
  BY <1>1, <1>3 DEF Past
<1> HIDE DEF m
<1>9. WireOrder'
  <2>1. Ordered(delivered'.msg, header')
    BY <1>1, <1>6, <1>7
  <2>2. ASSUME NEW i \in 1 .. Len(wire')
        PROVE  Ordered(delivered'.msg, wire'[i].msg) /\ Ordered(header', wire'[i].msg)
    <3>1. wire'[i] = wire[i + 1] /\ i + 1 \in 1 .. Len(wire) /\ 1 < i + 1
      BY <1>3
    <3>2. Ordered(m, wire'[i].msg)
      BY <1>7, <3>1
    <3>3. Ordered(delivered.msg, wire'[i].msg)
      BY <3>1 DEF InOrder, WireOrder
    <3> QED
      BY <1>1, <3>2, <3>3
  <2>3. ASSUME NEW i \in 1 .. Len(wire'), NEW j \in 1 .. Len(wire'), i < j
        PROVE  Ordered(wire'[i].msg, wire'[j].msg)
    <3>1. /\ wire'[i] = wire[i + 1] /\ i + 1 \in 1 .. Len(wire)
          /\ wire'[j] = wire[j + 1] /\ j + 1 \in 1 .. Len(wire)
      BY <1>3
    <3>2. i + 1 < j + 1
      BY <1>3, <2>3
    <3> QED
      BY <3>1, <3>2 DEF InOrder, WireOrder
  <2> QED
    BY <2>1, <2>2, <2>3 DEF WireOrder
<1>10. SendOrder'
  BY <1>5, <1>8 DEF InOrder, SendOrder
<1>11. WaitOrder'
  BY <1>4, <1>5, <1>8 DEF InOrder, WaitOrder
<1>12. ListOrder'
  BY <1>4 DEF InOrder, ListOrder
<1>13. Numbered'
  BY <1>4, <1>5, <1>8 DEF InOrder, Numbered
<1> QED
  BY <1>9, <1>10, <1>11, <1>12, <1>13 DEF InOrder

\* No message is anywhere at first.
LEMMA InOrderInit == StreamInit => InOrder
<1> SUFFICES ASSUME StreamInit PROVE InOrder
  OBVIOUS
<1>1. /\ Past = {NoMessage} /\ sending = NoMessage /\ header = NoMessage
      /\ delivered.msg = NoMessage /\ Len(wire) = 0
      /\ \A t \in Types : Len(Waiting(t)) = 0
  <2>1. wire = <<>> /\ Len(<<>>) = 0 /\ header = NoMessage /\ delivered.msg = NoMessage
    BY DEF StreamInit
  <2>2. Past = {NoMessage}
    BY <2>1 DEF Past
  <2>3. \A t \in Types : Waiting(t) = <<>>
    BY DEF StreamInit, Waiting, Types
  <2> QED
    BY <2>1, <2>2, <2>3 DEF StreamInit
<1>2. \A x : Ordered(x, NoMessage) /\ Ordered(NoMessage, x)
  BY DEF Ordered
<1> QED
  BY <1>1, <1>2 DEF InOrder, WireOrder, SendOrder, WaitOrder, ListOrder, Numbered

\* Each step keeps the order, Clear and SendFails by taking messages away.
LEMMA InOrderStep == StreamInv /\ InOrder /\ [StreamNext]_streamVars => InOrder'
<1> SUFFICES ASSUME StreamInv, InOrder, [StreamNext]_streamVars PROVE InOrder'
  OBVIOUS
<1>1. CASE \E t \in Types, n \in Lengths : PutSendData(t, n)
  BY <1>1, PutOrder
<1>2. CASE GetSendData
  BY <1>2, GetOrder
<1>3. CASE SendSlice
  BY <1>3, SliceOrder
<1>4. CASE Process
  BY <1>4, ProcessOrder
<1>5. CASE Clear \/ SendFails \/ Recv \/ UNCHANGED streamVars
  <2>1. /\ UNCHANGED <<wire, delivered, header, put, cmdList>>
        /\ sending' = sending \/ sending' = NoMessage
        /\ audioList' = audioList \/ audioList' = <<>>
        /\ videoList' = videoList \/ videoList' = <<>>
    BY <1>5 DEF Clear, SendFails, Recv, streamVars, senderVars, receiverVars
  <2>2. \A t \in Types : Waiting(t)' = Waiting(t) \/ Waiting(t)' = <<>>
    BY <2>1 DEF Waiting, Types
  <2> QED
    BY <2>1, <2>2, OtherOrder
<1> QED
  BY <1>1, <1>2, <1>3, <1>4, <1>5 DEF StreamNext

\* Which message is at which place of InTransit.
LEMMA Places ==
    ASSUME StreamInv, NEW t \in Types
    PROVE  /\ Len(wire) \in Nat /\ Len(Waiting(t)) \in Nat
           /\ DOMAIN InTransit(t) = 1 .. Len(wire) + 3 + Len(Waiting(t))
           /\ InTransit(t)[1] = delivered.msg
           /\ InTransit(t)[2] = header
           /\ \A i \in 3 .. Len(wire) + 2 : InTransit(t)[i] = wire[i - 2].msg
           /\ InTransit(t)[Len(wire) + 3] = sending
           /\ \A i \in Len(wire) + 4 .. Len(wire) + 3 + Len(Waiting(t)) :
                 InTransit(t)[i] = Waiting(t)[i - Len(wire) - 3]
<1> DEFINE S == Message \cup {NoMessage}
           taken == <<delivered.msg, header>>
           msgs == [i \in DOMAIN wire |-> wire[i].msg]
           two == taken \o msgs
           three == two \o <<sending>>
           list == Waiting(t)
<1>1. InTransit(t) = three \o list
  BY DEF InTransit
<1>2. /\ delivered.msg \in S /\ header \in S /\ sending \in S
      /\ list \in Seq(S) /\ Len(list) \in Nat
      /\ \A i \in 1 .. Len(wire) : wire[i].msg \in S
  <2>1. Past \subseteq S /\ sending \in S /\ list \in Seq(Message) /\ Len(list) \in Nat
    BY Comparable
  <2>2. list \in Seq(S)
    BY <2>1
  <2> QED
    BY <2>1, <2>2 DEF Past
<1>3. Len(wire) \in Nat /\ DOMAIN wire = 1 .. Len(wire)
  BY LenProperties DEF StreamInv, WireTypes
<1> HIDE DEF S, list
<1>4. /\ msgs \in Seq(S) /\ Len(msgs) = Len(wire)
      /\ \A i \in 1 .. Len(wire) : msgs[i] = wire[i].msg
  BY <1>2, <1>3
<1> HIDE DEF msgs
<1>5. taken \in Seq(S) /\ Len(taken) = 2 /\ taken[1] = delivered.msg /\ taken[2] = header
  BY <1>2
<1> HIDE DEF taken
<1>6. /\ two \in Seq(S) /\ Len(two) = 2 + Len(wire)
      /\ two[1] = delivered.msg /\ two[2] = header
      /\ \A i \in 3 .. Len(wire) + 2 : two[i] = wire[i - 2].msg
  <2>1. /\ two \in Seq(S) /\ Len(two) = Len(taken) + Len(msgs)
        /\ \A i \in 1 .. Len(taken) + Len(msgs) :
             two[i] = IF i <= Len(taken) THEN taken[i] ELSE msgs[i - Len(taken)]
    <3>1. taken \in Seq(S) /\ msgs \in Seq(S)
      BY <1>4, <1>5
    <3> QED
      BY <3>1, ConcatProperties
  <2> HIDE DEF two
  <2>2. \A i \in 1 .. 2 + Len(wire) : two[i] = IF i <= 2 THEN taken[i] ELSE msgs[i - 2]
    BY <1>4, <1>5, <2>1
  <2>3. \A i \in 3 .. Len(wire) + 2 : two[i] = msgs[i - 2] /\ i - 2 \in 1 .. Len(wire)
    BY <1>3, <2>2
  <2>4. two[1] = taken[1] /\ two[2] = taken[2]
    BY <1>3, <2>2
  <2> QED
    BY <1>4, <1>5, <2>1, <2>3, <2>4
<1> HIDE DEF two
<1>7. <<sending>> \in Seq(S) /\ Len(<<sending>>) = 1 /\ <<sending>>[1] = sending
  BY <1>2
<1>8. /\ three \in Seq(S) /\ Len(three) = Len(wire) + 3
      /\ \A i \in 1 .. Len(wire) + 2 : three[i] = two[i]
      /\ three[Len(wire) + 3] = sending
  <2>1. /\ three \in Seq(S) /\ Len(three) = Len(two) + 1
        /\ \A i \in 1 .. Len(two) + 1 :
             three[i] = IF i <= Len(two) THEN two[i] ELSE <<sending>>[i - Len(two)]
    BY <1>6, <1>7, ConcatProperties
  <2> QED
    BY <1>3, <1>6, <1>7, <2>1
<1> HIDE DEF three
<1>9. /\ DOMAIN (three \o list) = 1 .. Len(wire) + 3 + Len(list)
      /\ \A i \in 1 .. Len(wire) + 3 : (three \o list)[i] = three[i]
      /\ \A i \in Len(wire) + 4 .. Len(wire) + 3 + Len(list) :
            (three \o list)[i] = list[i - Len(wire) - 3]
  <2>1. /\ three \o list \in Seq(S) /\ Len(three \o list) = Len(three) + Len(list)
        /\ \A i \in 1 .. Len(three) + Len(list) :
             (three \o list)[i] = IF i <= Len(three) THEN three[i] ELSE list[i - Len(three)]
    BY <1>2, <1>8, ConcatProperties
  <2>2. DOMAIN (three \o list) = 1 .. Len(three) + Len(list)
    BY <2>1, LenProperties
  <2>3. \A i \in Len(wire) + 4 .. Len(wire) + 3 + Len(list) :
            i \in 1 .. Len(three) + Len(list) /\ ~(i <= Len(three))
            /\ i - Len(three) = i - Len(wire) - 3
    BY <1>2, <1>3, <1>8
  <2> QED
    BY <1>2, <1>3, <1>8, <2>1, <2>2, <2>3
<1>10. /\ \A i \in 1 .. Len(wire) + 2 : InTransit(t)[i] = two[i]
       /\ InTransit(t)[Len(wire) + 3] = sending
  BY <1>1, <1>3, <1>8, <1>9
<1>11. 1 \in 1 .. Len(wire) + 2 /\ 2 \in 1 .. Len(wire) + 2
       /\ \A i \in 3 .. Len(wire) + 2 : i \in 1 .. Len(wire) + 2
  BY <1>3
<1> QED
  BY <1>1, <1>2, <1>3, <1>6, <1>9, <1>10, <1>11 DEF list

\* DoRecvMessage is given the messages of each type in the order in which Send
\* took them (TcpClient.cpp:916, 1029): in no place between the two does one
\* overtake another, whatever is sent before it.
THEOREM NoOvertaking == StreamSpec => []OrderedPerType
<1>1. StreamInv /\ InOrder => OrderedPerType
  <2> SUFFICES ASSUME StreamInv, InOrder, NEW t \in Types,
                      NEW i \in DOMAIN InTransit(t), NEW j \in DOMAIN InTransit(t), i < j,
                      IsOf(InTransit(t)[i], t), IsOf(InTransit(t)[j], t)
               PROVE  InTransit(t)[i].id <= InTransit(t)[j].id
    BY DEF OrderedPerType
  <2> DEFINE q == InTransit(t)
             n == Len(wire)
             list == Waiting(t)
  <2>1. /\ n \in Nat /\ Len(list) \in Nat
        /\ DOMAIN q = 1 .. n + 3 + Len(list)
        /\ q[1] = delivered.msg /\ q[2] = header
        /\ \A k \in 3 .. n + 2 : q[k] = wire[k - 2].msg
        /\ q[n + 3] = sending
        /\ \A k \in n + 4 .. n + 3 + Len(list) : q[k] = list[k - n - 3]
    BY Places
  <2>2. /\ Ordered(delivered.msg, header)
        /\ \A k \in 1 .. n : Ordered(delivered.msg, wire[k].msg) /\ Ordered(header, wire[k].msg)
        /\ \A k, l \in 1 .. n : k < l => Ordered(wire[k].msg, wire[l].msg)
        /\ delivered.msg \in Past /\ header \in Past /\ \A k \in 1 .. n : wire[k].msg \in Past
    BY DEF InOrder, WireOrder, Past
  <2>3. /\ \A m \in Past : Ordered(m, sending)
        /\ \A m \in Past \cup {sending} : \A k \in 1 .. Len(list) : Ordered(m, list[k])
        /\ \A k, l \in 1 .. Len(list) : k < l => list[k].id <= list[l].id
    BY DEF InOrder, SendOrder, WaitOrder, ListOrder
  <2>4. Ordered(q[i], q[j]) => q[i].id <= q[j].id
    BY DEF Ordered, IsOf
  <2>5. i \in 1 .. n + 3 + Len(list) /\ j \in 1 .. n + 3 + Len(list)
    <3>1. i \in DOMAIN q /\ j \in DOMAIN q
      OBVIOUS
    <3> HIDE DEF q, n, list
    <3> QED
      BY <2>1, <3>1
  <2> HIDE DEF q, n, list
  <2>6. ASSUME NEW k \in 1 .. n + 2
        PROVE  /\ k = 1 \/ k = 2 \/ k - 2 \in 1 .. n
               /\ k - 2 \in 1 .. n => q[k] = wire[k - 2].msg
    BY <2>1
  <2>7. \A k \in 1 .. n + 2 : q[k] \in Past
    BY <2>1, <2>2, <2>6
  <2>8. CASE j <= n + 2
    <3>1. i \in 1 .. n + 2 /\ j \in 1 .. n + 2
      BY <2>1, <2>5, <2>8
    <3>2. i - 2 \in 1 .. n => j - 2 \in 1 .. n /\ i - 2 < j - 2
      BY <2>1, <2>5, <2>8
    <3>3. i = 2 => j - 2 \in 1 .. n
      BY <2>1, <2>5, <2>8
    <3>4. i = 1 => j = 2 \/ j - 2 \in 1 .. n
      BY <2>1, <2>5, <2>8
    <3> QED
      BY <2>1, <2>2, <2>4, <2>6, <3>1, <3>2, <3>3, <3>4 DEF q
  <2>9. CASE j = n + 3
    <3>1. i \in 1 .. n + 2
      BY <2>1, <2>5, <2>9
    <3> QED
      BY <2>1, <2>3, <2>4, <2>7, <2>9, <3>1 DEF q
  <2>10. CASE j > n + 3
    <3>1. j - n - 3 \in 1 .. Len(list) /\ q[j] = list[j - n - 3]
      BY <2>1, <2>5, <2>10
    <3>2. CASE i <= n + 3
      <4>1. i \in 1 .. n + 2 \/ i = n + 3
        BY <2>1, <2>5, <3>2
      <4>2. q[i] \in Past \cup {sending}
        BY <2>1, <2>7, <4>1
      <4> QED
        BY <2>3, <2>4, <3>1, <4>2 DEF q
    <3>3. CASE i > n + 3
      <4>1. /\ i - n - 3 \in 1 .. Len(list) /\ q[i] = list[i - n - 3]
            /\ i - n - 3 < j - n - 3
        BY <2>1, <2>5, <3>3
      <4> QED
        BY <2>3, <3>1, <4>1 DEF q
    <3> QED
      BY <2>1, <2>5, <3>2, <3>3
  <2> QED
    BY <2>1, <2>5, <2>8, <2>9, <2>10
<1>2. StreamInit => StreamInv /\ InOrder
  BY StreamInvInit, InOrderInit
<1>3. StreamInv /\ InOrder /\ [StreamNext]_streamVars => StreamInv' /\ InOrder'
  BY StreamInvStep, InOrderStep
<1> QED
  BY <1>1, <1>2, <1>3, PTL DEF StreamSpec
=============================================================================
