--------------------------- MODULE TcpServer_proofs ---------------------------
(***************************************************************************)
(* What TLAPS proves of the table of clients and of the clients that       *)
(* mirror, for any number of slots, addresses and report threads.          *)
(***************************************************************************)
EXTENDS TcpServer, SequenceTheorems, FiniteSetTheorems, TLAPS

-----------------------------------------------------------------------------
(* TypeOK *)

\* What TypeOK says of one client.
Consistent(c) == /\ c \in Client
                 /\ c.doing # "recv" => ~c.working
                 /\ c.due => c.working
                 /\ c.working \/ c.doing # "recv" => c.fd

\* TypeOK in terms of Consistent.
LEMMA TypeIsConsistent ==
    TypeOK <=> /\ addrClient \in Addresses
               /\ clients \in [Slots -> Client \cup {NoClient}]
               /\ \A i \in Connected : Consistent(clients[i])
               /\ Clientnum \in Int
               /\ ClientPlayernum \in Int
               /\ clientpalyerList \in Seq(Slots)
<1>1. clients \in [Slots -> Client \cup {NoClient}]
        => \A i \in Connected : clients[i] \in Client
  BY DEF Connected
<1> QED
  BY <1>1 DEF TypeOK, Consistent

\* A step of client i's threads replaces its record by a consistent one.
LEMMA ReplaceClient ==
    ASSUME TypeOK, NEW i \in Connected, NEW c, Consistent(c),
           clients' = [clients EXCEPT ![i] = c]
    PROVE  /\ clients' \in [Slots -> Client \cup {NoClient}]
           /\ Connected' = Connected
           /\ clients'[i] = c
           /\ \A j \in Slots \ {i} : clients'[j] = clients[j]
           /\ \A j \in Connected' : Consistent(clients'[j])
<1>1. /\ clients \in [Slots -> Client \cup {NoClient}] /\ i \in Slots /\ c \in Client
      /\ \A j \in Connected : Consistent(clients[j])
  BY TypeIsConsistent DEF Connected, Consistent
<1>2. /\ clients' \in [Slots -> Client \cup {NoClient}]
      /\ clients'[i] = c
      /\ \A j \in Slots \ {i} : clients'[j] = clients[j]
  BY <1>1
<1>3. Connected' = Connected
  BY <1>1, <1>2, NoClientAssumption DEF Connected
<1> QED
  BY <1>1, <1>2, <1>3 DEF Connected

\* The fields of a client's record that the proofs speak of.
Same(c, i) == /\ c.ip = clients[i].ip
              /\ c.fd = clients[i].fd
              /\ c.working = clients[i].working
              /\ c.doing = clients[i].doing
              /\ c.seen = clients[i].seen

\* What no step of a client's threads changes in its record.
Stays(c, r) == c.ip = r.ip /\ c.fd = r.fd

\* Each step of a client's threads: the record it leaves.
LEMMA StepOfClient ==
    ASSUME TypeOK, NEW i \in Connected
    PROVE  /\ Start(i) =>
                \E c : /\ Consistent(c) /\ clients' = [clients EXCEPT ![i] = c]
                       /\ Stays(c, clients[i]) /\ ~c.working
                       /\ c.doing = "start" /\ c.seen = ClientPlayernum
           /\ StartCount(i) =>
                \E c : /\ Consistent(c) /\ clients' = [clients EXCEPT ![i] = c]
                       /\ Stays(c, clients[i]) /\ ~c.working /\ c.doing = "finish"
           /\ StartFinish(i) =>
                \E c : /\ Consistent(c) /\ clients' = [clients EXCEPT ![i] = c]
                       /\ Stays(c, clients[i]) /\ c.working /\ c.doing = "recv"
           /\ Restart(i) \/ Leave(i) \/ (\E s \in Streams : Look(i, s) \/ Ask(i, s)) =>
                \E c : /\ Consistent(c) /\ clients' = [clients EXCEPT ![i] = c]
                       /\ Same(c, i)
           /\ Stop(i) =>
                \E c : /\ Consistent(c) /\ clients' = [clients EXCEPT ![i] = c]
                       /\ Stays(c, clients[i]) /\ ~c.working
                       /\ c.doing = "stop" /\ c.seen = ClientPlayernum
           /\ StopCount(i) =>
                \E c : /\ Consistent(c) /\ clients' = [clients EXCEPT ![i] = c]
                       /\ Stays(c, clients[i]) /\ ~c.working /\ c.doing = "recv"
<1> DEFINE r == clients[i]
<1>1. Consistent(r) /\ clients \in [Slots -> Client \cup {NoClient}] /\ i \in Slots
  BY TypeIsConsistent DEF Connected
<1>2. ClientPlayernum \in Int
  BY DEF TypeOK
<1>3. ASSUME Start(i)
      PROVE  \E c : /\ Consistent(c) /\ clients' = [clients EXCEPT ![i] = c]
                    /\ Stays(c, clients[i]) /\ ~c.working
                    /\ c.doing = "start" /\ c.seen = ClientPlayernum
  <2> DEFINE c == [r EXCEPT !.doing = "start", !.seen = ClientPlayernum]
  <2>1. clients' = [clients EXCEPT ![i] = c]
    BY <1>1, <1>3 DEF Start
  <2>2. /\ Consistent(c) /\ Stays(c, r) /\ ~c.working
        /\ c.doing = "start" /\ c.seen = ClientPlayernum
    BY <1>1, <1>2, <1>3 DEF Start, Receiving, Consistent, Client, Stays
  <2> QED
    BY <2>1, <2>2
<1>4. ASSUME StartCount(i)
      PROVE  \E c : /\ Consistent(c) /\ clients' = [clients EXCEPT ![i] = c]
                    /\ Stays(c, clients[i]) /\ ~c.working /\ c.doing = "finish"
  <2> DEFINE c == [r EXCEPT !.doing = "finish", !.seen = 0]
  <2>1. clients' = [clients EXCEPT ![i] = c]
    BY <1>1, <1>4 DEF StartCount
  <2>2. r \in Client /\ r.fd /\ ~r.working /\ (r.due => r.working)
    BY <1>1, <1>4 DEF StartCount, Consistent
  <2>3. c \in Client /\ Stays(c, r) /\ c.fd /\ ~c.working /\ ~c.due /\ c.doing = "finish"
    <3> HIDE DEF r
    <3>1. \A v \in Int : [r EXCEPT !.doing = "finish", !.seen = v] \in Client
      BY <2>2 DEF Client
    <3>2. Stays(c, r) /\ c.fd /\ c.doing = "finish"
      BY <2>2 DEF Client, Stays
    <3>3. ~c.working /\ ~c.due
      BY <2>2 DEF Client
    <3>4. 0 \in Int
      OBVIOUS
    <3>5. c \in Client
      BY <3>1, <3>4, Zenon
    <3> QED
      BY <3>2, <3>3, <3>5, Zenon
  <2>4. Consistent(c)
    BY <2>2, <2>3 DEF Consistent
  <2> QED
    BY <2>1, <2>2, <2>3, <2>4
<1>5. ASSUME StartFinish(i)
      PROVE  \E c : /\ Consistent(c) /\ clients' = [clients EXCEPT ![i] = c]
                    /\ Stays(c, clients[i]) /\ c.working /\ c.doing = "recv"
  <2> DEFINE c == [r EXCEPT !.doing = "recv", !.mNum = ClientPlayernum,
                            !.working = TRUE, !.mediaDecoderReady = TRUE]
  <2>1. clients' = [clients EXCEPT ![i] = c]
    BY <1>1, <1>5 DEF StartFinish
  <2>2. Consistent(c) /\ Stays(c, r) /\ c.working /\ c.doing = "recv"
    BY <1>1, <1>2, <1>5 DEF StartFinish, Consistent, Client, Stays
  <2> QED
    BY <2>1, <2>2
<1>6. ASSUME Restart(i)
      PROVE  \E c : Consistent(c) /\ clients' = [clients EXCEPT ![i] = c] /\ Same(c, i)
  <2> DEFINE c == [r EXCEPT !.mNum = ClientPlayernum, !.mediaDecoderReady = TRUE,
                            !.due = FALSE]
  <2>1. clients' = [clients EXCEPT ![i] = c]
    BY <1>1, <1>6 DEF Restart
  <2>2. Consistent(c) /\ Same(c, i)
    BY <1>1, <1>2, <1>6 DEF Restart, Consistent, Client, Same
  <2> QED
    BY <2>1, <2>2
<1>7. ASSUME Leave(i)
      PROVE  \E c : Consistent(c) /\ clients' = [clients EXCEPT ![i] = c] /\ Same(c, i)
  <2> DEFINE c == [r EXCEPT !.running = FALSE]
  <2>1. clients' = [clients EXCEPT ![i] = c]
    BY <1>1, <1>7 DEF Leave
  <2>2. Consistent(c) /\ Same(c, i)
    BY <1>1, <1>7 DEF Leave, Consistent, Client, Same
  <2> QED
    BY <2>1, <2>2
<1>8. ASSUME NEW s \in Streams, Look(i, s)
      PROVE  \E c : Consistent(c) /\ clients' = [clients EXCEPT ![i] = c] /\ Same(c, i)
  <2> DEFINE c == [r EXCEPT !.asking = @ \cup {s}]
  <2>1. clients' = [clients EXCEPT ![i] = c]
    BY <1>1, <1>8 DEF Look
  <2>2. Consistent(c) /\ Same(c, i)
    BY <1>1, <1>8 DEF Look, Consistent, Client, Same
  <2> QED
    BY <2>1, <2>2
<1>9. ASSUME NEW s \in Streams, Ask(i, s)
      PROVE  \E c : Consistent(c) /\ clients' = [clients EXCEPT ![i] = c] /\ Same(c, i)
  <2> DEFINE c == [r EXCEPT !.asking = @ \ {s}, !.mediaDecoderReady = FALSE,
                            !.due = r.running /\ r.working]
  <2>1. clients' = [clients EXCEPT ![i] = c]
    BY <1>1, <1>9 DEF Ask
  <2>2. Consistent(c) /\ Same(c, i)
    BY <1>1, <1>9 DEF Ask, Consistent, Client, Same
  <2> QED
    BY <2>1, <2>2
<1>10. ASSUME Stop(i)
       PROVE  \E c : /\ Consistent(c) /\ clients' = [clients EXCEPT ![i] = c]
                     /\ Stays(c, clients[i]) /\ ~c.working
                     /\ c.doing = "stop" /\ c.seen = ClientPlayernum
  <2> DEFINE c == [r EXCEPT !.doing = "stop", !.seen = ClientPlayernum, !.working = FALSE,
                            !.mediaDecoderReady = FALSE, !.due = FALSE]
  <2>1. clients' = [clients EXCEPT ![i] = c]
    BY <1>1, <1>10 DEF Stop
  <2>2. /\ Consistent(c) /\ Stays(c, r) /\ ~c.working
        /\ c.doing = "stop" /\ c.seen = ClientPlayernum
    BY <1>1, <1>2, <1>10 DEF Stop, Consistent, Client, Stays
  <2> QED
    BY <2>1, <2>2
<1>11. ASSUME StopCount(i)
       PROVE  \E c : /\ Consistent(c) /\ clients' = [clients EXCEPT ![i] = c]
                     /\ Stays(c, clients[i]) /\ ~c.working /\ c.doing = "recv"
  <2> DEFINE c == [r EXCEPT !.doing = "recv", !.seen = 0, !.mNum = ClientPlayernum']
  <2>0. ClientPlayernum' \in Int
    BY <1>1, <1>11 DEF StopCount, Consistent, Client
  <2>1. clients' = [clients EXCEPT ![i] = c]
    BY <1>1, <1>11 DEF StopCount
  <2>2. r \in Client /\ r.fd /\ ~r.working /\ (r.due => r.working)
    BY <1>1, <1>11 DEF StopCount, Consistent
  <2>3. c \in Client /\ Stays(c, r) /\ c.fd /\ ~c.working /\ ~c.due /\ c.doing = "recv"
    <3> HIDE DEF r
    <3>1. \A v \in Int : [r EXCEPT !.doing = "recv", !.seen = v,
                                   !.mNum = ClientPlayernum'] \in Client
      BY <2>0, <2>2 DEF Client
    <3>2. Stays(c, r) /\ c.fd /\ c.doing = "recv"
      BY <2>2 DEF Client, Stays
    <3>3. ~c.working /\ ~c.due
      BY <2>2 DEF Client
    <3>4. 0 \in Int
      OBVIOUS
    <3>5. c \in Client
      BY <3>1, <3>4, Zenon
    <3> QED
      BY <3>2, <3>3, <3>5, Zenon
  <2>4. Consistent(c)
    BY <2>2, <2>3 DEF Consistent
  <2> QED
    BY <2>1, <2>2, <2>3, <2>4
<1> QED
  BY <1>3, <1>4, <1>5, <1>6, <1>7, <1>8, <1>9, <1>10, <1>11

\* The table has finitely many slots, and so have its parts.
LEMMA SlotsFinite ==
    ASSUME NEW S, S \subseteq Slots
    PROVE  IsFiniteSet(S) /\ Cardinality(S) \in Nat
<1>1. IsFiniteSet(0 .. MaxClients - 1)
  BY ServerAssumption, FS_Interval
<1> QED
  BY <1>1, FS_Subset, FS_CardinalityType DEF Slots

\* A new client does not mirror, and is in no handler.
LEMMA NewClientIs ==
    ASSUME NEW a \in Addresses, NEW fd \in BOOLEAN
    PROVE  LET c == NewClient(a, fd)
           IN  /\ Consistent(c) /\ c.ip = a /\ c.fd = fd
               /\ ~c.working /\ c.doing = "recv"
<1> DEFINE c == NewClient(a, fd)
<1>1. 0 \in Int /\ {} \in SUBSET Streams
  OBVIOUS
<1>2. c \in Client
  BY <1>1 DEF NewClient, Client
<1> QED
  BY <1>2 DEF NewClient, Consistent

\* What the listening thread does to the table: the old clients of the address
\* go, and at most one new one comes.
LEMMA StepOfReplace ==
    ASSUME TypeOK, NEW a \in Addresses, NEW fd \in BOOLEAN, Replace(a, fd)
    PROVE  LET kept == Connected \ StaleSlots(a)
               left == Clientnum - Cardinality(Released(StaleSlots(a)))
           IN  /\ clients' \in [Slots -> Client \cup {NoClient}]
               /\ \A j \in kept : clients'[j] = clients[j]
               /\ \/ /\ Connected' = kept
                     /\ Clientnum' = left
                  \/ \E i \in Slots \ kept :
                        /\ Connected' = kept \cup {i}
                        /\ clients'[i] = NewClient(a, fd)
                        /\ Clientnum' = left + 1
<1> DEFINE gone == StaleSlots(a)
           old == Connected \ gone
           free == { i \in Slots : clients[i] = NoClient \/ i \in gone }
           kept == [i \in Slots |-> IF i \in gone THEN NoClient ELSE clients[i]]
           left == Clientnum - Cardinality(Released(gone))
           new == NewClient(a, fd)
<1>1. clients \in [Slots -> Client \cup {NoClient}] /\ new \in Client
  BY NewClientIs DEF TypeOK, Consistent
<1>2. new # NoClient
  BY <1>1, NoClientAssumption
<1>3. /\ kept \in [Slots -> Client \cup {NoClient}]
      /\ \A j \in old : kept[j] = clients[j]
      /\ { j \in Slots : kept[j] # NoClient } = old
  BY <1>1 DEF Connected
<1>4. \/ clients' = kept /\ Clientnum' = left
      \/ \E i \in free : /\ clients' = [kept EXCEPT ![i] = new]
                         /\ Clientnum' = left + 1
  BY DEF Replace
<1> HIDE DEF gone, kept, new, left
<1>5. CASE clients' = kept /\ Clientnum' = left
  BY <1>3, <1>5 DEF Connected, gone, left
<1>6. ASSUME NEW i \in free, clients' = [kept EXCEPT ![i] = new],
             Clientnum' = left + 1
      PROVE  /\ clients' \in [Slots -> Client \cup {NoClient}]
             /\ \A j \in old : clients'[j] = clients[j]
             /\ i \in Slots \ old
             /\ Connected' = old \cup {i}
             /\ clients'[i] = new
  <2>1. i \in Slots \ old
    BY DEF Connected
  <2>2. /\ clients' \in [Slots -> Client \cup {NoClient}]
        /\ clients'[i] = new
        /\ \A j \in Slots \ {i} : clients'[j] = kept[j]
    BY <1>1, <1>3, <1>6, <2>1
  <2>3. \A j \in old : clients'[j] = clients[j]
    BY <1>3, <2>1, <2>2 DEF Connected
  <2>4. { j \in Slots : clients'[j] # NoClient } = old \cup {i}
    BY <1>2, <1>3, <2>1, <2>2
  <2> QED
    BY <2>1, <2>2, <2>3, <2>4 DEF Connected
<1> QED
  BY <1>4, <1>5, <1>6 DEF gone, new, left

\* Both ways accept() can return, of an address and with or without a
\* descriptor.
LEMMA Accepted ==
    ASSUME TypeOK, (\E a \in Ips : Accept(a)) \/ AcceptFails
    PROVE  /\ \E a \in Addresses, fd \in BOOLEAN : Replace(a, fd)
           /\ addrClient' \in Addresses
           /\ ClientPlayernum' = ClientPlayernum
           /\ clientpalyerList' = clientpalyerList
<1>1. CASE \E a \in Ips : Accept(a)
  BY <1>1 DEF Accept, Replace, Addresses, TypeOK
<1>2. CASE AcceptFails
  BY <1>2 DEF AcceptFails, Replace, TypeOK
<1> QED
  BY <1>1, <1>2

\* Taking an entry out of the list: what is left, in its order.
LEMMA RemoveFirstType ==
    ASSUME NEW S, NEW list \in Seq(S), NEW e,
           \E k \in 1 .. Len(list) : list[k] = e
    PROVE  \E k \in 1 .. Len(list) :
             /\ list[k] = e
             /\ RemoveFirst(list, e) \in Seq(S)
             /\ Len(RemoveFirst(list, e)) = Len(list) - 1
             /\ \A x \in 1 .. Len(list) - 1 :
                  RemoveFirst(list, e)[x] = IF x < k THEN list[x] ELSE list[x + 1]
<1> DEFINE I == { x \in 1 .. Len(list) : list[x] = e }
           k == CHOOSE x \in I : \A y \in I : x <= y
           s == SubSeq(list, 1, k - 1)
           t == SubSeq(list, k + 1, Len(list))
<1>0. Len(list) \in Nat /\ \A x \in 1 .. Len(list) : list[x] \in S
  BY LenProperties, ElementOfSeq
<1>1. k \in 1 .. Len(list) /\ list[k] = e
  <2>1. I \subseteq Nat /\ I # {}
    BY <1>0
  <2> HIDE DEF I
  <2>2. PICK x \in I : \A y \in I : <<y, x>> \notin OpToRel(<, Nat)
    BY <2>1, WFMin, NatLessThanWellFounded
  <2>3. \A y \in I : x <= y
    <3>1. \A y \in I : ~(y < x)
      BY <2>1, <2>2, Zenon DEF OpToRel
    <3> QED
      BY <2>1, <3>1
  <2>4. k \in I
    BY <2>3
  <2> QED
    BY <2>4 DEF I
<1>2. RemoveFirst(list, e) = s \o t
  BY <1>0 DEF RemoveFirst, RemoveAt, SelectInSeq, Min
<1> HIDE DEF k, I
<1>3. /\ s \in Seq(S) /\ Len(s) = k - 1
      /\ \A x \in 1 .. k - 1 : s[x] = list[x]
  <2>1. \A x \in 1 .. k - 1 : list[x] \in S
    BY <1>0, <1>1
  <2> QED
    BY <1>0, <1>1, <2>1, SubSeqProperties
<1>4. /\ t \in Seq(S) /\ Len(t) = Len(list) - k
      /\ \A x \in 1 .. Len(list) - k : t[x] = list[x + k]
  <2>1. \A x \in k + 1 .. Len(list) : list[x] \in S
    BY <1>0, <1>1
  <2> QED
    BY <1>0, <1>1, <2>1, SubSeqProperties
<1> HIDE DEF s, t
<1>5. /\ s \o t \in Seq(S) /\ Len(s \o t) = Len(s) + Len(t)
      /\ \A x \in 1 .. Len(s) + Len(t) :
           (s \o t)[x] = IF x <= Len(s) THEN s[x] ELSE t[x - Len(s)]
  BY <1>3, <1>4, ConcatProperties
<1>6. Len(s \o t) = Len(list) - 1
  BY <1>0, <1>1, <1>3, <1>4, <1>5
<1>7. ASSUME NEW x \in 1 .. Len(list) - 1
      PROVE  (s \o t)[x] = IF x < k THEN list[x] ELSE list[x + 1]
  <2>1. x \in 1 .. Len(s) + Len(t)
    BY <1>5, <1>6
  <2>2. CASE x < k
    BY <1>0, <1>1, <1>3, <1>5, <2>1, <2>2
  <2>3. CASE ~(x < k)
    <3>1. ~(x <= Len(s)) /\ x - Len(s) \in 1 .. Len(list) - k /\ x - Len(s) + k = x + 1
      BY <1>0, <1>1, <1>3, <2>3
    <3> QED
      BY <1>4, <1>5, <2>1, <2>3, <3>1
  <2> QED
    BY <2>2, <2>3
<1> QED
  BY <1>1, <1>2, <1>5, <1>6, <1>7

\* The entries of a list that is taken apart or extended.
LEMMA RemoveKeepsType ==
    ASSUME NEW S, NEW list \in Seq(S), NEW e
    PROVE  RemoveFirst(list, e) \in Seq(S)
<1>1. CASE \E k \in 1 .. Len(list) : list[k] = e
  BY <1>1, RemoveFirstType
<1>2. CASE ~(\E k \in 1 .. Len(list) : list[k] = e)
  BY <1>2 DEF RemoveFirst
<1> QED
  BY <1>1, <1>2

\* The table is empty at first.
LEMMA InitType == Init => TypeOK
<1> SUFFICES ASSUME Init PROVE TypeOK
  OBVIOUS
<1>1. Connected = {}
  BY DEF Init, Connected
<1>2. clientpalyerList \in Seq(Slots)
  BY EmptySeq DEF Init
<1>3. clients \in [Slots -> Client \cup {NoClient}]
  BY DEF Init
<1>4. Clientnum \in Int /\ ClientPlayernum \in Int /\ addrClient \in Addresses
  BY ServerAssumption DEF Init, Addresses
<1> QED
  BY <1>1, <1>2, <1>3, <1>4 DEF TypeOK

\* A step of a client's threads keeps TypeOK.
LEMMA ClientType ==
    ASSUME TypeOK, NEW i \in Connected,
           RecvStep(i) \/ \E s \in Streams : Look(i, s) \/ Ask(i, s)
    PROVE  TypeOK'
<1>0. /\ i \in Slots /\ clients[i] \in Client /\ clientpalyerList \in Seq(Slots)
      /\ Clientnum \in Int /\ ClientPlayernum \in Int
  BY TypeIsConsistent DEF Connected, Consistent
<1>1. PICK c : Consistent(c) /\ clients' = [clients EXCEPT ![i] = c]
  BY StepOfClient, Zenon DEF RecvStep
<1>2. /\ clients' \in [Slots -> Client \cup {NoClient}]
      /\ \A j \in Connected' : Consistent(clients'[j])
  BY <1>1, ReplaceClient
<1>3. Clientnum' \in Int /\ addrClient' \in Addresses
  BY <1>0 DEF TypeOK, RecvStep, Start, StartCount, StartFinish, Restart, Stop, StopCount,
              Leave, Look, Ask
<1>4. ClientPlayernum' \in Int
  <2>1. clients[i].seen \in Int
    BY <1>0 DEF Client
  <2>2. clients[i].seen + 1 \in Int /\ clients[i].seen - 1 \in Int
    BY <2>1
  <2>3. ClientPlayernum' \in {ClientPlayernum, clients[i].seen + 1, clients[i].seen - 1}
    BY Zenon DEF RecvStep, Start, StartCount, StartFinish, Restart, Stop, StopCount,
                 Leave, Look, Ask
  <2> QED
    BY <1>0, <2>2, <2>3
<1>5. clientpalyerList' \in Seq(Slots)
  <2>1. Append(clientpalyerList, i) \in Seq(Slots)
    BY <1>0, AppendProperties
  <2>2. RemoveFirst(clientpalyerList, i) \in Seq(Slots)
    BY <1>0, RemoveKeepsType
  <2> QED
    BY <1>0, <2>1, <2>2 DEF RecvStep, Start, StartCount, StartFinish, Restart, Stop,
                            StopCount, Leave, Look, Ask
<1> QED
  BY <1>2, <1>3, <1>4, <1>5 DEF TypeOK, Consistent

\* accept() keeps TypeOK.
LEMMA AcceptType ==
    ASSUME TypeOK, (\E a \in Ips : Accept(a)) \/ AcceptFails
    PROVE  TypeOK'
<1>1. PICK a \in Addresses, fd \in BOOLEAN : Replace(a, fd)
  BY Accepted
<1> DEFINE old == Connected \ StaleSlots(a)
<1>2. /\ \A j \in Connected : Consistent(clients[j])
      /\ clientpalyerList \in Seq(Slots) /\ Clientnum \in Int /\ ClientPlayernum \in Int
  BY TypeIsConsistent
<1>3. Cardinality(Released(StaleSlots(a))) \in Nat
  BY SlotsFinite DEF Released, StaleSlots, Connected
<1>4. /\ clients' \in [Slots -> Client \cup {NoClient}]
      /\ \A j \in old : clients'[j] = clients[j]
      /\ Clientnum' \in Int
  BY <1>1, <1>2, <1>3, StepOfReplace
<1>5. \A j \in Connected' : j \in old \/ clients'[j] = NewClient(a, fd)
  BY <1>1, StepOfReplace
<1>6. \A j \in Connected' : Consistent(clients'[j])
  BY <1>2, <1>4, <1>5, NewClientIs
<1>7. /\ addrClient' \in Addresses
      /\ ClientPlayernum' = ClientPlayernum /\ clientpalyerList' = clientpalyerList
  BY Accepted
<1> QED
  BY <1>2, <1>4, <1>6, <1>7 DEF TypeOK, Consistent

\* Every step keeps TypeOK.
LEMMA NextType == TypeOK /\ [Next]_vars => TypeOK'
<1> SUFFICES ASSUME TypeOK, [Next]_vars PROVE TypeOK'
  OBVIOUS
<1>1. CASE UNCHANGED vars
  BY <1>1 DEF vars, TypeOK, Connected
<1>2. CASE Next
  BY <1>2, AcceptType, ClientType DEF Next
<1> QED
  BY <1>1, <1>2

\* A client inside the handler of a start or of a stop does not work, and only
\* a working client's phone owes an answer, in whatever order the threads run
\* and whatever the phones do (DoRecvMessage, StopCtrl, DoThreadReportData).
THEOREM TypeCorrect == Spec => []TypeOK
<1>1. Init => TypeOK
  BY InitType
<1>2. TypeOK /\ [Next]_vars => TypeOK'
  BY NextType
<1> QED
  BY <1>1, <1>2, PTL DEF Spec

-----------------------------------------------------------------------------
(* TableSound *)

\* The counters of Tcp hold 0 when it is created: no constructor sets them,
\* and the code works with memory that happens to be zero only.
StartsAtZero == StartValues = {0}

\* The counter and the table agree at first.
LEMMA InitTable ==
    ASSUME StartsAtZero
    PROVE  Init => TableSound
<1> SUFFICES ASSUME Init PROVE TableSound
  OBVIOUS
<1>1. Connected = {}
  BY DEF Init, Connected
<1>2. Clientnum = 0
  BY DEF Init, StartsAtZero
<1> QED
  BY <1>1, <1>2, FS_EmptySet DEF TableSound, OneClientPerPhone, LastOneDestroys

\* What follows accept() replaces the client of its address, if there is one,
\* and one without a descriptor, and takes no more off Clientnum than it
\* deletes.
LEMMA ReplaceTable ==
    ASSUME TypeOK, TableSound, NEW a \in Addresses, NEW fd \in BOOLEAN, Replace(a, fd)
    PROVE  TableSound'
<1> DEFINE gone == StaleSlots(a)
           old == Connected \ gone
           left == Clientnum - Cardinality(Released(gone))
<1>1. /\ gone \subseteq Connected /\ Connected \subseteq Slots
      /\ Released(gone) \subseteq gone
  BY DEF StaleSlots, Connected, Released
<1>2. /\ IsFiniteSet(Connected) /\ Cardinality(Connected) \in Nat
      /\ IsFiniteSet(gone) /\ Cardinality(gone) \in Nat
      /\ IsFiniteSet(old) /\ Cardinality(old) \in Nat
      /\ Cardinality(Released(gone)) \in Nat
      /\ Clientnum \in Int
  <2>1. old \subseteq Slots /\ gone \subseteq Slots /\ Released(gone) \subseteq Slots
    BY <1>1
  <2> HIDE DEF old, gone
  <2>2. Clientnum \in Int
    BY DEF TypeOK
  <2> QED
    BY <1>1, <2>1, <2>2, SlotsFinite
<1>3. Cardinality(old) = Cardinality(Connected) - Cardinality(gone)
  <2>1. Connected \cap gone = gone
    BY <1>1
  <2> QED
    BY <1>2, <2>1, FS_Difference
<1>4. left \in Int /\ left >= Cardinality(old)
  <2>1. Cardinality(Released(gone)) <= Cardinality(gone)
    BY <1>1, <1>2, FS_Subset
  <2>2. Clientnum >= Cardinality(Connected)
    BY DEF TableSound, LastOneDestroys
  <2> HIDE DEF gone, old
  <2> QED
    BY <1>2, <1>3, <2>1, <2>2
<1>5. \A j \in old : clients'[j] = clients[j] /\ clients[j].ip # a /\ clients[j].fd
  <2>1. \A j \in old : clients[j].ip # a /\ clients[j].fd
    BY DEF StaleSlots
  <2>2. \A j \in old : clients'[j] = clients[j]
    <3> HIDE DEF old, gone
    <3> QED
      BY StepOfReplace DEF old, gone
  <2> QED
    BY <2>1, <2>2
<1>6. \A i, j \in old : clients'[i].ip = clients'[j].ip => i = j
  BY <1>5 DEF TableSound, OneClientPerPhone
<1>7. CASE Connected' = old /\ Clientnum' = left
  BY <1>2, <1>4, <1>5, <1>6, <1>7 DEF TableSound, OneClientPerPhone, LastOneDestroys
<1>8. ASSUME NEW i \in Slots \ old, Connected' = old \cup {i},
             clients'[i] = NewClient(a, fd), Clientnum' = left + 1
      PROVE  TableSound'
  <2>1. Cardinality(old \cup {i}) = Cardinality(old) + 1
    BY <1>2, FS_AddElement
  <2>2. clients'[i].ip = a
    BY <1>8, NewClientIs
  <2>3. \A j, k \in Connected' : clients'[j].ip = clients'[k].ip => j = k
    BY <1>5, <1>6, <1>8, <2>2
  <2>4. \A j \in Connected' : ~clients'[j].fd => j = i
    BY <1>5, <1>8
  <2>5. Clientnum' >= Cardinality(Connected')
    <3> HIDE DEF left, old
    <3> QED
      BY <1>2, <1>4, <1>8, <2>1
  <2> QED
    BY <2>3, <2>4, <2>5 DEF TableSound, OneClientPerPhone, LastOneDestroys
<1> HIDE DEF gone, old, left
<1> QED
  BY <1>7, <1>8, StepOfReplace DEF gone, old, left

\* The clients' threads leave the table alone.
LEMMA ClientTable ==
    ASSUME TypeOK, TableSound, NEW i \in Connected,
           RecvStep(i) \/ \E s \in Streams : Look(i, s) \/ Ask(i, s)
    PROVE  TableSound'
<1>1. PICK c : /\ Consistent(c) /\ clients' = [clients EXCEPT ![i] = c]
               /\ Stays(c, clients[i])
  <2>1. CASE Start(i)
    BY <2>1, StepOfClient, Zenon
  <2>2. CASE StartCount(i)
    BY <2>2, StepOfClient, Zenon
  <2>4. CASE StartFinish(i)
    BY <2>4, StepOfClient, Zenon
  <2>5. CASE Stop(i)
    BY <2>5, StepOfClient, Zenon
  <2>6. CASE StopCount(i)
    BY <2>6, StepOfClient, Zenon
  <2>3. CASE Restart(i) \/ Leave(i) \/ (\E s \in Streams : Look(i, s) \/ Ask(i, s))
    <3>1. PICK c : Consistent(c) /\ clients' = [clients EXCEPT ![i] = c] /\ Same(c, i)
      BY <2>3, StepOfClient, Zenon
    <3> QED
      BY <3>1 DEF Same, Stays
  <2> QED
    BY <2>1, <2>2, <2>3, <2>4, <2>5, <2>6 DEF RecvStep
<1>2. /\ Connected' = Connected /\ Connected \subseteq Slots /\ clients'[i] = c
      /\ \A j \in Slots \ {i} : clients'[j] = clients[j]
  BY <1>1, ReplaceClient DEF Connected
<1>3. \A j \in Connected : clients'[j].ip = clients[j].ip /\ clients'[j].fd = clients[j].fd
  BY <1>1, <1>2 DEF Stays
<1>4. Clientnum' = Clientnum
  BY DEF RecvStep, Start, StartCount, StartFinish, Restart, Stop, StopCount,
         Leave, Look, Ask
<1> QED
  BY <1>2, <1>3, <1>4 DEF TableSound, OneClientPerPhone, LastOneDestroys

\* A phone that connects again replaces its old connection, a client made of a
\* failed accept() does not outlive the next one, and Clientnum is never less
\* than the number of clients (doStartListen, FreeClient, Release), in whatever
\* order phones come, mirror and vanish and accept() fails.
THEOREM TableIsSound ==
    ASSUME StartsAtZero
    PROVE  Spec => []TableSound
<1>1. Init => TypeOK /\ TableSound
  BY InitType, InitTable
<1>2. TypeOK /\ TableSound /\ [Next]_vars => TypeOK' /\ TableSound'
  <2> SUFFICES ASSUME TypeOK, TableSound, [Next]_vars PROVE TableSound'
    BY NextType
  <2>1. CASE UNCHANGED vars
    BY <2>1 DEF vars, TableSound, OneClientPerPhone, LastOneDestroys, Connected
  <2>2. CASE (\E a \in Ips : Accept(a)) \/ AcceptFails
    BY <2>2, Accepted, ReplaceTable
  <2>3. CASE \E i \in Connected :
               RecvStep(i) \/ \E s \in Streams : Look(i, s) \/ Ask(i, s)
    BY <2>3, ClientTable
  <2> QED
    BY <2>1, <2>2, <2>3 DEF Next
<1> QED
  BY <1>1, <1>2, PTL DEF Spec

-----------------------------------------------------------------------------
(* MirrorsListed *)

\* A client enters the list before it works, and leaves it after.
Shown(c) == c.working \/ c.doing = "finish"
ShownListed == \A i \in Connected : Shown(clients[i]) => i \in ToSet(clientpalyerList)

\* A list that a new entry is put at the end of.
LEMMA AppendKeeps ==
    ASSUME NEW S, NEW list \in Seq(S), NEW e \in S
    PROVE  ToSet(list) \cup {e} \subseteq ToSet(Append(list, e))
<1>1. /\ DOMAIN list = 1 .. Len(list) /\ Len(list) \in Nat
      /\ DOMAIN Append(list, e) = 1 .. Len(list) + 1
      /\ Append(list, e)[Len(list) + 1] = e
      /\ \A x \in 1 .. Len(list) : Append(list, e)[x] = list[x]
  BY AppendProperties, LenProperties
<1>2. e \in ToSet(Append(list, e))
  BY <1>1 DEF ToSet
<1>3. ASSUME NEW z \in ToSet(list) PROVE z \in ToSet(Append(list, e))
  <2>1. PICK x \in 1 .. Len(list) : list[x] = z
    BY <1>1 DEF ToSet
  <2>2. x \in DOMAIN Append(list, e) /\ Append(list, e)[x] = z
    BY <1>1, <2>1
  <2> QED
    BY <2>2 DEF ToSet
<1> QED
  BY <1>2, <1>3

\* A list that one entry is taken out of keeps all others.
LEMMA RemoveKeeps ==
    ASSUME NEW S, NEW list \in Seq(S), NEW e
    PROVE  ToSet(list) \ {e} \subseteq ToSet(RemoveFirst(list, e))
<1>0. Len(list) \in Nat /\ DOMAIN list = 1 .. Len(list)
  BY LenProperties
<1>1. CASE \E k \in 1 .. Len(list) : list[k] = e
  <2> DEFINE new == RemoveFirst(list, e)
  <2>1. PICK k \in 1 .. Len(list) :
          /\ list[k] = e /\ new \in Seq(S) /\ Len(new) = Len(list) - 1
          /\ \A x \in 1 .. Len(list) - 1 : new[x] = IF x < k THEN list[x] ELSE list[x + 1]
    BY <1>1, RemoveFirstType
  <2> HIDE DEF new
  <2>2. DOMAIN new = 1 .. Len(list) - 1
    BY <2>1, LenProperties
  <2>3. ASSUME NEW z \in ToSet(list) \ {e} PROVE z \in ToSet(new)
    <3>1. PICK y \in 1 .. Len(list) : list[y] = z
      BY <1>0, <2>3 DEF ToSet
    <3>2. y # k
      BY <2>1, <2>3, <3>1
    <3>3. \E x \in 1 .. Len(list) - 1 : new[x] = z
      <4>1. CASE y < k
        <5>1. y \in 1 .. Len(list) - 1
          BY <1>0, <4>1
        <5> QED
          BY <2>1, <3>1, <4>1, <5>1
      <4>2. CASE ~(y < k)
        <5>1. y - 1 \in 1 .. Len(list) - 1 /\ ~(y - 1 < k) /\ y - 1 + 1 = y
          BY <1>0, <3>2, <4>2
        <5>2. new[y - 1] = list[y - 1 + 1]
          BY <2>1, <5>1
        <5> QED
          BY <3>1, <5>1, <5>2
      <4> QED
        BY <4>1, <4>2
    <3> QED
      BY <2>2, <3>3 DEF ToSet
  <2> QED
    BY <2>3 DEF new
<1>2. CASE ~(\E k \in 1 .. Len(list) : list[k] = e)
  BY <1>2 DEF RemoveFirst
<1> QED
  BY <1>1, <1>2

\* Every step of a client's threads leaves it in the list while it works, and
\* takes no other client out.
LEMMA ClientListed ==
    ASSUME TypeOK, ShownListed, NEW i \in Connected,
           RecvStep(i) \/ \E s \in Streams : Look(i, s) \/ Ask(i, s)
    PROVE  ShownListed'
<1>0. clientpalyerList \in Seq(Slots) /\ i \in Slots
  BY DEF TypeOK, Connected
<1> DEFINE Listed == ToSet(clientpalyerList)
           After(c) == /\ Consistent(c) /\ clients' = [clients EXCEPT ![i] = c]
                       /\ Shown(c) => i \in Listed'
                       /\ Listed \ {i} \subseteq Listed'
<1>1. \E c : After(c)
  <2>1. CASE Start(i)
    <3>1. PICK c : /\ Consistent(c) /\ clients' = [clients EXCEPT ![i] = c]
                   /\ ~c.working /\ c.doing = "start"
      BY <2>1, StepOfClient, Zenon
    <3>2. clientpalyerList' = clientpalyerList
      BY <2>1 DEF Start
    <3> QED
      BY <3>1, <3>2 DEF Shown
  <2>2. CASE StartCount(i)
    <3>1. PICK c : Consistent(c) /\ clients' = [clients EXCEPT ![i] = c]
      BY <2>2, StepOfClient, Zenon
    <3>2. Listed \cup {i} \subseteq Listed'
      BY <1>0, <2>2, AppendKeeps DEF StartCount
    <3> QED
      BY <3>1, <3>2
  <2>3. CASE StartFinish(i)
    <3>1. PICK c : Consistent(c) /\ clients' = [clients EXCEPT ![i] = c]
      BY <2>3, StepOfClient, Zenon
    <3>2. i \in Listed /\ clientpalyerList' = clientpalyerList
      BY <2>3 DEF StartFinish, ShownListed, Shown
    <3> QED
      BY <3>1, <3>2
  <2>4. CASE Restart(i) \/ Leave(i) \/ (\E s \in Streams : Look(i, s) \/ Ask(i, s))
    <3>1. PICK c : Consistent(c) /\ clients' = [clients EXCEPT ![i] = c] /\ Same(c, i)
      BY <2>4, StepOfClient, Zenon
    <3>2. Shown(c) => i \in Listed
      BY <3>1 DEF ShownListed, Shown, Same
    <3>3. clientpalyerList' = clientpalyerList
      BY <2>4 DEF Restart, Leave, Look, Ask
    <3> QED
      BY <3>1, <3>2, <3>3
  <2>5. CASE Stop(i)
    <3>1. PICK c : /\ Consistent(c) /\ clients' = [clients EXCEPT ![i] = c]
                   /\ ~c.working /\ c.doing = "stop"
      BY <2>5, StepOfClient, Zenon
    <3>2. Listed \ {i} \subseteq Listed'
      BY <1>0, <2>5, RemoveKeeps DEF Stop
    <3> QED
      BY <3>1, <3>2 DEF Shown
  <2>6. CASE StopCount(i)
    <3>1. PICK c : /\ Consistent(c) /\ clients' = [clients EXCEPT ![i] = c]
                   /\ ~c.working /\ c.doing = "recv"
      BY <2>6, StepOfClient, Zenon
    <3>2. clientpalyerList' = clientpalyerList
      BY <2>6 DEF StopCount
    <3> QED
      BY <3>1, <3>2 DEF Shown
  <2> QED
    BY <2>1, <2>2, <2>3, <2>4, <2>5, <2>6 DEF RecvStep
<1>2. PICK c : After(c)
  BY <1>1
<1>3. /\ Connected' = Connected /\ Connected \subseteq Slots /\ clients'[i] = c
      /\ \A j \in Slots \ {i} : clients'[j] = clients[j]
  BY <1>2, ReplaceClient DEF Connected
<1> QED
  BY <1>2, <1>3 DEF ShownListed

\* What follows accept() adds no client that works and leaves the list alone.
LEMMA AcceptListed ==
    ASSUME TypeOK, ShownListed, (\E a \in Ips : Accept(a)) \/ AcceptFails
    PROVE  ShownListed'
<1>1. PICK a \in Addresses, fd \in BOOLEAN : Replace(a, fd)
  BY Accepted
<1> DEFINE old == Connected \ StaleSlots(a)
<1>2. /\ \A j \in old : clients'[j] = clients[j]
      /\ \A j \in Connected' : j \in old \/ clients'[j] = NewClient(a, fd)
  BY <1>1, StepOfReplace
<1>3. ~Shown(NewClient(a, fd))
  BY NewClientIs DEF Shown
<1>4. clientpalyerList' = clientpalyerList
  BY Accepted
<1> QED
  BY <1>2, <1>3, <1>4 DEF ShownListed

\* A client that mirrors is in the list its place on the screen is taken from
\* (DoRecvMessage, StopCtrl): for any number of phones, whatever they do, and
\* however the handlers of the clients interleave, if each operation on the
\* list is one step.
THEOREM MirrorsAreListed == Spec => []MirrorsListed
<1>1. Init => TypeOK /\ ShownListed
  BY InitType DEF Init, Connected, ShownListed
<1>2. TypeOK /\ ShownListed /\ [Next]_vars => TypeOK' /\ ShownListed'
  <2> SUFFICES ASSUME TypeOK, ShownListed, [Next]_vars PROVE ShownListed'
    BY NextType
  <2>1. CASE UNCHANGED vars
    BY <2>1 DEF vars, ShownListed, Connected
  <2>2. CASE (\E a \in Ips : Accept(a)) \/ AcceptFails
    BY <2>2, AcceptListed
  <2>3. CASE \E i \in Connected :
               RecvStep(i) \/ \E s \in Streams : Look(i, s) \/ Ask(i, s)
    BY <2>3, ClientListed
  <2> QED
    BY <2>1, <2>2, <2>3 DEF Next
<1>3. ShownListed => MirrorsListed
  BY DEF ShownListed, Shown, MirrorsListed, Mirroring
<1> QED
  BY <1>1, <1>2, <1>3, PTL DEF Spec
=============================================================================
