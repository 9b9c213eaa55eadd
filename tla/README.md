# Verification of rv_receive

rv_receive is the receiving end of a screen-mirroring system on an RV1108
board: phones connect over TCP, send H.264 pictures and AAC sound over TCP or
UDP, and the receiver decodes up to four streams side by side. This directory
holds TLA+ models of its logic, TLC runs on small instances of them and proofs
of the properties that matter most for every instance.

## The system

| component | state it keeps | operations | model |
|---|---|---|---|
| `Tcp` (socket/Tcp) | the table `clients[12]`, `Clientnum`, `ClientPlayernum`, `clientpalyerList` | listening thread: accept, `FreeClient`; `GetClient`; `OnUdpSliceReceived` | `TcpServer` (partly) |
| `TcpClient` (socket/TcpClient) | socket, `running`, `working`, lists of data for the report and send threads, decoders | constructor, `DoRecvLoop`, `DoRecvMessage`, `StopCtrl`, `DoThreadReportData`, `Send`, `DoThreadSendData`, `Release`; client mode: `Connect`, heartbeat | `TcpServer`, `TcpStream`, `TcpClientLife`, `ClientLink` |
| `CombinePackage` | one package, count and bit mask of its slices | `InitPackage`, `PutPackage`, `IsDone`, `ResetData`, `GetRequestSliceMask` | `CombinePackage` |
| `UdpCombinePackage::CombineCache` | sorted list of packages begun, `seqReport`, `retryCount` | `OnUdpSliceReceived` (video) | `UdpCombineCache` |
| `UdpCombinePackage` | the audio package | `OnUdpSliceReceived` (audio, other) | `UdpCombinePackage` |
| `SendPackageCache`, `UdpClient` | packages sent, queue of resends | `Send`, `SendRange`, send thread | `UdpStream` |
| `UdpServer` | socket | receive thread, hands each datagram to `Tcp` | `Deliver` of `UdpStream`; the `Arrive` actions elsewhere |
| `Event` | condition variable | `Wait`, `Signal` | inside `TcpClientLife` |
| `RingBuffer` | ring of packets | `Write`, `Read`, `Retain` | not: unused at run time |
| `Codec` (mpp/mpp_decoder_h264) | decoder, buffer group; `mNum`, canvas, the shared `YUVSplicingBuffer` and its mutex | `init`, `decode_one_pkt`; `dump_mpp_frame_to_file`: fit, place, splice, write | `Codec`; `Splicing` on `SplicingLayout`; `mNum` in `TcpServer` too |
| `AAC2PCM`, `TcpNativeInfo`, `rv1108_receive.cpp` | - | library wrapper, callback, `main` | not: no control flow of interest |
| mpp/*.h other than the decoder's | - | vendored headers | not |

How they interact. `main` creates `Tcp`, which starts a listening thread and a
`UdpServer` thread, and a second `UdpServer`. Each accepted connection becomes
a `TcpClient` with four threads: one receives, two decode (sound and picture),
one sends. The receive thread puts media data into the lists of the report
threads and acts on control messages at once; these change `ClientPlayernum`
and `clientpalyerList` of `Tcp`, which the report threads of all clients read.
A picture that comes out of a client's decoder is scaled and copied into the one
`YUVSplicingBuffer` at the place its client has in that list, and the whole
screen is written to one file.
The UDP threads feed the `UdpCombinePackage` of the client with the sender's
address, which calls the same `DoRecvMessage` and asks for lost slices over
TCP. When a phone connects again, the listening thread deletes its old
`TcpClient`, which joins that client's threads.

What is hard in it: the two reassembly algorithms under loss, repetition and
reordering with sequence numbers that wrap; counters and lists shared by many
threads without locks; the end of a client while its threads wait, decode or
send; retries that only run when something else arrives; a screen that four
threads draw and clear while the layout changes under them; a decoder that stops
taking packets until frames are taken from it; peers that vanish without a word.
`PROJECT.json` lists each hazard at its line.

For each component, what makes it correct:

- reassembly: only whole packages are reported, in order, and a stream that goes
  on never gets stuck behind a lost one;
- sending and resending: what is asked for and still kept is sent again;
- the table and the counters: one slot for each phone, each mirror in the list of
  mirrors, every layout brought up to date;
- a client's life: no thread outlives it, no data waits for ever, its end ends;
- the byte stream: whole messages, each once, in order;
- decoding: each packet becomes one picture, and the call for it returns;
- the screen: never written half done, all mirrors on it side by side;
- the link: a living peer is kept, a dead one noticed.

## Modules

    CombinePackage <- UdpSlices <- UdpCombineCache <- UdpStream <- MCUdpStream
                  |            |            `-- MCUdpCombineCache
                  |            `-- UdpCombinePackage <- MCUdpCombinePackage
                  `-- TcpStream  -- implements -->  MessageFifo
    TcpServer <- MCTcpServer
    TcpClientLife
    SplicingLayout <- Splicing
    Codec
    ClientLink

and the modules with the proofs, each on top of the modules it is about:

    UdpSlices_proofs          UdpSlices
    UdpCombineCache_proofs    UdpStream, and with it UdpCombineCache; UdpSlices_proofs
    UdpCombinePackage_proofs  UdpCombinePackage, UdpSlices_proofs
    TcpServer_proofs          TcpServer
    TcpClientLife_proofs      TcpClientLife
    TcpClient_proofs          ClientLink and TcpStream
    Splicing_proofs           Splicing, and with it SplicingLayout
    Codec_proofs              Codec

**CombinePackage** has the operators of socket/CombinePackage. A slice is its
header, a package is the header of its first slice with a count, the set of
slice numbers whose mask bit is set, and the payload size. Payload bytes are
left out: slice *i* always lands at offset `i * onePackSize`.

**UdpSlices** is what the two UDP modules share: sequence numbers modulo
`SeqSpace` with the comparison `time_after`, and the slices a sender cuts a
frame into (`Send_l`). `Frames` says how many slices each frame has.
`OverflowWraps` says what the compiler makes of the signed overflow in
`time_after`; with FALSE a comparison across the sign change is wrong.

**UdpCombineCache** is `CombineCache::OnUdpSliceReceived`. Each way through
the function is an action on the list as it is once the slice is in it:
ignore an old slice, ask for the packages before the front, wait for the
interval, ask for slices of the front, report, give up. `request` and
`reported` are the calls it makes. The time since the last request is one
Boolean, set again by `Tick`. The sender and the network are the environment:
`Emit` advances the stream, and any slice of one of the newest packages may
arrive at any time, repeatedly or never.

**UdpStream** replaces that environment by the code of the sender:
`AddPackageData` and `Send` put a frame into `packList` (`sent`) and
`sendList`, the send thread works off `sendList`, and the requests of the
cache come back as `ReSend` and `SendRange`, the latter without a signal. The
network keeps the order and loses up to `MaxLoss` datagrams; repetition and
reordering are the subject of `UdpCombineCache`. `ImplementsCache` shows that
the sender is an instance of the environment there, so that everything shown
of the cache holds end to end.

**UdpCombinePackage** is the audio and the "other" branch.

**TcpServer** has the table and the counters of `Tcp` and the control part of
each `TcpClient`. `Start`/`StartCount`/`StartFinish` and `Stop`/`StopCount`
split the handlers of `TYPE_MIRROR_RESOLUTION` and `TYPE_MIRROR_STOP` where
they read and write the shared counter; `Look`/`Ask` split the layout check of
the report thread in the same way. `Accept` and `AcceptFails` are an `accept()`
that returns a descriptor and one that returns -1, which the code does not tell
apart; `Replace` is what follows either: `FreeClient`, and a new client in the
first free slot. `Faults` says what the phones may do besides the protocol, and
whether `accept()` may fail. Deleting a client is one step here; its inside is
TcpClientLife.

**TcpClientLife** is the life of one client: where each thread is between two
operations on a lock, a condition variable or another thread. Data is counted
only. `Signalled` is `Event::Signal`, which reaches only who already waits.
`mppctx` says what the decoders are good for: they work, they refuse packets
because they could not be set up (`Refuse`), or Release has deleted them
(`JoinRecv`). `decode_one_pkt` looks at neither `running` nor an error, so `Use`
needs a decoder that works. A thread whose decoder refuses, or that reads
(`Look`) or decodes with a deleted one (`Astray`), may go on (`GoOn`) or stay
there for ever.

**TcpStream** is the byte stream between two `TcpClient`s: the three lists and
the priorities of `SendCacheManager`, slices on the wire, and `DoRecvLoop`
with the number of bytes in its buffer. **MessageFifo** is what the two loops
promise together: a FIFO of whole messages. A message counts as handed over with the
payload size the receiver has combined, so a package that is reported too early
or too often breaks the refinement.

**SplicingLayout** is the arithmetic of the screen: the canvas of one of *n*
mirrors, the size at which a picture fills it, and the offsets at which it is
copied, in bytes as the code has them. `Rect` turns an offset and a row width
back into the pixels that are covered, which is what the properties speak of.

**Splicing** is `dump_mpp_frame_to_file` in the report threads of all clients,
with the parts of the receive threads that start and stop mirrors and close the
file. A report thread goes through `Frame` (a picture is decoded), `Layout` (is
the layout that of the last picture?), `ClearY` and `ClearUV`, `Place`, `CopyY`
and `CopyUV`, `Write`; what is under `mutex_YUVSplicing` is split so that a
thread without the mutex would be seen inside. A plane is the list of the
pictures in it, the last on top. A start is `Start` (`ClientPlayernum` is
loaded), `Increment` (and stored), `Enlist`, `Finish` (the layout number); a
stop is `Stop` (out of the list, loaded), `Decrement`, `Finish`, `CloseFile`
and `Forget`; the steps of all clients interleave, so updates of the number get
lost. `Ask` and `Restart` are the request for another picture size and its
answer. `mutex_YUVSplicing` is `static` in a header (mpp_decoder_h264.h:33), so
each source file has one of its own: `mutex` is that of the decoders, and it
does not keep a receive thread, which locks the other, from closing the file
at any point of a copy. `WriteClosed` and `LayoutUnset` are the two places where
the program ends by itself.

**Codec** is `init` and `decode_one_pkt` of one client and the decoder of the
library: two queues, the notice of a new picture size ("info") among the frames,
and the wait until it has been answered. Each `break` of the inner loop is an
action. `InfoFails` and `ReadyFails` are a failure to answer the notice, noticed
or (mpp_decoder_h264.cpp:488) not. Every packet is one picture.

**ClientLink** has both ends of a connection: `Connect`, `DoHeartbeatLoop`, the
timeout of `recv` that `DoRecvLoop` counts, and the heartbeat branch of
`DoRecvMessage`. Time passes in seconds (`Second`), and only when all that is
due in the last one has been done (`Quiet`); the link goes down and comes up
again, or is cut; each end may leave.

## Runs

| run | result | what it shows |
|---|---|---|
| `Cache` | pass | `TypeOK`, `ListSorted`, `ReportedWhole`, `RequestsOnlyMissing`, `BackOnlyAfterGivingUp`, `NoSilentDrop`; `ListDrains` under fairness |
| `Udp_loss` | pass | `ImplementsCache`, `StreamTypeOK`, `SkipsOnlyGone`; `RequestsServed` under fairness |
| `Udp_gap` | `GapsAreAsked` violated | a frame lost whole behind an incomplete one is skipped without a request |
| `Audio_safety` | pass | `TypeOK`, `AudioHasAllSlices`, `AudioMovesForward`, `LaterAudioTaken` |
| `Server_table` | pass | `TypeOK`, `TableSound`, `MirrorsListed`, with a full table, all faults and any interleaving |
| `Server_live` | pass | `LayoutFollows`, `DecodingResumes` under any interleaving, with phones that vanish |
| `Life_safety` | pass | `TypeOK`, `JoinedBeforeFreed`, `SendsOnOpenSocket`, `DataTaken`, `ReportThreadsJoined` |
| `Life_release` | `ReleaseEnds` violated | Release and the send thread deadlock on `mutex_write` |
| `Stream_tcp` | pass | `ImplementsFifo`, `StreamTypeOK`, `OrderedPerType`, `RoomToRecv`, `SentArrives` |
| `Splicing_screen` | pass | `TypeOK`, `WrittenWhole`; `PicturesShown` under fairness |
| `Codec_decode` | pass | `TypeOK`, `NoFrameLost`; `PacketsTaken` under fairness |
| `Link_heartbeat` | pass | `TypeOK`, `LiveKept`; `EndNoticed`, `InfoArrives` under fairness |

The two violations are disagreements between the code and its own comments;
`findings` in `PROJECT.json` quotes both sides.

Others are in the models without a run of their own, as what follows from them is
short:

- A repeat of the audio package reported last is reported again, too long by the
  first copy: `ResetData` clears neither `seq` nor `dataSize`
  (CombinePackage.h:43). `AudioHasAllSlices` holds, the size does not.
- A phone that vanishes while it mirrors stays in `ClientPlayernum` and
  `clientpalyerList` (TcpClient.cpp:472), after it has connected again too, and
  two starts at once lose an increment (line 607). So nothing is stated of the
  number; `LayoutFollows` shows that the clients follow whatever it is, and
  `MirrorsListed` is what stays true of the list.
- Two mirrors counted as one both take the whole screen and lie on one another
  for as long as they stay; `PicturesShown` promises nothing then.
- An `accept()` that fails (Tcp.cpp:120; nothing closes descriptors, so they run
  out) makes a client that is counted, and deleted without being counted off, as
  Release returns at once without a descriptor (TcpClient.cpp:104). `Clientnum`
  is then no longer the number of clients, as Tcp.h:51 has it, and the Release of
  the last one destroys no mutex; that one which does is the last is part of
  `TableSound`. The threads of such a client outlive it.
- 15 seconds of silence end a connection at either end, as both run the same line
  (TcpClient.cpp:440). The comment above it says that 15 is for the dongle only
  and that the TV, which is the server here, keeps 5.
- A client whose connection has ended keeps its slot until its own address
  returns (Tcp.cpp:154, `IsValid` looks at `fd_socket`), so a new phone can find
  the table full of dead ones; its connection is then neither used nor closed
  (`Leak` of ClientLink), and it gives up after 15 seconds (`EndNoticed`).
- Three and four mirrors are all copied to offset 0 (mpp_decoder_h264.cpp:259);
  `PicturesShown` is false with three clients.
- The file that is closed when the last mirror stops (TcpClient.cpp:623), under a
  mutex that no report thread takes, can be written to by one that has tested it
  before (`WriteClosed`), and is opened again only by the next phone that
  connects (`OpenFile`): until then mirrors that start again are not shown.
  `PicturesShown` says so.
- A decoder that could not be set up accepts no packet, and `decode_one_pkt` then
  never returns, nor does a Release that joins its thread; the same when the
  buffers of a new picture size could not be set up, or the decoder could not be
  told so. `PacketsTaken` says so.
- Release deletes the decoders (TcpClient.cpp:122) before it joins the threads
  that use them (line 138). What such a thread then does is anything; the two
  liveness properties of a client's end except the state (`Astray`).
- `Connect` takes a refused connection for one that succeeded (`accepted` =
  "refused"), and can be called once only: nothing clears `fd_socket` but
  `Release`, which in client mode dereferences the null pointer `tcp`
  (TcpClient.cpp:132).

### Bounds

*Cache.* 12 sequence numbers, so the stream wraps and half the space is 6; at
most `Horizon` = 5 numbers between the oldest one in play and the newest. The
real space is 2^32 against a list of 15, so what the bound keeps out is a
stream that runs 2^31 packages ahead of the cache. The list holds 3 packages
(15 in the code) and 4 packages can arrive at a time, so it fills up and
evicts; 2 retries (5) are enough for one that is repeated and one that gives
up. Frames have one or two slices, the last one short.

*Udp.* Six frames, five of which the sender keeps (30 in the code), so it
lets go of a frame while it may be asked for; the numbers do not wrap. One lost
datagram in `Udp_loss`: three retries are then enough, as at most one request
is answered late; two losses in `Udp_gap`, which breaks the order of reports.
The list has room for all six frames: a full list drops its front, which the
sender may still keep, and `SkipsOnlyGone` is false with `MaxList` = 4 (the
case is in `Cache`, as the exception of `NoSilentDrop`). An interval between
two requests passes only once what is on its way has arrived, unless the send
thread sleeps.

*Audio.* Frames of one to three slices, 12 numbers, 3 packages live.
`MaxPayload` bounds `dataSize`, which repeats of a reported package add to.

*Server.* `Server_table` has three phones and two slots (symmetric in the
addresses), so the table is full and a phone is turned away, all faults, any
interleaving, and one report thread, as the two change the same things.
`Server_live` has two phones with both report threads, which may vanish and
return: enough for one to change the number while another looks at it, and both
threads of one client to ask at once. `MaxCount` caps `Clientnum`,
`ClientPlayernum` and the list where faults and lost updates let them drift, at
2 where the table has 2 slots.

*Life.* At most `MaxData` = 2 elements in a list: empty, one and more than one.
One client suffices, its threads touch no other client. `Life_release` needs one
element only.

*Stream.* Three messages of no or two slices' payload, a head of two bytes,
slices of at most two, and a buffer of exactly one largest slice with its
head, as `RECV_BUFSIZE` is for the largest slice a peer may send. Reads stop
at every byte position. One element of video closes the lists.

*Splicing.* Two clients on the real screen of 1920 by 1080, which start and stop
three times in all: enough for one to stop while the other starts or draws, so
that lists, places and layouts of several generations meet and updates of the
number get lost. Two is the largest number the code lays out. `Turning` is
empty: pictures are as they were asked for; with other sizes the colours may be
off by half a row (`ColoursFit`).

*Codec.* Three packets and two frames in the decoder: both queues fill up, and
the notice of a new size comes behind a frame, in front of others, and twice in
a row. Five repeats of a timed-out call, as in the code. Longer queues add
nothing but states.

*Link.* The real limit of 15 timeouts, and outages of up to 14 seconds. That is
tight: with 15 `LiveKept` is false, as both ends have then counted to the limit.
Both ends have the 15, as in the code; with the 5 seconds that the comment gives
the TV, an outage of 5 seconds would end the link at the server. The theorem
`EndsAreKept` holds for any limit. One connection, as the code can make no
second one.

Where a system really stops the run says `CHECK_DEADLOCK FALSE`: a client that
has been deleted, a stream whose three messages are delivered, and a screen
after the program has ended or the last mirror has stopped.

### Fairness

*Cache.* `Tick` (time passes), `Emit` and the arrival of a slice of the newest
package: while a phone mirrors it sends pictures and not every datagram is
lost. Nothing is assumed of resends. While no slice arrives nothing is asked
for or given up, which is why `ListDrains` needs a stream that goes on.

*Udp.* The sender sends its frames, the send thread and the handling of
requests run, and a datagram that is not lost arrives. `Sleep` is fair because
`Event::Wait` has a deadline of a second.

*Server.* Handlers end, report threads run, and a phone that was asked for
another picture size while it mirrors answers with its resolution, which is
what phones do on TYPE_REQUEST_QUALITY.

*Life.* Each thread runs when it can. The receive thread leaves its loop only
once `running` is cleared (`shutdown` wakes `recv`); no phone is assumed to send
or close anything, and nothing is assumed of a thread in a decoder that refuses
its packet or has been deleted (`GoOn` is in no fairness). `Lock` is strongly
fair: the send thread gives `mutex_write` back between two messages.
`Life_release` fails in spite of it.

*Stream.* `recv` returns what was sent, and the receive loop runs. Nothing is
assumed of the sender.

*Splicing.* Threads run, a handler that has begun ends, a phone that mirrors
sends pictures, and one that was asked for another picture size answers with its
resolution. `Ask` is strongly fair, as the report thread compares the numbers
between any two packets (TcpClient.cpp:698), however soon the next picture is
there. Taking `mutex_YUVSplicing` is strongly fair too: it is held for a copy of
the screen, and a picture comes every 30 ms or so, so it is free most of the
time. That the file is open and the number of mirrors right in the end are
premises of the property, not assumptions.

*Codec.* The report thread runs, and so does the decoder while it has a packet,
room for a frame, and no notice unanswered. That setting up buffers succeeds is
not assumed.

*Link.* Threads run, seconds pass, an outage ends after `MaxOutage` seconds, a
connection that waits is accepted, and the upper layer of the client answers when
it is asked for the client info.

## Proofs

TLAPS checks the eight `*_proofs` modules: every safety property that a
passing run checks, and both refinements, but for `SkipsOnlyGone`, are
theorems. They hold for every value of the constants that the named `ASSUME`s
admit; TLC evaluates those on each run of the module. A theorem that needs
more than that says so in an `ASSUME` of its own, and the run that checks the
same property satisfies it:

| hypothesis | of | why |
|---|---|---|
| `WithinHalf`: `OverflowWraps`, `Horizon` and `LiveWindow` less than `Half` | the order of the cache, `AudioGoesForward` | `time_after` orders numbers less than half the space apart; with 2^32 numbers and lists of 15 and 30 packages the code stays in that range unless a stream runs 2^31 packages ahead |
| `Horizon < Half` | `AudioIsWhole` | the constructor's seq -1 must not come within reach of the stream again before it is replaced |
| `OverflowWraps` | `AudioNeverStalls` | with the overflow undefined the comparison at the sign change may go either way |
| `MaxFrames <= LiveWindow` | `StreamImplementsCache`, `WholeEndToEnd` | the window of the cache's environment must take in the resends, which the sender makes of any package it keeps |
| `StartsAtZero` | `TableIsSound` | no constructor sets the counters of `Tcp` |
| `MaxOutage < Limit`, `Limit > 1` | `EndsAreKept` | with an outage of `Limit` seconds both ends do count to it; with `Limit` 1 the first second without a message ends a link that is up |
| width a multiple of 4, height even | `PicturesFit`, `ColoursFit`, `MirrorsApart` | sizes are rounded up to even ones; the screen is 1920 by 1080 |

*UdpSlices* (`SeqSpaceAssumption`, `FramesAssumption`: every frame has at
least one slice). The lemmas that video and audio share. `Age(h, s)` is how
many numbers `s` lies behind `h`; ages less than `Half` turn `time_after` into
`<` (`AgeOrders` and its companions), which is all that the proofs use of
arithmetic modulo. `PutPackageOK`: a slice of the same frame keeps the account
of a package, whether it is new or repeated; `DoneIsWhole` turns the count
test of `IsDone` into "no slice missing".

*UdpCombineCache* (`CacheAssumption`). `TypeCorrect` and `OnlyWholeFrames`
rest on an invariant `Inv` that is inductive: the types, every package of the
list accounting for its mask, and every reported package whole.
`ReportedWhole` alone says nothing of packages still in the list. Loss,
repetition and order do not appear in the argument, so it holds for
`OverflowWraps` FALSE too, and so does `DropsAreAccounted`. `ListSorted` is
not inductive: serial order is not transitive, so a list whose neighbours are
in order need not stay so when a package is put in. `Window` adds that all
packages and `seqReport` have ages of less than `Half` in the order of the
list; then the place found by the search from the back is the right one
(`ListStaysSorted`). `AsksOnlyMissing` adds `RequestsOnlyMissing` to that
(`OrderInv`), as a range that is asked for ends before the front of a sorted
list; `BackOnlyAfterRetries` follows step by step.

*UdpStream* (`StreamAssumption`). `StreamTypeCorrect` needs that the numbers
in `packList` end with `head` and that nothing is queued that was not emitted
(`StreamInv`). `StreamImplementsCache` adds `AllLive`: everything emitted is
in the window of the cache's environment, so each step of the sender and the
network is a step of that environment or none. `WholeEndToEnd` is what follows
for the stream from the theorems about the cache.

*UdpCombinePackage* (`AudioAssumption`). `AudioInv` says that the package has
the number of slices of the frame whose number it has (`HeaderKnown`), or that
it still has the constructor's header and the stream is in its first half
(`Untouched`): after `ResetData` a header stays behind, and only with its
count the test of `IsDone` means anything.

*TcpServer* (`ServerAssumption`, and `NoClientAssumption`: the mark of an
empty slot is not a client). All three theorems hold for any faults and any
interleaving. `TableIsSound` rests on what `Replace` does, with a descriptor or
without: it deletes every client of the address and every one without a
descriptor before it puts one in (`OneClientPerPhone`), and counts off no more
clients than it deletes, so that `Clientnum` may exceed the number of clients
but never falls below it (`LastOneDestroys`). With -1 never returned the two
would be equal; as the code is they are not. For
`MirrorsAreListed` the list is followed through the handlers (`ShownListed`): a
client is put in before it counts as working and taken out when it does no
longer, and the entry that `Stop` removes is one of its own slot (`RemoveKeeps`),
be it an old one of a phone that vanished. The number `ClientPlayernum` is in no
theorem, as nothing holds of it in general.

*TcpClientLife* (`LifeAssumption`). `IInv` adds to the types how far Release
has come: past `Close` the socket is closed and `running` cleared, past each
join the thread joined has ended and stays so (`RecvJoined`, `AudioJoined`,
`VideoJoined`, `SendJoined`). `FreedWhenJoined` is its last stage.
`NoSendAfterClose` needs the part of the types that says who holds
`mutex_write`: from `Close` to the join of the send thread it is Release, so
the send thread cannot be between `SendLock` and `SendUnlock`. Neither needs
that a thread ever leaves a decoder.

*ClientLink* (`LinkAssumption`). That no more than `MaxOutage + 4` messages
are on their way is part of `TypeOK`, and not inductive: `LinkInv` counts with
them the answers that are due (`Load`), bounds the sum by the seconds the link
has been down (`LoadBound`), and says that nothing is under way to an end that
does not read (`Silence`). `EndsAreKept` needs `Lively`: while both run, no
end has missed more seconds than the outage has lasted, and an end that has
missed one has a message under way to it, or a heartbeat that will be
answered, or a heartbeat about to be sent. So its count is back at zero before
the link can go down again.

*TcpStream* (`StreamAssumption`; `RecvBufSize` has room for a head and a full
slice, native.h:12). `StreamInv` says that what is on the wire is an unbroken
row (`Unbroken`): slice 0 follows anything, every other slice follows the one
before it of the same message, from the package under reassembly through the
wire to the slice the send thread has next. A failed send only ends a row.
From that the package always has exactly the slices before the first on the
wire (`CombineHolds`), so a package is done with the last slice of a message
and with no other; that is the step of the refinement (`FifoStep`).
`NoOvertaking` adds `InOrder`, the same property split by place: received, on
the wire, being sent, waiting, with the numbers of all below the next one
(`Numbered`), since a message put last must be behind messages that are
anywhere.

*Splicing* (`SplicingAssumption`: finitely many clients; `ScreenAssumption`: a
screen that can be halved). `WholeScreens` holds for any number of clients and
any screen, though only two are laid out: what is written is whole by the mutex
alone, wherever the pictures lie. `IInv` says that who works on the buffer holds
the mutex (`Exclusion`), that all planes agree while nobody does (`Steady`), and
by which step they differ otherwise (`Halfway`): the luma is cleared and the
colours not yet, or the luma has the picture that the colours get next. `Ended`
is needed because the program may end in the middle of a copy. `TypeCorrect`
needs that a client is in the list once (`Distinct`), or its length would not be
bounded by the number of clients, that one that is about to enter it is not
there yet (`Unlisted`), and that a layout that has been seen has given a canvas.
Of the number of mirrors it says nothing but that it is one. `PicturesFit` and
`ColoursFit` are arithmetic (`PictureIsAt` says where a picture lies): TLC sees
the few sizes that phones are asked for, the theorems are about all of them,
with quotients where the code has `float`. `ColoursFit` says when the planes
agree: U and V get a picture in the place of its luma exactly if half of the
black above and below is even. The sizes asked for are of that kind; otherwise
the offset in bytes divided by 4 lies half a row of a colour plane off.

*Codec* (`CodecAssumption`). `IInv` adds to `TypeOK` that the notice in the
thread's hand is the only one (`OneNotice`) and that the thread returns only
with its packet accepted (`IdleAccepted`); `NothingLost` then counts packets
and pictures through each step. It needs `TypeOK`: that a notice is the last
of the output is why `PicturesIn` may look at the last element only.

Where a property depends on what a recursive function computes (`Only` of
UdpStream, `Bytes` and `Whole` of TcpStream) there is no induction rule to
cite: `OnlyType`, `StepByStep` and `SameSteps` argue by a least
counterexample, with the well-foundedness of `<` on the naturals. The
functions are written out because the provers know nothing of `SelectSeq` and
of the folds.

Only model-checked, as liveness under fairness is out of the prover's reach:
`ListDrains`, `LayoutFollows`, `DecodingResumes`, `DataTaken`,
`ReportThreadsJoined`, `SentArrives`, `RequestsServed`, `PicturesShown`,
`PacketsTaken`, `EndNoticed`, `InfoArrives`. Also `SkipsOnlyGone`: that a
frame still kept by the sender is never skipped holds by a count of losses,
answers and retries that depends on their bounds (it is false with two losses
or a list of 4), and an invariant that says so for all bounds has not been
found.

## What is not modelled

- Memory: leaks of `FreeList` and `Clear...Data`, overlapping copies, and use
  after free: of the client in `Tcp::OnUdpSliceReceived` and by the threads of a
  client without a descriptor, which nobody joins. That the decoders are deleted
  under the report threads is in `TcpClientLife`, with anything that may follow
  for the thread, nothing for the rest of the program.
- Two receive threads that close the file at once: they lock the same
  `mutex_YUVSplicing`, that of TcpClient.cpp, but Release of an only client
  destroys it (line 134), and what a lock of it does afterwards is undefined.
- A failed `mpp_create`, after which the first packet ends the program, and the
  destructor of `Codec`.
- The UDP socket: errors of `recvfrom`, which the code ignores.
- The second UDP thread, and the UDP thread's part in the life of a client.
- Partial sends; `DoRecvLoop` never resynchronises after one.
- Commands that `PutSendData` refuses while video waits: the guard is there, no
  property speaks of them.
- `SendRange` walking `packList` without the mutex: one step in `UdpStream`.
- The constructor of `TcpClient`, whose receive thread starts before the rest.
- Disconnecting and connecting again in client mode, which the code cannot do
  (above), and `TYPE_UDP_SUPPORT`, which gives a client its `UdpClient`.
- `RingBuffer`: compiled, but used nowhere at run time (TcpClient.h:196).
- Pixels: scaling by libyuv, what a packet or a frame holds, frames with errors
  (which are dumped like others), frames without a buffer (which are counted as
  dumped but not drawn) and packets that are not one picture each.
- More than one read of `mNum` in one call of `dump_mpp_frame_to_file`.
- The audio decoder, the callback and `main`: calls of libraries and I/O.
- Uninitialised `Clientnum` and `ClientPlayernum`: `StartValues` is `{0}`.

About half of the repository's lines are the headers of the Rockchip library in
src/mpp, which declare types and functions of code that is not there; with the
program's own comments, its includes and its logging they are most of what no
definition stands for.

## Plan

In this order; modules before proofs, the most important behaviour first.

1. `CombinePackage`, `UdpSlices`, `UdpCombineCache`, `UdpCombinePackage`: done.
2. `TcpServer`, `TcpClientLife`, `TcpStream` with `MessageFifo`: done.
3. `UdpStream`: done for one stream of video; left are an abstract
   specification "frames are reported once, in order, with gaps" and the wrap
   of the numbers in `SendRange`.
4. `SplicingLayout` and `Splicing`, `Codec`, `ClientLink`: done. Left is the UDP
   thread in `TcpClientLife`, with the use of a client that is being deleted.
5. Theorems: done for all safety properties but `SkipsOnlyGone`. Left are an
   invariant for it that says how many retries a loss can cost, and the order
   of reports from end to end, on the abstract specification of item 3.
