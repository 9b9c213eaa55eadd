------------------------------ MODULE Splicing -------------------------------
(***************************************************************************)
(* dump_mpp_frame_to_file (mpp/mpp_decoder_h264.cpp): the report threads   *)
(* of all clients copy their pictures into one YUVSplicingBuffer and write *)
(* it to one file, under mutex_YUVSplicing, while receive threads change   *)
(* the list of mirrors, their number and the layout numbers mNum without a *)
(* lock, and close the file.                                               *)
(*                                                                         *)
(* A plane of the buffer is the sequence of the pictures copied into it    *)
(* since it was last cleared, the latest on top.  A picture is who copied  *)
(* it, the rectangle, and whether its colours lie where its luma does.     *)
(* mutex_YUVSplicing is static in a header: each source file has its own.  *)
(* mutex is that of mpp_decoder_h264.cpp.  That of TcpClient.cpp, under    *)
(* which the file is closed, keeps none of the threads here from the file. *)
(***************************************************************************)
EXTENDS SplicingLayout, Sequences, SequencesExt, FiniteSets

Nobody == "nobody"     \* who holds a lock that is free

CONSTANTS
    Clients,
    Turning,    \* clients whose phone may be turned at any time
    MaxChanges  \* bound on how often a mirror comes or goes

ASSUME SplicingAssumption == /\ IsFiniteSet(Clients)
                             /\ Turning \subseteq Clients
                             /\ Nobody \notin Clients
                             /\ MaxChanges \in Nat

Planes == {"Y", "U", "V"}

VARIABLES
    clientpalyerList,   \* Tcp::clientpalyerList
    ClientPlayernum,    \* Tcp::ClientPlayernum
    seen,               \* what each client last read of it: to add to it, or
                        \* to ask its phone for pictures of that size
    mNum,               \* Codec::mNum of each client
    rpc,                \* where each client's receive thread is
    pc,                 \* where each client's report thread is
    size,               \* the size of the frame it holds
    old,                \* oldmNum, oldsrcW and oldsrcH
    canvas,             \* TVCanvaswidth and TVCanvasheight
    place,              \* the picture at its place, once that is computed
    mutex,              \* who holds the mutex_YUVSplicing of the decoders
    YUVSplicingBuffer,  \* its planes
    mFYUVout,           \* TcpClient::mFYUVout: an open file, one that was
                        \* closed, or NULL
    changes             \* how often a mirror came or went

vars == <<clientpalyerList, ClientPlayernum, seen, mNum, rpc, pc, size, old, canvas,
          place, mutex, YUVSplicingBuffer, mFYUVout, changes>>

NoPicture == [by |-> Nobody, at |-> Rect(0, 0, 0), colour |-> FALSE]
NoSize == [w |-> 0, h |-> 0]

\* SendRequestQuality: the size a phone is asked for when there are n mirrors.
Quality(n) ==
    CASE n = 1 -> [w |-> 1920, h |-> 1080]
      [] n \in {2, 3} -> [w |-> 1600, h |-> 900]
      [] n = 4 -> [w |-> 1366, h |-> 768]
      [] OTHER -> NoSize

\* The sizes of what it then sends; asked for 0 x 0 it sends what it has.
SizesOf(c) ==
    LET asked == IF Quality(seen[c]) = NoSize THEN Quality(1) ELSE Quality(seen[c])
    IN  {asked} \cup (IF c \in Turning THEN {[w |-> asked.h, h |-> asked.w]} ELSE {})

\* playerid: one more for each entry up to the client's own, and all of them
\* if it has none any more.
Playerid(c) ==
    IF c \in ToSet(clientpalyerList)
    THEN CHOOSE i \in DOMAIN clientpalyerList : clientpalyerList[i] = c
    ELSE Len(clientpalyerList)

\* working: between the last step of a start and the first of a stop.
Working(c) == c \in ToSet(clientpalyerList) /\ rpc[c] \in {"recv", "asked"}

-----------------------------------------------------------------------------
(* A client's receive thread *)

RecvUnchanged == UNCHANGED <<pc, size, old, canvas, place, mutex, YUVSplicingBuffer>>

\* A step within a handler, from one place of it to another.
Goes(c, here, there) == rpc[c] = here /\ rpc' = [rpc EXCEPT ![c] = there]

Load(c) == seen' = [seen EXCEPT ![c] = ClientPlayernum]

\* TYPE_MIRROR_RESOLUTION of a client that does not mirror: ClientPlayernum++
\* is a load
Start(c) ==
    /\ c \notin ToSet(clientpalyerList)
    /\ changes < MaxChanges
    /\ changes' = changes + 1
    /\ Goes(c, "recv", "starting")
    /\ Load(c)
    /\ UNCHANGED <<clientpalyerList, ClientPlayernum, mNum, mFYUVout>>
    /\ RecvUnchanged

\* and a store.
Increment(c) ==
    /\ Goes(c, "starting", "listing")
    /\ ClientPlayernum' = seen[c] + 1
    /\ UNCHANGED <<clientpalyerList, seen, mNum, mFYUVout, changes>>
    /\ RecvUnchanged

\* SendRequestQuality, and the client enters the list (a function of the list
\* is taken to be one step).
Enlist(c) ==
    /\ Goes(c, "listing", "finishing")
    /\ Load(c)
    /\ clientpalyerList' = Append(clientpalyerList, c)
    /\ UNCHANGED <<ClientPlayernum, mNum, mFYUVout, changes>>
    /\ RecvUnchanged

\* Both handlers end with the layout number, which may have changed since.
Finish(c) ==
    /\ Goes(c, "finishing", IF c \in ToSet(clientpalyerList) THEN "recv" ELSE "stopped")
    /\ mNum' = [mNum EXCEPT ![c] = ClientPlayernum]
    /\ UNCHANGED <<clientpalyerList, ClientPlayernum, seen, mFYUVout, changes>>
    /\ RecvUnchanged

\* Between two pictures the report thread compares, and asks the phone for a
\* size that fits the new number of mirrors.
Ask(c) ==
    /\ Working(c) /\ pc[c] = "idle"
    /\ mNum[c] # ClientPlayernum
    /\ rpc[c] = "asked" => seen[c] # ClientPlayernum
    /\ rpc' = [rpc EXCEPT ![c] = "asked"]
    /\ Load(c)
    /\ UNCHANGED <<clientpalyerList, ClientPlayernum, mNum, mFYUVout, changes>>
    /\ RecvUnchanged

\* TYPE_MIRROR_RESOLUTION of a client that mirrors is the answer.
Restart(c) ==
    /\ Goes(c, "asked", "recv")
    /\ mNum' = [mNum EXCEPT ![c] = ClientPlayernum]
    /\ UNCHANGED <<clientpalyerList, ClientPlayernum, seen, mFYUVout, changes>>
    /\ RecvUnchanged

\* TYPE_MIRROR_STOP, StopCtrl: ClientPlayernum-- after the client has left the
\* list,
Stop(c) ==
    /\ Working(c)
    /\ changes < MaxChanges
    /\ changes' = changes + 1
    /\ clientpalyerList' = RemoveFirst(clientpalyerList, c)
    /\ rpc' = [rpc EXCEPT ![c] = "stopping"]
    /\ Load(c)
    /\ UNCHANGED <<ClientPlayernum, mNum, mFYUVout>>
    /\ RecvUnchanged

Decrement(c) ==
    /\ Goes(c, "stopping", "finishing")
    /\ ClientPlayernum' = seen[c] - 1
    /\ UNCHANGED <<clientpalyerList, seen, mNum, mFYUVout, changes>>
    /\ RecvUnchanged

\* and the file is closed when the number says that nobody mirrors, by one
\* receive thread at a time (the mutex_YUVSplicing of TcpClient.cpp, which
\* Release of an only client destroys; that it may then keep nobody out any
\* more is left out),
CloseFile(c) ==
    /\ \A d \in Clients : rpc[d] # "closing"
    /\ IF ClientPlayernum = 0 /\ mFYUVout # "null"
       THEN Goes(c, "stopped", "closing") /\ mFYUVout' = "closed"
       ELSE Goes(c, "stopped", "recv") /\ UNCHANGED mFYUVout
    /\ UNCHANGED <<clientpalyerList, ClientPlayernum, seen, mNum, changes>>
    /\ RecvUnchanged

\* and then forgotten.
Forget(c) ==
    /\ Goes(c, "closing", "recv")
    /\ mFYUVout' = "null"
    /\ UNCHANGED <<clientpalyerList, ClientPlayernum, seen, mNum, changes>>
    /\ RecvUnchanged

\* MppDecoderInit of a phone that connects opens the file again; nothing else
\* does.
OpenFile ==
    /\ mFYUVout = "null"
    /\ \A c \in Clients : pc[c] # "crashed"
    /\ mFYUVout' = "open"
    /\ UNCHANGED <<clientpalyerList, ClientPlayernum, seen, mNum, rpc, changes>>
    /\ RecvUnchanged

-----------------------------------------------------------------------------
(* A client's report thread *)

ReportUnchanged ==
    UNCHANGED <<clientpalyerList, ClientPlayernum, seen, mNum, rpc, mFYUVout, changes>>

\* The program ends.
Crash ==
    /\ pc' = [d \in Clients |-> "crashed"]
    /\ rpc' = [d \in Clients |-> "crashed"]
    /\ mFYUVout' = "null"
    /\ UNCHANGED <<clientpalyerList, ClientPlayernum, seen, mNum, size, old, canvas, place, mutex,
                   YUVSplicingBuffer, changes>>

\* A frame comes out of the decoder of a client that is working.
Frame(c) ==
    /\ pc[c] = "idle"
    /\ Working(c)
    /\ \E s \in SizesOf(c) : size' = [size EXCEPT ![c] = s]
    /\ pc' = [pc EXCEPT ![c] = "frame"]
    /\ UNCHANGED <<old, canvas, place, mutex, YUVSplicingBuffer>>
    /\ ReportUnchanged

\* Mutant: only the size of the picture is compared.
NewSizeOnly(c) == old[c].size # size[c]

NewLayout(c) == old[c] # [mNum |-> mNum[c], size |-> size[c]]

\* The canvas is computed anew if the number of mirrors or the size of the
\* picture is not that of the frame before.  mNum is taken not to change
\* between the comparison and the assignment to oldmNum.
Layout(c) ==
    /\ pc[c] = "frame"
    /\ HasCanvas(mNum[c]) \/ canvas[c] # NoSize
    /\ IF NewLayout(c)
       THEN /\ canvas' = [canvas EXCEPT ![c] = IF HasCanvas(mNum[c]) THEN Canvas(mNum[c]) ELSE @]
            /\ old' = [old EXCEPT ![c] = [mNum |-> mNum[c], size |-> size[c]]]
            /\ pc' = [pc EXCEPT ![c] = "clear"]
       ELSE /\ pc' = [pc EXCEPT ![c] = "place"]
            /\ UNCHANGED <<canvas, old>>
    /\ UNCHANGED <<size, place, mutex, YUVSplicingBuffer>>
    /\ ReportUnchanged

\* The client has stopped as the last one before it ever had a canvas.  Its
\* width and height are what the memory held, and a picture of such a size
\* is copied wherever that leads: the program is taken to end.
LayoutUnset(c) ==
    /\ pc[c] = "frame"
    /\ ~HasCanvas(mNum[c]) /\ canvas[c] = NoSize
    /\ Crash

\* Mutant: mutex_YUVSplicing is not taken.
EnterUnlocked(c) == mutex' = mutex

Enter(c) == mutex = Nobody /\ mutex' = c

\* Mutant: mutex_YUVSplicing is kept.
LeaveLocked == mutex' = mutex

Leave == mutex' = Nobody

\* The luma plane is set to black, then the colours.
ClearY(c) ==
    /\ pc[c] = "clear"
    /\ Enter(c)
    /\ YUVSplicingBuffer' = [YUVSplicingBuffer EXCEPT !["Y"] = <<>>]
    /\ pc' = [pc EXCEPT ![c] = "clearUV"]
    /\ UNCHANGED <<size, old, canvas, place>>
    /\ ReportUnchanged

ClearUV(c) ==
    /\ pc[c] = "clearUV"
    /\ YUVSplicingBuffer' = [YUVSplicingBuffer EXCEPT !["U"] = <<>>, !["V"] = <<>>]
    /\ Leave
    /\ pc' = [pc EXCEPT ![c] = "place"]
    /\ UNCHANGED <<size, old, canvas, place>>
    /\ ReportUnchanged

\* The picture of a client as it will lie in the buffer: colour says that the
\* colour planes get it where the luma plane has it.
Picture(c) ==
    LET display == Displayer(canvas[c], size[c])
        y  == Y_start_section(mNum[c], Playerid(c), canvas[c], display)
        uv == UV_start_section(mNum[c], Playerid(c), canvas[c], display)
        at == Rect(y, display.w, display.h)
    IN  [by |-> c, at |-> at,
         colour |-> uv = (at.y \div 2) * (TVScreenwidth \div 2) + at.x \div 2]

\* The place is computed from the list as it is now, and nothing is done
\* while there is no file.
Place(c) ==
    /\ pc[c] = "place"
    /\ IF mFYUVout # "null"
       THEN /\ place' = [place EXCEPT ![c] = Picture(c)]
            /\ pc' = [pc EXCEPT ![c] = "copy"]
            /\ UNCHANGED size
       ELSE /\ pc' = [pc EXCEPT ![c] = "idle"]
            /\ size' = [size EXCEPT ![c] = NoSize]
            /\ UNCHANGED place
    /\ UNCHANGED <<old, canvas, mutex, YUVSplicingBuffer>>
    /\ ReportUnchanged

\* A plane without what client c copied last.
Without(plane, c) ==
    LET mine == { i \in DOMAIN plane : plane[i].by = c }
    IN  IF mine = {} THEN plane ELSE RemoveAt(plane, CHOOSE i \in mine : TRUE)

\* ReadYUV.  Of each client the picture copied last is kept: what can still be
\* seen of an earlier one lies under the pictures copied since.
Spliced(plane, picture) == Append(Without(plane, picture.by), picture)

CopyY(c) ==
    /\ pc[c] = "copy"
    /\ Enter(c)
    /\ YUVSplicingBuffer' = [YUVSplicingBuffer EXCEPT !["Y"] = Spliced(@, place[c])]
    /\ pc' = [pc EXCEPT ![c] = "copyUV"]
    /\ UNCHANGED <<size, old, canvas, place>>
    /\ ReportUnchanged

CopyUV(c) ==
    /\ pc[c] = "copyUV"
    /\ YUVSplicingBuffer' = [YUVSplicingBuffer EXCEPT !["U"] = Spliced(@, place[c]),
                                                    !["V"] = Spliced(@, place[c])]
    /\ pc' = [pc EXCEPT ![c] = "write"]
    /\ UNCHANGED <<size, old, canvas, place, mutex>>
    /\ ReportUnchanged

\* fwrite of the buffer.
Write(c) ==
    /\ pc[c] = "write"
    /\ mFYUVout # "null"
    /\ Leave
    /\ pc' = [pc EXCEPT ![c] = "idle"]
    /\ place' = [place EXCEPT ![c] = NoPicture]
    /\ size' = [size EXCEPT ![c] = NoSize]
    /\ UNCHANGED <<old, canvas, YUVSplicingBuffer>>
    /\ ReportUnchanged

\* The file was closed since Place looked: fwrite is handed a null pointer,
\* which ends the program, or a file that was closed, which may.
WriteClosed(c) ==
    /\ pc[c] = "write"
    /\ mFYUVout # "open"
    /\ Crash

-----------------------------------------------------------------------------
Init ==
    /\ clientpalyerList = <<>>
    /\ ClientPlayernum = 0
    /\ seen = [c \in Clients |-> 0]
    /\ mNum = [c \in Clients |-> 0]
    /\ rpc = [c \in Clients |-> "recv"]
    /\ pc = [c \in Clients |-> "idle"]
    /\ size = [c \in Clients |-> NoSize]
    /\ old = [c \in Clients |-> [mNum |-> 0, size |-> NoSize]]
    /\ canvas = [c \in Clients |-> NoSize]
    /\ place = [c \in Clients |-> NoPicture]
    /\ mutex = Nobody
    /\ YUVSplicingBuffer = [p \in Planes |-> <<>>]
    /\ mFYUVout = "open"
    /\ changes = 0

\* The rest of a handler once it has begun.
HandlerStep(c) ==
    Increment(c) \/ Enlist(c) \/ Decrement(c) \/ Finish(c) \/ CloseFile(c) \/ Forget(c)

RecvStep(c) == Start(c) \/ Stop(c) \/ HandlerStep(c) \/ Ask(c) \/ Restart(c)

ReportStep(c) ==
    Layout(c) \/ ClearY(c) \/ ClearUV(c) \/ Place(c) \/ CopyY(c) \/ CopyUV(c) \/ Write(c)

Next ==
    \/ \E c \in Clients :
         RecvStep(c) \/ Frame(c) \/ ReportStep(c) \/ LayoutUnset(c) \/ WriteClosed(c)
    \/ OpenFile

Spec == Init /\ [][Next]_vars

\* Threads run; a phone that mirrors sends pictures, and when it is asked for
\* another size it answers.  The report thread compares the numbers between any
\* two of its packets (Ask), though the next picture may come at once.
\* mutex_YUVSplicing is held for one copy of the screen, a picture comes every
\* 30 ms or so: who waits for it gets it.
Fairness ==
    \A c \in Clients :
        /\ WF_vars(HandlerStep(c))
        /\ SF_vars(Ask(c)) /\ WF_vars(Restart(c))
        /\ WF_vars(Frame(c))
        /\ WF_vars(Layout(c) \/ ClearUV(c) \/ Place(c) \/ CopyUV(c) \/ Write(c))
        /\ SF_vars(ClearY(c)) /\ SF_vars(CopyY(c))

LiveSpec == Spec /\ Fairness

-----------------------------------------------------------------------------
(* Properties *)

Inside == {"clearUV", "copyUV", "write"}

Places == {"recv", "asked", "starting", "listing", "finishing", "stopping", "stopped",
           "closing", "crashed"}

\* mutex_YUVSplicing is held by the thread that changes or writes the buffer,
\* no canvas is missing when a picture is placed, and a client is in the list
\* once at most.
TypeOK ==
    /\ clientpalyerList \in Seq(Clients)
    /\ Len(clientpalyerList) <= Cardinality(Clients)
    /\ ClientPlayernum \in Int
    /\ \A c \in Clients :
         /\ seen[c] \in Int /\ mNum[c] \in Int
         /\ rpc[c] \in Places
         /\ pc[c] \in {"idle", "frame", "clear", "place", "copy", "crashed"} \cup Inside
         /\ pc[c] \in Inside => mutex = c
         /\ pc[c] \in {"place", "copy"} \cup Inside => canvas[c] # NoSize
    /\ mutex \in Clients => pc[mutex] \in Inside \cup {"crashed"}
    /\ mutex \in Clients \cup {Nobody}
    /\ DOMAIN YUVSplicingBuffer = Planes
    /\ mFYUVout \in {"open", "closed", "null"}
    /\ changes \in 0 .. MaxChanges

\* What fwrite writes is a whole screen: each of the pictures on it has its
\* luma and both colours, none is half cleared or half copied, and the
\* thread's own picture is on top (mutex_YUVSplicing).
WrittenWhole ==
    \A c \in Clients : pc[c] = "write" =>
        /\ \A p \in Planes : YUVSplicingBuffer[p] = YUVSplicingBuffer["Y"]
        /\ YUVSplicingBuffer["Y"] # <<>>
        /\ Last(YUVSplicingBuffer["Y"]) = place[c]

\* The i-th of n mirrors is on the screen: its picture fills its part of it in
\* one direction, is not outside of it, has its colours, and nothing lies
\* over it.
Shown(c, i, n) ==
    LET screen == YUVSplicingBuffer["Y"]
        part == Part(i, n)
    IN  \E k \in DOMAIN screen :
          /\ screen[k].by = c
          /\ Within(screen[k].at, part)
          /\ screen[k].at.w = part.w \/ screen[k].at.h = part.h
          /\ screen[k].colour
          /\ \A l \in k + 1 .. Len(screen) : Apart(screen[k].at, screen[l].at)

\* Mirrors come and go at most MaxChanges times.  After that, while the file is
\* open and ClientPlayernum is right, all of them are again and again on the
\* screen together, each in its own part, whatever pictures of earlier layouts
\* were copied late and whoever cleared the screen in between
\* (dump_mpp_frame_to_file).  With an increment lost two mirrors lie on one
\* another, so the number has to be right in the end.
PicturesShown ==
    <>[](mFYUVout = "open" /\ ClientPlayernum = Len(clientpalyerList))
    => []<>(\A i \in DOMAIN clientpalyerList :
                Shown(clientpalyerList[i], i, Len(clientpalyerList)))
=============================================================================
