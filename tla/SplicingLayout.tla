--------------------------- MODULE SplicingLayout ----------------------------
(***************************************************************************)
(* Where Codec (mpp/mpp_decoder_h264.cpp) puts a picture on the screen:    *)
(* GetDisplayerResolvingPower gives each of mNum mirrors a canvas and fits *)
(* the picture into it, dump_mpp_frame_to_file computes the offsets in the *)
(* planes of YUVSplicingBuffer.  Offsets are the code's: bytes from the    *)
(* beginning of a plane whose rows are TVScreenwidth bytes, half of it for *)
(* the two colour planes.  float is exact here; what it may be off by is   *)
(* lost when a size is rounded to an even number, in the sizes in use.     *)
(***************************************************************************)
EXTENDS Integers

CONSTANTS TVScreenwidth, TVScreenheight

\* 1920 and 1080 (Tcp::Tcp); a screen can be halved.
ASSUME ScreenAssumption == /\ TVScreenwidth \in Nat \ {0, 1}
                           /\ TVScreenheight \in Nat \ {0}

\* The canvas of one of n mirrors.  For any other number (0, once the last
\* mirror has stopped) the canvas stays what it was.
HasCanvas(n) == n \in 1 .. 4
Canvas(n) ==
    IF n \in {1, 2} THEN [w |-> TVScreenwidth \div n, h |-> TVScreenheight]
                    ELSE [w |-> TVScreenwidth \div 2, h |-> TVScreenheight \div 2]

Even(k) == 2 * ((k + 1) \div 2)

\* The size at which a picture fills a canvas: all of its width if the
\* canvas is the taller of the two, all of its height otherwise.
Displayer(canvas, src) ==
    IF canvas.w * src.h < src.w * canvas.h
    THEN [w |-> Even(canvas.w), h |-> Even((canvas.w * src.h) \div src.w)]
    ELSE [w |-> Even((canvas.h * src.w) \div src.h), h |-> Even(canvas.h)]

\* Half of what the picture leaves black, in bytes of the luma plane.
BlackOffset(canvas, display) ==
    IF canvas.h = display.h THEN (canvas.w - display.w) \div 2
    ELSE IF canvas.w = display.w THEN ((canvas.h - display.h) \div 2) * TVScreenwidth
    ELSE 0

\* Mutant: the second mirror begins at the left.
CanvasOffsetNone(n, playerid, canvas) == 0

\* The second of two mirrors begins where its canvas does; of three or four
\* every one begins at 0.
CanvasOffset(n, playerid, canvas) ==
    IF n = 2 /\ playerid = 2 THEN canvas.w ELSE 0

IsPlaced(n, playerid) == n \in {1, 2} /\ (playerid = 1 \/ (playerid = 2 /\ n = 2))

Y_start_section(n, playerid, canvas, display) ==
    IF IsPlaced(n, playerid)
    THEN CanvasOffset(n, playerid, canvas) + BlackOffset(canvas, display)
    ELSE 0

\* U_start_section and V_start_section, less the beginning of their plane.
UV_start_section(n, playerid, canvas, display) ==
    IF IsPlaced(n, playerid)
    THEN CanvasOffset(n, playerid, canvas) \div 2
         + BlackOffset(canvas, display) \div (IF canvas.h = display.h THEN 2 ELSE 4)
    ELSE 0

-----------------------------------------------------------------------------
(* The pixels of the screen *)

\* The rectangle that rows of width w, h of them, cover from an offset on.
Rect(offset, w, h) ==
    [x |-> offset % TVScreenwidth, y |-> offset \div TVScreenwidth, w |-> w, h |-> h]

\* The part of the i-th of n mirrors, side by side.
Part(i, n) == [x |-> (i - 1) * (TVScreenwidth \div n), y |-> 0,
               w |-> TVScreenwidth \div n, h |-> TVScreenheight]

Within(r, s) ==
    /\ s.x <= r.x /\ r.x + r.w <= s.x + s.w
    /\ s.y <= r.y /\ r.y + r.h <= s.y + s.h

Apart(r, s) ==
    \/ r.x + r.w <= s.x \/ s.x + s.w <= r.x
    \/ r.y + r.h <= s.y \/ s.y + s.h <= r.y
=============================================================================
