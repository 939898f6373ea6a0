--------------------------- MODULE WheelContainer ----------------------------
(***************************************************************************)
(* The rings on the screen (WheelContainer.tsx).  Each ring's transform    *)
(* has two writers: React, which writes the resting angle of the rendered  *)
(* digit whenever that digit has changed, and the animation of a draw,     *)
(* which writes the angle of the instant frame by frame, with the digits   *)
(* it closed over.  An angle is named by what it is computed from: the     *)
(* digits turned from and to, and the time since the draw's start.         *)
(***************************************************************************)
EXTENDS GameControls

VARIABLES
    drawDigits,    \* digits of the last render
    rings,         \* what each ring's transform is
    animation      \* what the effect's tick closed over: from, to, whether its
                   \* clock is the running draw's, and the time of its last
                   \* frame (None before the first); or None

wheel == <<drawDigits, rings, animation>>

IsWin == game.phase = "RESULT" \/ game.winAmount > 0

CurrentDigits ==
    IF game.phase = "DRAWING"
    THEN IF drawTarget = None THEN wheelDigits ELSE drawTarget
    ELSE IF game.drawResult = None THEN wheelDigits
         ELSE DigitsOf(Base, game.drawResult)

AtRest(digit) == [from |-> digit, to |-> digit, at |-> 0]
RestOn(digits) == [r \in Rings |-> AtRest(digits[r])]

\* ringAngleAt, elapsed after the draw's start.
AngleAt(r, from, to, elapsed) ==
    CASE elapsed <= 0               -> AtRest(from)
      [] elapsed >= RING_STOP_MS[r] -> AtRest(to)
      [] OTHER                      -> [from |-> from, to |-> to, at |-> elapsed]

Turned(from, to, elapsed) == [r \in Rings |-> AngleAt(r, from[r], to[r], elapsed)]

InitWheel == /\ drawDigits = CurrentDigits /\ rings = RestOn(CurrentDigits)
             /\ animation = None

\* The style of a ring is written where its digit is another than last time.
Rewritten(digits) ==
    [r \in Rings |-> IF digits[r] = drawDigits[r] THEN rings[r] ELSE AtRest(digits[r])]

ShowAtRest(digits) ==
    /\ drawDigits' = digits /\ rings' = RestOn(digits) /\ animation' = None

ShowSpinning(digits, anim) ==
    /\ drawDigits' = digits /\ rings' = Rewritten(digits) /\ animation' = anim

StartedBehind(live) ==   \* mutant: the target is set a render after the clock
    [from |-> wheelDigits, to |-> drawDigits, live |-> live, at |-> None]

\* What tick closes over when its effect runs.
Started(live) == [from |-> wheelDigits, to |-> CurrentDigits, live |-> live, at |-> None]

\* The wheel in the render of what a timer wrote.  The first render of a draw
\* comes before its effect has drawn a result: it still shows the target of
\* the draw before, and starts an animation on that draw's clock, if any.
RenderWheel ==
    IF game.phase # "DRAWING" THEN ShowAtRest(CurrentDigits)
    ELSE ShowSpinning(CurrentDigits,
                      CASE effects = "DRAWING" -> animation
                        [] effects # "DRAWING" -> IF drawTarget = None THEN None
                                                  ELSE Started(FALSE))

\* The table renders for any other reason: what the draw's effect has set, a
\* digit revealed, a tooltip.  A drawStartTs that has changed restarts the
\* animation.
Rerender ==
    /\ ~Unrendered
    /\ IF game.phase # "DRAWING" THEN ShowAtRest(CurrentDigits)
       ELSE ShowSpinning(CurrentDigits,
                         IF animation # None /\ animation.live THEN animation
                         ELSE Started(TRUE))
    /\ UNCHANGED vars

\* A key's table is rendered at once; its phase is not DRAWING.
RenderReplaced == ShowAtRest(CurrentDigits')

\* A frame of the animation, until the last ring has stopped.  (Bound: the
\* draw's time is the one its poll saw last; an older draw's is over.)
FrameTime == IF animation.live /\ poll # None THEN poll.elapsed ELSE DRAW_TOTAL_MS
Frame ==
    /\ animation # None
    /\ animation.at # None => animation.at < RING_STOP_MS[3]
    /\ rings' = Turned(animation.from, animation.to, FrameTime)
    /\ animation' = [animation EXCEPT !.at = FrameTime]
    /\ UNCHANGED <<vars, drawDigits>>
=============================================================================
