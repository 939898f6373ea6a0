-------------------------------- MODULE Wheel --------------------------------
(***************************************************************************)
(* The three-ring wheel of the Triple Chance table                         *)
(* (packages/game-core/src/wheel.ts): which digit is under the pointer,    *)
(* how a ring turns from one digit to the next, and how many digits of a   *)
(* draw may be shown after a given time.  The angle of a ring is a pure    *)
(* function of the time since the draw started; here time is counted in    *)
(* twentieths of the ring's spin, and an angle in degrees is a fraction    *)
(* with denominator SpinScale, so that the code's curve (cruise to 65%,    *)
(* cubic deceleration after it) is exact on that grid.                     *)
(***************************************************************************)
EXTENDS Integers, Sequences, FiniteSets

Rings == 1..3          \* outer (hundreds), middle (tens), inner (units)

\* Digit order of each ring, clockwise from the pointer.
RING_ORDER == << <<5, 0, 6, 4, 7, 3, 8, 2, 9, 1>>,
                 <<9, 1, 5, 0, 6, 4, 7, 3, 8, 2>>,
                 <<4, 7, 3, 8, 2, 9, 1, 5, 0, 6>> >>

SEGMENT_DEG    == 36
RING_DIRECTION == <<-1, 1, -1>>
RING_TURNS     == <<5, 7, 9>>
RING_STOP_MS   == <<5000, 7000, 9000>>
DRAW_TOTAL_MS  == RING_STOP_MS[3] + 500

\* TLA+'s % is already the code's ((deg % 360) + 360) % 360.
Mod360(deg) == deg % 360

SegmentOf(ring, digit) == CHOOSE i \in 0..9 : RING_ORDER[ring][i + 1] = digit

RestAngle(ring, digit) == Mod360(-SegmentOf(ring, digit) * SEGMENT_DEG)

\* Math.round of the segment, for angles that are whole degrees.
DigitAtPointer(ring, angle) ==
    RING_ORDER[ring][(((Mod360(-angle) + SEGMENT_DEG \div 2) \div SEGMENT_DEG) % 10) + 1]

\* The digits of a result, hundreds first.  The code's base is 10.
DigitsOf(base, triple) ==
    <<(triple \div (base * base)) % base, (triple \div base) % base, triple % base>>

(***************************************************************************)
(* spinProgress at n twentieths of the spin, times SpinScale.  With        *)
(* t0 = 13/20 and D = 7/20, v0 = 60/46, so that the cruise covers          *)
(* 147/2254 per step and the rest is 1 - (20 - n)^3 / 2254.                *)
(***************************************************************************)
SpinScale == 2254
SpinSteps == 20

SpinProgress(n) ==
    IF n <= 13 THEN 147 * n ELSE SpinScale - (SpinSteps - n) ^ 3

SpinTotalSigned(ring, from, to) ==   \* mutant: the way on to the digit is not normalised
    LET dir == RING_DIRECTION[ring]
    IN  dir * RING_TURNS[ring] * 360 + (RestAngle(ring, to) - RestAngle(ring, from))

\* What the ring turns through: whole turns, then on to the digit.
SpinTotal(ring, from, to) ==
    LET start == RestAngle(ring, from)
        end   == RestAngle(ring, to)
        dir   == RING_DIRECTION[ring]
        delta == IF dir > 0 THEN Mod360(end - start) ELSE -Mod360(start - end)
    IN  dir * RING_TURNS[ring] * 360 + delta

\* ringAngleAt, times SpinScale, n twentieths of the spin after its start.
RingAngleAt(ring, from, to, n) ==
    CASE n <= 0         -> RestAngle(ring, from) * SpinScale
      [] n >= SpinSteps -> RestAngle(ring, to) * SpinScale
      [] OTHER          -> RestAngle(ring, from) * SpinScale
                             + SpinTotal(ring, from, to) * SpinProgress(n)

\* How many digits are revealed elapsed milliseconds after the draw started.
RevealedDigitCount(elapsed) == Cardinality({r \in Rings : elapsed >= RING_STOP_MS[r]})

(***************************************************************************)
(* A spin turns its ring one way only, by at least the ring's whole turns, *)
(* and stops without a jump on the digit asked for: the angle the curve    *)
(* tends to is the resting angle, and the digit there is under the         *)
(* pointer (wheel.ts: "NEVER overshoots the cell limit or reverses         *)
(* direction, stopping firmly and instantly on the target number").        *)
(***************************************************************************)
SpinsLandOnTheirDigit ==
    \A ring \in Rings, from, to \in 0..9 :
       LET dir   == RING_DIRECTION[ring]
           total == SpinTotal(ring, from, to)
           end   == (RestAngle(ring, from) + total) * SpinScale
           turned(n) == IF n = SpinSteps THEN end ELSE RingAngleAt(ring, from, to, n)
       IN  /\ DigitAtPointer(ring, RestAngle(ring, to)) = to
           /\ (end - RingAngleAt(ring, from, to, SpinSteps)) % (360 * SpinScale) = 0
           /\ dir * total >= RING_TURNS[ring] * 360
           /\ \A n \in 0..(SpinSteps - 1) :
                 /\ dir * turned(n) < dir * turned(n + 1)
                 /\ dir * (turned(n + 1) - turned(n))
                       <= dir * (turned(1) - turned(0))
=============================================================================
