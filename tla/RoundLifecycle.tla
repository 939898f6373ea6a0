--------------------------- MODULE RoundLifecycle ---------------------------
(***************************************************************************)
(* What the game engine promises about rounds, without engines, leases,    *)
(* faults or stale reads: each game has a sequence of rounds, one live at  *)
(* a time, that open, lock at their deadline and end, and every change of  *)
(* state takes the next version.                                           *)
(***************************************************************************)
EXTENDS Integers

CONSTANTS Games, Terminal, Lockable

VARIABLES rounds, clock

vars == <<rounds, clock>>

Init == rounds = {} /\ clock = 0

OfGame(g) == {r \in rounds : r.game = g}
Live(r)   == r.state \notin Terminal

Moved(r, state) ==
  [game |-> r.game, number |-> r.number, state |-> state,
   version |-> r.version + 1, deadline |-> r.deadline]

Move(r, state) == rounds' = (rounds \ {r}) \cup {Moved(r, state)}

\* A game whose rounds are all over gets the next one.
Create(g) ==
  \E r \in rounds' :
    /\ rounds' = rounds \cup {r}
    /\ r.game = g /\ r.state = "ROUND_CREATED" /\ r.version = 0
    /\ \A s \in OfGame(g) : ~Live(s) /\ s.number < r.number
    /\ \A n \in 1 .. r.number - 1 : \E s \in OfGame(g) : s.number = n
    /\ clock' = clock

Open(g) ==
  \E r \in OfGame(g) :
    /\ r.state = "ROUND_CREATED"
    /\ Move(r, "BETTING_OPEN")
    /\ clock' = clock

Lock(g) ==
  \E r \in OfGame(g) :
    /\ r.state \in Lockable
    /\ r.deadline <= clock
    /\ Move(r, "BETTING_LOCKED")
    /\ clock' = clock

\* The first bet of a round, the end of a locked round, an admin's void.
Later(g) ==
  \E r \in OfGame(g) :
    /\ \/ r.state = "BETTING_OPEN" /\ Move(r, "BETTING_ACTIVE")
       \/ r.state = "BETTING_LOCKED" /\ Move(r, "ROUND_COMPLETED")
       \/ Live(r) /\ Move(r, "ROUND_VOID")
    /\ clock' = clock

Tick == clock' = clock + 1 /\ rounds' = rounds

Next == Tick \/ \E g \in Games : Create(g) \/ Open(g) \/ Lock(g) \/ Later(g)

Spec == Init /\ [][Next]_vars
=============================================================================
