-------------------------- MODULE RoundEngineProofs -------------------------
(***************************************************************************)
(* Proofs about RoundEngine, for any engines, games, clocks and faults.    *)
(*                                                                         *)
(* Whatever an engine has read, a step changes game_rounds in one of two   *)
(* ways: it adds the next round of a game that has none, or it moves one   *)
(* round along a legal edge.  What is proved about the table rests on that *)
(* and on what an engine about to insert knows: the numbers below its own  *)
(* are taken, for rounds are never deleted.                                *)
(***************************************************************************)
EXTENDS RoundEngine, TLAPS

Legal(r, state) ==
  \/ r.state = "ROUND_CREATED" /\ state = "BETTING_OPEN"
  \/ r.state \in Lockable /\ r.deadline <= clock /\ state = "BETTING_LOCKED"
  \/ r.state = "BETTING_OPEN" /\ state = "BETTING_ACTIVE"
  \/ r.state = "BETTING_LOCKED" /\ state = "ROUND_COMPLETED"
  \/ Live(r) /\ state = "ROUND_VOID"

RoundAdded ==
  \E e \in Engines :
    phase[e] = "create" /\ ~Taken(e) /\ rounds' = rounds \cup {NewRound(e)}

RoundMoved ==
  \E r \in rounds, state \in States : Legal(r, state) /\ Update(r, state)

\* Every number below n is the number of a round of g.
TakenBelow(g, n) == \A m \in 1 .. n - 1 : \E s \in OfGame(g) : s.number = m

DraftsInOrder ==
  \A e \in Engines : phase[e] = "create" =>
    target[e] > 0 /\ TakenBelow(GameOf(e), target[e])

IInv == TypeOK /\ DraftsInOrder /\ OneLiveRound /\ NumbersInOrder

\* Everything but the table: what the engines, Redis and the clock are.
ProcessTypeOK ==
  /\ clock \in 0 .. MaxClock
  /\ lease \in Engines \cup {Nobody, Ghost}
  /\ redisUp \in BOOLEAN
  /\ isLeader \in [Engines -> BOOLEAN]
  /\ phase    \in [Engines -> Phases]
  /\ turn     \in [Engines -> 1 .. Len(ActiveGames)]
  /\ target   \in [Engines -> Nat]
  /\ deadline \in [Engines -> Int]
  /\ faults \in 0 .. MaxFaults

\* The game an engine reconciles is a game.
LEMMA GameTyped ==
  ASSUME ProcessTypeOK, NEW e \in Engines
  PROVE  GameOf(e) \in Games
  BY EngineAssumption DEF ProcessTypeOK, GameOf

\* Going on to the next game keeps the types of what it changes.
LEMMA NextGameTyped ==
  ASSUME ProcessTypeOK, NEW e \in Engines, NextGame(e)
  PROVE  /\ phase'    \in [Engines -> Phases]
         /\ turn'     \in [Engines -> 1 .. Len(ActiveGames)]
         /\ target'   \in [Engines -> Nat]
         /\ deadline' \in [Engines -> Int]
         /\ phase'[e] # "create"
         /\ \A d \in Engines \ {e} : phase'[d] = phase[d] /\ turn'[d] = turn[d]
                                     /\ target'[d] = target[d]
<1>1. Len(ActiveGames) \in Nat \ {0}
  BY EngineAssumption
<1>2. turn[e] \in 1 .. Len(ActiveGames)
  BY DEF ProcessTypeOK
<1>3. CASE turn[e] < Len(ActiveGames)
  <2>1. turn[e] + 1 \in 1 .. Len(ActiveGames)
    BY <1>1, <1>2, <1>3
  <2>2. /\ phase'    = [phase EXCEPT ![e] = "find"]
        /\ turn'     = [turn EXCEPT ![e] = turn[e] + 1]
        /\ target'   = [target EXCEPT ![e] = 0]
        /\ deadline' = [deadline EXCEPT ![e] = 0]
    BY <1>3 DEF NextGame, Forget, Goto
  <2> QED
    BY <2>1, <2>2 DEF ProcessTypeOK, Phases
<1>4. CASE ~(turn[e] < Len(ActiveGames))
  <2>1. 1 \in 1 .. Len(ActiveGames)
    BY <1>1
  <2>2. /\ phase'    = [phase EXCEPT ![e] = "idle"]
        /\ turn'     = [turn EXCEPT ![e] = 1]
        /\ target'   = [target EXCEPT ![e] = 0]
        /\ deadline' = [deadline EXCEPT ![e] = 0]
    BY <1>4 DEF NextGame, Rest, Forget, Goto
  <2> QED
    BY <2>1, <2>2 DEF ProcessTypeOK, Phases
<1> QED
  BY <1>3, <1>4

\* Every step keeps the types of the processes, of Redis and of the clock.
LEMMA ProcessesTyped ==
  ASSUME TypeOK, [Next]_vars
  PROVE  ProcessTypeOK'
<1> ProcessTypeOK
  BY DEF TypeOK, ProcessTypeOK
<1>0. Len(ActiveGames) \in Nat \ {0} /\ MaxClock \in Nat /\ MaxFaults \in Nat
  BY EngineAssumption
<1> USE DEF ProcessTypeOK, redisVars, engineVars
<1>1. ASSUME NEW e \in Engines, TickStarts(e) PROVE ProcessTypeOK'
  BY <1>1 DEF TickStarts, Goto, Phases
<1>2. ASSUME NEW e \in Engines, Renew(e) PROVE ProcessTypeOK'
  BY <1>2 DEF Renew, Goto, Phases
<1>3. ASSUME NEW e \in Engines, Acquire(e) PROVE ProcessTypeOK'
  BY <1>3 DEF Acquire, Goto, Phases
<1>4. ASSUME NEW e \in Engines, RedisFails(e) PROVE ProcessTypeOK'
  BY <1>4 DEF RedisFails, Goto, Phases
<1>5. ASSUME NEW e \in Engines, FindLiveRound(e) PROVE ProcessTypeOK'
  <2>1. CASE NextGame(e) /\ UNCHANGED <<clock, redisVars, isLeader, faults>>
    BY <2>1, NextGameTyped
  <2>2. CASE /\ Goto(e, "number")
             /\ UNCHANGED <<clock, redisVars, isLeader, faults, turn, target, deadline>>
    BY <2>2 DEF Goto, Phases
  <2>3. ASSUME NEW r \in rounds, Goto(e, Due(r.state)),
               target' = [target EXCEPT ![e] = r.number],
               UNCHANGED <<clock, redisVars, isLeader, faults, turn, deadline>>
        PROVE  ProcessTypeOK'
    <3>1. r.number \in Nat
      BY DEF TypeOK, RoundRows
    <3> QED
      BY <2>3, <3>1 DEF Goto, Due, Phases
  <2> QED
    BY <1>5, <2>1, <2>2, <2>3 DEF FindLiveRound, OfGame
<1>6. ASSUME NEW e \in Engines, NextRoundNumber(e) PROVE ProcessTypeOK'
  <2>1. PICK n \in {0} \cup {r.number : r \in OfGame(GameOf(e))} :
          target' = [target EXCEPT ![e] = n + 1]
    BY <1>6 DEF NextRoundNumber
  <2>2. n \in Nat
    BY <2>1 DEF OfGame, TypeOK, RoundRows
  <2>3. clock + Skew[e] + Window \in Int
    BY EngineAssumption
  <2> QED
    BY <1>6, <2>1, <2>2, <2>3 DEF NextRoundNumber, Goto, Phases
<1>7. ASSUME NEW e \in Engines, CreateRound(e) PROVE ProcessTypeOK'
  BY <1>7, NextGameTyped DEF CreateRound
<1>8. ASSUME NEW e \in Engines, OpenRound(e) \/ LockIfDeadlinePassed(e) PROVE ProcessTypeOK'
  BY <1>8, NextGameTyped DEF OpenRound, LockIfDeadlinePassed, Transition
<1>9. ASSUME NEW e \in Engines, Start(e) PROVE ProcessTypeOK'
  BY <1>9 DEF Start, Goto, Phases
<1>10. ASSUME NEW e \in Engines, DatabaseFails(e) PROVE ProcessTypeOK'
  BY <1>0, <1>10, NextGameTyped DEF DatabaseFails
<1>11. ASSUME NEW e \in Engines, Stop(e) PROVE ProcessTypeOK'
  BY <1>0, <1>11 DEF Stop, Rest, Forget, Goto, Phases
<1>12. ASSUME NEW r \in rounds, FinishRound(r) PROVE ProcessTypeOK'
  BY <1>12 DEF FinishRound
<1>13. CASE LeaseExpires \/ RedisGoesDown \/ RedisRecovers \/ Tick
  <2>1. CASE LeaseExpires \/ RedisRecovers
    BY <2>1 DEF LeaseExpires, RedisRecovers
  <2>2. CASE RedisGoesDown
    <3>1. faults + 1 \in 0 .. MaxFaults
      BY <1>0, <2>2 DEF RedisGoesDown
    <3> QED
      BY <2>2, <3>1 DEF RedisGoesDown
  <2>3. CASE Tick
    <3>1. clock + 1 \in 0 .. MaxClock
      BY <1>0, <2>3 DEF Tick
    <3> QED
      BY <2>3, <3>1 DEF Tick
  <2> QED
    BY <1>13, <2>1, <2>2, <2>3
<1>14. CASE UNCHANGED vars
  BY <1>14 DEF vars
<1> HIDE DEF ProcessTypeOK, redisVars, engineVars
<1> QED
  BY <1>1, <1>2, <1>3, <1>4, <1>5, <1>6, <1>7, <1>8, <1>9, <1>10, <1>11, <1>12, <1>13, <1>14
  DEF Next, EngineStep

\* A step leaves the table alone, adds a round to it or moves one of its
\* rounds; only a step that leaves it alone lets time pass.
LEMMA TableShapes ==
  ASSUME [Next]_vars
  PROVE  \/ UNCHANGED rounds /\ (clock' = clock \/ clock' = clock + 1)
         \/ (RoundAdded \/ RoundMoved) /\ clock' = clock
<1> USE DEF redisVars, engineVars
<1>1. ASSUME NEW e \in Engines, CreateRound(e)
      PROVE  (UNCHANGED rounds \/ RoundAdded) /\ clock' = clock
  BY <1>1 DEF CreateRound, RoundAdded
<1>2. ASSUME NEW e \in Engines, OpenRound(e)
      PROVE  (UNCHANGED rounds \/ RoundMoved) /\ clock' = clock
  BY <1>2 DEF OpenRound, Transition, Matching, OfGame, RoundMoved, Legal, States, Lockable
<1>3. ASSUME NEW e \in Engines, LockIfDeadlinePassed(e)
      PROVE  (UNCHANGED rounds \/ RoundMoved) /\ clock' = clock
  BY <1>3 DEF LockIfDeadlinePassed, Transition, Matching, OfGame, RoundMoved, Legal, States
<1>4. ASSUME NEW r \in rounds, FinishRound(r)
      PROVE  RoundMoved /\ clock' = clock
  BY <1>4 DEF FinishRound, RoundMoved, Legal, States, Lockable, Terminal
<1>5. ASSUME NEW e \in Engines,
             \/ TickStarts(e) \/ Renew(e) \/ Acquire(e) \/ RedisFails(e)
             \/ FindLiveRound(e) \/ NextRoundNumber(e) \/ Start(e)
             \/ DatabaseFails(e) \/ Stop(e)
      PROVE  UNCHANGED <<rounds, clock>>
  BY <1>5 DEF TickStarts, Renew, Acquire, RedisFails, FindLiveRound, NextRoundNumber,
              Start, DatabaseFails, Stop
<1>6. CASE LeaseExpires \/ RedisGoesDown \/ RedisRecovers \/ Tick \/ UNCHANGED vars
  BY <1>6 DEF LeaseExpires, RedisGoesDown, RedisRecovers, Tick, vars
<1> QED
  BY <1>1, <1>2, <1>3, <1>4, <1>5, <1>6 DEF Next, EngineStep

\* A round that moves is live, and keeps its game and number.
LEMMA MovedRounds ==
  ASSUME rounds \in SUBSET RoundRows,
         NEW r \in rounds, NEW state \in States, Legal(r, state), Update(r, state)
  PROVE  /\ Live(r)
         /\ rounds' = (rounds \ {r}) \cup {Moved(r, state)}
         /\ Moved(r, state) \in RoundRows
         /\ Moved(r, state).game = r.game
         /\ Moved(r, state).number = r.number
<1>1. r \in RoundRows
  OBVIOUS
<1> QED
  BY <1>1 DEF Legal, Update, Moved, Live, RoundRows, States, Lockable, Terminal

\* Rounds are never deleted and never renumbered.
LEMMA NumbersStay ==
  ASSUME TypeOK, [Next]_vars, NEW g, NEW s \in OfGame(g)
  PROVE  \E t \in OfGame(g)' : t.number = s.number
<1>1. CASE UNCHANGED rounds \/ RoundAdded
  BY <1>1 DEF OfGame, RoundAdded
<1>2. CASE RoundMoved
  <2>1. PICK r \in rounds, state \in States : Legal(r, state) /\ Update(r, state)
    BY <1>2 DEF RoundMoved
  <2> QED
    BY <2>1, MovedRounds DEF OfGame, TypeOK
<1> QED
  BY <1>1, <1>2, TableShapes

\* Every step keeps the rows of the table well formed.
LEMMA RowsTyped ==
  ASSUME TypeOK, DraftsInOrder, [Next]_vars
  PROVE  rounds' \in SUBSET RoundRows
<1>1. CASE UNCHANGED rounds
  BY <1>1 DEF TypeOK
<1>2. CASE RoundAdded
  <2>1. PICK e \in Engines : phase[e] = "create" /\ rounds' = rounds \cup {NewRound(e)}
    BY <1>2 DEF RoundAdded
  <2>2. GameOf(e) \in Games /\ target[e] \in Nat \ {0} /\ deadline[e] \in Int
    BY <2>1, GameTyped DEF TypeOK, ProcessTypeOK, DraftsInOrder
  <2> QED
    BY <2>1, <2>2 DEF NewRound, RoundRows, States, TypeOK
<1>3. CASE RoundMoved
  <2>1. PICK r \in rounds, state \in States : Legal(r, state) /\ Update(r, state)
    BY <1>3 DEF RoundMoved
  <2> QED
    BY <2>1, MovedRounds DEF TypeOK
<1> QED
  BY <1>1, <1>2, <1>3, TableShapes

\* An engine comes to insert only from MAX + 1, which leaves no gap then, and
\* none can appear afterwards.
LEMMA DraftsKept ==
  ASSUME TypeOK, DraftsInOrder, NumbersInOrder, [Next]_vars
  PROVE  DraftsInOrder'
<1> ProcessTypeOK
  BY DEF TypeOK, ProcessTypeOK
<1> SUFFICES ASSUME NEW d \in Engines, phase'[d] = "create"
             PROVE  (target[d])' > 0 /\ TakenBelow(GameOf(d), target[d])'
  BY DEF DraftsInOrder
<1>1. CASE phase[d] = "create" /\ target'[d] = target[d] /\ turn'[d] = turn[d]
  <2>1. target[d] > 0 /\ TakenBelow(GameOf(d), target[d])
    BY <1>1 DEF DraftsInOrder
  <2> QED
    BY <1>1, <2>1, NumbersStay DEF TakenBelow, GameOf
<1>2. CASE NextRoundNumber(d)
  <2> DEFINE g == GameOf(d)
  <2>1. PICK n \in {0} \cup {r.number : r \in OfGame(g)} :
          /\ \A r \in OfGame(g) : r.number <= n
          /\ target' = [target EXCEPT ![d] = n + 1]
    BY <1>2 DEF NextRoundNumber
  <2>2. n \in Nat /\ target'[d] = n + 1
    BY <2>1 DEF OfGame, TypeOK, RoundRows
  <2>3. ASSUME NEW m \in 1 .. n PROVE \E s \in OfGame(g) : s.number = m
    <3>1. PICK r \in OfGame(g) : r.number = n
      BY <2>1, <2>3
    <3> QED
      BY <3>1 DEF NumbersInOrder, OfGame
  <2>4. UNCHANGED <<rounds, turn>>
    BY <1>2 DEF NextRoundNumber
  <2> QED
    BY <2>2, <2>3, <2>4 DEF TakenBelow, OfGame, GameOf
<1>3. \/ phase'[d] = phase[d] /\ target'[d] = target[d] /\ turn'[d] = turn[d]
     \/ NextRoundNumber(d)
  <2> USE DEF ProcessTypeOK, engineVars, redisVars
  <2>1. ASSUME NEW e \in Engines, EngineStep(e)
        PROVE  \/ phase'[d] = phase[d] /\ target'[d] = target[d] /\ turn'[d] = turn[d]
               \/ NextRoundNumber(d)
    <3>1. CASE e = d
      <4>1. CASE NextGame(d)
        BY <4>1, NextGameTyped
      <4>2. CASE ~NextGame(d)
        BY <2>1, <3>1, <4>2
        DEF EngineStep, TickStarts, Renew, Acquire, RedisFails, FindLiveRound, CreateRound,
            OpenRound, LockIfDeadlinePassed, Transition, Start, Goto, Due
      <4> QED
        BY <4>1, <4>2
    <3>2. CASE e # d
      <4>1. CASE NextGame(e)
        BY <3>2, <4>1, NextGameTyped
      <4>2. CASE ~NextGame(e)
        BY <2>1, <3>2, <4>2
        DEF EngineStep, TickStarts, Renew, Acquire, RedisFails, FindLiveRound, CreateRound,
            OpenRound, LockIfDeadlinePassed, Transition, Start, Goto, NextRoundNumber
      <4> QED
        BY <4>1, <4>2
    <3> QED
      BY <3>1, <3>2
  <2>2. ASSUME NEW e \in Engines, DatabaseFails(e)
        PROVE  phase'[d] = phase[d] /\ target'[d] = target[d] /\ turn'[d] = turn[d]
    BY <2>2, NextGameTyped DEF DatabaseFails
  <2>3. ASSUME NEW e \in Engines, Stop(e)
        PROVE  phase'[d] = phase[d] /\ target'[d] = target[d] /\ turn'[d] = turn[d]
    BY <2>3 DEF Stop, Rest, Forget, Goto
  <2>4. ASSUME NEW r \in rounds, FinishRound(r)
        PROVE  phase'[d] = phase[d] /\ target'[d] = target[d] /\ turn'[d] = turn[d]
    BY <2>4 DEF FinishRound
  <2>5. CASE LeaseExpires \/ RedisGoesDown \/ RedisRecovers \/ Tick \/ UNCHANGED vars
    BY <2>5 DEF LeaseExpires, RedisGoesDown, RedisRecovers, Tick, vars
  <2> QED
    BY <2>1, <2>2, <2>3, <2>4, <2>5 DEF Next
<1> QED
  BY <1>1, <1>2, <1>3

\* Adding a round that is not Taken, or moving a live one, keeps the game's
\* rounds in order and at most one of them live.
LEMMA TableKept ==
  ASSUME TypeOK, DraftsInOrder, OneLiveRound, NumbersInOrder, [Next]_vars
  PROVE  OneLiveRound' /\ NumbersInOrder'
<1>0. rounds \in SUBSET RoundRows
  BY DEF TypeOK
<1>1. CASE UNCHANGED rounds
  BY <1>1 DEF OneLiveRound, NumbersInOrder, OfGame
<1>2. CASE RoundAdded
  <2>1. PICK e \in Engines :
          phase[e] = "create" /\ ~Taken(e) /\ rounds' = rounds \cup {NewRound(e)}
    BY <1>2 DEF RoundAdded
  <2>0. PICK g, n, new : g = GameOf(e) /\ n = target[e] /\ new = NewRound(e)
    OBVIOUS
  <2>2. new.game = g /\ new.number = n /\ rounds' = rounds \cup {new}
    BY <2>0, <2>1 DEF NewRound
  <2>3. n \in Nat \ {0} /\ TakenBelow(g, n)
    BY <2>0, <2>1 DEF TypeOK, DraftsInOrder
  <2>4. \A r \in OfGame(g) : r.number # n /\ ~Live(r)
    BY <2>0, <2>1 DEF Taken
  <2>5. \A r \in OfGame(g) : r.number < n
    <3> SUFFICES ASSUME NEW r \in OfGame(g), r.number > n
                 PROVE  FALSE
      BY <1>0, <2>3, <2>4 DEF OfGame, RoundRows
    <3> QED
      BY <1>0, <2>3, <2>4 DEF NumbersInOrder, OfGame, RoundRows
  <2>6. OneLiveRound'
    BY <2>2, <2>4 DEF OneLiveRound, OfGame, Live
  <2>7. ASSUME NEW r \in rounds
        PROVE  /\ \A s \in OfGame(r.game)' : s.number = r.number => s = r
               /\ \A m \in 1 .. r.number : \E s \in OfGame(r.game)' : s.number = m
               /\ Live(r) => \A s \in OfGame(r.game)' : s.number <= r.number
    BY <2>2, <2>4 DEF NumbersInOrder, OfGame
  <2>8. /\ \A s \in OfGame(g)' : s.number = n => s = new
        /\ \A m \in 1 .. n : \E s \in OfGame(g)' : s.number = m
        /\ \A s \in OfGame(g)' : s.number <= n
    <3>1. \A s \in OfGame(g)' : s \in OfGame(g) \/ s = new
      BY <2>2 DEF OfGame
    <3>2. new \in OfGame(g)' /\ OfGame(g) \subseteq OfGame(g)'
      BY <2>2 DEF OfGame
    <3>3. \A s \in OfGame(g) : s.number \in Nat
      BY <1>0 DEF OfGame, RoundRows
    <3> QED
      BY <2>2, <2>3, <2>4, <2>5, <3>1, <3>2, <3>3 DEF TakenBelow
  <2> QED
    <3> SUFFICES ASSUME NEW r \in rounds'
                 PROVE  /\ \A s \in OfGame(r.game)' : s.number = r.number => s = r
                        /\ \A m \in 1 .. r.number : \E s \in OfGame(r.game)' : s.number = m
                        /\ Live(r) => \A s \in OfGame(r.game)' : s.number <= r.number
      BY <2>6 DEF NumbersInOrder, OfGame, Live
    <3> QED
      BY <2>2, <2>7, <2>8
<1>3. CASE RoundMoved
  <2>1. PICK r \in rounds, state \in States : Legal(r, state) /\ Update(r, state)
    BY <1>3 DEF RoundMoved
  <2> DEFINE moved == Moved(r, state)
  <2>2. /\ Live(r)
        /\ rounds' = (rounds \ {r}) \cup {moved}
        /\ moved.game = r.game /\ moved.number = r.number
    BY <1>0, <2>1, MovedRounds
  <2> HIDE DEF moved
  <2>3. OneLiveRound'
    BY <2>2 DEF OneLiveRound, Live
  <2>4. ASSUME NEW g, NEW m
        PROVE  (\E s \in OfGame(g) : s.number = m) => \E s \in OfGame(g)' : s.number = m
    BY <2>2 DEF OfGame
  <2>5. ASSUME NEW s \in rounds'
        PROVE  \E t \in rounds : /\ t.game = s.game /\ t.number = s.number
                                 /\ Live(s) => Live(t)
                                 /\ t = s \/ (t = r /\ s = moved)
    BY <2>2
  <2>6. NumbersInOrder'
    <3> SUFFICES ASSUME NEW s \in rounds'
                 PROVE  /\ \A t \in OfGame(s.game)' : t.number = s.number => t = s
                        /\ \A m \in 1 .. s.number : \E t \in OfGame(s.game)' : t.number = m
                        /\ Live(s) => \A t \in OfGame(s.game)' : t.number <= s.number
      BY DEF NumbersInOrder, OfGame, Live
    <3>1. PICK old \in rounds : /\ old.game = s.game /\ old.number = s.number
                                /\ Live(s) => Live(old)
                                /\ old = s \/ (old = r /\ s = moved)
      BY <2>5
    <3>2. \A t \in OfGame(s.game)' : t.number = s.number => t = s
      BY <2>2, <3>1 DEF NumbersInOrder, OfGame
    <3>3. \A m \in 1 .. s.number : \E t \in OfGame(s.game)' : t.number = m
      BY <2>4, <3>1 DEF NumbersInOrder
    <3>4. Live(s) => \A t \in OfGame(s.game)' : t.number <= s.number
      BY <2>2, <3>1 DEF NumbersInOrder, OfGame
    <3> QED
      BY <3>2, <3>3, <3>4
  <2> QED
    BY <2>3, <2>6
<1> QED
  BY <1>1, <1>2, <1>3, TableShapes

\* The strengthened invariant holds at the start.
LEMMA InitIInv == Init => IInv
<1> SUFFICES ASSUME Init PROVE IInv
  OBVIOUS
<1>1. Len(ActiveGames) \in Nat \ {0} /\ MaxClock \in Nat /\ MaxFaults \in Nat
  BY EngineAssumption
<1> QED
  BY <1>1 DEF Init, IInv, TypeOK, Phases, DraftsInOrder, OneLiveRound, NumbersInOrder, OfGame

\* Every step keeps the strengthened invariant.
LEMMA StepIInv == IInv /\ [Next]_vars => IInv'
<1> SUFFICES ASSUME IInv, [Next]_vars PROVE IInv'
  OBVIOUS
<1>1. ProcessTypeOK' /\ (rounds \in SUBSET RoundRows)'
  BY ProcessesTyped, RowsTyped DEF IInv
<1>2. TypeOK'
  BY <1>1 DEF TypeOK, ProcessTypeOK
<1> QED
  BY <1>2, DraftsKept, TableKept DEF IInv

\* The strengthening that the theorems below rest on holds in every state.
THEOREM Invariance == Spec => []IInv
  BY InitIInv, StepIInv, PTL DEF Spec

\* Type correctness of the engines, Redis and the table.
THEOREM TypeCorrect == Spec => []TypeOK
<1>1. IInv => TypeOK
  BY DEF IInv
<1> QED
  BY <1>1, Invariance, PTL

\* However many engines act on stale reads, lose leases or crash, no game
\* ever has two live rounds.
THEOREM OneLiveCorrect == Spec => []OneLiveRound
<1>1. IInv => OneLiveRound
  BY DEF IInv
<1> QED
  BY <1>1, Invariance, PTL

\* The rounds of a game are numbered 1, 2, 3, ... without a gap or a duplicate.
THEOREM NumbersCorrect == Spec => []NumbersInOrder
<1>1. IInv => NumbersInOrder
  BY DEF IInv
<1> QED
  BY <1>1, Invariance, PTL

\* Every step is a step of the abstract life cycle, or changes no round.
LEMMA StepRefines == IInv /\ [Next]_vars => [Lifecycle!Next]_(Lifecycle!vars)
<1> SUFFICES ASSUME IInv, [Next]_vars PROVE [Lifecycle!Next]_(Lifecycle!vars)
  OBVIOUS
<1>0. rounds \in SUBSET RoundRows
  BY DEF IInv, TypeOK
<1>1. CASE UNCHANGED rounds /\ (clock' = clock \/ clock' = clock + 1)
  BY <1>1 DEF Lifecycle!Next, Lifecycle!Tick, Lifecycle!vars
<1>2. CASE RoundAdded /\ clock' = clock
  <2>1. PICK e \in Engines :
          phase[e] = "create" /\ ~Taken(e) /\ rounds' = rounds \cup {NewRound(e)}
    BY <1>2 DEF RoundAdded
  <2>2. GameOf(e) \in Games
    BY GameTyped DEF IInv, TypeOK, ProcessTypeOK
  <2>3. target[e] \in Nat \ {0} /\ TakenBelow(GameOf(e), target[e])
    BY <2>1 DEF IInv, TypeOK, DraftsInOrder
  <2>4. \A s \in OfGame(GameOf(e)) : ~Live(s) /\ s.number < target[e]
    <3> SUFFICES ASSUME NEW s \in OfGame(GameOf(e)), s.number > target[e]
                 PROVE  FALSE
      BY <1>0, <2>1, <2>3 DEF Taken, OfGame, RoundRows
    <3>1. \E t \in OfGame(GameOf(e)) : t.number = target[e]
      BY <1>0, <2>3 DEF IInv, NumbersInOrder, OfGame, RoundRows
    <3> QED
      BY <2>1, <3>1 DEF Taken
  <2>5. Lifecycle!Create(GameOf(e))
    <3> DEFINE new == NewRound(e)
    <3>1. new \in rounds' /\ rounds' = rounds \cup {new} /\ clock' = clock
      BY <1>2, <2>1
    <3>2. /\ new.game = GameOf(e) /\ new.number = target[e]
          /\ new.state = "ROUND_CREATED" /\ new.version = 0
      BY DEF NewRound
    <3>3. OfGame(GameOf(e)) = Lifecycle!OfGame(GameOf(e))
      BY DEF OfGame, Lifecycle!OfGame
    <3>4. \A s : Live(s) <=> Lifecycle!Live(s)
      BY DEF Live, Lifecycle!Live
    <3> HIDE DEF new
    <3> QED
      BY <2>3, <2>4, <3>1, <3>2, <3>3, <3>4 DEF Lifecycle!Create, TakenBelow
  <2> QED
    BY <2>2, <2>5 DEF Lifecycle!Next
<1>3. CASE RoundMoved /\ clock' = clock
  <2>1. PICK r \in rounds, state \in States : Legal(r, state) /\ Update(r, state)
    BY <1>3 DEF RoundMoved
  <2>2. r.game \in Games /\ r \in Lifecycle!OfGame(r.game)
    BY <1>0 DEF RoundRows, Lifecycle!OfGame
  <2>3. Lifecycle!Move(r, state)
    BY <2>1 DEF Update, Moved, Lifecycle!Move, Lifecycle!Moved
  <2>4. Lifecycle!Open(r.game) \/ Lifecycle!Lock(r.game) \/ Lifecycle!Later(r.game)
    BY <1>3, <2>1, <2>2, <2>3
    DEF Legal, Live, Lifecycle!Open, Lifecycle!Lock, Lifecycle!Later, Lifecycle!Live
  <2> QED
    BY <2>2, <2>4 DEF Lifecycle!Next
<1> QED
  BY <1>1, <1>2, <1>3, TableShapes

\* The engines implement the life cycle: leases, faults and stale reads never
\* show in the table as anything but legal transitions to the next version.
THEOREM Refinement == Spec => ImplementsLifecycle
<1>1. Init => Lifecycle!Init
  BY DEF Init, Lifecycle!Init
<1> QED
  BY <1>1, StepRefines, Invariance, PTL DEF Spec, ImplementsLifecycle, Lifecycle!Spec
=============================================================================
