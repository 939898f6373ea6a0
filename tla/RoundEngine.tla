---------------------------- MODULE RoundEngine -----------------------------
(***************************************************************************)
(* services/game-engine: processes that tick, elect a leader through a     *)
(* Redis lock with a time to live, and reconcile the rounds of each active *)
(* game with the database, one conditional statement at a time.            *)
(*                                                                         *)
(* An engine is never interrupted between the steps of a tick, but it may  *)
(* be slow, and others act meanwhile: everything it read may be stale.     *)
(* The guard tickInFlight is what gives an engine one tick at a time; an   *)
(* interval that fires during a tick does nothing and is not a step here.  *)
(***************************************************************************)
EXTENDS Integers, Sequences

CONSTANTS
  Engines,      \* processes; more than one during a deploy or a partition
  Games,
  ActiveGames,  \* ACTIVE_GAME_IDS, the order in which games are reconciled
  Window,       \* ROUND_BETTING_WINDOW_MS
  Skew,         \* Skew[e]: how far e's host clock is ahead of the database's
  Nobody,       \* holder of a free lease
  Ghost,        \* holder of a lease whose process is dead (holderId is per process)
  MaxClock,     \* bound on the database clock
  MaxRounds,    \* MaxRounds[g]: bound on the rounds of g, see FinishRound
  MaxFaults     \* bound on crashes, outages and failed database calls

Terminal == {"ROUND_COMPLETED", "ROUND_VOID"}
Lockable == {"BETTING_OPEN", "BETTING_ACTIVE"}
States   == {"ROUND_CREATED", "BETTING_LOCKED"} \cup Lockable \cup Terminal

RoundRows ==
  [game: Games, number: Nat \ {0}, state: States, version: Nat, deadline: Int]

Phases == {"down", "idle", "renew", "acquire", "find", "number", "create", "open", "lock"}

ASSUME EngineAssumption ==
  /\ ActiveGames \in Seq(Games) /\ Len(ActiveGames) > 0
  /\ Window \in Nat \ {0}
  /\ Skew \in [Engines -> Int]
  /\ Nobody \notin Engines /\ Ghost \notin Engines /\ Nobody # Ghost
  /\ MaxClock \in Nat /\ MaxRounds \in [Games -> Nat] /\ MaxFaults \in Nat

VARIABLES
  rounds,    \* game_rounds
  clock,     \* the database clock
  lease,     \* value of the Redis key lock:game-engine:{env}
  redisUp,   \* whether Redis answers
  isLeader,  \* RoundSchedulerService.isLeader of each engine
  phase,     \* where the tick of each engine is
  turn,      \* index in ActiveGames of the game it reconciles
  target,    \* round_number it works on
  deadline,  \* bettingDeadline of the round it is to create
  faults     \* faults so far

engineVars == <<isLeader, phase, turn, target, deadline>>
redisVars  == <<lease, redisUp>>
vars       == <<rounds, clock, redisVars, engineVars, faults>>

Init ==
  /\ rounds = {}
  /\ clock = 0
  /\ lease = Nobody /\ redisUp = TRUE
  /\ isLeader = [e \in Engines |-> FALSE]
  /\ phase    = [e \in Engines |-> "idle"]
  /\ turn     = [e \in Engines |-> 1]
  /\ target   = [e \in Engines |-> 0]
  /\ deadline = [e \in Engines |-> 0]
  /\ faults = 0

OfGame(g) == {r \in rounds : r.game = g}
Live(r)   == r.state \notin Terminal
GameOf(e) == ActiveGames[turn[e]]

\* UPDATE ... SET state, state_version = state_version + 1 of one row.
Moved(r, state) ==
  [game |-> r.game, number |-> r.number, state |-> state,
   version |-> r.version + 1, deadline |-> r.deadline]

Update(r, state) == rounds' = (rounds \ {r}) \cup {Moved(r, state)}

\* The rounds that WHERE id = target AND state IN expected selects.
MatchingAnyState(e, expected) ==  \* mutant: WHERE id = target only
  {r \in OfGame(GameOf(e)) : r.number = target[e]}

Matching(e, expected) ==
  {r \in OfGame(GameOf(e)) : r.number = target[e] /\ r.state \in expected}

Goto(e, next) == phase' = [phase EXCEPT ![e] = next]

\* What a reconcile knew is gone when it ends.
Forget(e) ==
  /\ target'   = [target EXCEPT ![e] = 0]
  /\ deadline' = [deadline EXCEPT ![e] = 0]

\* A tick that ends, or goes on to the next game whatever became of this one.
Rest(e, next) == Goto(e, next) /\ turn' = [turn EXCEPT ![e] = 1] /\ Forget(e)

NextGame(e) ==
  IF turn[e] < Len(ActiveGames)
    THEN Goto(e, "find") /\ turn' = [turn EXCEPT ![e] = @ + 1] /\ Forget(e)
    ELSE Rest(e, "idle")

-----------------------------------------------------------------------------
(* tick and ensureLeader                                                   *)

TickStarts(e) ==
  /\ phase[e] = "idle"
  /\ Goto(e, IF isLeader[e] THEN "renew" ELSE "acquire")
  /\ UNCHANGED <<rounds, clock, redisVars, isLeader, turn, target, deadline, faults>>

\* Mutant: an engine that lost the lease goes on believing that it leads.
RenewInVain(e) ==
  /\ phase[e] = "renew" /\ redisUp
  /\ Goto(e, IF lease = e THEN "find" ELSE "idle")
  /\ UNCHANGED <<rounds, clock, redisVars, isLeader, turn, target, deadline, faults>>

\* The script compares the holder and extends the time to live atomically.
Renew(e) ==
  /\ phase[e] = "renew" /\ redisUp
  /\ isLeader' = [isLeader EXCEPT ![e] = (lease = e)]
  /\ Goto(e, IF lease = e THEN "find" ELSE "acquire")
  /\ UNCHANGED <<rounds, clock, redisVars, turn, target, deadline, faults>>

\* SET NX PX.
Acquire(e) ==
  /\ phase[e] = "acquire" /\ redisUp
  /\ isLeader' = [isLeader EXCEPT ![e] = (lease = Nobody)]
  /\ lease' = IF lease = Nobody THEN e ELSE lease
  /\ Goto(e, IF lease = Nobody THEN "find" ELSE "idle")
  /\ UNCHANGED <<rounds, clock, redisUp, turn, target, deadline, faults>>

\* The command is rejected after its retries; it may have reached Redis, so
\* the key may be set although the engine does not know.  The tick is skipped
\* and isLeader left as it was.
RedisFails(e) ==
  /\ phase[e] \in {"renew", "acquire"} /\ ~redisUp
  /\ Goto(e, "idle")
  /\ \/ lease' = lease
     \/ phase[e] = "acquire" /\ lease = Nobody /\ lease' = e
  /\ UNCHANGED <<rounds, clock, redisUp, isLeader, turn, target, deadline, faults>>

-----------------------------------------------------------------------------
(* reconcile                                                               *)

\* What findLiveRound's answer leads to.
Due(state) ==
  IF state = "ROUND_CREATED" THEN "open" ELSE "lock"

FindLiveRound(e) ==
  LET live == {r \in OfGame(GameOf(e)) : Live(r)} IN
  /\ phase[e] = "find"
  /\ \/ live = {} /\ Goto(e, "number") /\ UNCHANGED <<turn, target, deadline>>
     \/ \E r \in live :
          /\ \A s \in live : s.number <= r.number
          /\ IF r.state \in {"ROUND_CREATED"} \cup Lockable
               THEN /\ Goto(e, Due(r.state))
                    /\ target' = [target EXCEPT ![e] = r.number]
                    /\ UNCHANGED <<turn, deadline>>
               ELSE NextGame(e)
  /\ UNCHANGED <<rounds, clock, redisVars, isLeader, faults>>

\* nextRoundNumber, then the deadline by the engine's own clock.
NextRoundNumber(e) ==
  /\ phase[e] = "number"
  /\ \E n \in {0} \cup {r.number : r \in OfGame(GameOf(e))} :
       /\ \A r \in OfGame(GameOf(e)) : r.number <= n
       /\ target' = [target EXCEPT ![e] = n + 1]
  /\ deadline' = [deadline EXCEPT ![e] = clock + Skew[e] + Window]
  /\ Goto(e, "create")
  /\ UNCHANGED <<rounds, clock, redisVars, isLeader, turn, faults>>

TakenNumber(e) ==  \* mutant: no uq_rounds_one_live_per_game
  \E r \in OfGame(GameOf(e)) : r.number = target[e]

TakenLive(e) ==    \* mutant: no unique (game_id, round_number)
  \E r \in OfGame(GameOf(e)) : Live(r)

\* The two unique indexes an insert can violate (P2002).
Taken(e) ==
  \E r \in OfGame(GameOf(e)) : r.number = target[e] \/ Live(r)

NewRound(e) ==
  [game |-> GameOf(e), number |-> target[e], state |-> "ROUND_CREATED",
   version |-> 0, deadline |-> deadline[e]]

CreateRound(e) ==
  /\ phase[e] = "create"
  /\ rounds' = IF Taken(e) THEN rounds ELSE rounds \cup {NewRound(e)}
  /\ NextGame(e)
  /\ UNCHANGED <<clock, redisVars, isLeader, faults>>

\* A conditional UPDATE: no row may match any more.
Transition(e, matching, state) ==
  /\ \/ matching = {} /\ rounds' = rounds
     \/ \E r \in matching : Update(r, state)
  /\ NextGame(e)
  /\ UNCHANGED <<clock, redisVars, isLeader, faults>>

OpenRound(e) ==
  phase[e] = "open" /\ Transition(e, Matching(e, {"ROUND_CREATED"}), "BETTING_OPEN")

LockIfDeadlinePassed(e) ==
  LET due == {r \in Matching(e, Lockable) : r.deadline <= clock} IN
  phase[e] = "lock" /\ Transition(e, due, "BETTING_LOCKED")

\* A statement fails: the error is logged, the other games are not affected.
\* (Failing after it took effect looks like success: both go to NextGame.)
DatabaseFails(e) ==
  /\ phase[e] \in {"find", "number", "create", "open", "lock"}
  /\ faults < MaxFaults /\ faults' = faults + 1
  /\ NextGame(e)
  /\ UNCHANGED <<rounds, clock, redisVars, isLeader>>

-----------------------------------------------------------------------------
(* Processes, Redis and time                                               *)

\* A crash or a shutdown: neither gives the lock back.
Stop(e) ==
  /\ phase[e] # "down"
  /\ faults < MaxFaults /\ faults' = faults + 1
  /\ Rest(e, "down")
  /\ isLeader' = [isLeader EXCEPT ![e] = FALSE]
  /\ lease' = IF lease = e THEN Ghost ELSE lease
  /\ UNCHANGED <<rounds, clock, redisUp>>

\* A process does not start before Redis has answered a ping.
Start(e) ==
  /\ phase[e] = "down" /\ redisUp
  /\ Goto(e, "idle")
  /\ UNCHANGED <<rounds, clock, redisVars, isLeader, turn, target, deadline, faults>>

\* The time to live runs out.  A slow leader may lose its lease at any time.
LeaseExpires ==
  /\ lease # Nobody /\ lease' = Nobody
  /\ UNCHANGED <<rounds, clock, redisUp, engineVars, faults>>

RedisGoesDown ==
  /\ redisUp /\ redisUp' = FALSE
  /\ faults < MaxFaults /\ faults' = faults + 1
  /\ UNCHANGED <<rounds, clock, lease, engineVars>>

RedisRecovers ==
  /\ ~redisUp /\ redisUp' = TRUE
  /\ UNCHANGED <<rounds, clock, lease, engineVars, faults>>

Tick ==
  /\ clock < MaxClock /\ clock' = clock + 1
  /\ UNCHANGED <<rounds, redisVars, engineVars, faults>>

\* Transitions no code makes yet (the later states, the first bet, voiding):
\* tests and operators make them.
FinishRound(r) ==
  /\ \/ r.state = "BETTING_OPEN" /\ Update(r, "BETTING_ACTIVE")
     \/ r.number < MaxRounds[r.game] /\ r.state = "BETTING_LOCKED" /\ Update(r, "ROUND_COMPLETED")
     \/ r.number < MaxRounds[r.game] /\ Live(r) /\ Update(r, "ROUND_VOID")
  /\ UNCHANGED <<clock, redisVars, engineVars, faults>>

-----------------------------------------------------------------------------
EngineStep(e) ==
  \/ TickStarts(e)
  \/ Renew(e)
  \/ Acquire(e)
  \/ RedisFails(e)
  \/ FindLiveRound(e)
  \/ NextRoundNumber(e)
  \/ CreateRound(e)
  \/ OpenRound(e)
  \/ LockIfDeadlinePassed(e)
  \/ Start(e)

Next ==
  \/ \E e \in Engines : EngineStep(e) \/ DatabaseFails(e) \/ Stop(e)
  \/ \E r \in rounds : FinishRound(r)
  \/ LeaseExpires
  \/ RedisGoesDown
  \/ RedisRecovers
  \/ Tick

Spec == Init /\ [][Next]_vars

\* A lease nobody renews: its process is dead or does not know it holds it.
Abandoned == lease \in Engines => ~isLeader[lease]

\* Intervals keep firing and what a tick started goes on; a process is
\* restarted; a lease that is not renewed expires.
TicksGoOn ==
  /\ \A e \in Engines : WF_vars(EngineStep(e))
  /\ WF_vars(Abandoned /\ LeaseExpires)

\* ... and Redis comes back.
FairSpec == Spec /\ TicksGoOn /\ WF_vars(RedisRecovers)

-----------------------------------------------------------------------------
TypeOK ==
  /\ rounds \in SUBSET RoundRows
  /\ clock \in 0 .. MaxClock
  /\ lease \in Engines \cup {Nobody, Ghost}
  /\ redisUp \in BOOLEAN
  /\ isLeader \in [Engines -> BOOLEAN]
  /\ phase    \in [Engines -> Phases]
  /\ turn     \in [Engines -> 1 .. Len(ActiveGames)]
  /\ target   \in [Engines -> Nat]
  /\ deadline \in [Engines -> Int]
  /\ faults \in 0 .. MaxFaults

\* However many engines believe they lead, a game never has two live rounds
\* (GAME_ENGINE_V2.md section 1, the third layer).
OneLiveRound ==
  \A r, s \in rounds : r.game = s.game /\ Live(r) /\ Live(s) => r = s

\* MAX + 1 read earlier never leaves a gap or a duplicate in the numbers of a
\* game, and the live round always has the highest.
NumbersInOrder ==
  \A r \in rounds :
    /\ \A s \in OfGame(r.game) : s.number = r.number => s = r
    /\ \A n \in 1 .. r.number : \E s \in OfGame(r.game) : s.number = n
    /\ Live(r) => \A s \in OfGame(r.game) : s.number <= r.number

\* Stale reads, two leaders, crashes and lost statements are invisible in
\* game_rounds: every change is a legal transition to the next version.
Lifecycle == INSTANCE RoundLifecycle

ImplementsLifecycle == Lifecycle!Spec

Overdue(r) == r.state \in Lockable /\ r.deadline <= clock

Active(g) == \E i \in DOMAIN ActiveGames : ActiveGames[i] = g

\* Once faults stop and Redis is back, a round past its deadline is locked, a
\* game without a live round gets one, and a new round is opened, even if
\* another game's reconcile fails or its engine stops between the two.
DueRoundsMove ==
  \A g \in Games : Active(g) =>
       /\ (\E r \in OfGame(g) : Overdue(r)) ~> ~\E r \in OfGame(g) : Overdue(r)
       /\ TRUE ~> \E r \in OfGame(g) : Live(r)
       /\ \A n \in 1 .. MaxRounds[g] :
            (\E r \in OfGame(g) : r.number = n /\ r.state = "ROUND_CREATED")
            ~> (\E r \in OfGame(g) : r.number = n /\ r.state # "ROUND_CREATED")
=============================================================================
