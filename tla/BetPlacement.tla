---------------------------- MODULE BetPlacement ----------------------------
(***************************************************************************)
(* BetsService.placeBet, and the game_rounds rows it serialises against.   *)
(*                                                                         *)
(* Placing a bet locks the round, then the account, then writes the bet,   *)
(* its items and the debit, in one transaction.  The game engine moves the *)
(* same round row with conditional UPDATEs.  PostgreSQL's now() is the     *)
(* instant a transaction began, kept here in txStart.                      *)
(*                                                                         *)
(* A bet's merged items are one value of Items with a total stake; what    *)
(* mergeItems and the validations compute is in BetItems.                  *)
(***************************************************************************)
EXTENDS PointsLedger

CONSTANTS
  BetCalls,      \* the calls made to POST /bets
  BetRequests,   \* validated requests they may carry
  Items,         \* merged item lists
  Stake,         \* Stake[i]: totalAmountMinor of item list i
  Rounds,        \* game_rounds rows
  Games,
  GameOf,        \* GameOf[r]: game_id of round r
  Deadline,      \* Deadline[r]: betting_deadline of round r
  MaxClock       \* bound on the database clock

RoundStates == {"ROUND_CREATED", "BETTING_OPEN", "BETTING_ACTIVE", "BETTING_LOCKED"}
Accepting   == {"BETTING_OPEN", "BETTING_ACTIVE"}

BetRequestType ==
  [user: Users, key: Keys, game: Games, round: Rounds, items: Items]

\* A bets row with its bet_items.
Bets == [id: BetCalls, user: Users, key: Keys, round: Rounds, items: Items]

NoBetRequest == [user |-> NoCall]

ASSUME BetAssumption ==
  /\ BetCalls \subseteq Calls
  /\ BetCalls \cap ApplyCalls = {}
  /\ BetRequests \subseteq BetRequestType
  /\ Stake \in [Items -> Nat \ {0}]
  /\ GameOf \in [Rounds -> Games]
  /\ Deadline \in [Rounds -> Nat]
  /\ MaxClock \in Nat

VARIABLES
  clock,       \* the database clock
  roundState,  \* game_rounds.state
  roundLock,   \* the call whose transaction holds the round row
  bets,        \* committed bets with their items
  betRequest,  \* the request of each call
  txStart      \* now() of each call's transaction

betVars == <<clock, roundState, roundLock, bets, betRequest, txStart>>

BetInit ==
  /\ clock = 0
  /\ roundState = [r \in Rounds |-> "ROUND_CREATED"]
  /\ roundLock  = [r \in Rounds |-> NoCall]
  /\ bets = {}
  /\ betRequest = [c \in BetCalls |-> NoBetRequest]
  /\ txStart    = [c \in BetCalls |-> 0]

-----------------------------------------------------------------------------
(* placeBet                                                                *)

\* The debit of the bet that call c is to create: both are named after c.
BetDebit(c, r) ==
  [user |-> r.user, direction |-> "debit", amount |-> Stake[r.items],
   refType |-> "bet_placed", refId |-> c, key |-> <<"bet-debit", c>>]

BetRow(c) ==
  LET r == betRequest[c] IN
  [id |-> c, user |-> r.user, key |-> r.key, round |-> r.round, items |-> r.items]

BetsWithKey(c) ==
  {b \in bets : b.user = betRequest[c].user /\ b.key = betRequest[c].key}

\* Mutant: the items of a replayed bet are not compared.
SameBetAnyItems(b, c) == b.round = betRequest[c].round

SameBet(b, c) ==
  b.round = betRequest[c].round /\ b.items = betRequest[c].items

BetSubmit(c) ==
  /\ Move(c, "idle", "lookup")
  /\ \E r \in BetRequests :
       /\ betRequest' = [betRequest EXCEPT ![c] = r]
       /\ params' = [params EXCEPT ![c] = BetDebit(c, r)]
  /\ UNCHANGED <<tables, accountLock, token, outcome>>
  /\ UNCHANGED <<clock, roundState, roundLock, bets, txStart>>

\* The balance the bet's debit left (0 if the row were missing).
OriginalBalances(b) ==
  LET debits == {row \in Rows : /\ row.mutation.refType = "bet_placed"
                                /\ row.mutation.refId = b.id}
  IN IF debits = {} THEN {0} ELSE {row.after : row \in debits}

\* findReplay: the original bet and balance, or 409 for another payload.
BetReplay(b, c) ==
  IF SameBet(b, c)
    THEN {[status |-> "replayed", id |-> b.id, balance |-> n] :
            n \in OriginalBalances(b)}
    ELSE {Answer("conflict")}

BetReplays(c) == UNION {BetReplay(b, c) : b \in BetsWithKey(c)}

\* The unlocked pre-check.
BetLookup(c) ==
  /\ pc[c] = "lookup"
  /\ \E answer \in BetReplays(c) : Finish(c, answer)
  /\ UNCHANGED <<tables, betVars>>

BetKeyIsNew(c) ==
  /\ Move(c, "lookup", "begin")
  /\ BetsWithKey(c) = {}
  /\ UNCHANGED <<tables, accountLock, params, token, outcome, betVars>>

BeginBet(c) ==
  /\ Move(c, "begin", "round")
  /\ txStart' = [txStart EXCEPT ![c] = clock]
  /\ UNCHANGED <<tables, accountLock, params, token, outcome>>
  /\ UNCHANGED <<clock, roundState, roundLock, bets, betRequest>>

\* Mutant: the state of the round is not re-read under the lock.
RoundAcceptsBetByDeadline(c) ==
  LET r == betRequest[c].round IN
  /\ GameOf[r] = betRequest[c].game
  /\ Deadline[r] > txStart[c]

RoundAcceptsBet(c) ==
  LET r == betRequest[c].round IN
  /\ GameOf[r] = betRequest[c].game
  /\ roundState[r] \in Accepting
  /\ Deadline[r] > txStart[c]

\* Mutant: the round is read without FOR UPDATE.
LockRoundUnlocked(c) ==
  /\ Move(c, "round", "account")
  /\ RoundAcceptsBet(c)
  /\ UNCHANGED <<tables, accountLock, params, token, outcome, betVars>>

\* SELECT ... FOR UPDATE waits for the row and reads its latest version.
LockRound(c) ==
  LET r == betRequest[c].round IN
  /\ Move(c, "round", "account")
  /\ roundLock[r] = NoCall
  /\ RoundAcceptsBet(c)
  /\ roundLock' = [roundLock EXCEPT ![r] = c]
  /\ UNCHANGED <<tables, accountLock, params, token, outcome>>
  /\ UNCHANGED <<clock, roundState, bets, betRequest, txStart>>

RefuseRound(c) ==
  /\ pc[c] = "round"
  /\ roundLock[betRequest[c].round] = NoCall
  /\ ~RoundAcceptsBet(c)
  /\ Finish(c, Answer("refused"))
  /\ UNCHANGED <<tables, betVars>>

\* Mutant: a transaction that ends leaves the round locked.
ReleaseRoundNever(c) ==
  UNCHANGED <<clock, roundState, roundLock, betRequest, txStart>>

\* Ending the transaction gives the round row back as well.
ReleaseRound(c) ==
  /\ roundLock' = Free(roundLock, c)
  /\ UNCHANGED <<clock, roundState, betRequest, txStart>>

BetLockAccount(c) == LockAccount(c, "insert") /\ UNCHANGED betVars

BetRejectInsufficient(c) ==
  RejectInsufficient(c) /\ ReleaseRound(c) /\ UNCHANGED bets

\* Mutant: the bet is created outside the transaction.
InsertBetOutside(c) ==
  /\ Move(c, "insert", "write")
  /\ BetsWithKey(c) = {}
  /\ bets' = bets \cup {BetRow(c)}
  /\ UNCHANGED <<tables, accountLock, params, token, outcome>>
  /\ UNCHANGED <<clock, roundState, roundLock, betRequest, txStart>>

\* Mutant: no unique index on (user_id, idempotency_key).
InsertBetNotUnique(c) ==
  /\ Move(c, "insert", "write")
  /\ UNCHANGED <<tables, accountLock, params, token, outcome, betVars>>

\* INSERT bets and bet_items, UNIQUE(user_id, idempotency_key).  No other open
\* transaction can have inserted the same key: it would hold the account.
InsertBet(c) ==
  /\ Move(c, "insert", "write")
  /\ BetsWithKey(c) = {}
  /\ UNCHANGED <<tables, accountLock, params, token, outcome, betVars>>

InsertBetRaced(c) ==
  /\ pc[c] = "insert"
  /\ BetsWithKey(c) # {}
  /\ RollbackToRace(c)
  /\ ReleaseRound(c)
  /\ UNCHANGED bets

BetCommitMutation(c) == CommitMutation(c) /\ UNCHANGED betVars

CommitBet(c) ==
  /\ CommitTransaction(c)
  /\ bets' = bets \cup {BetRow(c)}
  /\ ReleaseRound(c)

\* The second look, after P2002.
BetRaced(c) ==
  /\ pc[c] = "race"
  /\ \E answer \in RaceAnswers(BetReplays(c)) : Finish(c, answer)
  /\ UNCHANGED <<tables, betVars>>

BetFail(c) == Fail(c) /\ ReleaseRound(c) /\ UNCHANGED bets

BetProgress(c) ==
  \/ BetLookup(c)
  \/ BetKeyIsNew(c)
  \/ BeginBet(c)
  \/ LockRound(c)
  \/ RefuseRound(c)
  \/ BetLockAccount(c)
  \/ BetRejectInsufficient(c)
  \/ InsertBet(c)
  \/ InsertBetRaced(c)
  \/ BetCommitMutation(c)
  \/ CommitBet(c)
  \/ BetRaced(c)

BetStep(c) == BetSubmit(c) \/ BetProgress(c) \/ BetFail(c)

-----------------------------------------------------------------------------
(* The rest of the system as a bet sees it: the engine's conditional       *)
(* UPDATEs, which also wait for the round row, and the passing of time     *)

OpenRound(r) ==
  /\ roundLock[r] = NoCall
  /\ roundState[r] = "ROUND_CREATED"
  /\ roundState' = [roundState EXCEPT ![r] = "BETTING_OPEN"]
  /\ UNCHANGED <<ledgerVars, clock, roundLock, bets, betRequest, txStart>>

LockIfDeadlinePassed(r) ==
  /\ roundLock[r] = NoCall
  /\ roundState[r] \in Accepting
  /\ Deadline[r] <= clock
  /\ roundState' = [roundState EXCEPT ![r] = "BETTING_LOCKED"]
  /\ UNCHANGED <<ledgerVars, clock, roundLock, bets, betRequest, txStart>>

Tick ==
  /\ clock < MaxClock
  /\ clock' = clock + 1
  /\ UNCHANGED <<ledgerVars, roundState, roundLock, bets, betRequest, txStart>>

RoundStep == Tick \/ \E r \in Rounds : OpenRound(r) \/ LockIfDeadlinePassed(r)
=============================================================================
