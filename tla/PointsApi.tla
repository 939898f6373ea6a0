------------------------------ MODULE PointsApi -----------------------------
(***************************************************************************)
(* Every writer of points in services/api on one database: bets,           *)
(* adjustments and standalone ledger mutations run concurrently, against a *)
(* game engine that opens and locks the rounds.                            *)
(***************************************************************************)
EXTENDS BetPlacement, AdminPoints

vars == <<ledgerVars, betVars, adminVars>>

ASSUME ApiAssumption == BetCalls \cap AdjustCalls = {}

Init == LedgerInit /\ BetInit /\ AdminInit

Next ==
  \/ \E c \in ApplyCalls  : ApplyStep(c)  /\ UNCHANGED <<betVars, adminVars>>
  \/ \E c \in BetCalls    : BetStep(c)    /\ UNCHANGED adminVars
  \/ \E c \in AdjustCalls : AdjustStep(c) /\ UNCHANGED betVars
  \/ RoundStep /\ UNCHANGED adminVars

Spec == Init /\ [][Next]_vars

\* The server keeps executing the calls it has received.  Nothing obliges a
\* client to send one, time to pass, or the engine to move a round.
Progress(c) ==
  \/ c \in ApplyCalls  /\ ApplyProgress(c)  /\ UNCHANGED <<betVars, adminVars>>
  \/ c \in BetCalls    /\ BetProgress(c)    /\ UNCHANGED adminVars
  \/ c \in AdjustCalls /\ AdjustProgress(c) /\ UNCHANGED betVars

FairSpec == Spec /\ \A c \in Calls : WF_vars(Progress(c))

-----------------------------------------------------------------------------
Maybe(S, none) == S \cup {none}

TypeOK ==
  /\ balance \in [Users -> Nat]
  /\ version \in [Users -> Nat]
  /\ ledger  \in [Users -> Seq(LedgerRows)]
  /\ accountLock \in [Users -> Maybe(Calls, NoCall)]
  /\ pc      \in [Calls -> Phases]
  /\ params  \in [Calls -> Maybe(Mutations, NoMutation)]
  /\ token   \in [Calls -> [before: Nat, after: Nat]]
  /\ outcome \in [Calls -> Outcomes]
  /\ clock \in 0 .. MaxClock
  /\ roundState \in [Rounds -> RoundStates]
  /\ roundLock  \in [Rounds -> Maybe(Calls, NoCall)]
  /\ bets \in SUBSET Bets
  /\ betRequest \in [BetCalls -> Maybe(BetRequestType, NoBetRequest)]
  /\ txStart    \in [BetCalls -> 0 .. MaxClock]
  /\ adminLogs \in SUBSET AdminLogs
  /\ adjustRequest \in [AdjustCalls -> Maybe(AdjustRequestType, NoAdjustRequest)]

Applied(row) ==
  LET m == row.mutation IN
  row.after = IF m.direction = "credit" THEN row.before + m.amount
                                        ELSE row.before - m.amount

\* Each account's ledger is an unbroken chain from zero to its balance: every
\* row starts from the balance the row before it left, so no two concurrent
\* mutations ever worked from the same balance (lost update, double spend),
\* and the projection is the end of the chain (POINTS_SYSTEM.md section 6).
LedgerIsChain ==
  \A u \in Users :
    LET rows == ledger[u] IN
    /\ \A i \in DOMAIN rows :
         /\ rows[i].mutation.user = u
         /\ Applied(rows[i])
         /\ rows[i].before = IF i = 1 THEN 0 ELSE rows[i - 1].after
    /\ balance[u] = IF rows = <<>> THEN 0 ELSE rows[Len(rows)].after
    /\ version[u] = Len(rows)

\* While a transaction holds its account, the balance it read under the lock
\* is still the committed one: nothing is ever computed from a stale balance
\* (the LockedAccountMutation token of lockAndValidateAccount).
HoldsAccount(c) == pc[c] \in {"insert", "write", "commit"}

TokensAreCurrent ==
  \A c \in Calls : HoldsAccount(c) =>
    LET m == params[c] IN
    /\ accountLock[m.user] = c
    /\ token[c].before = balance[m.user]
    /\ token[c].after = BalanceAfter(m)

DebitsOf(b) ==
  {row \in RowsOf(b.user) : row.mutation = BetDebit(b.id, b)}

\* No bet without its debit, no debit without its bet, and the debit is of
\* the bet's player and total stake (POINTS_SYSTEM.md section 7).
BetsMatchDebits ==
  /\ \A b \in bets : Cardinality({i \in DOMAIN ledger[b.user] :
                                    ledger[b.user][i].mutation = BetDebit(b.id, b)}) = 1
  /\ \A row \in Rows : row.mutation.refId \in BetCalls =>
       \E b \in bets : row.mutation = BetDebit(b.id, b)

\* Every adjustment in the ledger is justified by the one log row it names,
\* which records the same change, and no log row stands for a change that did
\* not happen.
AdjustmentsLogged ==
  /\ \A row \in Rows : row.mutation.refId \in AdjustCalls =>
       \E log \in adminLogs :
         /\ log.id = row.mutation.refId
         /\ row.mutation.user = log.user
         /\ row.mutation.direction = log.direction
         /\ row.mutation.amount = log.amount
  /\ \A log \in adminLogs : \E row \in Rows : row.mutation.refId = log.id

\* However often a request is retried, and whatever races, one idempotency
\* key yields one bet of a player and one ledger row of the whole system.
OncePerKey ==
  /\ \A b1, b2 \in bets : b1.user = b2.user /\ b1.key = b2.key => b1 = b2
  /\ \A u, v \in Users : \A i \in DOMAIN ledger[u], j \in DOMAIN ledger[v] :
       ledger[u][i].mutation.key = ledger[v][j].mutation.key => u = v /\ i = j

\* A call that loses the race for its key always finds the winner: P2002 is
\* never rethrown to the client as a server error.
RacesResolve == \A c \in Calls : outcome[c].status # "unresolved"

Granted(c) == outcome[c].status \in {"ok", "replayed"}

\* A positive answer to a bet names a committed bet of that player, key, round
\* and items, and the balance its own debit left; replays repeat the original.
BetAnswersAreTrue ==
  \A c \in BetCalls : Granted(c) =>
    \E b \in bets :
      /\ b.id = outcome[c].id
      /\ b.user = betRequest[c].user /\ b.key = betRequest[c].key
      /\ b.round = betRequest[c].round /\ b.items = betRequest[c].items
      /\ \E row \in DebitsOf(b) : row.after = outcome[c].balance

\* The same for adjustments: the log it names says exactly what was asked for,
\* by whom and why, and the row under the caller's key refers to that log.
AdjustAnswersAreTrue ==
  \A c \in AdjustCalls : Granted(c) =>
    \E row \in RowsWithKey(params[c].key) :
      /\ row.mutation.refId = outcome[c].id
      /\ row.after = outcome[c].balance
      /\ [AdminLogRow(c) EXCEPT !.id = outcome[c].id] \in adminLogs

\* A bet becomes visible only while its round still accepts bets, whatever the
\* engine does between the check and the commit: the round lock serialises the
\* bet against the BETTING_LOCKED transition.
NoBetInClosedRound ==
  [][\A b \in bets' \ bets : roundState[b.round] \in Accepting
                             /\ roundState'[b.round] \in Accepting]_vars

\* Locks are taken in the order round, account and never the other way round,
\* so no call waits for ever: every call that came in is answered or fails.
EveryCallEnds == \A c \in Calls : pc[c] # "idle" ~> pc[c] = "done"

\* From the round check to the end of its transaction a bet holds the round
\* row, and the round keeps accepting.
HoldsRound(c) == pc[c] \in {"account", "insert", "write", "commit"}

RoundHeldOpen ==
  \A c \in BetCalls : HoldsRound(c) =>
    /\ roundLock[betRequest[c].round] = c
    /\ roundState[betRequest[c].round] \in Accepting

\* What a call is to do was fixed when it came in.
CallsCarryRequests ==
  /\ \A c \in Calls : pc[c] # "idle" => params[c] \in Mutations
  /\ \A c \in BetCalls : pc[c] # "idle" =>
        /\ betRequest[c] \in BetRequestType
        /\ params[c] = BetDebit(c, betRequest[c])
  /\ \A c \in AdjustCalls : pc[c] # "idle" =>
        /\ adjustRequest[c] \in AdjustRequestType
        /\ params[c] = Adjustment(c, adjustRequest[c])

\* Calls, locks and transactions are invisible in the committed tables: they
\* change as if every bet, adjustment and mutation were one atomic step.
Atomic == INSTANCE AtomicPoints WITH
  BetIds  <- BetCalls,
  LogIds  <- AdjustCalls,
  Opening <- [u \in Users |->
                [balance |-> Opening[u],
                 ledger  |-> IF Opening[u] = 0 THEN <<>> ELSE <<OpeningRow(u)>>]]

ImplementsAtomicPoints == Atomic!Spec
=============================================================================
