---------------------------- MODULE AtomicPoints ----------------------------
(***************************************************************************)
(* What the points service promises, without calls, locks or transactions: *)
(* points move in single steps, each of which adds one ledger row together *)
(* with the balance it leaves and the row that justifies it, and is only   *)
(* taken where it is allowed.                                              *)
(***************************************************************************)
EXTENDS Integers, Sequences

CONSTANTS
  Users, Rounds,
  BetIds, LogIds,   \* ids of bets and of admin logs
  Stake,            \* total stake of an item list
  Opening           \* the accounts' opening balances and ledgers

VARIABLES balance, version, ledger, bets, adminLogs, roundState

vars == <<balance, version, ledger, bets, adminLogs, roundState>>

Init ==
  /\ balance = [u \in Users |-> Opening[u].balance]
  /\ ledger  = [u \in Users |-> Opening[u].ledger]
  /\ version = [u \in Users |-> Len(Opening[u].ledger)]
  /\ bets = {}
  /\ adminLogs = {}
  /\ roundState = [r \in Rounds |-> "ROUND_CREATED"]

Used(k) == \E u \in Users : \E i \in DOMAIN ledger[u] : ledger[u][i].mutation.key = k

\* The row a step adds to u's ledger.
NewRow(u) == ledger'[u][Len(ledger[u]) + 1]

\* The ledger of u grows by one row under a new key; the row says how the
\* balance moves, and the balance never goes below zero.
Post(u) ==
  /\ Len(ledger'[u]) = Len(ledger[u]) + 1
  /\ LET row == NewRow(u)  m == row.mutation IN
     /\ m.user = u
     /\ m.amount > 0
     /\ ~Used(m.key)
     /\ row.before = balance[u]
     /\ row.after = IF m.direction = "credit" THEN balance[u] + m.amount
                                              ELSE balance[u] - m.amount
     /\ row.after >= 0
     /\ ledger'  = [ledger EXCEPT ![u] = Append(@, row)]
     /\ balance' = [balance EXCEPT ![u] = row.after]
     /\ version' = [version EXCEPT ![u] = @ + 1]

\* A change that refers to no bet and no log.
Apply(u) ==
  /\ Post(u)
  /\ NewRow(u).mutation.refId \notin BetIds \cup LogIds
  /\ UNCHANGED <<bets, adminLogs, roundState>>

\* A new bet under a key new to its player, in a round that accepts bets,
\* with the debit of its stake.
PlaceBet(b) ==
  /\ b \notin bets
  /\ b.id \in BetIds
  /\ roundState[b.round] \in {"BETTING_OPEN", "BETTING_ACTIVE"}
  /\ \A other \in bets :
        other.id # b.id /\ (other.user = b.user => other.key # b.key)
  /\ Post(b.user)
  /\ LET m == NewRow(b.user).mutation IN
     m.refType = "bet_placed" /\ m.refId = b.id
     /\ m.direction = "debit" /\ m.amount = Stake[b.items]
  /\ bets' = bets \cup {b}
  /\ UNCHANGED <<adminLogs, roundState>>

\* A new log entry with the change it justifies.
Adjust(log) ==
  /\ log.id \in LogIds
  /\ \A other \in adminLogs : other.id # log.id
  /\ Post(log.user)
  /\ LET m == NewRow(log.user).mutation IN
     m.refId = log.id /\ m.direction = log.direction /\ m.amount = log.amount
  /\ adminLogs' = adminLogs \cup {log}
  /\ UNCHANGED <<bets, roundState>>

MoveRound(r) ==
  /\ \/ roundState[r] = "ROUND_CREATED" /\ roundState'[r] = "BETTING_OPEN"
     \/ roundState[r] \in {"BETTING_OPEN", "BETTING_ACTIVE"}
        /\ roundState'[r] = "BETTING_LOCKED"
  /\ roundState' = [roundState EXCEPT ![r] = roundState'[r]]
  /\ UNCHANGED <<balance, version, ledger, bets, adminLogs>>

Next ==
  \/ \E u \in Users : Apply(u)
  \/ \E b \in bets' : PlaceBet(b)
  \/ \E log \in adminLogs' : Adjust(log)
  \/ \E r \in Rounds : MoveRound(r)

Spec == Init /\ [][Next]_vars
=============================================================================
