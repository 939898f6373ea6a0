---------------------------- MODULE PointsLedger ----------------------------
(***************************************************************************)
(* The points ledger of services/api: points_accounts (balance_minor,      *)
(* version), the append-only points_transactions, and the one primitive    *)
(* that writes them, PointsLedgerService.                                  *)
(*                                                                         *)
(* Many API calls run concurrently.  A call works inside one PostgreSQL    *)
(* transaction (READ COMMITTED): what it writes is invisible to the others *)
(* until Commit, a row it locked FOR UPDATE stays locked until the         *)
(* transaction ends, and an error or a crash discards its writes.  So a    *)
(* step here is one statement, and the uncommitted rows of call c are      *)
(* those that pc[c], params[c] and token[c] determine.                     *)
(*                                                                         *)
(* BetPlacement and AdminPoints build their transactions from the same     *)
(* steps; applyMutation, the standalone entry point, is specified here.    *)
(***************************************************************************)
EXTENDS Integers, Sequences, FiniteSets

CONSTANTS
  Users,          \* players; registration gives each exactly one account
  Calls,          \* API calls; each runs at most one transaction
  Keys,           \* client-chosen idempotency keys
  Opening,        \* Opening[u]: balance credited to u before the model starts
  ApplyCalls,     \* the calls made to applyMutation
  ApplyRequests,  \* ApplyLedgerMutationParams they may carry
  NoCall          \* holder of a free row lock

Directions == {"credit", "debit"}
RefTypes   == {"admin_credit", "admin_debit", "bet_placed", "settlement_win"}

\* A ledger key: the client's own, or the one derived from a bet id.
LedgerKeys == ({"client"} \X Keys) \cup ({"bet-debit"} \X Calls)
                                   \cup ({"opening"} \X Users)

\* Ids are random UUIDs: a call that inserts a row names it after itself.
RefIds == Calls \cup {NoCall}

Mutations ==
  [user: Users, direction: Directions, amount: Nat \ {0},
   refType: RefTypes, refId: RefIds, key: LedgerKeys]

\* A points_transactions row: the mutation and the balances around it.
LedgerRows ==
  [mutation: Mutations, before: Nat, after: Nat]

Phases == {"idle", "lookup", "begin", "round", "account", "insert",
           "write", "commit", "race", "done"}

Statuses == {"none", "ok", "replayed", "conflict", "refused",
             "insufficient", "failed", "unresolved"}

Outcomes == [status: Statuses, id: RefIds, balance: Nat]

Answer(status) == [status |-> status, id |-> NoCall, balance |-> 0]

NoToken     == [before |-> 0, after |-> 0]
NoMutation  == [user |-> NoCall]

ASSUME LedgerAssumption ==
  /\ NoCall \notin Calls
  /\ Opening \in [Users -> Nat]
  /\ ApplyCalls \subseteq Calls
  /\ ApplyRequests \subseteq Mutations
  /\ \A m \in ApplyRequests : m.refId = NoCall /\ m.key \in {"client"} \X Keys

VARIABLES
  balance,      \* points_accounts.balance_minor
  version,      \* points_accounts.version
  ledger,       \* committed points_transactions of each account, in order
  accountLock,  \* the call whose transaction holds the account row
  pc,           \* where each call is
  params,       \* the ledger mutation each call is to perform
  token,        \* LockedAccountMutation of a call that holds its account
  outcome       \* what each call answered

tables     == <<balance, version, ledger>>
ledgerVars == <<balance, version, ledger, accountLock, pc, params, token, outcome>>

OpeningRow(u) ==
  [mutation |-> [user |-> u, direction |-> "credit", amount |-> Opening[u],
                 refType |-> "admin_credit", refId |-> NoCall,
                 key |-> <<"opening", u>>],
   before |-> 0, after |-> Opening[u]]

\* Every account starts at zero; a positive Opening is one earlier credit.
LedgerInit ==
  /\ balance = Opening
  /\ version = [u \in Users |-> IF Opening[u] = 0 THEN 0 ELSE 1]
  /\ ledger  = [u \in Users |->
                  IF Opening[u] = 0 THEN <<>> ELSE <<OpeningRow(u)>>]
  /\ accountLock = [u \in Users |-> NoCall]
  /\ pc      = [c \in Calls |-> "idle"]
  /\ params  = [c \in Calls |-> NoMutation]
  /\ token   = [c \in Calls |-> NoToken]
  /\ outcome = [c \in Calls |-> Answer("none")]

-----------------------------------------------------------------------------
(* Helpers over the committed rows and the locks                           *)

RowsOf(u) == {ledger[u][i] : i \in DOMAIN ledger[u]}
Rows      == UNION {RowsOf(u) : u \in Users}

\* findUnique on points_transactions.idempotency_key, which is global.
RowsWithKey(k) == {row \in Rows : row.mutation.key = k}

Free(lock, c) == [r \in DOMAIN lock |-> IF lock[r] = c THEN NoCall ELSE lock[r]]

Move(c, from, to) == pc[c] = from /\ pc' = [pc EXCEPT ![c] = to]

\* The call ends with this answer: any transaction it had open is over.
Finish(c, answer) ==
  /\ pc'          = [pc EXCEPT ![c] = "done"]
  /\ outcome'     = [outcome EXCEPT ![c] = answer]
  /\ accountLock' = Free(accountLock, c)
  /\ token'       = [token EXCEPT ![c] = NoToken]
  /\ params'      = params

\* The transaction is rolled back on P2002 and the call looks its key up again.
RollbackToRace(c) ==
  /\ pc'          = [pc EXCEPT ![c] = "race"]
  /\ accountLock' = Free(accountLock, c)
  /\ token'       = [token EXCEPT ![c] = NoToken]
  /\ UNCHANGED <<tables, params, outcome>>

-----------------------------------------------------------------------------
(* lockAndValidateAccount and commitMutation                               *)

BalanceAfter(m) ==
  IF m.direction = "credit" THEN balance[m.user] + m.amount
                            ELSE balance[m.user] - m.amount

\* Mutant: the account is read without FOR UPDATE.
LockAccountUnlocked(c, next) ==
  LET m == params[c] IN
  /\ Move(c, "account", next)
  /\ BalanceAfter(m) >= 0
  /\ token' = [token EXCEPT ![c] = [before |-> balance[m.user],
                                    after  |-> BalanceAfter(m)]]
  /\ UNCHANGED <<tables, accountLock, params, outcome>>

\* Mutant: the overdraw check is made on the balance before the debit.
LockAccountOverdrawn(c, next) ==
  LET m == params[c] IN
  /\ Move(c, "account", next)
  /\ accountLock[m.user] = NoCall
  /\ balance[m.user] >= 0
  /\ accountLock' = [accountLock EXCEPT ![m.user] = c]
  /\ token' = [token EXCEPT ![c] = [before |-> balance[m.user],
                                    after  |-> BalanceAfter(m)]]
  /\ UNCHANGED <<tables, params, outcome>>

\* SELECT ... FOR UPDATE waits for the row, then reads the committed balance.
LockAccount(c, next) ==
  LET m == params[c] IN
  /\ Move(c, "account", next)
  /\ accountLock[m.user] = NoCall
  /\ BalanceAfter(m) >= 0
  /\ accountLock' = [accountLock EXCEPT ![m.user] = c]
  /\ token' = [token EXCEPT ![c] = [before |-> balance[m.user],
                                    after  |-> BalanceAfter(m)]]
  /\ UNCHANGED <<tables, params, outcome>>

\* InsufficientPointsException, thrown inside the lock: nothing is written.
RejectInsufficient(c) ==
  LET m == params[c] IN
  /\ pc[c] = "account"
  /\ accountLock[m.user] = NoCall
  /\ BalanceAfter(m) < 0
  /\ Finish(c, Answer("insufficient"))
  /\ UNCHANGED tables

\* An insert waits while another open transaction has inserted the same key.
KeyPending(c) ==
  \E d \in Calls \ {c} : pc[d] = "commit" /\ params[d].key = params[c].key

\* INSERT points_transactions, UPDATE points_accounts: not yet visible.
CommitMutation(c) ==
  /\ pc[c] = "write"
  /\ ~KeyPending(c)
  /\ RowsWithKey(params[c].key) = {}
  /\ pc' = [pc EXCEPT ![c] = "commit"]
  /\ UNCHANGED <<tables, accountLock, params, token, outcome>>

\* The key was committed by another call since the lookup: P2002.
CommitMutationRaced(c) ==
  /\ pc[c] = "write"
  /\ ~KeyPending(c)
  /\ RowsWithKey(params[c].key) # {}
  /\ RollbackToRace(c)

\* Mutant: the projection is written without its version.
CommitTransactionUnversioned(c) ==
  LET m   == params[c]
      row == [mutation |-> m, before |-> token[c].before, after |-> token[c].after]
  IN
  /\ pc[c] = "commit"
  /\ ledger'  = [ledger EXCEPT ![m.user] = Append(@, row)]
  /\ balance' = [balance EXCEPT ![m.user] = token[c].after]
  /\ Finish(c, [status |-> "ok", id |-> m.refId, balance |-> token[c].after])
  /\ UNCHANGED version

\* COMMIT: the ledger row and the projection become visible together.  The
\* process may still die before the answer leaves it.
CommitTransaction(c) ==
  LET m   == params[c]
      row == [mutation |-> m, before |-> token[c].before, after |-> token[c].after]
  IN
  /\ pc[c] = "commit"
  /\ ledger'  = [ledger EXCEPT ![m.user] = Append(@, row)]
  /\ balance' = [balance EXCEPT ![m.user] = token[c].after]
  /\ version' = [version EXCEPT ![m.user] = @ + 1]
  /\ \/ Finish(c, [status |-> "ok", id |-> m.refId, balance |-> token[c].after])
     \/ Finish(c, Answer("failed"))

\* The process dies, the connection drops or Prisma's timeout expires while
\* the call is under way: the transaction is rolled back, no answer is given.
Fail(c) ==
  /\ pc[c] \notin {"idle", "done"}
  /\ Finish(c, Answer("failed"))
  /\ UNCHANGED tables

-----------------------------------------------------------------------------
(* applyMutation                                                           *)

ApplySubmit(c) ==
  /\ Move(c, "idle", "lookup")
  /\ \E m \in ApplyRequests : params' = [params EXCEPT ![c] = m]
  /\ UNCHANGED <<tables, accountLock, token, outcome>>

\* What a lookup answers: the committed row if it describes the same
\* mutation (assertReplayMatches), 409 if it describes another.
ApplyReplay(row, c) ==
  IF row.mutation = params[c]
    THEN [status |-> "replayed", id |-> row.mutation.refId, balance |-> row.after]
    ELSE Answer("conflict")

ApplyReplays(c) == {ApplyReplay(row, c) : row \in RowsWithKey(params[c].key)}

\* Mutant: P2002 is rethrown without looking for the winner.
RaceAnswersRethrown(replays) == {Answer("unresolved")}

\* After P2002 the winner is looked up; not finding it rethrows the error (500).
RaceAnswers(replays) ==
  IF replays = {} THEN {Answer("unresolved")} ELSE replays

ApplyLookup(c) ==
  /\ pc[c] = "lookup"
  /\ \E answer \in ApplyReplays(c) : Finish(c, answer)
  /\ UNCHANGED tables

ApplyKeyIsNew(c) ==
  /\ Move(c, "lookup", "account")
  /\ RowsWithKey(params[c].key) = {}
  /\ UNCHANGED <<tables, accountLock, params, token, outcome>>

ApplyRaced(c) ==
  /\ pc[c] = "race"
  /\ \E answer \in RaceAnswers(ApplyReplays(c)) : Finish(c, answer)
  /\ UNCHANGED tables

\* The steps the code takes by itself once a call has come in.
ApplyProgress(c) ==
  \/ ApplyLookup(c)
  \/ ApplyKeyIsNew(c)
  \/ LockAccount(c, "write")
  \/ RejectInsufficient(c)
  \/ CommitMutation(c)
  \/ CommitMutationRaced(c)
  \/ CommitTransaction(c)
  \/ ApplyRaced(c)

ApplyStep(c) == ApplySubmit(c) \/ ApplyProgress(c) \/ Fail(c)
=============================================================================
