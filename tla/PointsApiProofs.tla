--------------------------- MODULE PointsApiProofs --------------------------
(***************************************************************************)
(* Proofs about PointsApi, for any users, calls, requests and deadlines.   *)
(*                                                                         *)
(* The twenty-odd actions change the ledger service's variables in only    *)
(* six ways.  LedgerShapes shows that every step of the system is one of   *)
(* them, and the invariants of those variables are then proved per shape.  *)
(***************************************************************************)
EXTENDS Reconciliation, PlacedItems, SumTheorems, TLAPS

\* The six ways a step of call c changes the ledger service's variables.
Submitted(c) ==
  /\ Move(c, "idle", "lookup")
  /\ \E m \in Mutations : params' = [params EXCEPT ![c] = m]
  /\ UNCHANGED <<tables, accountLock, token, outcome>>

Advanced(c) ==
  /\ \E from, to \in Phases \ {"idle"} :
       /\ Move(c, from, to)
       /\ to \in {"insert", "write", "commit"} <=> from \in {"insert", "write", "commit"}
  /\ UNCHANGED <<tables, accountLock, params, token, outcome>>

LockedAccount(c) == LockAccount(c, "insert") \/ LockAccount(c, "write")

Ended(c) ==
  /\ pc[c] # "idle"
  /\ \E answer \in Outcomes : Finish(c, answer)
  /\ UNCHANGED tables

Raced(c) == pc[c] # "idle" /\ RollbackToRace(c)

LedgerShape(c) ==
  \/ Submitted(c)
  \/ Advanced(c)
  \/ LockedAccount(c)
  \/ Ended(c)
  \/ Raced(c)
  \/ CommitTransaction(c)

LedgerTypeOK ==
  /\ balance \in [Users -> Nat]
  /\ version \in [Users -> Nat]
  /\ ledger  \in [Users -> Seq(LedgerRows)]
  /\ accountLock \in [Users -> Maybe(Calls, NoCall)]
  /\ pc      \in [Calls -> Phases]
  /\ params  \in [Calls -> Maybe(Mutations, NoMutation)]
  /\ token   \in [Calls -> [before: Nat, after: Nat]]
  /\ outcome \in [Calls -> Outcomes]

ParamsOK == \A c \in Calls : pc[c] # "idle" => params[c] \in Mutations

-----------------------------------------------------------------------------
(* Every answer is well formed.                                            *)

\* The answers that carry no bet or log are well formed.
LEMMA PlainAnswers ==
  /\ Answer("conflict") \in Outcomes
  /\ Answer("refused") \in Outcomes
  /\ Answer("insufficient") \in Outcomes
  /\ Answer("failed") \in Outcomes
  /\ Answer("unresolved") \in Outcomes
  /\ Answer("none") \in Outcomes
  BY DEF Answer, Outcomes, Statuses, RefIds

\* Every committed row of the ledger is a points_transactions row.
LEMMA RowsTyped ==
  ASSUME LedgerTypeOK, NEW row \in Rows
  PROVE  row \in LedgerRows
<1>1. PICK u \in Users : row \in RowsOf(u)
  BY DEF Rows
<1>2. PICK i \in DOMAIN ledger[u] : row = ledger[u][i]
  BY <1>1 DEF RowsOf
<1>3. ledger[u] \in Seq(LedgerRows)
  BY DEF LedgerTypeOK
<1> QED
  BY <1>2, <1>3

\* Repeating a committed row is a well-formed answer.
LEMMA ReplayTyped ==
  ASSUME LedgerTypeOK, NEW row \in Rows
  PROVE  [status |-> "replayed", id |-> row.mutation.refId, balance |-> row.after]
           \in Outcomes
<1>1. row \in LedgerRows
  BY RowsTyped
<1> QED
  BY <1>1 DEF LedgerRows, Mutations, Outcomes, Statuses

\* What applyMutation's lookup may answer is well formed.
LEMMA ApplyReplaysTyped ==
  ASSUME LedgerTypeOK, NEW c \in Calls
  PROVE  ApplyReplays(c) \subseteq Outcomes
  BY ReplayTyped, PlainAnswers DEF ApplyReplays, ApplyReplay, RowsWithKey

\* What adjust's lookup may answer is well formed.
LEMMA AdjustReplaysTyped ==
  ASSUME LedgerTypeOK, NEW c \in Calls
  PROVE  AdjustReplays(c) \subseteq Outcomes
  BY ReplayTyped, PlainAnswers DEF AdjustReplays, AdjustReplay, RowsWithKey

\* What placeBet's findReplay may answer is well formed.
LEMMA BetReplaysTyped ==
  ASSUME LedgerTypeOK, bets \in SUBSET Bets, NEW c \in BetCalls
  PROVE  BetReplays(c) \subseteq Outcomes
<1> SUFFICES ASSUME NEW b \in bets, NEW answer \in BetReplay(b, c)
             PROVE  answer \in Outcomes
  BY DEF BetReplays, BetsWithKey
<1>1. OriginalBalances(b) \subseteq Nat
  BY RowsTyped DEF OriginalBalances, LedgerRows
<1>2. b.id \in RefIds
  BY BetAssumption DEF Bets, RefIds
<1> QED
  BY <1>1, <1>2, PlainAnswers DEF BetReplay, Outcomes, Statuses

\* So is what a call answers after it lost a race.
LEMMA RaceAnswersTyped ==
  ASSUME NEW S \in SUBSET Outcomes
  PROVE  RaceAnswers(S) \subseteq Outcomes
  BY PlainAnswers DEF RaceAnswers

-----------------------------------------------------------------------------
(* Every step is of one of the six shapes, or leaves the service alone.    *)

\* The ledger steps shared by the three services have one of the shapes.
LEMMA CommonShapes ==
  ASSUME NEW c \in Calls, NEW next \in {"insert", "write"},
         \/ LockAccount(c, next)
         \/ RejectInsufficient(c)
         \/ CommitMutation(c)
         \/ CommitMutationRaced(c)
         \/ CommitTransaction(c)
         \/ Fail(c)
  PROVE  LedgerShape(c)
<1>1. CASE LockAccount(c, next)
  BY <1>1 DEF LedgerShape, LockedAccount
<1>2. CASE RejectInsufficient(c)
  BY <1>2, PlainAnswers DEF RejectInsufficient, LedgerShape, Ended
<1>3. CASE CommitMutation(c)
  BY <1>3 DEF CommitMutation, LedgerShape, Advanced, Move, Phases
<1>4. CASE CommitMutationRaced(c)
  BY <1>4 DEF CommitMutationRaced, LedgerShape, Raced
<1>5. CASE CommitTransaction(c)
  BY <1>5 DEF LedgerShape
<1>6. CASE Fail(c)
  BY <1>6, PlainAnswers DEF Fail, LedgerShape, Ended
<1> QED
  BY <1>1, <1>2, <1>3, <1>4, <1>5, <1>6

\* A step that only moves pc is an Advanced step.
LEMMA AdvancedShape ==
  ASSUME NEW c \in Calls, NEW from \in Phases \ {"idle"}, NEW to \in Phases \ {"idle"},
         Move(c, from, to),
         to \in {"insert", "write", "commit"} <=> from \in {"insert", "write", "commit"},
         UNCHANGED <<tables, accountLock, params, token, outcome>>
  PROVE  LedgerShape(c)
  BY DEF LedgerShape, Advanced

\* Every step of applyMutation has one of the shapes.
LEMMA ApplyShapes ==
  ASSUME LedgerTypeOK, NEW c \in ApplyCalls, ApplyStep(c)
  PROVE  LedgerShape(c)
<1> c \in Calls
  BY LedgerAssumption
<1>1. CASE ApplySubmit(c)
  BY <1>1, LedgerAssumption DEF ApplySubmit, LedgerShape, Submitted
<1>2. CASE ApplyLookup(c)
  BY <1>2, ApplyReplaysTyped DEF ApplyLookup, LedgerShape, Ended
<1>3. CASE ApplyKeyIsNew(c)
  <2>1. /\ Move(c, "lookup", "account")
        /\ UNCHANGED <<tables, accountLock, params, token, outcome>>
    BY <1>3 DEF ApplyKeyIsNew
  <2> QED
    BY <2>1, AdvancedShape DEF Phases
<1>4. CASE ApplyRaced(c)
  BY <1>4, ApplyReplaysTyped, RaceAnswersTyped DEF ApplyRaced, LedgerShape, Ended
<1> QED
  BY <1>1, <1>2, <1>3, <1>4, CommonShapes DEF ApplyStep, ApplyProgress

\* Every step of placeBet has one of the shapes.
LEMMA BetShapes ==
  ASSUME LedgerTypeOK, bets \in SUBSET Bets, NEW c \in BetCalls, BetStep(c)
  PROVE  LedgerShape(c)
<1> c \in Calls
  BY BetAssumption
<1>1. CASE BetSubmit(c)
  <2>1. PICK r \in BetRequests : params' = [params EXCEPT ![c] = BetDebit(c, r)]
    BY <1>1 DEF BetSubmit
  <2>2. BetDebit(c, r) \in Mutations
    BY BetAssumption
    DEF BetDebit, Mutations, BetRequestType, Directions, RefTypes, RefIds, LedgerKeys
  <2> QED
    BY <1>1, <2>1, <2>2 DEF BetSubmit, LedgerShape, Submitted
<1>2. CASE BetLookup(c)
  BY <1>2, BetReplaysTyped DEF BetLookup, LedgerShape, Ended
<1>3. CASE BetKeyIsNew(c) \/ BeginBet(c)
  BY <1>3 DEF BetKeyIsNew, BeginBet, LedgerShape, Advanced, Move, Phases
<1>4. CASE LockRound(c)
  <2>1. /\ Move(c, "round", "account")
        /\ UNCHANGED <<tables, accountLock, params, token, outcome>>
    BY <1>4 DEF LockRound
  <2> QED
    BY <2>1, AdvancedShape DEF Phases
<1>5. CASE RefuseRound(c)
  BY <1>5, PlainAnswers DEF RefuseRound, LedgerShape, Ended
<1>6. CASE InsertBet(c)
  BY <1>6 DEF InsertBet, LedgerShape, Advanced, Move, Phases
<1>7. CASE InsertBetRaced(c)
  BY <1>7 DEF InsertBetRaced, LedgerShape, Raced
<1>8. CASE BetRaced(c)
  BY <1>8, BetReplaysTyped, RaceAnswersTyped DEF BetRaced, LedgerShape, Ended
<1>9. CASE \/ BetLockAccount(c) \/ BetRejectInsufficient(c)
           \/ BetCommitMutation(c) \/ CommitBet(c) \/ BetFail(c)
  BY <1>9, CommonShapes
  DEF BetLockAccount, BetRejectInsufficient, BetCommitMutation, CommitBet, BetFail
<1> QED
  BY <1>1, <1>2, <1>3, <1>4, <1>5, <1>6, <1>7, <1>8, <1>9 DEF BetStep, BetProgress

\* Every step of adjust has one of the shapes.
LEMMA AdjustShapes ==
  ASSUME LedgerTypeOK, NEW c \in AdjustCalls, AdjustStep(c)
  PROVE  LedgerShape(c)
<1> c \in Calls
  BY AdminAssumption
<1>1. CASE AdjustSubmit(c)
  <2>1. PICK r \in AdjustRequests : params' = [params EXCEPT ![c] = Adjustment(c, r)]
    BY <1>1 DEF AdjustSubmit
  <2>2. Adjustment(c, r) \in Mutations
    BY AdminAssumption
    DEF Adjustment, Mutations, AdjustRequestType, RefTypes, RefIds, LedgerKeys
  <2> QED
    BY <1>1, <2>1, <2>2 DEF AdjustSubmit, LedgerShape, Submitted
<1>2. CASE AdjustLookup(c)
  BY <1>2, AdjustReplaysTyped DEF AdjustLookup, LedgerShape, Ended
<1>3. CASE AdjustKeyIsNew(c) \/ CreateAdminLog(c)
  BY <1>3 DEF AdjustKeyIsNew, CreateAdminLog, LedgerShape, Advanced, Move, Phases
<1>4. CASE AdjustRaced(c)
  BY <1>4, AdjustReplaysTyped, RaceAnswersTyped DEF AdjustRaced, LedgerShape, Ended
<1>5. CASE AdjustLedgerStep(c) \/ CommitAdjustment(c) \/ Fail(c)
  BY <1>5, CommonShapes DEF AdjustLedgerStep, CommitAdjustment
<1> QED
  BY <1>1, <1>2, <1>3, <1>4, <1>5 DEF AdjustStep, AdjustProgress

\* So has every step of the system that touches the ledger's variables.
LEMMA LedgerShapes ==
  ASSUME LedgerTypeOK, bets \in SUBSET Bets, [Next]_vars
  PROVE  UNCHANGED ledgerVars \/ \E c \in Calls : LedgerShape(c)
<1>1. CASE UNCHANGED vars
  BY <1>1 DEF vars
<1>2. CASE \E c \in ApplyCalls : ApplyStep(c)
  BY <1>2, ApplyShapes, LedgerAssumption
<1>3. CASE \E c \in BetCalls : BetStep(c)
  BY <1>3, BetShapes, BetAssumption
<1>4. CASE \E c \in AdjustCalls : AdjustStep(c)
  BY <1>4, AdjustShapes, AdminAssumption
<1>5. CASE RoundStep
  BY <1>5 DEF RoundStep, Tick, OpenRound, LockIfDeadlinePassed
<1> QED
  BY <1>1, <1>2, <1>3, <1>4, <1>5 DEF Next

-----------------------------------------------------------------------------
(* What each shape preserves: types, tokens, and the chain of every ledger *)

\* Each shape keeps the types, and the request a call came in with.
LEMMA ShapesKeepTypes ==
  ASSUME LedgerTypeOK, ParamsOK, TokensAreCurrent,
         UNCHANGED ledgerVars \/ \E c \in Calls : LedgerShape(c)
  PROVE  LedgerTypeOK' /\ ParamsOK'
<1> USE DEF LedgerTypeOK, ParamsOK
<1>1. CASE UNCHANGED ledgerVars
  BY <1>1 DEF ledgerVars
<1>2. ASSUME NEW c \in Calls, LedgerShape(c)
      PROVE  LedgerTypeOK' /\ ParamsOK'
  <2>1. CASE Submitted(c)
    BY <2>1 DEF Submitted, Move, tables, Phases, Maybe
  <2>2. CASE Advanced(c)
    BY <2>2 DEF Advanced, Move, tables, Phases
  <2>3. CASE LockedAccount(c)
    <3>1. /\ params[c] \in Mutations
          /\ pc' = [pc EXCEPT ![c] = "insert"] \/ pc' = [pc EXCEPT ![c] = "write"]
          /\ accountLock' = [accountLock EXCEPT ![params[c].user] = c]
          /\ token' = [token EXCEPT ![c] = [before |-> balance[params[c].user],
                                           after  |-> BalanceAfter(params[c])]]
          /\ BalanceAfter(params[c]) >= 0
          /\ pc[c] # "idle"
          /\ UNCHANGED <<tables, params, outcome>>
      BY <2>3 DEF LockedAccount, LockAccount, Move
    <3>2. balance[params[c].user] \in Nat /\ BalanceAfter(params[c]) \in Nat
      BY <3>1 DEF BalanceAfter, Mutations
    <3> QED
      BY <3>1, <3>2 DEF tables, Phases, Maybe
  <2>4. CASE Ended(c)
    BY <2>4 DEF Ended, Finish, Free, tables, Phases, Maybe, NoToken
  <2>5. CASE Raced(c)
    BY <2>5 DEF Raced, RollbackToRace, Free, tables, Phases, Maybe, NoToken
  <2>6. CASE CommitTransaction(c)
    <3> DEFINE m == params[c]
               row == [mutation |-> m, before |-> token[c].before, after |-> token[c].after]
    <3>1. /\ pc[c] = "commit"
          /\ ledger' = [ledger EXCEPT ![m.user] = Append(@, row)]
          /\ balance' = [balance EXCEPT ![m.user] = token[c].after]
          /\ version' = [version EXCEPT ![m.user] = @ + 1]
          /\ \E answer \in {[status |-> "ok", id |-> m.refId, balance |-> token[c].after],
                           Answer("failed")} : Finish(c, answer)
      BY <2>6 DEF CommitTransaction
    <3>2. m \in Mutations /\ row \in LedgerRows
      BY <3>1 DEF LedgerRows
    <3>3. [status |-> "ok", id |-> m.refId, balance |-> token[c].after] \in Outcomes
      BY <3>2 DEF Mutations, Outcomes, Statuses
    <3>4. PICK answer \in Outcomes : Finish(c, answer)
      BY <3>1, <3>3, PlainAnswers
    <3>5. ledger' \in [Users -> Seq(LedgerRows)]
      BY <3>1, <3>2 DEF Mutations
    <3> QED
      BY <3>1, <3>2, <3>4, <3>5 DEF Finish, Free, Phases, Maybe, NoToken, Mutations
  <2> QED
    BY <1>2, <2>1, <2>2, <2>3, <2>4, <2>5, <2>6 DEF LedgerShape
<1> QED
  BY <1>1, <1>2

\* A call's token concerns only its own account, which no other call can
\* lock, so only the call itself can change the balance the token describes.
LEMMA ShapesKeepTokens ==
  ASSUME LedgerTypeOK, ParamsOK, TokensAreCurrent,
         UNCHANGED ledgerVars \/ \E c \in Calls : LedgerShape(c)
  PROVE  TokensAreCurrent'
<1> SUFFICES ASSUME NEW d \in Calls, HoldsAccount(d)'
             PROVE  /\ accountLock'[params'[d].user] = d
                    /\ token'[d].before = balance'[params'[d].user]
                    /\ token'[d].after = BalanceAfter(params[d])'
  BY DEF TokensAreCurrent, BalanceAfter
<1>1. CASE UNCHANGED ledgerVars
  BY <1>1 DEF ledgerVars, tables, TokensAreCurrent, HoldsAccount, BalanceAfter
<1>2. ASSUME NEW c \in Calls, LedgerShape(c)
      PROVE  /\ accountLock'[params'[d].user] = d
             /\ token'[d].before = balance'[params'[d].user]
             /\ token'[d].after = BalanceAfter(params[d])'
  <2> USE DEF LedgerTypeOK, ParamsOK, TokensAreCurrent, HoldsAccount, tables, BalanceAfter
  <2> d # NoCall
    BY LedgerAssumption
  <2>1. CASE Submitted(c)
    BY <2>1 DEF Submitted, Move
  <2>2. CASE Advanced(c)
    BY <2>2 DEF Advanced, Move
  <2>3. CASE LockedAccount(c)
    <3>1. /\ pc' = [pc EXCEPT ![c] = "insert"] \/ pc' = [pc EXCEPT ![c] = "write"]
          /\ pc[c] = "account" /\ params[c] \in Mutations
          /\ accountLock[params[c].user] = NoCall
          /\ accountLock' = [accountLock EXCEPT ![params[c].user] = c]
          /\ token' = [token EXCEPT ![c] = [before |-> balance[params[c].user],
                                           after  |-> BalanceAfter(params[c])]]
          /\ UNCHANGED <<balance, params>>
      BY <2>3 DEF LockedAccount, LockAccount, Move
    <3>2. params[c].user \in Users
      BY <3>1 DEF Mutations
    <3>3. CASE d = c
      BY <3>1, <3>2, <3>3
    <3>4. CASE d # c
      BY <3>1, <3>2, <3>4
    <3> QED
      BY <3>3, <3>4
  <2>4. CASE Ended(c)
    BY <2>4 DEF Ended, Finish, Free, Mutations
  <2>5. CASE Raced(c)
    BY <2>5 DEF Raced, RollbackToRace, Free, Mutations
  <2>6. CASE CommitTransaction(c)
    <3>1. /\ pc[c] = "commit" /\ pc' = [pc EXCEPT ![c] = "done"]
          /\ params' = params
          /\ accountLock' = Free(accountLock, c)
          /\ token' = [token EXCEPT ![c] = NoToken]
          /\ balance' = [balance EXCEPT ![params[c].user] = token[c].after]
      BY <2>6 DEF CommitTransaction, Finish
    <3>2. d # c /\ pc[d] \in {"insert", "write", "commit"}
      BY <3>1
    <3>3. params[d] \in Mutations /\ params[c] \in Mutations
      BY <3>1, <3>2
    <3>4. accountLock[params[d].user] = d /\ accountLock[params[c].user] = c
      BY <3>1, <3>2
    <3>5. params[d].user \in Users /\ params[d].user # params[c].user
      BY <3>2, <3>3, <3>4 DEF Mutations
    <3> QED
      BY <3>1, <3>2, <3>4, <3>5 DEF Free
  <2> QED
    BY <1>2, <2>1, <2>2, <2>3, <2>4, <2>5, <2>6 DEF LedgerShape
<1> QED
  BY <1>1, <1>2

\* Only a commit touches the tables, and the row it appends starts from the
\* balance that its token and, by the chain, the last row of the ledger hold.
LEMMA ShapesKeepChain ==
  ASSUME LedgerTypeOK, ParamsOK, TokensAreCurrent, LedgerIsChain,
         UNCHANGED ledgerVars \/ \E c \in Calls : LedgerShape(c)
  PROVE  LedgerIsChain'
<1>1. CASE UNCHANGED tables
  BY <1>1 DEF tables, LedgerIsChain, Applied
<1>2. ASSUME NEW c \in Calls, CommitTransaction(c)
      PROVE  LedgerIsChain'
  <2> DEFINE m == params[c]
             row == [mutation |-> m, before |-> token[c].before, after |-> token[c].after]
  <2>1. /\ ledger' = [ledger EXCEPT ![m.user] = Append(@, row)]
        /\ balance' = [balance EXCEPT ![m.user] = row.after]
        /\ version' = [version EXCEPT ![m.user] = @ + 1]
        /\ pc[c] = "commit"
    BY <1>2 DEF CommitTransaction
  <2>2. m \in Mutations /\ row \in LedgerRows
    BY <2>1 DEF LedgerTypeOK, ParamsOK, LedgerRows
  <2>3. row.before = balance[m.user] /\ Applied(row) /\ row.mutation.user = m.user
    BY <2>1 DEF TokensAreCurrent, HoldsAccount, BalanceAfter, Applied
  <2> SUFFICES ASSUME NEW u \in Users
               PROVE  /\ \A i \in DOMAIN ledger'[u] :
                           /\ ledger'[u][i].mutation.user = u
                           /\ Applied(ledger'[u][i])
                           /\ ledger'[u][i].before =
                                IF i = 1 THEN 0 ELSE ledger'[u][i - 1].after
                      /\ balance'[u] = IF ledger'[u] = <<>> THEN 0
                                       ELSE ledger'[u][Len(ledger'[u])].after
                      /\ version'[u] = Len(ledger'[u])
    BY DEF LedgerIsChain, Applied
  <2>4. /\ \A i \in DOMAIN ledger[u] :
             /\ ledger[u][i].mutation.user = u
             /\ Applied(ledger[u][i])
             /\ ledger[u][i].before = IF i = 1 THEN 0 ELSE ledger[u][i - 1].after
        /\ balance[u] = IF ledger[u] = <<>> THEN 0 ELSE ledger[u][Len(ledger[u])].after
        /\ version[u] = Len(ledger[u])
        /\ ledger[u] \in Seq(LedgerRows)
    BY DEF LedgerIsChain, LedgerTypeOK
  <2>5. CASE u # m.user
    BY <2>1, <2>4, <2>5 DEF LedgerTypeOK
  <2>6. CASE u = m.user
    <3>1. ledger'[u] = Append(ledger[u], row) /\ balance'[u] = row.after
          /\ version'[u] = Len(ledger[u]) + 1
      BY <2>1, <2>4, <2>6 DEF LedgerTypeOK
    <3>2. /\ Len(ledger'[u]) = Len(ledger[u]) + 1
          /\ DOMAIN ledger'[u] = 1 .. Len(ledger[u]) + 1
          /\ ledger'[u][Len(ledger[u]) + 1] = row
          /\ \A i \in DOMAIN ledger[u] : ledger'[u][i] = ledger[u][i]
          /\ DOMAIN ledger[u] = 1 .. Len(ledger[u])
          /\ Len(ledger[u]) \in Nat
      BY <3>1, <2>4, <2>2
    <3>3. ASSUME NEW i \in DOMAIN ledger'[u]
          PROVE  /\ ledger'[u][i].mutation.user = u
                 /\ Applied(ledger'[u][i])
                 /\ ledger'[u][i].before = IF i = 1 THEN 0 ELSE ledger'[u][i - 1].after
      <4>1. CASE i \in DOMAIN ledger[u]
        <5>1. ledger'[u][i] = ledger[u][i]
          BY <4>1, <3>2
        <5>2. i # 1 => i - 1 \in DOMAIN ledger[u]
          BY <4>1, <3>2
        <5>3. i # 1 => ledger'[u][i - 1] = ledger[u][i - 1]
          BY <5>2, <3>2
        <5> QED
          BY <4>1, <5>1, <5>3, <2>4
      <4>2. CASE i = Len(ledger[u]) + 1
        <5>1. ledger'[u][i] = row
          BY <4>2, <3>2
        <5>2. row.mutation.user = u /\ Applied(row) /\ row.before = balance[u]
          BY <2>3, <2>6
        <5>3. CASE i = 1
          <6>1. ledger[u] = <<>>
            BY <5>3, <4>2, <3>2, <2>4
          <6> QED
            BY <6>1, <5>1, <5>2, <5>3, <2>4
        <5>4. CASE i # 1
          <6>1. i - 1 = Len(ledger[u]) /\ i - 1 \in DOMAIN ledger[u]
            BY <5>4, <4>2, <3>2
          <6>2. ledger'[u][i - 1] = ledger[u][Len(ledger[u])]
            BY <6>1, <3>2
          <6>3. ledger[u] # <<>>
            BY <6>1
          <6>4. row.before = ledger'[u][i - 1].after
            BY <6>2, <6>3, <5>2, <2>4
          <6> QED
            BY <6>4, <5>1, <5>2, <5>4
        <5> QED
          BY <5>3, <5>4
      <4> QED
        BY <4>1, <4>2, <3>2
    <3> QED
      BY <3>1, <3>2, <3>3
  <2> QED
    BY <2>5, <2>6
<1>3. ASSUME NEW c \in Calls, LedgerShape(c), ~CommitTransaction(c)
      PROVE  UNCHANGED tables
  BY <1>3 DEF LedgerShape, Submitted, Advanced, LockedAccount, LockAccount, Ended,
              Raced, RollbackToRace
<1> QED
  BY <1>1, <1>2, <1>3 DEF ledgerVars, tables

-----------------------------------------------------------------------------
(* Requests, bets and the round lock                                       *)

\* A shape of call c leaves the phases and requests of other calls alone.
LEMMA ShapeFrame ==
  ASSUME LedgerTypeOK, NEW c \in Calls, LedgerShape(c)
  PROVE  /\ \A d \in Calls \ {c} : pc'[d] = pc[d] /\ params'[d] = params[d]
         /\ pc[c] # "idle" => params' = params
         /\ pc'[c] # "idle"
<1> USE DEF LedgerTypeOK, Move
<1>1. CASE Submitted(c)
  BY <1>1 DEF Submitted
<1>2. CASE Advanced(c)
  BY <1>2 DEF Advanced
<1>3. CASE LockedAccount(c)
  BY <1>3 DEF LockedAccount, LockAccount
<1>4. CASE Ended(c)
  BY <1>4 DEF Ended, Finish
<1>5. CASE Raced(c)
  BY <1>5 DEF Raced, RollbackToRace
<1>6. CASE CommitTransaction(c)
  BY <1>6 DEF CommitTransaction, Finish
<1> QED
  BY <1>1, <1>2, <1>3, <1>4, <1>5, <1>6 DEF LedgerShape

RequestTypeOK ==
  /\ betRequest \in [BetCalls -> Maybe(BetRequestType, NoBetRequest)]
  /\ adjustRequest \in [AdjustCalls -> Maybe(AdjustRequestType, NoAdjustRequest)]

\* A bet call's request changes only when the call comes in.
LEMMA BetRequestStep ==
  ASSUME LedgerTypeOK, bets \in SUBSET Bets, RequestTypeOK,
         NEW c \in BetCalls, BetStep(c)
  PROVE  \/ /\ pc[c] = "idle"
            /\ \E r \in BetRequests : betRequest' = [betRequest EXCEPT ![c] = r]
                                      /\ params' = [params EXCEPT ![c] = BetDebit(c, r)]
         \/ /\ pc[c] # "idle"
            /\ betRequest' = betRequest
<1>1. CASE BetSubmit(c)
  BY <1>1 DEF BetSubmit, Move
<1>2. CASE BetFail(c)
  BY <1>2 DEF BetFail, Fail, ReleaseRound
<1>3. CASE BetProgress(c)
  BY <1>3 DEF BetProgress, BetLookup, BetKeyIsNew, BeginBet, LockRound, RefuseRound,
              BetLockAccount, BetRejectInsufficient, InsertBet, InsertBetRaced,
              BetCommitMutation, CommitBet, BetRaced, ReleaseRound, betVars, Move,
              LockAccount, RejectInsufficient, CommitMutation, CommitTransaction
<1> QED
  BY <1>1, <1>2, <1>3 DEF BetStep

\* An adjustment's request changes only when the call comes in.
LEMMA AdjustRequestStep ==
  ASSUME NEW c \in AdjustCalls, AdjustStep(c)
  PROVE  \/ /\ pc[c] = "idle"
            /\ \E r \in AdjustRequests :
                 /\ adjustRequest' = [adjustRequest EXCEPT ![c] = r]
                 /\ params' = [params EXCEPT ![c] = Adjustment(c, r)]
         \/ /\ pc[c] # "idle"
            /\ adjustRequest' = adjustRequest
<1>1. CASE AdjustSubmit(c)
  BY <1>1 DEF AdjustSubmit, Move
<1>2. CASE Fail(c) /\ UNCHANGED adminVars
  BY <1>2 DEF Fail, adminVars
<1>3. CASE AdjustProgress(c)
  BY <1>3 DEF AdjustProgress, AdjustLookup, AdjustKeyIsNew, AdjustRaced, CreateAdminLog,
              AdjustLedgerStep, CommitAdjustment, adminVars, Move, LockAccount,
              RejectInsufficient, CommitMutation, CommitMutationRaced, CommitTransaction
<1> QED
  BY <1>1, <1>2, <1>3 DEF AdjustStep

\* Every step keeps what the calls are to do in line with their requests.
LEMMA RequestsKept ==
  ASSUME LedgerTypeOK, bets \in SUBSET Bets, RequestTypeOK, CallsCarryRequests, [Next]_vars
  PROVE  RequestTypeOK' /\ CallsCarryRequests'
<1> ParamsOK
  BY DEF ParamsOK, CallsCarryRequests
<1>0. /\ BetCalls \subseteq Calls /\ AdjustCalls \subseteq Calls /\ ApplyCalls \subseteq Calls
      /\ BetCalls \cap AdjustCalls = {} /\ BetCalls \cap ApplyCalls = {}
      /\ AdjustCalls \cap ApplyCalls = {}
      /\ BetRequests \subseteq BetRequestType /\ AdjustRequests \subseteq AdjustRequestType
      /\ ApplyRequests \subseteq Mutations
  BY LedgerAssumption, BetAssumption, AdminAssumption, ApiAssumption
<1>1. CASE UNCHANGED <<pc, params, betRequest, adjustRequest>>
  BY <1>1 DEF CallsCarryRequests, RequestTypeOK
<1>2. ASSUME NEW c \in ApplyCalls, ApplyStep(c), UNCHANGED <<betVars, adminVars>>
      PROVE  RequestTypeOK' /\ CallsCarryRequests'
  <2>1. LedgerShape(c)
    BY <1>2, ApplyShapes
  <2>2. params'[c] \in Mutations
    <3>1. CASE ApplySubmit(c)
      BY <3>1, <1>0 DEF ApplySubmit, LedgerTypeOK
    <3>2. CASE ~ApplySubmit(c)
      BY <3>2, <1>0, <1>2, <2>1, ShapeFrame
      DEF ParamsOK, ApplyStep, ApplyProgress, Fail, ApplyLookup, ApplyKeyIsNew, ApplyRaced,
          LockAccount, RejectInsufficient, CommitMutation, CommitMutationRaced,
          CommitTransaction, Move
    <3> QED
      BY <3>1, <3>2
  <2> QED
    BY <1>0, <1>2, <2>1, <2>2, ShapeFrame
    DEF CallsCarryRequests, RequestTypeOK, betVars, adminVars
<1>3. ASSUME NEW c \in BetCalls, BetStep(c), UNCHANGED adminVars
      PROVE  RequestTypeOK' /\ CallsCarryRequests'
  <2>1. LedgerShape(c) /\ c \in Calls
    BY <1>0, <1>3, BetShapes
  <2>2. CASE pc[c] # "idle"
    <3>1. betRequest' = betRequest /\ params' = params /\ adjustRequest' = adjustRequest
      BY <1>3, <2>1, <2>2, BetRequestStep, ShapeFrame DEF adminVars
    <3> QED
      BY <1>0, <2>1, <2>2, <3>1, ShapeFrame DEF CallsCarryRequests, RequestTypeOK
  <2>3. CASE pc[c] = "idle"
    <3>1. PICK r \in BetRequests :
            /\ betRequest' = [betRequest EXCEPT ![c] = r]
            /\ params' = [params EXCEPT ![c] = BetDebit(c, r)]
      BY <1>3, <2>3, BetRequestStep
    <3>2. BetDebit(c, r) \in Mutations
      BY <1>0, BetAssumption
      DEF BetDebit, Mutations, BetRequestType, Directions, RefTypes, RefIds, LedgerKeys
    <3>3. /\ betRequest'[c] = r /\ params'[c] = BetDebit(c, r)
          /\ betRequest' \in [BetCalls -> Maybe(BetRequestType, NoBetRequest)]
      BY <1>0, <3>1, <2>1 DEF LedgerTypeOK, RequestTypeOK, Maybe
    <3>4. \A d \in BetCalls \ {c} : betRequest'[d] = betRequest[d]
      BY <3>1 DEF RequestTypeOK
    <3> QED
      BY <1>0, <1>3, <2>1, <3>2, <3>3, <3>4, ShapeFrame
      DEF CallsCarryRequests, RequestTypeOK, adminVars
  <2> QED
    BY <2>2, <2>3
<1>4. ASSUME NEW c \in AdjustCalls, AdjustStep(c), UNCHANGED betVars
      PROVE  RequestTypeOK' /\ CallsCarryRequests'
  <2>1. LedgerShape(c) /\ c \in Calls
    BY <1>0, <1>4, AdjustShapes
  <2>2. CASE pc[c] # "idle"
    <3>1. betRequest' = betRequest /\ params' = params /\ adjustRequest' = adjustRequest
      BY <1>4, <2>1, <2>2, AdjustRequestStep, ShapeFrame DEF betVars
    <3> QED
      BY <1>0, <2>1, <2>2, <3>1, ShapeFrame DEF CallsCarryRequests, RequestTypeOK
  <2>3. CASE pc[c] = "idle"
    <3>1. PICK r \in AdjustRequests :
            /\ adjustRequest' = [adjustRequest EXCEPT ![c] = r]
            /\ params' = [params EXCEPT ![c] = Adjustment(c, r)]
      BY <1>4, <2>3, AdjustRequestStep
    <3>2. Adjustment(c, r) \in Mutations
      BY <1>0 DEF Adjustment, Mutations, AdjustRequestType, RefTypes, RefIds, LedgerKeys
    <3>3. /\ adjustRequest'[c] = r /\ params'[c] = Adjustment(c, r)
          /\ adjustRequest' \in [AdjustCalls -> Maybe(AdjustRequestType, NoAdjustRequest)]
      BY <1>0, <3>1, <2>1 DEF LedgerTypeOK, RequestTypeOK, Maybe
    <3>4. \A d \in AdjustCalls \ {c} : adjustRequest'[d] = adjustRequest[d]
      BY <3>1 DEF RequestTypeOK
    <3> QED
      BY <1>0, <1>4, <2>1, <3>2, <3>3, <3>4, ShapeFrame
      DEF CallsCarryRequests, RequestTypeOK, betVars
  <2> QED
    BY <2>2, <2>3
<1>5. CASE RoundStep /\ UNCHANGED adminVars
  BY <1>5, <1>1 DEF RoundStep, Tick, OpenRound, LockIfDeadlinePassed, ledgerVars, adminVars
<1>6. CASE UNCHANGED vars
  BY <1>6, <1>1 DEF vars, ledgerVars, betVars, adminVars
<1> QED
  BY <1>2, <1>3, <1>4, <1>5, <1>6 DEF Next

\* What a bet call's own steps do to the round, the clock and the bets.
LEMMA BetStepEffects ==
  ASSUME NEW c \in BetCalls, BetStep(c)
  PROVE  /\ UNCHANGED <<clock, roundState>>
         /\ txStart' = txStart \/ txStart' = [txStart EXCEPT ![c] = clock]
         /\ \/ UNCHANGED bets
            \/ pc[c] = "commit" /\ bets' = bets \cup {BetRow(c)}
         /\ \/ roundLock' = roundLock
            \/ roundLock' = Free(roundLock, c)
            \/ /\ roundLock[betRequest[c].round] = NoCall
               /\ roundLock' = [roundLock EXCEPT ![betRequest[c].round] = c]
<1>1. CASE BetSubmit(c)
  BY <1>1 DEF BetSubmit
<1>2. CASE BetFail(c)
  BY <1>2 DEF BetFail, ReleaseRound
<1>3. CASE BetProgress(c)
  BY <1>3 DEF BetProgress, BetLookup, BetKeyIsNew, BeginBet, LockRound, RefuseRound,
              BetLockAccount, BetRejectInsufficient, InsertBet, InsertBetRaced,
              BetCommitMutation, CommitBet, CommitTransaction, BetRaced, ReleaseRound,
              betVars
<1> QED
  BY <1>1, <1>2, <1>3 DEF BetStep

\* What an adjustment's own steps do to the logs.
LEMMA AdjustStepEffects ==
  ASSUME NEW c \in AdjustCalls, AdjustStep(c)
  PROVE  \/ UNCHANGED adminLogs
         \/ pc[c] = "commit" /\ adminLogs' = adminLogs \cup {AdminLogRow(c)}
<1>1. CASE AdjustSubmit(c)
  BY <1>1 DEF AdjustSubmit
<1>2. CASE AdjustProgress(c)
  BY <1>2 DEF AdjustProgress, AdjustLookup, AdjustKeyIsNew, AdjustRaced, CreateAdminLog,
              CommitAdjustment, CommitTransaction, adminVars
<1> QED
  BY <1>1, <1>2 DEF AdjustStep, adminVars

OtherTypeOK ==
  /\ clock \in 0 .. MaxClock
  /\ roundState \in [Rounds -> RoundStates]
  /\ roundLock  \in [Rounds -> Maybe(Calls, NoCall)]
  /\ bets \in SUBSET Bets
  /\ txStart    \in [BetCalls -> 0 .. MaxClock]
  /\ adminLogs \in SUBSET AdminLogs

\* Every step keeps the types of the rounds, bets, logs and requests.
LEMMA OthersKept ==
  ASSUME LedgerTypeOK, RequestTypeOK, OtherTypeOK, CallsCarryRequests, [Next]_vars
  PROVE  OtherTypeOK'
<1> USE DEF OtherTypeOK
<1>1. ASSUME NEW c \in BetCalls, BetStep(c), UNCHANGED adminVars
      PROVE  OtherTypeOK'
  <2>1. pc[c] # "idle" => betRequest[c] \in BetRequestType
    BY DEF CallsCarryRequests
  <2>2. pc[c] = "commit" => BetRow(c) \in Bets
    BY <2>1 DEF BetRow, Bets, BetRequestType
  <2>3. bets' \in SUBSET Bets
    BY <1>1, <2>2, BetStepEffects
  <2>4. roundLock' \in [Rounds -> Maybe(Calls, NoCall)]
    BY <1>1, BetStepEffects, BetAssumption DEF Free, Maybe
  <2>5. txStart' \in [BetCalls -> 0 .. MaxClock]
    BY <1>1, BetStepEffects
  <2> QED
    BY <1>1, <2>3, <2>4, <2>5, BetStepEffects DEF adminVars
<1>2. ASSUME NEW c \in AdjustCalls, AdjustStep(c), UNCHANGED betVars
      PROVE  OtherTypeOK'
  <2>1. pc[c] = "commit" => AdminLogRow(c) \in AdminLogs
    BY DEF CallsCarryRequests, AdminLogRow, AdminLogs, AdjustRequestType
  <2> QED
    BY <1>2, <2>1, AdjustStepEffects DEF betVars
<1>3. CASE RoundStep /\ UNCHANGED adminVars
  BY <1>3, BetAssumption
  DEF RoundStep, Tick, OpenRound, LockIfDeadlinePassed, RoundStates, adminVars
<1>4. CASE UNCHANGED <<betVars, adminVars>>
  BY <1>4 DEF betVars, adminVars
<1> QED
  BY <1>1, <1>2, <1>3, <1>4 DEF Next, vars

\* A bet call enters the protected phases only through LockRound.
LEMMA BetPhases ==
  ASSUME LedgerTypeOK, NEW c \in BetCalls, BetStep(c), HoldsRound(c)'
  PROVE  \/ /\ LockRound(c)
            /\ ~HoldsRound(c)
         \/ /\ HoldsRound(c)
            /\ UNCHANGED <<roundLock, betRequest>>
<1> c \in Calls
  BY BetAssumption
<1>1. CASE BetSubmit(c)
  BY <1>1 DEF BetSubmit, Move, HoldsRound, LedgerTypeOK
<1>2. CASE LockRound(c)
  BY <1>2 DEF LockRound, Move, HoldsRound
<1>3. CASE BetLockAccount(c) \/ InsertBet(c) \/ BetCommitMutation(c)
  BY <1>3 DEF BetLockAccount, LockAccount, InsertBet, BetCommitMutation, CommitMutation,
              Move, HoldsRound, betVars
<1>4. CASE \/ BetLookup(c) \/ RefuseRound(c) \/ BetRejectInsufficient(c)
           \/ CommitBet(c) \/ BetRaced(c) \/ BetFail(c)
  BY <1>4 DEF BetLookup, RefuseRound, BetRejectInsufficient, RejectInsufficient, CommitBet,
              CommitTransaction, BetRaced, BetFail, Fail, Finish, HoldsRound, LedgerTypeOK
<1>5. CASE BetKeyIsNew(c) \/ BeginBet(c) \/ InsertBetRaced(c)
  BY <1>5 DEF BetKeyIsNew, BeginBet, InsertBetRaced, RollbackToRace, Move, HoldsRound,
              LedgerTypeOK
<1> QED
  BY <1>1, <1>2, <1>3, <1>4, <1>5 DEF BetStep, BetProgress

\* Every step keeps a round that a bet holds locked and accepting.
LEMMA RoundKept ==
  ASSUME LedgerTypeOK, RequestTypeOK, OtherTypeOK, CallsCarryRequests, RoundHeldOpen,
         [Next]_vars
  PROVE  RoundHeldOpen'
<1> SUFFICES ASSUME NEW d \in BetCalls, HoldsRound(d)'
             PROVE  /\ roundLock'[betRequest'[d].round] = d
                    /\ roundState'[betRequest'[d].round] \in Accepting
  BY DEF RoundHeldOpen
<1>0. /\ BetCalls \subseteq Calls /\ AdjustCalls \subseteq Calls /\ ApplyCalls \subseteq Calls
      /\ BetCalls \cap AdjustCalls = {} /\ BetCalls \cap ApplyCalls = {}
      /\ d # NoCall
  BY LedgerAssumption, BetAssumption, AdminAssumption, ApiAssumption
<1>d. HoldsRound(d) => /\ roundLock[betRequest[d].round] = d
                       /\ roundState[betRequest[d].round] \in Accepting
                       /\ betRequest[d].round \in Rounds
  BY <1>0 DEF RoundHeldOpen, HoldsRound, CallsCarryRequests, BetRequestType
<1>1. CASE \E c \in ApplyCalls \cup AdjustCalls :
              LedgerShape(c) /\ UNCHANGED betVars
  BY <1>0, <1>1, <1>d, ShapeFrame DEF HoldsRound, betVars
<1>2. ASSUME NEW c \in BetCalls, BetStep(c)
      PROVE  /\ roundLock'[betRequest'[d].round] = d
             /\ roundState'[betRequest'[d].round] \in Accepting
  <2>1. CASE c = d
    <3>1. CASE LockRound(d)
      <4>1. betRequest[d].round \in Rounds
        BY <1>0, <3>1 DEF LockRound, Move, CallsCarryRequests, BetRequestType
      <4> QED
        BY <3>1, <4>1 DEF LockRound, RoundAcceptsBet, OtherTypeOK
    <3>2. CASE HoldsRound(d) /\ UNCHANGED <<roundLock, betRequest>>
      BY <1>2, <1>d, <2>1, <3>2, BetStepEffects
    <3> QED
      BY <1>2, <2>1, <3>1, <3>2, BetPhases
  <2>2. CASE c # d
    <3>1. LedgerShape(c) /\ c \in Calls
      BY <1>0, <1>2, BetShapes DEF OtherTypeOK
    <3>2. HoldsRound(d)
      BY <1>0, <2>2, <3>1, ShapeFrame DEF HoldsRound
    <3>3. betRequest'[d] = betRequest[d]
      BY <1>2, <2>2, BetRequestStep DEF RequestTypeOK, OtherTypeOK
    <3> QED
      BY <1>0, <1>2, <1>d, <2>2, <3>2, <3>3, BetStepEffects DEF Free, OtherTypeOK
  <2> QED
    BY <2>1, <2>2
<1>3. CASE RoundStep
  BY <1>0, <1>3, <1>d
  DEF RoundStep, Tick, OpenRound, LockIfDeadlinePassed, HoldsRound, ledgerVars, OtherTypeOK,
      Accepting
<1>4. CASE UNCHANGED vars
  BY <1>4, <1>d DEF vars, ledgerVars, betVars, HoldsRound
<1> QED
  BY <1>1, <1>2, <1>3, <1>4, ApplyShapes, AdjustShapes DEF Next, OtherTypeOK

-----------------------------------------------------------------------------
(* The inductive invariant and the theorems                                *)

IInv ==
  /\ TypeOK
  /\ CallsCarryRequests
  /\ TokensAreCurrent
  /\ RoundHeldOpen
  /\ LedgerIsChain

\* The ledger's types and the others together are TypeOK.
LEMMA TypeParts ==
  TypeOK <=> LedgerTypeOK /\ RequestTypeOK /\ OtherTypeOK
  BY DEF TypeOK, LedgerTypeOK, RequestTypeOK, OtherTypeOK

\* The same in the next state.
LEMMA TypePartsPrimed ==
  TypeOK' <=> LedgerTypeOK' /\ RequestTypeOK' /\ OtherTypeOK'
  BY DEF TypeOK, LedgerTypeOK, RequestTypeOK, OtherTypeOK

\* The strengthened invariant holds at the start.
LEMMA InitIInv == Init => IInv
<1> SUFFICES ASSUME Init PROVE IInv
  OBVIOUS
<1> USE DEF Init, LedgerInit, BetInit, AdminInit
<1>1. TypeOK
  <2>1. \A u \in Users : Opening[u] # 0 => OpeningRow(u) \in LedgerRows
    BY LedgerAssumption
    DEF OpeningRow, LedgerRows, Mutations, Directions, RefTypes, RefIds, LedgerKeys
  <2>2. ledger \in [Users -> Seq(LedgerRows)]
    BY <2>1
  <2>3. balance \in [Users -> Nat] /\ version \in [Users -> Nat]
    BY LedgerAssumption
  <2>4. /\ accountLock \in [Users -> Maybe(Calls, NoCall)]
        /\ pc \in [Calls -> Phases]
        /\ params \in [Calls -> Maybe(Mutations, NoMutation)]
        /\ token \in [Calls -> [before: Nat, after: Nat]]
        /\ outcome \in [Calls -> Outcomes]
    BY PlainAnswers DEF Maybe, Phases, NoToken
  <2>5. RequestTypeOK /\ OtherTypeOK
    BY BetAssumption DEF RequestTypeOK, OtherTypeOK, Maybe, RoundStates
  <2> QED
    BY <2>2, <2>3, <2>4, <2>5, TypeParts DEF LedgerTypeOK
<1>2. CallsCarryRequests
  BY BetAssumption, AdminAssumption DEF CallsCarryRequests
<1>3. TokensAreCurrent
  BY DEF TokensAreCurrent, HoldsAccount
<1>4. RoundHeldOpen
  BY BetAssumption DEF RoundHeldOpen, HoldsRound
<1>5. LedgerIsChain
  <2> SUFFICES ASSUME NEW u \in Users
               PROVE  /\ \A i \in DOMAIN ledger[u] :
                           /\ ledger[u][i].mutation.user = u
                           /\ Applied(ledger[u][i])
                           /\ ledger[u][i].before = IF i = 1 THEN 0 ELSE ledger[u][i - 1].after
                      /\ balance[u] = IF ledger[u] = <<>> THEN 0
                                      ELSE ledger[u][Len(ledger[u])].after
                      /\ version[u] = Len(ledger[u])
    BY DEF LedgerIsChain
  <2>1. CASE Opening[u] = 0
    BY <2>1
  <2>2. CASE Opening[u] # 0
    <3>1. ledger[u] = <<OpeningRow(u)>> /\ balance[u] = Opening[u] /\ version[u] = 1
      BY <2>2
    <3>2. Opening[u] \in Nat
      BY LedgerAssumption
    <3>3. Applied(OpeningRow(u)) /\ OpeningRow(u).mutation.user = u
          /\ OpeningRow(u).before = 0 /\ OpeningRow(u).after = Opening[u]
      BY <3>2 DEF Applied, OpeningRow
    <3> HIDE DEF Init, LedgerInit, BetInit, AdminInit
    <3>4. /\ Len(ledger[u]) = 1 /\ DOMAIN ledger[u] = {1} /\ ledger[u][1] = OpeningRow(u)
          /\ ledger[u] # <<>>
      BY <3>1
    <3> QED
      BY <3>1, <3>3, <3>4
  <2> QED
    BY <2>1, <2>2
<1> QED
  BY <1>1, <1>2, <1>3, <1>4, <1>5 DEF IInv

\* Every step keeps the strengthened invariant.
LEMMA StepIInv == IInv /\ [Next]_vars => IInv'
<1> SUFFICES ASSUME IInv, [Next]_vars PROVE IInv'
  OBVIOUS
<1>1. /\ LedgerTypeOK /\ RequestTypeOK /\ OtherTypeOK
      /\ bets \in SUBSET Bets
      /\ CallsCarryRequests /\ TokensAreCurrent /\ RoundHeldOpen /\ LedgerIsChain
  BY TypeParts DEF IInv, OtherTypeOK
<1>2. ParamsOK
  BY <1>1 DEF ParamsOK, CallsCarryRequests
<1>3. UNCHANGED ledgerVars \/ \E c \in Calls : LedgerShape(c)
  BY <1>1, LedgerShapes
<1>4. LedgerTypeOK'
  BY <1>1, <1>2, <1>3, ShapesKeepTypes
<1>5. TokensAreCurrent'
  BY <1>1, <1>2, <1>3, ShapesKeepTokens
<1>6. LedgerIsChain'
  BY <1>1, <1>2, <1>3, ShapesKeepChain
<1>7. RequestTypeOK' /\ CallsCarryRequests'
  BY <1>1, RequestsKept
<1>8. OtherTypeOK'
  BY <1>1, OthersKept
<1>9. RoundHeldOpen'
  BY <1>1, RoundKept
<1> QED
  BY <1>4, <1>5, <1>6, <1>7, <1>8, <1>9, TypePartsPrimed DEF IInv

\* The strengthening that the theorems below rest on holds in every state.
THEOREM Invariance == Spec => []IInv
<1>1. Init => IInv
  BY InitIInv
<1>2. IInv /\ [Next]_vars => IInv'
  BY StepIInv
<1> QED
  BY <1>1, <1>2, PTL DEF Spec

\* Type correctness of the three services and the tables they share.
THEOREM TypeCorrect == Spec => []TypeOK
<1>1. IInv => TypeOK
  BY DEF IInv
<1> QED
  BY <1>1, Invariance, PTL

\* For any number of concurrent bets, adjustments and mutations of any
\* amounts, each account's ledger is an unbroken chain that ends in its
\* balance: no update is lost and no points are spent twice.
THEOREM ChainCorrect == Spec => []LedgerIsChain
<1>1. IInv => LedgerIsChain
  BY DEF IInv
<1> QED
  BY <1>1, Invariance, PTL

\* The balance a transaction read under its lock is current until it ends.
THEOREM TokensCorrect == Spec => []TokensAreCurrent
<1>1. IInv => TokensAreCurrent
  BY DEF IInv
<1> QED
  BY <1>1, Invariance, PTL

\* No bet ever becomes visible in a round that does not accept bets, however
\* its transaction interleaves with the engine's lock of the round.
THEOREM RoundSerialises == Spec => NoBetInClosedRound
<1>1. IInv /\ [Next]_vars =>
        [\A b \in bets' \ bets : roundState[b.round] \in Accepting
                                /\ roundState'[b.round] \in Accepting]_vars
  <2> SUFFICES ASSUME IInv, Next, NEW b \in bets' \ bets
               PROVE  roundState[b.round] \in Accepting /\ roundState'[b.round] \in Accepting
    OBVIOUS
  <2>1. PICK c \in BetCalls : BetStep(c)
    BY AdjustStepEffects
    DEF Next, RoundStep, Tick, OpenRound, LockIfDeadlinePassed, betVars
  <2>2. pc[c] = "commit" /\ b = BetRow(c) /\ roundState' = roundState
    BY <2>1, BetStepEffects
  <2>3. b.round = betRequest[c].round
    BY <2>2 DEF BetRow
  <2> QED
    BY <2>2, <2>3 DEF IInv, RoundHeldOpen, HoldsRound
<1> QED
  BY <1>1, Invariance, PTL DEF Spec, NoBetInClosedRound

-----------------------------------------------------------------------------
(***************************************************************************)
(* The ledger, the bets, the admin logs and the answers tell one story,    *)
(* and the service implements AtomicPoints.                                *)
(*                                                                         *)
(* Both rest on a description of the committed tables by the calls that    *)
(* wrote them: the rows of a finished call are those its request fixed     *)
(* when it came in, and a key is never taken twice.  The tables change     *)
(* only when a transaction commits, so each part of that description is    *)
(* proved once for the steps that leave the tables alone and once for a    *)
(* commit of each of the three services.                                   *)
(***************************************************************************)

(* The strengthening                                                       *)

\* A standalone mutation is one of the requests that may be made.
ApplyCallsCarryRequests ==
  \A c \in ApplyCalls : pc[c] # "idle" => params[c] \in ApplyRequests

\* Ids name the calls that wrote the rows, so no id is used twice.
BetsAreOfCalls == \A b \in bets : pc[b.id] = "done" /\ b = BetRow(b.id)

LogsAreOfCalls == \A log \in adminLogs : pc[log.id] = "done" /\ log = AdminLogRow(log.id)

\* A row that refers to a call is that call's mutation, committed together
\* with the bet or the log that justifies it.
RowsAreOfCalls ==
  \A row \in Rows :
    LET c == row.mutation.refId IN
    c # NoCall =>
      /\ c \in BetCalls \cup AdjustCalls
      /\ row.mutation = params[c]
      /\ c \in BetCalls => BetRow(c) \in bets
      /\ c \in AdjustCalls => AdminLogRow(c) \in adminLogs

HasRow(c) == \E row \in Rows : row.mutation = params[c]

BetsHaveRows == \A b \in bets : HasRow(b.id)
LogsHaveRows == \A log \in adminLogs : HasRow(log.id)

\* One row of the whole system per key.
RowsOncePerKey ==
  \A u, v \in Users : \A i \in DOMAIN ledger[u], j \in DOMAIN ledger[v] :
    ledger[u][i].mutation.key = ledger[v][j].mutation.key => u = v /\ i = j

\* The unique index on the ledger's keys: what is inserted and not yet
\* committed has a key that no row and no other open transaction has.
PendingKeysAreFree ==
  \A c \in Calls : pc[c] = "commit" =>
    /\ RowsWithKey(params[c].key) = {}
    /\ \A d \in Calls \ {c} : pc[d] = "commit" => params[d].key # params[c].key

BetsOncePerKey ==
  \A b1, b2 \in bets : b1.user = b2.user /\ b1.key = b2.key => b1 = b2

\* The same for the bets' keys, which the account lock serialises.
InsertedBetsAreNew ==
  \A c \in BetCalls : pc[c] \in {"write", "commit"} => BetsWithKey(c) = {}

\* Who lost a race lost it to a committed row.
RacesHaveWinners ==
  /\ \A c \in BetCalls : pc[c] = "race" => BetsWithKey(c) # {}
  /\ \A c \in ApplyCalls \cup AdjustCalls : pc[c] = "race" => RowsWithKey(params[c].key) # {}

\* No call has answered before it is done.
AnswersComeLast == \A c \in Calls : pc[c] # "done" => outcome[c] = Answer("none")

RecordsInv ==
  /\ ApplyCallsCarryRequests
  /\ BetsAreOfCalls
  /\ LogsAreOfCalls
  /\ RowsAreOfCalls
  /\ BetsHaveRows
  /\ LogsHaveRows
  /\ RowsOncePerKey
  /\ PendingKeysAreFree
  /\ BetsOncePerKey
  /\ InsertedBetsAreNew
  /\ RacesHaveWinners

AnswersInv ==
  /\ AnswersComeLast
  /\ RacesResolve
  /\ BetAnswersAreTrue
  /\ AdjustAnswersAreTrue

-----------------------------------------------------------------------------
(* What a step does to the calls and to the committed tables               *)

\* The three services' calls are different calls, and all of them are calls.
LEMMA CallKinds ==
  /\ BetCalls \subseteq Calls /\ AdjustCalls \subseteq Calls /\ ApplyCalls \subseteq Calls
  /\ BetCalls \cap AdjustCalls = {} /\ BetCalls \cap ApplyCalls = {}
  /\ AdjustCalls \cap ApplyCalls = {}
  /\ NoCall \notin Calls
  BY LedgerAssumption, BetAssumption, AdminAssumption, ApiAssumption

\* The parts of the proved invariant, by name.
LEMMA Parts ==
  ASSUME IInv
  PROVE  /\ LedgerTypeOK /\ RequestTypeOK /\ OtherTypeOK /\ ParamsOK
         /\ bets \in SUBSET Bets /\ adminLogs \in SUBSET AdminLogs
         /\ CallsCarryRequests /\ TokensAreCurrent /\ LedgerIsChain
  BY TypeParts DEF IInv, OtherTypeOK, ParamsOK, CallsCarryRequests

\* A call that has ended takes no further step.
LEMMA OnlyActiveCallsStep ==
  ASSUME NEW c, \/ ApplyStep(c)
                \/ BetStep(c)
                \/ AdjustStep(c)
  PROVE  pc[c] # "done"
<1> USE DEF Move, LockAccount, RejectInsufficient, CommitMutation, CommitMutationRaced,
            CommitTransaction, Fail
<1>1. CASE ApplyStep(c)
  BY <1>1 DEF ApplyStep, ApplySubmit, ApplyProgress, ApplyLookup, ApplyKeyIsNew, ApplyRaced
<1>2. CASE BetSubmit(c) \/ BetFail(c)
  BY <1>2 DEF BetSubmit, BetFail
<1>3. CASE BetProgress(c)
  BY <1>3 DEF BetProgress, BetLookup, BetKeyIsNew, BeginBet, LockRound, RefuseRound,
              BetLockAccount, BetRejectInsufficient, InsertBet, InsertBetRaced,
              BetCommitMutation, CommitBet, BetRaced
<1>4. CASE AdjustStep(c)
  BY <1>4 DEF AdjustStep, AdjustSubmit, AdjustProgress, AdjustLookup, AdjustKeyIsNew,
              AdjustRaced, CreateAdminLog, AdjustLedgerStep, CommitAdjustment
<1> QED
  BY <1>1, <1>2, <1>3, <1>4 DEF BetStep

\* A step of a call answers for that call only.
LEMMA AnswerFrame ==
  ASSUME LedgerTypeOK, NEW c \in Calls, LedgerShape(c)
  PROVE  \A d \in Calls \ {c} : outcome'[d] = outcome[d]
<1> USE DEF LedgerTypeOK
<1>1. CASE Submitted(c) \/ Advanced(c) \/ LockedAccount(c) \/ Raced(c)
  BY <1>1 DEF Submitted, Advanced, LockedAccount, LockAccount, Raced, RollbackToRace
<1>2. CASE Ended(c) \/ CommitTransaction(c)
  BY <1>2 DEF Ended, CommitTransaction, Finish
<1> QED
  BY <1>1, <1>2 DEF LedgerShape

\* The steps of the system: those of one call, and those that leave calls,
\* tables and requests alone.
Idling ==
  UNCHANGED <<ledgerVars, bets, betRequest, adminVars>>

ApplyMoves(c)  == c \in ApplyCalls  /\ ApplyStep(c)  /\ UNCHANGED <<betVars, adminVars>>
BetMoves(c)    == c \in BetCalls    /\ BetStep(c)    /\ UNCHANGED adminVars
AdjustMoves(c) == c \in AdjustCalls /\ AdjustStep(c) /\ UNCHANGED betVars

\* Every step is one of them.
LEMMA StepKinds ==
  ASSUME [Next]_vars
  PROVE  Idling \/ \E c \in Calls : ApplyMoves(c) \/ BetMoves(c) \/ AdjustMoves(c)
<1>1. CASE UNCHANGED vars
  BY <1>1 DEF vars, betVars, Idling
<1>2. CASE RoundStep /\ UNCHANGED adminVars
  BY <1>2 DEF RoundStep, Tick, OpenRound, LockIfDeadlinePassed, Idling
<1> QED
  BY <1>1, <1>2, CallKinds DEF Next, ApplyMoves, BetMoves, AdjustMoves

\* A step of one call is of one of the shapes, and the call has not ended.
LEMMA MovesHaveShapes ==
  ASSUME IInv, NEW c \in Calls, ApplyMoves(c) \/ BetMoves(c) \/ AdjustMoves(c)
  PROVE  LedgerShape(c) /\ pc[c] # "done"
  BY Parts, ApplyShapes, BetShapes, AdjustShapes, OnlyActiveCallsStep
  DEF ApplyMoves, BetMoves, AdjustMoves

\* What a call is to do stays as it came in, and an ended call stays as it is.
LEMMA CallFrame ==
  ASSUME IInv, [Next]_vars, NEW d \in Calls, pc[d] # "idle"
  PROVE  /\ pc'[d] # "idle" /\ params'[d] = params[d]
         /\ d \in BetCalls => betRequest'[d] = betRequest[d]
         /\ d \in AdjustCalls => adjustRequest'[d] = adjustRequest[d]
         /\ pc[d] = "done" => pc'[d] = "done" /\ outcome'[d] = outcome[d]
<1>1. CASE Idling
  BY <1>1 DEF Idling, ledgerVars, adminVars
<1>2. ASSUME NEW c \in Calls, ApplyMoves(c) \/ BetMoves(c) \/ AdjustMoves(c)
      PROVE  /\ pc'[d] # "idle" /\ params'[d] = params[d]
             /\ d \in BetCalls => betRequest'[d] = betRequest[d]
             /\ d \in AdjustCalls => adjustRequest'[d] = adjustRequest[d]
             /\ pc[d] = "done" => pc'[d] = "done" /\ outcome'[d] = outcome[d]
  <2>1. LedgerShape(c) /\ pc[c] # "done"
    BY <1>2, MovesHaveShapes
  <2>2. pc'[d] # "idle" /\ params'[d] = params[d]
    BY <2>1, ShapeFrame, Parts
  <2>3. pc[d] = "done" => pc'[d] = "done" /\ outcome'[d] = outcome[d]
    BY <2>1, ShapeFrame, AnswerFrame, Parts
  <2>4. d \in BetCalls => betRequest'[d] = betRequest[d]
    <3>1. CASE BetMoves(c)
      BY <3>1, BetRequestStep, Parts DEF BetMoves, RequestTypeOK
    <3> QED
      BY <1>2, <3>1 DEF ApplyMoves, AdjustMoves, betVars
  <2>5. d \in AdjustCalls => adjustRequest'[d] = adjustRequest[d]
    <3>1. CASE AdjustMoves(c)
      BY <3>1, AdjustRequestStep, Parts DEF AdjustMoves, RequestTypeOK
    <3> QED
      BY <1>2, <3>1 DEF ApplyMoves, BetMoves, adminVars
  <2> QED
    BY <2>2, <2>3, <2>4, <2>5
<1> QED
  BY <1>1, <1>2, StepKinds

\* The committed tables change in one way only.
Quiet == UNCHANGED <<tables, bets, adminLogs>>

Commits(c) ==
  /\ c \in ApplyCalls \cup BetCalls \cup AdjustCalls
  /\ CommitTransaction(c)
  /\ UNCHANGED <<betRequest, adjustRequest>>
  /\ bets' = IF c \in BetCalls THEN bets \cup {BetRow(c)} ELSE bets
  /\ adminLogs' = IF c \in AdjustCalls THEN adminLogs \cup {AdminLogRow(c)} ELSE adminLogs

\* A standalone mutation leaves the tables alone or commits.
LEMMA ApplyQuietOrCommits ==
  ASSUME NEW c \in Calls, ApplyMoves(c)
  PROVE  Quiet \/ Commits(c)
<1> USE CallKinds DEF ApplyMoves, betVars, adminVars
<1>1. CASE CommitTransaction(c)
  BY <1>1 DEF Commits
<1>2. CASE ~CommitTransaction(c)
  BY <1>2 DEF ApplyStep, ApplySubmit, ApplyProgress, ApplyLookup, ApplyKeyIsNew, ApplyRaced,
              LockAccount, RejectInsufficient, CommitMutation, CommitMutationRaced,
              RollbackToRace, Fail, Quiet
<1> QED
  BY <1>1, <1>2

\* A bet's transaction writes nothing before it commits.
LEMMA BetQuietOrCommits ==
  ASSUME NEW c \in Calls, BetMoves(c)
  PROVE  Quiet \/ Commits(c)
<1> USE CallKinds DEF BetMoves, betVars, adminVars
<1>1. CASE CommitBet(c)
  BY <1>1 DEF CommitBet, Commits, ReleaseRound
<1>2. CASE BetSubmit(c) \/ BetFail(c)
  BY <1>2 DEF BetSubmit, BetFail, Fail, ReleaseRound, Quiet
<1>3. CASE BetProgress(c) /\ ~CommitBet(c)
  BY <1>3 DEF BetProgress, BetLookup, BetKeyIsNew, BeginBet, LockRound, RefuseRound,
              BetLockAccount, BetRejectInsufficient, InsertBet, InsertBetRaced,
              BetCommitMutation, BetRaced, LockAccount, RejectInsufficient, CommitMutation,
              RollbackToRace, Quiet
<1> QED
  BY <1>1, <1>2, <1>3 DEF BetStep

\* Neither does an adjustment's.
LEMMA AdjustQuietOrCommits ==
  ASSUME NEW c \in Calls, AdjustMoves(c)
  PROVE  Quiet \/ Commits(c)
<1> USE CallKinds DEF AdjustMoves, betVars, adminVars
<1>1. CASE CommitAdjustment(c)
  BY <1>1 DEF CommitAdjustment, Commits
<1>2. CASE AdjustSubmit(c) \/ (Fail(c) /\ UNCHANGED adminVars)
  BY <1>2 DEF AdjustSubmit, Fail, Quiet
<1>3. CASE AdjustProgress(c) /\ ~CommitAdjustment(c)
  BY <1>3 DEF AdjustProgress, AdjustLookup, AdjustKeyIsNew, AdjustRaced, CreateAdminLog,
              AdjustLedgerStep, LockAccount, RejectInsufficient, CommitMutation,
              CommitMutationRaced, RollbackToRace, Quiet
<1> QED
  BY <1>1, <1>2, <1>3 DEF AdjustStep

\* So every step of the system leaves the tables alone or is one commit.
LEMMA QuietOrCommits ==
  ASSUME [Next]_vars
  PROVE  Quiet \/ \E c \in Calls : Commits(c)
  BY StepKinds, ApplyQuietOrCommits, BetQuietOrCommits, AdjustQuietOrCommits
  DEF Idling, ledgerVars, tables, Quiet, adminVars

\* A call reaches its commit only over the unique index of the ledger's keys.
LEMMA CommitPhaseEntry ==
  ASSUME IInv, [Next]_vars, NEW d \in Calls, pc'[d] = "commit"
  PROVE  pc[d] = "commit" \/ CommitMutation(d)
<1>1. CASE Idling
  BY <1>1 DEF Idling, ledgerVars
<1>2. ASSUME NEW c \in Calls, ApplyMoves(c) \/ BetMoves(c) \/ AdjustMoves(c)
      PROVE  pc[d] = "commit" \/ CommitMutation(d)
  <2>1. CASE c # d
    BY <1>2, <2>1, MovesHaveShapes, ShapeFrame, Parts
  <2>2. CASE c = d
    <3> USE Parts DEF Move, Finish, LedgerTypeOK
    <3> SUFFICES ASSUME ~CommitMutation(d)
                 PROVE  pc'[d] # "commit"
      BY <2>2
    <3>1. CASE ApplyMoves(d)
      BY <3>1 DEF ApplyMoves, ApplyStep, ApplySubmit, ApplyProgress, ApplyLookup,
                  ApplyKeyIsNew, ApplyRaced, LockAccount, RejectInsufficient,
                  CommitMutationRaced, RollbackToRace, CommitTransaction, Fail
    <3>2. CASE BetMoves(d)
      BY <3>2 DEF BetMoves, BetStep, BetSubmit, BetFail, Fail, BetProgress, BetLookup,
                  BetKeyIsNew, BeginBet, LockRound, RefuseRound, BetLockAccount,
                  BetRejectInsufficient, InsertBet, InsertBetRaced, BetCommitMutation,
                  CommitBet, BetRaced, LockAccount, RejectInsufficient, RollbackToRace,
                  CommitTransaction
    <3>3. CASE AdjustMoves(d)
      BY <3>3 DEF AdjustMoves, AdjustStep, AdjustSubmit, AdjustProgress, AdjustLookup,
                  AdjustKeyIsNew, AdjustRaced, CreateAdminLog, AdjustLedgerStep,
                  CommitAdjustment, LockAccount, RejectInsufficient, CommitMutationRaced,
                  RollbackToRace, CommitTransaction, Fail
    <3> QED
      BY <1>2, <2>2, <3>1, <3>2, <3>3
  <2> QED
    BY <2>1, <2>2
<1> QED
  BY <1>1, <1>2, StepKinds

\* A bet writes its debit only after the unique index of the bets let it in.
LEMMA BetWriteEntry ==
  ASSUME IInv, [Next]_vars, NEW d \in BetCalls, pc'[d] \in {"write", "commit"}
  PROVE  pc[d] \in {"write", "commit"} \/ (BetsWithKey(d) = {} /\ pc[d] # "idle")
<1> USE CallKinds
<1>1. CASE Idling
  BY <1>1 DEF Idling, ledgerVars
<1>2. ASSUME NEW c \in Calls, ApplyMoves(c) \/ BetMoves(c) \/ AdjustMoves(c)
      PROVE  pc[d] \in {"write", "commit"} \/ (BetsWithKey(d) = {} /\ pc[d] # "idle")
  <2>1. CASE c # d
    BY <1>2, <2>1, MovesHaveShapes, ShapeFrame, Parts
  <2>2. CASE c = d
    <3> USE Parts DEF Move, Finish, LedgerTypeOK
    <3>1. BetMoves(d)
      BY <1>2, <2>2 DEF ApplyMoves, AdjustMoves
    <3>2. CASE InsertBet(d) \/ BetCommitMutation(d)
      BY <3>2 DEF InsertBet, BetCommitMutation, CommitMutation
    <3>3. CASE ~InsertBet(d) /\ ~BetCommitMutation(d)
      BY <3>1, <3>3
      DEF BetMoves, BetStep, BetSubmit, BetFail, Fail, BetProgress, BetLookup,
          BetKeyIsNew, BeginBet, LockRound, RefuseRound, BetLockAccount,
          BetRejectInsufficient, InsertBetRaced, CommitBet, BetRaced, LockAccount,
          RejectInsufficient, RollbackToRace, CommitTransaction
    <3> QED
      BY <3>2, <3>3
  <2> QED
    BY <2>1, <2>2
<1> QED
  BY <1>1, <1>2, StepKinds

\* A call looks its key up again only after a unique index found it taken.
LEMMA RaceEntry ==
  ASSUME IInv, [Next]_vars, NEW d \in Calls, pc'[d] = "race"
  PROVE  \/ pc[d] = "race"
         \/ d \in BetCalls /\ pc[d] # "idle" /\ BetsWithKey(d) # {}
         \/ d \notin BetCalls /\ pc[d] # "idle" /\ RowsWithKey(params[d].key) # {}
<1> USE CallKinds
<1>1. CASE Idling
  BY <1>1 DEF Idling, ledgerVars
<1>2. ASSUME NEW c \in Calls, ApplyMoves(c) \/ BetMoves(c) \/ AdjustMoves(c)
      PROVE  \/ pc[d] = "race"
             \/ d \in BetCalls /\ pc[d] # "idle" /\ BetsWithKey(d) # {}
             \/ d \notin BetCalls /\ pc[d] # "idle" /\ RowsWithKey(params[d].key) # {}
  <2>1. CASE c # d
    BY <1>2, <2>1, MovesHaveShapes, ShapeFrame, Parts
  <2>2. CASE c = d
    <3> USE Parts DEF Move, Finish, LedgerTypeOK
    <3>1. CASE ApplyMoves(d)
      <4>1. CASE CommitMutationRaced(d)
        BY <3>1, <4>1 DEF ApplyMoves, CommitMutationRaced
      <4>2. CASE ~CommitMutationRaced(d)
        BY <3>1, <4>2
        DEF ApplyMoves, ApplyStep, ApplySubmit, ApplyProgress, ApplyLookup,
            ApplyKeyIsNew, ApplyRaced, LockAccount, RejectInsufficient, CommitMutation,
            CommitTransaction, Fail
      <4> QED
        BY <4>1, <4>2
    <3>2. CASE BetMoves(d)
      <4>1. CASE InsertBetRaced(d)
        BY <3>2, <4>1 DEF BetMoves, InsertBetRaced
      <4>2. CASE ~InsertBetRaced(d)
        BY <3>2, <4>2
        DEF BetMoves, BetStep, BetSubmit, BetFail, Fail, BetProgress, BetLookup,
            BetKeyIsNew, BeginBet, LockRound, RefuseRound, BetLockAccount,
            BetRejectInsufficient, InsertBet, BetCommitMutation, CommitMutation,
            CommitBet, BetRaced, LockAccount, RejectInsufficient, CommitTransaction
      <4> QED
        BY <4>1, <4>2
    <3>3. CASE AdjustMoves(d)
      <4>1. CASE CommitMutationRaced(d)
        BY <3>3, <4>1 DEF AdjustMoves, CommitMutationRaced
      <4>2. CASE ~CommitMutationRaced(d)
        BY <3>3, <4>2
        DEF AdjustMoves, AdjustStep, AdjustSubmit, AdjustProgress, AdjustLookup,
            AdjustKeyIsNew, AdjustRaced, CreateAdminLog, AdjustLedgerStep,
            CommitAdjustment, LockAccount, RejectInsufficient, CommitMutation,
            CommitTransaction, Fail
      <4> QED
        BY <4>1, <4>2
    <3> QED
      BY <1>2, <2>2, <3>1, <3>2, <3>3
  <2> QED
    BY <2>1, <2>2
<1> QED
  BY <1>1, <1>2, StepKinds

-----------------------------------------------------------------------------
(* What a commit adds                                                      *)

\* The row that the transaction of call c commits.
NewRowOf(c) ==
  [mutation |-> params[c], before |-> token[c].before, after |-> token[c].after]

\* Appending to a sequence adds one element to those it has.
LEMMA AppendedElements ==
  ASSUME NEW S, NEW s \in Seq(S), NEW e \in S
  PROVE  /\ Len(Append(s, e)) = Len(s) + 1
         /\ Append(s, e)[Len(s) + 1] = e
         /\ \A i \in DOMAIN s : Append(s, e)[i] = s[i]
         /\ DOMAIN s = 1 .. Len(s) /\ Len(s) \in Nat
         /\ DOMAIN Append(s, e) = DOMAIN s \cup {Len(s) + 1}
  OBVIOUS

\* A commit adds its row to its account, takes it from the balance its token
\* holds, and ends the call; whose row it is and what it says was fixed when
\* the call came in.
LEMMA CommitEffects ==
  ASSUME IInv, NEW c \in Calls, Commits(c)
  PROVE  /\ pc[c] = "commit" /\ pc' = [pc EXCEPT ![c] = "done"] /\ params' = params
         /\ params[c] \in Mutations /\ NewRowOf(c) \in LedgerRows
         /\ params[c].user \in Users
         /\ NewRowOf(c).before = balance[params[c].user]
         /\ NewRowOf(c).after = BalanceAfter(params[c])
         /\ ledger' = [ledger EXCEPT ![params[c].user] = Append(@, NewRowOf(c))]
         /\ balance' = [balance EXCEPT ![params[c].user] = NewRowOf(c).after]
         /\ version' = [version EXCEPT ![params[c].user] = @ + 1]
         /\ outcome' = [outcome EXCEPT ![c] =
                          [status |-> "ok", id |-> params[c].refId, balance |-> token[c].after]]
            \/ outcome' = [outcome EXCEPT ![c] = Answer("failed")]
<1>1. CommitTransaction(c)
  BY DEF Commits
<1>2. pc[c] = "commit" /\ pc' = [pc EXCEPT ![c] = "done"] /\ params' = params
  BY <1>1 DEF CommitTransaction, Finish
<1>3. params[c] \in Mutations /\ params[c].user \in Users
  BY <1>2, Parts DEF ParamsOK, Mutations
<1>4. token[c] \in [before: Nat, after: Nat]
  BY Parts DEF LedgerTypeOK
<1>5. NewRowOf(c) \in LedgerRows
  BY <1>3, <1>4 DEF NewRowOf, LedgerRows
<1>6. token[c].before = balance[params[c].user] /\ token[c].after = BalanceAfter(params[c])
  BY <1>2, Parts DEF TokensAreCurrent, HoldsAccount
<1> QED
  BY <1>1, <1>2, <1>3, <1>5, <1>6 DEF CommitTransaction, Finish, NewRowOf

\* After a commit the ledger has the rows it had and the new one.
LEMMA CommitRows ==
  ASSUME IInv, NEW c \in Calls, Commits(c)
  PROVE  /\ Rows' = Rows \cup {NewRowOf(c)}
         /\ \A u \in Users \ {params[c].user} : ledger'[u] = ledger[u]
         /\ ledger'[params[c].user] = Append(ledger[params[c].user], NewRowOf(c))
         /\ RowsOf(params[c].user)' = RowsOf(params[c].user) \cup {NewRowOf(c)}
<1> DEFINE u == params[c].user
           row == NewRowOf(c)
<1>1. u \in Users /\ row \in LedgerRows /\ ledger' = [ledger EXCEPT ![u] = Append(@, row)]
      /\ params' = params
  BY CommitEffects
<1>2. ledger \in [Users -> Seq(LedgerRows)]
  BY Parts DEF LedgerTypeOK
<1> HIDE DEF u, row
<1>3. /\ \A v \in Users \ {u} : ledger'[v] = ledger[v]
      /\ ledger'[u] = Append(ledger[u], row)
  BY <1>1, <1>2
<1>4. \A v \in Users \ {u} : RowsOf(v)' = RowsOf(v)
  BY <1>3 DEF RowsOf
<1>5. {Append(ledger[u], row)[i] : i \in DOMAIN Append(ledger[u], row)}
        = {ledger[u][i] : i \in DOMAIN ledger[u]} \cup {row}
  <2>1. ledger[u] \in Seq(LedgerRows)
    BY <1>1, <1>2
  <2>2. /\ Append(ledger[u], row)[Len(ledger[u]) + 1] = row
        /\ \A i \in DOMAIN ledger[u] : Append(ledger[u], row)[i] = ledger[u][i]
        /\ DOMAIN Append(ledger[u], row) = DOMAIN ledger[u] \cup {Len(ledger[u]) + 1}
    BY <1>1, <2>1, AppendedElements
  <2> QED
    BY <2>2
<1>6. {ledger'[u][i] : i \in DOMAIN ledger'[u]} = RowsOf(u) \cup {row}
  BY <1>3, <1>5 DEF RowsOf
<1>7. Rows' = Rows \cup {row}
  <2>1. Rows' = UNION {{ledger'[v][i] : i \in DOMAIN ledger'[v]} : v \in Users}
    BY DEF Rows, RowsOf
  <2>2. \A v \in Users \ {u} : {ledger'[v][i] : i \in DOMAIN ledger'[v]} = RowsOf(v)
    BY <1>3 DEF RowsOf
  <2>3. ASSUME NEW x
        PROVE  x \in Rows' <=> x \in Rows \/ x = row
    <3> DEFINE New(v) == {ledger'[v][i] : i \in DOMAIN ledger'[v]}
    <3>1. x \in Rows' <=> \E v \in Users : x \in New(v)
      BY <2>1
    <3>2. x \in Rows <=> \E v \in Users : x \in RowsOf(v)
      BY DEF Rows
    <3>3. New(u) = RowsOf(u) \cup {row} /\ \A v \in Users \ {u} : New(v) = RowsOf(v)
      BY <1>6, <2>2
    <3> HIDE DEF New
    <3> QED
      BY <1>1, <3>1, <3>2, <3>3
  <2> QED
    BY <2>3
<1>8. RowsOf(params[c].user)' = {ledger'[u][i] : i \in DOMAIN ledger'[u]}
  BY <1>1 DEF RowsOf, u
<1> QED
  BY <1>1, <1>3, <1>6, <1>7, <1>8 DEF u, row

\* Rows, bets and logs are only ever added.
LEMMA TablesGrow ==
  ASSUME IInv, [Next]_vars
  PROVE  Rows \subseteq Rows' /\ bets \subseteq bets' /\ adminLogs \subseteq adminLogs'
<1>1. CASE Quiet
  BY <1>1 DEF Quiet, tables, Rows, RowsOf
<1>2. CASE \E c \in Calls : Commits(c)
  BY <1>2, CommitRows DEF Commits
<1> QED
  BY <1>1, <1>2, QuietOrCommits

\* Every row lies in the ledger of the account it names.
LEMMA RowsInTheirLedger ==
  ASSUME IInv, NEW row \in Rows
  PROVE  row.mutation.user \in Users /\ row \in RowsOf(row.mutation.user)
<1>1. PICK u \in Users : row \in RowsOf(u)
  BY DEF Rows
<1>2. PICK i \in DOMAIN ledger[u] : row = ledger[u][i]
  BY <1>1 DEF RowsOf
<1>3. row.mutation.user = u
  BY <1>2, Parts DEF LedgerIsChain
<1> QED
  BY <1>1, <1>3

-----------------------------------------------------------------------------
(* Every step keeps the description of the tables                          *)

\* What a call would write is fixed once it has come in.
LEMMA RecordsFixed ==
  ASSUME IInv, [Next]_vars, NEW d \in Calls, pc[d] # "idle"
  PROVE  /\ d \in BetCalls => BetRow(d)' = BetRow(d)
         /\ d \in AdjustCalls => AdminLogRow(d)' = AdminLogRow(d)
  BY CallFrame DEF BetRow, AdminLogRow

\* A standalone mutation carries one of its requests.
LEMMA ApplyCarriesKept ==
  ASSUME IInv, ApplyCallsCarryRequests, [Next]_vars
  PROVE  ApplyCallsCarryRequests'
<1> SUFFICES ASSUME NEW d \in ApplyCalls, pc'[d] # "idle"
             PROVE  params'[d] \in ApplyRequests
  BY DEF ApplyCallsCarryRequests
<1>1. CASE pc[d] # "idle"
  BY <1>1, CallKinds, CallFrame DEF ApplyCallsCarryRequests
<1>2. CASE pc[d] = "idle"
  <2>1. PICK c \in Calls : ApplyMoves(c) \/ BetMoves(c) \/ AdjustMoves(c)
    BY <1>2, StepKinds DEF Idling, ledgerVars
  <2>2. c = d
    BY <1>2, <2>1, CallKinds, MovesHaveShapes, ShapeFrame, Parts
  <2>3. ApplyStep(d)
    BY <2>1, <2>2, CallKinds DEF ApplyMoves, BetMoves, AdjustMoves
  <2>4. ApplySubmit(d)
    BY <1>2, <2>3
    DEF ApplyStep, ApplyProgress, ApplyLookup, ApplyKeyIsNew, ApplyRaced, LockAccount,
        RejectInsufficient, CommitMutation, CommitMutationRaced, CommitTransaction, Fail, Move
  <2> QED
    BY <2>4, CallKinds, Parts DEF ApplySubmit, LedgerTypeOK
<1> QED
  BY <1>1, <1>2

\* Bets and logs stay the records of the calls that wrote them.
LEMMA RecordsKept ==
  ASSUME IInv, BetsAreOfCalls, LogsAreOfCalls, [Next]_vars
  PROVE  BetsAreOfCalls' /\ LogsAreOfCalls'
<1>1. \A b \in bets : pc'[b.id] = "done" /\ b = BetRow(b.id)'
  <2> SUFFICES ASSUME NEW b \in bets PROVE pc'[b.id] = "done" /\ b = BetRow(b.id)'
    OBVIOUS
  <2>1. b.id \in BetCalls /\ b.id \in Calls
    BY Parts, CallKinds DEF Bets
  <2>2. pc[b.id] = "done" /\ b = BetRow(b.id)
    BY DEF BetsAreOfCalls
  <2> QED
    BY <2>1, <2>2, CallFrame, RecordsFixed
<1>2. \A log \in adminLogs : pc'[log.id] = "done" /\ log = AdminLogRow(log.id)'
  <2> SUFFICES ASSUME NEW log \in adminLogs
               PROVE  pc'[log.id] = "done" /\ log = AdminLogRow(log.id)'
    OBVIOUS
  <2>1. log.id \in AdjustCalls /\ log.id \in Calls
    BY Parts, CallKinds DEF AdminLogs
  <2>2. pc[log.id] = "done" /\ log = AdminLogRow(log.id)
    BY DEF LogsAreOfCalls
  <2> QED
    BY <2>1, <2>2, CallFrame, RecordsFixed
<1>3. CASE Quiet
  BY <1>1, <1>2, <1>3 DEF Quiet, BetsAreOfCalls, LogsAreOfCalls
<1>4. ASSUME NEW c \in Calls, Commits(c)
      PROVE  BetsAreOfCalls' /\ LogsAreOfCalls'
  <2>1. pc[c] = "commit" /\ pc'[c] = "done"
    BY <1>4, CommitEffects, Parts DEF LedgerTypeOK
  <2>2. c \in BetCalls => BetRow(c)' = BetRow(c) /\ BetRow(c).id = c
    BY <2>1, RecordsFixed DEF BetRow
  <2>3. c \in AdjustCalls => AdminLogRow(c)' = AdminLogRow(c) /\ AdminLogRow(c).id = c
    BY <2>1, RecordsFixed DEF AdminLogRow
  <2>4. BetsAreOfCalls'
    <3> SUFFICES ASSUME NEW b \in bets', b \notin bets
                 PROVE  pc'[b.id] = "done" /\ b = BetRow(b.id)'
      BY <1>1 DEF BetsAreOfCalls
    <3>1. c \in BetCalls /\ b = BetRow(c)
      BY <1>4 DEF Commits
    <3> QED
      BY <2>1, <2>2, <3>1
  <2>5. LogsAreOfCalls'
    <3> SUFFICES ASSUME NEW log \in adminLogs', log \notin adminLogs
                 PROVE  pc'[log.id] = "done" /\ log = AdminLogRow(log.id)'
      BY <1>2 DEF LogsAreOfCalls
    <3>1. c \in AdjustCalls /\ log = AdminLogRow(c)
      BY <1>4 DEF Commits
    <3> QED
      BY <2>1, <2>3, <3>1
  <2> QED
    BY <2>4, <2>5
<1> QED
  BY <1>3, <1>4, QuietOrCommits

\* Who a call's mutation refers to: bets and adjustments to themselves.
LEMMA WhoRowsName ==
  ASSUME IInv, ApplyCallsCarryRequests, NEW c \in Calls, pc[c] # "idle"
  PROVE  /\ c \in BetCalls => params[c] = BetDebit(c, betRequest[c]) /\ params[c].refId = c
         /\ c \in AdjustCalls =>
              params[c] = Adjustment(c, adjustRequest[c]) /\ params[c].refId = c
         /\ c \in ApplyCalls => params[c].refId = NoCall
<1>1. c \in BetCalls => params[c] = BetDebit(c, betRequest[c])
  BY Parts DEF CallsCarryRequests
<1>2. c \in AdjustCalls => params[c] = Adjustment(c, adjustRequest[c])
  BY Parts DEF CallsCarryRequests
<1> QED
  BY <1>1, <1>2, LedgerAssumption DEF BetDebit, Adjustment, ApplyCallsCarryRequests

\* Rows stay the mutations of the calls they name.
LEMMA RowsKept ==
  ASSUME IInv, ApplyCallsCarryRequests, BetsAreOfCalls, LogsAreOfCalls, RowsAreOfCalls,
         [Next]_vars
  PROVE  RowsAreOfCalls'
<1>1. ASSUME NEW row \in Rows, row.mutation.refId # NoCall
      PROVE  LET c == row.mutation.refId IN
             /\ c \in BetCalls \cup AdjustCalls
             /\ row.mutation = params'[c]
             /\ c \in BetCalls => BetRow(c)' \in bets'
             /\ c \in AdjustCalls => AdminLogRow(c)' \in adminLogs'
  <2> DEFINE c == row.mutation.refId
  <2>1. /\ c \in BetCalls \cup AdjustCalls
        /\ row.mutation = params[c]
        /\ c \in BetCalls => BetRow(c) \in bets
        /\ c \in AdjustCalls => AdminLogRow(c) \in adminLogs
    BY <1>1 DEF RowsAreOfCalls
  <2>2. pc[c] = "done" /\ c \in Calls
    BY <2>1, CallKinds DEF BetsAreOfCalls, LogsAreOfCalls, BetRow, AdminLogRow
  <2> HIDE DEF c
  <2>3. /\ params'[c] = params[c]
        /\ c \in BetCalls => BetRow(c)' = BetRow(c)
        /\ c \in AdjustCalls => AdminLogRow(c)' = AdminLogRow(c)
    BY <2>2, CallFrame, RecordsFixed
  <2> QED
    BY <2>1, <2>3, TablesGrow DEF c
<1>2. CASE Quiet
  <2>1. Rows' = Rows
    BY <1>2 DEF Quiet, tables, Rows, RowsOf
  <2> QED
    BY <1>1, <2>1 DEF RowsAreOfCalls
<1>3. ASSUME NEW c \in Calls, Commits(c)
      PROVE  RowsAreOfCalls'
  <2>1. Rows' = Rows \cup {NewRowOf(c)}
    BY <1>3, CommitRows
  <2>2. pc[c] = "commit" /\ params' = params /\ NewRowOf(c).mutation = params[c]
    BY <1>3, CommitEffects DEF NewRowOf
  <2>3. CASE c \in ApplyCalls
    <3>1. NewRowOf(c).mutation.refId = NoCall
      BY <2>2, <2>3, WhoRowsName
    <3> QED
      BY <1>1, <2>1, <3>1 DEF RowsAreOfCalls
  <2>4. CASE c \in BetCalls \cup AdjustCalls
    <3>1. NewRowOf(c).mutation.refId = c
      BY <2>2, <2>4, WhoRowsName
    <3>2. /\ c \in BetCalls => BetRow(c)' \in bets'
          /\ c \in AdjustCalls => AdminLogRow(c)' \in adminLogs'
      BY <1>3, <2>2, RecordsFixed DEF Commits
    <3>3. ASSUME NEW row \in Rows', row.mutation.refId # NoCall
          PROVE  LET d == row.mutation.refId IN
                 /\ d \in BetCalls \cup AdjustCalls
                 /\ row.mutation = params'[d]
                 /\ d \in BetCalls => BetRow(d)' \in bets'
                 /\ d \in AdjustCalls => AdminLogRow(d)' \in adminLogs'
      <4>1. CASE row \in Rows
        BY <1>1, <3>3, <4>1
      <4>2. CASE row = NewRowOf(c)
        BY <2>2, <2>4, <3>1, <3>2, <4>2
      <4> QED
        BY <2>1, <4>1, <4>2
    <3> QED
      BY <3>3 DEF RowsAreOfCalls
  <2> QED
    BY <1>3, <2>3, <2>4 DEF Commits
<1> QED
  BY <1>2, <1>3, QuietOrCommits

\* Bets and logs keep their rows, and a new one comes with its own.
LEMMA RowsOfRecordsKept ==
  ASSUME IInv, BetsAreOfCalls, LogsAreOfCalls, BetsHaveRows, LogsHaveRows, [Next]_vars
  PROVE  BetsHaveRows' /\ LogsHaveRows'
<1>1. ASSUME NEW d \in Calls, pc[d] # "idle", HasRow(d)
      PROVE  HasRow(d)'
  BY <1>1, CallFrame, TablesGrow DEF HasRow
<1>2. \A b \in bets : HasRow(b.id)'
  BY <1>1, Parts, CallKinds DEF BetsHaveRows, BetsAreOfCalls, Bets
<1>3. \A log \in adminLogs : HasRow(log.id)'
  BY <1>1, Parts, CallKinds DEF LogsHaveRows, LogsAreOfCalls, AdminLogs
<1>4. CASE Quiet
  BY <1>2, <1>3, <1>4 DEF Quiet, BetsHaveRows, LogsHaveRows
<1>5. ASSUME NEW c \in Calls, Commits(c)
      PROVE  BetsHaveRows' /\ LogsHaveRows'
  <2>1. HasRow(c)'
    <3>1. NewRowOf(c) \in Rows' /\ NewRowOf(c).mutation = params[c] /\ params' = params
      BY <1>5, CommitRows, CommitEffects DEF NewRowOf
    <3> HIDE DEF Commits
    <3> QED
      BY <3>1 DEF HasRow
  <2>2. \A b \in bets' : b \in bets \/ b.id = c
    BY <1>5 DEF Commits, BetRow
  <2>3. \A log \in adminLogs' : log \in adminLogs \/ log.id = c
    BY <1>5 DEF Commits, AdminLogRow
  <2> QED
    BY <1>2, <1>3, <2>1, <2>2, <2>3 DEF BetsHaveRows, LogsHaveRows
<1> QED
  BY <1>4, <1>5, QuietOrCommits

\* A commit adds a row under a key that no row has.
LEMMA KeysKept ==
  ASSUME IInv, RowsOncePerKey, PendingKeysAreFree, [Next]_vars
  PROVE  RowsOncePerKey'
<1>1. CASE Quiet
  BY <1>1 DEF Quiet, tables, RowsOncePerKey
<1>2. ASSUME NEW c \in Calls, Commits(c)
      PROVE  RowsOncePerKey'
  <2> DEFINE w == params[c].user
             row == NewRowOf(c)
  <2>1. /\ w \in Users /\ row \in LedgerRows /\ ledger[w] \in Seq(LedgerRows)
        /\ row.mutation = params[c] /\ pc[c] = "commit"
    BY <1>2, CommitEffects, Parts DEF NewRowOf, LedgerTypeOK
  <2>2. /\ \A u \in Users \ {w} : ledger'[u] = ledger[u]
        /\ ledger'[w] = Append(ledger[w], row)
    BY <1>2, CommitRows
  <2>3. \A u \in Users : \A i \in DOMAIN ledger[u] : ledger[u][i].mutation.key # params[c].key
    BY <2>1 DEF PendingKeysAreFree, RowsWithKey, Rows, RowsOf
  <2> HIDE DEF w, row
  <2>4. ASSUME NEW u \in Users, NEW i \in DOMAIN ledger'[u]
        PROVE  \/ i \in DOMAIN ledger[u] /\ ledger'[u][i] = ledger[u][i]
               \/ u = w /\ i = Len(ledger[w]) + 1 /\ ledger'[u][i] = row
    <3>1. CASE u # w
      BY <2>2, <3>1
    <3>2. CASE u = w
      BY <2>1, <2>2, <3>2, AppendedElements
    <3> QED
      BY <3>1, <3>2
  <2>5. SUFFICES ASSUME NEW u \in Users, NEW v \in Users,
                        NEW i \in DOMAIN ledger'[u], NEW j \in DOMAIN ledger'[v],
                        ledger'[u][i].mutation.key = ledger'[v][j].mutation.key
                 PROVE  u = v /\ i = j
    BY DEF RowsOncePerKey
  <2>6. /\ \/ i \in DOMAIN ledger[u] /\ ledger'[u][i] = ledger[u][i]
           \/ u = w /\ i = Len(ledger[w]) + 1 /\ ledger'[u][i] = row
        /\ \/ j \in DOMAIN ledger[v] /\ ledger'[v][j] = ledger[v][j]
           \/ v = w /\ j = Len(ledger[w]) + 1 /\ ledger'[v][j] = row
    BY <2>4
  <2> QED
    BY <2>1, <2>3, <2>5, <2>6 DEF RowsOncePerKey
<1> QED
  BY <1>1, <1>2, QuietOrCommits

\* A key that a call has inserted stays its own until it commits.
LEMMA PendingKept ==
  ASSUME IInv, PendingKeysAreFree, [Next]_vars
  PROVE  PendingKeysAreFree'
<1> USE DEF PendingKeysAreFree
<1>1. ASSUME NEW c \in Calls, Commits(c)
      PROVE  PendingKeysAreFree'
  <2>1. /\ pc[c] = "commit" /\ params' = params
        /\ \A d \in Calls : pc'[d] = "commit" => pc[d] = "commit" /\ d # c
    BY <1>1, CommitEffects, Parts DEF LedgerTypeOK
  <2>2. Rows' = Rows \cup {NewRowOf(c)} /\ NewRowOf(c).mutation = params[c]
    BY <1>1, CommitRows DEF NewRowOf
  <2>3. ASSUME NEW d \in Calls, pc'[d] = "commit"
        PROVE  RowsWithKey(params[d].key)' = {}
    <3>1. RowsWithKey(params[d].key) = {} /\ params[d].key # params[c].key
      BY <2>1, <2>3
    <3>2. RowsWithKey(params[d].key)' = {row \in Rows' : row.mutation.key = params[d].key}
      BY <2>1 DEF RowsWithKey
    <3> QED
      BY <2>2, <3>1, <3>2 DEF RowsWithKey
  <2> QED
    BY <2>1, <2>3
<1>2. CASE Quiet
  <2>1. Rows' = Rows
    BY <1>2 DEF Quiet, tables, Rows, RowsOf
  <2>2. ASSUME NEW d \in Calls, pc'[d] = "commit"
        PROVE  /\ params'[d] = params[d]
               /\ RowsWithKey(params[d].key) = {}
               /\ pc[d] = "commit" \/ CommitMutation(d)
    <3>1. pc[d] = "commit" \/ CommitMutation(d)
      BY <2>2, CommitPhaseEntry
    <3>2. pc[d] # "idle"
      BY <3>1 DEF CommitMutation
    <3> QED
      BY <3>1, <3>2, CallFrame DEF CommitMutation
  <2>3. ASSUME NEW d \in Calls, NEW e \in Calls \ {d}, pc'[d] = "commit", pc'[e] = "commit"
        PROVE  params[d].key # params[e].key
    <3>1. CASE pc[d] = "commit" /\ pc[e] = "commit"
      BY <3>1
    <3>2. CASE CommitMutation(d)
      <4>1. pc[e] = "commit"
        BY <2>3, <3>2, Parts DEF CommitMutation, LedgerTypeOK
      <4> QED
        BY <3>2, <4>1 DEF CommitMutation, KeyPending
    <3>3. CASE CommitMutation(e)
      <4>1. pc[d] = "commit"
        BY <2>3, <3>3, Parts DEF CommitMutation, LedgerTypeOK
      <4> QED
        BY <3>3, <4>1 DEF CommitMutation, KeyPending
    <3> QED
      BY <2>2, <2>3, <3>1, <3>2, <3>3
  <2>4. \A d \in Calls : pc'[d] = "commit" => RowsWithKey(params[d].key)' = {}
    BY <2>1, <2>2 DEF RowsWithKey
  <2> QED
    BY <2>2, <2>3, <2>4
<1> QED
  BY <1>1, <1>2, QuietOrCommits

\* Of two bets that write at the same time, only one can hold the account of
\* a player, so a bet's key stays new to its player until it commits.
LEMMA InsertedKept ==
  ASSUME IInv, BetsOncePerKey, InsertedBetsAreNew, [Next]_vars
  PROVE  BetsOncePerKey' /\ InsertedBetsAreNew'
<1>1. ASSUME NEW d \in BetCalls, pc'[d] \in {"write", "commit"}
      PROVE  /\ BetsWithKey(d) = {} /\ betRequest'[d] = betRequest[d]
             /\ d \in Calls /\ pc[d] # "idle"
  BY <1>1, BetWriteEntry, CallKinds, CallFrame DEF InsertedBetsAreNew
<1>2. CASE UNCHANGED bets
  <2>1. BetsOncePerKey'
    BY <1>2 DEF BetsOncePerKey
  <2>2. InsertedBetsAreNew'
    BY <1>1, <1>2 DEF InsertedBetsAreNew, BetsWithKey
  <2> QED
    BY <2>1, <2>2
<1>3. ASSUME NEW c \in Calls, Commits(c), c \in BetCalls
      PROVE  BetsOncePerKey' /\ InsertedBetsAreNew'
  <2>1. /\ pc[c] = "commit" /\ bets' = bets \cup {BetRow(c)}
        /\ \A d \in Calls : pc'[d] = IF d = c THEN "done" ELSE pc[d]
    <3>1. pc[c] = "commit" /\ pc' = [pc EXCEPT ![c] = "done"]
      BY <1>3, CommitEffects
    <3>2. pc \in [Calls -> Phases]
      BY Parts DEF LedgerTypeOK
    <3>3. bets' = bets \cup {BetRow(c)}
      BY <1>3 DEF Commits
    <3>4. \A d \in Calls : pc'[d] = IF d = c THEN "done" ELSE pc[d]
      BY <3>1, <3>2
    <3> QED BY <3>1, <3>3, <3>4
  <2>2. /\ BetRow(c).user = betRequest[c].user /\ BetRow(c).key = betRequest[c].key
        /\ BetsWithKey(c) = {}
    BY <1>3, <2>1 DEF BetRow, InsertedBetsAreNew
  <2>3. BetsOncePerKey'
    BY <2>1, <2>2 DEF BetsOncePerKey, BetsWithKey
  <2>4. ASSUME NEW d \in BetCalls, pc'[d] \in {"write", "commit"}
        PROVE  BetsWithKey(d)' = {}
    <3>1. d # c /\ pc[d] \in {"write", "commit"} /\ d \in Calls
      BY <1>1, <2>1, <2>4
    <3>2. accountLock[params[d].user] = d /\ accountLock[params[c].user] = c
      BY <2>1, <3>1, Parts DEF TokensAreCurrent, HoldsAccount
    <3>3. params[d].user = betRequest[d].user /\ params[c].user = betRequest[c].user
      <4>1. /\ params[d] = BetDebit(d, betRequest[d])
            /\ params[c] = BetDebit(c, betRequest[c])
        BY <1>3, <2>1, <3>1, Parts DEF CallsCarryRequests
      <4> QED
        BY <4>1 DEF BetDebit
    <3>4. betRequest[d].user # BetRow(c).user
      BY <2>2, <3>1, <3>2, <3>3
    <3> QED
      BY <1>1, <2>1, <2>4, <3>4 DEF BetsWithKey
  <2> QED
    BY <2>3, <2>4 DEF InsertedBetsAreNew
<1> QED
  BY <1>2, <1>3, QuietOrCommits DEF Quiet, Commits

\* A winner is never lost again.
LEMMA WinnersKept ==
  ASSUME IInv, RacesHaveWinners, [Next]_vars
  PROVE  RacesHaveWinners'
<1>1. ASSUME NEW d \in BetCalls, pc'[d] = "race"
      PROVE  BetsWithKey(d)' # {}
  <2>1. BetsWithKey(d) # {} /\ pc[d] # "idle" /\ d \in Calls
    BY <1>1, RaceEntry, CallKinds DEF RacesHaveWinners
  <2>2. betRequest'[d] = betRequest[d]
    BY <2>1, CallFrame
  <2> QED
    BY <2>1, <2>2, TablesGrow DEF BetsWithKey
<1>2. ASSUME NEW d \in ApplyCalls \cup AdjustCalls, pc'[d] = "race"
      PROVE  RowsWithKey(params[d].key)' # {}
  <2>1. RowsWithKey(params[d].key) # {} /\ pc[d] # "idle" /\ d \in Calls
    BY <1>2, RaceEntry, CallKinds DEF RacesHaveWinners
  <2>2. params'[d] = params[d]
    BY <2>1, CallFrame
  <2> QED
    BY <2>1, <2>2, TablesGrow DEF RowsWithKey
<1> QED
  BY <1>1, <1>2 DEF RacesHaveWinners

\* The description of the tables is an invariant: it holds at the start,
LEMMA InitRecords == Init => RecordsInv
<1> SUFFICES ASSUME Init PROVE RecordsInv
  OBVIOUS
<1> USE CallKinds DEF Init, LedgerInit, BetInit, AdminInit
<1>1. \A u \in Users : \A i \in DOMAIN ledger[u] :
        i = 1 /\ ledger[u][i] = OpeningRow(u)
  OBVIOUS
<1>2. \A row \in Rows : row.mutation.refId = NoCall
  <2> SUFFICES ASSUME NEW row \in Rows PROVE row.mutation.refId = NoCall
    OBVIOUS
  <2>1. PICK u \in Users : row \in RowsOf(u)
    BY DEF Rows
  <2>2. row = OpeningRow(u)
    BY <1>1, <2>1 DEF RowsOf
  <2> QED
    BY <2>2 DEF OpeningRow
<1>3. RowsOncePerKey
  BY <1>1 DEF RowsOncePerKey, OpeningRow
<1>4. bets = {} /\ adminLogs = {} /\ \A c \in Calls : pc[c] = "idle"
  OBVIOUS
<1> HIDE DEF Init, LedgerInit, BetInit, AdminInit
<1>5. ApplyCallsCarryRequests /\ BetsAreOfCalls /\ LogsAreOfCalls /\ RowsAreOfCalls
  BY <1>2, <1>4 DEF ApplyCallsCarryRequests, BetsAreOfCalls, LogsAreOfCalls, RowsAreOfCalls
<1>6. BetsHaveRows /\ LogsHaveRows /\ PendingKeysAreFree /\ BetsOncePerKey
  BY <1>4 DEF BetsHaveRows, LogsHaveRows, PendingKeysAreFree, BetsOncePerKey
<1>7. InsertedBetsAreNew /\ RacesHaveWinners
  BY <1>4 DEF InsertedBetsAreNew, RacesHaveWinners
<1> QED
  BY <1>3, <1>5, <1>6, <1>7 DEF RecordsInv

\* and every step keeps it.
LEMMA StepRecords == IInv /\ RecordsInv /\ [Next]_vars => RecordsInv'
  BY ApplyCarriesKept, RecordsKept, RowsKept, RowsOfRecordsKept, KeysKept, PendingKept,
     InsertedKept, WinnersKept
  DEF RecordsInv

-----------------------------------------------------------------------------
(* What the calls answer                                                   *)

Negative == {Answer("conflict"), Answer("refused"), Answer("insufficient"), Answer("failed")}

\* Looking for a bet that is there finds an answer.
LEMMA BetReplaysExist ==
  ASSUME NEW c, BetsWithKey(c) # {}
  PROVE  BetReplays(c) # {}
<1>1. PICK b \in BetsWithKey(c) : TRUE
  OBVIOUS
<1>2. OriginalBalances(b) # {}
  BY DEF OriginalBalances
<1>3. BetReplay(b, c) # {}
  BY <1>2 DEF BetReplay
<1> QED
  BY <1>1, <1>3 DEF BetReplays

\* A call that lost a race answers as one that found the winner at once.
LEMMA RacesFindWinners ==
  ASSUME RacesHaveWinners, NEW c \in Calls, pc[c] = "race"
  PROVE  /\ c \in BetCalls => RaceAnswers(BetReplays(c)) = BetReplays(c)
         /\ c \in ApplyCalls => RaceAnswers(ApplyReplays(c)) = ApplyReplays(c)
         /\ c \in AdjustCalls => RaceAnswers(AdjustReplays(c)) = AdjustReplays(c)
<1>1. c \in BetCalls => BetReplays(c) # {}
  BY BetReplaysExist DEF RacesHaveWinners
<1>2. c \in ApplyCalls => ApplyReplays(c) # {}
  BY DEF RacesHaveWinners, ApplyReplays
<1>3. c \in AdjustCalls => AdjustReplays(c) # {}
  BY DEF RacesHaveWinners, AdjustReplays
<1> QED
  BY <1>1, <1>2, <1>3 DEF RaceAnswers

\* The answers a call may end with, apart from that of its own commit.
Replays(c) ==
  IF c \in BetCalls THEN BetReplays(c)
  ELSE IF c \in AdjustCalls THEN AdjustReplays(c) ELSE ApplyReplays(c)

EndsWith(c, S) ==
  /\ pc[c] # "idle"
  /\ pc' = [pc EXCEPT ![c] = "done"]
  /\ \E answer \in S : outcome' = [outcome EXCEPT ![c] = answer]
  /\ Quiet

\* A standalone mutation ends with a replay, a refusal or its commit.
LEMMA ApplyAnswers ==
  ASSUME IInv, RacesHaveWinners, NEW c \in Calls, ApplyMoves(c)
  PROVE  outcome' = outcome \/ EndsWith(c, Replays(c) \cup Negative) \/ Commits(c)
<1> USE CallKinds DEF ApplyMoves
<1>1. CASE ApplyLookup(c) \/ ApplyRaced(c)
  <2>1. PICK answer \in ApplyReplays(c) : Finish(c, answer)
    BY <1>1, RacesFindWinners DEF ApplyLookup, ApplyRaced
  <2> QED
    BY <1>1, <2>1
    DEF ApplyLookup, ApplyRaced, EndsWith, Replays, Finish, Quiet, betVars, adminVars
<1>2. CASE RejectInsufficient(c) \/ Fail(c)
  BY <1>2 DEF RejectInsufficient, Fail, EndsWith, Negative, Finish, Quiet, betVars, adminVars
<1>3. CASE CommitTransaction(c)
  BY <1>3 DEF Commits, betVars, adminVars
<1> QED
  BY <1>1, <1>2, <1>3
  DEF ApplyStep, ApplySubmit, ApplyProgress, ApplyKeyIsNew, LockAccount, CommitMutation,
      CommitMutationRaced, RollbackToRace

\* So does a bet.
LEMMA BetAnswers ==
  ASSUME IInv, RacesHaveWinners, NEW c \in Calls, BetMoves(c)
  PROVE  outcome' = outcome \/ EndsWith(c, Replays(c) \cup Negative) \/ Commits(c)
<1> USE CallKinds DEF BetMoves
<1>1. CASE BetLookup(c) \/ BetRaced(c)
  <2>1. PICK answer \in BetReplays(c) : Finish(c, answer)
    BY <1>1, RacesFindWinners DEF BetLookup, BetRaced
  <2> QED
    BY <1>1, <2>1
    DEF BetLookup, BetRaced, EndsWith, Replays, Finish, Quiet, betVars, adminVars
<1>2. CASE RefuseRound(c) \/ BetRejectInsufficient(c) \/ BetFail(c)
  BY <1>2 DEF RefuseRound, BetRejectInsufficient, RejectInsufficient, BetFail, Fail,
              EndsWith, Negative, Finish, Quiet, betVars, adminVars
<1>3. CASE CommitBet(c)
  BY <1>3 DEF CommitBet, ReleaseRound, Commits, adminVars
<1>4. CASE BetSubmit(c)
  BY <1>4 DEF BetSubmit
<1>5. CASE \/ BetKeyIsNew(c) \/ BeginBet(c) \/ LockRound(c) \/ BetLockAccount(c)
           \/ InsertBet(c) \/ InsertBetRaced(c) \/ BetCommitMutation(c)
  BY <1>5 DEF BetKeyIsNew, BeginBet, LockRound, BetLockAccount, LockAccount, InsertBet,
              InsertBetRaced, RollbackToRace, BetCommitMutation, CommitMutation
<1> QED
  BY <1>1, <1>2, <1>3, <1>4, <1>5 DEF BetStep, BetProgress

\* So does an adjustment.
LEMMA AdjustAnswers ==
  ASSUME IInv, RacesHaveWinners, NEW c \in Calls, AdjustMoves(c)
  PROVE  outcome' = outcome \/ EndsWith(c, Replays(c) \cup Negative) \/ Commits(c)
<1> USE CallKinds DEF AdjustMoves
<1>1. CASE AdjustLookup(c) \/ AdjustRaced(c)
  <2>1. PICK answer \in AdjustReplays(c) : Finish(c, answer)
    BY <1>1, RacesFindWinners DEF AdjustLookup, AdjustRaced
  <2> QED
    BY <1>1, <2>1
    DEF AdjustLookup, AdjustRaced, EndsWith, Replays, Finish, Quiet, betVars, adminVars
<1>2. CASE (RejectInsufficient(c) \/ Fail(c)) /\ UNCHANGED adminVars
  BY <1>2 DEF RejectInsufficient, Fail, EndsWith, Negative, Finish, Quiet, betVars, adminVars
<1>3. CASE CommitAdjustment(c)
  BY <1>3 DEF CommitAdjustment, Commits, betVars
<1> QED
  BY <1>1, <1>2, <1>3
  DEF AdjustStep, AdjustSubmit, AdjustProgress, AdjustKeyIsNew, CreateAdminLog,
      AdjustLedgerStep, LockAccount, CommitMutation, CommitMutationRaced, RollbackToRace

\* What a step does to the answer of any one call.
LEMMA AnswerSteps ==
  ASSUME IInv, RacesHaveWinners, [Next]_vars, NEW d \in Calls
  PROVE  \/ outcome'[d] = outcome[d] /\ (pc'[d] # "done" => pc[d] # "done")
         \/ EndsWith(d, Replays(d) \cup Negative)
         \/ Commits(d)
<1>1. CASE Idling
  BY <1>1 DEF Idling, ledgerVars
<1>2. ASSUME NEW c \in Calls, ApplyMoves(c) \/ BetMoves(c) \/ AdjustMoves(c)
      PROVE  \/ outcome'[d] = outcome[d] /\ (pc'[d] # "done" => pc[d] # "done")
             \/ EndsWith(d, Replays(d) \cup Negative)
             \/ Commits(d)
  <2>1. CASE c # d
    BY <1>2, <2>1, MovesHaveShapes, ShapeFrame, AnswerFrame, Parts
  <2>2. CASE c = d
    BY <1>2, <2>2, ApplyAnswers, BetAnswers, AdjustAnswers, MovesHaveShapes
  <2> QED
    BY <2>1, <2>2
<1> QED
  BY <1>1, <1>2, StepKinds

\* A race is never left without an answer, and answers come last.
LEMMA AnswersResolve ==
  ASSUME IInv, RacesHaveWinners, AnswersComeLast, RacesResolve, [Next]_vars
  PROVE  AnswersComeLast' /\ RacesResolve'
<1> SUFFICES ASSUME NEW d \in Calls
             PROVE  /\ pc'[d] # "done" => outcome'[d] = Answer("none")
                    /\ outcome'[d].status # "unresolved"
  BY DEF AnswersComeLast, RacesResolve, Answer
<1> USE Parts DEF LedgerTypeOK
<1>1. CASE outcome'[d] = outcome[d] /\ (pc'[d] # "done" => pc[d] # "done")
  BY <1>1 DEF AnswersComeLast, RacesResolve
<1>2. CASE EndsWith(d, Replays(d) \cup Negative)
  <2>1. \A answer \in Negative : answer.status # "unresolved"
    BY DEF Negative, Answer
  <2>2. \A answer \in Replays(d) : answer.status # "unresolved"
    BY DEF Replays, BetReplays, BetReplay, AdjustReplays, AdjustReplay, ApplyReplays,
           ApplyReplay, Answer
  <2> QED
    BY <1>2, <2>1, <2>2 DEF EndsWith
<1>3. CASE Commits(d)
  <2>1. /\ pc'[d] = "done"
        /\ outcome'[d] \in {[status |-> "ok", id |-> params[d].refId, balance |-> token[d].after],
                            Answer("failed")}
    BY <1>3, CommitEffects
  <2> QED
    BY <2>1 DEF Answer
<1> QED
  BY <1>1, <1>2, <1>3, AnswerSteps

\* What a positive answer to a bet claims.
BetAnswerTrue(c, answer) ==
  \E b \in bets :
    /\ b.id = answer.id
    /\ b.user = betRequest[c].user /\ b.key = betRequest[c].key
    /\ b.round = betRequest[c].round /\ b.items = betRequest[c].items
    /\ \E row \in DebitsOf(b) : row.after = answer.balance

\* What a positive answer to an adjustment claims.
AdjustAnswerTrue(c, answer) ==
  \E row \in RowsWithKey(params[c].key) :
    /\ row.mutation.refId = answer.id
    /\ row.after = answer.balance
    /\ [AdminLogRow(c) EXCEPT !.id = answer.id] \in adminLogs

\* The row that names a bet's call is the bet's debit.
LEMMA RowOfBet ==
  ASSUME IInv, RecordsInv, NEW b \in bets, NEW row \in Rows, row.mutation.refId = b.id
  PROVE  row \in DebitsOf(b)
<1>1. b.id \in BetCalls /\ b.id \in Calls /\ b.id # NoCall
  BY Parts, CallKinds DEF Bets
<1>2. pc[b.id] = "done" /\ b = BetRow(b.id)
  BY DEF RecordsInv, BetsAreOfCalls
<1>3. row.mutation = params[b.id]
  BY <1>1 DEF RecordsInv, RowsAreOfCalls
<1>4. params[b.id] = BetDebit(b.id, betRequest[b.id])
  BY <1>1, <1>2, Parts DEF CallsCarryRequests
<1>5. BetDebit(b.id, b) = BetDebit(b.id, betRequest[b.id]) /\ b.user = betRequest[b.id].user
  BY <1>2 DEF BetRow, BetDebit
<1>6. row.mutation.user = b.user
  BY <1>3, <1>4, <1>5 DEF BetDebit
<1> QED
  BY <1>3, <1>4, <1>5, <1>6, RowsInTheirLedger DEF DebitsOf

\* Every bet has such a row.
LEMMA BetHasDebit ==
  ASSUME IInv, RecordsInv, NEW b \in bets
  PROVE  \E row \in Rows : row.mutation.refId = b.id /\ row.mutation.refType = "bet_placed"
<1>1. b.id \in BetCalls /\ b.id \in Calls /\ pc[b.id] = "done"
  BY Parts, CallKinds DEF Bets, RecordsInv, BetsAreOfCalls
<1>2. PICK row \in Rows : row.mutation = params[b.id]
  BY DEF RecordsInv, BetsHaveRows, HasRow
<1>3. params[b.id] = BetDebit(b.id, betRequest[b.id])
  BY <1>1, Parts DEF CallsCarryRequests
<1> QED
  BY <1>2, <1>3 DEF BetDebit

\* The answer a bet call is given for a bet that is there is true.
LEMMA BetReplaysTrue ==
  ASSUME IInv, RecordsInv, NEW c \in BetCalls, NEW answer \in BetReplays(c),
         answer.status \in {"ok", "replayed"}
  PROVE  BetAnswerTrue(c, answer)
<1>1. PICK b \in BetsWithKey(c) : answer \in BetReplay(b, c)
  BY DEF BetReplays
<1>2. b \in bets /\ b.user = betRequest[c].user /\ b.key = betRequest[c].key
  BY DEF BetsWithKey
<1>3. PICK n \in OriginalBalances(b) :
        answer = [status |-> "replayed", id |-> b.id, balance |-> n]
  BY <1>1 DEF BetReplay, Answer
<1>4. SameBet(b, c)
  BY <1>1 DEF BetReplay, Answer
<1>5. PICK row \in Rows : row.mutation.refId = b.id /\ row.after = n
  BY <1>2, BetHasDebit DEF OriginalBalances
<1>6. row \in DebitsOf(b)
  BY <1>2, <1>5, RowOfBet
<1> QED
  BY <1>2, <1>3, <1>4, <1>5, <1>6 DEF BetAnswerTrue, SameBet

\* The answer an adjustment is given for a row that is there is true.
LEMMA AdjustReplaysTrue ==
  ASSUME IInv, RecordsInv, NEW c \in AdjustCalls, pc[c] # "idle",
         NEW answer \in AdjustReplays(c), answer.status \in {"ok", "replayed"}
  PROVE  AdjustAnswerTrue(c, answer)
<1>1. PICK row \in RowsWithKey(params[c].key) : answer = AdjustReplay(row, c)
  BY DEF AdjustReplays
<1>2. /\ SameAdjustment(row, c)
      /\ answer = [status |-> "replayed", id |-> row.mutation.refId, balance |-> row.after]
  BY <1>1 DEF AdjustReplay, Answer
<1>3. PICK log \in adminLogs : /\ log.id = row.mutation.refId
                               /\ log.reason = adjustRequest[c].reason
                               /\ log.admin = adjustRequest[c].admin
  BY <1>2 DEF SameAdjustment
<1> DEFINE d == log.id
<1>4. d \in AdjustCalls /\ d \in Calls /\ d # NoCall
  BY Parts, CallKinds DEF AdminLogs
<1>5. pc[d] = "done" /\ log = AdminLogRow(d)
  BY DEF RecordsInv, LogsAreOfCalls
<1>6. row.mutation = params[d]
  BY <1>1, <1>3, <1>4 DEF RecordsInv, RowsAreOfCalls, RowsWithKey
<1>7. /\ params[d] = Adjustment(d, adjustRequest[d])
      /\ params[c] = Adjustment(c, adjustRequest[c])
  BY <1>4, <1>5, Parts DEF CallsCarryRequests
<1>8. /\ adjustRequest[d].user = adjustRequest[c].user
      /\ adjustRequest[d].direction = adjustRequest[c].direction
      /\ adjustRequest[d].amount = adjustRequest[c].amount
  BY <1>2, <1>6, <1>7 DEF SameAdjustment, Adjustment
<1>9. log = [AdminLogRow(c) EXCEPT !.id = d]
  BY <1>3, <1>5, <1>8 DEF AdminLogRow
<1> QED
  BY <1>1, <1>2, <1>3, <1>9 DEF AdjustAnswerTrue

\* No row of an account is ever taken back.
LEMMA AccountRowsGrow ==
  ASSUME IInv, [Next]_vars, NEW u \in Users
  PROVE  RowsOf(u) \subseteq RowsOf(u)'
<1>1. CASE Quiet
  BY <1>1 DEF Quiet, tables, RowsOf
<1>2. ASSUME NEW d \in Calls, Commits(d)
      PROVE  RowsOf(u) \subseteq RowsOf(u)'
  <2>1. CASE u # params[d].user
    BY <1>2, <2>1, CommitRows DEF RowsOf
  <2>2. CASE u = params[d].user
    <3>1. /\ ledger'[u] = Append(ledger[u], NewRowOf(d))
          /\ ledger[u] \in Seq(LedgerRows) /\ NewRowOf(d) \in LedgerRows
      BY <1>2, <2>2, CommitRows, CommitEffects, Parts DEF LedgerTypeOK
    <3> QED
      BY <3>1, AppendedElements DEF RowsOf
  <2> QED
    BY <2>1, <2>2
<1> QED
  BY <1>1, <1>2, QuietOrCommits

\* So a true answer to a bet stays true,
LEMMA BetTruthKept ==
  ASSUME IInv, [Next]_vars, NEW c \in BetCalls, pc[c] # "idle",
         NEW answer, BetAnswerTrue(c, answer)
  PROVE  \E b \in bets' :
           /\ b.id = answer.id
           /\ b.user = betRequest'[c].user /\ b.key = betRequest'[c].key
           /\ b.round = betRequest'[c].round /\ b.items = betRequest'[c].items
           /\ \E row \in DebitsOf(b)' : row.after = answer.balance
<1>1. PICK b \in bets :
        /\ b.id = answer.id
        /\ b.user = betRequest[c].user /\ b.key = betRequest[c].key
        /\ b.round = betRequest[c].round /\ b.items = betRequest[c].items
        /\ \E row \in DebitsOf(b) : row.after = answer.balance
  BY DEF BetAnswerTrue
<1>2. b.user \in Users /\ b \in bets' /\ betRequest'[c] = betRequest[c]
  BY Parts, TablesGrow, CallFrame, CallKinds DEF Bets
<1>3. DebitsOf(b) \subseteq DebitsOf(b)'
  BY <1>2, AccountRowsGrow DEF DebitsOf
<1> QED
  BY <1>1, <1>2, <1>3

\* and so does one to an adjustment.
LEMMA AdjustTruthKept ==
  ASSUME IInv, [Next]_vars, NEW c \in AdjustCalls, pc[c] # "idle",
         NEW answer, AdjustAnswerTrue(c, answer)
  PROVE  \E row \in RowsWithKey(params[c].key)' :
           /\ row.mutation.refId = answer.id
           /\ row.after = answer.balance
           /\ [AdminLogRow(c)' EXCEPT !.id = answer.id] \in adminLogs'
<1>1. params'[c] = params[c] /\ AdminLogRow(c)' = AdminLogRow(c)
  BY CallKinds, CallFrame, RecordsFixed
<1>2. RowsWithKey(params[c].key) \subseteq RowsWithKey(params[c].key)'
  BY <1>1, TablesGrow DEF RowsWithKey
<1> QED
  BY <1>1, <1>2, TablesGrow DEF AdjustAnswerTrue

\* A commit that is answered is answered with what it committed.
LEMMA PositiveCommit ==
  ASSUME IInv, NEW c \in Calls, Commits(c), outcome'[c].status \in {"ok", "replayed"}
  PROVE  /\ pc[c] = "commit"
         /\ outcome'[c] = [status |-> "ok", id |-> params[c].refId, balance |-> token[c].after]
<1>1. /\ pc[c] = "commit"
      /\ \/ outcome' = [outcome EXCEPT ![c] =
                           [status |-> "ok", id |-> params[c].refId, balance |-> token[c].after]]
         \/ outcome' = [outcome EXCEPT ![c] = Answer("failed")]
  BY CommitEffects
<1>2. outcome \in [Calls -> Outcomes]
  BY Parts DEF LedgerTypeOK
<1>3. Answer("failed").status = "failed"
  BY DEF Answer
<1> QED
  BY <1>1, <1>2, <1>3

\* A commit's own answer names the bet it made and the balance it left.
LEMMA BetCommitTrue ==
  ASSUME IInv, RecordsInv, [Next]_vars, NEW c \in BetCalls, Commits(c),
         outcome'[c].status \in {"ok", "replayed"}
  PROVE  \E b \in bets' :
           /\ b.id = outcome'[c].id
           /\ b.user = betRequest'[c].user /\ b.key = betRequest'[c].key
           /\ b.round = betRequest'[c].round /\ b.items = betRequest'[c].items
           /\ \E row \in DebitsOf(b)' : row.after = outcome'[c].balance
<1>1. c \in Calls
  BY CallKinds
<1>2. /\ pc[c] = "commit"
      /\ outcome'[c] = [status |-> "ok", id |-> params[c].refId, balance |-> token[c].after]
  BY <1>1, PositiveCommit
<1>3. params[c] = BetDebit(c, betRequest[c]) /\ betRequest' = betRequest
  BY <1>1, <1>2, Parts DEF CallsCarryRequests, Commits
<1>4. BetRow(c) \in bets' /\ BetDebit(c, BetRow(c)) = BetDebit(c, betRequest[c])
      /\ BetRow(c).id = c /\ BetRow(c).user = params[c].user
  BY <1>3 DEF Commits, BetRow, BetDebit
<1>5. NewRowOf(c) \in RowsOf(params[c].user)' /\ params' = params
  BY <1>1, CommitRows, CommitEffects
<1>6. RowsOf(params[c].user)' = RowsOf(BetRow(c).user)'
  BY <1>3, <1>4, <1>5 DEF RowsOf, BetRow
<1>7. NewRowOf(c) \in {row \in RowsOf(BetRow(c).user)' :
                          row.mutation = BetDebit(BetRow(c).id, BetRow(c))}
  BY <1>3, <1>4, <1>5, <1>6 DEF NewRowOf
<1>8. NewRowOf(c) \in DebitsOf(BetRow(c))' /\ BetRow(c)' = BetRow(c)
  BY <1>3, <1>7 DEF DebitsOf, BetRow, BetDebit
<1>9. outcome'[c].id = c /\ NewRowOf(c).after = outcome'[c].balance
  BY <1>2, <1>3 DEF NewRowOf, BetDebit
<1> QED
  BY <1>3, <1>4, <1>8, <1>9 DEF BetRow

\* So does an adjustment's.
LEMMA AdjustCommitTrue ==
  ASSUME IInv, RecordsInv, [Next]_vars, NEW c \in AdjustCalls, Commits(c),
         outcome'[c].status \in {"ok", "replayed"}
  PROVE  \E row \in RowsWithKey(params[c].key)' :
           /\ row.mutation.refId = outcome'[c].id
           /\ row.after = outcome'[c].balance
           /\ [AdminLogRow(c)' EXCEPT !.id = outcome'[c].id] \in adminLogs'
<1>1. c \in Calls
  BY CallKinds
<1>2. /\ pc[c] = "commit"
      /\ outcome'[c] = [status |-> "ok", id |-> params[c].refId, balance |-> token[c].after]
  BY <1>1, PositiveCommit
<1>3. params[c] = Adjustment(c, adjustRequest[c])
  BY <1>1, <1>2, Parts DEF CallsCarryRequests
<1>4. outcome'[c].id = c /\ NewRowOf(c).after = outcome'[c].balance
      /\ NewRowOf(c).mutation = params[c] /\ params[c].refId = c
  BY <1>2, <1>3 DEF NewRowOf, Adjustment
<1>5. NewRowOf(c) \in RowsWithKey(params[c].key)'
  BY <1>1, <1>4, CommitRows, CommitEffects DEF RowsWithKey
<1>6. AdminLogRow(c)' = AdminLogRow(c) /\ AdminLogRow(c) \in adminLogs'
      /\ [AdminLogRow(c) EXCEPT !.id = c] = AdminLogRow(c)
  BY <1>1, <1>2, RecordsFixed DEF Commits, AdminLogRow
<1> QED
  BY <1>4, <1>5, <1>6

\* Every step keeps the answers true.
LEMMA StepAnswers == IInv /\ RecordsInv /\ AnswersInv /\ [Next]_vars => AnswersInv'
<1> SUFFICES ASSUME IInv, RecordsInv, AnswersInv, [Next]_vars PROVE AnswersInv'
  OBVIOUS
<1> USE CallKinds
<1>1. AnswersComeLast' /\ RacesResolve'
  BY AnswersResolve DEF AnswersInv, RecordsInv
<1>2. ASSUME NEW c \in Calls, outcome'[c].status \in {"ok", "replayed"}
      PROVE  \/ Commits(c)
             \/ /\ pc[c] # "idle"
                /\ c \in BetCalls => BetAnswerTrue(c, outcome'[c])
                /\ c \in AdjustCalls => AdjustAnswerTrue(c, outcome'[c])
  <2>1. CASE outcome'[c] = outcome[c]
    <3>1. pc[c] = "done"
      BY <1>2, <2>1 DEF AnswersInv, AnswersComeLast, Answer
    <3> QED
      BY <1>2, <2>1, <3>1
      DEF AnswersInv, BetAnswersAreTrue, AdjustAnswersAreTrue, Granted, BetAnswerTrue,
          AdjustAnswerTrue
  <2>2. CASE EndsWith(c, Replays(c) \cup Negative)
    <3>1. pc[c] # "idle" /\ outcome'[c] \in Replays(c) \cup Negative
      BY <2>2, Parts DEF EndsWith, LedgerTypeOK
    <3>2. outcome'[c] \in Replays(c)
      BY <1>2, <3>1 DEF Negative, Answer
    <3> QED
      BY <1>2, <3>1, <3>2, BetReplaysTrue, AdjustReplaysTrue DEF Replays
  <2> QED
    BY <2>1, <2>2, AnswerSteps DEF RecordsInv
<1>3. BetAnswersAreTrue'
  <2> SUFFICES ASSUME NEW c \in BetCalls, outcome'[c].status \in {"ok", "replayed"}
               PROVE  \E b \in bets' :
                        /\ b.id = outcome'[c].id
                        /\ b.user = betRequest'[c].user /\ b.key = betRequest'[c].key
                        /\ b.round = betRequest'[c].round /\ b.items = betRequest'[c].items
                        /\ \E row \in DebitsOf(b)' : row.after = outcome'[c].balance
    BY DEF BetAnswersAreTrue, Granted
  <2>1. CASE Commits(c)
    BY <2>1, BetCommitTrue
  <2>2. CASE pc[c] # "idle" /\ BetAnswerTrue(c, outcome'[c])
    BY <2>2, BetTruthKept
  <2> QED
    BY <1>2, <2>1, <2>2
<1>4. AdjustAnswersAreTrue'
  <2> SUFFICES ASSUME NEW c \in AdjustCalls, outcome'[c].status \in {"ok", "replayed"}
               PROVE  \E row \in RowsWithKey(params[c].key)' :
                        /\ row.mutation.refId = outcome'[c].id
                        /\ row.after = outcome'[c].balance
                        /\ [AdminLogRow(c)' EXCEPT !.id = outcome'[c].id] \in adminLogs'
    BY DEF AdjustAnswersAreTrue, Granted
  <2>1. CASE Commits(c)
    BY <2>1, AdjustCommitTrue
  <2>2. CASE pc[c] # "idle" /\ AdjustAnswerTrue(c, outcome'[c])
    BY <2>2, AdjustTruthKept
  <2> QED
    BY <1>2, <2>1, <2>2
<1> QED
  BY <1>1, <1>3, <1>4 DEF AnswersInv

\* At the start no call has answered.
LEMMA InitAnswers == Init => AnswersInv
  BY CallKinds
  DEF Init, LedgerInit, AnswersInv, AnswersComeLast, RacesResolve, BetAnswersAreTrue,
      AdjustAnswersAreTrue, Granted, Answer

-----------------------------------------------------------------------------
(* The theorems                                                            *)

\* The whole strengthening holds in every state.
THEOREM RecordsAndAnswers == Spec => [](IInv /\ RecordsInv /\ AnswersInv)
<1>1. Init => IInv /\ RecordsInv /\ AnswersInv
  BY InitIInv, InitRecords, InitAnswers
<1>2. IInv /\ RecordsInv /\ AnswersInv /\ [Next]_vars => (IInv /\ RecordsInv /\ AnswersInv)'
  BY StepIInv, StepRecords, StepAnswers
<1> QED
  BY <1>1, <1>2, PTL DEF Spec

\* One idempotency key yields one bet of a player and one row of the system,
\* whatever number of calls retries it and however they interleave.
THEOREM KeysCorrect == Spec => []OncePerKey
<1>1. RecordsInv => OncePerKey
  BY DEF RecordsInv, RowsOncePerKey, BetsOncePerKey, OncePerKey
<1> QED
  BY <1>1, RecordsAndAnswers, PTL

\* The debit of a bet occurs once, under the key that only it may have.
LEMMA OneDebitPerBet ==
  ASSUME IInv, RecordsInv, NEW b \in bets
  PROVE  Cardinality({i \in DOMAIN ledger[b.user] :
                        ledger[b.user][i].mutation = BetDebit(b.id, b)}) = 1
<1> DEFINE Debits == {i \in DOMAIN ledger[b.user] :
                        ledger[b.user][i].mutation = BetDebit(b.id, b)}
<1>1. b.user \in Users
  BY Parts DEF Bets
<1>2. PICK row \in Rows : row.mutation.refId = b.id
  BY BetHasDebit
<1>3. row \in RowsOf(b.user) /\ row.mutation = BetDebit(b.id, b)
  BY <1>2, RowOfBet DEF DebitsOf
<1>4. PICK i \in DOMAIN ledger[b.user] : row = ledger[b.user][i]
  BY <1>3 DEF RowsOf
<1>5. i \in Debits
  BY <1>3, <1>4
<1>6. \A j \in Debits : j = i
  BY <1>1, <1>3, <1>4 DEF RecordsInv, RowsOncePerKey
<1>7. Debits = {i}
  BY <1>5, <1>6
<1> QED
  BY <1>7, FS_Singleton

\* No bet without its one debit and no debit of a bet without the bet, of the
\* bet's player and total stake, however transactions interleave or fail.
THEOREM DebitsCorrect == Spec => []BetsMatchDebits
<1>1. IInv /\ RecordsInv => BetsMatchDebits
  <2> SUFFICES ASSUME IInv, RecordsInv PROVE BetsMatchDebits
    OBVIOUS
  <2>1. ASSUME NEW row \in Rows, row.mutation.refId \in BetCalls
        PROVE  \E b \in bets : row.mutation = BetDebit(b.id, b)
    <3> DEFINE b == BetRow(row.mutation.refId)
    <3>1. b \in bets /\ b.id = row.mutation.refId
      BY <2>1, CallKinds DEF RecordsInv, RowsAreOfCalls, BetRow
    <3> HIDE DEF b
    <3> QED
      BY <3>1, RowOfBet DEF DebitsOf
  <2> QED
    BY <2>1, OneDebitPerBet DEF BetsMatchDebits
<1> QED
  BY <1>1, RecordsAndAnswers, PTL

\* No adjustment without its log and no log without its adjustment, both of
\* the same account, direction and amount.
THEOREM AdjustmentsCorrect == Spec => []AdjustmentsLogged
<1>1. IInv /\ RecordsInv => AdjustmentsLogged
  <2> SUFFICES ASSUME IInv, RecordsInv PROVE AdjustmentsLogged
    OBVIOUS
  <2>1. ASSUME NEW d \in AdjustCalls, pc[d] = "done"
        PROVE  /\ params[d].user = AdminLogRow(d).user
               /\ params[d].direction = AdminLogRow(d).direction
               /\ params[d].amount = AdminLogRow(d).amount
               /\ params[d].refId = d /\ AdminLogRow(d).id = d
    <3>1. params[d] = Adjustment(d, adjustRequest[d])
      BY <2>1, Parts DEF CallsCarryRequests
    <3> QED
      BY <3>1 DEF Adjustment, AdminLogRow
  <2>2. ASSUME NEW row \in Rows, row.mutation.refId \in AdjustCalls
        PROVE  \E log \in adminLogs :
                 /\ log.id = row.mutation.refId
                 /\ row.mutation.user = log.user
                 /\ row.mutation.direction = log.direction
                 /\ row.mutation.amount = log.amount
    <3> DEFINE d == row.mutation.refId
    <3>1. AdminLogRow(d) \in adminLogs /\ row.mutation = params[d]
      BY <2>2, CallKinds DEF RecordsInv, RowsAreOfCalls
    <3>2. AdminLogRow(d).id = d
      BY DEF AdminLogRow
    <3>3. pc[d] = "done"
      BY <3>1, <3>2 DEF RecordsInv, LogsAreOfCalls
    <3> HIDE DEF d
    <3>4. d \in AdjustCalls /\ d = row.mutation.refId
      BY <2>2 DEF d
    <3> QED
      BY <2>1, <3>1, <3>3, <3>4
  <2>3. ASSUME NEW log \in adminLogs
        PROVE  \E row \in Rows : row.mutation.refId = log.id
    <3>1. log.id \in AdjustCalls /\ pc[log.id] = "done" /\ HasRow(log.id)
      BY Parts DEF RecordsInv, LogsAreOfCalls, LogsHaveRows, AdminLogs
    <3> QED
      BY <2>1, <3>1 DEF HasRow
  <2> QED
    BY <2>2, <2>3 DEF AdjustmentsLogged
<1> QED
  BY <1>1, RecordsAndAnswers, PTL

\* A call that loses the race for its key always finds the winner.
THEOREM RacesCorrect == Spec => []RacesResolve
<1>1. AnswersInv => RacesResolve
  BY DEF AnswersInv
<1> QED
  BY <1>1, RecordsAndAnswers, PTL

\* A positive answer to a bet names a committed bet that is what the request
\* asked for, and the balance that this bet's debit left.
THEOREM BetAnswersCorrect == Spec => []BetAnswersAreTrue
<1>1. AnswersInv => BetAnswersAreTrue
  BY DEF AnswersInv
<1> QED
  BY <1>1, RecordsAndAnswers, PTL

\* A positive answer to an adjustment names the log of exactly that change,
\* and the balance it left.
THEOREM AdjustAnswersCorrect == Spec => []AdjustAnswersAreTrue
<1>1. AnswersInv => AdjustAnswersAreTrue
  BY DEF AnswersInv
<1> QED
  BY <1>1, RecordsAndAnswers, PTL

-----------------------------------------------------------------------------
(* The service implements AtomicPoints                                     *)

\* The accounts, the ledger and the rounds start as the abstract ones do.
LEMMA AtomicInit == Init => Atomic!Init
<1> SUFFICES ASSUME Init PROVE Atomic!Init
  OBVIOUS
<1> USE LedgerAssumption DEF Init, LedgerInit, BetInit, AdminInit
<1>1. balance = [u \in Users |-> Opening[u]]
  OBVIOUS
<1>2. version = [u \in Users |-> Len(IF Opening[u] = 0 THEN <<>> ELSE <<OpeningRow(u)>>)]
  <2>1. \A u \in Users : Len(IF Opening[u] = 0 THEN <<>> ELSE <<OpeningRow(u)>>)
                           = IF Opening[u] = 0 THEN 0 ELSE 1
    OBVIOUS
  <2> QED
    BY <2>1
<1> QED
  BY <1>1, <1>2 DEF Atomic!Init

\* A commit is one abstract posting to the account of its mutation.
LEMMA CommitPosts ==
  ASSUME IInv, RecordsInv, NEW c \in Calls, Commits(c)
  PROVE  /\ Atomic!Post(params[c].user)
         /\ Atomic!NewRow(params[c].user) = NewRowOf(c)
<1> DEFINE u == params[c].user
<1>1. /\ pc[c] = "commit"
      /\ params[c] \in Mutations /\ NewRowOf(c) \in LedgerRows /\ u \in Users
      /\ NewRowOf(c).mutation = params[c]
      /\ NewRowOf(c).before = balance[u] /\ NewRowOf(c).after = BalanceAfter(params[c])
      /\ ledger' = [ledger EXCEPT ![u] = Append(@, NewRowOf(c))]
      /\ balance' = [balance EXCEPT ![u] = NewRowOf(c).after]
      /\ version' = [version EXCEPT ![u] = @ + 1]
      /\ ledger[u] \in Seq(LedgerRows)
  BY CommitEffects, Parts DEF NewRowOf, LedgerTypeOK
<1>2. ledger'[u] = Append(ledger[u], NewRowOf(c))
  BY CommitRows
<1>3. Len(ledger'[u]) = Len(ledger[u]) + 1 /\ ledger'[u][Len(ledger[u]) + 1] = NewRowOf(c)
  BY <1>1, <1>2, AppendedElements
<1>4. Atomic!NewRow(u) = NewRowOf(c)
  BY <1>3 DEF Atomic!NewRow
<1>5. ~Atomic!Used(params[c].key)
  BY <1>1 DEF RecordsInv, PendingKeysAreFree, RowsWithKey, Rows, RowsOf, Atomic!Used
<1>6. params[c].amount > 0 /\ NewRowOf(c).after >= 0
  BY <1>1 DEF Mutations, LedgerRows
<1> QED
  BY <1>1, <1>3, <1>4, <1>5, <1>6 DEF Atomic!Post, BalanceAfter

\* The bet call holds its round when it commits, its id is its own and its
\* key is new to its player: its commit is an abstract PlaceBet.
LEMMA BetCommitIsPlaceBet ==
  ASSUME IInv, RecordsInv, NEW c \in BetCalls, Commits(c), UNCHANGED roundState
  PROVE  Atomic!PlaceBet(BetRow(c)) /\ BetRow(c) \in bets'
<1> DEFINE b == BetRow(c)
<1>1. c \in Calls /\ pc[c] = "commit"
  BY CallKinds, CommitEffects
<1>2. params[c] = BetDebit(c, betRequest[c]) /\ NewRowOf(c).mutation = params[c]
  BY <1>1, Parts DEF CallsCarryRequests, NewRowOf
<1>3. /\ b.id = c /\ b.user = params[c].user /\ b.user = betRequest[c].user
      /\ b.key = betRequest[c].key /\ b.round = betRequest[c].round
      /\ b.items = betRequest[c].items
  BY <1>2 DEF BetRow, BetDebit
<1>4. \A other \in bets : other.id # c
  BY <1>1 DEF RecordsInv, BetsAreOfCalls
<1>5. \A other \in bets : other.user = b.user => other.key # b.key
  BY <1>1, <1>3 DEF RecordsInv, InsertedBetsAreNew, BetsWithKey
<1>6. roundState[b.round] \in {"BETTING_OPEN", "BETTING_ACTIVE"}
  BY <1>1, <1>3 DEF IInv, RoundHeldOpen, HoldsRound, Accepting
<1>7. bets' = bets \cup {b} /\ adminLogs' = adminLogs
  BY CallKinds DEF Commits
<1>8. Atomic!Post(b.user) /\ Atomic!NewRow(b.user) = NewRowOf(c)
  BY <1>1, <1>3, CommitPosts
<1>9. /\ NewRowOf(c).mutation.refType = "bet_placed" /\ NewRowOf(c).mutation.refId = b.id
      /\ NewRowOf(c).mutation.direction = "debit"
      /\ NewRowOf(c).mutation.amount = Stake[b.items]
  BY <1>2, <1>3 DEF BetDebit
<1> HIDE DEF b
<1>10. Atomic!PlaceBet(b)
  BY <1>3, <1>4, <1>5, <1>6, <1>7, <1>8, <1>9 DEF Atomic!PlaceBet
<1> QED
  BY <1>7, <1>10 DEF b

\* An adjustment's commit is an abstract Adjust.
LEMMA AdjustCommitIsAdjust ==
  ASSUME IInv, RecordsInv, NEW c \in AdjustCalls, Commits(c), UNCHANGED roundState
  PROVE  Atomic!Adjust(AdminLogRow(c)) /\ AdminLogRow(c) \in adminLogs'
<1> DEFINE log == AdminLogRow(c)
<1>1. c \in Calls /\ pc[c] = "commit"
  BY CallKinds, CommitEffects
<1>2. params[c] = Adjustment(c, adjustRequest[c]) /\ NewRowOf(c).mutation = params[c]
  BY <1>1, Parts DEF CallsCarryRequests, NewRowOf
<1>3. /\ log.id = c /\ log.user = params[c].user /\ params[c].refId = log.id
      /\ params[c].direction = log.direction /\ params[c].amount = log.amount
  BY <1>2 DEF AdminLogRow, Adjustment
<1>4. \A other \in adminLogs : other.id # c
  BY <1>1 DEF RecordsInv, LogsAreOfCalls
<1>5. adminLogs' = adminLogs \cup {log} /\ bets' = bets
  BY CallKinds DEF Commits
<1>6. Atomic!Post(log.user) /\ Atomic!NewRow(log.user) = NewRowOf(c)
  BY <1>1, <1>3, CommitPosts
<1> HIDE DEF log
<1>7. Atomic!Adjust(log)
  BY <1>2, <1>3, <1>4, <1>5, <1>6 DEF Atomic!Adjust
<1> QED
  BY <1>5, <1>7 DEF log

\* A standalone mutation's commit is an abstract Apply.
LEMMA ApplyCommitIsApply ==
  ASSUME IInv, RecordsInv, NEW c \in ApplyCalls, Commits(c), UNCHANGED roundState
  PROVE  Atomic!Apply(params[c].user) /\ params[c].user \in Users
<1>1. c \in Calls /\ pc[c] = "commit" /\ params[c].user \in Users
  BY CallKinds, CommitEffects
<1>2. NewRowOf(c).mutation.refId = NoCall
  BY <1>1, WhoRowsName DEF RecordsInv, NewRowOf
<1>3. NoCall \notin BetCalls \cup AdjustCalls
  BY CallKinds
<1>4. bets' = bets /\ adminLogs' = adminLogs
  BY CallKinds DEF Commits
<1>5. Atomic!Post(params[c].user) /\ Atomic!NewRow(params[c].user) = NewRowOf(c)
  BY <1>1, CommitPosts
<1> QED
  BY <1>1, <1>2, <1>3, <1>4, <1>5 DEF Atomic!Apply

\* Every step is an abstract step or changes nothing that can be seen.
LEMMA AtomicStep ==
  ASSUME IInv, RecordsInv, [Next]_vars
  PROVE  [Atomic!Next]_(Atomic!vars)
<1>1. CASE Quiet /\ UNCHANGED roundState
  BY <1>1 DEF Quiet, tables, Atomic!vars
<1>2. CASE Quiet /\ roundState' # roundState
  <2>1. PICK r \in Rounds : OpenRound(r) \/ LockIfDeadlinePassed(r)
    BY <1>2, BetStepEffects
    DEF Next, RoundStep, Tick, betVars, vars
  <2>2. roundState \in [Rounds -> RoundStates]
    BY Parts DEF OtherTypeOK
  <2>3. Atomic!MoveRound(r)
    BY <1>2, <2>1, <2>2
    DEF OpenRound, LockIfDeadlinePassed, Accepting, Quiet, tables, Atomic!MoveRound
  <2> QED
    BY <2>3 DEF Atomic!Next
<1>3. ASSUME NEW c \in Calls, Commits(c)
      PROVE  Atomic!Next
  <2>1. UNCHANGED roundState
    <3>1. ~RoundStep /\ ~UNCHANGED vars
      <4>1. pc[c] = "commit" /\ pc'[c] = "done"
        BY <1>3, CommitEffects, Parts DEF LedgerTypeOK
      <4> QED
        BY <4>1 DEF RoundStep, Tick, OpenRound, LockIfDeadlinePassed, vars, ledgerVars
    <3> QED
      BY <3>1, BetStepEffects DEF Next, betVars
  <2>2. CASE c \in BetCalls
    BY <1>3, <2>1, <2>2, BetCommitIsPlaceBet DEF Atomic!Next
  <2>3. CASE c \in AdjustCalls
    BY <1>3, <2>1, <2>3, AdjustCommitIsAdjust DEF Atomic!Next
  <2>4. CASE c \in ApplyCalls
    BY <1>3, <2>1, <2>4, ApplyCommitIsApply DEF Atomic!Next
  <2> QED
    BY <1>3, <2>2, <2>3, <2>4 DEF Commits
<1> QED
  BY <1>1, <1>2, <1>3, QuietOrCommits

\* Calls, locks, races, retries and failures are invisible in the committed
\* tables: they change as if every bet, adjustment and mutation were one
\* atomic step that is only taken where it is allowed.
THEOREM AtomicRefinement == Spec => ImplementsAtomicPoints
<1>1. Init => Atomic!Init
  BY AtomicInit
<1>2. IInv /\ RecordsInv /\ [Next]_vars => [Atomic!Next]_(Atomic!vars)
  BY AtomicStep
<1>3. Spec => [](IInv /\ RecordsInv)
  BY RecordsAndAnswers, PTL
<1> QED
  BY <1>1, <1>2, <1>3, PTL DEF Spec, ImplementsAtomicPoints, Atomic!Spec

-----------------------------------------------------------------------------
(* The audit: an account's ledger adds up to its balance at every commit,  *)
(* so a verification that reads one before and one after another reports   *)
(* what was committed between the two, and nothing else.                   *)

SignedRows(u) == [i \in DOMAIN ledger[u] |-> Signed(ledger[u][i].mutation)]

LedgerAddsUp == \A u \in Users : LedgerDerived(u) = balance[u]

LEMMA SignedIsInt ==
  ASSUME NEW m \in Mutations
  PROVE  Signed(m) \in Int
  BY DEF Mutations, Signed

LEMMA InitAddsUp ==
  ASSUME Init
  PROVE  LedgerAddsUp
<1> SUFFICES ASSUME NEW u \in Users
             PROVE  SumOf(SignedRows(u), DOMAIN ledger[u]) = balance[u]
  BY DEF LedgerAddsUp, LedgerDerived, SignedRows
<1>1. balance[u] = Opening[u] /\ Opening[u] \in Nat
  BY LedgerAssumption DEF Init, LedgerInit
<1>2. CASE Opening[u] = 0
  <2>1. DOMAIN ledger[u] = {}
    BY <1>2 DEF Init, LedgerInit
  <2>2. SumOf(SignedRows(u), {}) = 0
    BY SumEmpty
  <2> QED BY <1>1, <1>2, <2>1, <2>2
<1>3. CASE Opening[u] # 0
  <2>1. ledger[u] = <<OpeningRow(u)>>
    BY <1>3 DEF Init, LedgerInit
  <2>2. DOMAIN ledger[u] = {1}
    BY <2>1
  <2>3. SignedRows(u)[1] = Opening[u]
    BY <2>1, <2>2 DEF SignedRows, Signed, OpeningRow
  <2>4. SumOf(SignedRows(u), {1}) = SignedRows(u)[1]
    <3>1. SignedRows(u)[1] \in Int
      BY <1>1, <2>3
    <3> QED BY <3>1, SumSingleton
  <2> QED BY <1>1, <2>2, <2>3, <2>4
<1> QED BY <1>2, <1>3

LEMMA StepAddsUp ==
  ASSUME IInv, RecordsInv, LedgerAddsUp, [Next]_vars
  PROVE  LedgerAddsUp'
<1>1. CASE Quiet
  BY <1>1 DEF Quiet, tables, LedgerAddsUp, LedgerDerived
<1>2. ASSUME NEW c \in Calls, Commits(c) PROVE LedgerAddsUp'
  <2> SUFFICES ASSUME NEW u \in Users
               PROVE  LedgerDerived(u)' = balance'[u]
    BY DEF LedgerAddsUp
  <2> DEFINE m == params[c]
             row == NewRowOf(c)
             n == Len(ledger[u])
  <2>1. /\ m \in Mutations /\ row \in LedgerRows /\ m.user \in Users
        /\ row.after = BalanceAfter(m) /\ row.mutation = m
        /\ ledger' = [ledger EXCEPT ![m.user] = Append(@, row)]
        /\ balance' = [balance EXCEPT ![m.user] = row.after]
    BY <1>2, CommitEffects DEF NewRowOf
  <2>2. ledger \in [Users -> Seq(LedgerRows)] /\ balance \in [Users -> Nat]
    BY Parts DEF LedgerTypeOK
  <2>3. LedgerDerived(u) = balance[u] /\ LedgerDerived(u) = SumOf(SignedRows(u), DOMAIN ledger[u])
    BY DEF LedgerAddsUp, LedgerDerived, SignedRows
  <2>4. CASE u # m.user
    <3>1. ledger'[u] = ledger[u] /\ balance'[u] = balance[u]
      BY <2>1, <2>2, <2>4
    <3> QED BY <2>3, <3>1 DEF LedgerDerived
  <2>5. CASE u = m.user
    <3>1. ledger[u] \in Seq(LedgerRows) /\ ledger'[u] = Append(ledger[u], row) /\ balance'[u] = row.after
      BY <2>1, <2>2, <2>5
    <3>2. /\ n \in Nat /\ DOMAIN ledger[u] = 1..n /\ DOMAIN ledger'[u] = DOMAIN ledger[u] \cup {n + 1}
          /\ ledger'[u][n + 1] = row /\ \A i \in DOMAIN ledger[u] : ledger'[u][i] = ledger[u][i]
      BY <2>1, <3>1, AppendedElements
    <3> HIDE DEF n
    <3> DEFINE D == DOMAIN ledger[u]
               f == SignedRows(u)
               g == [i \in DOMAIN ledger'[u] |-> Signed(ledger'[u][i].mutation)]
    <3>3. \A i \in D : f[i] \in Int /\ g[i] = f[i]
      <4>1. \A i \in D : ledger[u][i].mutation \in Mutations
        <5>1. \A i \in DOMAIN ledger[u] : ledger[u][i] \in LedgerRows
          BY <3>1
        <5> QED BY <5>1 DEF LedgerRows
      <4>2. \A i \in D : f[i] = Signed(ledger[u][i].mutation) /\ g[i] = Signed(ledger[u][i].mutation)
        BY <3>2 DEF SignedRows
      <4> QED BY <4>1, <4>2, SignedIsInt
    <3>4. g[n + 1] = Signed(m) /\ Signed(m) \in Int
      BY <2>1, <3>2, SignedIsInt
    <3>5. IsFiniteSet(D) /\ n + 1 \notin D
      <4>1. IsFiniteSet(1..n)
        BY <3>2, FS_Interval, 1 \in Int, n \in Int
      <4> QED BY <3>2, <4>1
    <3>6. LedgerDerived(u)' = SumOf(g, D \cup {n + 1})
      <4>1. LedgerDerived(u)' = SumOf(g, DOMAIN ledger'[u])
        BY DEF LedgerDerived
      <4>2. DOMAIN ledger'[u] = D \cup {n + 1}
        BY <3>2
      <4> HIDE DEF g, D
      <4> QED BY <4>1, <4>2, Zenon
    <3> HIDE DEF f, g, D
    <3>7. SumOf(g, D \cup {n + 1}) = SumOf(g, D) + g[n + 1]
      BY <3>3, <3>4, <3>5, SumAdd
    <3>8. SumOf(g, D) = SumOf(f, D)
      BY <3>3, <3>5, SumEqual
    <3>9. SumOf(f, D) = balance[u]
      BY <2>3 DEF f, D
    <3>10. row.after = balance[u] + Signed(m)
      BY <2>1, <2>2, <2>5 DEF BalanceAfter, Signed, Mutations
    <3> QED BY <3>1, <3>4, <3>6, <3>7, <3>8, <3>9, <3>10
  <2> QED BY <2>4, <2>5
<1> QED BY <1>1, <1>2, QuietOrCommits

\* At every moment, whatever is under way, the credits of an account less its
\* debits are its balance (POINTS_SYSTEM.md section 6).
THEOREM LedgerSumsToBalance == Spec => []LedgerAddsUp
<1>1. Init => LedgerAddsUp
  BY InitAddsUp
<1>2. IInv /\ RecordsInv /\ LedgerAddsUp /\ [Next]_vars => LedgerAddsUp'
  BY StepAddsUp
<1>3. Spec => [](IInv /\ RecordsInv)
  BY RecordsAndAnswers, PTL
<1> QED BY <1>1, <1>2, <1>3, PTL DEF Spec

\* No account is both reported and still to be added up.
AuditInv == toSum \cap mismatches = {}

\* What the audit does to the tables: nothing.
LEMMA AuditsWatch ==
  ASSUME [AuditedNext]_auditedVars
  PROVE  [Next]_vars
  BY DEF AuditedNext, Audit, BeginAudit, SumAccount, auditedVars

\* A verification reports an account if and only if its balance has moved
\* between the two reads, whatever is under way then: what
\* reconciliation.service.ts:57-60 calls a false positive is the only kind.
THEOREM OnlyRacesAreReported == AuditedSpec => MismatchesAreRaces
<1>1. AuditedInit => Init /\ AuditInv
  BY DEF AuditedInit, AuditInit, AuditInv
<1>2. [AuditedNext]_auditedVars => [Next]_vars
  BY AuditsWatch
<1>3. AuditInv /\ [AuditedNext]_auditedVars => AuditInv'
  BY DEF AuditedNext, Audit, BeginAudit, SumAccount, auditedVars, auditVars, AuditInv
<1>4. LedgerAddsUp /\ AuditInv /\ [AuditedNext]_auditedVars =>
        [\A u \in Users : SumAccount(u) =>
           (u \in mismatches' <=> balance[u] # projected[u])]_auditedVars
  BY DEF LedgerAddsUp, AuditInv, SumAccount
<1>5. AuditedSpec => Spec
  BY <1>1, <1>2, PTL DEF AuditedSpec, Spec
<1> QED BY <1>1, <1>3, <1>4, <1>5, LedgerSumsToBalance, PTL DEF AuditedSpec, MismatchesAreRaces


-----------------------------------------------------------------------------
(* The items of a bet                                                      *)

Like(items, i) == {k \in DOMAIN items : Same(items[k], i)}

\* What merging makes of one item: the row of its selection with the sum of
\* the amounts sent for it.
LEMMA MergedRow ==
  ASSUME NEW l \in Seq(ItemRows), NEW k \in DOMAIN l
  PROVE  /\ IsFiniteSet(DOMAIN l)
         /\ \A j \in DOMAIN l : Amounts(l)[j] = l[j].amount /\ l[j] \in ItemRows
         /\ Like(l, l[k]) \in SUBSET (DOMAIN l) /\ k \in Like(l, l[k])
         /\ SumOf(Amounts(l), Like(l, l[k])) \in Int
         /\ Merged(l, l[k]) = [category |-> l[k].category, selection |-> l[k].selection,
                               amount |-> SumOf(Amounts(l), Like(l, l[k]))]
<1> DEFINE D == DOMAIN l
           a == Amounts(l)
           L == Like(l, l[k])
<1>1. IsFiniteSet(D)
  <2>1. Len(l) \in Int /\ 1 \in Int /\ D = 1..Len(l)
    OBVIOUS
  <2>2. IsFiniteSet(1..Len(l))
    BY <2>1, FS_Interval
  <2> QED BY <2>1, <2>2
<1>2. \A j \in D : a[j] = l[j].amount /\ l[j] \in ItemRows
  BY DEF Amounts
<1>3. \A j \in D : a[j] \in Int
  BY <1>2 DEF ItemRows
<1>4. L \in SUBSET D /\ k \in L
  BY DEF Like, Same
<1>5. SumOf(a, L) \in Int
  <2> HIDE DEF a, L, D
  <2> QED BY <1>1, <1>3, <1>4, SumInt
<1>6. Merged(l, l[k]) = [l[k] EXCEPT !.amount = SumOf(a, L)]
  BY DEF Merged, Like
<1>7. Merged(l, l[k]) = [category |-> l[k].category, selection |-> l[k].selection, amount |-> SumOf(a, L)]
  <2> HIDE DEF a, L
  <2>1. l[k] \in ItemRows
    BY <1>2
  <2> QED BY <1>6, <2>1 DEF ItemRows
<1> QED BY <1>1, <1>2, <1>4, <1>5, <1>7

LEMMA MergedList ==
  ASSUME NEW l \in Seq(ItemRows)
  PROVE  /\ IsFiniteSet(MergeItems(l))
         /\ MergeItems(l) \in SUBSET ItemRows
<1>1. IsFiniteSet(DOMAIN l)
  <2>1. Len(l) \in Int /\ 1 \in Int /\ DOMAIN l = 1..Len(l)
    OBVIOUS
  <2>2. IsFiniteSet(1..Len(l))
    BY <2>1, FS_Interval
  <2> QED BY <2>1, <2>2
<1> DEFINE f == [k \in DOMAIN l |-> Merged(l, l[k])]
<1>2. MergeItems(l) = {f[k] : k \in DOMAIN l}
  BY DEF MergeItems
<1>3. IsFiniteSet({f[k] : k \in DOMAIN l})
  <2>1. f \in [DOMAIN l -> MergeItems(l)] /\ \A y \in MergeItems(l) : \E x \in DOMAIN l : f[x] = y
    BY DEF MergeItems
  <2>2. f \in Surjection(DOMAIN l, MergeItems(l))
    BY <2>1 DEF Surjection
  <2> QED BY <1>1, <1>2, <2>2, FS_Surjection
<1>4. \A k \in DOMAIN l : Merged(l, l[k]) \in ItemRows
  <2> SUFFICES ASSUME NEW k \in DOMAIN l
               PROVE  Merged(l, l[k]) \in ItemRows
    OBVIOUS
  <2> DEFINE sum == SumOf(Amounts(l), Like(l, l[k]))
  <2>1. /\ l[k] \in ItemRows /\ sum \in Int
        /\ Merged(l, l[k]) = [category |-> l[k].category, selection |-> l[k].selection, amount |-> sum]
    BY MergedRow
  <2> HIDE DEF sum
  <2> QED BY <2>1 DEF ItemRows
<1> QED BY <1>2, <1>3, <1>4 DEF MergeItems

\* What placeBet lets through stakes a safe number on every selection.
LEMMA AcceptedIsSafe ==
  ASSUME NEW l \in Seq(ItemRows), Accepted(l)
  PROVE  /\ \A i \in MergeItems(l) :
              i.amount \in 1 .. MaxSafe /\ i.selection <= LastSelection[i.category]
         /\ TotalOf(MergeItems(l)) <= MaxSafe
<1>1. /\ \A i \in MergeItems(l) : i.amount <= MaxSafe /\ i.selection <= LastSelection[i.category]
      /\ TotalOf(MergeItems(l)) <= MaxSafe
  BY DEF Accepted, SafeAmounts, InRange
<1>2. ASSUME NEW k \in DOMAIN l
      PROVE  Merged(l, l[k]).amount \in Int /\ Merged(l, l[k]).amount >= 1
  <2> DEFINE a == Amounts(l)
             L == Like(l, l[k])
  <2>1. Merged(l, l[k]).amount = SumOf(a, L) /\ k \in L /\ L \in SUBSET DOMAIN l
        /\ IsFiniteSet(DOMAIN l) /\ \A j \in DOMAIN l : a[j] = l[j].amount
    BY MergedRow
  <2>2. \A j \in DOMAIN l : a[j] \in Nat /\ a[j] >= 1
    BY <2>1, MaxSafeAssumption DEF Accepted, WellFormed
  <2> HIDE DEF a, L
  <2>3. IsFiniteSet(L) /\ \A j \in L : a[j] \in Nat
    BY <2>1, <2>2, FS_Subset
  <2>4. SumOf(a, L) \in Nat /\ SumOf(a, L) >= a[k]
    BY <2>1, <2>3, SumNat
  <2>5. a[k] \in Nat /\ a[k] >= 1
    BY <2>2
  <2> QED BY <2>1, <2>4, <2>5
<1>3. \A i \in MergeItems(l) : i.amount \in Int /\ i.amount >= 1
  BY <1>2 DEF MergeItems
<1> QED BY <1>1, <1>3, MaxSafeAssumption

\* Two merged lists match as itemsMatch compares them when they are the same.
LEMMA MatchIsEqual ==
  ASSUME NEW l \in Seq(ItemRows), NEW r \in Seq(ItemRows)
  PROVE  ItemsMatch(MergeItems(l), MergeItems(r)) <=> MergeItems(l) = MergeItems(r)
<1> DEFINE M == MergeItems(l)
           N == MergeItems(r)
<1>1. IsFiniteSet(M) /\ M \in SUBSET ItemRows /\ IsFiniteSet(N) /\ N \in SUBSET ItemRows
  BY MergedList
<1> HIDE DEF M, N
<1>2. ASSUME M = N PROVE ItemsMatch(M, N)
  BY <1>2 DEF ItemsMatch, Same
<1>3. ASSUME ItemsMatch(M, N) PROVE M = N
  <2>1. N \subseteq M
    <3>1. \A m \in N : \E i \in M : Same(i, m) /\ i.amount = m.amount
      BY <1>3 DEF ItemsMatch
    <3>2. \A i \in M, m \in N : Same(i, m) /\ i.amount = m.amount => i = m
      <4> SUFFICES ASSUME NEW i \in M, NEW m \in N, Same(i, m), i.amount = m.amount
                   PROVE  i = m
        OBVIOUS
      <4>1. i \in ItemRows /\ m \in ItemRows
        BY <1>1
      <4>2. /\ i = [category |-> i.category, selection |-> i.selection, amount |-> i.amount]
            /\ m = [category |-> m.category, selection |-> m.selection, amount |-> m.amount]
        BY <4>1 DEF ItemRows
      <4> QED BY <4>2 DEF Same
    <3> QED BY <3>1, <3>2
  <2>2. Cardinality(M) = Cardinality(N)
    BY <1>3 DEF ItemsMatch
  <2> QED BY <1>1, <2>1, <2>2, FS_Subset
<1> QED BY <1>2, <1>3 DEF M, N

\* Merging neither loses nor adds points: whatever list a client sends, what
\* its merged items stake together is what it sent together.
THEOREM MergingKeepsTheStake ==
  ASSUME NEW l \in Seq(ItemRows)
  PROVE  TotalOf(MergeItems(l)) = SumOf(Amounts(l), DOMAIN l)
<1> DEFINE M == MergeItems(l)
           D == DOMAIN l
           a == Amounts(l)
           t == [i \in M |-> i.amount]
           K(T) == {k \in D : Merged(l, l[k]) \in T}
           Good == {T \in SUBSET M : SumOf(t, T) = SumOf(a, K(T))}
<1>1. IsFiniteSet(M) /\ IsFiniteSet(D) /\ \A k \in D : a[k] \in Int
  <2>1. IsFiniteSet(M)
    BY MergedList
  <2>2. IsFiniteSet(D)
    <3>1. Len(l) \in Int /\ 1 \in Int /\ D = 1..Len(l)
      OBVIOUS
    <3>2. IsFiniteSet(1..Len(l))
      BY <3>1, FS_Interval
    <3> QED BY <3>1, <3>2
  <2>3. \A k \in D : a[k] = l[k].amount /\ l[k] \in ItemRows
    BY DEF Amounts
  <2>4. \A k \in D : a[k] \in Int
    BY <2>3 DEF ItemRows
  <2> QED BY <2>1, <2>2, <2>4
<1>2. \A i \in M : t[i] \in Int
  BY MergedList DEF ItemRows
\* The items that merge into one row are those like it.
<1>3. ASSUME NEW k \in D
      PROVE  /\ Merged(l, l[k]) \in M
             /\ t[Merged(l, l[k])] = SumOf(a, Like(l, l[k]))
             /\ K({Merged(l, l[k])}) = Like(l, l[k])
  <2>1. Merged(l, l[k]) \in M
    BY DEF MergeItems
  <2>2. \A j \in D : Merged(l, l[j]) = [category |-> l[j].category, selection |-> l[j].selection,
                                        amount |-> SumOf(Amounts(l), Like(l, l[j]))]
    BY MergedRow
  <2>3. t[Merged(l, l[k])] = SumOf(a, Like(l, l[k]))
    BY <2>1, <2>2
  <2>4. ASSUME NEW j \in D, Same(l[j], l[k])
        PROVE  Merged(l, l[j]) = Merged(l, l[k])
    <3>1. Like(l, l[j]) = Like(l, l[k])
      BY <2>4 DEF Like, Same
    <3> QED BY <2>2, <2>4, <3>1 DEF Same
  <2>5. ASSUME NEW j \in D, Merged(l, l[j]) = Merged(l, l[k])
        PROVE  Same(l[j], l[k])
    BY <2>2, <2>5 DEF Same
  <2>6. K({Merged(l, l[k])}) = Like(l, l[k])
    BY <2>4, <2>5 DEF Like
  <2> QED BY <2>1, <2>3, <2>6
<1>4. \A x \in M : \E k \in D : x = Merged(l, l[k])
  BY DEF MergeItems
<1> HIDE DEF M, a, t
<1>5. ASSUME NEW T \in SUBSET M, \A U \in SUBSET T : U # T => U \in Good
      PROVE  T \in Good
  <2>1. CASE T = {}
    <3>1. K(T) = {}
      BY <2>1
    <3>2. SumOf(t, T) = 0 /\ SumOf(a, K(T)) = 0
      <4> HIDE DEF K
      <4> QED BY <2>1, <3>1, SumEmpty
    <3> QED BY <3>2
  <2>2. CASE T # {}
    <3>1. PICK x \in T : TRUE
      BY <2>2
    <3>2. PICK k \in D : x = Merged(l, l[k])
      BY <1>4
    <3> DEFINE R == T \ {x}
               A == K({x})
               B == K(R)
    <3>3. t[x] = SumOf(a, A)
      BY <1>3, <3>2
    <3>4. SumOf(t, T) = t[x] + SumOf(t, R)
      <4>1. \A U \in SUBSET M : \A y \in U : SumOf(t, U) = t[y] + SumOf(t, U \ {y})
        BY <1>1, <1>2, SumRemove
      <4> QED BY <4>1
    <3>5. SumOf(t, R) = SumOf(a, B)
      <4>1. R \in SUBSET T /\ R # T
        OBVIOUS
      <4>2. R \in Good
        BY <1>5, <4>1
      <4> QED BY <4>2
    <3>6. K(T) = A \cup B /\ A \cap B = {} /\ A \in SUBSET D /\ B \in SUBSET D
      OBVIOUS
    <3>7. IsFiniteSet(A) /\ IsFiniteSet(B)
      <4> HIDE DEF A, B, D
      <4> QED BY <1>1, <3>6, FS_Subset
    <3> HIDE DEF A, B, K, D
    <3>8. \A y \in A \cup B : a[y] \in Int
      BY <1>1, <3>6
    <3>9. SumOf(a, A \cup B) = SumOf(a, A) + SumOf(a, B)
      BY <3>6, <3>7, <3>8, SumUnion
    <3>10. SumOf(a, K(T)) = SumOf(a, A \cup B)
      BY <3>6, Zenon
    <3> QED BY <3>3, <3>4, <3>5, <3>9, <3>10
  <2> QED BY <2>1, <2>2
<1>6. \A T \in SUBSET M : T \in Good
  <2> HIDE DEF Good
  <2> QED BY <1>1, <1>5, SubsetInduction
<1>7. SumOf(t, M) = SumOf(a, K(M))
  BY <1>6
<1>8. K(M) = D
  BY <1>3
<1>9. SumOf(t, M) = SumOf(a, D)
  <2> HIDE DEF K, D
  <2> QED BY <1>7, <1>8, Zenon
<1> QED BY <1>9 DEF TotalOf, M, a, t

\* Whatever lists clients send, what a bet stakes on a selection and in all is
\* a safe number, and a replay is told from another bet by comparing items as
\* itemsMatch does.
THEOREM ItemsCorrect == Spec => []MergedItemsAreSound
<1>1. \A i \in Items : \E l \in Seq(ItemRows) : Accepted(l) /\ i = MergeItems(l)
  BY PlacedAssumption
<1>2. ASSUME TypeOK PROVE MergedItemsAreSound
  <2> SUFFICES ASSUME NEW c \in BetCalls, betRequest[c] # NoBetRequest
               PROVE  /\ \A i \in betRequest[c].items :
                           i.amount \in 1 .. MaxSafe /\ i.selection <= LastSelection[i.category]
                      /\ Stake[betRequest[c].items] <= MaxSafe
                      /\ \A b \in bets : ItemsMatch(b.items, betRequest[c].items)
                                           <=> b.items = betRequest[c].items
    BY DEF MergedItemsAreSound
  <2> DEFINE items == betRequest[c].items
  <2>1. items \in Items /\ \A b \in bets : b.items \in Items
    BY <1>2 DEF TypeOK, Maybe, BetRequestType, Bets
  <2>2. PICK l \in Seq(ItemRows) : Accepted(l) /\ items = MergeItems(l)
    BY <1>1, <2>1
  <2>3. Stake[items] = TotalOf(MergeItems(l))
    BY <2>1, <2>2, PlacedAssumption
  <2>4. \A b \in bets : \E r \in Seq(ItemRows) : b.items = MergeItems(r)
    BY <1>1, <2>1
  <2>5. \A b \in bets : ItemsMatch(b.items, items) <=> b.items = items
    BY <2>2, <2>4, MatchIsEqual
  <2> HIDE DEF items
  <2>6. \A i \in items : i.amount \in 1 .. MaxSafe /\ i.selection <= LastSelection[i.category]
    BY <2>2, AcceptedIsSafe
  <2>7. Stake[items] <= MaxSafe
    BY <2>2, <2>3, AcceptedIsSafe
  <2> QED BY <2>5, <2>6, <2>7 DEF items
<1> QED BY <1>2, TypeCorrect, PTL

=============================================================================
