---------------------------- MODULE AdminPoints -----------------------------
(***************************************************************************)
(* AdminPointsService.adjust: a manual credit or debit, written in one     *)
(* transaction with the admin_logs row that justifies it.                  *)
(***************************************************************************)
EXTENDS PointsLedger

CONSTANTS
  AdjustCalls,     \* the calls made to the adjustment endpoint
  AdjustRequests,  \* what they may ask for
  Admins,
  Reasons

AdjustRequestType ==
  [user: Users, key: Keys, direction: Directions, amount: Nat \ {0},
   admin: Admins, reason: Reasons]

AdminLogs ==
  [id: AdjustCalls, admin: Admins, user: Users, direction: Directions,
   amount: Nat \ {0}, reason: Reasons]

NoAdjustRequest == [user |-> NoCall]

ASSUME AdminAssumption ==
  /\ AdjustCalls \subseteq Calls
  /\ AdjustCalls \cap ApplyCalls = {}
  /\ AdjustRequests \subseteq AdjustRequestType

VARIABLES
  adminLogs,      \* committed admin_logs rows
  adjustRequest   \* the request of each call

adminVars == <<adminLogs, adjustRequest>>

AdminInit ==
  /\ adminLogs = {}
  /\ adjustRequest = [c \in AdjustCalls |-> NoAdjustRequest]

\* The ledger row's referenceId is the id of the log, named after the call.
Adjustment(c, r) ==
  [user |-> r.user, direction |-> r.direction, amount |-> r.amount,
   refType |-> IF r.direction = "credit" THEN "admin_credit" ELSE "admin_debit",
   refId |-> c, key |-> <<"client", r.key>>]

AdminLogRow(c) ==
  LET r == adjustRequest[c] IN
  [id |-> c, admin |-> r.admin, user |-> r.user, direction |-> r.direction,
   amount |-> r.amount, reason |-> r.reason]

AdjustSubmit(c) ==
  /\ Move(c, "idle", "lookup")
  /\ \E r \in AdjustRequests :
       /\ adjustRequest' = [adjustRequest EXCEPT ![c] = r]
       /\ params' = [params EXCEPT ![c] = Adjustment(c, r)]
  /\ UNCHANGED <<tables, accountLock, token, outcome, adminLogs>>

\* Mutant: whoever asks is answered, whichever admin adjusted.
SameAdjustmentAnyAdmin(row, c) ==
  LET was == row.mutation  wanted == params[c]  r == adjustRequest[c] IN
  /\ was.user = wanted.user
  /\ was.direction = wanted.direction
  /\ was.amount = wanted.amount
  /\ was.refType = wanted.refType
  /\ \E log \in adminLogs : log.id = was.refId /\ log.reason = r.reason

\* The stored row stands for the same adjustment: account, direction, amount
\* and type of the row, reason, and the admin named by the log it refers to.
SameAdjustment(row, c) ==
  LET was == row.mutation  wanted == params[c]  r == adjustRequest[c] IN
  /\ was.user = wanted.user
  /\ was.direction = wanted.direction
  /\ was.amount = wanted.amount
  /\ was.refType = wanted.refType
  /\ \E log \in adminLogs :
        log.id = was.refId /\ log.reason = r.reason /\ log.admin = r.admin

AdjustReplay(row, c) ==
  IF SameAdjustment(row, c)
    THEN [status |-> "replayed", id |-> row.mutation.refId, balance |-> row.after]
    ELSE Answer("conflict")

AdjustReplays(c) ==
  {AdjustReplay(row, c) : row \in RowsWithKey(params[c].key)}

AdjustLookup(c) ==
  /\ pc[c] = "lookup"
  /\ \E answer \in AdjustReplays(c) : Finish(c, answer)
  /\ UNCHANGED <<tables, adminVars>>

AdjustKeyIsNew(c) ==
  /\ Move(c, "lookup", "begin")
  /\ RowsWithKey(params[c].key) = {}
  /\ UNCHANGED <<tables, accountLock, params, token, outcome, adminVars>>

\* Mutant: the log is created outside the transaction.
CreateAdminLogOutside(c) ==
  /\ Move(c, "begin", "account")
  /\ adminLogs' = adminLogs \cup {AdminLogRow(c)}
  /\ UNCHANGED <<tables, accountLock, params, token, outcome, adjustRequest>>

\* BEGIN; INSERT admin_logs, which conflicts with nothing.
CreateAdminLog(c) ==
  /\ Move(c, "begin", "account")
  /\ UNCHANGED <<tables, accountLock, params, token, outcome, adminVars>>

AdjustRaced(c) ==
  /\ pc[c] = "race"
  /\ \E answer \in RaceAnswers(AdjustReplays(c)) : Finish(c, answer)
  /\ UNCHANGED <<tables, adminVars>>

CommitAdjustment(c) ==
  /\ CommitTransaction(c)
  /\ adminLogs' = adminLogs \cup {AdminLogRow(c)}
  /\ UNCHANGED adjustRequest

\* mutateWithinTransaction: the two ledger steps with nothing in between.
AdjustLedgerStep(c) ==
  \/ LockAccount(c, "write")
  \/ RejectInsufficient(c)
  \/ CommitMutation(c)
  \/ CommitMutationRaced(c)

AdjustProgress(c) ==
  \/ AdjustLookup(c)
  \/ AdjustKeyIsNew(c)
  \/ AdjustRaced(c)
  \/ CreateAdminLog(c)
  \/ AdjustLedgerStep(c) /\ UNCHANGED adminVars
  \/ CommitAdjustment(c)

AdjustStep(c) ==
  \/ AdjustSubmit(c)
  \/ AdjustProgress(c)
  \/ Fail(c) /\ UNCHANGED adminVars
=============================================================================
