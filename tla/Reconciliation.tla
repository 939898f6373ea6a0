--------------------------- MODULE Reconciliation ---------------------------
(***************************************************************************)
(* PointsReconciliationService beside the writers of PointsApi: the        *)
(* balances are read in one statement, the ledger of each account is added *)
(* up in a later one, and no lock is taken, so what is committed between   *)
(* the two looks like a mismatch.                                          *)
(***************************************************************************)
EXTENDS PointsApi, Sums

CONSTANT MaxAudits   \* bound on the verifications that are run

VARIABLES
  audits,      \* verifications begun
  toSum,       \* the accounts the running one has yet to add up
  projected,   \* the balances it read
  mismatches   \* the accounts it reported

auditVars == <<audits, toSum, projected, mismatches>>

AuditInit ==
  /\ audits = 0
  /\ toSum = {}
  /\ projected = Opening
  /\ mismatches = {}

\* Mutant: debits are added like credits.
SignedUnsigned(m) == m.amount

Signed(m) == IF m.direction = "credit" THEN m.amount ELSE -m.amount

\* computeLedgerDerivedBalance
LedgerDerived(u) ==
  SumOf([i \in DOMAIN ledger[u] |-> Signed(ledger[u][i].mutation)], DOMAIN ledger[u])

\* verifyAccount's findUnique, or verifyAll's findMany: one statement.
BeginAudit(accounts) ==
  /\ audits < MaxAudits /\ toSum = {}
  /\ audits' = audits + 1
  /\ toSum' = accounts
  /\ projected' = balance
  /\ mismatches' = {}
  /\ UNCHANGED vars

SumAccount(u) ==
  /\ u \in toSum
  /\ toSum' = toSum \ {u}
  /\ mismatches' = IF projected[u] = LedgerDerived(u) THEN mismatches
                                                      ELSE mismatches \cup {u}
  /\ UNCHANGED <<vars, audits, projected>>

Audit ==
  \/ \E u \in Users : BeginAudit({u}) \/ SumAccount(u)
  \/ BeginAudit(Users)

AuditedInit == Init /\ AuditInit
AuditedNext == (Next /\ UNCHANGED auditVars) \/ Audit
auditedVars == <<vars, auditVars>>

AuditedSpec == AuditedInit /\ [][AuditedNext]_auditedVars

\* reconciliation.service.ts:57-60: only a mutation during the check produces
\* a mismatch.  An account is reported if and only if its balance has moved
\* between the two reads, whatever is under way then.
MismatchesAreRaces ==
  [][\A u \in Users : SumAccount(u) =>
       (u \in mismatches' <=> balance[u] # projected[u])]_auditedVars
=============================================================================
