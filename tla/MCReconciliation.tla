-------------------------- MODULE MCReconciliation --------------------------
(* Adjustments and standalone mutations of MCPointsApi, and the audit.     *)
EXTENDS MCPointsApi, Reconciliation
=============================================================================
