-------------------------------- MODULE Sums ---------------------------------
(***************************************************************************)
(* The sum of a function over a finite set, of which SumTheorems proves    *)
(* what the other modules' proofs need.                                    *)
(***************************************************************************)
EXTENDS FiniteSetsExt

SumOf(f, S) == MapThenSumSet(LAMBDA x : f[x], S)
=============================================================================
