-------------------------- MODULE MCRequestGates ---------------------------
(* One address, one username, and a limit of one or two logins a window.   *)
EXTENDS RequestGates

CONSTANTS i1, n1

MCMax == [k \in {i1, n1} |-> IF k = i1 THEN 1 ELSE 2]
=============================================================================
