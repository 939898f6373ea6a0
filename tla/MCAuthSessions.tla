--------------------------- MODULE MCAuthSessions ---------------------------
(* Small instances of AuthSessions.  How many calls there are is chosen in  *)
(* the cfg, and here what each may be.                                      *)
EXTENDS AuthSessions, TLC

CONSTANTS u1, old, new, c1, c2, c3, c4, c5

\* A hash made under older parameters.
MCFirstHash == u1 :> [password |-> old, outdated |-> TRUE]

\* The first call logs in, the others do anything.
MCAnything == [c \in Calls |-> IF c = c1 THEN {"login"} ELSE Endpoints]

MCSymmetry == Permutations(Calls \ {c1})

MCRefreshes == [c \in Calls |-> IF c = c1 THEN {"login"} ELSE {"refresh"}]

MCLogins == [c \in Calls |-> {"login"}]

MCLoginsAndChange ==
  [c \in Calls |-> IF c = c3 THEN {"changePassword"} ELSE {"login"}]
=============================================================================
