--------------------------- MODULE MCRoundEngine ----------------------------
(* Small instances of RoundEngine.                                          *)
EXTENDS RoundEngine, TLC

CONSTANTS e1, e2, g1, g2

OneGame  == <<g1>>
TwoGames == <<g1, g2>>

\* With one game, rounds end and follow each other; with two, each gets one.
MCMaxRounds == [g \in Games |-> IF Games = {g1} THEN 2 ELSE 1]

\* The second engine's host is one unit behind the database, so that a round
\* it creates is due at once.
MCSkew == [e \in Engines |-> IF e = e2 THEN -1 ELSE 0]
=============================================================================
