---------------------------- MODULE MCGameTable ------------------------------
(* Small instances of the game table: two numbers per ring.                 *)
EXTENDS GameScreen, TLC

MCIdle   == <<1, 0, 0>>
MCPayout == [single |-> 2, double |-> 2, triple |-> 3]

MCRandomCounts == [double |-> {1}, triple |-> {1}]

\* Cells the player clicks; lines and random picks reach the others.
MCClicked == {<<"single", 1>>, <<"double", 1>>}

\* A preview whose stake and win are not those of its bets, as in the code.
MCPreviewBets == [c \in Cells |-> IF c \in {<<"double", 1>>, <<"single", 1>>} THEN 1 ELSE 0]
=============================================================================
