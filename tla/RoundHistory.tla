---------------------------- MODULE RoundHistory -----------------------------
(***************************************************************************)
(* recentHistory of the game table (GameTCView.tsx): the last six rounds,   *)
(* newest first, which the scoreboard shows beside the wheel and the        *)
(* information dialog as a table.  A row is its S NO, the game's id and the *)
(* triple drawn; double and single are the triple's last digits.            *)
(*                                                                         *)
(* Both widgets key their rows by the game's id, which the rounds settled   *)
(* on one table share.  Of two rows with one key React may lose track of    *)
(* the first: it is then no longer updated nor removed, and stays on the    *)
(* screen for as long as its widget does, beside the six rounds.            *)
(***************************************************************************)
EXTENDS Integers, Sequences

CONSTANTS
    GameId,      \* of the table; an id is its number
    Draws,       \* triples drawn
    MaxRounds    \* bound: rounds settled on one table

ASSUME HistoryAssumption ==
       GameId \in Nat \ (688..693) /\ Draws \subseteq 0..999 /\ MaxRounds \in Nat

VARIABLES
    history,
    strayColumns, strayRows,   \* the scoreboard, the open history tab: show more
    previewed                  \* history: W or B was pressed on this table

rounds == <<history, strayColumns, strayRows, previewed>>

Row(sno, gameId, triple) == [sno |-> sno, gameId |-> gameId, triple |-> triple]

\* What a table starts from, its rounds being older and its numbers greater
\* from row to row.
MOCK_HISTORY == <<Row(1, 693, 751), Row(2, 692, 314), Row(3, 691, 50),
                  Row(4, 690, 571), Row(5, 689, 929), Row(6, 688, 853)>>
WIN_HISTORY  == <<Row(1, 694, 131)>> \o SubSeq(MOCK_HISTORY, 1, 5)

HistoryMounted == /\ history' = MOCK_HISTORY /\ strayColumns' = FALSE
                  /\ strayRows' = FALSE /\ previewed' = FALSE

\* React keeps the rows up to the first whose key differs, and finds the
\* others by their keys, where the last of a key hides the ones before.
KeptInPlace(old, new) ==
    {i \in 1..6 : \A j \in 1..i : old[j].gameId = new[j].gameId}
LeftOver(old, new) ==
    {i \in (1..6) \ KeptInPlace(old, new) :
        \E j \in i + 1..6 : old[j].gameId = old[i].gameId}

ScoreboardRendered(new) ==
    strayColumns' = (strayColumns \/ LeftOver(history, new) # {})

\* The table of the history tab goes with the tab, and its strays with it.
HistoryTableRendered(new, shown) ==
    strayRows' = (shown /\ (strayRows \/ LeftOver(history, new) # {}))

HistoryBecomes(new, shown) ==
    /\ history' = new
    /\ ScoreboardRendered(new) /\ HistoryTableRendered(new, shown)

RoundSettled(triple, shown) ==
    /\ history[1].sno <= MaxRounds
    /\ HistoryBecomes(<<Row(history[1].sno + 1, GameId, triple)>> \o SubSeq(history, 1, 5), shown)
    /\ UNCHANGED previewed

\* The keys W and B of the table.
HistoryReplaced(shown) ==
    \E table \in {WIN_HISTORY, MOCK_HISTORY} \ {history} :
       HistoryBecomes(table, shown) /\ previewed' = TRUE

HistoryStep(shown) ==
    HistoryReplaced(shown) \/ \E triple \in Draws : RoundSettled(triple, shown)

\* The tab is opened or left, or the dialog is.
HistoryTabIs(shown) ==
    strayRows' = (shown /\ strayRows) /\ UNCHANGED <<history, strayColumns, previewed>>

-----------------------------------------------------------------------------
\* The scoreboard and the history tab show the six rounds and no other row,
\* on a table where rounds are only played: their shared keys show first when
\* W or B puts another history in place.  The rounds settled on this table
\* have their numbers in one row, whatever has been previewed and reset in
\* between.
HistoryTruth ==
    /\ strayColumns \/ strayRows => previewed
    /\ \A i \in 1..6 : i <= history[1].sno => history[i].sno = history[1].sno - (i - 1)
=============================================================================
