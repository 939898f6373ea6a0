------------------------------ MODULE TableBets ------------------------------
(***************************************************************************)
(* The player's side of the game table: the handlers GameTCView gives to   *)
(* its boards, chip tray and action bar.  Every betting handler returns at *)
(* once when the table was locked in the last render.                      *)
(***************************************************************************)
EXTENDS GameTable

\* Bound: a rich player stops betting.
Plays == game.pointsBalance + game.playStake <= MaxWorth

MayBetAnyTime == effects # "NONE" /\ Plays   \* mutant: no look at the lock

\* A handler that is allowed to run, and changes GameState only.
MayBet == effects # "NONE" /\ ~locked /\ Plays
OnlyGame == UNCHANGED <<screen, react, unaccounted>>

\* The balance does not cover the cost: a message, and nothing else.
Refuse(cost) ==
    /\ game.pointsBalance < cost
    /\ game' = [game EXCEPT !.statusMessage = "Insufficient points"]
    /\ OnlyGame

-----------------------------------------------------------------------------
(* Stakes, put on and taken off a set of cells.                             *)

Sections == {"double", "triple"}
Lines == 0..(Base - 1)

\* Triples are those of the open tab.
Offset(section) == IF section = "triple" THEN game.triplesTab * Base * Base ELSE 0
RowCells(section, row) == {<<section, Offset(section) + row * Base + c>> : c \in Lines}
ColCells(section, col) == {<<section, Offset(section) + r * Base + col>> : r \in Lines}
BoardCells(section) == {<<section, Offset(section) + i>> : i \in 0..(Base * Base - 1)}

\* The selected chip goes on each of the cells.
Staked(cells) ==
    LET cost == game.selectedChip * Cardinality(cells)
    IN  [game EXCEPT !.pointsBalance = @ - cost,
                     !.playStake = @ + cost,
                     !.bets = [c \in Cells |->
                                 @[c] + IF c \in cells THEN game.selectedChip ELSE 0]]

SteppedDownFlat(cells) ==   \* mutant: a whole chip back for every cell
    [game EXCEPT !.pointsBalance = @ + game.selectedChip * Cardinality(cells),
                 !.playStake = Positive(@ - game.selectedChip * Cardinality(cells)),
                 !.bets = [c \in Cells |-> IF c \in cells THEN 0 ELSE @[c]]]

\* Each of the cells steps down by the selected chip, or to nothing.
Decrement(c) == Least(game.bets[c], game.selectedChip)
Refund(cells) == SumOf([c \in cells |-> Decrement(c)], cells)
SteppedDown(cells) ==
    [game EXCEPT !.pointsBalance = @ + Refund(cells),
                 !.playStake = Positive(@ - Refund(cells)),
                 !.bets = [c \in Cells |-> IF c \in cells THEN @[c] - Decrement(c) ELSE @[c]]]

\* Left click on a cell.
PlaceBet(cell) ==
    /\ MayBet
    /\ \/ Refuse(game.selectedChip)
       \/ /\ game.pointsBalance >= game.selectedChip
          /\ game' = Staked({cell})
          /\ OnlyGame

\* Right click on a cell.
RemoveBet(cell) ==
    /\ MayBet /\ game.bets[cell] > 0
    /\ game' = SteppedDown({cell})
    /\ OnlyGame

\* The arrows of a row and of a column, left and right click.
StakeLine(cells) ==
    /\ MayBet
    /\ \/ Refuse(game.selectedChip * Base)
       \/ /\ game.pointsBalance >= game.selectedChip * Base
          /\ game' = Staked(cells)
          /\ OnlyGame

UndoLine(cells) ==
    /\ MayBet /\ Refund(cells) # 0
    /\ game' = SteppedDown(cells)
    /\ OnlyGame

QuickRow(section, row)     == StakeLine(RowCells(section, row))
QuickCol(section, col)     == StakeLine(ColCells(section, col))
QuickRowUndo(section, row) == UndoLine(RowCells(section, row))
QuickColUndo(section, col) == UndoLine(ColCells(section, col))

RandomPickAdding(section, count) ==   \* mutant: replaced stakes are not refunded
    LET board == BoardCells(section)
        n     == Least(count, Cardinality(board))
        cost  == game.selectedChip * n
    IN  /\ MayBet /\ game.pointsBalance >= cost
        /\ \E picked \in kSubset(n, board) :
              game' = [game EXCEPT !.pointsBalance = @ - cost, !.playStake = @ + cost,
                         !.bets = [c \in Cells |-> IF c \in picked THEN game.selectedChip
                                                   ELSE IF c \in board THEN 0 ELSE @[c]]]
        /\ OnlyGame

\* n cells of the board drawn at random replace what was staked on it.
RandomPick(section, count) ==
    LET board == BoardCells(section)
        n     == Least(count, Cardinality(board))
        net   == game.selectedChip * n - SumOf(game.bets, board)
    IN  /\ MayBet
        /\ \/ Refuse(net)
           \/ /\ game.pointsBalance >= net
              /\ \E picked \in kSubset(n, board) :
                    game' = [game EXCEPT
                       !.pointsBalance = @ - net,
                       !.playStake = @ + net,
                       !.bets = [c \in Cells |->
                                   IF c \in picked THEN game.selectedChip
                                   ELSE IF c \in board THEN 0 ELSE @[c]]]
              /\ OnlyGame

-----------------------------------------------------------------------------
(* The action bar, the chip tray and the tabs.                              *)

Double ==
    /\ MayBet /\ HasBets(game.bets)
    /\ \/ Refuse(game.playStake)
       \/ /\ game.pointsBalance >= game.playStake
          /\ game' = [game EXCEPT !.pointsBalance = @ - game.playStake,
                                  !.playStake = 2 * @,
                                  !.bets = [c \in Cells |-> 2 * @[c]]]
          /\ unaccounted' = 2 * unaccounted
          /\ UNCHANGED <<screen, react>>

\* The previous round's bets are charged in full and written over the
\* present ones: a stake on a cell of both is lost (`unaccounted').
Repeat ==
    LET total == SumOf(game.previousBets, Cells)
        again == {c \in Cells : game.previousBets[c] > 0}
    IN  /\ MayBet /\ HasBets(game.previousBets)
        /\ \/ Refuse(total)
           \/ /\ game.pointsBalance >= total
              /\ game' = [game EXCEPT
                     !.pointsBalance = @ - total,
                     !.playStake = @ + total,
                     !.bets = [c \in Cells |-> IF c \in again THEN game.previousBets[c] ELSE @[c]]]
              /\ unaccounted' = unaccounted + SumOf(game.bets, again)
              /\ UNCHANGED <<screen, react>>

Clear ==
    /\ MayBet /\ HasBets(game.bets)
    /\ game' = [game EXCEPT !.pointsBalance = @ + game.playStake,
                            !.playStake = 0, !.bets = NoBets]
    /\ unaccounted' = 0
    /\ UNCHANGED <<screen, react>>

\* Neither waits for the lock.
SelectChip(chip) == /\ effects # "NONE"
                    /\ game' = [game EXCEPT !.selectedChip = chip]
                    /\ OnlyGame

ChangeTab(tab) == /\ effects # "NONE"
                  /\ game' = [game EXCEPT !.triplesTab = tab]
                  /\ OnlyGame
=============================================================================
