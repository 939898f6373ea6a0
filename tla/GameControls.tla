---------------------------- MODULE GameControls -----------------------------
(***************************************************************************)
(* What can be clicked on the game table: the cells and arrows of the      *)
(* boards, the random picks, the tabs, the chips and the action bar, each  *)
(* with the handler it calls.  A button that is greyed gets no click.  A   *)
(* right click on it may reach its handler, which looks at the lock        *)
(* itself: browsers differ, and React withholds only the click.            *)
(***************************************************************************)
EXTENDS TableBets

LeftClick(disabled, Handler) == ~disabled /\ Handler

\* A cell: left click stakes, right click steps down.
CellButton(cell) ==
    \/ cell \in Clicked /\ LeftClick(locked, PlaceBet(cell))
    \/ RemoveBet(cell)

\* The arrow of a row or a column.
RowArrow(section, row) ==
    LeftClick(locked, QuickRow(section, row)) \/ QuickRowUndo(section, row)
ColArrow(section, col) ==
    LeftClick(locked, QuickCol(section, col)) \/ QuickColUndo(section, col)

\* The buttons of the action bar that are greyed.
doubleDisabled == locked \/ ~HasBets(game.bets)
repeatDisabled == locked \/ ~HasBets(game.previousBets)
clearDisabled  == locked \/ ~HasBets(game.bets)

-----------------------------------------------------------------------------
(* The boards.  The triple board shows the hundred of the open tab.         *)

DoubleCells   == \E v \in 0..(Size("double") - 1) : CellButton(<<"double", v>>)
DoubleRows    == \E r \in Lines : RowArrow("double", r)
DoubleColumns == \E c \in Lines : ColArrow("double", c)
DoublePicks   == \E n \in RANDOM_COUNTS["double"] :
                    LeftClick(locked, RandomPick("double", n))

TripleTabs    == \E t \in Tabs : ChangeTab(t)
TripleCells   == \E i \in 0..(Size("double") - 1) :
                    CellButton(<<"triple", Offset("triple") + i>>)
TripleRows    == \E r \in Lines : RowArrow("triple", r)
TripleColumns == \E c \in Lines : ColArrow("triple", c)
TriplePicks   == \E n \in RANDOM_COUNTS["triple"] :
                    LeftClick(locked, RandomPick("triple", n))

SingleCells   == \E d \in 0..(Base - 1) : CellButton(<<"single", d>>)

(* The chip tray and the action bar.                                        *)

Chips        == \E chip \in availableChips : SelectChip(chip)
DoubleButton == LeftClick(doubleDisabled, Double)
RepeatButton == LeftClick(repeatDisabled, Repeat)
ClearButton  == LeftClick(clearDisabled, Clear)

Player ==
    \/ DoubleCells \/ DoubleRows \/ DoubleColumns \/ DoublePicks
    \/ TripleTabs \/ TripleCells \/ TripleRows \/ TripleColumns \/ TriplePicks
    \/ SingleCells \/ Chips
    \/ DoubleButton \/ RepeatButton \/ ClearButton
=============================================================================
