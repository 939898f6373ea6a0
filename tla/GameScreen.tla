----------------------------- MODULE GameScreen ------------------------------
(***************************************************************************)
(* What the game table shows (the widgets of                               *)
(* apps/web/src/components/game), the table's specification and its        *)
(* properties.  A widget is a function of the last rendered state: what is *)
(* said of the screen is said of states in which nothing waits for Render. *)
(***************************************************************************)
EXTENDS WheelContainer

\* winValue of a board, and the cells it highlights.
WinValue(type) == IF IsWin /\ game.drawResult # None
                  THEN Target(type, game.drawResult) ELSE None
Highlighted(type) == {c \in CellsOf(type) : c[2] = WinValue(type)}

\* The jewelled window beside the pointer shows this many digits; the orb
\* shows all of them once they are three.
WindowDigits == IF IsWin THEN 3 ELSE revealed
OrbShows     == WindowDigits >= 3
TimerShows   == IF IsWin THEN 0 ELSE game.secondsLeft

\* A cell of a board: its stake, the winning mark, whether it takes clicks.
BoardCell(cell) == [stake   |-> game.bets[cell],
                    winning |-> cell \in Highlighted(cell[1]),
                    enabled |-> ~locked]
DoubleGrid == [v \in 0..(Size("double") - 1) |-> BoardCell(<<"double", v>>)]
TripleGrid == [i \in 0..(Size("double") - 1) |-> BoardCell(<<"triple", Offset("triple") + i>>)]
SingleBar  == [v \in 0..(Base - 1) |-> BoardCell(<<"single", v>>)]

\* The bubble of a cell: what is on it and what it would pay.
CellBetTooltip(cell) == [play |-> game.bets[cell],
                         win  |-> game.bets[cell] * PAYOUT[cell[1]]]

\* A tab is marked when a triple of its hundred carries a bet.
TabMarked(tab) == \E v \in tab * Base * Base .. (tab + 1) * Base * Base - 1 :
                     game.bets[<<"triple", v>>] > 0

\* Total Play of a row or column under the mouse.  The triple board computes
\* the cells' keys; the double board writes them digit by digit, and `05' is
\* not the key of cell 5: the first row's stakes are not found.
TripleRowPlay(row) == SumOf(game.bets, RowCells("triple", row))
TripleColPlay(col) == SumOf(game.bets, ColCells("triple", col))
DoubleRowPlay(row) == IF row = 0 THEN 0 ELSE SumOf(game.bets, RowCells("double", row))
DoubleColPlay(col) == SumOf(game.bets, ColCells("double", col) \ RowCells("double", 0))

ScoreboardPanel == [play |-> game.playStake, win |-> game.winAmount]

-----------------------------------------------------------------------------
Timers == Render \/ CountDown \/ (\E e \in PollTimes : Poll(e)) \/ Reopen
Keys == PreviewWin \/ ResetTable

\* Steps of the table, whatever the wheel does with them.
TableNext == Timers \/ Keys \/ Player

\* The wheel is rendered with the table; clicks and timers do not touch it.
Next == \/ Render /\ RenderWheel
        \/ (CountDown \/ (\E e \in PollTimes : Poll(e)) \/ Reopen) /\ UNCHANGED wheel
        \/ Keys /\ RenderReplaced
        \/ Player /\ UNCHANGED wheel
        \/ Rerender \/ Frame

tableAndWheel == <<vars, wheel>>

ScreenInit == Init /\ InitWheel

\* Timers fire and React renders; nothing is assumed of the player, nor of the
\* browser's frames.
Spec == /\ ScreenInit /\ [][Next]_tableAndWheel
        /\ WF_vars(Render) /\ WF_vars(CountDown) /\ WF_vars(Reopen)
        /\ WF_vars(\E e \in PollTimes : Poll(e))

-----------------------------------------------------------------------------
TableTypeOK ==
    /\ game \in GameState
    /\ wheelDigits \in [1..3 -> 0..(Base - 1)]
    /\ drawTarget \in [1..3 -> 0..(Base - 1)] \union {None}
    /\ revealed \in 0..3
    /\ effects \in Phases \union {"NONE"}
    /\ locked \in BOOLEAN
    /\ poll \in [result: Triples, elapsed: Nat] \union {None}
    /\ resultTimer \in BOOLEAN
    /\ unaccounted \in Int

\* The play total is the sum of the bets on the boards, whatever was staked,
\* undone, doubled, repeated or picked; but for the stakes a REPEAT has
\* written over, and the win preview's own mismatch.  Without those, CLEAR is
\* offered exactly when there is a stake to give back.
StakesAreTheBets ==
    /\ ScoreboardPanel.play
         = SumOf([v \in DOMAIN SingleBar |-> SingleBar[v].stake], DOMAIN SingleBar)
           + SumOf([v \in DOMAIN DoubleGrid |-> DoubleGrid[v].stake], DOMAIN DoubleGrid)
           + SumOf([c \in CellsOf("triple") |-> BoardCell(c).stake], CellsOf("triple"))
           + unaccounted
    /\ ~locked /\ unaccounted = 0 => (~clearDisabled <=> ScoreboardPanel.play > 0)

IsPreview == /\ game.phase = "RESULT" /\ game.drawResult = PreviewDraw
             /\ game.bets = PreviewBets /\ game.winAmount = PreviewWinAmount

\* When a result is on the screen, the cells the boards mark as winning are
\* worth what the WIN panel says was paid.
MarkedCellsWereWon ==
    game.phase = "RESULT" /\ ~IsPreview =>
       LET won == {c \in Cells : BoardCell(c).winning}
       IN  SumOf([c \in won |-> CellBetTooltip(c).win], won) = ScoreboardPanel.win

\* Points are neither made nor lost in play: balance and stake together
\* change only when a draw is settled, by what the bets win with the digits
\* the wheel was seen turning to; when the table reopens, by the round's
\* stake; and when a key replaces the table.
Worth == game.pointsBalance + game.playStake
PointsConserved ==
    [][\/ Keys
       \/ Worth' = Worth
       \/ /\ game.phase = "DRAWING" /\ game'.phase = "RESULT"
          /\ drawTarget = DigitsOf(Base, game.drawResult)
          /\ Worth' = Worth + settleBets(game.bets, game.drawResult)
       \/ /\ game.phase = "RESULT" /\ game'.phase = "BETTING"
          /\ game'.pointsBalance = game.pointsBalance]_vars

\* Bets stand from the lock to the result.  A click handled between the
\* second that closes the betting and its render is the last that counts;
\* none reaches the draw.
BetsStandOnceLocked ==
    [][game'.bets # game.bets =>
          \/ game.phase = "BETTING" /\ game.secondsLeft >= LockSeconds
          \/ game.phase = "RESULT" /\ game'.phase = "BETTING"
          \/ Keys]_vars

\* A table open for bets shows nothing of the last draw, unless the last
\* round won (GameTCView: the reveal is dropped when betting reopens).
NothingLeftRevealed ==
    ~Unrendered /\ game.phase = "BETTING" /\ game.winAmount = 0 =>
       /\ WindowDigits = 0 /\ ~OrbShows /\ TimerShows = game.secondsLeft
       /\ \A c \in Cells : ~BoardCell(c).winning

FrameShown == poll # None /\ animation # None /\ animation.live /\ animation.at # None

\* Between draws the rings rest on the digits on the screen, which are those
\* the next spin is computed from: no ring jumps when the wheel stops or the
\* table reopens.  (A previewed result is put under the pointer, but is not
\* what the next spin starts from.)  Once a frame of a draw has been shown,
\* the three rings are at one instant of this draw's turn, from where the last
\* draw left them to its own result: no earlier draw's clock or digits, and no
\* render in between shows.  Until that frame nothing is promised: the render
\* that learns the result puts the rings on it.
RingsAreOfTheirDraw ==
    /\ ~Unrendered /\ game.phase # "DRAWING" =>
          /\ rings = RestOn(CurrentDigits)
          /\ game.drawResult # PreviewDraw => CurrentDigits = wheelDigits
    /\ FrameShown =>
          /\ animation.at <= poll.elapsed
          /\ rings = Turned(wheelDigits, DigitsOf(Base, poll.result), animation.at)

\* Whatever digits the rings rest on when the table opens, and whatever is
\* drawn, every ring turns one way and stops on the drawn digit.
RingsLandOnTheDraw == effects = "NONE" => SpinsLandOnTheirDigit

\* Bets are taken again and again, unless the win preview was opened in the
\* instant between the reopening and its render.
RoundsKeepComing ==
    []<>(\/ game.phase = "BETTING" /\ ~locked
         \/ IsPreview /\ ~resultTimer)
=============================================================================
