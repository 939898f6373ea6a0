------------------------------ MODULE GameTable ------------------------------
(***************************************************************************)
(* The game table of the web client                                        *)
(* (apps/web/src/components/game/GameTCView.tsx): the round that runs in   *)
(* the page, the stakes the player puts on it, and the draw.  `game' is    *)
(* the component's GameState; the other variables are its remaining hooks  *)
(* and what React keeps for it.                                            *)
(*                                                                         *)
(* Clicks and keys are rendered before the next event is handled.  What a  *)
(* timer writes is rendered later, by Render: until then the handlers see  *)
(* the lock of the last render, and the effects of the last rendered phase *)
(* (its timers) are still alive.  A second is assumed not to pass between  *)
(* a timer's write and its render.                                         *)
(***************************************************************************)
EXTENDS Wheel, Functions, Sums

CONSTANTS
    Base,            \* numbers per ring: 10 in the code
    IdleDigits,      \* digits the rings rest on at first: 5, 9, 4
    availableChips,  \* the chips of the tray
    RANDOM_COUNTS,   \* how many cells a random pick of a board may ask for
    OpenSeconds,     \* 37
    LockSeconds,     \* 5: no bets from here on
    LastChance,      \* 15
    PAYOUT,          \* [single |-> 9, double |-> 90, triple |-> 900]
    OpeningBalance,  \* 167249
    \* The table shown by the win preview (getWinGameState):
    PreviewBalance, PreviewStake, PreviewWinAmount, PreviewBets, PreviewDraw,
    Clicked,         \* bound: the cells the player clicks to bet
    Draws,           \* bound: the results considered
    PollTimes,       \* bound: the times since the draw's start a poll may see
    MaxWorth,        \* bound: a player with more than this stops betting
    None

Phases == {"BETTING", "DRAWING", "RESULT"}
Types  == {"single", "double", "triple"}
Size(type) == CASE type = "single" -> Base
                [] type = "double" -> Base * Base
                [] type = "triple" -> Base * Base * Base

\* A cell is the key `type:value' of a bet.
CellsOf(type) == {type} \X (0..(Size(type) - 1))
Cells == UNION {CellsOf(t) : t \in Types}
Triples == 0..(Size("triple") - 1)
Tabs == 0..(Base - 1)
Statuses == {"Place your chips", "LAST CHANCE", "No More Play", "YOU WIN",
             "Better luck next time", "Insufficient points"}

ASSUME TableAssumption ==
    /\ Base \in Nat \ {0}
    /\ IdleDigits \in [1..3 -> 0..(Base - 1)]
    /\ availableChips \subseteq Nat \ {0} /\ 2 \in availableChips
    /\ RANDOM_COUNTS \in [{"double", "triple"} -> SUBSET Nat]
    /\ OpenSeconds \in Nat /\ LockSeconds \in Nat /\ LastChance \in Nat
    /\ 0 < LockSeconds /\ LockSeconds < OpenSeconds
    /\ PAYOUT \in [Types -> Nat]
    /\ OpeningBalance \in Nat
    /\ PreviewBalance \in Nat /\ PreviewStake \in Nat /\ PreviewWinAmount \in Nat
    /\ PreviewBets \in [Cells -> Nat] /\ PreviewDraw \in Triples
    /\ Draws \subseteq Triples /\ Draws # {}
    /\ PollTimes \subseteq Nat /\ Clicked \subseteq Cells
    /\ None \notin Cells /\ None \notin Nat /\ None \notin [1..3 -> 0..(Base - 1)]

\* What the component keeps of the round.
GameState == [phase: Phases, secondsLeft: 0..OpenSeconds,
              pointsBalance: Nat, playStake: Nat, winAmount: Nat,
              selectedChip: availableChips \union {2},
              bets: [Cells -> Nat], previousBets: [Cells -> Nat],
              triplesTab: Tabs, drawResult: Triples \union {None},
              statusMessage: Statuses]

VARIABLES
    game,          \* GameState
    wheelDigits,   \* digits the rings rest on between draws
    drawTarget,    \* digits the running or last draw turns to, or None
    revealed,      \* digits of the draw shown so far
    effects,       \* phase for which effects last ran; "NONE" before the mount
    locked,        \* isLocked in the last render: what the handlers see
    poll,          \* the draw's interval: [result, elapsed] or None
    resultTimer,   \* the RESULT timeout has been set and has not fired
    unaccounted    \* history: stake charged (or not) that no bet stands for

screen == <<wheelDigits, drawTarget, revealed>>
react  == <<effects, locked, poll, resultTimer>>
vars   == <<game, screen, react, unaccounted>>

NoBets == [c \in Cells |-> 0]
Least(a, b) == IF a <= b THEN a ELSE b
Positive(n) == IF n > 0 THEN n ELSE 0

\* Result a drawn triple gives each board.
Target(type, triple) == triple % Size(type)

\* What the bets win with a draw.
settleBets(bets, triple) ==
    SumOf([t \in Types |-> bets[<<t, Target(t, triple)>>] * PAYOUT[t]], Types)

IsLocked(g) == g.phase # "BETTING" \/ g.secondsLeft <= LockSeconds
HasBets(bets) == \E c \in Cells : bets[c] > 0

-----------------------------------------------------------------------------
(* Initial states: the table opens for betting, or on the win preview       *)
(* (`?state=win').  Effects have not run yet.                               *)

getInitialGameState ==
    [phase |-> "BETTING", secondsLeft |-> OpenSeconds,
     pointsBalance |-> OpeningBalance, playStake |-> 0, winAmount |-> 0,
     selectedChip |-> 2, bets |-> NoBets, previousBets |-> NoBets,
     triplesTab |-> 0, drawResult |-> None, statusMessage |-> "Place your chips"]

getWinGameState ==
    [phase |-> "RESULT", secondsLeft |-> 0,
     pointsBalance |-> PreviewBalance, playStake |-> PreviewStake,
     winAmount |-> PreviewWinAmount,
     selectedChip |-> 2, bets |-> PreviewBets, previousBets |-> NoBets,
     triplesTab |-> 1 % Base, drawResult |-> PreviewDraw, statusMessage |-> "YOU WIN"]

Unaccounted(g) == g.playStake - SumOf(g.bets, Cells)

Init == /\ game \in {getInitialGameState, getWinGameState}
        /\ wheelDigits = IdleDigits /\ drawTarget = None /\ revealed = 0
        /\ effects = "NONE" /\ locked = IsLocked(game)
        /\ poll = None /\ resultTimer = FALSE
        /\ unaccounted = Unaccounted(game)

-----------------------------------------------------------------------------
(* Effects: what runs when a phase is first rendered.  The timers of the    *)
(* phase before are cleared.                                                *)

EnterBettingRevealed ==   \* mutant: the reveal of the last draw is kept
    /\ poll' = None /\ resultTimer' = FALSE
    /\ UNCHANGED <<game, wheelDigits, drawTarget, revealed>>

EnterBetting ==
    /\ revealed' = 0
    /\ poll' = None /\ resultTimer' = FALSE
    /\ UNCHANGED <<game, wheelDigits, drawTarget>>

StartDraw ==
    \E triple \in Draws :
       /\ game' = [game EXCEPT !.drawResult = triple]
       /\ drawTarget' = DigitsOf(Base, triple)
       /\ revealed' = 0
       /\ poll' = [result |-> triple, elapsed |-> 0]
       /\ resultTimer' = FALSE
       /\ UNCHANGED wheelDigits

EnterResultForGood ==   \* mutant: the timeout is not set
    /\ poll' = None /\ resultTimer' = FALSE
    /\ UNCHANGED <<game, screen>>

EnterResult ==
    /\ poll' = None /\ resultTimer' = TRUE
    /\ UNCHANGED <<game, screen>>

Unrendered == effects # game.phase \/ locked # IsLocked(game)

\* React renders what the timers wrote; a new phase runs its effects.
Render ==
    /\ Unrendered
    /\ locked' = IsLocked(game)
    /\ effects' = game.phase
    /\ \/ game.phase = effects /\ UNCHANGED <<game, screen, poll, resultTimer>>
       \/ game.phase = "BETTING" /\ effects # "BETTING" /\ EnterBetting
       \/ game.phase = "DRAWING" /\ effects # "DRAWING" /\ StartDraw
       \/ game.phase = "RESULT" /\ effects # "RESULT" /\ EnterResult
    /\ UNCHANGED unaccounted

-----------------------------------------------------------------------------
(* Timers.                                                                  *)

\* The countdown's second: one less, or the betting closes.
CountDown ==
    /\ effects = "BETTING" /\ ~Unrendered
    /\ LET next == game.secondsLeft - 1
       IN  game' = IF game.secondsLeft > 1
                   THEN [game EXCEPT
                          !.secondsLeft = next,
                          !.statusMessage =
                             IF next <= LockSeconds THEN "No More Play"
                             ELSE IF next <= LastChance /\ @ = "Place your chips"
                                  THEN "LAST CHANCE" ELSE @]
                   ELSE [game EXCEPT !.secondsLeft = 0, !.phase = "DRAWING",
                                     !.statusMessage = "No More Play"]
    /\ UNCHANGED <<screen, react, unaccounted>>

SettlePrevious(result) ==   \* mutant: the bets of the round before are paid
    LET won == settleBets(game.previousBets, result)
    IN  game' = IF game.phase # "DRAWING" THEN game
                ELSE [game EXCEPT !.phase = "RESULT", !.winAmount = won,
                                  !.pointsBalance = @ + won]

\* The draw is over: the result of this draw settles the bets, unless the
\* phase has moved on.
Settle(result) ==
    LET won == settleBets(game.bets, result)
    IN  game' = IF game.phase # "DRAWING" THEN game
                ELSE [game EXCEPT !.phase = "RESULT",
                                  !.winAmount = won,
                                  !.pointsBalance = @ + won,
                                  !.statusMessage = IF won > 0 THEN "YOU WIN"
                                                    ELSE "Better luck next time"]

\* The draw's poll, `elapsed' after its start: digits whose rings have
\* stopped are revealed, and at the end the draw is settled.
Poll(elapsed) ==
    /\ poll # None /\ elapsed > poll.elapsed
    /\ LET count == RevealedDigitCount(elapsed)
       IN  revealed' = IF count > RevealedDigitCount(poll.elapsed) THEN count
                       ELSE revealed
    /\ \/ /\ elapsed < DRAW_TOTAL_MS
          /\ poll' = [poll EXCEPT !.elapsed = elapsed]
          /\ UNCHANGED <<game, wheelDigits>>
       \/ /\ elapsed >= DRAW_TOTAL_MS
          /\ poll' = None
          /\ wheelDigits' = DigitsOf(Base, poll.result)
          /\ Settle(poll.result)
    /\ UNCHANGED <<drawTarget, effects, locked, resultTimer, unaccounted>>

\* Four seconds of result, then the table reopens; the amount won stays.
Reopen ==
    /\ resultTimer
    /\ resultTimer' = FALSE
    /\ IF game.phase = "RESULT"
       THEN /\ game' = [game EXCEPT !.secondsLeft = OpenSeconds, !.phase = "BETTING",
                           !.statusMessage = "Place your chips",
                           !.previousBets = game.bets, !.bets = NoBets,
                           !.playStake = 0]
            /\ unaccounted' = 0
       ELSE UNCHANGED <<game, unaccounted>>
    /\ UNCHANGED <<screen, effects, locked, poll>>

\* Keys W and B (and `?state=' in the address): the table is replaced by the
\* win preview or by a new one, and rendered at once.  A phase that does not
\* change runs no effect: the result's timeout is not set again.
Replace(table, newRevealed) ==
    /\ game' = table
    /\ unaccounted' = Unaccounted(table)
    /\ locked' = IsLocked(table)
    /\ effects' = table.phase
    /\ IF effects = table.phase
       THEN UNCHANGED <<revealed, poll, resultTimer>>
       ELSE /\ poll' = None
            /\ resultTimer' = (table.phase = "RESULT")
            /\ revealed' = newRevealed
    /\ UNCHANGED <<wheelDigits, drawTarget>>

PreviewWin == effects # "NONE" /\ Replace(getWinGameState, revealed)
ResetTable == effects # "NONE" /\ Replace(getInitialGameState, 0)
=============================================================================
