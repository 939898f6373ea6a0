-------------------------- MODULE GameScreenProofs ---------------------------
(***************************************************************************)
(* Proofs about the game table, for every size of the wheel, every tray of *)
(* chips, every payout and every preview: the stakes shown are the bets on *)
(* the boards, points are conserved, bets stand from the lock to the       *)
(* result, what the screen marks is what was paid, and the rings show the  *)
(* draw that runs and stop on it.                                          *)
(*                                                                         *)
(* The invariant ties the countdown, the lock of the last render, the      *)
(* phase whose effects are alive and the draw's poll together; the sums    *)
(* over the boards come from SumTheorems.                                  *)
(***************************************************************************)
EXTENDS GameScreen, SumTheorems

-----------------------------------------------------------------------------
(* The invariant                                                           *)

\* The play total is the bets, but for what `unaccounted' records.
StakesInv ==
  /\ game.playStake = SumOf(game.bets, Cells) + unaccounted
  /\ game.phase # "RESULT" => unaccounted >= 0

\* A table rendered open was open at most one second ago.
LockInv ==
  ~locked => game.phase = "BETTING" /\ game.secondsLeft >= LockSeconds

\* The poll of a draw runs in its phase, and has the draw's result.
PollInv ==
  /\ poll # None =>
       /\ effects = "DRAWING" /\ game.phase = "DRAWING"
       /\ game.drawResult = poll.result
       /\ drawTarget = DigitsOf(Base, poll.result)
  /\ effects \in {"BETTING", "NONE"} => revealed = 0

\* The rings rest on the last draw, once it is over.
RestInv ==
  game.phase # "DRAWING" /\ game.drawResult \notin {None, PreviewDraw} =>
    wheelDigits = DigitsOf(Base, game.drawResult)

\* What a result shows as won is what the bets won.
PaidInv ==
  game.phase = "RESULT" /\ ~IsPreview =>
    game.drawResult \in Triples /\ game.winAmount = settleBets(game.bets, game.drawResult)

GInv ==
  /\ TableTypeOK
  /\ StakesInv
  /\ LockInv
  /\ PollInv
  /\ RestInv
  /\ PaidInv

-----------------------------------------------------------------------------
(* The boards                                                              *)

LEMMA BaseFacts == Base \in Nat /\ Base >= 1 /\ Base * Base \in Nat /\ Base * Base >= 1
<1>1. Base \in Nat /\ Base >= 1
  BY TableAssumption
<1>2. Base * Base >= 1 * 1
  BY <1>1
<1> QED BY <1>1, <1>2

LEMMA SizeFacts ==
  /\ Size("single") = Base /\ Size("double") = Base * Base
  /\ Size("triple") = Base * Base * Base
  /\ \A t \in Types : Size(t) \in Nat /\ Size(t) >= 1
<1>1. Base * Base * Base \in Nat /\ Base * Base * Base >= 1
  <2> DEFINE B2 == Base * Base
  <2>1. B2 \in Nat /\ B2 >= 1 /\ Base \in Nat /\ Base >= 1
    BY BaseFacts
  <2> HIDE DEF B2
  <2>2. B2 * Base \in Nat /\ B2 * Base >= 1
    BY <2>1
  <2> QED BY <2>2 DEF B2
<1> QED BY <1>1, BaseFacts DEF Size, Types

LEMMA IndicesFinite == \A t \in Types : IsFiniteSet(0..(Size(t) - 1))
<1>1. \A a, b \in Int : IsFiniteSet(a..b)
  BY FS_Interval
<1>2. \A t \in Types : 0 \in Int /\ Size(t) - 1 \in Int
  BY SizeFacts
<1> QED BY <1>1, <1>2, Zenon

\* A row and a column of a board of Base * Base cells.
LEMMA LineCell ==
  ASSUME NEW r \in Lines, NEW c \in Lines
  PROVE  r * Base + c \in 0..(Base * Base - 1)
<1>1. Base \in Nat /\ Base >= 1 /\ r \in Nat /\ r + 1 <= Base /\ c \in Nat /\ c < Base
  BY BaseFacts DEF Lines
<1>2. (r + 1) * Base <= Base * Base
  BY <1>1
<1>3. (r + 1) * Base = r * Base + Base
  BY <1>1
<1>4. r * Base \in Nat /\ Base * Base \in Nat
  BY <1>1
<1> QED BY <1>1, <1>2, <1>3, <1>4

\* The cells of the triple board of one tab.
LEMMA TabCell ==
  ASSUME NEW t \in Tabs, NEW i \in 0..(Base * Base - 1)
  PROVE  t * Base * Base + i \in 0..(Base * Base * Base - 1)
<1> DEFINE B2 == Base * Base
<1>1. B2 \in Nat /\ B2 >= 1 /\ Base \in Nat /\ Base >= 1 /\ t \in Nat /\ t + 1 <= Base
      /\ i \in Nat /\ i < B2
  BY BaseFacts DEF Tabs
<1>2. t * Base * Base = t * B2 /\ Base * Base * Base = B2 * Base
  BY <1>1
<1> HIDE DEF B2
<1>3. (t + 1) * B2 <= Base * B2
  BY <1>1
<1>4. (t + 1) * B2 = t * B2 + B2 /\ B2 * Base = Base * B2
  BY <1>1
<1>5. t * B2 \in Nat /\ B2 * Base \in Nat
  BY <1>1
<1>6. t * B2 + i \in 0..(B2 * Base - 1)
  BY <1>1, <1>3, <1>4, <1>5
<1> QED BY <1>2, <1>6

LEMMA CellsAre == Cells = CellsOf("single") \cup CellsOf("double") \cup CellsOf("triple")
  BY DEF Cells, Types

LEMMA BoardsFinite ==
  /\ \A t \in Types : IsFiniteSet(CellsOf(t))
  /\ IsFiniteSet(Cells)
<1>1. ASSUME NEW t \in Types
      PROVE  IsFiniteSet(CellsOf(t))
  <2>1. IsFiniteSet(0..(Size(t) - 1))
    BY IndicesFinite
  <2>2. IsFiniteSet({t})
    BY FS_Singleton
  <2> QED BY <2>1, <2>2, FS_Product DEF CellsOf
<1>2. IsFiniteSet(CellsOf("single")) /\ IsFiniteSet(CellsOf("double")) /\ IsFiniteSet(CellsOf("triple"))
  BY <1>1 DEF Types
<1>3. IsFiniteSet(CellsOf("single") \cup CellsOf("double"))
  BY <1>2, FS_Union
<1>4. IsFiniteSet(Cells)
  <2> HIDE DEF CellsOf
  <2> QED BY <1>2, <1>3, CellsAre, FS_Union
<1> QED BY <1>1, <1>4

LEMMA CellIsCell ==
  ASSUME NEW t \in Types, NEW v \in 0..(Size(t) - 1)
  PROVE  <<t, v>> \in Cells /\ <<t, v>> \in CellsOf(t)
  BY DEF Cells, CellsOf

\* Every cell of the boards is a cell of the table.
LEMMA BoardCellIsCell ==
  ASSUME game.triplesTab \in Tabs, NEW section \in Sections, NEW i \in 0..(Base * Base - 1)
  PROVE  <<section, Offset(section) + i>> \in Cells
<1>1. CASE section = "double"
  BY <1>1, SizeFacts, CellIsCell, BaseFacts DEF Offset, Types
<1>2. CASE section = "triple"
  <2>1. game.triplesTab * Base * Base + i \in 0..(Base * Base * Base - 1)
    BY TabCell
  <2> QED BY <1>2, <2>1, SizeFacts, CellIsCell DEF Offset, Types
<1> QED BY <1>1, <1>2 DEF Sections

LEMMA CellsOfBoards ==
  ASSUME game.triplesTab \in Tabs, NEW section \in Sections
  PROVE  /\ BoardCells(section) \subseteq Cells
         /\ \A r \in Lines : RowCells(section, r) \subseteq Cells /\ ColCells(section, r) \subseteq Cells
<1>1. BoardCells(section) \subseteq Cells
  BY BoardCellIsCell DEF BoardCells
<1>2. ASSUME NEW r \in Lines
      PROVE  RowCells(section, r) \subseteq Cells
  <2>1. ASSUME NEW c \in Lines
        PROVE  <<section, Offset(section) + r * Base + c>> \in Cells
    <3>1. r * Base + c \in 0..(Base * Base - 1)
      BY LineCell
    <3>2. <<section, Offset(section) + (r * Base + c)>> \in Cells
      BY <3>1, BoardCellIsCell
    <3>3. Offset(section) \in Int /\ r * Base \in Int /\ c \in Int
      BY BaseFacts DEF Offset, Tabs, Lines
    <3>4. Offset(section) + (r * Base + c) = Offset(section) + r * Base + c
      BY <3>3
    <3> QED BY <3>2, <3>4
  <2> QED BY <2>1 DEF RowCells
<1>3. ASSUME NEW r \in Lines
      PROVE  ColCells(section, r) \subseteq Cells
  <2>1. ASSUME NEW c \in Lines
        PROVE  <<section, Offset(section) + c * Base + r>> \in Cells
    <3>1. c * Base + r \in 0..(Base * Base - 1)
      BY LineCell
    <3>2. <<section, Offset(section) + (c * Base + r)>> \in Cells
      BY <3>1, BoardCellIsCell
    <3>3. Offset(section) \in Int /\ c * Base \in Int /\ r \in Int
      BY BaseFacts DEF Offset, Tabs, Lines
    <3>4. Offset(section) + (c * Base + r) = Offset(section) + c * Base + r
      BY <3>3
    <3> QED BY <3>2, <3>4
  <2> QED BY <2>1 DEF ColCells
<1> QED BY <1>1, <1>2, <1>3

\* A row or a column has at most Base cells: what is charged for it covers
\* what is put on it.
LEMMA LineSize ==
  ASSUME NEW section, NEW r \in Lines
  PROVE  /\ Cardinality(RowCells(section, r)) \in Nat /\ Cardinality(RowCells(section, r)) <= Base
         /\ Cardinality(ColCells(section, r)) \in Nat /\ Cardinality(ColCells(section, r)) <= Base
<1>1. IsFiniteSet(Lines) /\ Cardinality(Lines) = Base
  <2>1. 0 \in Int /\ Base - 1 \in Int /\ 0 <= Base - 1
    BY BaseFacts
  <2>2. IsFiniteSet(0..(Base - 1)) /\ Cardinality(0..(Base - 1)) = Base - 1 - 0 + 1
    BY <2>1, FS_Interval
  <2> QED BY <2>2, BaseFacts DEF Lines
<1>2. ASSUME NEW T, NEW g, T = {g[c] : c \in Lines}, g \in [Lines -> T]
      PROVE  Cardinality(T) \in Nat /\ Cardinality(T) <= Base
  <2>1. g \in Surjection(Lines, T)
    BY <1>2 DEF Surjection
  <2>2. IsFiniteSet(T) /\ Cardinality(T) <= Cardinality(Lines)
    BY <1>1, <2>1, FS_Surjection
  <2> QED BY <2>2, <1>1, FS_CardinalityType
<1>3. Cardinality(RowCells(section, r)) \in Nat /\ Cardinality(RowCells(section, r)) <= Base
  <2> DEFINE g == [c \in Lines |-> <<section, Offset(section) + r * Base + c>>]
             T == RowCells(section, r)
  <2>1. T = {g[c] : c \in Lines} /\ g \in [Lines -> T]
    BY DEF RowCells
  <2> HIDE DEF g, T
  <2>2. Cardinality(T) \in Nat /\ Cardinality(T) <= Base
    BY <2>1, <1>2
  <2> QED BY <2>2 DEF T
<1>4. Cardinality(ColCells(section, r)) \in Nat /\ Cardinality(ColCells(section, r)) <= Base
  <2> DEFINE g == [c \in Lines |-> <<section, Offset(section) + c * Base + r>>]
             T == ColCells(section, r)
  <2>1. T = {g[c] : c \in Lines} /\ g \in [Lines -> T]
    BY DEF ColCells
  <2> HIDE DEF g, T
  <2>2. Cardinality(T) \in Nat /\ Cardinality(T) <= Base
    BY <2>1, <1>2
  <2> QED BY <2>2 DEF T
<1> QED BY <1>3, <1>4

-----------------------------------------------------------------------------
(* What a draw pays                                                        *)

LEMMA TypesFinite == IsFiniteSet(Types)
<1>1. Types = ({"single"} \cup {"double"}) \cup {"triple"}
  BY DEF Types
<1>2. IsFiniteSet({"single"}) /\ IsFiniteSet({"double"}) /\ IsFiniteSet({"triple"})
  BY FS_Singleton
<1> QED BY <1>1, <1>2, FS_Union

LEMMA TargetCell ==
  ASSUME NEW t \in Types, NEW triple \in Triples
  PROVE  <<t, Target(t, triple)>> \in Cells /\ Target(t, triple) \in 0..(Size(t) - 1)
<1>1. triple \in Nat /\ Size(t) \in Nat /\ Size(t) >= 1
  BY SizeFacts DEF Triples, Types
<1> DEFINE s == Size(t)
<1>2. triple % s \in 0..(s - 1)
  <2> HIDE DEF s
  <2>1. s \in Nat /\ s >= 1
    BY <1>1 DEF s
  <2> QED BY <1>1, <2>1
<1> QED BY <1>2, CellIsCell DEF Target

LEMMA WinIsNat ==
  ASSUME NEW bets \in [Cells -> Nat], NEW triple \in Triples
  PROVE  settleBets(bets, triple) \in Nat
<1> DEFINE f == [t \in Types |-> bets[<<t, Target(t, triple)>>] * PAYOUT[t]]
<1>1. \A t \in Types : f[t] \in Nat
  <2>1. ASSUME NEW t \in Types
        PROVE  bets[<<t, Target(t, triple)>>] \in Nat /\ PAYOUT[t] \in Nat
    BY TargetCell, TableAssumption
  <2> QED BY <2>1
<1> HIDE DEF f
<1>2. SumOf(f, Types) \in Nat
  BY <1>1, TypesFinite, SumNat
<1> QED BY <1>2 DEF settleBets, f

LEMMA DigitsType ==
  ASSUME NEW triple \in Triples
  PROVE  DigitsOf(Base, triple) \in [1..3 -> 0..(Base - 1)]
<1>1. Base \in Nat /\ Base >= 1 /\ Base * Base \in Nat /\ Base * Base >= 1
  BY BaseFacts
<1>2. triple \in Nat
  BY SizeFacts DEF Triples, Types
<1>3. triple \div (Base * Base) \in Int
  <2> DEFINE B2 == Base * Base
  <2> HIDE DEF B2
  <2>1. B2 \in Nat /\ B2 >= 1
    BY <1>1 DEF B2
  <2>2. triple \div B2 \in Int
    BY <1>2, <2>1
  <2> QED BY <2>2 DEF B2
<1>4. triple \div Base \in Int
  BY <1>1, <1>2
<1>5. \A n \in Int : n % Base \in 0..(Base - 1)
  BY <1>1
<1> DEFINE a == (triple \div (Base * Base)) % Base
           b == (triple \div Base) % Base
           c == triple % Base
<1>6. a \in 0..(Base - 1) /\ b \in 0..(Base - 1) /\ c \in 0..(Base - 1)
  BY <1>2, <1>3, <1>4, <1>5
<1> HIDE DEF a, b, c
<1>7. <<a, b, c>> \in [1..3 -> 0..(Base - 1)]
  BY <1>6
<1> QED BY <1>7 DEF DigitsOf, a, b, c

LEMMA RevealedType ==
  ASSUME NEW elapsed
  PROVE  RevealedDigitCount(elapsed) \in 0..3
<1>1. IsFiniteSet(1..3) /\ Cardinality(1..3) = 3
  <2>1. 1 \in Int /\ 3 \in Int /\ 1 <= 3 /\ 3 - 1 + 1 = 3
    OBVIOUS
  <2>2. \A a, b \in Int : a <= b => IsFiniteSet(a..b) /\ Cardinality(a..b) = b - a + 1
    BY FS_Interval
  <2>3. IsFiniteSet(1..3) /\ Cardinality(1..3) = 3 - 1 + 1
    BY <2>1, <2>2
  <2> QED BY <2>1, <2>3
<1> DEFINE R == {r \in Rings : elapsed >= RING_STOP_MS[r]}
<1>2. R \subseteq 1..3
  BY DEF Rings
<1> HIDE DEF R
<1>3. Cardinality(R) \in Nat /\ Cardinality(R) <= 3
  BY <1>1, <1>2, FS_Subset, FS_CardinalityType
<1>4. Cardinality(R) \in 0..3
  BY <1>3
<1> QED BY <1>4, Zenon DEF RevealedDigitCount, R

-----------------------------------------------------------------------------
(* What the player can do                                                  *)

\* A handler of the boards or of the action bar: points move between the
\* balance and the stake, on a table rendered open, and the stake stays that
\* of the bets.
BetStep ==
  /\ ~locked /\ game.phase = "BETTING" /\ game.secondsLeft >= LockSeconds
  /\ UNCHANGED <<screen, react>>
  /\ unaccounted' \in Nat
  /\ \E balance, stake \in Nat, bets \in [Cells -> Nat] :
        /\ balance + stake = game.pointsBalance + game.playStake
        /\ stake = SumOf(bets, Cells) + unaccounted'
        /\ game' = [game EXCEPT !.pointsBalance = balance, !.playStake = stake, !.bets = bets]

\* A message, another chip or another tab.
MinorStep ==
  /\ UNCHANGED <<screen, react, unaccounted>>
  /\ \E message \in Statuses, chip \in availableChips \cup {2}, tab \in Tabs :
        game' = [game EXCEPT !.statusMessage = message, !.selectedChip = chip, !.triplesTab = tab]

LEMMA GameFacts ==
  ASSUME TableTypeOK
  PROVE  /\ game.phase \in Phases /\ game.secondsLeft \in 0..OpenSeconds
         /\ game.pointsBalance \in Nat /\ game.playStake \in Nat /\ game.winAmount \in Nat
         /\ game.selectedChip \in availableChips \cup {2} /\ game.selectedChip \in Nat
         /\ game.bets \in [Cells -> Nat] /\ game.previousBets \in [Cells -> Nat]
         /\ game.triplesTab \in Tabs /\ game.drawResult \in Triples \cup {None}
         /\ game.statusMessage \in Statuses
         /\ game = [game EXCEPT !.phase = game.phase]
         /\ unaccounted \in Int
  BY TableAssumption DEF TableTypeOK, GameState

LEMMA BetSums ==
  ASSUME NEW bets, \A c \in Cells : bets[c] \in Nat
  PROVE  /\ SumOf(bets, Cells) \in Nat
         /\ \A c \in Cells : SumOf(bets, Cells) >= bets[c]
         /\ \A A \in SUBSET Cells :
               /\ SumOf(bets, A) \in Nat /\ SumOf(bets, Cells \ A) \in Nat
               /\ SumOf(bets, Cells) = SumOf(bets, A) + SumOf(bets, Cells \ A)
<1>1. IsFiniteSet(Cells) /\ (\A c \in Cells : bets[c] \in Nat) /\ (\A c \in Cells : bets[c] \in Int)
  BY BoardsFinite
<1>2. SumOf(bets, Cells) \in Nat /\ \A c \in Cells : SumOf(bets, Cells) >= bets[c]
  BY <1>1, SumNat
<1>3. ASSUME NEW A \in SUBSET Cells
      PROVE  /\ SumOf(bets, A) \in Nat /\ SumOf(bets, Cells \ A) \in Nat
             /\ SumOf(bets, Cells) = SumOf(bets, A) + SumOf(bets, Cells \ A)
  <2>1. IsFiniteSet(A) /\ IsFiniteSet(Cells \ A)
    BY <1>1, FS_Subset, FS_Difference
  <2>2. \A c \in A : bets[c] \in Nat
    BY <1>1
  <2>3. SumOf(bets, A) \in Nat
    BY <2>1, <2>2, SumNat
  <2> DEFINE B == Cells \ A
  <2>4. \A c \in B : bets[c] \in Nat
    BY <1>1
  <2>5. SumOf(bets, B) \in Nat
    <3> HIDE DEF B
    <3>1. IsFiniteSet(B)
      BY <2>1 DEF B
    <3> QED BY <3>1, <2>4, SumNat
  <2>6. SumOf(bets, Cells) = SumOf(bets, A) + SumOf(bets, B)
    <3>1. \A c \in Cells : bets[c] \in Int
      BY <1>1
    <3>2. A \in SUBSET Cells /\ IsFiniteSet(Cells)
      BY <1>1
    <3> QED BY <3>1, <3>2, SumParts
  <2> QED BY <2>3, <2>5, <2>6
<1> QED BY <1>2, <1>3

\* A handler that looks at the lock finds the table open, and no stake that
\* the bets exceed.
LEMMA MayBetOpen ==
  ASSUME GInv, MayBet
  PROVE  /\ ~locked /\ game.phase = "BETTING" /\ game.secondsLeft >= LockSeconds
         /\ unaccounted \in Nat
         /\ game.playStake = SumOf(game.bets, Cells) + unaccounted
<1>1. ~locked /\ game.phase = "BETTING" /\ game.secondsLeft >= LockSeconds
  BY DEF GInv, MayBet, LockInv
<1>2. unaccounted \in Int /\ unaccounted >= 0
  BY <1>1, GameFacts DEF GInv, StakesInv
<1> QED BY <1>1, <1>2 DEF GInv, StakesInv

\* A refusal only says so.
LEMMA RefuseStep ==
  ASSUME GInv, NEW cost, Refuse(cost)
  PROVE  MinorStep
<1>1. game.selectedChip \in availableChips \cup {2} /\ game.triplesTab \in Tabs
  BY GameFacts DEF GInv
<1>2. game' = [game EXCEPT !.statusMessage = "Insufficient points",
                           !.selectedChip = game.selectedChip, !.triplesTab = game.triplesTab]
  BY DEF Refuse, GInv, TableTypeOK, GameState
<1>3. "Insufficient points" \in Statuses
  BY DEF Statuses
<1>4. UNCHANGED <<screen, react, unaccounted>>
  BY DEF Refuse, OnlyGame
<1>5. \E message \in Statuses, chip \in availableChips \cup {2}, tab \in Tabs :
        game' = [game EXCEPT !.statusMessage = message, !.selectedChip = chip, !.triplesTab = tab]
  BY <1>1, <1>2, <1>3, Zenon
<1> QED BY <1>4, <1>5, Zenon DEF MinorStep

\* Staking on cells, when the balance covers a chip on each.
LEMMA StakedStep ==
  ASSUME GInv, MayBet, NEW cells \in SUBSET Cells,
         game.pointsBalance >= game.selectedChip * Cardinality(cells),
         game' = Staked(cells), OnlyGame
  PROVE  BetStep
<1> DEFINE chip == game.selectedChip
           cost == chip * Cardinality(cells)
           bets == [c \in Cells |-> game.bets[c] + IF c \in cells THEN chip ELSE 0]
           each == [c \in cells |-> chip]
<1>1. /\ game.pointsBalance \in Nat /\ game.playStake \in Nat /\ chip \in Nat
      /\ game.bets \in [Cells -> Nat]
  BY GameFacts DEF GInv
<1>2. IsFiniteSet(cells) /\ IsFiniteSet(Cells)
  BY BoardsFinite, FS_Subset
<1>3. cost \in Nat
  BY <1>1, <1>2, FS_CardinalityType
<1>4. bets \in [Cells -> Nat]
  BY <1>1
<1>5. game' = [game EXCEPT !.pointsBalance = game.pointsBalance - cost,
                           !.playStake = game.playStake + cost, !.bets = bets]
  BY DEF Staked
<1>6. \A c \in cells : each[c] = chip /\ each[c] \in Int /\ bets[c] = game.bets[c] + 1 * each[c]
  BY <1>1
<1>7. \A c \in Cells \ cells : bets[c] = game.bets[c]
  BY <1>1
<1>8. game.pointsBalance - cost \in Nat /\ game.playStake + cost \in Nat
  BY <1>1, <1>3
<1> HIDE DEF bets, each
<1>9. SumOf(each, cells) = cost
  BY <1>1, <1>2, <1>6, SumConstant
<1>10. SumOf(bets, Cells) = SumOf(game.bets, Cells) + 1 * SumOf(each, cells)
  <2>1. \A c \in Cells : game.bets[c] \in Int
    BY <1>1
  <2> QED BY <1>2, <1>6, <1>7, <2>1, SumChange
<1> HIDE DEF cost, chip
<1>11. SumOf(game.bets, Cells) \in Nat
  BY <1>1, BetSums
<1>12. game.playStake + cost = SumOf(bets, Cells) + unaccounted
  BY <1>1, <1>3, <1>9, <1>10, <1>11, MayBetOpen
<1>13. game.pointsBalance - cost + (game.playStake + cost) = game.pointsBalance + game.playStake
  BY <1>1, <1>3
<1>14. /\ ~locked /\ game.phase = "BETTING" /\ game.secondsLeft >= LockSeconds
       /\ UNCHANGED <<screen, react>> /\ unaccounted' = unaccounted /\ unaccounted \in Nat
  BY MayBetOpen DEF OnlyGame
<1> DEFINE balance == game.pointsBalance - cost
           stake   == game.playStake + cost
<1>15. /\ balance \in Nat /\ stake \in Nat
       /\ balance + stake = game.pointsBalance + game.playStake
       /\ stake = SumOf(bets, Cells) + unaccounted'
       /\ game' = [game EXCEPT !.pointsBalance = balance, !.playStake = stake, !.bets = bets]
  BY <1>5, <1>8, <1>12, <1>13, <1>14
<1> HIDE DEF balance, stake
<1>16. \E kept, staked \in Nat, all \in [Cells -> Nat] :
         /\ kept + staked = game.pointsBalance + game.playStake
         /\ staked = SumOf(all, Cells) + unaccounted'
         /\ game' = [game EXCEPT !.pointsBalance = kept, !.playStake = staked, !.bets = all]
  BY <1>4, <1>15
<1>17. unaccounted' \in Nat
  BY <1>14
<1> QED BY <1>14, <1>16, <1>17 DEF BetStep

\* Stepping cells down by the chip, or to nothing: what is taken off is what
\* is given back.
LEMMA SteppedDownStep ==
  ASSUME GInv, MayBet, NEW cells \in SUBSET Cells, game' = SteppedDown(cells), OnlyGame
  PROVE  BetStep
<1> DEFINE chip == game.selectedChip
           refund == Refund(cells)
           off == [c \in cells |-> Decrement(c)]
           bets == [c \in Cells |-> IF c \in cells THEN game.bets[c] - Decrement(c) ELSE game.bets[c]]
<1>1. /\ game.pointsBalance \in Nat /\ game.playStake \in Nat /\ chip \in Nat
      /\ game.bets \in [Cells -> Nat]
  BY GameFacts DEF GInv
<1>2. IsFiniteSet(cells) /\ IsFiniteSet(Cells)
  BY BoardsFinite, FS_Subset
<1>3. \A c \in cells : Decrement(c) \in Nat /\ game.bets[c] - Decrement(c) \in Nat
  BY <1>1 DEF Decrement, Least
<1>4. bets \in [Cells -> Nat]
  BY <1>1, <1>3
<1>5. game' = [game EXCEPT !.pointsBalance = game.pointsBalance + refund,
                           !.playStake = Positive(game.playStake - refund), !.bets = bets]
  BY DEF SteppedDown
<1>6. \A c \in cells : off[c] \in Nat /\ off[c] \in Int /\ bets[c] = game.bets[c] + (-1) * off[c]
  <2>1. ASSUME NEW c \in cells
        PROVE  off[c] \in Nat /\ off[c] \in Int /\ bets[c] = game.bets[c] + (-1) * off[c]
    <3>1. off[c] = Decrement(c) /\ bets[c] = game.bets[c] - Decrement(c)
      BY <1>1
    <3>2. Decrement(c) \in Nat /\ game.bets[c] \in Nat
      BY <1>1, <1>3
    <3> HIDE DEF off, bets
    <3> QED BY <3>1, <3>2
  <2> QED BY <2>1
<1>7. \A c \in Cells \ cells : bets[c] = game.bets[c]
  BY <1>1
<1>8. refund = SumOf(off, cells)
  BY DEF Refund
<1> HIDE DEF bets, off, refund
<1>9. refund \in Nat
  BY <1>2, <1>6, <1>8, SumNat
<1>10. SumOf(bets, Cells) = SumOf(game.bets, Cells) + (-1) * SumOf(off, cells)
  <2>1. \A c \in Cells : game.bets[c] \in Int
    BY <1>1
  <2>2. -1 \in Int
    OBVIOUS
  <2>3. \A c \in cells : off[c] \in Int /\ bets[c] = game.bets[c] + (-1) * off[c]
    BY <1>6
  <2> QED BY <1>2, <2>3, <1>7, <2>1, <2>2, SumChange
<1>11. SumOf(game.bets, Cells) \in Nat /\ SumOf(bets, Cells) \in Nat
  <2>1. (\A c \in Cells : game.bets[c] \in Nat) /\ \A c \in Cells : bets[c] \in Nat
    BY <1>1, <1>4
  <2> QED BY <2>1, BetSums
<1>12. SumOf(bets, Cells) = SumOf(game.bets, Cells) - refund
  BY <1>8, <1>9, <1>10, <1>11
<1>13. game.playStake - refund = SumOf(bets, Cells) + unaccounted /\ unaccounted \in Nat
  BY <1>1, <1>9, <1>11, <1>12, MayBetOpen
<1>14. Positive(game.playStake - refund) = game.playStake - refund /\ game.playStake - refund \in Nat
  BY <1>1, <1>9, <1>11, <1>13 DEF Positive
<1>15. game.pointsBalance + refund + (game.playStake - refund) = game.pointsBalance + game.playStake
  BY <1>1, <1>9
<1>16. game.pointsBalance + refund \in Nat
  BY <1>1, <1>9
<1> DEFINE stake == game.playStake - refund
<1>17. /\ game.pointsBalance + refund + stake = game.pointsBalance + game.playStake
       /\ stake = SumOf(bets, Cells) + unaccounted' /\ stake \in Nat
       /\ game' = [game EXCEPT !.pointsBalance = game.pointsBalance + refund,
                                !.playStake = stake, !.bets = bets]
  BY <1>5, <1>13, <1>14, <1>15 DEF OnlyGame
<1> HIDE DEF stake
<1>18. \E b, s \in Nat, x \in [Cells -> Nat] :
        /\ b + s = game.pointsBalance + game.playStake
        /\ s = SumOf(x, Cells) + unaccounted'
        /\ game' = [game EXCEPT !.pointsBalance = b, !.playStake = s, !.bets = x]
  BY <1>4, <1>16, <1>17, Zenon
<1> QED BY <1>13, <1>18, MayBetOpen DEF BetStep, OnlyGame

\* A random pick: the stakes on the board are exchanged for the chips on the
\* cells picked.
LEMMA RandomPickStep ==
  ASSUME GInv, NEW section \in Sections, NEW count \in Nat, RandomPick(section, count)
  PROVE  BetStep \/ MinorStep
<1> DEFINE board == BoardCells(section)
           n == Least(count, Cardinality(board))
           chip == game.selectedChip
           before == SumOf(game.bets, board)
           net == chip * n - before
<1>1. /\ game.pointsBalance \in Nat /\ game.playStake \in Nat /\ chip \in Nat
      /\ game.bets \in [Cells -> Nat] /\ game.triplesTab \in Tabs
  BY GameFacts DEF GInv
<1>2. board \in SUBSET Cells
  BY <1>1, CellsOfBoards
<1>3. IsFiniteSet(board) /\ IsFiniteSet(Cells)
  BY <1>2, BoardsFinite, FS_Subset
<1>4. n \in Nat
  BY <1>3, FS_CardinalityType DEF Least
<1>5. MayBet /\ (Refuse(net) \/ game.pointsBalance >= net)
  BY DEF RandomPick
<1>6. CASE Refuse(net)
  BY <1>6, RefuseStep
<1>7. ASSUME game.pointsBalance >= net, OnlyGame, NEW picked \in kSubset(n, board),
             game' = [game EXCEPT
                       !.pointsBalance = @ - net,
                       !.playStake = @ + net,
                       !.bets = [c \in Cells |->
                                   IF c \in picked THEN chip
                                   ELSE IF c \in board THEN 0 ELSE @[c]]]
      PROVE  BetStep
  <2> DEFINE bets == [c \in Cells |-> IF c \in picked THEN chip
                                      ELSE IF c \in board THEN 0 ELSE game.bets[c]]
             rest == Cells \ board
             off  == board \ picked
  <2>1. picked \in SUBSET board /\ Cardinality(picked) = n
    BY <1>7 DEF kSubset
  <2>2. bets \in [Cells -> Nat]
    BY <1>1
  <2>3. game' = [game EXCEPT !.pointsBalance = game.pointsBalance - net,
                             !.playStake = game.playStake + net, !.bets = bets]
    BY <1>7
  <2>4. /\ \A c \in rest : bets[c] = game.bets[c]
        /\ \A c \in picked : bets[c] = chip
        /\ \A c \in off : bets[c] = 0
        /\ \A c \in Cells : bets[c] \in Nat /\ game.bets[c] \in Nat
    BY <1>1, <1>2, <2>1, <2>2
  <2>5. IsFiniteSet(picked) /\ IsFiniteSet(rest) /\ IsFiniteSet(off)
    BY <1>3, <2>1, FS_Subset, FS_Difference
  <2> HIDE DEF bets, n, chip, board
  <2>6. SumOf(bets, picked) = chip * n
    BY <1>1, <2>1, <2>4, <2>5, SumConstant
  <2>7. SumOf(bets, off) = 0
    <3> HIDE DEF off
    <3> QED BY <2>4, <2>5, SumZero
  <2>8. SumOf(bets, board) = SumOf(bets, picked) + SumOf(bets, off)
    <3>1. \A c \in board : bets[c] \in Int
      BY <1>2, <2>4
    <3> QED BY <1>3, <2>1, <3>1, SumParts
  <2>9. SumOf(bets, rest) = SumOf(game.bets, rest)
    <3>1. \A c \in rest : game.bets[c] \in Int /\ bets[c] = game.bets[c]
      BY <2>4
    <3> HIDE DEF rest
    <3> QED BY <2>5, <3>1, SumEqual
  <2>10. /\ SumOf(bets, Cells) = SumOf(bets, board) + SumOf(bets, rest)
         /\ SumOf(bets, Cells) \in Nat
    <3>1. \A c \in Cells : bets[c] \in Nat
      BY <2>4
    <3> QED BY <1>2, <3>1, BetSums
  <2>11. /\ SumOf(game.bets, Cells) = before + SumOf(game.bets, rest)
         /\ SumOf(game.bets, Cells) \in Nat /\ SumOf(game.bets, rest) \in Nat
         /\ before \in Nat
    <3>1. \A c \in Cells : game.bets[c] \in Nat
      BY <2>4
    <3> QED BY <1>2, <3>1, BetSums
  <2> HIDE DEF before, rest, off
  <2>12. chip * n \in Nat /\ net \in Int
    BY <1>1, <1>4, <2>11
  <2>13. SumOf(bets, Cells) = SumOf(game.bets, Cells) + net
    BY <2>6, <2>7, <2>8, <2>9, <2>10, <2>11, <2>12
  <2> HIDE DEF net
  <2>14. /\ game.playStake + net = SumOf(bets, Cells) + unaccounted
         /\ game.playStake + net \in Nat /\ unaccounted \in Nat
    <3>1. unaccounted \in Nat /\ game.playStake = SumOf(game.bets, Cells) + unaccounted
      BY <1>5, MayBetOpen
    <3> QED BY <3>1, <2>10, <2>11, <2>12, <2>13
  <2>15. game.pointsBalance - net \in Nat
         /\ game.pointsBalance - net + (game.playStake + net) = game.pointsBalance + game.playStake
    BY <1>1, <1>7, <2>12
  <2> DEFINE stake == game.playStake + net
             balance == game.pointsBalance - net
  <2>16. /\ balance + stake = game.pointsBalance + game.playStake
         /\ stake = SumOf(bets, Cells) + unaccounted' /\ stake \in Nat /\ balance \in Nat
         /\ game' = [game EXCEPT !.pointsBalance = balance, !.playStake = stake, !.bets = bets]
    BY <1>7, <2>3, <2>14, <2>15 DEF OnlyGame
  <2> HIDE DEF stake, balance
  <2>17. \E b, s \in Nat, x \in [Cells -> Nat] :
          /\ b + s = game.pointsBalance + game.playStake
          /\ s = SumOf(x, Cells) + unaccounted'
          /\ game' = [game EXCEPT !.pointsBalance = b, !.playStake = s, !.bets = x]
    BY <2>2, <2>16, Zenon
  <2> QED BY <1>5, <1>7, <2>14, <2>17, MayBetOpen DEF BetStep, OnlyGame
<1> QED BY <1>5, <1>6, <1>7 DEF RandomPick

LEMMA DoubleStep ==
  ASSUME GInv, Double
  PROVE  BetStep \/ MinorStep
<1>1. /\ game.pointsBalance \in Nat /\ game.playStake \in Nat /\ game.bets \in [Cells -> Nat]
  BY GameFacts DEF GInv
<1>2. MayBet /\ (Refuse(game.playStake) \/ game.pointsBalance >= game.playStake)
  BY DEF Double
<1>3. CASE Refuse(game.playStake)
  BY <1>3, RefuseStep
<1>4. ASSUME game.pointsBalance >= game.playStake, ~Refuse(game.playStake)
      PROVE  BetStep
  <2> DEFINE bets == [c \in Cells |-> 2 * game.bets[c]]
             balance == game.pointsBalance - game.playStake
             stake == 2 * game.playStake
  <2>1. /\ game' = [game EXCEPT !.pointsBalance = balance, !.playStake = stake, !.bets = bets]
        /\ unaccounted' = 2 * unaccounted
        /\ UNCHANGED <<screen, react>>
    BY <1>4 DEF Double
  <2>2. bets \in [Cells -> Nat] /\ balance \in Nat /\ stake \in Nat
        /\ balance + stake = game.pointsBalance + game.playStake
    BY <1>1, <1>4
  <2>3. \A c \in Cells : game.bets[c] \in Nat /\ game.bets[c] \in Int /\ bets[c] = game.bets[c] + 1 * game.bets[c]
    BY <1>1
  <2> HIDE DEF bets
  <2>4. SumOf(bets, Cells) = SumOf(game.bets, Cells) + 1 * SumOf(game.bets, Cells)
    BY <2>3, BoardsFinite, SumLinear
  <2>5. SumOf(game.bets, Cells) \in Nat
    BY <2>3, BetSums
  <2>6. unaccounted \in Nat /\ game.playStake = SumOf(game.bets, Cells) + unaccounted
    BY <1>2, MayBetOpen
  <2>7. stake = SumOf(bets, Cells) + unaccounted' /\ unaccounted' \in Nat
    BY <2>1, <2>4, <2>5, <2>6
  <2> HIDE DEF balance, stake
  <2>8. \E b, s \in Nat, x \in [Cells -> Nat] :
          /\ b + s = game.pointsBalance + game.playStake
          /\ s = SumOf(x, Cells) + unaccounted'
          /\ game' = [game EXCEPT !.pointsBalance = b, !.playStake = s, !.bets = x]
    BY <2>1, <2>2, <2>7, Zenon
  <2> QED BY <1>2, <2>1, <2>7, <2>8, MayBetOpen DEF BetStep
<1> QED BY <1>2, <1>3, <1>4

\* REPEAT charges the last round's bets in full; what it writes over is what
\* `unaccounted' grows by.
LEMMA RepeatStep ==
  ASSUME GInv, Repeat
  PROVE  BetStep \/ MinorStep
<1> DEFINE prev == game.previousBets
           total == SumOf(prev, Cells)
           again == {c \in Cells : prev[c] > 0}
           rest == Cells \ again
<1>1. /\ game.pointsBalance \in Nat /\ game.playStake \in Nat
      /\ game.bets \in [Cells -> Nat] /\ prev \in [Cells -> Nat]
  BY GameFacts DEF GInv
<1>2. MayBet /\ (Refuse(total) \/ game.pointsBalance >= total)
  BY DEF Repeat
<1>3. CASE Refuse(total)
  BY <1>3, RefuseStep
<1>4. ASSUME game.pointsBalance >= total, ~Refuse(total)
      PROVE  BetStep
  <2> DEFINE bets == [c \in Cells |-> IF c \in again THEN prev[c] ELSE game.bets[c]]
             balance == game.pointsBalance - total
             stake == game.playStake + total
             lost == SumOf(game.bets, again)
  <2>1. /\ game' = [game EXCEPT !.pointsBalance = balance, !.playStake = stake, !.bets = bets]
        /\ unaccounted' = unaccounted + lost
        /\ UNCHANGED <<screen, react>>
    BY <1>4 DEF Repeat
  <2>2. bets \in [Cells -> Nat]
    BY <1>1
  <2>3. /\ \A c \in Cells : game.bets[c] \in Nat /\ bets[c] \in Nat /\ prev[c] \in Nat
        /\ \A c \in again : prev[c] \in Int /\ bets[c] = prev[c]
        /\ \A c \in rest : game.bets[c] \in Int /\ bets[c] = game.bets[c] /\ prev[c] = 0
    BY <1>1
  <2>4. again \in SUBSET Cells
    OBVIOUS
  <2>5. IsFiniteSet(again) /\ IsFiniteSet(rest)
    BY <2>4, BoardsFinite, FS_Subset, FS_Difference
  <2>6. rest = Cells \ again
    OBVIOUS
  <2> HIDE DEF bets, prev, again, rest
  <2>7. /\ SumOf(bets, Cells) = SumOf(bets, again) + SumOf(bets, rest)
        /\ SumOf(game.bets, Cells) = SumOf(game.bets, again) + SumOf(game.bets, rest)
        /\ SumOf(prev, Cells) = SumOf(prev, again) + SumOf(prev, rest)
        /\ SumOf(game.bets, again) \in Nat /\ SumOf(game.bets, rest) \in Nat
        /\ SumOf(prev, again) \in Nat
    <3>1. (\A c \in Cells : bets[c] \in Nat) /\ (\A c \in Cells : game.bets[c] \in Nat)
          /\ (\A c \in Cells : prev[c] \in Nat)
      BY <2>3
    <3> QED BY <2>4, <2>6, <3>1, BetSums
  <2>8. SumOf(bets, again) = SumOf(prev, again)
    BY <2>3, <2>5, SumEqual
  <2>9. SumOf(bets, rest) = SumOf(game.bets, rest)
    <3>1. \A c \in rest : game.bets[c] \in Int /\ bets[c] = game.bets[c]
      BY <2>3
    <3> QED BY <2>5, <3>1, SumEqual
  <2>10. SumOf(prev, rest) = 0
    <3>1. \A c \in rest : prev[c] = 0
      BY <2>3
    <3> QED BY <2>5, <3>1, SumZero
  <2>11. unaccounted \in Nat /\ game.playStake = SumOf(game.bets, Cells) + unaccounted
    BY <1>2, MayBetOpen
  <2>12. stake = SumOf(bets, Cells) + unaccounted' /\ unaccounted' \in Nat /\ total \in Nat
    BY <2>1, <2>7, <2>8, <2>9, <2>10, <2>11
  <2>13. balance \in Nat /\ stake \in Nat /\ balance + stake = game.pointsBalance + game.playStake
    <3> HIDE DEF total
    <3> QED BY <1>1, <1>4, <2>12
  <2> HIDE DEF balance, stake
  <2>14. \E b, s \in Nat, x \in [Cells -> Nat] :
          /\ b + s = game.pointsBalance + game.playStake
          /\ s = SumOf(x, Cells) + unaccounted'
          /\ game' = [game EXCEPT !.pointsBalance = b, !.playStake = s, !.bets = x]
    BY <2>1, <2>2, <2>12, <2>13, Zenon
  <2> QED BY <1>2, <2>1, <2>12, <2>14, MayBetOpen DEF BetStep
<1> QED BY <1>2, <1>3, <1>4

LEMMA NoBetsSum == NoBets \in [Cells -> Nat] /\ SumOf(NoBets, Cells) = 0
<1>1. NoBets \in [Cells -> Nat] /\ \A c \in Cells : NoBets[c] = 0
  BY DEF NoBets
<1> QED BY <1>1, BoardsFinite, SumZero

LEMMA ClearStep ==
  ASSUME GInv, Clear
  PROVE  BetStep
<1> DEFINE balance == game.pointsBalance + game.playStake
<1>1. balance \in Nat /\ balance + 0 = game.pointsBalance + game.playStake
  BY GameFacts DEF GInv
<1>2. game' = [game EXCEPT !.pointsBalance = balance, !.playStake = 0, !.bets = NoBets]
      /\ unaccounted' = 0 /\ UNCHANGED <<screen, react>> /\ MayBet
  BY DEF Clear
<1>3. 0 = SumOf(NoBets, Cells) + unaccounted' /\ 0 \in Nat
  BY <1>2, NoBetsSum
<1> HIDE DEF balance
<1>4. \E b, s \in Nat, x \in [Cells -> Nat] :
        /\ b + s = game.pointsBalance + game.playStake
        /\ s = SumOf(x, Cells) + unaccounted'
        /\ game' = [game EXCEPT !.pointsBalance = b, !.playStake = s, !.bets = x]
  BY <1>1, <1>2, <1>3, NoBetsSum, Zenon
<1> QED BY <1>2, <1>4, MayBetOpen DEF BetStep

LEMMA ChipStep ==
  ASSUME GInv, NEW chip \in availableChips, SelectChip(chip)
  PROVE  MinorStep
<1>1. game.statusMessage \in Statuses /\ game.triplesTab \in Tabs /\ chip \in availableChips \cup {2}
  BY GameFacts DEF GInv
<1>2. game' = [game EXCEPT !.statusMessage = game.statusMessage,
                           !.selectedChip = chip, !.triplesTab = game.triplesTab]
  BY DEF SelectChip, GInv, TableTypeOK, GameState
<1>3. UNCHANGED <<screen, react, unaccounted>>
  BY DEF SelectChip, OnlyGame
<1>4. \E m \in Statuses, p \in availableChips \cup {2}, t \in Tabs :
        game' = [game EXCEPT !.statusMessage = m, !.selectedChip = p, !.triplesTab = t]
  BY <1>1, <1>2, Zenon
<1> QED BY <1>3, <1>4, Zenon DEF MinorStep

LEMMA TabStep ==
  ASSUME GInv, NEW tab \in Tabs, ChangeTab(tab)
  PROVE  MinorStep
<1>1. game.statusMessage \in Statuses /\ game.selectedChip \in availableChips \cup {2}
  BY GameFacts DEF GInv
<1>2. game' = [game EXCEPT !.statusMessage = game.statusMessage,
                           !.selectedChip = game.selectedChip, !.triplesTab = tab]
  BY DEF ChangeTab, GInv, TableTypeOK, GameState
<1>3. UNCHANGED <<screen, react, unaccounted>>
  BY DEF ChangeTab, OnlyGame
<1>4. \E m \in Statuses, p \in availableChips \cup {2}, t \in Tabs :
        game' = [game EXCEPT !.statusMessage = m, !.selectedChip = p, !.triplesTab = t]
  BY <1>1, <1>2, Zenon
<1> QED BY <1>3, <1>4, Zenon DEF MinorStep

\* A cell, left or right click.
LEMMA CellStep ==
  ASSUME GInv, NEW cell \in Cells, CellButton(cell)
  PROVE  BetStep \/ MinorStep
<1>1. Cardinality({cell}) = 1 /\ game.selectedChip \in Nat
  BY FS_Singleton, GameFacts DEF GInv
<1>2. ASSUME PlaceBet(cell), ~Refuse(game.selectedChip)
      PROVE  BetStep
  <2>1. /\ game.pointsBalance >= game.selectedChip * Cardinality({cell})
        /\ game' = Staked({cell}) /\ OnlyGame /\ MayBet
    BY <1>1, <1>2 DEF PlaceBet
  <2>2. {cell} \in SUBSET Cells
    OBVIOUS
  <2> QED BY <2>1, <2>2, StakedStep
<1>3. CASE Refuse(game.selectedChip)
  BY <1>3, RefuseStep
<1>4. ASSUME RemoveBet(cell)
      PROVE  BetStep
  <2>1. game' = SteppedDown({cell}) /\ OnlyGame /\ MayBet
    BY <1>4 DEF RemoveBet
  <2>2. {cell} \in SUBSET Cells
    OBVIOUS
  <2> QED BY <2>1, <2>2, SteppedDownStep
<1> QED BY <1>2, <1>3, <1>4 DEF CellButton, LeftClick

\* An arrow: a line of cells that Base chips pay for.
LEMMA LineStep ==
  ASSUME GInv, NEW cells \in SUBSET Cells, Cardinality(cells) \in Nat, Cardinality(cells) <= Base,
         StakeLine(cells) \/ UndoLine(cells)
  PROVE  BetStep \/ MinorStep
<1>1. ASSUME StakeLine(cells), ~Refuse(game.selectedChip * Base)
      PROVE  BetStep
  <2>1. /\ game.pointsBalance >= game.selectedChip * Base
        /\ game' = Staked(cells) /\ OnlyGame /\ MayBet
    BY <1>1 DEF StakeLine
  <2>2. game.selectedChip \in Nat /\ game.pointsBalance \in Nat /\ Base \in Nat
    BY GameFacts, BaseFacts DEF GInv
  <2>3. game.pointsBalance >= game.selectedChip * Cardinality(cells)
    <3> DEFINE k == Cardinality(cells)
               p == game.selectedChip
    <3>1. k \in Nat /\ k <= Base /\ p \in Nat /\ Base \in Nat
      BY <2>2
    <3> HIDE DEF k, p
    <3>2. p * (Base - k) \in Nat /\ p * (Base - k) = p * Base - p * k
      BY <3>1
    <3>3. p * Base \in Nat /\ p * k \in Nat
      BY <3>1
    <3>4. p * k <= p * Base
      BY <3>2, <3>3
    <3>5. game.pointsBalance >= p * Base
      BY <2>1 DEF p
    <3>6. game.pointsBalance >= p * k
      BY <2>2, <3>3, <3>4, <3>5
    <3> QED BY <3>6 DEF k, p
  <2> QED BY <2>1, <2>3, StakedStep
<1>2. CASE Refuse(game.selectedChip * Base)
  BY <1>2, RefuseStep
<1>3. CASE UndoLine(cells)
  BY <1>3, SteppedDownStep DEF UndoLine
<1> QED BY <1>1, <1>2, <1>3

\* Whatever the player does is one of the two.
LEMMA PlayerSteps ==
  ASSUME GInv, Player
  PROVE  BetStep \/ MinorStep
<1>1. game.triplesTab \in Tabs
  BY GameFacts DEF GInv
<1>2. CASE DoubleCells
  <2>1. PICK v \in 0..(Size("double") - 1) : CellButton(<<"double", v>>)
    BY <1>2 DEF DoubleCells
  <2> QED BY <2>1, CellIsCell, CellStep DEF Types
<1>3. CASE SingleCells
  <2>1. PICK v \in 0..(Base - 1) : CellButton(<<"single", v>>)
    BY <1>3 DEF SingleCells
  <2>2. v \in 0..(Size("single") - 1)
    BY <2>1, SizeFacts
  <2> QED BY <2>1, <2>2, CellIsCell, CellStep DEF Types
<1>4. CASE TripleCells
  <2>1. PICK i \in 0..(Size("double") - 1) : CellButton(<<"triple", Offset("triple") + i>>)
    BY <1>4 DEF TripleCells
  <2>2. <<"triple", Offset("triple") + i>> \in Cells
    BY <1>1, <2>1, SizeFacts, BoardCellIsCell DEF Sections
  <2> QED BY <2>1, <2>2, CellStep
<1>5. ASSUME NEW section \in Sections, NEW r \in Lines,
             RowArrow(section, r) \/ ColArrow(section, r)
      PROVE  BetStep \/ MinorStep
  <2>1. RowCells(section, r) \in SUBSET Cells /\ ColCells(section, r) \in SUBSET Cells
    BY <1>1, CellsOfBoards
  <2>2. \/ StakeLine(RowCells(section, r)) \/ UndoLine(RowCells(section, r))
        \/ StakeLine(ColCells(section, r)) \/ UndoLine(ColCells(section, r))
    BY <1>5 DEF RowArrow, ColArrow, LeftClick, QuickRow, QuickRowUndo, QuickCol, QuickColUndo
  <2> QED BY <2>1, <2>2, LineSize, LineStep
<1>6. CASE DoubleRows \/ DoubleColumns \/ TripleRows \/ TripleColumns
  BY <1>5, <1>6 DEF DoubleRows, DoubleColumns, TripleRows, TripleColumns, Sections
<1>7. CASE DoublePicks \/ TriplePicks
  <2>1. PICK section \in Sections : \E k \in RANDOM_COUNTS[section] : RandomPick(section, k)
    BY <1>7 DEF DoublePicks, TriplePicks, LeftClick, Sections
  <2>2. PICK n \in RANDOM_COUNTS[section] : RandomPick(section, n)
    BY <2>1
  <2>3. n \in Nat
    BY <2>2, TableAssumption DEF Sections
  <2> QED BY <2>2, <2>3, RandomPickStep
<1>8. CASE TripleTabs
  BY <1>8, TabStep DEF TripleTabs
<1>9. CASE Chips
  BY <1>9, ChipStep DEF Chips
<1>10. CASE DoubleButton \/ RepeatButton \/ ClearButton
  BY <1>10, DoubleStep, RepeatStep, ClearStep DEF DoubleButton, RepeatButton, ClearButton, LeftClick
<1> QED BY <1>2, <1>3, <1>4, <1>6, <1>7, <1>8, <1>9, <1>10 DEF Player

-----------------------------------------------------------------------------
(* The invariant is inductive                                              *)

\* A table that is not locked is in its betting phase, with time left.
LEMMA LockRule ==
  ASSUME NEW g \in GameState
  PROVE  /\ IsLocked(g) \in BOOLEAN
         /\ ~IsLocked(g) => g.phase = "BETTING" /\ g.secondsLeft > LockSeconds
         /\ g.secondsLeft \in Nat /\ LockSeconds \in Nat /\ OpenSeconds \in Nat
  BY TableAssumption DEF GameState, IsLocked

LEMMA BetStepKeeps ==
  ASSUME GInv, BetStep
  PROVE  GInv'
<1>1. PICK balance \in Nat, stake \in Nat, bets \in [Cells -> Nat] :
        /\ balance + stake = game.pointsBalance + game.playStake
        /\ stake = SumOf(bets, Cells) + unaccounted'
        /\ game' = [game EXCEPT !.pointsBalance = balance, !.playStake = stake, !.bets = bets]
  BY DEF BetStep
<1>2. game' \in GameState
  BY <1>1 DEF GInv, TableTypeOK, GameState
<1>3. /\ game'.playStake = stake /\ game'.bets = bets /\ game'.phase = game.phase
      /\ game'.secondsLeft = game.secondsLeft /\ game'.drawResult = game.drawResult
  BY <1>1 DEF GInv, TableTypeOK, GameState
<1>4. StakesInv'
  BY <1>1, <1>3 DEF StakesInv, BetStep
<1>5. LockInv' /\ PollInv' /\ RestInv' /\ PaidInv'
  BY <1>3 DEF GInv, LockInv, PollInv, RestInv, PaidInv, BetStep, screen, react
<1>6. TableTypeOK'
  BY <1>2 DEF GInv, TableTypeOK, BetStep, screen, react
<1> QED BY <1>4, <1>5, <1>6 DEF GInv

LEMMA MinorStepKeeps ==
  ASSUME GInv, MinorStep
  PROVE  GInv'
<1>1. PICK message \in Statuses, chip \in availableChips \cup {2}, tab \in Tabs :
        game' = [game EXCEPT !.statusMessage = message, !.selectedChip = chip, !.triplesTab = tab]
  BY DEF MinorStep
<1>2. game' \in GameState
  BY <1>1 DEF GInv, TableTypeOK, GameState
<1>3. /\ game'.playStake = game.playStake /\ game'.bets = game.bets /\ game'.phase = game.phase
      /\ game'.secondsLeft = game.secondsLeft /\ game'.drawResult = game.drawResult
      /\ game'.winAmount = game.winAmount
  BY <1>1 DEF GInv, TableTypeOK, GameState
<1>4. StakesInv' /\ LockInv' /\ PollInv' /\ RestInv' /\ PaidInv'
  BY <1>3 DEF GInv, StakesInv, LockInv, PollInv, RestInv, PaidInv, IsPreview, MinorStep, screen, react
<1>5. TableTypeOK'
  BY <1>2 DEF GInv, TableTypeOK, MinorStep, screen, react
<1> QED BY <1>4, <1>5 DEF GInv

LEMMA StutterKeeps ==
  ASSUME GInv, UNCHANGED vars
  PROVE  GInv'
  BY DEF GInv, TableTypeOK, StakesInv, LockInv, PollInv, RestInv, PaidInv, IsPreview,
         vars, screen, react

\* The two tables a key or the address can put on the screen.
LEMMA TablesType ==
  /\ getInitialGameState.phase = "BETTING" /\ getInitialGameState.secondsLeft = OpenSeconds
  /\ getInitialGameState.drawResult = None
  /\ Unaccounted(getInitialGameState) = 0
  /\ getWinGameState.phase = "RESULT" /\ getWinGameState.drawResult = PreviewDraw
  /\ getWinGameState.bets = PreviewBets /\ getWinGameState.winAmount = PreviewWinAmount
  /\ \A table \in {getInitialGameState, getWinGameState} :
        /\ table \in GameState
        /\ Unaccounted(table) \in Int
        /\ table.playStake = SumOf(table.bets, Cells) + Unaccounted(table)
<1>1. 0 \in Tabs /\ 1 % Base \in Tabs
  BY BaseFacts DEF Tabs
<1>2. NoBets \in [Cells -> Nat] /\ SumOf(NoBets, Cells) = 0
  BY NoBetsSum
<1>3. PreviewBets \in [Cells -> Nat] /\ SumOf(PreviewBets, Cells) \in Nat
  <2>1. PreviewBets \in [Cells -> Nat] /\ \A c \in Cells : PreviewBets[c] \in Nat
    BY TableAssumption
  <2> QED BY <2>1, BetSums
<1>4. Unaccounted(getInitialGameState) = 0
  BY <1>2 DEF Unaccounted, getInitialGameState
<1>5. /\ Unaccounted(getWinGameState) \in Int
      /\ getWinGameState.playStake = SumOf(getWinGameState.bets, Cells) + Unaccounted(getWinGameState)
  <2>1. getWinGameState.playStake = PreviewStake /\ getWinGameState.bets = PreviewBets
    BY DEF getWinGameState
  <2> QED BY <1>3, <2>1, TableAssumption DEF Unaccounted
<1>6. getInitialGameState.playStake = SumOf(getInitialGameState.bets, Cells) + 0
  BY <1>2 DEF getInitialGameState
<1>7. \A table \in {getInitialGameState, getWinGameState} :
        table \in GameState
  <2>1. getInitialGameState \in GameState
    BY <1>1, <1>2, TableAssumption DEF getInitialGameState, GameState, Phases, Statuses
  <2>2. getWinGameState \in GameState
    BY <1>1, <1>2, <1>3, TableAssumption DEF getWinGameState, GameState, Phases, Statuses
  <2> QED BY <2>1, <2>2
<1>8. /\ getInitialGameState.phase = "BETTING" /\ getInitialGameState.secondsLeft = OpenSeconds
      /\ getInitialGameState.drawResult = None
      /\ getWinGameState.phase = "RESULT" /\ getWinGameState.drawResult = PreviewDraw
      /\ getWinGameState.bets = PreviewBets /\ getWinGameState.winAmount = PreviewWinAmount
  BY DEF getInitialGameState, getWinGameState
<1> HIDE DEF Unaccounted, getInitialGameState, getWinGameState
<1> QED BY <1>4, <1>5, <1>6, <1>7, <1>8

LEMMA InitKeeps == Init => GInv
<1> SUFFICES ASSUME Init PROVE GInv
  OBVIOUS
<1>1. game = getInitialGameState \/ game = getWinGameState
  BY DEF Init
<1>2. TableTypeOK
  <2>1. game \in GameState /\ unaccounted \in Int
    BY <1>1, TablesType DEF Init
  <2>2. locked \in BOOLEAN
    BY <2>1, LockRule DEF Init
  <2>3. revealed \in 0..3 /\ effects \in Phases \union {"NONE"}
    BY DEF Init
  <2>4. resultTimer \in BOOLEAN
    BY Zenon DEF Init
  <2> QED BY <2>1, <2>2, <2>3, <2>4, TableAssumption, Zenon DEF Init, TableTypeOK
<1>3. StakesInv
  BY <1>1, TablesType DEF Init, StakesInv
<1>4. LockInv
  BY <1>2, LockRule DEF Init, LockInv, TableTypeOK
<1>5. PollInv
  BY DEF Init, PollInv
<1>6. RestInv /\ PaidInv
  BY <1>1, TablesType DEF RestInv, PaidInv, IsPreview
<1> QED BY <1>2, <1>3, <1>4, <1>5, <1>6 DEF GInv

\* Keys W and B.
LEMMA KeysKeep ==
  ASSUME GInv, Keys
  PROVE  GInv'
<1>1. PICK table \in {getInitialGameState, getWinGameState}, shown \in {revealed, 0} :
        /\ Replace(table, shown) /\ effects # "NONE"
        /\ table = getInitialGameState => shown = 0
  <2>1. CASE PreviewWin
    <3>1. getWinGameState # getInitialGameState
      BY TablesType
    <3> QED BY <2>1, <3>1 DEF PreviewWin
  <2>2. CASE ResetTable
    BY <2>2 DEF ResetTable
  <2> QED BY <2>1, <2>2 DEF Keys
<1>2. game' = table /\ unaccounted' = Unaccounted(table) /\ locked' = IsLocked(table)
      /\ effects' = table.phase /\ UNCHANGED <<wheelDigits, drawTarget>>
  BY <1>1 DEF Replace
<1>3. \/ effects = table.phase /\ UNCHANGED <<revealed, poll, resultTimer>>
      \/ effects # table.phase /\ poll' = None /\ resultTimer' = (table.phase = "RESULT")
         /\ revealed' = shown
  BY <1>1 DEF Replace
<1>4. shown \in 0..3 /\ revealed \in 0..3
  BY <1>1 DEF GInv, TableTypeOK
<1>5. TableTypeOK'
  <2>1. table \in GameState /\ Unaccounted(table) \in Int /\ table.phase \in Phases
    BY TablesType DEF Phases
  <2>2. game' \in GameState /\ unaccounted' \in Int /\ locked' \in BOOLEAN
    BY <1>2, <2>1, LockRule
  <2>3. effects' \in Phases \union {"NONE"}
    BY <1>2, <2>1
  <2> QED BY <1>2, <1>3, <1>4, <2>2, <2>3 DEF TableTypeOK, GInv
<1>6. StakesInv'
  BY <1>1, <1>2, TablesType DEF StakesInv
<1>7. LockInv'
  <2>1. table \in GameState
    BY TablesType
  <2> QED BY <1>2, <2>1, LockRule DEF LockInv
<1>8. PollInv'
  <2>1. table.phase # "DRAWING"
    BY <1>1, TablesType
  <2>2. poll' = None
    BY <1>3, <2>1 DEF GInv, PollInv
  <2>3. effects' \in {"BETTING", "NONE"} => revealed' = 0
    BY <1>1, <1>2, <1>3, TablesType DEF GInv, PollInv
  <2> QED BY <2>2, <2>3 DEF PollInv
<1>9. RestInv' /\ PaidInv'
  BY <1>1, <1>2, TablesType DEF RestInv, PaidInv, IsPreview
<1> QED BY <1>5, <1>6, <1>7, <1>8, <1>9 DEF GInv

LEMMA RenderKeeps ==
  ASSUME GInv, Render
  PROVE  GInv'
<1>a. /\ locked' = IsLocked(game) /\ effects' = game.phase /\ UNCHANGED unaccounted
      /\ game \in GameState /\ IsLocked(game) \in BOOLEAN /\ game.phase \in Phases
  BY LockRule, GameFacts DEF Render, GInv, TableTypeOK
<1>1. CASE UNCHANGED <<game, screen, poll, resultTimer>> /\ game.phase = effects
  <2>1. TableTypeOK'
    BY <1>a, <1>1 DEF GInv, TableTypeOK, screen
  <2>2. StakesInv' /\ PollInv' /\ RestInv' /\ PaidInv'
    BY <1>1 DEF Render, GInv, StakesInv, PollInv, RestInv, PaidInv, IsPreview, screen
  <2>3. LockInv'
    BY <1>a, <1>1, LockRule DEF LockInv
  <2> QED BY <2>1, <2>2, <2>3 DEF GInv
<1>2. CASE game.phase = "BETTING" /\ effects # "BETTING" /\ EnterBetting
  <2>1. TableTypeOK'
    <3>1. revealed' \in 0..3
      BY <1>2 DEF EnterBetting
    <3>2. UNCHANGED <<game, wheelDigits, drawTarget>> /\ resultTimer' \in BOOLEAN /\ poll' = None
      BY <1>2, Zenon DEF EnterBetting
    <3> QED BY <1>a, <3>2, <3>1, Zenon DEF GInv, TableTypeOK
  <2>2. StakesInv' /\ PollInv' /\ RestInv' /\ PaidInv'
    BY <1>2 DEF Render, EnterBetting, GInv, StakesInv, PollInv, RestInv, PaidInv, IsPreview
  <2>3. LockInv'
    BY <1>a, <1>2, LockRule DEF EnterBetting, LockInv
  <2> QED BY <2>1, <2>2, <2>3 DEF GInv
<1>3. CASE game.phase = "DRAWING" /\ effects # "DRAWING" /\ StartDraw
  <2>1. PICK triple \in Draws :
          /\ game' = [game EXCEPT !.drawResult = triple]
          /\ drawTarget' = DigitsOf(Base, triple)
          /\ revealed' = 0
          /\ poll' = [result |-> triple, elapsed |-> 0]
          /\ resultTimer' = FALSE
          /\ UNCHANGED wheelDigits
    BY <1>3 DEF StartDraw
  <2>2. triple \in Triples /\ DigitsOf(Base, triple) \in [1..3 -> 0..(Base - 1)]
    BY TableAssumption, DigitsType
  <2>3. TableTypeOK'
    <3>1. game' \in GameState
      BY <1>a, <2>1, <2>2 DEF GameState
    <3>2. poll' \in [result: Triples, elapsed: Nat]
      BY <2>1, <2>2
    <3>3. revealed' \in 0..3
      BY <2>1
    <3>4. wheelDigits' = wheelDigits /\ resultTimer' \in BOOLEAN
      BY <2>1, Zenon
    <3> QED BY <3>4, <1>a, <2>1, <2>2, <3>1, <3>2, <3>3, Zenon DEF GInv, TableTypeOK
  <2>4. /\ game'.phase = "DRAWING" /\ game'.drawResult = triple /\ game'.bets = game.bets
        /\ game'.playStake = game.playStake
        /\ effects' = "DRAWING" /\ locked' /\ poll'.result = triple
        /\ unaccounted' = unaccounted
    BY <1>a, <1>3, <2>1, LockRule DEF GameState
  <2>5. StakesInv' /\ PollInv' /\ RestInv' /\ PaidInv' /\ LockInv'
    BY <1>3, <2>1, <2>4 DEF GInv, StakesInv, PollInv, RestInv, PaidInv, LockInv
  <2> QED BY <2>3, <2>5 DEF GInv
<1>4. CASE game.phase = "RESULT" /\ effects # "RESULT" /\ EnterResult
  <2>1. TableTypeOK'
    BY <1>a, <1>4 DEF EnterResult, screen, GInv, TableTypeOK
  <2>2. StakesInv' /\ PollInv' /\ RestInv' /\ PaidInv' /\ LockInv'
    BY <1>a, <1>4, LockRule DEF EnterResult, screen, GInv, StakesInv, PollInv, RestInv, PaidInv, IsPreview, LockInv
  <2> QED BY <2>1, <2>2 DEF GInv
<1> QED BY <1>1, <1>2, <1>3, <1>4 DEF Render

LEMMA CountDownKeeps ==
  ASSUME GInv, CountDown
  PROVE  GInv'
<1>1. effects = "BETTING" /\ game.phase = "BETTING" /\ locked = IsLocked(game)
      /\ poll = None /\ UNCHANGED <<screen, react, unaccounted>>
  BY DEF CountDown, Unrendered, GInv, PollInv
<1>2. game.secondsLeft \in Nat /\ game.secondsLeft <= OpenSeconds /\ OpenSeconds \in Nat
      /\ LockSeconds \in Nat /\ LockSeconds > 0
  BY GameFacts, TableAssumption DEF GInv
<1>3. CASE game.secondsLeft > 1
  <2> DEFINE next == game.secondsLeft - 1
  <2>1. PICK message \in Statuses :
          game' = [game EXCEPT !.secondsLeft = next, !.statusMessage = message]
    <3> DEFINE said == IF next <= LockSeconds THEN "No More Play"
                       ELSE IF next <= LastChance /\ game.statusMessage = "Place your chips"
                            THEN "LAST CHANCE" ELSE game.statusMessage
    <3>1. said \in Statuses
      BY GameFacts DEF Statuses, GInv
    <3>2. game' = [game EXCEPT !.secondsLeft = next, !.statusMessage = said]
      BY <1>3 DEF CountDown
    <3> HIDE DEF said, next
    <3> QED BY <3>1, <3>2
  <2>2. next \in 0..OpenSeconds
    BY <1>2, <1>3
  <2>3. TableTypeOK'
    <3>1. game' \in GameState
      BY <2>1, <2>2 DEF GInv, TableTypeOK, GameState
    <3> QED BY <1>1, <3>1 DEF GInv, TableTypeOK, screen, react
  <2>4. /\ game'.phase = "BETTING" /\ game'.secondsLeft = next
        /\ game'.bets = game.bets /\ game'.playStake = game.playStake
        /\ game'.drawResult = game.drawResult
    BY <1>1, <2>1 DEF GInv, TableTypeOK, GameState
  <2>5. StakesInv' /\ PollInv' /\ RestInv' /\ PaidInv'
    BY <1>1, <2>4 DEF GInv, StakesInv, PollInv, RestInv, PaidInv, screen, react
  <2>6. LockInv'
    <3>1. locked' = IsLocked(game)
      BY <1>1 DEF react
    <3>2. ~IsLocked(game) => game.secondsLeft > LockSeconds
      BY LockRule DEF GInv, TableTypeOK
    <3> QED BY <1>2, <2>4, <3>1, <3>2 DEF LockInv
  <2> QED BY <2>3, <2>5, <2>6 DEF GInv
<1>4. CASE ~(game.secondsLeft > 1)
  <2>1. game' = [game EXCEPT !.secondsLeft = 0, !.phase = "DRAWING", !.statusMessage = "No More Play"]
    BY <1>4 DEF CountDown
  <2>2. TableTypeOK'
    <3>1. "DRAWING" \in Phases /\ "No More Play" \in Statuses /\ game \in GameState
          /\ 0 \in 0..OpenSeconds
      BY <1>2 DEF GInv, TableTypeOK, Phases, Statuses
    <3>2. game' \in GameState
      BY <2>1, <3>1 DEF GameState
    <3> QED BY <1>1, <3>2 DEF GInv, TableTypeOK, screen, react
  <2>3. /\ game'.phase = "DRAWING" /\ game'.bets = game.bets /\ game'.playStake = game.playStake
    BY <2>1 DEF GInv, TableTypeOK, GameState
  <2>4. StakesInv' /\ PollInv' /\ RestInv' /\ PaidInv'
    BY <1>1, <2>3 DEF GInv, StakesInv, PollInv, RestInv, PaidInv, screen, react
  <2>5. LockInv'
    <3>1. locked' = IsLocked(game)
      BY <1>1 DEF react
    <3>2. ~IsLocked(game) => game.secondsLeft > LockSeconds
      BY LockRule DEF GInv, TableTypeOK
    <3> QED BY <1>2, <1>4, <3>1, <3>2 DEF LockInv
  <2> QED BY <2>2, <2>4, <2>5 DEF GInv
<1> QED BY <1>3, <1>4

\* What Settle does when the poll of the draw calls it.
LEMMA SettleDoes ==
  ASSUME GInv, NEW elapsed, Poll(elapsed), ~(elapsed < DRAW_TOTAL_MS)
  PROVE  /\ game.phase = "DRAWING" /\ game.drawResult \in Triples
         /\ drawTarget = DigitsOf(Base, game.drawResult)
         /\ poll' = None /\ wheelDigits' = DigitsOf(Base, game.drawResult)
         /\ \E message \in Statuses :
              game' = [game EXCEPT !.phase = "RESULT",
                        !.winAmount = settleBets(game.bets, game.drawResult),
                        !.pointsBalance = game.pointsBalance + settleBets(game.bets, game.drawResult),
                        !.statusMessage = message]
<1>1. poll # None /\ poll' = None /\ wheelDigits' = DigitsOf(Base, poll.result) /\ Settle(poll.result)
  BY DEF Poll
<1>2. game.phase = "DRAWING" /\ game.drawResult = poll.result
      /\ drawTarget = DigitsOf(Base, poll.result) /\ poll.result \in Triples
  BY <1>1 DEF GInv, PollInv, TableTypeOK
<1> DEFINE won == settleBets(game.bets, game.drawResult)
           said == IF won > 0 THEN "YOU WIN" ELSE "Better luck next time"
<1>3. said \in Statuses
  BY DEF Statuses
<1>4. game' = [game EXCEPT !.phase = "RESULT", !.winAmount = won,
                           !.pointsBalance = game.pointsBalance + won, !.statusMessage = said]
  BY <1>1, <1>2 DEF Settle
<1> HIDE DEF won, said
<1>5. \E message \in Statuses :
        game' = [game EXCEPT !.phase = "RESULT", !.winAmount = won,
                           !.pointsBalance = game.pointsBalance + won, !.statusMessage = message]
  BY <1>3, <1>4, Zenon
<1> QED BY <1>1, <1>2, <1>5 DEF won

LEMMA PollKeeps ==
  ASSUME GInv, NEW elapsed \in PollTimes, Poll(elapsed)
  PROVE  GInv'
<1>1. /\ poll # None /\ UNCHANGED <<drawTarget, effects, locked, resultTimer, unaccounted>>
      /\ effects = "DRAWING" /\ game.phase = "DRAWING"
      /\ elapsed \in Nat
  BY TableAssumption DEF Poll, GInv, PollInv
<1>2. revealed' \in 0..3
  BY RevealedType DEF Poll, GInv, TableTypeOK
<1>3. CASE elapsed < DRAW_TOTAL_MS
  <2>1. poll' = [poll EXCEPT !.elapsed = elapsed] /\ UNCHANGED <<game, wheelDigits>>
    BY <1>1, <1>3 DEF Poll, DRAW_TOTAL_MS, RING_STOP_MS
  <2>2. TableTypeOK'
    BY <1>1, <1>2, <2>1 DEF GInv, TableTypeOK
  <2>3. poll'.result = poll.result
    BY <1>1, <2>1 DEF GInv, TableTypeOK, GameState
  <2>4. StakesInv' /\ PollInv' /\ RestInv' /\ PaidInv' /\ LockInv'
    BY <1>1, <2>1, <2>3 DEF GInv, StakesInv, PollInv, RestInv, PaidInv, LockInv
  <2> QED BY <2>2, <2>4 DEF GInv
<1>4. CASE ~(elapsed < DRAW_TOTAL_MS)
  <2> DEFINE won == settleBets(game.bets, game.drawResult)
  <2>1. PICK message \in Statuses :
          game' = [game EXCEPT !.phase = "RESULT", !.winAmount = won,
                               !.pointsBalance = game.pointsBalance + won, !.statusMessage = message]
    BY <1>4, SettleDoes
  <2>2. game.drawResult \in Triples /\ poll' = None /\ wheelDigits' = DigitsOf(Base, game.drawResult)
    BY <1>4, SettleDoes
  <2>3. game.bets \in [Cells -> Nat] /\ game.pointsBalance \in Nat
    BY GameFacts DEF GInv
  <2>4. won \in Nat
    BY <2>2, <2>3, WinIsNat
  <2>5. game.pointsBalance + won \in Nat
    BY <2>3, <2>4
  <2>6. DigitsOf(Base, game.drawResult) \in [1..3 -> 0..(Base - 1)]
    BY <2>2, DigitsType
  <2>7. TableTypeOK'
    <3> HIDE DEF won
    <3>1. game' \in GameState
      BY <2>1, <2>4, <2>5 DEF GInv, TableTypeOK, GameState, Phases
    <3> QED BY <1>1, <1>2, <2>2, <2>6, <3>1 DEF GInv, TableTypeOK
  <2>8. /\ game'.phase = "RESULT" /\ game'.bets = game.bets /\ game'.playStake = game.playStake
        /\ game'.winAmount = won /\ game'.drawResult = game.drawResult
    BY <2>1 DEF GInv, TableTypeOK, GameState
  <2>9. StakesInv' /\ PollInv' /\ RestInv' /\ PaidInv' /\ LockInv'
    BY <1>1, <2>2, <2>8 DEF GInv, StakesInv, PollInv, RestInv, PaidInv, LockInv
  <2> QED BY <2>7, <2>9 DEF GInv
<1> QED BY <1>3, <1>4

LEMMA ReopenKeeps ==
  ASSUME GInv, Reopen
  PROVE  GInv'
<1>1. UNCHANGED <<screen, effects, locked, poll>> /\ resultTimer' = FALSE
  BY DEF Reopen
<1>2. CASE game.phase = "RESULT"
  <2>1. /\ game' = [game EXCEPT !.secondsLeft = OpenSeconds, !.phase = "BETTING",
                           !.statusMessage = "Place your chips",
                           !.previousBets = game.bets, !.bets = NoBets,
                           !.playStake = 0]
        /\ unaccounted' = 0
    BY <1>2 DEF Reopen
  <2>2. NoBets \in [Cells -> Nat] /\ OpenSeconds \in 0..OpenSeconds
    BY NoBetsSum, TableAssumption
  <2>3. TableTypeOK'
    <3>1. "BETTING" \in Phases /\ "Place your chips" \in Statuses /\ 0 \in Nat /\ game \in GameState
      BY DEF GInv, TableTypeOK, Phases, Statuses
    <3>2. game' \in GameState
      BY <2>1, <2>2, <3>1 DEF GameState
    <3>3. unaccounted' \in Int
      BY <2>1
    <3>4. resultTimer' \in BOOLEAN /\ UNCHANGED <<wheelDigits, drawTarget, revealed, effects, locked, poll>>
      BY <1>1, Zenon DEF screen
    <3> QED BY <3>2, <3>3, <3>4, Zenon DEF GInv, TableTypeOK
  <2>4. /\ game'.phase = "BETTING" /\ game'.playStake = 0 /\ game'.bets = NoBets
        /\ game'.drawResult = game.drawResult
    BY <2>1 DEF GInv, TableTypeOK, GameState
  <2>5. StakesInv'
    BY <2>1, <2>4, NoBetsSum DEF StakesInv
  <2>6. PollInv' /\ RestInv' /\ PaidInv' /\ LockInv'
    BY <1>1, <1>2, <2>4 DEF GInv, PollInv, RestInv, PaidInv, LockInv, screen
  <2> QED BY <2>3, <2>5, <2>6 DEF GInv
<1>3. CASE game.phase # "RESULT"
  <2>1. UNCHANGED <<game, unaccounted>>
    BY <1>3 DEF Reopen
  <2> QED BY <1>1, <2>1 DEF GInv, TableTypeOK, StakesInv, PollInv, RestInv, PaidInv, IsPreview,
              LockInv, screen
<1> QED BY <1>2, <1>3

LEMMA NextKeeps == GInv /\ [TableNext]_vars => GInv'
<1> SUFFICES ASSUME GInv, [TableNext]_vars PROVE GInv'
  OBVIOUS
<1>1. CASE Player
  BY <1>1, PlayerSteps, BetStepKeeps, MinorStepKeeps
<1>2. CASE Keys
  BY <1>2, KeysKeep
<1>3. CASE Timers
  BY <1>3, RenderKeeps, CountDownKeeps, PollKeeps, ReopenKeeps DEF Timers
<1>4. CASE UNCHANGED vars
  BY <1>4, StutterKeeps
<1> QED BY <1>1, <1>2, <1>3, <1>4 DEF TableNext

\* What the wheel shows does not change what the table does.
LEMMA TableSteps == [Next]_tableAndWheel => [TableNext]_vars
  BY DEF Next, TableNext, Timers, Rerender, Frame, tableAndWheel

\* The table keeps its invariant, whatever is clicked and whenever the
\* timers fire.
THEOREM TableInvariant == Spec => []GInv
<1>1. Init => GInv
  BY InitKeeps
<1>2. GInv /\ [TableNext]_vars => GInv'
  BY NextKeeps
<1> QED BY <1>1, <1>2, TableSteps, PTL DEF Spec, ScreenInit

-----------------------------------------------------------------------------
(* What the screen shows                                                   *)

\* The stakes a board shows over indices are those of its cells.
LEMMA BoardSum ==
  ASSUME TableTypeOK, NEW t \in Types, NEW f, \A v \in 0..(Size(t) - 1) : f[v] = game.bets[<<t, v>>]
  PROVE  SumOf(f, 0..(Size(t) - 1)) = SumOf(game.bets, CellsOf(t))
<1> DEFINE S == 0..(Size(t) - 1)
           b == [v \in S |-> <<t, v>>]
<1>1. IsFiniteSet(S)
  BY IndicesFinite
<1>2. \A v, w \in S : b[v] = b[w] => v = w
  OBVIOUS
<1>3. \A v \in S : game.bets[b[v]] \in Int /\ f[v] = game.bets[b[v]]
  <2>1. ASSUME NEW v \in S
        PROVE  game.bets[<<t, v>>] \in Int
    <3>1. <<t, v>> \in Cells
      BY CellIsCell
    <3>2. game.bets \in [Cells -> Nat]
      BY GameFacts
    <3> QED BY <3>1, <3>2
  <2> QED BY <2>1
<1>4. {b[v] : v \in S} = CellsOf(t)
  <2>1. ASSUME NEW c \in CellsOf(t)
        PROVE  c \in {b[v] : v \in S}
    BY DEF CellsOf
  <2>2. ASSUME NEW v \in S
        PROVE  b[v] \in CellsOf(t)
    BY DEF CellsOf
  <2> HIDE DEF b
  <2> QED BY <2>1, <2>2
<1> HIDE DEF S, b
<1>5. SumOf(f, S) = SumOf(game.bets, {b[v] : v \in S})
  BY <1>1, <1>2, <1>3, SumReindex
<1>6. SumOf(f, S) = SumOf(game.bets, CellsOf(t))
  BY <1>4, <1>5, Zenon
<1> QED BY <1>6 DEF S

\* The three boards together.
LEMMA ThreeBoards ==
  ASSUME TableTypeOK
  PROVE  SumOf(game.bets, Cells) = SumOf(game.bets, CellsOf("single"))
           + SumOf(game.bets, CellsOf("double")) + SumOf(game.bets, CellsOf("triple"))
<1> DEFINE A == CellsOf("single")
           B == CellsOf("double")
           C == CellsOf("triple")
<1>1. IsFiniteSet(A) /\ IsFiniteSet(B) /\ IsFiniteSet(C)
  BY BoardsFinite DEF Types
<1>2. A \cap B = {} /\ (A \cup B) \cap C = {}
  BY DEF CellsOf
<1>3. Cells = (A \cup B) \cup C
  BY CellsAre
<1>4. \A c \in Cells : game.bets[c] \in Int
  BY GameFacts
<1> HIDE DEF A, B, C
<1>5. IsFiniteSet(A \cup B)
  BY <1>1, FS_Union
<1>6. \A c \in A \cup B : game.bets[c] \in Int
  BY <1>3, <1>4
<1>7. SumOf(game.bets, A \cup B) = SumOf(game.bets, A) + SumOf(game.bets, B)
  BY <1>1, <1>2, <1>6, SumUnion
<1> DEFINE D == A \cup B
<1>8. D \cap C = {} /\ IsFiniteSet(D) /\ \A c \in D \cup C : game.bets[c] \in Int
  BY <1>2, <1>3, <1>4, <1>5
<1>9. SumOf(game.bets, D \cup C) = SumOf(game.bets, D) + SumOf(game.bets, C)
  <2> HIDE DEF D
  <2> QED BY <1>1, <1>8, SumUnion
<1>10. SumOf(game.bets, Cells) = SumOf(game.bets, D \cup C)
  BY <1>3, Zenon
<1>11. SumOf(game.bets, Cells) = SumOf(game.bets, A) + SumOf(game.bets, B) + SumOf(game.bets, C)
  BY <1>7, <1>9, <1>10
<1> QED BY <1>11 DEF A, B, C

LEMMA ClearIsOffered ==
  ASSUME GInv, ~locked, unaccounted = 0
  PROVE  ~clearDisabled <=> ScoreboardPanel.play > 0
<1>1. /\ game.playStake = SumOf(game.bets, Cells)
      /\ game.bets \in [Cells -> Nat] /\ game.playStake \in Nat
  <2>1. SumOf(game.bets, Cells) \in Nat
    <3>1. \A c \in Cells : game.bets[c] \in Nat
      BY GameFacts DEF GInv
    <3> QED BY <3>1, BetSums
  <2> QED BY <2>1, GameFacts DEF GInv, StakesInv
<1>2. ASSUME HasBets(game.bets)
      PROVE  game.playStake > 0
  <2>1. PICK c \in Cells : game.bets[c] > 0
    BY <1>2 DEF HasBets
  <2>2. SumOf(game.bets, Cells) >= game.bets[c] /\ game.bets[c] \in Nat
    <3>1. \A x \in Cells : game.bets[x] \in Nat
      BY <1>1
    <3> QED BY <3>1, BetSums
  <2> QED BY <1>1, <2>1, <2>2
<1>3. ASSUME ~HasBets(game.bets)
      PROVE  game.playStake = 0
  <2>1. \A c \in Cells : game.bets[c] = 0
    BY <1>1, <1>3 DEF HasBets
  <2>2. SumOf(game.bets, Cells) = 0
    BY <2>1, BoardsFinite, SumZero
  <2> QED BY <1>1, <2>2
<1> QED BY <1>1, <1>2, <1>3 DEF clearDisabled, ScoreboardPanel

LEMMA StakesShown ==
  ASSUME GInv
  PROVE  StakesAreTheBets
<1> DEFINE single == [v \in DOMAIN SingleBar |-> SingleBar[v].stake]
           double == [v \in DOMAIN DoubleGrid |-> DoubleGrid[v].stake]
           triple == [c \in CellsOf("triple") |-> BoardCell(c).stake]
<1>0. TableTypeOK
  BY DEF GInv
<1>1. SumOf(single, DOMAIN SingleBar) = SumOf(game.bets, CellsOf("single"))
  <2>1. DOMAIN SingleBar = 0..(Size("single") - 1)
    BY SizeFacts DEF SingleBar
  <2>2. \A v \in 0..(Size("single") - 1) : single[v] = game.bets[<<"single", v>>]
    BY SizeFacts DEF SingleBar, BoardCell
  <2>3. "single" \in Types
    BY DEF Types
  <2> HIDE DEF single
  <2>4. SumOf(single, 0..(Size("single") - 1)) = SumOf(game.bets, CellsOf("single"))
    BY <1>0, <2>2, <2>3, BoardSum
  <2> QED BY <2>1, <2>4, Zenon
<1>2. SumOf(double, DOMAIN DoubleGrid) = SumOf(game.bets, CellsOf("double"))
  <2>1. DOMAIN DoubleGrid = 0..(Size("double") - 1)
    BY DEF DoubleGrid
  <2>2. \A v \in 0..(Size("double") - 1) : double[v] = game.bets[<<"double", v>>]
    BY DEF DoubleGrid, BoardCell
  <2>3. "double" \in Types
    BY DEF Types
  <2> HIDE DEF double
  <2>4. SumOf(double, 0..(Size("double") - 1)) = SumOf(game.bets, CellsOf("double"))
    BY <1>0, <2>2, <2>3, BoardSum
  <2> QED BY <2>1, <2>4, Zenon
<1>3. SumOf(triple, CellsOf("triple")) = SumOf(game.bets, CellsOf("triple"))
  <2> DEFINE S == CellsOf("triple")
  <2>1. \A c \in S : triple[c] = game.bets[c]
    BY DEF BoardCell
  <2>2. S \subseteq Cells /\ IsFiniteSet(S)
    BY CellsAre, BoardsFinite DEF Types
  <2>3. \A c \in S : game.bets[c] \in Int
    BY <1>0, <2>2, GameFacts
  <2> HIDE DEF triple, S
  <2>4. SumOf(triple, S) = SumOf(game.bets, S)
    BY <2>1, <2>2, <2>3, SumEqual
  <2> QED BY <2>4 DEF S
<1>4. game.playStake = SumOf(game.bets, Cells) + unaccounted
  BY DEF GInv, StakesInv
<1>5. ScoreboardPanel.play = game.playStake
  BY DEF ScoreboardPanel
<1>6. SumOf(game.bets, Cells) = SumOf(game.bets, CellsOf("single"))
           + SumOf(game.bets, CellsOf("double")) + SumOf(game.bets, CellsOf("triple"))
  BY <1>0, ThreeBoards
<1> HIDE DEF single, double, triple
<1>7. ScoreboardPanel.play = SumOf(single, DOMAIN SingleBar) + SumOf(double, DOMAIN DoubleGrid)
                             + SumOf(triple, CellsOf("triple")) + unaccounted
  BY <1>1, <1>2, <1>3, <1>4, <1>5, <1>6
<1> QED BY <1>7, ClearIsOffered DEF StakesAreTheBets, single, double, triple

LEMMA CellType ==
  ASSUME NEW c \in Cells
  PROVE  c[1] \in Types /\ c[2] \in Nat /\ c \in CellsOf(c[1]) /\ c = <<c[1], c[2]>>
  BY SizeFacts DEF Cells, CellsOf

LEMMA NothingShown ==
  ASSUME GInv
  PROVE  NothingLeftRevealed
<1> SUFFICES ASSUME ~Unrendered, game.phase = "BETTING", game.winAmount = 0
             PROVE  /\ WindowDigits = 0 /\ ~OrbShows /\ TimerShows = game.secondsLeft
                    /\ \A c \in Cells : ~BoardCell(c).winning
  BY DEF NothingLeftRevealed
<1>1. ~IsWin
  BY DEF IsWin
<1>2. revealed = 0
  BY DEF GInv, PollInv, Unrendered
<1>3. ASSUME NEW c \in Cells
      PROVE  ~BoardCell(c).winning
  <2>1. WinValue(c[1]) = None
    BY <1>1 DEF WinValue
  <2>2. c[2] # None
    BY CellType, TableAssumption
  <2> QED BY <2>1, <2>2 DEF BoardCell, Highlighted
<1> QED BY <1>1, <1>2, <1>3 DEF WindowDigits, OrbShows, TimerShows

LEMMA MarksArePaid ==
  ASSUME GInv
  PROVE  MarkedCellsWereWon
<1> DEFINE won == {c \in Cells : BoardCell(c).winning}
           win == [c \in won |-> CellBetTooltip(c).win]
           result == game.drawResult
           b == [t \in Types |-> <<t, Target(t, result)>>]
           paid == [t \in Types |-> game.bets[<<t, Target(t, result)>>] * PAYOUT[t]]
<1> SUFFICES ASSUME game.phase = "RESULT", ~IsPreview
             PROVE  SumOf(win, won) = game.winAmount
  BY DEF MarkedCellsWereWon, ScoreboardPanel
<1>1. result \in Triples /\ game.winAmount = settleBets(game.bets, result)
      /\ game.bets \in [Cells -> Nat] /\ result # None
  <2>1. None \notin Triples
    BY SizeFacts, TableAssumption DEF Triples, Types
  <2> QED BY <2>1, GameFacts DEF GInv, PaidInv
<1>2. game.winAmount = SumOf(paid, Types)
  BY <1>1 DEF settleBets
<1>3. \A t \in Types : WinValue(t) = Target(t, result)
  BY <1>1 DEF WinValue, IsWin
<1>4. ASSUME NEW t \in Types
      PROVE  <<t, Target(t, result)>> \in won
  <2>1. <<t, Target(t, result)>> \in Cells /\ <<t, Target(t, result)>> \in CellsOf(t)
    BY <1>1, TargetCell, CellIsCell
  <2> QED BY <1>3, <2>1 DEF BoardCell, Highlighted
<1>5. ASSUME NEW c \in won
      PROVE  c[1] \in Types /\ c = <<c[1], Target(c[1], result)>>
  <2>1. c[1] \in Types /\ c = <<c[1], c[2]>>
    BY CellType
  <2>2. c[2] = WinValue(c[1])
    BY DEF BoardCell, Highlighted
  <2> QED BY <1>3, <2>1, <2>2
<1>6. {b[t] : t \in Types} = won
  <2>1. \A t \in Types : b[t] \in won
    BY <1>4
  <2>2. \A c \in won : c[1] \in Types /\ b[c[1]] = c
    BY <1>5
  <2> HIDE DEF b, won
  <2> QED BY <2>1, <2>2
<1>7. \A s, t \in Types : b[s] = b[t] => s = t
  OBVIOUS
<1>8. \A t \in Types : win[b[t]] \in Int /\ paid[t] = win[b[t]]
  <2>1. ASSUME NEW t \in Types
        PROVE  win[b[t]] \in Int /\ paid[t] = win[b[t]]
    <3>1. b[t] = <<t, Target(t, result)>> /\ b[t] \in won /\ b[t] \in Cells
      BY <1>4
    <3>2. win[b[t]] = game.bets[b[t]] * PAYOUT[t]
      BY <3>1 DEF CellBetTooltip
    <3>3. game.bets[b[t]] \in Nat /\ PAYOUT[t] \in Nat
      BY <1>1, <3>1, TableAssumption
    <3>4. paid[t] = game.bets[b[t]] * PAYOUT[t]
      BY <3>1
    <3> HIDE DEF win, paid, b
    <3> QED BY <3>2, <3>3, <3>4
  <2> QED BY <2>1
<1> HIDE DEF won, win, paid, b, result
<1>9. SumOf(paid, Types) = SumOf(win, {b[t] : t \in Types})
  BY <1>7, <1>8, TypesFinite, SumReindex
<1>10. SumOf(win, {b[t] : t \in Types}) = SumOf(win, won)
  BY <1>6, Zenon
<1> QED BY <1>2, <1>9, <1>10

\* Whatever is staked, undone, doubled, repeated, picked or cleared, the play
\* total is what the three boards show as stakes, but for what REPEAT wrote
\* over and the preview's mismatch; and CLEAR is offered exactly when there
\* is something to give back.
THEOREM StakesCorrect == Spec => []StakesAreTheBets
  BY TableInvariant, StakesShown, PTL

\* The cells marked as winning are worth what the WIN panel shows.
THEOREM MarksCorrect == Spec => []MarkedCellsWereWon
  BY TableInvariant, MarksArePaid, PTL

\* A table open for bets shows nothing of the last draw, unless it was won.
THEOREM RevealCorrect == Spec => []NothingLeftRevealed
  BY TableInvariant, NothingShown, PTL

-----------------------------------------------------------------------------
(***************************************************************************)
(* The rings on the screen.  The animation of the draw that is polled      *)
(* closed over this draw's digits: it can only have started in a render    *)
(* that followed the draw's effect, where drawTarget is the result's, and  *)
(* React leaves the rings alone as long as the rendered digits are those.  *)
(* Between draws the table has been rendered since the phase changed.      *)
(***************************************************************************)

Digits == [1..3 -> 0..(Base - 1)]

WheelTypeOK ==
  animation \in [from: Digits, to: Digits, live: BOOLEAN, at: Nat \cup {None}] \cup {None}

\* The table is rendered and between draws.
Settled == ~Unrendered /\ game.phase # "DRAWING"

\* The animation of the draw that is polled.
Turning == poll # None /\ animation # None /\ animation.live

RestingInv == Settled => rings = RestOn(CurrentDigits) /\ animation = None
TurningInv ==
  Turning => /\ animation.from = wheelDigits
             /\ animation.to = DigitsOf(Base, poll.result)
             /\ drawDigits = DigitsOf(Base, poll.result)
FrameInv ==
  FrameShown => /\ animation.at \in Nat /\ animation.at <= poll.elapsed
                /\ rings = Turned(wheelDigits, DigitsOf(Base, poll.result), animation.at)

WheelInv ==
  /\ WheelTypeOK
  /\ resultTimer => effects = "RESULT"
  /\ RestingInv
  /\ TurningInv
  /\ FrameInv

\* The digits given to the wheel while a draw runs; once it is polled, its own.
LEMMA DrawnDigits ==
  ASSUME GInv
  PROVE  /\ game.phase = "DRAWING" => CurrentDigits \in Digits
         /\ poll # None => CurrentDigits = DigitsOf(Base, poll.result)
         /\ wheelDigits \in Digits
<1>1. wheelDigits \in Digits /\ (drawTarget # None => drawTarget \in Digits)
  BY DEF GInv, TableTypeOK, Digits
<1>2. ASSUME poll # None
      PROVE  CurrentDigits = DigitsOf(Base, poll.result)
  <2>1. game.phase = "DRAWING" /\ drawTarget = DigitsOf(Base, poll.result) /\ poll.result \in Triples
    BY <1>2 DEF GInv, PollInv, TableTypeOK
  <2>2. drawTarget # None
    BY <2>1, DigitsType, TableAssumption
  <2> QED BY <2>1, <2>2 DEF CurrentDigits
<1> QED BY <1>1, <1>2 DEF CurrentDigits

\* Digits rendered again do not touch a ring that turns to them.
LEMMA NotRewritten ==
  ASSUME NEW from, NEW to, NEW n, rings = Turned(from, to, n)
  PROVE  Rewritten(drawDigits) = rings
  BY DEF Rewritten, Turned

LEMMA StartedType ==
  ASSUME GInv, game.phase = "DRAWING", NEW live \in BOOLEAN
  PROVE  /\ Started(live) \in [from: Digits, to: Digits, live: BOOLEAN, at: Nat \cup {None}]
         /\ Started(live).live = live /\ Started(live).at = None
         /\ Started(live).from = wheelDigits /\ Started(live).to = CurrentDigits
<1>1. wheelDigits \in Digits /\ CurrentDigits \in Digits
  BY DrawnDigits
<1> QED BY <1>1 DEF Started

LEMMA WheelInit == GInv /\ Init /\ InitWheel => WheelInv
  BY DEF Init, InitWheel, WheelInv, WheelTypeOK, RestingInv, TurningInv, Turning, FrameInv, FrameShown

\* The wheel put at rest, with a table that runs no draw.
LEMMA RestKeeps ==
  ASSUME ShowAtRest(CurrentDigits'), (resultTimer => effects = "RESULT")'
  PROVE  WheelInv'
  BY DEF ShowAtRest, WheelInv, WheelTypeOK, RestingInv, TurningInv, Turning, FrameInv, FrameShown

LEMMA RenderTurns ==
  ASSUME GInv, WheelInv, Render, RenderWheel
  PROVE  WheelInv'
<1>1. effects' = game.phase /\ game'.phase = game.phase /\ UNCHANGED wheelDigits
      /\ (resultTimer => effects = "RESULT")'
  <2>1. game \in GameState
    BY DEF GInv, TableTypeOK
  <2> QED BY <2>1 DEF Render, EnterBetting, StartDraw, EnterResult, screen, WheelInv, GameState
<1>2. CASE game.phase # "DRAWING"
  <2>1. UNCHANGED <<game, wheelDigits, drawTarget>>
    BY <1>2 DEF Render, EnterBetting, EnterResult, screen
  <2>2. CurrentDigits' = CurrentDigits
    BY <2>1 DEF CurrentDigits
  <2>3. ShowAtRest(CurrentDigits)
    BY <1>2, Zenon DEF RenderWheel
  <2>4. ShowAtRest(CurrentDigits')
    BY <2>2, <2>3, Zenon
  <2> QED BY <1>1, <2>4, RestKeeps
<1>3. CASE game.phase = "DRAWING" /\ effects = "DRAWING"
  <2>1. UNCHANGED <<game, screen, poll>> /\ UNCHANGED animation
        /\ drawDigits' = CurrentDigits /\ rings' = Rewritten(CurrentDigits)
    BY <1>3 DEF Render, RenderWheel, ShowSpinning
  <2>2. WheelTypeOK' /\ RestingInv'
    BY <1>1, <1>3, <2>1 DEF WheelInv, WheelTypeOK, RestingInv, Settled
  <2>3. TurningInv'
    BY <2>1, DrawnDigits DEF WheelInv, TurningInv, Turning, screen
  <2>4. FrameInv'
    <3> SUFFICES ASSUME FrameShown'
                 PROVE  /\ animation'.at \in Nat /\ animation'.at <= poll'.elapsed
                        /\ rings' = Turned(wheelDigits', DigitsOf(Base, poll'.result), animation'.at)
      BY DEF FrameInv
    <3>1. FrameShown /\ Turning
      BY <2>1 DEF FrameShown, Turning
    <3>2. drawDigits = CurrentDigits
      BY <3>1, DrawnDigits DEF WheelInv, TurningInv, Turning
    <3>3. rings' = rings
      BY <2>1, <3>1, <3>2, NotRewritten DEF WheelInv, FrameInv
    <3> QED BY <1>1, <2>1, <3>1, <3>3 DEF WheelInv, FrameInv
  <2> QED BY <1>1, <2>2, <2>3, <2>4 DEF WheelInv
<1>4. CASE game.phase = "DRAWING" /\ effects # "DRAWING"
  <2>1. animation' = None \/ animation' = Started(FALSE)
    BY <1>4 DEF RenderWheel, ShowSpinning
  <2>2. Started(FALSE) \in [from: Digits, to: Digits, live: BOOLEAN, at: Nat \cup {None}]
        /\ ~Started(FALSE).live
    BY <1>4, StartedType
  <2>3. WheelTypeOK' /\ ~Turning' /\ ~FrameShown'
    BY <2>1, <2>2 DEF WheelTypeOK, Turning, FrameShown
  <2> QED BY <1>1, <1>4, <2>3 DEF WheelInv, RestingInv, Settled, TurningInv, FrameInv
<1> QED BY <1>2, <1>3, <1>4

\* A step of the table that the wheel does not see.
LEMMA UnseenKeeps ==
  ASSUME GInv, WheelInv, UNCHANGED wheel, UNCHANGED wheelDigits,
         Settled' => Settled /\ CurrentDigits' = CurrentDigits,
         poll' # None => poll # None /\ poll'.result = poll.result
                         /\ poll.elapsed \in Nat /\ poll'.elapsed \in Nat
                         /\ poll.elapsed <= poll'.elapsed,
         (resultTimer => effects = "RESULT")'
  PROVE  WheelInv'
<1>1. WheelTypeOK' /\ RestingInv'
  BY DEF WheelInv, WheelTypeOK, RestingInv, RestOn, wheel
<1>2. TurningInv'
  BY DEF WheelInv, TurningInv, Turning, wheel
<1>3. FrameInv'
  BY DEF WheelInv, FrameInv, FrameShown, wheel
<1> QED BY <1>1, <1>2, <1>3 DEF WheelInv

LEMMA PlayerTurns ==
  ASSUME GInv, WheelInv, Player, UNCHANGED wheel
  PROVE  WheelInv'
<1>0. game \in GameState
  BY DEF GInv, TableTypeOK
<1>1. UNCHANGED <<screen, react>> /\ game'.phase = game.phase
      /\ game'.secondsLeft = game.secondsLeft /\ game'.drawResult = game.drawResult
  <2>1. CASE BetStep
    BY <1>0, <2>1 DEF BetStep, GameState
  <2>2. CASE MinorStep
    BY <1>0, <2>2 DEF MinorStep, GameState
  <2> QED BY <2>1, <2>2, PlayerSteps
<1>2. Settled' = Settled /\ CurrentDigits' = CurrentDigits
  BY <1>1 DEF Settled, Unrendered, IsLocked, CurrentDigits, screen, react
<1>3. poll # None => poll.elapsed \in Nat
  BY DEF GInv, TableTypeOK
<1>4. UNCHANGED <<wheelDigits, poll>> /\ (resultTimer => effects = "RESULT")'
  BY <1>1 DEF screen, react, WheelInv
<1> QED BY <1>2, <1>3, <1>4, UnseenKeeps

LEMMA CountDownTurns ==
  ASSUME GInv, WheelInv, CountDown, UNCHANGED wheel
  PROVE  WheelInv'
<1>0. game \in GameState
  BY DEF GInv, TableTypeOK
<1>1. UNCHANGED <<screen, react>> /\ game'.drawResult = game.drawResult
      /\ ~Unrendered /\ game.phase = "BETTING"
  BY <1>0 DEF CountDown, Unrendered, GameState
<1>2. Settled' => Settled /\ CurrentDigits' = CurrentDigits
  BY <1>1 DEF Settled, CurrentDigits, screen
<1>3. UNCHANGED <<wheelDigits, poll>> /\ (resultTimer => effects = "RESULT")'
  BY <1>1 DEF screen, react, WheelInv
<1>4. poll # None => poll.elapsed \in Nat
  BY DEF GInv, TableTypeOK
<1> QED BY <1>2, <1>3, <1>4, UnseenKeeps

\* The poll that settles leaves the phase of its effects behind.
LEMMA PollTurns ==
  ASSUME GInv, WheelInv, NEW elapsed \in PollTimes, Poll(elapsed), UNCHANGED wheel
  PROVE  WheelInv'
<1>1. /\ poll # None /\ effects = "DRAWING" /\ game.phase = "DRAWING" /\ effects' = effects
      /\ resultTimer' = resultTimer
      /\ poll.elapsed \in Nat /\ elapsed \in Nat /\ elapsed > poll.elapsed
      /\ poll \in [result: Triples, elapsed: Nat]
  BY TableAssumption DEF Poll, GInv, PollInv, TableTypeOK
<1>2. (resultTimer => effects = "RESULT")'
  BY <1>1 DEF WheelInv
<1>3. CASE elapsed < DRAW_TOTAL_MS
  <2>1. poll' = [poll EXCEPT !.elapsed = elapsed] /\ UNCHANGED <<game, wheelDigits>>
    BY <1>1, <1>3 DEF Poll, DRAW_TOTAL_MS, RING_STOP_MS
  <2>2. poll'.result = poll.result /\ poll'.elapsed = elapsed
    BY <1>1, <2>1
  <2>3. ~Settled'
    BY <1>1, <2>1 DEF Settled
  <2> QED BY <1>1, <1>2, <2>1, <2>2, <2>3, UnseenKeeps
<1>4. CASE ~(elapsed < DRAW_TOTAL_MS)
  <2>1. game'.phase = "RESULT" /\ poll' = None
    <3>1. game \in GameState
      BY DEF GInv, TableTypeOK
    <3> QED BY <1>4, <3>1, SettleDoes DEF GameState
  <2>2. ~Settled' /\ ~Turning' /\ ~FrameShown'
    BY <1>1, <2>1 DEF Settled, Unrendered, Turning, FrameShown
  <2>3. WheelTypeOK'
    BY DEF WheelInv, WheelTypeOK, wheel
  <2> QED BY <1>2, <2>2, <2>3 DEF WheelInv, RestingInv, TurningInv, FrameInv
<1> QED BY <1>3, <1>4

LEMMA ReopenTurns ==
  ASSUME GInv, WheelInv, Reopen, UNCHANGED wheel
  PROVE  WheelInv'
<1>1. UNCHANGED <<wheelDigits, drawTarget, poll, effects, locked>> /\ effects = "RESULT"
      /\ (resultTimer => effects = "RESULT")'
  BY DEF Reopen, screen, WheelInv
<1>2. Settled' => Settled /\ CurrentDigits' = CurrentDigits
  <2>1. CASE game.phase = "RESULT"
    <3>1. game'.phase = "BETTING"
      BY <2>1 DEF Reopen, GInv, TableTypeOK, GameState
    <3> QED BY <1>1, <3>1 DEF Settled, Unrendered
  <2>2. CASE game.phase # "RESULT"
    BY <1>1, <2>2 DEF Reopen, Settled, Unrendered, CurrentDigits
  <2> QED BY <2>1, <2>2
<1>3. poll # None => poll.elapsed \in Nat
  BY DEF GInv, TableTypeOK
<1> QED BY <1>1, <1>2, <1>3, UnseenKeeps

LEMMA KeysTurn ==
  ASSUME GInv, WheelInv, Keys, RenderReplaced
  PROVE  WheelInv'
<1>1. (resultTimer => effects = "RESULT")'
  BY DEF Keys, PreviewWin, ResetTable, Replace, WheelInv
<1> QED BY <1>1, RestKeeps DEF RenderReplaced

LEMMA RerenderTurns ==
  ASSUME GInv, WheelInv, Rerender
  PROVE  WheelInv'
<1>1. UNCHANGED vars /\ UNCHANGED <<game, wheelDigits, drawTarget, effects, poll, resultTimer>>
  BY DEF Rerender, vars, screen, react
<1>2. CurrentDigits' = CurrentDigits /\ (resultTimer => effects = "RESULT")'
  BY <1>1 DEF CurrentDigits, WheelInv
<1>3. CASE game.phase # "DRAWING"
  BY <1>2, <1>3, RestKeeps DEF Rerender
<1>4. CASE game.phase = "DRAWING" /\ animation # None /\ animation.live
  <2>1. animation' = animation /\ drawDigits' = CurrentDigits /\ rings' = Rewritten(CurrentDigits)
    BY <1>4 DEF Rerender, ShowSpinning
  <2>2. WheelTypeOK' /\ ~Settled'
    BY <1>1, <1>4, <2>1 DEF WheelInv, WheelTypeOK, Settled
  <2>3. TurningInv'
    BY <1>1, <2>1, DrawnDigits DEF WheelInv, TurningInv, Turning
  <2>4. FrameInv'
    <3> SUFFICES ASSUME FrameShown PROVE FrameInv'
      BY <1>1, <2>1 DEF FrameInv, FrameShown
    <3>1. drawDigits = CurrentDigits
      BY <1>4, DrawnDigits DEF FrameShown, WheelInv, TurningInv, Turning
    <3>2. rings' = rings
      BY <2>1, <3>1, NotRewritten DEF WheelInv, FrameInv
    <3> QED BY <1>1, <2>1, <3>2 DEF WheelInv, FrameInv
  <2> QED BY <1>2, <2>2, <2>3, <2>4 DEF WheelInv, RestingInv
<1>5. CASE game.phase = "DRAWING" /\ ~(animation # None /\ animation.live)
  <2>1. animation' = Started(TRUE) /\ drawDigits' = CurrentDigits
    BY <1>5 DEF Rerender, ShowSpinning
  <2>2. /\ animation' \in [from: Digits, to: Digits, live: BOOLEAN, at: Nat \cup {None}]
        /\ animation'.at = None
        /\ animation'.from = wheelDigits /\ animation'.to = CurrentDigits
    BY <1>5, <2>1, StartedType
  <2>3. WheelTypeOK' /\ ~Settled' /\ ~FrameShown'
    BY <1>1, <1>5, <2>2 DEF WheelTypeOK, Settled, FrameShown
  <2>4. TurningInv'
    BY <1>1, <2>1, <2>2, DrawnDigits DEF TurningInv, Turning
  <2> QED BY <1>2, <2>3, <2>4 DEF WheelInv, RestingInv, FrameInv
<1> QED BY <1>3, <1>4, <1>5

LEMMA FrameTurns ==
  ASSUME GInv, WheelInv, Frame
  PROVE  WheelInv'
<1>1. UNCHANGED vars
      /\ UNCHANGED <<game, wheelDigits, drawTarget, effects, locked, poll, resultTimer, drawDigits>>
  BY DEF Frame, vars, screen, react
<1>2. /\ animation \in [from: Digits, to: Digits, live: BOOLEAN, at: Nat \cup {None}]
      /\ animation' = [animation EXCEPT !.at = FrameTime]
      /\ rings' = Turned(animation.from, animation.to, FrameTime)
  BY DEF Frame, WheelInv, WheelTypeOK
<1>3. FrameTime \in Nat
  <2>1. poll # None => poll.elapsed \in Nat
    BY DEF GInv, TableTypeOK
  <2> QED BY <2>1 DEF FrameTime, DRAW_TOTAL_MS, RING_STOP_MS
<1>4. /\ animation'.at = FrameTime /\ animation'.live = animation.live
      /\ animation'.from = animation.from /\ animation'.to = animation.to
      /\ animation' \in [from: Digits, to: Digits, live: BOOLEAN, at: Nat \cup {None}]
  BY <1>2, <1>3
<1>5. WheelTypeOK' /\ (resultTimer => effects = "RESULT")'
  BY <1>1, <1>4 DEF WheelTypeOK, WheelInv
<1>6. RestingInv'
  <2>1. ~Settled
    BY DEF Frame, WheelInv, RestingInv
  <2>2. ~Settled'
    BY <1>1, <2>1 DEF Settled, Unrendered
  <2> QED BY <2>2 DEF RestingInv
<1>7. animation # None
  BY DEF Frame
<1>8. TurningInv'
  BY <1>1, <1>4, <1>7 DEF WheelInv, TurningInv, Turning
<1>9. FrameInv'
  <2> SUFFICES ASSUME FrameShown' PROVE FrameInv'
    BY DEF FrameInv
  <2>1. Turning
    BY <1>1, <1>4, <1>7 DEF FrameShown, Turning
  <2>2. FrameTime = poll.elapsed
    BY <2>1 DEF FrameTime, Turning
  <2>3. animation.from = wheelDigits /\ animation.to = DigitsOf(Base, poll.result)
    BY <2>1 DEF WheelInv, TurningInv
  <2> QED BY <1>1, <1>2, <1>3, <1>4, <2>2, <2>3 DEF FrameInv
<1> QED BY <1>5, <1>6, <1>8, <1>9 DEF WheelInv

LEMMA WheelKeeps == GInv /\ WheelInv /\ [Next]_tableAndWheel => WheelInv'
<1> SUFFICES ASSUME GInv, WheelInv, [Next]_tableAndWheel PROVE WheelInv'
  OBVIOUS
<1>1. CASE Render /\ RenderWheel
  BY <1>1, RenderTurns
<1>2. CASE (CountDown \/ (\E e \in PollTimes : Poll(e)) \/ Reopen) /\ UNCHANGED wheel
  BY <1>2, CountDownTurns, PollTurns, ReopenTurns
<1>3. CASE Keys /\ RenderReplaced
  BY <1>3, KeysTurn
<1>4. CASE Player /\ UNCHANGED wheel
  BY <1>4, PlayerTurns
<1>5. CASE Rerender \/ Frame
  BY <1>5, RerenderTurns, FrameTurns
<1>6. CASE UNCHANGED tableAndWheel
  <2>1. poll # None => poll.elapsed \in Nat
    BY DEF GInv, TableTypeOK
  <2>2. UNCHANGED <<game, wheelDigits, drawTarget, effects, locked, poll, resultTimer, wheel>>
    BY <1>6 DEF tableAndWheel, vars, screen, react
  <2>3. Settled' = Settled /\ CurrentDigits' = CurrentDigits /\ (resultTimer => effects = "RESULT")'
    BY <2>2 DEF Settled, Unrendered, CurrentDigits, WheelInv
  <2> QED BY <2>1, <2>2, <2>3, UnseenKeeps
<1> QED BY <1>1, <1>2, <1>3, <1>4, <1>5, <1>6 DEF Next

LEMMA RingsShown ==
  ASSUME GInv, WheelInv
  PROVE  RingsAreOfTheirDraw
<1>1. ASSUME ~Unrendered, game.phase # "DRAWING", game.drawResult # PreviewDraw
      PROVE  CurrentDigits = wheelDigits
  BY <1>1 DEF CurrentDigits, GInv, RestInv
<1> QED BY <1>1 DEF RingsAreOfTheirDraw, WheelInv, RestingInv, Settled, FrameInv

\* Between draws the rings rest on the digits the next spin starts from; once
\* a frame of a draw is shown they are at one instant of its turn, from there
\* to its own result (WheelContainer.tsx).
THEOREM RingsCorrect == Spec => []RingsAreOfTheirDraw
<1>1. GInv /\ Init /\ InitWheel => WheelInv
  BY WheelInit
<1>2. GInv /\ WheelInv /\ [Next]_tableAndWheel => WheelInv'
  BY WheelKeeps
<1>3. GInv /\ WheelInv => RingsAreOfTheirDraw
  BY RingsShown
<1> QED BY <1>1, <1>2, <1>3, TableInvariant, PTL DEF Spec, ScreenInit

-----------------------------------------------------------------------------
(* What a step may not do                                                  *)

LEMMA StepConserves ==
  ASSUME GInv, [TableNext]_vars
  PROVE  \/ Keys
         \/ Worth' = Worth
         \/ /\ game.phase = "DRAWING" /\ game'.phase = "RESULT"
            /\ drawTarget = DigitsOf(Base, game.drawResult)
            /\ Worth' = Worth + settleBets(game.bets, game.drawResult)
         \/ /\ game.phase = "RESULT" /\ game'.phase = "BETTING"
            /\ game'.pointsBalance = game.pointsBalance
<1>0. game.pointsBalance \in Nat /\ game.playStake \in Nat /\ game \in GameState
      /\ game.bets \in [Cells -> Nat]
  BY GameFacts DEF GInv, TableTypeOK
<1>1. CASE BetStep
  <2>1. PICK balance \in Nat, stake \in Nat, bets \in [Cells -> Nat] :
        /\ balance + stake = game.pointsBalance + game.playStake
        /\ game' = [game EXCEPT !.pointsBalance = balance, !.playStake = stake, !.bets = bets]
    BY <1>1 DEF BetStep
  <2>2. game'.pointsBalance = balance /\ game'.playStake = stake
    BY <1>0, <2>1 DEF GameState
  <2>3. Worth' = Worth
    BY <2>1, <2>2 DEF Worth
  <2> QED BY <2>3
<1>2. CASE MinorStep
  <2>1. game'.pointsBalance = game.pointsBalance /\ game'.playStake = game.playStake
    BY <1>0, <1>2 DEF MinorStep, GameState
  <2> QED BY <2>1 DEF Worth
<1>3. CASE Render \/ CountDown \/ UNCHANGED vars
  <2>1. game'.pointsBalance = game.pointsBalance /\ game'.playStake = game.playStake
    BY <1>0, <1>3 DEF Render, EnterBetting, StartDraw, EnterResult, CountDown, vars, GameState
  <2> QED BY <2>1 DEF Worth
<1>4. ASSUME NEW elapsed \in PollTimes, Poll(elapsed)
      PROVE  \/ Worth' = Worth
             \/ /\ game.phase = "DRAWING" /\ game'.phase = "RESULT"
                /\ drawTarget = DigitsOf(Base, game.drawResult)
                /\ Worth' = Worth + settleBets(game.bets, game.drawResult)
  <2>1. CASE UNCHANGED game
    BY <2>1 DEF Worth
  <2>2. CASE ~(elapsed < DRAW_TOTAL_MS)
    <3> DEFINE won == settleBets(game.bets, game.drawResult)
    <3>1. PICK message \in Statuses :
            game' = [game EXCEPT !.phase = "RESULT", !.winAmount = won,
                                 !.pointsBalance = game.pointsBalance + won, !.statusMessage = message]
      BY <1>4, <2>2, SettleDoes
    <3>2. game.phase = "DRAWING" /\ drawTarget = DigitsOf(Base, game.drawResult)
          /\ game.drawResult \in Triples
      BY <1>4, <2>2, SettleDoes
    <3>3. won \in Nat
      BY <1>0, <3>2, WinIsNat
    <3> HIDE DEF won
    <3>4. game'.phase = "RESULT" /\ game'.playStake = game.playStake
          /\ game'.pointsBalance = game.pointsBalance + won
      BY <1>0, <3>1 DEF GameState
    <3>5. Worth' = Worth + won
      BY <1>0, <3>3, <3>4 DEF Worth
    <3> QED BY <3>2, <3>4, <3>5 DEF won
  <2>3. UNCHANGED game \/ ~(elapsed < DRAW_TOTAL_MS)
    <3>1. elapsed \in Nat /\ DRAW_TOTAL_MS = 9500
      BY TableAssumption DEF DRAW_TOTAL_MS, RING_STOP_MS
    <3> QED BY <1>4, <3>1 DEF Poll
  <2> QED BY <1>4, <2>1, <2>2, <2>3
<1>5. CASE Reopen
  <2>1. CASE game.phase = "RESULT"
    BY <1>0, <1>5, <2>1 DEF Reopen, GameState
  <2>2. CASE game.phase # "RESULT"
    BY <1>5, <2>2 DEF Reopen, Worth
  <2> QED BY <2>1, <2>2
<1> QED BY <1>1, <1>2, <1>3, <1>4, <1>5, PlayerSteps DEF TableNext, Timers

LEMMA StepKeepsBets ==
  ASSUME GInv, [TableNext]_vars, game'.bets # game.bets
  PROVE  \/ game.phase = "BETTING" /\ game.secondsLeft >= LockSeconds
         \/ game.phase = "RESULT" /\ game'.phase = "BETTING"
         \/ Keys
<1>0. game \in GameState
  BY DEF GInv, TableTypeOK
<1>1. CASE BetStep
  BY <1>1 DEF BetStep
<1>2. CASE MinorStep
  BY <1>0, <1>2 DEF MinorStep, GameState
<1>3. CASE Render \/ CountDown \/ UNCHANGED vars
  BY <1>0, <1>3 DEF Render, EnterBetting, StartDraw, EnterResult, CountDown, vars, GameState
<1>4. ASSUME NEW elapsed \in PollTimes, Poll(elapsed)
      PROVE  FALSE
  <2>1. CASE ~(elapsed < DRAW_TOTAL_MS)
    BY <1>0, <1>4, <2>1, SettleDoes DEF GameState
  <2>2. UNCHANGED game \/ ~(elapsed < DRAW_TOTAL_MS)
    <3>1. elapsed \in Nat /\ DRAW_TOTAL_MS = 9500
      BY TableAssumption DEF DRAW_TOTAL_MS, RING_STOP_MS
    <3> QED BY <1>4, <3>1 DEF Poll
  <2> QED BY <1>4, <2>1, <2>2
<1>5. CASE Reopen
  BY <1>0, <1>5 DEF Reopen, GameState
<1> QED BY <1>1, <1>2, <1>3, <1>4, <1>5, PlayerSteps DEF TableNext, Timers

\* Points are neither made nor lost in play: balance and stake change only
\* with a settlement, by what the bets win with the digits the wheel turned
\* to, with the reopening, and with a key that replaces the table.
THEOREM ConservationCorrect == Spec => PointsConserved
<1>1. GInv /\ [TableNext]_vars =>
        [\/ Keys
         \/ Worth' = Worth
         \/ /\ game.phase = "DRAWING" /\ game'.phase = "RESULT"
            /\ drawTarget = DigitsOf(Base, game.drawResult)
            /\ Worth' = Worth + settleBets(game.bets, game.drawResult)
         \/ /\ game.phase = "RESULT" /\ game'.phase = "BETTING"
            /\ game'.pointsBalance = game.pointsBalance]_vars
  BY StepConserves
<1> QED BY <1>1, TableInvariant, TableSteps, PTL DEF Spec, ScreenInit, PointsConserved

\* From the lock to the result no bet changes.
THEOREM LockCorrect == Spec => BetsStandOnceLocked
<1>1. GInv /\ [TableNext]_vars =>
        [game'.bets # game.bets =>
          \/ game.phase = "BETTING" /\ game.secondsLeft >= LockSeconds
          \/ game.phase = "RESULT" /\ game'.phase = "BETTING"
          \/ Keys]_vars
  BY StepKeepsBets
<1> QED BY <1>1, TableInvariant, TableSteps, PTL DEF Spec, ScreenInit, BetsStandOnceLocked

-----------------------------------------------------------------------------
(***************************************************************************)
(* The wheel.  What a ring does while it spins does not depend on the      *)
(* table, so nothing of the invariant is needed.                           *)
(***************************************************************************)

\* Every digit is on every ring.
LEMMA Segments ==
  ASSUME NEW ring \in Rings, NEW d \in 0 .. 9
  PROVE  SegmentOf(ring, d) \in 0 .. 9 /\ RING_ORDER[ring][SegmentOf(ring, d) + 1] = d
<1>1. \E i \in 0 .. 9 : RING_ORDER[ring][i + 1] = d
  <2>1. CASE ring = 1
    <3>1. RING_ORDER[1] = <<5, 0, 6, 4, 7, 3, 8, 2, 9, 1>>
      BY DEF RING_ORDER
    <3> QED BY <2>1, <3>1
  <2>2. CASE ring = 2
    <3>1. RING_ORDER[2] = <<9, 1, 5, 0, 6, 4, 7, 3, 8, 2>>
      BY DEF RING_ORDER
    <3> QED BY <2>2, <3>1
  <2>3. CASE ring = 3
    <3>1. RING_ORDER[3] = <<4, 7, 3, 8, 2, 9, 1, 5, 0, 6>>
      BY DEF RING_ORDER
    <3> QED BY <2>3, <3>1
  <2> QED BY <2>1, <2>2, <2>3 DEF Rings
<1> QED BY <1>1 DEF SegmentOf

\* A ring at the resting angle of a digit shows that digit.
LEMMA Resting ==
  ASSUME NEW ring \in Rings, NEW d \in 0 .. 9
  PROVE  RestAngle(ring, d) \in 0 .. 359 /\ DigitAtPointer(ring, RestAngle(ring, d)) = d
<1> DEFINE seg == SegmentOf(ring, d)
           rest == (-seg * 36) % 360
           pointed == ((((-rest) % 360) + 18) \div 36) % 10
<1>1. seg \in 0 .. 9 /\ RING_ORDER[ring][seg + 1] = d
  BY Segments
<1>2. RestAngle(ring, d) = rest
  BY DEF RestAngle, Mod360, SEGMENT_DEG
<1> HIDE DEF seg
<1>3. rest \in 0 .. 359 /\ pointed = seg
  BY <1>1
<1>4. SEGMENT_DEG \div 2 = 18 /\ SEGMENT_DEG = 36
  BY DEF SEGMENT_DEG
<1>5. DigitAtPointer(ring, RestAngle(ring, d)) = RING_ORDER[ring][pointed + 1]
  BY <1>2, <1>4 DEF DigitAtPointer, Mod360
<1> QED BY <1>1, <1>2, <1>3, <1>5

\* What a spin turns through is at least the whole turns, in the ring's own
\* direction, and leads to the resting angle of the digit, up to full circles.
LEMMA Turns ==
  ASSUME NEW ring \in Rings, NEW from \in 0 .. 9, NEW to \in 0 .. 9
  PROVE  LET dir   == RING_DIRECTION[ring]
             total == SpinTotal(ring, from, to)
         IN  /\ dir \in {-1, 1}
             /\ total \in Int
             /\ dir * total >= RING_TURNS[ring] * 360
             /\ RING_TURNS[ring] \in {5, 7, 9}
             /\ \E k \in Int : RestAngle(ring, from) + total - RestAngle(ring, to) = 360 * k
<1> DEFINE a == RestAngle(ring, from)
           b == RestAngle(ring, to)
           t == RING_TURNS[ring]
           dir == RING_DIRECTION[ring]
<1>1. a \in 0 .. 359 /\ b \in 0 .. 359
  BY Resting
<1>2. t \in {5, 7, 9} /\ dir \in {-1, 1}
  BY DEF RING_TURNS, RING_DIRECTION, Rings
<1>3. SpinTotal(ring, from, to)
        = dir * t * 360 + (IF dir > 0 THEN (b - a) % 360 ELSE -((a - b) % 360))
  BY DEF SpinTotal, Mod360
<1> HIDE DEF a, b, t, dir
<1>4. CASE dir = 1
  <2> DEFINE r == (b - a) % 360
             q == (b - a) \div 360
  <2>1. SpinTotal(ring, from, to) = t * 360 + r
    BY <1>1, <1>2, <1>3, <1>4
  <2>2. r \in 0 .. 359 /\ q \in Int /\ b - a = 360 * q + r
    BY <1>1
  <2> HIDE DEF r, q
  <2>3. a + SpinTotal(ring, from, to) - b = 360 * (t - q) /\ t - q \in Int
    BY <1>1, <1>2, <2>1, <2>2
  <2>4. SpinTotal(ring, from, to) \in Int /\ dir * SpinTotal(ring, from, to) >= t * 360
    BY <1>2, <1>4, <2>1, <2>2
  <2> QED BY <1>2, <2>3, <2>4 DEF a, b, t, dir
<1>5. CASE dir = -1
  <2> DEFINE r == (a - b) % 360
             q == (a - b) \div 360
  <2>1. SpinTotal(ring, from, to) = -(t * 360) - r
    BY <1>1, <1>2, <1>3, <1>5
  <2>2. r \in 0 .. 359 /\ q \in Int /\ a - b = 360 * q + r
    BY <1>1
  <2> HIDE DEF r, q
  <2>3. a + SpinTotal(ring, from, to) - b = 360 * (q - t) /\ q - t \in Int
    BY <1>1, <1>2, <2>1, <2>2
  <2>4. SpinTotal(ring, from, to) \in Int /\ dir * SpinTotal(ring, from, to) >= t * 360
    BY <1>2, <1>5, <2>1, <2>2
  <2> QED BY <1>2, <2>3, <2>4 DEF a, b, t, dir
<1> QED BY <1>2, <1>4, <1>5

\* The curve rises at every twentieth, never faster than at the start.
LEMMA Curve ==
  /\ SpinProgress(0) = 0
  /\ SpinProgress(1) = 147
  /\ SpinProgress(19) = 2253
  /\ \A n \in 0 .. 18 :
       /\ SpinProgress(n) \in Int
       /\ SpinProgress(n + 1) \in Int
       /\ SpinProgress(n + 1) - SpinProgress(n) \in 1 .. 147
<1>1. \A n \in 0 .. 13 : SpinProgress(n) = 147 * n
  BY DEF SpinProgress
<1>2. /\ SpinProgress(14) = 2038 /\ SpinProgress(15) = 2129 /\ SpinProgress(16) = 2190
      /\ SpinProgress(17) = 2227 /\ SpinProgress(18) = 2246 /\ SpinProgress(19) = 2253
  BY DEF SpinProgress, SpinScale, SpinSteps
<1> QED BY <1>1, <1>2

\* Every spin, from any digit to any other, turns one way, is fastest at its
\* start, and stops without a jump on the digit that was drawn.
LEMMA Spins == SpinsLandOnTheirDigit
<1> SUFFICES ASSUME NEW ring \in Rings, NEW from \in 0 .. 9, NEW to \in 0 .. 9
             PROVE  LET dir   == RING_DIRECTION[ring]
                        total == SpinTotal(ring, from, to)
                        end   == (RestAngle(ring, from) + total) * SpinScale
                        turned(n) == IF n = SpinSteps THEN end ELSE RingAngleAt(ring, from, to, n)
                    IN  /\ DigitAtPointer(ring, RestAngle(ring, to)) = to
                        /\ (end - RingAngleAt(ring, from, to, SpinSteps)) % (360 * SpinScale) = 0
                        /\ dir * total >= RING_TURNS[ring] * 360
                        /\ \A n \in 0..(SpinSteps - 1) :
                              /\ dir * turned(n) < dir * turned(n + 1)
                              /\ dir * (turned(n + 1) - turned(n))
                                    <= dir * (turned(1) - turned(0))
  BY DEF SpinsLandOnTheirDigit
<1> DEFINE dir   == RING_DIRECTION[ring]
           total == SpinTotal(ring, from, to)
           a     == RestAngle(ring, from)
           b     == RestAngle(ring, to)
           end   == (a + total) * SpinScale
           turned(n) == IF n = SpinSteps THEN end ELSE RingAngleAt(ring, from, to, n)
<1>1. a \in 0 .. 359 /\ b \in 0 .. 359 /\ DigitAtPointer(ring, b) = to
  BY Resting
<1>2. /\ dir \in {-1, 1} /\ total \in Int /\ dir * total >= RING_TURNS[ring] * 360
      /\ RING_TURNS[ring] \in {5, 7, 9}
  BY Turns
<1>3. PICK k \in Int : a + total - b = 360 * k
  BY Turns
<1>4. SpinScale = 2254 /\ SpinSteps = 20
  BY DEF SpinScale, SpinSteps
<1>5. (end - RingAngleAt(ring, from, to, SpinSteps)) % (360 * SpinScale) = 0
  <2>1. RingAngleAt(ring, from, to, SpinSteps) = b * 2254
    BY <1>4 DEF RingAngleAt
  <2> HIDE DEF a, b, total
  <2>2. end - b * 2254 = 811440 * k
    BY <1>1, <1>2, <1>3, <1>4
  <2>3. (811440 * k) % 811440 = 0
    OBVIOUS
  <2> QED BY <1>4, <2>1, <2>2, <2>3
<1>6. \A n \in 0 .. 19 : turned(n) = a * 2254 + total * SpinProgress(n)
  <2> SUFFICES ASSUME NEW n \in 0 .. 19 PROVE turned(n) = a * 2254 + total * SpinProgress(n)
    OBVIOUS
  <2>1. CASE n = 0
    <3>1. turned(0) = a * 2254
      BY <1>4 DEF RingAngleAt
    <3> HIDE DEF a, total, turned
    <3> QED BY <2>1, <3>1, <1>1, <1>2, Curve
  <2>2. CASE n # 0
    BY <1>4, <2>2 DEF RingAngleAt
  <2> QED BY <2>1, <2>2
<1>7. turned(20) = a * 2254 + total * 2254
  <2>1. turned(20) = (a + total) * 2254
    BY <1>4
  <2> HIDE DEF a, total, turned
  <2> QED BY <2>1, <1>1, <1>2
<1>8. \A n \in 0 .. 19 : \E p \in 1 .. 147 : turned(n + 1) - turned(n) = total * p
  <2> HIDE DEF a, total, turned
  <2> SUFFICES ASSUME NEW n \in 0 .. 19
               PROVE  \E p \in 1 .. 147 : turned(n + 1) - turned(n) = total * p
    OBVIOUS
  <2>1. CASE n = 19
    BY <1>1, <1>2, <1>6, <1>7, <2>1, Curve
  <2>2. CASE n # 19
    <3> DEFINE p == SpinProgress(n)
               q == SpinProgress(n + 1)
    <3>1. n \in 0 .. 18 /\ n + 1 \in 0 .. 19
      BY <2>2
    <3>2. p \in Int /\ q \in Int /\ q - p \in 1 .. 147
      BY <3>1, Curve
    <3>3. turned(n) = a * 2254 + total * p /\ turned(n + 1) = a * 2254 + total * q
      BY <1>6, <3>1
    <3> HIDE DEF p, q
    <3>4. turned(n + 1) - turned(n) = total * (q - p)
      BY <1>1, <1>2, <3>2, <3>3
    <3> QED BY <3>2, <3>4
  <2> QED BY <2>1, <2>2
<1>9. turned(1) - turned(0) = total * 147
  <2> HIDE DEF a, total, turned
  <2> QED BY <1>1, <1>2, <1>6, Curve
<1>10. \A n \in 0 .. 20 : turned(n) \in Int
  <2> HIDE DEF a, total, turned
  <2>1. \A n \in 0 .. 19 : SpinProgress(n) \in Int
    BY Curve
  <2> QED BY <1>1, <1>2, <1>6, <1>7, <2>1
<1>11. \A n \in 0 .. 19 : /\ dir * turned(n) < dir * turned(n + 1)
                          /\ dir * (turned(n + 1) - turned(n)) <= dir * (turned(1) - turned(0))
  <2> HIDE DEF a, total, turned, dir
  <2> TAKE n \in 0 .. 19
  <2>1. PICK p \in 1 .. 147 : turned(n + 1) - turned(n) = total * p
    BY <1>8
  <2>2. turned(n) \in Int /\ turned(n + 1) \in Int
    BY <1>10
  <2>3. CASE dir = 1
    <3>1. total > 0
      BY <1>2, <2>3
    <3>2. total * p > 0 /\ total * p <= total * 147
      BY <1>2, <3>1
    <3> QED BY <1>9, <2>1, <2>2, <2>3, <3>2, <1>2
  <2>4. CASE dir = -1
    <3>1. total < 0
      BY <1>2, <2>4
    <3>2. total * p < 0 /\ total * p >= total * 147
      BY <1>2, <3>1
    <3> QED BY <1>9, <2>1, <2>2, <2>4, <3>2, <1>2
  <2> QED BY <1>2, <2>3, <2>4
<1> QED BY <1>1, <1>2, <1>4, <1>5, <1>11

\* RingsLandOnTheDraw: whatever the table does, every ring turns one way and
\* stops on the drawn digit (wheel.ts).
THEOREM SpinsCorrect == Spec => []RingsLandOnTheDraw
<1>1. TRUE => RingsLandOnTheDraw
  BY Spins DEF RingsLandOnTheDraw
<1> QED BY <1>1, PTL

=============================================================================
