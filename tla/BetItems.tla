------------------------------ MODULE BetItems ------------------------------
(***************************************************************************)
(* The item lists of POST /bets: what PlaceBetDto and BetsService check of *)
(* them, and the merged list a bet is made of.  Merging adds the amounts   *)
(* of a selection that occurs more than once, so amounts that are safe     *)
(* one by one need not be safe together.                                   *)
(***************************************************************************)
EXTENDS Integers, Sequences, FiniteSets, Sums

CONSTANT MaxSafe   \* Number.MAX_SAFE_INTEGER

ASSUME MaxSafeAssumption == MaxSafe \in Nat \ {0}

LastSelection == [singles |-> 9, doubles |-> 99, triples |-> 999]

Categories == DOMAIN LastSelection

\* One item as the client sends it, or merged.
ItemRows == [category: Categories, selection: Int, amount: Int]

Item(c, s, n) == [category |-> c, selection |-> s, amount |-> n]

Same(i, j) == i.category = j.category /\ i.selection = j.selection

\* PlaceBetItemDto, and the check mergeItems repeats.
WellFormed(items) ==
  /\ items # <<>>
  /\ \A k \in DOMAIN items :
       /\ items[k].category \in Categories
       /\ items[k].selection \in 0 .. 999
       /\ items[k].amount \in 1 .. MaxSafe

\* The Map's values, one per category and selection, added as BigInt.
Amounts(items) == [k \in DOMAIN items |-> items[k].amount]

Merged(items, i) ==
  [i EXCEPT !.amount = SumOf(Amounts(items), {k \in DOMAIN items : Same(items[k], i)})]

MergeItems(items) == {Merged(items, items[k]) : k \in DOMAIN items}

TotalOf(merged) == SumOf([i \in merged |-> i.amount], merged)

InRange(merged) == \A i \in merged : i.selection <= LastSelection[i.category]

\* Mutant: the total is not checked again.
SafeItemsOnly(merged) == \A i \in merged : i.amount <= MaxSafe

SafeAmounts(merged) ==
  /\ \A i \in merged : i.amount <= MaxSafe
  /\ TotalOf(merged) <= MaxSafe

\* What placeBet has let through when it looks for a replay.
Accepted(items) ==
  /\ WellFormed(items)
  /\ InRange(MergeItems(items))
  /\ SafeAmounts(MergeItems(items))

\* itemsMatch: as many items, and each of the request's among the stored.
ItemsMatch(existing, merged) ==
  /\ Cardinality(existing) = Cardinality(merged)
  /\ \A m \in merged : \E i \in existing : Same(i, m) /\ i.amount = m.amount
=============================================================================
