----------------------------- MODULE PlacedItems -----------------------------
(***************************************************************************)
(* PointsApi with the items of its bets: what the bets of PointsApi stake  *)
(* is what BetItems makes of the lists that clients send.                  *)
(***************************************************************************)
EXTENDS PointsApi, BetItems

CONSTANT ItemLists   \* the items of POST /bets, as clients send them

ASSUME PlacedAssumption ==
  /\ ItemLists \subseteq Seq(ItemRows)
  /\ Items = {MergeItems(list) : list \in {l \in ItemLists : Accepted(l)}}
  /\ \A i \in Items : Stake[i] = TotalOf(i)

\* bets.service.ts:510-515: however items are split and merged, what a bet
\* stakes on a selection and in all is a safe number; and the comparison a
\* replay makes with stored items is that of the two merged lists.
MergedItemsAreSound ==
  \A c \in BetCalls : betRequest[c] # NoBetRequest =>
    LET items == betRequest[c].items IN
    /\ \A i \in items : i.amount \in 1 .. MaxSafe /\ i.selection <= LastSelection[i.category]
    /\ Stake[items] <= MaxSafe
    /\ \A b \in bets : ItemsMatch(b.items, items) <=> b.items = items
=============================================================================
