----------------------------- MODULE MCPointsApi ----------------------------
(* Small instances of PointsApi.  Which calls exist is chosen in the cfg;   *)
(* what they may carry is defined here.                                     *)
EXTENDS PlacedItems, TLC

CONSTANTS u1, u2, k1, k2, r1, g1, g2, a1, a2, why

Single == <<Item("singles", 3, 1)>>
Other  == <<Item("singles", 4, 1)>>
Pair   == <<Item("singles", 3, 1), Item("doubles", 3, 1)>>
Twice  == <<Item("singles", 3, 1), Item("singles", 3, 1)>>

\* Safe one by one and not together; out of its category's range.
Unsafe  == <<Item("singles", 3, 2), Item("singles", 4, 2)>>
Unsafe2 == <<Item("singles", 3, 2), Item("singles", 3, 1)>>
Beyond  == <<Item("singles", 10, 1)>>

\* 'Single' and 'Other' have the same total; so have 'Pair' and 'Twice'.
MCLists == {Single, Other, Pair, Twice, Unsafe, Unsafe2, Beyond}
MCItems == {MergeItems(list) : list \in {l \in MCLists : Accepted(l)}}
MCStake == [i \in MCItems |-> TotalOf(i)]

\* A request as the service lets it through, if it does.
Bet(u, k, g, list) ==
  IF Accepted(list)
  THEN {[user |-> u, key |-> k, game |-> g, round |-> r1, items |-> MergeItems(list)]}
  ELSE {}

\* Retries and reuses of one key, a second bet that the balance affords only
\* alone, the same key from another player, a round of the wrong game.
MCBetRequests ==
  Bet(u1, k1, g1, Single) \cup Bet(u1, k1, g1, Other) \cup Bet(u1, k2, g1, Twice)
  \cup Bet(u2, k1, g1, Pair) \cup Bet(u2, k2, g2, Single)
  \cup UNION {Bet(u1, k2, g1, l) : l \in {Unsafe, Unsafe2, Beyond}}

Change(u, k, d, n, a) ==
  [user |-> u, key |-> k, direction |-> d, amount |-> n, admin |-> a, reason |-> why]

\* One key for two players, two admins or two amounts; a debit that competes
\* with the bets.
MCAdjustRequests ==
  {Change(u1, k1, "credit", 1, a1), Change(u1, k1, "credit", 1, a2),
   Change(u2, k1, "credit", 1, a1), Change(u1, k2, "debit", 2, a1)}

MCContendingAdjust == {Change(u1, k2, "debit", 2, a1)}

MCApplyRequests ==
  {[user |-> u1, direction |-> "credit", amount |-> 1, refType |-> "settlement_win",
    refId |-> NoCall, key |-> <<"client", k1>>],
   [user |-> u1, direction |-> "debit", amount |-> 2, refType |-> "admin_debit",
    refId |-> NoCall, key |-> <<"client", k2>>]}

MCOpening  == u1 :> 2 @@ u2 :> 0
MCGameOf   == r1 :> g1
MCDeadline == r1 :> 1

MCCalls == BetCalls \cup AdjustCalls \cup ApplyCalls
=============================================================================
