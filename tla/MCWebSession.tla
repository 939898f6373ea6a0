--------------------------- MODULE MCWebSession ----------------------------
(* Tabs and bounds for TLC: one tab, and three sessions over its life.     *)
EXTENDS WebSession

CONSTANT t1

OneTab == {t1}

ThreeSids == 1 .. 3
=============================================================================
