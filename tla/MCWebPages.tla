----------------------------- MODULE MCWebPages ------------------------------
(* A small instance of the pages of apps/web.                               *)
EXTENDS WebPages

MCToday == [year |-> 2026, month |-> 3, day |-> 1]

\* A form for every check: of age on the eighteenth birthday, the day after
\* it would be, and for a 29th of February.
Birth(y, m, d) == [year |-> y, month |-> m, day |-> d]
MCSignups ==
    {[username |-> u, email |-> e, birth |-> b] : u \in BOOLEAN, e \in BOOLEAN,
        b \in {Birth(0, 0, 0), Birth(2008, 3, 1), Birth(2008, 3, 2), Birth(2008, 2, 29)}}
=============================================================================
