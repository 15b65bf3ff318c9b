------------------------------ MODULE MCFraud ------------------------------
(* Instances of Fraud for TLC; amounts are in reais, not in cents. *)
EXTENDS Fraud, TLC

Asks(s, x, n, a) == [sender |-> s, receiver |-> x, amount |-> n, age |-> a]

\* A payment that is approved alone, one a young account is held for review
\* over, one that is blocked, and one no column can hold.
CommandsOverlap ==
    {Asks("s", "x", 9000, 40), Asks("s", "x", 19000, 3),
     Asks("x", "s", 60000, 40), Asks("s", "x", ColumnMax + 1, 10)}

\* The edges of the windows: ten minutes are still recent, an hour and a day
\* are not when a minute has passed.
Minutes == {0, 10, 61, 1441}

Symmetric == Permutations(Requests)
=============================================================================
