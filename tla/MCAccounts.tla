----------------------------- MODULE MCAccounts -----------------------------
(* Instances of Accounts for TLC. *)
EXTENDS Accounts, TLC

\* u and v have accounts, w has none yet; u has one key.
Rows == {[id |-> "au", user |-> "u", balance |-> 0, status |-> "ACTIVE"],
         [id |-> "av", user |-> "v", balance |-> 7, status |-> "ACTIVE"]}
Owner == [k \in Keys |-> IF k = "k1" THEN "au" ELSE None]

Opens(u) == [op |-> "open", user |-> u]
Registers(u, k) == [op |-> "register", user |-> u, key |-> k, fits |-> TRUE]
Removes(u, k) == [op |-> "remove", user |-> u, key |-> k]

\* Everything the three can do to the two keys, one value that fits no type, and
\* an account for w and a second one for v.
CommandsOverlap ==
    {Registers(u, k) : u \in {"u", "v"}, k \in Keys}
    \cup {Removes(u, k) : u \in {"u", "v"}, k \in Keys}
    \cup {[Registers("v", "k1") EXCEPT !.fits = FALSE]}
    \cup {Opens("v"), Opens("w"), Registers("w", "k2")}

Symmetric == Permutations(Requests)
=============================================================================
