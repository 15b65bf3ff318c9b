----------------------------- MODULE MCPayments -----------------------------
(* Instances of Payments for TLC. *)
EXTENDS Payments, TLC

Pays(f, t, n, k) == [from |-> f, to |-> t, amount |-> n, key |-> k]

OpeningRows(a, b, c) ==
    [x \in {"a", "b", "c"} |->
        CASE x = "a" -> [balance |-> a, status |-> "ACTIVE"]
          [] x = "b" -> [balance |-> b, status |-> "ACTIVE"]
          [] x = "c" -> [balance |-> c, status |-> "BLOCKED"]]

OpeningOverlap == OpeningRows(3, 1, 2)

\* Every rejection, shared and generated keys, and transfers in opposite
\* directions, whose row locks can close a cycle.
CommandsOverlap ==
    {Pays("a", "b", 2, "k1"), Pays("a", "b", 1, "k2"), Pays("b", "a", 1, "k1"),
     Pays("b", "a", 2, NoKey), Pays("a", "c", 1, "k2"), Pays("c", "a", 1, NoKey),
     Pays("a", "a", 1, "k1"), Pays("a", "b", 0, "k1"), Pays("a", "b", 1, BadKey),
     Pays(NoAccount, "a", 1, "k1"), Pays("a", NoAccount, 1, "k1")}
=============================================================================
