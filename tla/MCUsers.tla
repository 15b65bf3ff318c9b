------------------------------ MODULE MCUsers ------------------------------
(* Instances of Users for TLC. *)
EXTENDS Users, TLC

Typed(n, u, s) == [name |-> n, upper |-> u, spaces |-> s]
Asks(k, e, p) == [kind |-> k, email |-> e, password |-> p]

\* One mailbox in three spellings, another one, every way to be turned away.
CommandsOverlap ==
    {Asks("register", Typed("ana", TRUE, FALSE), "Good1"),
     Asks("register", Typed("ana", FALSE, TRUE), "Good2"),
     Asks("register", Typed("bia", FALSE, FALSE), "Good1"),
     Asks("register", Typed("bia", FALSE, FALSE), "weak"),
     Asks("register", Typed("bia", FALSE, FALSE), None),
     Asks("register", Typed("no@", FALSE, FALSE), "Good1"),
     Asks("login", Typed("ana", TRUE, FALSE), "Good1"),
     Asks("login", Typed("ana", FALSE, TRUE), "Good2"),
     Asks("login", Typed("ana", FALSE, FALSE), "Good2"),
     Asks("login", Typed("bia", FALSE, FALSE), None),
     Asks("login", None, "Good1")}

Symmetric == Permutations(Requests)
=============================================================================
