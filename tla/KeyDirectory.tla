---------------------------- MODULE KeyDirectory ----------------------------
(***************************************************************************)
(* What the PIX keys promise: a directory from keys to accounts in which a *)
(* free key is given to an account that has room for it, and a key is      *)
(* given back by the account that has it.  Nothing else ever changes.      *)
(***************************************************************************)
EXTENDS Integers, FiniteSets

CONSTANTS Keys, Holders, Limit, Nobody, Opening

VARIABLE owner

KeysOf(a) == {k \in Keys : owner[k] = a}

Init == owner = Opening

Give(k, a) ==
    /\ owner[k] = Nobody
    /\ Cardinality(KeysOf(a)) < Limit
    /\ owner' = [owner EXCEPT ![k] = a]

GiveBack(k) == owner[k] # Nobody /\ owner' = [owner EXCEPT ![k] = Nobody]

Next == \E k \in Keys : GiveBack(k) \/ \E a \in Holders : Give(k, a)

Spec == Init /\ [][Next]_owner
=============================================================================
