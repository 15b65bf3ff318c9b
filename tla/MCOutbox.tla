------------------------------ MODULE MCOutbox ------------------------------
(* Instances of Outbox for TLC. *)
EXTENDS Outbox

OneProcess == [r \in Runs |-> "p"]
OwnProcess == [r \in Runs |-> r]
=============================================================================
