----------------------------- MODULE MCSessions -----------------------------
(* Instances of Sessions for TLC. *)
EXTENDS Sessions, TLC

Symmetric == Permutations(Requests) \cup Permutations(Users)
=============================================================================
