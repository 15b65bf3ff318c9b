----------------------------- MODULE MCQueries -----------------------------
(* Instances of Queries for TLC. *)
EXTENDS Queries, TLC

\* Two payments the reader sends, one he receives, one he has no part in.
Sender == [p \in {"p1", "p2", "p3", "p4"} |->
              CASE p \in {"p1", "p2"} -> "a" [] p = "p3" -> "b" [] p = "p4" -> "b"]
Receiver == [p \in {"p1", "p2", "p3", "p4"} |->
              CASE p \in {"p1", "p2"} -> "b" [] p = "p3" -> "a" [] p = "p4" -> "c"]

\* Everything, and what is over when the last instant comes.
ListLimitsPaging == {-1, 1, 3}
WindowsPaging == {[from |-> 0, to |-> 1], [from |-> 0, to |-> 0]}
=============================================================================
