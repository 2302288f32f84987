----------------------------- MODULE MCPorcupine -----------------------------
(* An instance of CheckParallel for TLC. *)
EXTENDS CheckParallel

\* Enough to tell orders apart, with answers that no order can give.
MCOperation ==
  {[Op |-> "get", Value |-> v] : v \in {<<>>, <<1>>, <<1, 2>>}} \cup
  {[Op |-> "put", Value |-> <<1>>], [Op |-> "append", Value |-> <<2>>]}

=============================================================================
