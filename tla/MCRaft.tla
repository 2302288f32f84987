------------------------------- MODULE MCRaft -------------------------------
(* Instances of Raft for TLC, from the state Make() builds on first start.    *)
EXTENDS RaftInvariant, TLC

\* Servers and commands are interchangeable.
Symmetry == Permutations(Server) \cup Permutations(Command)

\* Bound for the search for a counterexample: one vote request at a time.
OneVoteRequest == Cardinality({g \in voteCalls : g.pc # "ready"}) <= 1

\* At most one vote request and one AppendEntries are under way at a time.
FewInFlight ==
  /\ OneVoteRequest
  /\ Cardinality({g \in appendCalls : g.pc # "ready"}) <= 1

=============================================================================
