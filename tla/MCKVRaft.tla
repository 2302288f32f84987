------------------------------ MODULE MCKVRaft ------------------------------
(* An instance of KVRaft for TLC. *)
EXTENDS KVRaft, TLC

Symmetry == Permutations(Clerk)

HasCalled(c) == comandId[c] > 0 \/ call[c] # NoOp

\* One clerk at work, whose calls have several goroutines that outlive them;
\* at most two goroutines and late requests at a time.
OneClerk ==
  /\ Cardinality(calls) + Cardinality(late) <= 2
  /\ Cardinality({c \in Clerk : HasCalled(c)}) <= 1
  /\ restarts = 0
  /\ \A c \in Clerk : call[c] # NoOp => call[c].CommandType # "Put"

\* Several clerks at work, each with one call that has one goroutine;
\* at most one late request at a time.
OneCallEach ==
  /\ Cardinality(late) <= 1
  /\ \A c \in Clerk : tries[c] <= 1 /\ comandId[c] <= 1 /\ (comandId[c] = 1 => call[c] = NoOp)
  /\ Len(chosen) <= 2 /\ \A e \in pending : e[1] <= 2

Bounded == OneClerk \/ OneCallEach

=============================================================================
