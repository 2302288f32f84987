--------------------------- MODULE MCRaftDiverged ---------------------------
(***************************************************************************)
(* Raft after a power cut: all three servers have just been restarted by   *)
(* Make() from what they had persisted, with diverging logs.  The history  *)
(* behind it: s1 led term 1 and appended a, which reached nobody; s3 led   *)
(* term 2 (vote of s2) and appended b, which reached nobody; s1 was told   *)
(* of term 2 and won term 3 (vote of s2); s3's next heartbeat was answered *)
(* with term 3.  Make() restores s1 as the leader of term 3.               *)
(***************************************************************************)
EXTENDS MCRaft

CONSTANTS s1, s2, s3, a, b

ASSUME DivergedAssumption == Server = {s1, s2, s3} /\ Command = {a, b}

DivergedSaved ==
  s1 :> [state |-> LEADER, currentTerm |-> 3, votedFor |-> s1, log |-> <<[Command |-> a, Term |-> 1]>>] @@
  s2 :> [state |-> FOLLOWER, currentTerm |-> 3, votedFor |-> s1, log |-> <<>>] @@
  s3 :> [state |-> FOLLOWER, currentTerm |-> 3, votedFor |-> s3, log |-> <<[Command |-> b, Term |-> 2]>>]

DivergedInit ==
  /\ saved = DivergedSaved
  /\ state = [s \in Server |-> saved[s].state]
  /\ currentTerm = [s \in Server |-> saved[s].currentTerm]
  /\ votedFor = [s \in Server |-> saved[s].votedFor]
  /\ log = [s \in Server |-> saved[s].log]
  /\ commitIndex = [s \in Server |-> 0]
  /\ lastApplied = [s \in Server |-> 0]
  /\ nextIndex = [s \in Server |-> [p \in Server |-> Len(log[s]) + 1]]
  /\ matchIndex = [s \in Server |-> [p \in Server |-> 0]]
  /\ granted = {<<s1, 1, s1>>, <<s1, 1, s2>>, <<s3, 2, s3>>, <<s3, 2, s2>>, <<s1, 3, s1>>, <<s1, 3, s2>>}
  /\ voteCalls = {} /\ lateVotes = {}
  /\ rounds = <<>> /\ appendCalls = {} /\ lateAppends = {}
  /\ applied = {} /\ fails = 0 /\ restarts = 0

DivergedSpec == DivergedInit /\ [][Next]_vars
FairDivergedSpec == DivergedSpec /\ Fairness

\* New entries all carry a, as their terms tell them apart unless a leader has been
\* restarted.  A failure or a restart is looked at in term 3 only, and no more than
\* four goroutines at a time: two leaders' rounds, or a round and an election.
Bounded ==
  /\ FewInFlight
  /\ Cardinality(appendCalls) + Cardinality(voteCalls) <= 4
  /\ \A s \in Server : Len(log[s]) > 1 => log[s][2].Command = a \/ restarts > 0
  /\ fails + restarts = 0 \/ \A s \in Server : currentTerm[s] = 3

=============================================================================
