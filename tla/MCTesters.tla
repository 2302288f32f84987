----------------------------- MODULE MCTesters ------------------------------
(* The two testers for TLC, each with a network of its own. *)
EXTENDS RaftTester, TLC

CONSTANTS
  Clerk,
  NKV            \* cfg.n of the key/value tester

VARIABLES lab, kvenabled, kvendnames, kvservers, clerks, reach, groups, leader

\* The instance of TestNet also keeps TLC from evaluating the constants of that
\* module, such as Server, once for both testers.
KVNet == INSTANCE TestNet WITH N <- NKV, enabled <- kvenabled, endnames <- kvendnames, running <- kvservers
KV == INSTANCE KVTester WITH N <- NKV, enabled <- kvenabled, endnames <- kvendnames, running <- kvservers

kvVars == <<kvenabled, kvendnames, kvservers, clerks, reach, groups, leader>>
vars == <<lab, raftVars, kvVars>>

Init == RaftInit /\ KV!KVInit /\ lab \in {"raft", "kvraft"}

Next ==
  \/ lab = "raft" /\ RaftNext /\ UNCHANGED <<lab, kvVars>>
  \/ lab = "kvraft" /\ KV!KVNext /\ UNCHANGED <<lab, raftVars>>

Spec == Init /\ [][Next]_vars

Symmetry == Permutations(Command)

\* Key/value: at most two servers are not as make_config left them, and clerks
\* come and go while the network is whole.
KVBounded ==
  /\ Cardinality({i \in KVNet!Server : kvendnames[i] # 1 \/ i \notin kvservers}) <= 2
  /\ clerks # {} \/ reach # [c \in Clerk |-> {}] =>
       groups = <<KVNet!Server, {}>> /\ kvendnames = [i \in KVNet!Server |-> 1]

\* Raft: any network while nothing has been applied; afterwards one server is not
\* as make_config left it.
\* Nothing more is looked at when the check is over, or when a second reader, or
\* one during a check, has found an error.
Bounded ==
  /\ \/ op = None /\ \A i \in Server, n \in Index : logs[i][n] = None
     \/ Cardinality({i \in Server : endnames[i] # 1 \/ ~connected[i]}) <= 1
  /\ ops = MaxOps => op # None
  /\ Cardinality(apply_error) <= 1
  /\ apply_error # {} => op = None
  /\ KVBounded

\* The links between the servers of KVTester follow its last partition.
LinksFollowPartition == lab = "kvraft" => KV!LinksFollowPartition

\* The sides that make_partition deals out leave the leader in the minority.
MajorityWithoutLeader == lab = "kvraft" => KV!MajorityWithoutLeader

=============================================================================
