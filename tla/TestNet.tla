------------------------------ MODULE TestNet -------------------------------
(***************************************************************************)
(* The ClientEnds through which the servers of a test call each other      *)
(* (labrpc/labrpc.go), as RaftTester and KVTester make, enable and disable *)
(* them.                                                                   *)
(***************************************************************************)
EXTENDS Integers, FiniteSets

CONSTANTS
  N,             \* cfg.n
  None,
  MaxInstances   \* bound: how often a server is started

ASSUME NetAssumption == N \in Nat \ {0} /\ MaxInstances \in Nat \ {0}

Server == 0 .. N - 1

VARIABLES
  enabled,       \* the ends that are; <<i, k, j>> is the k-th end made for i to call j
  endnames,      \* by server: the k of its newest ends
  running        \* the servers that are not nil and in rn.servers

net == <<enabled, endnames, running>>

\* MakeEnd does not enable an end, and Connect says once and for all whom it calls.
End == {<<i, k, j>> : i \in Server, k \in 1 .. MaxInstances, j \in Server}
Outgoing(i) == {e \in End : e[1] = i /\ e[2] = endnames[i]}
Incoming(i) == {e \in End : e[3] = i /\ e[2] = endnames[e[1]]}

\* The names of new ends: random, so never used before.
FreshName(i) == endnames[i] + 1

\* Every server has been started once, and every end is enabled.
NetInit ==
  /\ enabled = {<<i, 1, j>> : i \in Server, j \in Server}
  /\ endnames = [i \in Server |-> 1]
  /\ running = Server

=============================================================================
