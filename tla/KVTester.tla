------------------------------ MODULE KVTester ------------------------------
(***************************************************************************)
(* The tester of the key/value service (kvraft/config.go): which           *)
(* ClientEnds are enabled while it partitions the servers, heals the       *)
(* network, shuts servers down and starts them, and connects clerks.  Each *)
(* function holds cfg.mu.  Which server Leader returns is left open.       *)
(*                                                                         *)
(* A definition whose name ends in _Bug is the one after it with a mistake *)
(* in it, used only to show which mistake a property rules out.            *)
(***************************************************************************)
EXTENDS TestNet, SequencesExt

CONSTANT Clerk

VARIABLES
  clerks,        \* those that were made and not deleted
  reach,         \* by clerk: the servers to which its ends are enabled
  groups,        \* p1 and p2 of the last partition, None after a shutdown
  leader         \* whom make_partition took for the leader, None if not used

clients == <<clerks, reach>>
kvVars == <<net, clients, groups, leader>>

\* make_config.
KVInit ==
  /\ NetInit
  /\ clerks = {} /\ reach = [c \in Clerk |-> {}]
  /\ groups = <<Server, {}>> /\ leader = None

-----------------------------------------------------------------------------
(* The servers *)

\* The ends from i to the servers of S and back; or only from i to them.
Between_Bug(i, S) == {e \in Outgoing(i) : e[3] \in S}
Between(i, S) == {e \in Outgoing(i) : e[3] \in S} \cup {e \in Incoming(i) : e[1] \in S}

connectUnlocked(i, to, ends) == ends \cup Between(i, to)
disconnectUnlocked(i, from, ends) == ends \ Between(i, from)

\* The servers of slice p, one after the other, are cut off from those of q and
\* connected to each other.
Separate(p, q, ends) ==
  FoldLeft(LAMBDA es, i : connectUnlocked(i, ToSet(p), disconnectUnlocked(i, ToSet(q), es)), ends, p)

\* The servers of S as the loops of the tests list them.
InOrder(S) == SetToSortSeq(S, <)

\* The tests connect servers while all of them are running.
partition(p1, p2) ==
  /\ running = Server
  /\ enabled' = Separate(p2, p1, Separate(p1, p2, enabled))
  /\ groups' = <<ToSet(p1), ToSet(p2)>>
  /\ UNCHANGED <<endnames, running, clients>>

ConnectAll ==
  /\ running = Server
  /\ enabled' = Separate(InOrder(Server), <<>>, enabled)
  /\ groups' = <<Server, {}>> /\ leader' = None
  /\ UNCHANGED <<endnames, running, clients>>

\* The partitioner goroutine of a test deals the servers out at random.
RandomPartition(p1) == partition(InOrder(p1), InOrder(Server \ p1)) /\ leader' = None

\* The slices p1 and p2, made full of zeros and filled up with the others in
\* order, after which the last place of p2 is given to the leader; or what does
\* not fit into p1 goes to p2 one place too far (j-len(p1)+1).
make_partition_Bug(l) ==
  LET others == SetToSortSeq(Server \ {l}, <)
      m == N \div 2
      at(x) == IF x <= Len(others) THEN others[x] ELSE 0
  IN [p1 |-> [x \in 1 .. m + 1 |-> at(x)],
      p2 |-> [x \in 1 .. m |-> IF x = m THEN l ELSE IF x = 1 THEN 0 ELSE at(m + x)]]
make_partition(l) ==
  LET others == SetToSortSeq(Server \ {l}, <)
      m == N \div 2
      at(x) == IF x <= Len(others) THEN others[x] ELSE 0
  IN [p1 |-> [x \in 1 .. m + 1 |-> at(x)],
      p2 |-> [x \in 1 .. m |-> IF x = m THEN l ELSE at(m + 1 + x)]]

\* make_partition and then partition, as in the tests.
MakePartition(l) ==
  /\ LET p == make_partition(l) IN partition(p.p1, p.p2)
  /\ leader' = l

\* Killing the instance ends it; the Persister is in Labrpc.
ShutdownServer(i) ==
  /\ i \in running
  /\ enabled' = disconnectUnlocked(i, Server, enabled)
  /\ running' = running \ {i}
  /\ groups' = None /\ leader' = None
  /\ UNCHANGED <<endnames, clients>>

\* "first call ShutdownServer": new ends, and AddServer.
StartServer(i) ==
  /\ i \notin running /\ FreshName(i) <= MaxInstances
  /\ endnames' = [endnames EXCEPT ![i] = FreshName(i)]
  /\ running' = running \cup {i}
  /\ UNCHANGED <<enabled, clients, groups, leader>>

-----------------------------------------------------------------------------
(* The clerks *)

ConnectClientUnlocked(c, to) == reach' = [reach EXCEPT ![c] = @ \cup to]

\* Ends to all the servers, enabled to those in to.
makeClient(c, to) ==
  /\ c \notin clerks /\ reach[c] = {}
  /\ clerks' = clerks \cup {c}
  /\ ConnectClientUnlocked(c, to)
  /\ UNCHANGED <<net, groups, leader>>

ConnectClient(c, to) ==
  /\ c \in clerks
  /\ ConnectClientUnlocked(c, to)
  /\ UNCHANGED <<net, clerks, groups, leader>>

DisconnectClient(c, from) ==
  /\ c \in clerks
  /\ reach' = [reach EXCEPT ![c] = @ \ from]
  /\ UNCHANGED <<net, clerks, groups, leader>>

\* The clerk's ends stay as they are.
deleteClient(c) ==
  /\ clerks' = clerks \ {c}
  /\ UNCHANGED <<net, reach, groups, leader>>

-----------------------------------------------------------------------------

KVNext ==
  \/ ConnectAll
  \/ \E p1 \in SUBSET Server : RandomPartition(p1)
  \/ \E i \in Server : MakePartition(i) \/ ShutdownServer(i) \/ StartServer(i)
  \/ \E c \in Clerk, S \in SUBSET Server :
       makeClient(c, S) \/ ConnectClient(c, S) \/ DisconnectClient(c, S)
  \/ \E c \in clerks : deleteClient(c)

KVSpec == KVInit /\ [][KVNext]_kvVars

-----------------------------------------------------------------------------
(* Properties *)

\* After any sequence of partitions, healing, shutdowns and starts, two servers
\* can call each other both ways or not at all, by ends of the instances that
\* are running, and after a partition they can if they are on one side of it:
\* nothing is left of the partitions before, or of an instance that was killed.
\* The sides have no server in common: those of make_partition by
\* MajorityWithoutLeader.
LinksFollowPartition ==
  LET linked(i, j) == <<i, endnames[i], j>> \in enabled IN
  /\ \A e \in enabled : e[2] = endnames[e[1]] /\ e[1] \in running
  /\ \A i, j \in Server : linked(i, j) = linked(j, i)
  /\ groups # None /\ (N % 2 = 1 \/ leader = None) =>
       \A i, j \in Server : linked(i, j) = (\E s \in 1 .. 2 : {i, j} \subseteq groups[s])

\* "Partition servers into 2 groups and put current leader in minority": the two
\* sides that make_partition deals out share no server and leave none out, and
\* the one without the leader is a majority, which can go on.  This is so for an
\* odd number of servers, as in the test; of an even number one place of p2 keeps
\* its zero, and of a single server p2 has no place for the leader.
MajorityWithoutLeader ==
  N % 2 = 1 /\ N > 1 /\ leader # None =>
    /\ groups[1] \cap groups[2] = {} /\ groups[1] \cup groups[2] = Server
    /\ 2 * Cardinality(groups[1]) > N /\ leader \notin groups[1]

=============================================================================
