----------------------------- MODULE RaftTester -----------------------------
(***************************************************************************)
(* The tester of Raft (raft/config.go): which ClientEnds it enables while  *)
(* it connects, disconnects, crashes and starts servers, the goroutines    *)
(* that read applyCh, and the checks that one test makes at a time:        *)
(* checkOneLeader, one and wait, the last two by way of nCommitted.        *)
(*                                                                         *)
(* The servers under test are open: they deliver, start and lead what they *)
(* like, or (sound) what a right Raft may.  Times are left open too: a     *)
(* loop that runs for some seconds may go round once more or give up.      *)
(*                                                                         *)
(* A definition whose name ends in _Bug is the one after it with a mistake *)
(* in it, used only to show which mistake a property rules out.            *)
(***************************************************************************)
EXTENDS TestNet

CONSTANTS
  Command,
  MaxIndex,      \* bound: length of the logs
  MaxTerm,       \* bound: terms
  MaxOps         \* bound: checks that the test makes

Index == 1 .. MaxIndex
Term == 1 .. MaxTerm

\* The failures of a test that accuse Raft of being unsafe, not of being slow.
Unsafe == {"committed values do not match", "more than one leader"}

ASSUME TesterAssumption ==
  /\ MaxIndex \in Nat /\ MaxTerm \in Nat /\ MaxOps \in Nat
  /\ None \notin Command \cup Nat \cup Unsafe

VARIABLES
  connected,     \* by server
  \* the readers of applyCh
  logs,          \* by server and index
  apply_error,   \* <<i, k>>: the reader of that instance has found an error
  \* the servers under test
  sound,         \* they are right
  chosen,        \* by index: what a right Raft applies
  next,          \* by server and start: what that instance applies next
  ledBy,         \* by term: its leader
  \* the goroutine of the test
  op,            \* the check it makes, None between checks
  ops,           \* how many it has made
  fatal          \* why it has failed, None if it has not

readers == <<logs, apply_error, next>>
raft == <<sound, chosen, ledBy>>
test == <<op, ops, fatal>>
raftVars == <<net, connected, readers, raft, test>>

\* make_config: every server is started and connected.
RaftInit ==
  /\ NetInit
  /\ connected = [i \in Server |-> TRUE]
  /\ logs = [i \in Server |-> [n \in Index |-> None]]
  /\ apply_error = {}
  /\ sound \in BOOLEAN
  /\ chosen = [n \in Index |-> None]
  /\ next = [i \in Server |-> [k \in 1 .. MaxInstances |-> IF k = 1 THEN 1 ELSE 0]]
  /\ ledBy = [t \in Term |-> None]
  /\ op = None /\ ops = 0 /\ fatal = None

Idle == op = None /\ fatal = None

-----------------------------------------------------------------------------
(* connect, disconnect, crash1, start1 *)

\* The ends to and from servers that are connected; or to all servers.
Attached_Bug(i) ==
  Outgoing(i) \cup {e \in Incoming(i) : connected[e[1]]}
Attached(i) ==
  {e \in Outgoing(i) : e[3] = i \/ connected[e[3]]} \cup
  {e \in Incoming(i) : e[1] = i \/ connected[e[1]]}

\* The tests connect servers that are running.
connect(i) ==
  /\ Idle /\ i \in running
  /\ connected' = [connected EXCEPT ![i] = TRUE]
  /\ enabled' = enabled \cup Attached(i)
  /\ UNCHANGED <<endnames, running, readers, raft, test>>

disconnect(i) ==
  /\ Idle
  /\ connected' = [connected EXCEPT ![i] = FALSE]
  /\ enabled' = enabled \ (Outgoing(i) \cup Incoming(i))
  /\ UNCHANGED <<endnames, running, readers, raft, test>>

\* disconnect, DeleteServer and Kill; the Persister is in Labrpc.
crash1(i) ==
  /\ Idle
  /\ connected' = [connected EXCEPT ![i] = FALSE]
  /\ enabled' = enabled \ (Outgoing(i) \cup Incoming(i))
  /\ running' = running \ {i}
  /\ UNCHANGED <<endnames, readers, raft, test>>

\* crash1 first; then new ends, a new instance with its reader, and AddServer.
start1(i) ==
  /\ Idle /\ FreshName(i) <= MaxInstances
  /\ connected' = [connected EXCEPT ![i] = FALSE]
  /\ enabled' = enabled \ (Outgoing(i) \cup Incoming(i))
  /\ endnames' = [endnames EXCEPT ![i] = FreshName(i)]
  /\ running' = running \cup {i}
  /\ next' = [next EXCEPT ![i][FreshName(i)] = 1]
  /\ UNCHANGED <<logs, apply_error, raft, test>>

-----------------------------------------------------------------------------
(* The goroutines that read applyCh *)

\* Some server has committed another value at that index; or this one has.
Differs_Bug(i, n, v) == logs[i][n] \notin {None, v}
Differs(i, n, v) == \E j \in Server : logs[j][n] \notin {None, v}

\* The k-th instance of i applies v at index n, perhaps after it was killed: the
\* critical section of its reader.
Deliver(i, k, n, v) ==
  /\ fatal = None /\ next[i][k] > 0 /\ <<i, k>> \notin apply_error
  /\ IF sound
       THEN /\ n = next[i][k] /\ chosen[n] \in {None, v}
            /\ next' = [next EXCEPT ![i][k] = n + 1]
            /\ chosen' = [chosen EXCEPT ![n] = v]
       ELSE UNCHANGED <<next, chosen>>
  /\ logs' = [logs EXCEPT ![i][n] = v]
  /\ apply_error' = IF Differs(i, n, v) \/ (n > 1 /\ logs[i][n - 1] = None)
                    THEN apply_error \cup {<<i, k>>} ELSE apply_error
  /\ UNCHANGED <<net, connected, sound, ledBy, test>>

\* log.Fatalf, after the critical section.
ApplyError ==
  /\ fatal = None /\ apply_error # {}
  /\ fatal' = "apply error"
  /\ UNCHANGED <<net, connected, readers, raft, op, ops>>

-----------------------------------------------------------------------------
(* one and wait *)

Begin(o) ==
  /\ Idle /\ ops < MaxOps
  /\ op' = o /\ ops' = ops + 1
  /\ UNCHANGED <<net, connected, readers, raft, fatal>>

Goto(o) == op' = o /\ UNCHANGED <<net, connected, readers, raft, ops, fatal>>
Fatal(why) == fatal' = why /\ op' = None /\ UNCHANGED <<net, connected, readers, raft, ops>>

\* The start of nCommitted.
Count(o) == [o EXCEPT !.pc = "nCommitted", !.i = 0, !.count = 0, !.cmd1 = None]

one(cmd, expectedServers, retry) ==
  Begin([name |-> "one", pc |-> "start", cmd |-> cmd, n |-> expectedServers, retry |-> retry,
         index |-> 0, last |-> FALSE, i |-> 0, starts |-> 0, count |-> 0, cmd1 |-> None])

wait(index, n, startTerm) ==
  Begin(Count([name |-> "wait", pc |-> "start", cmd |-> None, n |-> n, retry |-> startTerm,
               index |-> index, last |-> FALSE, i |-> 0, starts |-> 0, count |-> 0, cmd1 |-> None]))

\* one asks the next server to start its command, if that is connected; when it
\* does not lead, or all have been asked, one goes on.
StartCommand ==
  /\ fatal = None /\ op # None /\ op.pc = "start"
  /\ LET s == (op.starts + 1) % N
         asked == [op EXCEPT !.starts = s, !.i = @ + 1]
     IN IF op.i < N
        THEN \/ Goto(asked)
             \/ connected[s] /\ \E n \in Index : Goto(Count([asked EXCEPT !.index = n]))
        ELSE Goto([op EXCEPT !.i = 0]) \/ Fatal("no agreement")

\* One server of the loop of nCommitted, which locks cfg.mu for each of them.
nCommitted ==
  /\ fatal = None /\ op # None /\ op.pc = "nCommitted" /\ op.i < N
  /\ LET cmd1 == logs[op.i][op.index] IN
     IF cmd1 = None THEN Goto([op EXCEPT !.i = @ + 1])
     ELSE IF op.count > 0 /\ op.cmd1 # cmd1 THEN Fatal("committed values do not match")
     ELSE Goto([op EXCEPT !.i = @ + 1, !.count = @ + 1, !.cmd1 = cmd1])

Counted == fatal = None /\ op # None /\ op.pc = "nCommitted" /\ op.i = N

\* Enough servers have it, and it is the command that was submitted; or only the
\* first.
Agreed_Bug == op.count > 0 /\ op.count >= op.n
Agreed == op.count > 0 /\ op.count >= op.n /\ op.cmd1 = op.cmd

\* one: return, look again within two seconds, submit again, or give up.
OneCounted ==
  /\ Counted /\ op.name = "one"
  /\ IF Agreed THEN Goto([op EXCEPT !.pc = "returned"])
     ELSE \/ Goto(Count(op))
          \/ op.retry /\ Goto([op EXCEPT !.pc = "start", !.i = 0, !.index = 0])
          \/ Fatal("no agreement")

\* wait: count once more when enough have it or time is up, and then return;
\* return -1 when the term has moved on.
WaitCounted ==
  /\ Counted /\ op.name = "wait"
  /\ IF op.last
       THEN IF op.count < op.n THEN Fatal("no agreement")
            ELSE Goto([op EXCEPT !.pc = "returned", !.cmd = op.cmd1])
       ELSE \/ Goto(Count([op EXCEPT !.last = TRUE]))
            \/ /\ op.count < op.n
               /\ Goto(Count(op)) \/ (op.retry /\ Goto([op EXCEPT !.pc = "moved on"]))

Return ==
  /\ fatal = None /\ op # None /\ op.pc \in {"returned", "moved on"}
  /\ Goto(None)

-----------------------------------------------------------------------------
(* checkOneLeader *)

checkOneLeader == Begin([name |-> "checkOneLeader", pc |-> "GetState", i |-> 0, leaders |-> {}])

\* GetState of the next server that is connected: at this moment it leads some
\* term, or none.
GetState ==
  /\ fatal = None /\ op # None /\ op.pc = "GetState" /\ op.i < N
  /\ \/ Goto([op EXCEPT !.i = @ + 1])
     \/ \E t \in Term :
          /\ connected[op.i]
          /\ sound => ledBy[t] \in {None, op.i}
          /\ ledBy' = [ledBy EXCEPT ![t] = op.i]
          /\ op' = [op EXCEPT !.i = @ + 1, !.leaders = @ \cup {<<t, op.i>>}]
          /\ UNCHANGED <<net, connected, readers, sound, chosen, ops, fatal>>

\* Two servers lead one term; or there are two leaders.
TwoLeaders_Bug(leaders) == \E x, y \in leaders : x[2] # y[2]
TwoLeaders(leaders) == \E x, y \in leaders : x[1] = y[1] /\ x[2] # y[2]

LeadersCounted ==
  /\ fatal = None /\ op # None /\ op.pc = "GetState" /\ op.i = N
  /\ IF TwoLeaders(op.leaders) THEN Fatal("more than one leader")
     ELSE IF op.leaders # {} THEN Goto([op EXCEPT !.pc = "returned"])
     ELSE Goto([op EXCEPT !.i = 0]) \/ Fatal("no leader")

-----------------------------------------------------------------------------

RaftNext ==
  \/ \E i \in Server : connect(i) \/ disconnect(i) \/ crash1(i) \/ start1(i)
  \/ \E i \in Server, k \in 1 .. MaxInstances, n \in Index, v \in Command : Deliver(i, k, n, v)
  \/ ApplyError
  \/ \E n \in 1 .. N, flag \in BOOLEAN :
       \/ \E cmd \in Command : one(cmd, n, flag)
       \/ \E index \in Index : wait(index, n, flag)
  \/ checkOneLeader
  \/ StartCommand \/ nCommitted \/ OneCounted \/ WaitCounted \/ GetState \/ LeadersCounted \/ Return

RaftSpec == RaftInit /\ [][RaftNext]_raftVars

-----------------------------------------------------------------------------
(* Properties *)

\* Exactly the newest ends between servers that are connected are enabled: no
\* instance that was killed can send, and nothing reaches a server that is cut
\* off, whatever the order of connect, disconnect, crash1 and start1.
EndsFollowConnected ==
  /\ enabled = {e \in End : e[2] = endnames[e[1]] /\ connected[e[1]] /\ connected[e[3]]}
  /\ \A i \in Server : connected[i] => i \in running

\* A reader has seen it when two servers applied different commands at an index,
\* also before and after a restart, or when a server applied an index whose
\* predecessor none of its instances has applied.  The tester keeps one log per
\* server: it does not see a restarted instance leave out what an earlier one
\* applied.
ReadersNotice ==
  apply_error = {} =>
    \A i, j \in Server, n \in Index :
      /\ logs[i][n] # None /\ logs[j][n] # None => logs[i][n] = logs[j][n]
      /\ logs[i][n] # None /\ n > 1 => logs[i][n - 1] # None

\* When one or wait returns, that many servers have applied the command at the
\* index, although nCommitted looks at one server after the other and another
\* command may have got the index; or a reader is about to stop the test.
AgreementIsReal ==
  op # None =>
    (op.name \in {"one", "wait"} /\ op.pc = "returned" =>
       \/ apply_error # {}
       \/ Cardinality({i \in Server : logs[i][op.index] = op.cmd}) >= op.n)

\* A Raft that elects one leader per term and applies one sequence is never
\* blamed: not for applying it again after a restart, and not for a server that
\* still leads an old term when checkOneLeader comes by.
NoFalseAlarm ==
  sound => apply_error = {} /\ fatal \notin Unsafe

=============================================================================
