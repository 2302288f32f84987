-------------------------- MODULE RaftTesterProofs --------------------------
(***************************************************************************)
(* The properties of the tester of Raft, for any number of servers and any *)
(* sequence of connects, disconnects, crashes, starts, deliveries and      *)
(* checks: the ends that are enabled are those it means to, its readers    *)
(* notice every disagreement, it never blames a right Raft, and what one   *)
(* and wait return is so.                                                  *)
(***************************************************************************)
EXTENDS RaftTester, FiniteSetTheorems, TLAPS

\* The types that the arguments need.
NetType ==
  /\ connected \in [Server -> BOOLEAN]
  /\ endnames \in [Server -> Nat]

LogsType == logs \in [Server -> [Index -> Command \cup {None}]]

-----------------------------------------------------------------------------
(* The ends *)

\* An end goes from a server to a server.
LEMMA EndFields ==
  ASSUME NEW e \in End
  PROVE  e[1] \in Server /\ e[2] \in 1 .. MaxInstances /\ e[3] \in Server
BY DEF End

\* Which ends the operations of TestNet pick.
LEMMA EndSets ==
  ASSUME NEW i \in Server, NEW e \in End
  PROVE  /\ e \in Outgoing(i) <=> e[1] = i /\ e[2] = endnames[i]
         /\ e \in Incoming(i) <=> e[3] = i /\ e[2] = endnames[e[1]]
BY DEF Outgoing, Incoming

\* The ends of make_config.
LEMMA FirstEnds ==
  ASSUME NEW e
  PROVE  e \in {<<i, 1, j>> : i \in Server, j \in Server} <=> e \in End /\ e[2] = 1
<1>1. 1 \in 1 .. MaxInstances
  BY NetAssumption
<1> QED
  BY <1>1 DEF End

\* An end that should be enabled: the newest of its server, between two servers
\* that are connected.
Wanted(e) == e[2] = endnames[e[1]] /\ connected[e[1]] /\ connected[e[3]]

\* EndsFollowConnected, said of each end.
LEMMA EndsByElement ==
  EndsFollowConnected <=>
    /\ enabled \subseteq End
    /\ \A e \in End : e \in enabled <=> Wanted(e)
    /\ \A i \in Server : connected[i] => i \in running
BY DEF EndsFollowConnected, Wanted

\* connect, disconnect, crash1 and start1 keep the ends right.
LEMMA ConnectKeeps ==
  ASSUME NEW i \in Server, NetType, EndsFollowConnected, connect(i)
  PROVE  NetType' /\ EndsFollowConnected'
<1>1. NetType'
  BY DEF NetType, connect
<1>2. \A j \in Server : j # i => connected'[j] = connected[j]
  BY DEF NetType, connect
<1>3. connected'[i] = TRUE /\ endnames' = endnames /\ running' = running /\ i \in running
  BY DEF NetType, connect
<1>4. \A e \in End : e \in Attached(i) <=>
        \/ e[1] = i /\ e[2] = endnames[i] /\ (e[3] = i \/ connected[e[3]])
        \/ e[3] = i /\ e[2] = endnames[e[1]] /\ (e[1] = i \/ connected[e[1]])
  BY EndSets DEF Attached
<1>5. enabled' = enabled \cup Attached(i) /\ Attached(i) \subseteq End
  BY DEF connect, Attached, Outgoing, Incoming
<1>6. enabled' \subseteq End
  BY <1>5, EndsByElement
<1>7. ASSUME NEW e \in End PROVE (e \in enabled') <=> Wanted(e)'
  <2>1. e[1] \in Server /\ e[3] \in Server
    BY EndFields
  <2>2. e \in enabled <=> Wanted(e)
    BY EndsByElement
  <2> QED
    BY <1>2, <1>3, <1>4, <1>5, <2>1, <2>2 DEF Wanted
<1>8. \A j \in Server : connected'[j] => j \in running'
  BY <1>2, <1>3, EndsByElement
<1>9. EndsFollowConnected'
  BY <1>6, <1>7, <1>8 DEF EndsFollowConnected, Wanted
<1> QED
  BY <1>1, <1>9

\* What disconnect, crash1 and start1 have in common: the ends of i are disabled
\* and it is not connected any more, its next ends having perhaps a new name.
Detach(i) ==
  /\ connected' = [connected EXCEPT ![i] = FALSE]
  /\ enabled' = enabled \ (Outgoing(i) \cup Incoming(i))
  /\ endnames' \in [Server -> Nat]
  /\ \A j \in Server : j # i => endnames'[j] = endnames[j] /\ (j \in running => j \in running')

LEMMA DetachKeeps ==
  ASSUME NEW i \in Server, NetType, EndsFollowConnected, Detach(i)
  PROVE  NetType' /\ EndsFollowConnected'
<1>1. NetType'
  BY DEF NetType, Detach
<1>2. \A j \in Server : j # i => connected'[j] = connected[j] /\ endnames'[j] = endnames[j]
  BY DEF NetType, Detach
<1>3. connected'[i] = FALSE
  BY DEF NetType, Detach
<1>4. enabled' \subseteq End
  BY EndsByElement DEF Detach
<1>5. ASSUME NEW e \in End PROVE (e \in enabled') <=> Wanted(e)'
  <2>1. e[1] \in Server /\ e[3] \in Server
    BY EndFields
  <2>2. e \in enabled <=> Wanted(e)
    BY EndsByElement
  <2>3. e \in enabled' <=> e \in enabled /\ e \notin Outgoing(i) /\ e \notin Incoming(i)
    BY DEF Detach
  <2>4. CASE e[1] = i \/ e[3] = i
    BY <1>3, <2>2, <2>3, <2>4, EndSets DEF Wanted
  <2>5. CASE e[1] # i /\ e[3] # i
    BY <1>2, <2>1, <2>2, <2>3, <2>5, EndSets DEF Wanted
  <2> QED
    BY <2>4, <2>5
<1>6. \A j \in Server : connected'[j] => j \in running'
  BY <1>2, <1>3, EndsByElement DEF Detach
<1>7. EndsFollowConnected'
  BY <1>4, <1>5, <1>6 DEF EndsFollowConnected, Wanted
<1> QED
  BY <1>1, <1>7

LEMMA Detaching ==
  ASSUME NEW i \in Server, NetType, disconnect(i) \/ crash1(i) \/ start1(i)
  PROVE  Detach(i)
<1>1. CASE disconnect(i)
  BY <1>1 DEF disconnect, Detach, NetType
<1>2. CASE crash1(i)
  BY <1>2 DEF crash1, Detach, NetType
<1>3. CASE start1(i)
  <2>1. endnames' \in [Server -> Nat]
    BY <1>3 DEF start1, NetType, FreshName
  <2> QED
    BY <1>3, <2>1 DEF start1, Detach, NetType
<1> QED
  BY <1>1, <1>2, <1>3

\* The tester's network is as connected says (EndsFollowConnected): connect,
\* disconnect, crash1 and start1 leave no end of an instance that was killed
\* enabled, and none to a server that is cut off.
THEOREM EndsAreRight == RaftSpec => []EndsFollowConnected
<1>1. RaftInit => NetType /\ EndsFollowConnected
  <2> SUFFICES ASSUME RaftInit PROVE NetType /\ EndsFollowConnected
    OBVIOUS
  <2>1. NetType
    BY DEF RaftInit, NetInit, NetType
  <2>2. \A e \in End : Wanted(e) <=> e[2] = 1
    BY EndFields DEF RaftInit, NetInit, Wanted
  <2>3. \A e : e \in enabled <=> e \in End /\ e[2] = 1
    BY FirstEnds DEF RaftInit, NetInit
  <2>4. \A i \in Server : i \in running
    BY DEF RaftInit, NetInit
  <2>5. EndsFollowConnected
    BY <2>2, <2>3, <2>4, EndsByElement
  <2> QED
    BY <2>1, <2>5
<1>2. NetType /\ EndsFollowConnected /\ [RaftNext]_raftVars => NetType' /\ EndsFollowConnected'
  <2> SUFFICES ASSUME NetType, EndsFollowConnected, [RaftNext]_raftVars
               PROVE  NetType' /\ EndsFollowConnected'
    OBVIOUS
  <2>1. ASSUME NEW i \in Server, connect(i) PROVE NetType' /\ EndsFollowConnected'
    BY <2>1, ConnectKeeps
  <2>2. ASSUME NEW i \in Server, disconnect(i) \/ crash1(i) \/ start1(i)
        PROVE  NetType' /\ EndsFollowConnected'
    BY <2>2, Detaching, DetachKeeps
  <2>3. ASSUME UNCHANGED <<net, connected>> PROVE NetType' /\ EndsFollowConnected'
    BY <2>3 DEF net, NetType, EndsFollowConnected
  <2>4. UNCHANGED raftVars => UNCHANGED <<net, connected>>
    BY DEF raftVars
  <2>5. RaftNext => \/ \E i \in Server : connect(i) \/ disconnect(i) \/ crash1(i) \/ start1(i)
                    \/ UNCHANGED <<net, connected>>
    BY Zenon DEF RaftNext, Deliver, ApplyError, one, wait, checkOneLeader, StartCommand, nCommitted,
           OneCounted, WaitCounted, GetState, LeadersCounted, Return, Begin, Goto, Fatal
  <2> QED
    BY <2>1, <2>2, <2>3, <2>4, <2>5
<1> QED
  BY <1>1, <1>2, PTL DEF RaftSpec

-----------------------------------------------------------------------------
(* The readers *)

\* The logs change only in the critical section of a reader.
LEMMA LogsChange ==
  ASSUME [RaftNext]_raftVars
  PROVE  \/ UNCHANGED <<logs, apply_error>>
         \/ \E i \in Server, k \in 1 .. MaxInstances, n \in Index, v \in Command : Deliver(i, k, n, v)
BY Zenon DEF RaftNext, connect, disconnect, crash1, start1, ApplyError, one, wait, checkOneLeader,
       StartCommand, nCommitted, OneCounted, WaitCounted, GetState, LeadersCounted, Return,
       Begin, Goto, Fatal, readers, raftVars

\* A command that is delivered without an error agrees with all logs and follows
\* the one before.
LEMMA Delivered ==
  ASSUME NEW i \in Server, NEW k \in 1 .. MaxInstances, NEW n \in Index, NEW v \in Command,
         LogsType, Deliver(i, k, n, v)
  PROVE  /\ LogsType'
         /\ logs'[i][n] = v /\ v # None
         /\ \A j \in Server, m \in Index : <<j, m>> # <<i, n>> => logs'[j][m] = logs[j][m]
         /\ apply_error \subseteq apply_error'
         /\ apply_error' = {} => /\ \A j \in Server : logs[j][n] \in {None, v}
                                 /\ n > 1 => logs[i][n - 1] # None
<1>1. logs' = [logs EXCEPT ![i][n] = v]
  BY DEF Deliver
<1>2. v # None
  BY TesterAssumption
<1>3. LogsType'
  BY <1>1 DEF LogsType
<1>4. logs'[i][n] = v /\ \A j \in Server, m \in Index : <<j, m>> # <<i, n>> => logs'[j][m] = logs[j][m]
  BY <1>1 DEF LogsType
<1>5. apply_error' = IF Differs(i, n, v) \/ (n > 1 /\ logs[i][n - 1] = None)
                     THEN apply_error \cup {<<i, k>>} ELSE apply_error
  BY DEF Deliver
<1>6. apply_error \subseteq apply_error'
  BY <1>5
<1>7. apply_error' = {} => ~Differs(i, n, v) /\ (n > 1 => logs[i][n - 1] # None)
  BY Zenon, <1>5
<1> QED
  BY <1>2, <1>3, <1>4, <1>6, <1>7 DEF Differs

\* A reader notices every disagreement, and every gap in what the instances of a
\* server together have delivered (ReadersNotice), however they deliver, also those
\* that were killed.
THEOREM ReadersAlwaysNotice == RaftSpec => []ReadersNotice
<1>1. RaftInit => LogsType /\ ReadersNotice
  BY DEF RaftInit, LogsType, ReadersNotice
<1>2. LogsType /\ ReadersNotice /\ [RaftNext]_raftVars => LogsType' /\ ReadersNotice'
  <2> SUFFICES ASSUME LogsType, ReadersNotice, [RaftNext]_raftVars
               PROVE  LogsType' /\ ReadersNotice'
    OBVIOUS
  <2>1. CASE UNCHANGED <<logs, apply_error>>
    BY <2>1 DEF LogsType, ReadersNotice
  <2>2. ASSUME NEW i \in Server, NEW k \in 1 .. MaxInstances, NEW n \in Index, NEW v \in Command,
               Deliver(i, k, n, v)
        PROVE  LogsType' /\ ReadersNotice'
    <3>1. LogsType'
      BY <2>2, Delivered
    <3>2. ASSUME apply_error' = {}, NEW a \in Server, NEW b \in Server, NEW m \in Index,
                 logs'[a][m] # None, logs'[b][m] # None
          PROVE  logs'[a][m] = logs'[b][m]
      <4>1. apply_error = {} /\ \A j \in Server : logs[j][n] \in {None, v}
        BY <2>2, <3>2, Delivered
      <4>2. CASE m = n
        <5>1. logs'[a][m] \in {None, v} /\ logs'[b][m] \in {None, v}
          BY <2>2, <4>1, <4>2, Delivered
        <5> QED
          BY <3>2, <5>1
      <4>3. CASE m # n
        <5>1. logs'[a][m] = logs[a][m] /\ logs'[b][m] = logs[b][m]
          BY <2>2, <4>3, Delivered
        <5> QED
          BY <3>2, <4>1, <5>1 DEF ReadersNotice
      <4> QED
        BY <4>2, <4>3
    <3>3. ASSUME apply_error' = {}, NEW a \in Server, NEW m \in Index, logs'[a][m] # None, m > 1
          PROVE  logs'[a][m - 1] # None
      <4>1. apply_error = {} /\ (n > 1 => logs[i][n - 1] # None)
        BY <2>2, <3>3, Delivered
      <4>2. m - 1 \in Index
        BY <3>3, TesterAssumption DEF Index
      <4>3. CASE <<a, m - 1>> = <<i, n>>
        BY <2>2, <4>3, Delivered
      <4>4. CASE <<a, m - 1>> # <<i, n>>
        <5>1. logs'[a][m - 1] = logs[a][m - 1]
          BY <2>2, <4>2, <4>4, Delivered
        <5>2. CASE <<a, m>> = <<i, n>>
          BY <3>3, <4>1, <5>1, <5>2
        <5>3. CASE <<a, m>> # <<i, n>>
          <6>1. logs'[a][m] = logs[a][m]
            BY <2>2, <5>3, Delivered
          <6> QED
            BY <3>3, <4>1, <5>1, <6>1 DEF ReadersNotice
        <5> QED
          BY <5>2, <5>3
      <4> QED
        BY <4>3, <4>4
    <3> QED
      BY <3>1, <3>2, <3>3 DEF ReadersNotice
  <2> QED
    BY <2>1, <2>2, LogsChange
<1> QED
  BY <1>1, <1>2, PTL DEF RaftSpec

-----------------------------------------------------------------------------
(* The checks *)

\* What op is during one or wait, and during checkOneLeader.
Commit ==
  [name : {"one", "wait"}, pc : {"start", "nCommitted", "returned", "moved on"},
   cmd : Command \cup {None}, n : 1 .. N, retry : BOOLEAN, index : 0 .. MaxIndex,
   last : BOOLEAN, i : 0 .. N, starts : Nat, count : Nat, cmd1 : Command \cup {None}]
Leaders ==
  [name : {"checkOneLeader"}, pc : {"GetState", "returned"}, i : 0 .. N,
   leaders : SUBSET (Term \X Server)]

OpType ==
  op # None =>
    /\ op \in Commit \cup Leaders
    /\ op.pc = "nCommitted" \/ (op.pc = "returned" /\ op \in Commit) => op.index \in Index

\* The loops over the servers begin in range, and stay there.
LEMMA LoopRange == 0 \in 0 .. N /\ \A i \in 0 .. N : i < N => i \in Server /\ i + 1 \in 0 .. N
BY NetAssumption DEF Server

\* Where a count of nCommitted begins.
LEMMA CountBegins ==
  ASSUME NEW o \in Commit
  PROVE  /\ Count(o) \in Commit
         /\ Count(o).pc = "nCommitted" /\ Count(o).i = 0 /\ Count(o).count = 0
         /\ Count(o).index = o.index /\ Count(o).n = o.n /\ Count(o).name = o.name
BY Zenon, LoopRange DEF Count, Commit

\* A check goes on with op as it should be.
LEMMA OneStarts ==
  ASSUME NEW cmd \in Command, NEW n \in 1 .. N, NEW flag \in BOOLEAN, one(cmd, n, flag)
  PROVE  op' \in Commit /\ op'.pc = "start"
BY NetAssumption, TesterAssumption DEF one, Begin, Commit

LEMMA WaitStarts ==
  ASSUME NEW index \in Index, NEW n \in 1 .. N, NEW flag \in BOOLEAN, wait(index, n, flag)
  PROVE  op' \in Commit /\ op'.pc = "nCommitted" /\ op'.count = 0 /\ op'.i = 0 /\ op'.index \in Index
<1> DEFINE o == [name |-> "wait", pc |-> "start", cmd |-> None, n |-> n, retry |-> flag,
                 index |-> index, last |-> FALSE, i |-> 0, starts |-> 0, count |-> 0, cmd1 |-> None]
<1>1. o \in Commit /\ o.index = index
  BY NetAssumption, TesterAssumption DEF Commit, Index
<1>2. op' = Count(o)
  BY DEF wait, Begin
<1> QED
  BY <1>1, <1>2, CountBegins

LEMMA CheckStarts ==
  ASSUME checkOneLeader
  PROVE  op' \in Leaders /\ op'.pc = "GetState" /\ op'.leaders = {}
BY NetAssumption DEF checkOneLeader, Begin, Leaders

\* The steps of one and wait: op stays as it is typed, ends, or a new count begins.
LEMMA StartCommandStep ==
  ASSUME OpType, StartCommand
  PROVE  /\ UNCHANGED <<net, connected, readers, raft>>
         /\ \/ op' = None /\ fatal' = "no agreement"
            \/ op' \in Commit /\ op'.pc = "start" /\ fatal' = fatal
            \/ /\ op' \in Commit /\ op'.pc = "nCommitted" /\ op'.count = 0 /\ op'.i = 0
               /\ op'.index \in Index /\ fatal' = fatal
<1> DEFINE s == (op.starts + 1) % N
           asked == [op EXCEPT !.starts = s, !.i = @ + 1]
<1>1. op \in Commit /\ op.pc = "start"
  BY Zenon DEF StartCommand, OpType, Commit, Leaders
<1>2. s \in Nat
  <2>1. op.starts \in Nat
    BY Zenon, <1>1 DEF Commit
  <2> QED
    BY <2>1, NetAssumption
<1>3. op.i < N => asked \in Commit /\ asked.pc = "start"
  <2>1. op.i < N => op.i + 1 \in 0 .. N
    BY Zenon, <1>1, LoopRange DEF Commit
  <2> QED
    BY Zenon, <1>1, <1>2, <2>1 DEF Commit
<1>4. ASSUME NEW n \in Index, op.i < N
      PROVE  [asked EXCEPT !.index = n] \in Commit /\ [asked EXCEPT !.index = n].index = n
  <2>1. n \in 0 .. MaxIndex
    BY TesterAssumption DEF Index
  <2>2. asked \in Commit
    BY <1>3, <1>4
  <2> HIDE DEF asked
  <2> QED
    BY Zenon, <2>1, <2>2 DEF Commit
<1>5. [op EXCEPT !.i = 0] \in Commit /\ [op EXCEPT !.i = 0].pc = "start"
  BY Zenon, <1>1, LoopRange DEF Commit
<1>6. CASE op.i < N
  <2>1. \/ op' = asked /\ fatal' = fatal
        \/ \E n \in Index : op' = Count([asked EXCEPT !.index = n]) /\ fatal' = fatal
    BY Zenon, <1>6 DEF StartCommand, Goto
  <2>2. UNCHANGED <<net, connected, readers, raft>>
    BY Zenon, <1>6 DEF StartCommand, Goto
  <2>3. CASE op' = asked /\ fatal' = fatal
    BY Zenon, <1>3, <1>6, <2>2, <2>3
  <2>4. ASSUME NEW n \in Index, op' = Count([asked EXCEPT !.index = n]), fatal' = fatal
        PROVE  /\ op' \in Commit /\ op'.pc = "nCommitted" /\ op'.count = 0 /\ op'.i = 0
               /\ op'.index \in Index
    <3>1. [asked EXCEPT !.index = n] \in Commit /\ [asked EXCEPT !.index = n].index = n
      BY Zenon, <1>4, <1>6
    <3> HIDE DEF asked
    <3> QED
      BY Zenon, <2>4, <3>1, CountBegins
  <2> QED
    BY Zenon, <2>1, <2>2, <2>3, <2>4
<1>7. CASE ~(op.i < N)
  BY Zenon, <1>5, <1>7 DEF StartCommand, Goto, Fatal
<1> QED
  BY Zenon, <1>6, <1>7

LEMMA nCommittedStep ==
  ASSUME OpType, LogsType, nCommitted
  PROVE  /\ UNCHANGED <<net, connected, readers, raft>>
         /\ op \in Commit /\ op.pc = "nCommitted" /\ op.index \in Index /\ op.i \in Server
         /\ \/ /\ op' = None /\ fatal' = "committed values do not match"
               /\ op.count > 0 /\ logs[op.i][op.index] \notin {None, op.cmd1}
            \/ /\ op' \in Commit /\ op'.pc = "nCommitted" /\ op'.index = op.index /\ fatal' = fatal
               /\ op'.i = op.i + 1 /\ op'.name = op.name /\ op'.n = op.n
               /\ \/ op'.count = op.count /\ op'.cmd1 = op.cmd1
                  \/ /\ op'.count = op.count + 1 /\ op'.cmd1 = logs[op.i][op.index]
                     /\ op'.cmd1 # None /\ (op.count > 0 => op'.cmd1 = op.cmd1)
<1> DEFINE cmd1 == logs[op.i][op.index]
<1>1. op \in Commit /\ op.pc = "nCommitted" /\ op.index \in Index /\ op.i < N
  BY Zenon DEF nCommitted, OpType, Commit, Leaders
<1>2. op.i \in Server /\ op.i + 1 \in 0 .. N
  BY Zenon, <1>1, LoopRange DEF Commit
<1>3. cmd1 \in Command \cup {None}
  BY <1>1, <1>2 DEF LogsType
<1>4. /\ [op EXCEPT !.i = @ + 1] \in Commit
      /\ [op EXCEPT !.i = @ + 1, !.count = @ + 1, !.cmd1 = cmd1] \in Commit
  <2>1. op.count \in Nat
    BY Zenon, <1>1 DEF Commit
  <2>2. op.count + 1 \in Nat
    BY <2>1
  <2> QED
    BY Zenon, <1>1, <1>2, <1>3, <2>2 DEF Commit
<1>5. CASE cmd1 = None
  BY Zenon, <1>1, <1>2, <1>4, <1>5 DEF nCommitted, Goto, Commit
<1>6. CASE cmd1 # None /\ op.count > 0 /\ op.cmd1 # cmd1
  BY Zenon, <1>1, <1>2, <1>6 DEF nCommitted, Fatal
<1>7. CASE cmd1 # None /\ ~(op.count > 0 /\ op.cmd1 # cmd1)
  BY Zenon, <1>1, <1>2, <1>4, <1>7 DEF nCommitted, Goto, Commit
<1> QED
  BY Zenon, <1>5, <1>6, <1>7

LEMMA CountedStep ==
  ASSUME OpType, OneCounted \/ WaitCounted
  PROVE  /\ UNCHANGED <<net, connected, readers, raft>>
         /\ op \in Commit /\ op.pc = "nCommitted" /\ op.index \in Index /\ op.i = N
         /\ \/ op' = None /\ fatal' = "no agreement"
            \/ /\ op' \in Commit /\ fatal' = fatal
               /\ \/ op'.pc \in {"start", "moved on"}
                  \/ op'.pc = "nCommitted" /\ op'.count = 0 /\ op'.i = 0 /\ op'.index = op.index
                  \/ /\ op'.pc = "returned" /\ op'.index = op.index /\ op'.n = op.n
                     /\ op'.cmd = op.cmd1 /\ op.count >= op.n
<1>1. op \in Commit /\ op.pc = "nCommitted" /\ op.index \in Index /\ op.i = N
  BY Zenon DEF OneCounted, WaitCounted, Counted, OpType, Commit, Leaders
<1>2. Count(op) \in Commit /\ Count(op).pc = "nCommitted" /\ Count(op).count = 0 /\ Count(op).i = 0
      /\ Count(op).index = op.index
  BY <1>1, CountBegins
<1>3. CASE OneCounted
  <2>1. [op EXCEPT !.pc = "returned"] \in Commit
    BY Zenon, <1>1 DEF Commit
  <2>2. [op EXCEPT !.pc = "start", !.i = 0, !.index = 0] \in Commit
    <3>1. 0 \in 0 .. MaxIndex
      BY TesterAssumption
    <3> QED
      BY Zenon, <1>1, <3>1, LoopRange DEF Commit
  <2>3. CASE Agreed
    BY Zenon, <1>1, <1>3, <2>1, <2>3 DEF OneCounted, Goto, Agreed, Commit
  <2>4. CASE ~Agreed
    BY Zenon, <1>1, <1>2, <1>3, <2>2, <2>4 DEF OneCounted, Goto, Fatal, Commit
  <2> QED
    BY Zenon, <2>3, <2>4
<1>4. CASE WaitCounted
  <2>1. /\ [op EXCEPT !.pc = "returned", !.cmd = op.cmd1] \in Commit
        /\ [op EXCEPT !.pc = "moved on"] \in Commit
        /\ [op EXCEPT !.last = TRUE] \in Commit
        /\ [op EXCEPT !.last = TRUE].index = op.index
    BY Zenon, <1>1 DEF Commit
  <2>2. LET o == [op EXCEPT !.last = TRUE] IN
          /\ Count(o) \in Commit /\ Count(o).pc = "nCommitted" /\ Count(o).count = 0
          /\ Count(o).i = 0 /\ Count(o).index = op.index
    BY Zenon, <2>1, CountBegins
  <2>3. CASE op.last /\ op.count < op.n
    BY Zenon, <1>1, <1>4, <2>3 DEF WaitCounted, Fatal
  <2>4. CASE op.last /\ ~(op.count < op.n)
    <3> DEFINE o == [op EXCEPT !.pc = "returned", !.cmd = op.cmd1]
    <3>1. op' = o /\ fatal' = fatal /\ UNCHANGED <<net, connected, readers, raft>>
      BY <1>4, <2>4 DEF WaitCounted, Goto
    <3>2. o.pc = "returned" /\ o.index = op.index /\ o.n = op.n /\ o.cmd = op.cmd1
      BY Zenon, <1>1 DEF Commit
    <3>3. op.count >= op.n
      <4>1. op.count \in Nat /\ op.n \in 1 .. N
        BY Zenon, <1>1 DEF Commit
      <4> QED
        BY <2>4, <4>1, NetAssumption
    <3> QED
      BY Zenon, <1>1, <2>1, <3>1, <3>2, <3>3
  <2>5. CASE ~op.last
    <3>1. \/ op' = Count([op EXCEPT !.last = TRUE])
          \/ op' = Count(op)
          \/ op' = [op EXCEPT !.pc = "moved on"]
      BY Zenon, <1>4, <2>5 DEF WaitCounted, Goto
    <3>2. fatal' = fatal /\ UNCHANGED <<net, connected, readers, raft>>
      BY Zenon, <1>4, <2>5 DEF WaitCounted, Goto
    <3>3. [op EXCEPT !.pc = "moved on"].pc = "moved on"
      BY Zenon, <1>1 DEF Commit
    <3> QED
      BY Zenon, <1>1, <1>2, <2>1, <2>2, <3>1, <3>2, <3>3
  <2> QED
    BY Zenon, <2>3, <2>4, <2>5
<1> QED
  BY Zenon, <1>3, <1>4

\* The steps of checkOneLeader.
LEMMA LeadersStep ==
  ASSUME OpType, ledBy \in [Term -> Server \cup {None}], GetState \/ LeadersCounted
  PROVE  /\ UNCHANGED <<net, connected, readers, sound, chosen>>
         /\ op \in Leaders /\ op.pc = "GetState"
         /\ \/ /\ op' = None /\ ledBy' = ledBy
               /\ \/ fatal' = "no leader"
                  \/ fatal' = "more than one leader" /\ TwoLeaders(op.leaders)
            \/ op' \in Leaders /\ op'.pc = "returned" /\ fatal' = fatal /\ ledBy' = ledBy
            \/ /\ op' \in Leaders /\ op'.pc = "GetState" /\ op'.leaders = op.leaders
               /\ fatal' = fatal /\ ledBy' = ledBy
            \/ \E t \in Term :
                 /\ op.i \in Server /\ (sound => ledBy[t] \in {None, op.i})
                 /\ ledBy' = [ledBy EXCEPT ![t] = op.i]
                 /\ op' \in Leaders /\ op'.pc = "GetState" /\ fatal' = fatal
                 /\ op'.leaders = op.leaders \cup {<<t, op.i>>}
<1>1. op \in Leaders /\ op.pc = "GetState"
  BY Zenon DEF GetState, LeadersCounted, OpType, Commit, Leaders
<1>2. CASE GetState
  <2>1. op.i \in Server /\ op.i + 1 \in 0 .. N
    BY Zenon, <1>1, <1>2, LoopRange DEF GetState, Leaders
  <2>2. CASE Goto([op EXCEPT !.i = @ + 1])
    <3>1. [op EXCEPT !.i = @ + 1] \in Leaders
      BY <1>1, <2>1 DEF Leaders
    <3>2. [op EXCEPT !.i = @ + 1].pc = "GetState" /\ [op EXCEPT !.i = @ + 1].leaders = op.leaders
      BY <1>1 DEF Leaders
    <3>3. op' = [op EXCEPT !.i = @ + 1] /\ UNCHANGED <<net, connected, readers, raft, fatal>>
      BY <2>2 DEF Goto
    <3> QED
      BY Zenon, <1>1, <3>1, <3>2, <3>3 DEF raft
  <2>3. ASSUME NEW t \in Term,
               sound => ledBy[t] \in {None, op.i},
               ledBy' = [ledBy EXCEPT ![t] = op.i],
               op' = [op EXCEPT !.i = @ + 1, !.leaders = @ \cup {<<t, op.i>>}],
               UNCHANGED <<net, connected, readers, sound, chosen, ops, fatal>>
        PROVE  /\ op' \in Leaders /\ op'.pc = "GetState"
               /\ op'.leaders = op.leaders \cup {<<t, op.i>>}
    <3> DEFINE l == op.leaders \cup {<<t, op.i>>}
    <3>1. l \in SUBSET (Term \X Server)
      <4>1. op.leaders \in SUBSET (Term \X Server)
        BY <1>1 DEF Leaders
      <4> QED
        BY <2>1, <4>1
    <3>2. op' = [op EXCEPT !.i = @ + 1, !.leaders = l]
      BY <2>3
    <3> HIDE DEF l
    <3>3. op' \in Leaders /\ op'.pc = "GetState" /\ op'.leaders = l
      BY Zenon, <1>1, <2>1, <3>1, <3>2 DEF Leaders
    <3> QED
      BY <3>3 DEF l
  <2> QED
    BY Zenon, <1>1, <1>2, <2>1, <2>2, <2>3 DEF GetState, Goto, raft
<1>3. CASE LeadersCounted
  <2>1. /\ [op EXCEPT !.pc = "returned"] \in Leaders
        /\ [op EXCEPT !.pc = "returned"].pc = "returned"
    BY <1>1 DEF Leaders
  <2>2. /\ [op EXCEPT !.i = 0] \in Leaders
        /\ [op EXCEPT !.i = 0].pc = "GetState" /\ [op EXCEPT !.i = 0].leaders = op.leaders
    BY <1>1, LoopRange DEF Leaders
  <2>3. \/ op' = None /\ fatal' = "more than one leader" /\ TwoLeaders(op.leaders)
        \/ op' = None /\ fatal' = "no leader"
        \/ op' = [op EXCEPT !.pc = "returned"] /\ fatal' = fatal
        \/ op' = [op EXCEPT !.i = 0] /\ fatal' = fatal
    BY Zenon, <1>3 DEF LeadersCounted, Goto, Fatal
  <2>4. UNCHANGED <<net, connected, readers, raft>>
    BY Zenon, <1>3 DEF LeadersCounted, Goto, Fatal
  <2> QED
    BY Zenon, <1>1, <2>1, <2>2, <2>3, <2>4 DEF raft
<1> QED
  BY Zenon, <1>2, <1>3

Types ==
  /\ LogsType /\ OpType
  /\ chosen \in [Index -> Command \cup {None}]
  /\ next \in [Server -> [1 .. MaxInstances -> Nat]]
  /\ ledBy \in [Term -> Server \cup {None}]

\* A check begins.
Begins ==
  \/ \E n \in 1 .. N, flag \in BOOLEAN :
       \/ \E cmd \in Command : one(cmd, n, flag)
       \/ \E index \in Index : wait(index, n, flag)
  \/ checkOneLeader

LEMMA BeginsStep ==
  ASSUME Begins
  PROVE  /\ UNCHANGED <<net, connected, readers, raft, fatal>>
         /\ \/ op' \in Commit /\ op'.pc = "start"
            \/ /\ op' \in Commit /\ op'.pc = "nCommitted" /\ op'.count = 0 /\ op'.i = 0
               /\ op'.index \in Index
            \/ op' \in Leaders /\ op'.pc = "GetState" /\ op'.leaders = {}
<1>1. UNCHANGED <<net, connected, readers, raft, fatal>>
  BY Zenon DEF Begins, one, wait, checkOneLeader, Begin
<1> QED
  BY <1>1, OneStarts, WaitStarts, CheckStarts DEF Begins

\* What a step does to op.
LEMMA Steps ==
  ASSUME [RaftNext]_raftVars
  PROVE  \/ UNCHANGED <<readers, raft, op>> /\ fatal' \in {fatal, "apply error"}
         \/ \E i \in Server : start1(i)
         \/ \E i \in Server, k \in 1 .. MaxInstances, n \in Index, v \in Command : Deliver(i, k, n, v)
         \/ Begins \/ StartCommand \/ nCommitted \/ OneCounted \/ WaitCounted
         \/ GetState \/ LeadersCounted
         \/ op' = None /\ UNCHANGED <<readers, raft, fatal>>
<1>1. CASE UNCHANGED raftVars
  BY <1>1 DEF raftVars, test
<1>2. ASSUME NEW i \in Server, connect(i) \/ disconnect(i) \/ crash1(i)
      PROVE  UNCHANGED <<readers, raft, op>> /\ fatal' \in {fatal, "apply error"}
  BY Zenon, <1>2 DEF connect, disconnect, crash1, test
<1>3. ApplyError => UNCHANGED <<readers, raft, op>> /\ fatal' \in {fatal, "apply error"}
  BY Zenon DEF ApplyError
<1>4. Return => op' = None /\ UNCHANGED <<readers, raft, fatal>>
  BY Zenon DEF Return, Goto
<1> QED
  BY Zenon, <1>1, <1>2, <1>3, <1>4 DEF RaftNext, Begins

\* op stays as it is typed.
LEMMA OpTypeKept ==
  ASSUME Types, Begins \/ StartCommand \/ nCommitted \/ OneCounted \/ WaitCounted
                \/ GetState \/ LeadersCounted
  PROVE  OpType' /\ UNCHANGED readers /\ UNCHANGED chosen
<1>1. ASSUME op' \in Leaders PROVE OpType'
  BY Zenon, <1>1 DEF OpType, Commit, Leaders
<1>2. ASSUME op' \in Commit, op'.pc \in {"start", "moved on"} \/ op'.index \in Index PROVE OpType'
  BY Zenon, <1>2 DEF OpType
<1>3. ASSUME op' = None PROVE OpType'
  BY <1>3 DEF OpType
<1>4. CASE Begins
  BY Zenon, <1>1, <1>2, <1>4, BeginsStep DEF raft
<1>5. CASE StartCommand
  BY Zenon, <1>2, <1>3, <1>5, StartCommandStep DEF raft, Types
<1>6. CASE nCommitted
  BY Zenon, <1>2, <1>3, <1>6, nCommittedStep DEF raft, Types
<1>7. CASE OneCounted \/ WaitCounted
  <2>1. op' = None \/ (op' \in Commit /\ (op'.pc \in {"start", "moved on"} \/ op'.index \in Index))
    BY Zenon, <1>7, CountedStep DEF Types
  <2>2. UNCHANGED <<readers, raft>>
    BY Zenon, <1>7, CountedStep DEF Types
  <2> QED
    BY Zenon, <1>2, <1>3, <2>1, <2>2 DEF raft
<1>8. CASE GetState \/ LeadersCounted
  BY Zenon, <1>1, <1>3, <1>8, LeadersStep DEF Types
<1> QED
  BY <1>4, <1>5, <1>6, <1>7, <1>8

\* A delivery does to next and chosen what a right Raft does, and nothing else.
LEMMA DeliverTypes ==
  ASSUME NEW i \in Server, NEW k \in 1 .. MaxInstances, NEW n \in Index, NEW v \in Command,
         Types, Deliver(i, k, n, v)
  PROVE  Types'
<1>1. LogsType'
  BY Delivered DEF Types
<1>2. UNCHANGED <<op, ledBy>>
  BY DEF Deliver, test
<1>3. n + 1 \in Nat
  BY TesterAssumption DEF Index
<1>4. chosen' = chosen \/ chosen' = [chosen EXCEPT ![n] = v]
  BY DEF Deliver
<1>5. next' = next \/ next' = [next EXCEPT ![i][k] = n + 1]
  BY DEF Deliver
<1>6. chosen' \in [Index -> Command \cup {None}]
  BY <1>4 DEF Types
<1>7. next' \in [Server -> [1 .. MaxInstances -> Nat]]
  <2>1. \A m \in Nat : [next EXCEPT ![i][k] = m] \in [Server -> [1 .. MaxInstances -> Nat]]
    BY DEF Types
  <2> QED
    BY Zenon, <1>3, <1>5, <2>1 DEF Types
<1> QED
  BY <1>1, <1>2, <1>6, <1>7 DEF Types, OpType

LEMMA TypesInit == RaftInit => Types
<1>1. RaftInit => next \in [Server -> [1 .. MaxInstances -> Nat]]
  BY DEF RaftInit
<1> QED
  BY <1>1 DEF RaftInit, Types, LogsType, OpType

LEMMA TypesKept == Types /\ [RaftNext]_raftVars => Types'
<1> SUFFICES ASSUME Types, [RaftNext]_raftVars PROVE Types'
  OBVIOUS
<1>1. CASE UNCHANGED <<readers, raft, op>>
  BY <1>1 DEF readers, raft, Types, LogsType, OpType
<1>2. ASSUME NEW i \in Server, start1(i) PROVE Types'
  <2>1. next' = [next EXCEPT ![i][FreshName(i)] = 1]
    BY <1>2 DEF start1
  <2>2. UNCHANGED <<logs, raft, op>>
    BY <1>2 DEF start1, test
  <2>3. next' \in [Server -> [1 .. MaxInstances -> Nat]]
    BY Zenon, <2>1 DEF Types
  <2> QED
    BY <2>2, <2>3 DEF raft, Types, LogsType, OpType
<1>3. CASE Begins \/ StartCommand \/ nCommitted \/ OneCounted \/ WaitCounted
           \/ GetState \/ LeadersCounted
  <2>1. OpType' /\ UNCHANGED <<logs, next, chosen>>
    BY <1>3, OpTypeKept DEF readers
  <2>2. ledBy' \in [Term -> Server \cup {None}]
    <3>1. CASE UNCHANGED ledBy
      BY <3>1 DEF Types
    <3>2. CASE GetState \/ LeadersCounted
      BY Zenon, <3>2, LeadersStep DEF Types
    <3>3. CASE Begins
      BY <3>1, <3>3, BeginsStep DEF raft
    <3>4. CASE StartCommand \/ nCommitted \/ OneCounted \/ WaitCounted
      BY Zenon, <3>1, <3>4 DEF StartCommand, nCommitted, OneCounted, WaitCounted, Goto, Fatal, raft
    <3> QED
      BY <1>3, <3>2, <3>3, <3>4
  <2> QED
    BY <2>1, <2>2 DEF Types, LogsType
<1>4. CASE op' = None /\ UNCHANGED <<readers, raft, fatal>>
  BY <1>4 DEF readers, raft, Types, LogsType, OpType
<1> QED
  BY Zenon, <1>1, <1>2, <1>3, <1>4, Steps, DeliverTypes

-----------------------------------------------------------------------------
(* A right Raft is not blamed *)

\* While the servers are right: what is applied is what was chosen, an instance
\* has applied all that is before its next, and no reader has complained.
RightReaders ==
  /\ \A i \in Server, n \in Index : logs[i][n] \in {None, chosen[n]}
  /\ \A i \in Server, k \in 1 .. MaxInstances, n \in Index : n < next[i][k] => logs[i][n] # None
  /\ apply_error = {}

\* What nCommitted has found is what was chosen, and what GetState has found is so.
RightCount ==
  op # None => (op.pc = "nCommitted" =>
                  (op.count > 0 => op.cmd1 # None /\ chosen[op.index] = op.cmd1))
RightLeaders ==
  op # None => (op.pc = "GetState" => \A x \in op.leaders : ledBy[x[1]] = x[2])

Blamed == fatal \in Unsafe

LEMMA DeliverRight ==
  ASSUME NEW i \in Server, NEW k \in 1 .. MaxInstances, NEW n \in Index, NEW v \in Command,
         Types, sound, RightReaders, RightCount, Deliver(i, k, n, v)
  PROVE  RightReaders' /\ RightCount'
<1>1. /\ n = next[i][k] /\ chosen[n] \in {None, v}
      /\ next' = [next EXCEPT ![i][k] = n + 1] /\ chosen' = [chosen EXCEPT ![n] = v]
  BY DEF Deliver
<1>2. /\ logs'[i][n] = v /\ v # None
      /\ \A j \in Server, m \in Index : <<j, m>> # <<i, n>> => logs'[j][m] = logs[j][m]
  BY Delivered DEF Types
<1>3. chosen'[n] = v /\ \A m \in Index : m # n => chosen'[m] = chosen[m]
  BY <1>1 DEF Types
<1>4. \A m \in Index : chosen[m] # None => chosen'[m] = chosen[m]
  BY <1>1, <1>3
<1>5. \A j \in Server, m \in Index : logs'[j][m] \in {None, chosen'[m]}
  BY <1>2, <1>3, <1>4 DEF RightReaders
<1>6. /\ next'[i][k] = n + 1
      /\ \A j \in Server, l \in 1 .. MaxInstances : <<j, l>> # <<i, k>> => next'[j][l] = next[j][l]
  BY Zenon, <1>1 DEF Types
<1>7. ASSUME NEW j \in Server, NEW l \in 1 .. MaxInstances, NEW m \in Index, m < next'[j][l]
      PROVE  logs'[j][m] # None
  <2>1. CASE <<j, m>> = <<i, n>>
    BY <1>2, <2>1
  <2>2. CASE <<j, m>> # <<i, n>> /\ <<j, l>> = <<i, k>>
    <3>1. m < next[i][k]
      BY <1>1, <1>6, <1>7, <2>2, TesterAssumption DEF Index
    <3> QED
      BY <1>2, <2>2, <3>1 DEF RightReaders
  <2>3. CASE <<j, m>> # <<i, n>> /\ <<j, l>> # <<i, k>>
    BY <1>2, <1>6, <1>7, <2>3 DEF RightReaders
  <2> QED
    BY <2>1, <2>2, <2>3
<1>8. apply_error' = {}
  <2>1. ~Differs(i, n, v)
    BY <1>1 DEF Differs, RightReaders
  <2>2. n > 1 => logs[i][n - 1] # None
    <3>1. n > 1 => n - 1 \in Index /\ n - 1 < n
      BY TesterAssumption DEF Index
    <3> QED
      BY <1>1, <3>1 DEF RightReaders
  <2> QED
    BY <2>1, <2>2 DEF Deliver, RightReaders
<1>9. RightCount'
  <2>1. op' = op
    BY DEF Deliver, test
  <2>2. op # None /\ op.pc = "nCommitted" => op.index \in Index
    BY DEF Types, OpType
  <2> QED
    BY <1>4, <2>1, <2>2 DEF RightCount
<1> QED
  BY <1>5, <1>7, <1>8, <1>9 DEF RightReaders

LEMMA StartRight ==
  ASSUME NEW i \in Server, Types, RightReaders, RightCount, RightLeaders, start1(i)
  PROVE  RightReaders' /\ RightCount' /\ RightLeaders' /\ fatal' = fatal
<1>1. next' = [next EXCEPT ![i][FreshName(i)] = 1]
  BY DEF start1
<1>2. UNCHANGED <<logs, apply_error, sound, chosen, ledBy, op, fatal>>
  BY DEF start1, raft, test
<1>3. \A j \in Server, k \in 1 .. MaxInstances : next'[j][k] \in {1, next[j][k]}
  BY <1>1 DEF Types
<1>4. \A n \in Index : ~(n < 1)
  BY TesterAssumption DEF Index
<1>5. RightReaders'
  BY <1>2, <1>3, <1>4 DEF RightReaders
<1> QED
  BY <1>2, <1>5 DEF RightCount, RightLeaders

\* The checks: they find what is so, and stop for another reason or not at all.
LEMMA CommitRight ==
  ASSUME Types, RightReaders, RightCount, ~Blamed,
         StartCommand \/ nCommitted \/ OneCounted \/ WaitCounted
  PROVE  RightReaders' /\ RightCount' /\ RightLeaders' /\ ~Blamed'
<1>1. UNCHANGED <<readers, raft>>
  BY Zenon DEF StartCommand, nCommitted, OneCounted, WaitCounted, Goto, Fatal
<1>2. RightReaders' /\ chosen' = chosen
  BY <1>1 DEF readers, raft, RightReaders
<1>3. ASSUME op' \in Commit, op'.count = 0 PROVE RightCount' /\ RightLeaders'
  <2>1. op'.pc # "GetState"
    BY Zenon, <1>3 DEF Commit
  <2> QED
    BY <1>3, <2>1 DEF RightCount, RightLeaders
<1>4. ASSUME op' \in Commit, op'.pc # "nCommitted" PROVE RightCount' /\ RightLeaders'
  BY Zenon, <1>4 DEF Commit, RightCount, RightLeaders
<1>5. ASSUME op' = None PROVE RightCount' /\ RightLeaders'
  BY <1>5 DEF RightCount, RightLeaders
<1>6. CASE StartCommand
  <2>1. ~Blamed'
    BY Zenon, <1>6, StartCommandStep DEF Types, Blamed, Unsafe
  <2>2. op' = None \/ (op' \in Commit /\ (op'.pc # "nCommitted" \/ op'.count = 0))
    BY Zenon, <1>6, StartCommandStep DEF Types
  <2> QED
    BY <1>2, <1>3, <1>4, <1>5, <2>1, <2>2
<1>7. CASE nCommitted
  <2>1. op.index \in Index /\ op.i \in Server /\ op.pc = "nCommitted" /\ op # None
    BY Zenon, <1>7, nCommittedStep DEF Types, nCommitted
  <2>2. logs[op.i][op.index] \in {None, chosen[op.index]}
    BY <2>1 DEF RightReaders
  <2>3. op.count > 0 => op.cmd1 # None /\ chosen[op.index] = op.cmd1
    BY <2>1 DEF RightCount
  <2>4. /\ fatal' = fatal /\ op' \in Commit /\ op'.pc = "nCommitted" /\ op'.index = op.index
        /\ \/ op'.count = op.count /\ op'.cmd1 = op.cmd1
           \/ op'.cmd1 = logs[op.i][op.index] /\ op'.cmd1 # None
    BY Zenon, <1>7, <2>2, <2>3, nCommittedStep DEF Types
  <2>5. op'.count > 0 => op'.cmd1 # None /\ chosen[op'.index] = op'.cmd1
    BY <2>2, <2>3, <2>4
  <2> QED
    BY <1>2, <2>4, <2>5 DEF RightCount, RightLeaders, Blamed
<1>8. CASE OneCounted \/ WaitCounted
  <2>1. ~Blamed'
    BY Zenon, <1>8, CountedStep DEF Types, Blamed, Unsafe
  <2>2. op' = None \/ (op' \in Commit /\ (op'.pc # "nCommitted" \/ op'.count = 0))
    BY Zenon, <1>8, CountedStep DEF Types
  <2> QED
    BY <1>2, <1>3, <1>4, <1>5, <2>1, <2>2
<1> QED
  BY <1>6, <1>7, <1>8

LEMMA LeadersRight ==
  ASSUME Types, sound, RightReaders, RightLeaders, ~Blamed, GetState \/ LeadersCounted
  PROVE  RightReaders' /\ RightCount' /\ RightLeaders' /\ ~Blamed'
<1>1. op # None /\ op \in Leaders /\ op.pc = "GetState" /\ UNCHANGED <<readers, chosen>>
  BY Zenon, LeadersStep DEF Types, GetState, LeadersCounted
<1>2. RightReaders'
  BY <1>1 DEF readers, RightReaders
<1>3. \A x \in op.leaders : ledBy[x[1]] = x[2]
  BY <1>1 DEF RightLeaders
<1>4. op' = None \/ op' \in Leaders
  BY Zenon, LeadersStep DEF Types
<1>5. RightCount'
  BY <1>4 DEF Leaders, RightCount
<1>6. ~Blamed'
  <2>1. ~TwoLeaders(op.leaders)
    BY <1>3 DEF TwoLeaders
  <2> QED
    BY Zenon, <2>1, LeadersStep DEF Types, Blamed, Unsafe
<1>7. RightLeaders'
  <2>1. CASE op' = None \/ op'.pc = "returned"
    BY <2>1 DEF RightLeaders
  <2>2. CASE op'.leaders = op.leaders /\ ledBy' = ledBy
    BY <1>3, <2>2 DEF RightLeaders
  <2>3. ASSUME NEW t \in Term, op.i \in Server, ledBy[t] \in {None, op.i},
               ledBy' = [ledBy EXCEPT ![t] = op.i], op'.leaders = op.leaders \cup {<<t, op.i>>}
        PROVE  RightLeaders'
    <3>1. ledBy'[t] = op.i /\ \A u \in Term : u # t => ledBy'[u] = ledBy[u]
      BY <2>3 DEF Types
    <3>2. \A x \in op.leaders : x[1] \in Term /\ x[2] \in Server
      <4>1. op.leaders \in SUBSET (Term \X Server)
        BY <1>1 DEF Leaders
      <4> QED
        BY <4>1
    <3>3. \A x \in op.leaders : x[2] # None
      BY <3>2, NetAssumption, TesterAssumption DEF Server
    <3>4. ASSUME NEW x \in op.leaders PROVE ledBy'[x[1]] = x[2]
      BY <1>3, <2>3, <3>1, <3>2, <3>3
    <3>5. \A x \in op'.leaders : ledBy'[x[1]] = x[2]
      BY <2>3, <3>1, <3>4
    <3> QED
      BY <3>5 DEF RightLeaders
  <2> QED
    BY Zenon, <2>1, <2>2, <2>3, LeadersStep DEF Types
<1> QED
  BY <1>2, <1>5, <1>6, <1>7

\* A right Raft is never blamed (NoFalseAlarm), for any number of servers,
\* restarts, commands and terms.
THEOREM NeverAFalseAlarm == RaftSpec => []NoFalseAlarm
<1> DEFINE Inv == Types /\ (sound => RightReaders /\ RightCount /\ RightLeaders /\ ~Blamed)
<1>1. RaftInit => Inv
  <2> SUFFICES ASSUME RaftInit PROVE Inv
    OBVIOUS
  <2>1. Types
    BY TypesInit
  <2>2. RightReaders
    <3>1. \A n \in Index : ~(n < 1) /\ ~(n < 0)
      BY TesterAssumption DEF Index
    <3>2. \A i \in Server, k \in 1 .. MaxInstances : next[i][k] \in {0, 1}
      BY DEF RaftInit
    <3> QED
      BY <3>1, <3>2 DEF RaftInit, RightReaders
  <2>3. op = None /\ fatal = None
    BY DEF RaftInit
  <2> QED
    BY <2>1, <2>2, <2>3, TesterAssumption DEF RightCount, RightLeaders, Blamed
<1>2. Inv /\ [RaftNext]_raftVars => Inv'
  <2> SUFFICES ASSUME Inv, [RaftNext]_raftVars, sound' PROVE (RightReaders /\ RightCount /\ RightLeaders /\ ~Blamed)'
    BY TypesKept
  <2>1. CASE UNCHANGED <<readers, raft, op>> /\ fatal' \in {fatal, "apply error"}
    BY Zenon, <2>1 DEF readers, raft, RightReaders, RightCount, RightLeaders, Blamed, Unsafe
  <2>2. CASE \E i \in Server : start1(i)
    BY Zenon, <2>2, StartRight DEF start1, raft, Blamed
  <2>3. ASSUME NEW i \in Server, NEW k \in 1 .. MaxInstances, NEW n \in Index, NEW v \in Command,
               Deliver(i, k, n, v)
        PROVE  (RightReaders /\ RightCount /\ RightLeaders /\ ~Blamed)'
    <3>1. UNCHANGED <<sound, ledBy, op, fatal>>
      BY Zenon, <2>3 DEF Deliver, test
    <3> QED
      BY <2>3, <3>1, DeliverRight DEF RightLeaders, Blamed
  <2>4. CASE Begins
    <3>1. UNCHANGED <<readers, raft, fatal>>
      BY <2>4, BeginsStep
    <3>2. RightReaders' /\ ~Blamed'
      BY <3>1 DEF readers, raft, RightReaders, Blamed
    <3>3. \/ op'.pc = "start"
          \/ op'.pc = "nCommitted" /\ op'.count = 0
          \/ op'.pc = "GetState" /\ op'.leaders = {}
      BY <2>4, BeginsStep
    <3>4. RightCount' /\ RightLeaders'
      BY <3>3 DEF RightCount, RightLeaders
    <3> QED
      BY <3>2, <3>4
  <2>5. CASE StartCommand \/ nCommitted \/ OneCounted \/ WaitCounted
    <3>1. sound
      BY Zenon, <2>5 DEF StartCommand, nCommitted, OneCounted, WaitCounted, Goto, Fatal, raft
    <3> QED
      BY <2>5, <3>1, CommitRight
  <2>6. CASE GetState \/ LeadersCounted
    <3>1. sound
      BY Zenon, <2>6, LeadersStep DEF Types
    <3> QED
      BY <2>6, <3>1, LeadersRight
  <2>7. CASE op' = None /\ UNCHANGED <<readers, raft, fatal>>
    BY <2>7 DEF readers, raft, RightReaders, RightCount, RightLeaders, Blamed
  <2> QED
    BY Zenon, <2>1, <2>2, <2>3, <2>4, <2>5, <2>6, <2>7, Steps
<1>3. Inv => NoFalseAlarm
  BY DEF NoFalseAlarm, RightReaders, Blamed
<1> QED
  BY <1>1, <1>2, <1>3, PTL DEF RaftSpec

-----------------------------------------------------------------------------
(* What one and wait return is so *)

\* Of the servers before i, those that have v at index n.
Have(l, i, n, v) == {j \in Server : j < i /\ l[j][n] = v}

\* No fewer servers have the command than nCommitted has counted, and no fewer
\* than one or wait asked for have what it returned.
CountIsReal ==
  op # None /\ apply_error = {} =>
    (op.pc = "nCommitted" =>
       (op.count > 0 => /\ op.cmd1 # None
                        /\ op.count <= Cardinality(Have(logs, op.i, op.index, op.cmd1))))
ReturnIsReal ==
  op # None /\ apply_error = {} =>
    (op \in Commit /\ op.pc = "returned" =>
       op.cmd # None /\ op.n <= Cardinality(Have(logs, N, op.index, op.cmd)))

\* A set of servers is no larger than one it is part of, and one more server
\* makes it one larger.
LEMMA ServerSets ==
  ASSUME NEW S \in SUBSET Server, NEW T \in SUBSET S
  PROVE  /\ Cardinality(S) \in Nat /\ Cardinality(T) \in Nat /\ Cardinality(T) <= Cardinality(S)
         /\ \A i \in Server : i \notin S => Cardinality(S \cup {i}) = Cardinality(S) + 1
<1>1. IsFiniteSet(Server)
  BY FS_Interval, NetAssumption DEF Server
<1>2. IsFiniteSet(S)
  BY <1>1, FS_Subset
<1>3. IsFiniteSet(T) /\ Cardinality(T) <= Cardinality(S)
  BY <1>2, FS_Subset
<1> QED
  BY <1>2, <1>3, FS_CardinalityType, FS_AddElement

\* Unless a reader complains, what was there when it delivers is still there.
LEMMA HaveGrows ==
  ASSUME NEW i \in Server, NEW k \in 1 .. MaxInstances, NEW n \in Index, NEW v \in Command,
         Types, Deliver(i, k, n, v), apply_error' = {},
         NEW x \in 0 .. N, NEW m \in Index, NEW w, w # None, NEW c \in Nat,
         c <= Cardinality(Have(logs, x, m, w))
  PROVE  c <= Cardinality(Have(logs', x, m, w))
<1>1. /\ logs'[i][n] = v
      /\ \A j \in Server, l \in Index : <<j, l>> # <<i, n>> => logs'[j][l] = logs[j][l]
      /\ logs[i][n] \in {None, v}
  BY Delivered DEF Types
<1>2. Have(logs, x, m, w) \subseteq Have(logs', x, m, w) /\ Have(logs', x, m, w) \subseteq Server
  BY <1>1 DEF Have
<1>3. /\ Cardinality(Have(logs, x, m, w)) \in Nat /\ Cardinality(Have(logs', x, m, w)) \in Nat
      /\ Cardinality(Have(logs, x, m, w)) <= Cardinality(Have(logs', x, m, w))
  BY <1>2, ServerSets
<1> QED
  BY <1>3

LEMMA DeliverReal ==
  ASSUME NEW i \in Server, NEW k \in 1 .. MaxInstances, NEW n \in Index, NEW v \in Command,
         Types, CountIsReal, ReturnIsReal, Deliver(i, k, n, v)
  PROVE  CountIsReal' /\ ReturnIsReal'
<1>1. op' = op
  BY DEF Deliver, test
<1> SUFFICES ASSUME op # None, apply_error' = {} PROVE CountIsReal' /\ ReturnIsReal'
  BY <1>1 DEF CountIsReal, ReturnIsReal
<1>2. apply_error = {}
  BY Delivered DEF Types
<1>3. ASSUME op.pc = "nCommitted", op.count > 0
      PROVE  op.cmd1 # None /\ op.count <= Cardinality(Have(logs', op.i, op.index, op.cmd1))
  <2>1. op \in Commit /\ op.index \in Index
    BY Zenon, <1>3 DEF Types, OpType, Commit, Leaders
  <2>2. op.i \in 0 .. N /\ op.count \in Nat
    BY Zenon, <2>1 DEF Commit
  <2>3. op.cmd1 # None /\ op.count <= Cardinality(Have(logs, op.i, op.index, op.cmd1))
    BY <1>2, <1>3 DEF CountIsReal
  <2> QED
    BY <2>1, <2>2, <2>3, HaveGrows
<1>4. ASSUME op \in Commit, op.pc = "returned"
      PROVE  op.cmd # None /\ op.n <= Cardinality(Have(logs', N, op.index, op.cmd))
  <2>1. op.index \in Index
    BY <1>4 DEF Types, OpType
  <2>2. op.n \in 1 .. N
    BY Zenon, <1>4 DEF Commit
  <2>3. op.n \in Nat /\ N \in 0 .. N
    BY <2>2, NetAssumption
  <2>4. op.cmd # None /\ op.n <= Cardinality(Have(logs, N, op.index, op.cmd))
    BY <1>2, <1>4 DEF ReturnIsReal
  <2> QED
    BY <2>1, <2>3, <2>4, HaveGrows
<1> QED
  BY <1>1, <1>3, <1>4 DEF CountIsReal, ReturnIsReal

\* One server more is looked at.
LEMMA CountReal ==
  ASSUME Types, CountIsReal, nCommitted
  PROVE  CountIsReal' /\ ReturnIsReal'
<1>1. /\ op # None /\ op \in Commit /\ op.pc = "nCommitted" /\ op.index \in Index /\ op.i \in Server
      /\ UNCHANGED readers
  BY Zenon, nCommittedStep DEF Types, nCommitted
<1>2. CASE op' = None
  BY <1>2 DEF CountIsReal, ReturnIsReal
<1>3. ASSUME op' \in Commit, op'.pc = "nCommitted", op'.index = op.index, op'.i = op.i + 1,
             \/ op'.count = op.count /\ op'.cmd1 = op.cmd1
             \/ /\ op'.count = op.count + 1 /\ op'.cmd1 = logs[op.i][op.index]
                /\ op'.cmd1 # None /\ (op.count > 0 => op'.cmd1 = op.cmd1)
      PROVE  CountIsReal' /\ ReturnIsReal'
  <2> SUFFICES ASSUME apply_error = {}, op'.count > 0
               PROVE  /\ op'.cmd1 # None
                      /\ op'.count <= Cardinality(Have(logs, op'.i, op'.index, op'.cmd1))
    BY <1>1, <1>3 DEF CountIsReal, ReturnIsReal, readers
  <2> DEFINE before == Have(logs, op.i, op.index, op'.cmd1)
             after == Have(logs, op.i + 1, op.index, op'.cmd1)
  <2>1. op.count > 0 => op.cmd1 # None /\ op.count <= Cardinality(Have(logs, op.i, op.index, op.cmd1))
    BY <1>1 DEF CountIsReal
  <2>2. before \subseteq after /\ after \subseteq Server /\ op.i \notin before
    BY <1>1, NetAssumption DEF Have, Server
  <2>3. op'.cmd1 = logs[op.i][op.index] => after = before \cup {op.i}
    BY <1>1, NetAssumption DEF Have, Server
  <2>4. /\ Cardinality(before) \in Nat /\ Cardinality(after) \in Nat
        /\ Cardinality(before) <= Cardinality(after)
        /\ op'.cmd1 = logs[op.i][op.index] => Cardinality(after) = Cardinality(before) + 1
    <3>1. before \in SUBSET Server /\ before \in SUBSET after /\ after \in SUBSET Server
      BY <2>2
    <3> HIDE DEF before, after
    <3> QED
      BY <1>1, <2>2, <2>3, <3>1, ServerSets
  <2>5. op.count \in Nat
    BY Zenon, <1>1 DEF Commit
  <2>6. op.count > 0 => op'.cmd1 = op.cmd1 /\ op.count <= Cardinality(before)
    BY <1>3, <2>1
  <2>7. op'.cmd1 # None /\ op'.count <= Cardinality(after)
    <3> HIDE DEF before, after
    <3> QED
      BY <1>3, <2>1, <2>4, <2>5, <2>6
  <2> QED
    BY <1>3, <2>7
<1> QED
  BY Zenon, <1>2, <1>3, nCommittedStep DEF Types

\* The count is complete.
LEMMA CountedReal ==
  ASSUME Types, CountIsReal, OneCounted \/ WaitCounted
  PROVE  CountIsReal' /\ ReturnIsReal'
<1>1. /\ op # None /\ op \in Commit /\ op.pc = "nCommitted" /\ op.index \in Index /\ op.i = N
      /\ UNCHANGED readers
  BY Zenon, CountedStep DEF Types, OneCounted, WaitCounted, Counted
<1>2. CASE op' = None \/ op'.pc \in {"start", "moved on"}
  BY Zenon, <1>2 DEF CountIsReal, ReturnIsReal
<1>3. CASE op'.pc = "nCommitted" /\ op'.count = 0
  BY <1>3 DEF CountIsReal, ReturnIsReal
<1>4. ASSUME op'.pc = "returned", op'.index = op.index, op'.n = op.n, op'.cmd = op.cmd1,
             op.count >= op.n
      PROVE  CountIsReal' /\ ReturnIsReal'
  <2>1. op.n \in 1 .. N /\ op.count \in Nat
    BY Zenon, <1>1 DEF Commit
  <2>2. op.count > 0 /\ op.n <= op.count
    BY <1>4, <2>1, NetAssumption
  <2>3. apply_error = {} => /\ op.cmd1 # None
                            /\ op.count <= Cardinality(Have(logs, N, op.index, op.cmd1))
    BY <1>1, <2>2 DEF CountIsReal
  <2>4. Cardinality(Have(logs, N, op.index, op.cmd1)) \in Nat
    <3>1. Have(logs, N, op.index, op.cmd1) \in SUBSET Server
      BY DEF Have
    <3> QED
      BY <3>1, ServerSets
  <2>5. apply_error = {} => op.cmd1 # None /\ op.n <= Cardinality(Have(logs, N, op.index, op.cmd1))
    BY <2>1, <2>2, <2>3, <2>4
  <2> QED
    BY <1>1, <1>4, <2>5 DEF CountIsReal, ReturnIsReal, readers
<1> QED
  BY Zenon, <1>2, <1>3, <1>4, CountedStep DEF Types

\* As many servers as one or wait asked for have applied what it returns
\* (AgreementIsReal), although nCommitted looks at them one by one while they
\* apply, crash and restart.
THEOREM AgreementIsAlwaysReal == RaftSpec => []AgreementIsReal
<1> DEFINE Inv == Types /\ CountIsReal /\ ReturnIsReal
<1>1. RaftInit => Inv
  <2> SUFFICES ASSUME RaftInit PROVE Inv
    OBVIOUS
  <2>1. Types
    BY TypesInit
  <2>2. op = None
    BY DEF RaftInit
  <2> QED
    BY <2>1, <2>2 DEF CountIsReal, ReturnIsReal
<1>2. Inv /\ [RaftNext]_raftVars => Inv'
  <2> SUFFICES ASSUME Inv, [RaftNext]_raftVars PROVE CountIsReal' /\ ReturnIsReal'
    BY TypesKept
  <2>1. CASE UNCHANGED <<readers, raft, op>>
    BY <2>1 DEF readers, CountIsReal, ReturnIsReal
  <2>2. CASE \E i \in Server : start1(i)
    BY <2>2 DEF start1, test, CountIsReal, ReturnIsReal
  <2>3. CASE \E i \in Server, k \in 1 .. MaxInstances, n \in Index, v \in Command : Deliver(i, k, n, v)
    BY <2>3, DeliverReal
  <2>4. CASE Begins \/ StartCommand
    <3>1. \/ op' = None
          \/ op'.pc \in {"start", "GetState"}
          \/ op'.pc = "nCommitted" /\ op'.count = 0
      BY Zenon, <2>4, BeginsStep, StartCommandStep DEF Types
    <3> QED
      BY <3>1 DEF CountIsReal, ReturnIsReal
  <2>5. CASE nCommitted
    BY <2>5, CountReal
  <2>6. CASE OneCounted \/ WaitCounted
    BY <2>6, CountedReal
  <2>7. CASE GetState \/ LeadersCounted
    <3>1. op' = None \/ op' \in Leaders
      BY Zenon, <2>7, LeadersStep DEF Types
    <3>2. op' \in Leaders => op'.pc # "nCommitted" /\ op' \notin Commit
      BY Zenon DEF Commit, Leaders
    <3> QED
      BY <3>1, <3>2 DEF CountIsReal, ReturnIsReal
  <2>8. CASE op' = None
    BY <2>8 DEF CountIsReal, ReturnIsReal
  <2> QED
    BY Zenon, <2>1, <2>2, <2>3, <2>4, <2>5, <2>6, <2>7, <2>8, Steps
<1>3. Inv => AgreementIsReal
  <2> SUFFICES ASSUME Inv, op # None, op.name \in {"one", "wait"}, op.pc = "returned", apply_error = {}
               PROVE  Cardinality({i \in Server : logs[i][op.index] = op.cmd}) >= op.n
    BY DEF AgreementIsReal
  <2>1. op \in Commit
    BY DEF Types, OpType, Leaders
  <2>2. op.n <= Cardinality(Have(logs, N, op.index, op.cmd)) /\ op.n \in 1 .. N
    BY Zenon, <2>1 DEF ReturnIsReal, Commit
  <2>3. Have(logs, N, op.index, op.cmd) = {i \in Server : logs[i][op.index] = op.cmd}
    BY NetAssumption DEF Have, Server
  <2>4. Cardinality(Have(logs, N, op.index, op.cmd)) \in Nat
    <3>1. Have(logs, N, op.index, op.cmd) \in SUBSET Server
      BY DEF Have
    <3> QED
      BY <3>1, ServerSets
  <2>5. Cardinality(Have(logs, N, op.index, op.cmd)) >= op.n
    BY <2>2, <2>4, NetAssumption
  <2> QED
    BY <2>3, <2>5
<1> QED
  BY <1>1, <1>2, <1>3, PTL DEF RaftSpec

=============================================================================
