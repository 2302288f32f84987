------------------------------- MODULE KVRaft -------------------------------
(***************************************************************************)
(* The key/value service: its clerks (kvraft/client.go) and its servers    *)
(* (kvraft/server.go) on top of what Raft offers them.  Of Raft only the   *)
(* interface is here: Start gives an index, and applyCh delivers, at every *)
(* server and in order, one sequence in which an index holds some command  *)
(* that was started at that index (ReplicatedLog).  Whether a server takes *)
(* itself for the leader is left open, as is what it starts and loses.     *)
(*                                                                         *)
(* A call of a clerk runs several goroutines, a new one every half second, *)
(* that try the servers in turn; some outlive the call.  A string is the   *)
(* sequence of the pieces it was appended from.                            *)
(*                                                                         *)
(* A definition whose name ends in _Bug is the one after it with a mistake *)
(* in it, used only to show which mistake a property rules out.            *)
(***************************************************************************)
EXTENDS Integers, Sequences, FiniteSets

CONSTANTS
  Clerk,
  Key,
  Type,        \* bound: which of Get, Put and Append the clerks call
  N,           \* len(ck.servers)
  NoOp,
  MaxCalls,    \* bound: calls of a clerk
  MaxTries,    \* bound: goroutines of a call
  MaxIndex,    \* bound: length of the log
  MaxRestarts  \* bound: restarts of servers

Server == 0 .. N - 1
Text == {<<>>} \cup {<<<<c, n>>>> : c \in Clerk, n \in 0 .. MaxCalls - 1}
Op == [CommandType : Type, CommandKey : Key, CommandValue : Text,
       ClerkId : Clerk, CommandId : 0 .. MaxCalls - 1]

ASSUME KVAssumption ==
  /\ Type \subseteq {"Get", "Put", "Append"}
  /\ N \in Nat \ {0} /\ MaxCalls \in Nat /\ MaxTries \in Nat /\ MaxIndex \in Nat
  /\ MaxRestarts \in Nat /\ NoOp \notin Op

VARIABLES
  \* Raft, as the servers see it
  pending,     \* <<index, op>>: started by a server that took itself for the leader
  chosen,      \* what applyCh has delivered somewhere
  \* the servers
  kv, log, lastApplied, clerkLatestCmd,
  \* the clerks
  comandId, preLeaderId,
  call,        \* the op of the call that is running, NoOp between calls
  done, value, j,   \* the variables of the call
  tries,       \* how many goroutines it has started
  calls,       \* the goroutines: [op, n, i, pc, index, answer]
  late,        \* requests that arrive after Call has returned false
  result,      \* what the last call returned
  restarts

raft == <<pending, chosen>>
servers == <<kv, log, lastApplied, clerkLatestCmd>>
clerks == <<comandId, preLeaderId, call, done, value, j, tries, result>>
vars == <<raft, servers, clerks, calls, late, restarts>>

\* StartKVServer.
Fresh(s) ==
  /\ kv' = [kv EXCEPT ![s] = [k \in Key |-> <<>>]]
  /\ log' = [log EXCEPT ![s] = <<>>]
  /\ lastApplied' = [lastApplied EXCEPT ![s] = 0]
  /\ clerkLatestCmd' = [clerkLatestCmd EXCEPT ![s] = [c \in Clerk |-> -1]]

Init ==
  /\ pending = {} /\ chosen = <<>>
  /\ kv = [s \in Server |-> [k \in Key |-> <<>>]]
  /\ log = [s \in Server |-> <<>>]
  /\ lastApplied = [s \in Server |-> 0]
  /\ clerkLatestCmd = [s \in Server |-> [c \in Clerk |-> -1]]
  /\ comandId = [c \in Clerk |-> 0]
  /\ preLeaderId = [c \in Clerk |-> 0]
  /\ call = [c \in Clerk |-> NoOp]
  /\ done = [c \in Clerk |-> FALSE]
  /\ value = [c \in Clerk |-> <<>>]
  /\ j = [c \in Clerk |-> 0]
  /\ tries = [c \in Clerk |-> 0]
  /\ calls = {} /\ late = {}
  /\ result = [c \in Clerk |-> <<>>]
  /\ restarts = 0

-----------------------------------------------------------------------------
(* The clerk *)

\* Get, Put or Append is called; its arguments carry comandId.
Invoke(c, type, key) ==
  /\ call[c] = NoOp /\ comandId[c] < MaxCalls
  /\ call' = [call EXCEPT ![c] =
       [CommandType |-> type, CommandKey |-> key, ClerkId |-> c, CommandId |-> comandId[c],
        CommandValue |-> IF type = "Get" THEN <<>> ELSE <<<<c, comandId[c]>>>>]]
  /\ j' = [j EXCEPT ![c] = preLeaderId[c]]
  /\ done' = [done EXCEPT ![c] = FALSE]
  /\ value' = [value EXCEPT ![c] = <<>>]
  /\ tries' = [tries EXCEPT ![c] = 0]
  /\ UNCHANGED <<raft, servers, comandId, preLeaderId, calls, late, result, restarts>>

Replace(g, new) == calls' = (calls \ {g}) \cup {new}

\* The loop of the call, every half second while it is not done.
StartGoroutine(c) ==
  /\ call[c] # NoOp /\ ~done[c] /\ tries[c] < MaxTries
  /\ tries' = [tries EXCEPT ![c] = @ + 1]
  /\ calls' = calls \cup {[op |-> call[c], n |-> tries[c], i |-> 0, pc |-> "start",
                           index |-> 0, answer |-> <<>>]}
  /\ UNCHANGED <<raft, servers, comandId, preLeaderId, call, done, value, j, late, result, restarts>>

\* The goroutine gets to run and reads *j, without the lock; when its call is
\* over by then, that is the server of an earlier time.
ReadServer(g, i) ==
  /\ g.pc = "start"
  /\ g.op = call[g.op.ClerkId] => i = j[g.op.ClerkId]
  /\ Replace(g, [g EXCEPT !.pc = "call", !.i = i])
  /\ UNCHANGED <<raft, servers, clerks, late, restarts>>

\* The goroutine's done: that of its own call, which may be over.
IsDone(g) ==
  LET c == g.op.ClerkId IN g.op # call[c] \/ done[c]

\* i = (i + 1) % len(ck.servers), and without the modulo.
NextServer_Bug(i) == i + 1
NextServer(i) == (i + 1) % N

\* Call returned without an answer that helps: leave if the call is done, else
\* try the next server.
TryNext(g) ==
  IF IsDone(g) THEN calls' = calls \ {g}
  ELSE Replace(g, [g EXCEPT !.pc = "call", !.i = NextServer(g.i), !.index = 0])

\* Call returned OK: leave if the call is done, else go on to finish it.
CallReturns(g) ==
  /\ g.pc = "returned"
  /\ IF IsDone(g) THEN calls' = calls \ {g} ELSE Replace(g, [g EXCEPT !.pc = "finish"])
  /\ UNCHANGED <<raft, servers, clerks, late, restarts>>

\* The second critical section of a goroutine: another one may have finished
\* the call since the first, and the call may even have returned.
Finish(g) ==
  /\ g.pc = "finish"
  /\ calls' = calls \ {g}
  /\ LET c == g.op.ClerkId IN
     IF g.op = call[c]
       THEN /\ value' = [value EXCEPT ![c] = g.answer]
            /\ j' = [j EXCEPT ![c] = g.i]
            /\ done' = [done EXCEPT ![c] = TRUE]
       ELSE UNCHANGED <<value, j, done>>
  /\ UNCHANGED <<raft, servers, comandId, preLeaderId, call, tries, late, result, restarts>>

\* comandId++
NextComandId(n) == n + 1

\* The call is done and returns.
Return(c) ==
  /\ call[c] # NoOp /\ done[c]
  /\ preLeaderId' = [preLeaderId EXCEPT ![c] = j[c]]
  /\ comandId' = [comandId EXCEPT ![c] = NextComandId(@)]
  /\ result' = [result EXCEPT ![c] = value[c]]
  /\ call' = [call EXCEPT ![c] = NoOp]
  /\ UNCHANGED <<raft, servers, done, value, j, tries, calls, late, restarts>>

-----------------------------------------------------------------------------
(* The handlers Get and PutAppend *)

\* An index that Start may give at server s: behind all it has applied, and next
\* to one that was given before.
Indexes(s) ==
  {n \in (lastApplied[s] + 1) .. MaxIndex : n <= Len(chosen) + 1 \/ \E e \in pending : e[1] = n - 1}

\* Raft may come to choose the op for the index, unless it has chosen another.
Started(index, op) ==
  pending' = IF index <= Len(chosen) THEN pending ELSE pending \cup {<<index, op>>}

\* The server is not the leader.
WrongLeader(g) ==
  /\ g.pc = "call"
  /\ TryNext(g)
  /\ UNCHANGED <<raft, servers, clerks, late, restarts>>

\* The server takes itself for the leader; the handler waits for the index.
Accept(g, index) ==
  /\ g.pc = "call"
  /\ Started(index, g.op)
  /\ Replace(g, [g EXCEPT !.pc = "wait", !.index = index])
  /\ UNCHANGED <<chosen, servers, clerks, late, restarts>>

\* Two ops are the same request of a clerk; or of any clerk.
equals_Bug(a, b) == a.CommandId = b.CommandId
equals(a, b) == a.ClerkId = b.ClerkId /\ a.CommandId = b.CommandId

\* The answer to a Get that was applied before: what the first one found; or
\* what the duplicate itself holds.
FirstAnswer_Bug(l, e) == e.CommandValue
FirstAnswer(l, e) ==
  l[CHOOSE n \in 1 .. Len(l) : equals(l[n], e) /\ \A m \in 1 .. n - 1 : ~equals(l[m], e)].CommandValue

\* lastApplied has reached the index: is it this op that the log holds there?
Reply(g) ==
  /\ g.pc = "wait" /\ lastApplied[g.i] >= g.index
  /\ LET e == log[g.i][g.index] IN
     IF ~equals(g.op, e) THEN TryNext(g)   \* ErrWrongLeader
     ELSE Replace(g, [g EXCEPT !.pc = "returned", !.index = 0, !.answer =
            IF g.op.CommandType # "Get" THEN <<>>
            ELSE IF e.IsDup THEN FirstAnswer(log[g.i], e) ELSE e.CommandValue])
  /\ UNCHANGED <<raft, servers, clerks, late, restarts>>

\* Call returns false: the request was dropped or is late, or its answer was lost.
CallFails(g) ==
  /\ g.pc \in {"call", "wait", "lost"}
  /\ TryNext(g)
  /\ late' = IF g.pc = "call" THEN late \cup {<<g.i, g.op>>} ELSE late
  /\ UNCHANGED <<raft, servers, clerks, restarts>>

\* A late request is started; nobody waits for the answer.
LateRequest(m, index) ==
  /\ late' = late \ {m}
  /\ Started(index, m[2])
  /\ UNCHANGED <<chosen, servers, clerks, calls, restarts>>

-----------------------------------------------------------------------------
(* The server *)

\* A request is a duplicate if its clerk has got that far; or only if it is the
\* clerk's latest.
Dup_Bug(s, op) == clerkLatestCmd[s][op.ClerkId] = op.CommandId
Dup(s, op) == clerkLatestCmd[s][op.ClerkId] >= op.CommandId

\* checkApply, for one message.
checkApply(s, op) ==
  LET dup == Dup(s, op)
      held == kv[s][op.CommandKey]
  IN
  /\ clerkLatestCmd' =
       IF dup THEN clerkLatestCmd ELSE [clerkLatestCmd EXCEPT ![s][op.ClerkId] = op.CommandId]
  /\ log' = [log EXCEPT ![s] = Append(@,
       [ClerkId |-> op.ClerkId, CommandId |-> op.CommandId, IsDup |-> dup,
        CommandValue |-> IF op.CommandType = "Get" /\ ~dup THEN held ELSE op.CommandValue])]
  /\ kv' = IF dup \/ op.CommandType = "Get" THEN kv
           ELSE [kv EXCEPT ![s][op.CommandKey] =
                   IF op.CommandType = "Put" THEN op.CommandValue ELSE @ \o op.CommandValue]
  /\ lastApplied' = [lastApplied EXCEPT ![s] = @ + 1]

\* applyCh delivers the next command, which other servers may have seen.
Deliver(s) ==
  LET n == lastApplied[s] + 1 IN
  /\ IF n <= Len(chosen)
       THEN UNCHANGED raft /\ checkApply(s, chosen[n])
       ELSE \E e \in pending : /\ e[1] = n
                               /\ chosen' = Append(chosen, e[2])
                               /\ pending' = {f \in pending : f[1] > n}
                               /\ checkApply(s, e[2])
  /\ UNCHANGED <<clerks, calls, late, restarts>>

\* A server is killed and started again; nobody answers the calls that wait there.
Restart(s) ==
  /\ restarts < MaxRestarts
  /\ restarts' = restarts + 1
  /\ Fresh(s)
  /\ calls' = {IF g.pc = "wait" /\ g.i = s THEN [g EXCEPT !.pc = "lost", !.index = 0] ELSE g :
                g \in calls}
  /\ UNCHANGED <<raft, clerks, late>>

Next ==
  \/ \E c \in Clerk : \/ \E type \in Type, key \in Key : Invoke(c, type, key)
                      \/ StartGoroutine(c) \/ Return(c)
  \/ \E g \in calls : \/ \E i \in Server : ReadServer(g, i)
                      \/ WrongLeader(g) \/ \E index \in Indexes(g.i) : Accept(g, index)
                      \/ Reply(g) \/ CallFails(g) \/ CallReturns(g) \/ Finish(g)
  \/ \E m \in late : \E index \in Indexes(m[1]) : LateRequest(m, index)
  \/ \E s \in Server : Deliver(s) \/ Restart(s)

Spec == Init /\ [][Next]_vars

-----------------------------------------------------------------------------
(* Properties *)

\* Every variable has its type; in particular clerks only call servers there
\* are, and a server's log and lastApplied go together (checkApply).
TypeOK ==
  /\ pending \subseteq (1 .. MaxIndex) \X Op
  /\ chosen \in Seq(Op)
  /\ \A s \in Server : lastApplied[s] = Len(log[s]) /\ lastApplied[s] <= Len(chosen)
  /\ \A s \in Server, c \in Clerk : clerkLatestCmd[s][c] \in -1 .. MaxCalls - 1
  /\ comandId \in [Clerk -> 0 .. MaxCalls]
  /\ preLeaderId \in [Clerk -> Server] /\ j \in [Clerk -> Server]
  /\ call \in [Clerk -> Op \cup {NoOp}]
  /\ done \in [Clerk -> BOOLEAN]
  /\ tries \in [Clerk -> 0 .. MaxTries]
  /\ \A g \in calls : /\ g.op \in Op /\ g.i \in Server /\ g.index \in 0 .. MaxIndex
                      /\ g.pc \in {"start", "call", "wait", "lost", "returned", "finish"}
  /\ late \subseteq Server \X Op
  /\ restarts \in 0 .. MaxRestarts

\* The reference: a request takes effect where it stands first in the sequence l.
SameRequest(a, b) == a.ClerkId = b.ClerkId /\ a.CommandId = b.CommandId
First(l, n) == \A m \in 1 .. n - 1 : ~SameRequest(l[m], l[n])
After(l, n, k, v) ==
  IF l[n].CommandKey # k \/ l[n].CommandType = "Get" \/ ~First(l, n) THEN v
  ELSE IF l[n].CommandType = "Put" THEN l[n].CommandValue
  ELSE v \o l[n].CommandValue
Content(l, k) ==
  LET after[n \in 0 .. Len(l)] == IF n = 0 THEN <<>> ELSE After(l, n, k, after[n - 1]) IN after

\* Every server holds what the commands it has applied amount to when each
\* request counts once, at its first place; comparing CommandId with the latest
\* one of the clerk (checkApply) does recognise exactly the repetitions.
ExactlyOnce ==
  \A s \in Server, k \in Key : kv[s][k] = Content(chosen, k)[lastApplied[s]]

\* A request that the clerk has given up waiting for is never answered with the
\* result of another one, and all goroutines that get an answer get the same.
AnswersAgree ==
  \A g, h \in calls :
    {g.pc, h.pc} \subseteq {"returned", "finish"} /\ g.op = h.op => g.answer = h.answer

\* Towards the clerks the service is one atomic store: a call takes effect when
\* its request is delivered for the first time anywhere.
At(l, o) == {n \in 1 .. Len(l) : SameRequest(l[n], o)}
Effect(l, o) ==
  IF At(l, o) = {} THEN <<>>
  ELSE LET n == CHOOSE n \in At(l, o) : First(l, n)
       IN <<IF o.CommandType = "Get" THEN Content(l, o.CommandKey)[n - 1] ELSE <<>> >>
Store == [k \in Key |-> Content(chosen, k)[Len(chosen)]]
Effects == [c \in Clerk |-> IF call[c] = NoOp THEN <<>> ELSE Effect(chosen, call[c])]
Atomic == INSTANCE AtomicKV WITH store <- Store, effect <- Effects

\* The service is linearizable: retries, duplicated and late requests, leaders
\* that lose what they started, and restarts are invisible to the clerks.
Linearizable == Atomic!Spec

=============================================================================
