----------------------------- MODULE ServerLocks -----------------------------
(***************************************************************************)
(* The goroutines of one key/value server and of its Raft peer, and what   *)
(* they wait for: rf.mu, kv.mu, the mutexes that a pass of checkElection   *)
(* and a round of sendHeartbeat make, and the channel applyCh, which has   *)
(* no buffer and on which Raft sends while it holds rf.mu.                 *)
(*                                                                         *)
(* What the goroutines compute under their locks is in Raft and KVRaft;    *)
(* here only the length of the log, commitIndex and the two lastApplied    *)
(* are left, and every decision they take is open.                         *)
(*                                                                         *)
(* A definition whose name ends in _Bug is the one after it with a mistake *)
(* in it, used only to show which mistake a property rules out.            *)
(***************************************************************************)
EXTENDS Integers

CONSTANTS
  Peer,           \* the other servers
  Me,
  MaxElections,   \* bound: elections
  MaxRounds,      \* bound: rounds of heartbeats
  MaxRequests,    \* bound: RequestVote and AppendEntries calls from other servers
  MaxCommands,    \* bound: Get and PutAppend calls of clerks
  MaxIndex        \* bound: length of the log

ASSUME LocksAssumption ==
  /\ Me \notin Peer
  /\ \A b \in {MaxElections, MaxRounds, MaxRequests, MaxCommands, MaxIndex} : b \in Nat

Thread(name, k, p) == <<name, k, p>>
Nobody == Thread("nobody", 0, Me)
electionLoop == Thread("checkElection", 0, Me)
heartbeatLoop == Thread("sendHeartbeat", 0, Me)
applyLoop == Thread("checkApply", 0, Me)
kvLoop == Thread("kv.checkApply", 0, Me)
VoteGoroutine == {Thread("vote", k, p) : k \in 1 .. MaxElections, p \in Peer}
AppendGoroutine == {Thread("append", r, p) : r \in 1 .. MaxRounds, p \in Peer}
Request == {Thread("request", n, Me) : n \in 1 .. MaxRequests}
Command == {Thread("command", n, Me) : n \in 1 .. MaxCommands}
Threads == {electionLoop, heartbeatLoop, applyLoop, kvLoop}
             \cup VoteGoroutine \cup AppendGoroutine \cup Request \cup Command

\* A mutex has a name and the number of the pass or round that made it.
rf_mu == <<"rf.mu", 0>>
kv_mu == <<"kv.mu", 0>>
Mutex == {rf_mu, kv_mu} \cup {<<"mu", k>> : k \in 1 .. MaxElections + 1}
                        \cup {<<"round", r>> : r \in 1 .. MaxRounds}

VARIABLES
  holder,         \* by mutex
  pc,             \* by goroutine: "none" before it starts, "end" after it has returned
  elections, rounds,            \* how many there have been
  logLen, commitIndex, lastApplied,
  kvApplied,      \* kv.lastApplied
  index,          \* of a command: what Start gave it
  dead            \* Kill has been called

data == <<elections, rounds, logLen, commitIndex, lastApplied, kvApplied, index, dead>>
vars == <<holder, pc, data>>

\* The server has just been started.
Init ==
  /\ holder = [l \in Mutex |-> Nobody]
  /\ pc = [t \in Threads |->
       IF t \in {electionLoop, heartbeatLoop, applyLoop, kvLoop} THEN "loop" ELSE "none"]
  /\ elections = 0 /\ rounds = 0
  /\ logLen = 0 /\ commitIndex = 0 /\ lastApplied = 0 /\ kvApplied = 0
  /\ index = [t \in Command |-> 0]
  /\ dead = FALSE

-----------------------------------------------------------------------------
(* Mutexes *)

Goto(t, place) == pc' = [pc EXCEPT ![t] = place]

Lock(t, l, place) ==
  /\ holder[l] = Nobody
  /\ holder' = [holder EXCEPT ![l] = t]
  /\ Goto(t, place)
  /\ UNCHANGED data

\* t unlocks the mutexes it holds.
UnlockAll(t) == holder' = [l \in Mutex |-> IF holder[l] = t THEN Nobody ELSE holder[l]]

\* t leaves its critical section, which changes nothing that is modelled.
Leave(t, place) == UnlockAll(t) /\ Goto(t, place) /\ UNCHANGED data

\* for !rf.killed() { rf.mu.Lock() ...
LoopHead(t, place) ==
  /\ pc[t] = "loop"
  /\ IF dead THEN Goto(t, "end") /\ UNCHANGED <<holder, data>> ELSE Lock(t, rf_mu, place)

-----------------------------------------------------------------------------
(* checkElection *)

\* The mutex of the k-th election is made by the pass that starts it, "mu :=
\* sync.Mutex{}" inside the loop; or once before the loop, as the line that is
\* commented out has it.
muOf_Bug(k) == <<"mu", 1>>
muOf(k) == <<"mu", k>>

\* A pass locks rf.mu, then mu; both are free again when the goroutines start.
StartElection ==
  /\ elections < MaxElections
  /\ elections' = elections + 1
  /\ UnlockAll(electionLoop)
  /\ pc' = [t \in Threads |-> IF t = electionLoop THEN "loop"
                              ELSE IF t \in VoteGoroutine /\ t[2] = elections + 1 THEN "begin"
                              ELSE pc[t]]
  /\ UNCHANGED <<rounds, logLen, commitIndex, lastApplied, kvApplied, index, dead>>

checkElection ==
  LET t == electionLoop IN
  \/ LoopHead(t, "locked")
  \/ pc[t] = "locked" /\ Lock(t, muOf(elections + 1), "both")
  \/ pc[t] = "both" /\ (StartElection \/ Leave(t, "loop"))

\* Its goroutines: the arguments under rf.mu, the call, and for an answer that
\* counts first mu and then rf.mu, in the other order than the loop.
VoteStep(t) ==
  \/ pc[t] = "begin" /\ Lock(t, rf_mu, "args")
  \/ pc[t] = "args" /\ Leave(t, "calling")
  \/ /\ pc[t] = "calling"
     /\ \E place \in {"failed", "answered"} : Goto(t, place)
     /\ UNCHANGED <<holder, data>>
  \/ pc[t] = "failed" /\ Lock(t, rf_mu, "last")    \* no answer, or one of an older term
  \/ pc[t] = "answered" /\ Lock(t, muOf(t[2]), "mu")
  \/ pc[t] = "mu" /\ Lock(t, rf_mu, "last")
  \/ pc[t] = "last" /\ Leave(t, "end")

-----------------------------------------------------------------------------
(* sendHeartbeat *)

StartRound ==
  /\ rounds < MaxRounds
  /\ rounds' = rounds + 1
  /\ UnlockAll(heartbeatLoop)
  /\ pc' = [t \in Threads |-> IF t = heartbeatLoop THEN "loop"
                              ELSE IF t \in AppendGoroutine /\ t[2] = rounds + 1 THEN "loop"
                              ELSE pc[t]]
  /\ UNCHANGED <<elections, logLen, commitIndex, lastApplied, kvApplied, index, dead>>

sendHeartbeat ==
  LET t == heartbeatLoop IN
  \/ LoopHead(t, "locked")
  \/ pc[t] = "locked" /\ (StartRound \/ Leave(t, "loop"))

\* The entries of a round are replicated on a majority.
AdvanceCommit(t) ==
  /\ UnlockAll(t) /\ Goto(t, "end")
  /\ commitIndex' \in {commitIndex, logLen}
  /\ UNCHANGED <<elections, rounds, logLen, lastApplied, kvApplied, index, dead>>

\* Its goroutines: a successful answer is counted under rf.mu and the mutex of
\* the round.
AppendStep(t) ==
  \/ LoopHead(t, "args")
  \/ pc[t] = "args" /\ (Leave(t, "calling") \/ Leave(t, "end"))
  \/ pc[t] = "calling" /\ Lock(t, rf_mu, "answered")
  \/ /\ pc[t] = "answered"
     /\ Leave(t, "end") \/ Leave(t, "loop") \/ Lock(t, <<"round", t[2]>>, "count")
  \/ pc[t] = "count" /\ AdvanceCommit(t)

-----------------------------------------------------------------------------
(* RequestVote and AppendEntries, called by other servers *)

Arrive(t) ==
  /\ pc[t] = "none" /\ t \in Request \cup Command
  /\ Goto(t, "begin")
  /\ UNCHANGED <<holder, data>>

\* The log may have grown or lost its end, commitIndex may have grown.
Handle(t) ==
  /\ UnlockAll(t) /\ Goto(t, "end")
  /\ \E n \in commitIndex .. MaxIndex :
       logLen' = n /\ \E c \in commitIndex .. n : commitIndex' = c
  /\ UNCHANGED <<elections, rounds, lastApplied, kvApplied, index, dead>>

RequestStep(t) ==
  \/ pc[t] = "begin" /\ Lock(t, rf_mu, "locked")
  \/ pc[t] = "locked" /\ Handle(t)

-----------------------------------------------------------------------------
(* Get and PutAppend, called by clerks *)

Start(t) ==
  /\ UnlockAll(t)
  /\ \/ Goto(t, "end") /\ UNCHANGED data              \* not the leader
     \/ /\ logLen < MaxIndex
        /\ logLen' = logLen + 1
        /\ index' = [index EXCEPT ![t] = logLen + 1]
        /\ Goto(t, "poll")
        /\ UNCHANGED <<elections, rounds, commitIndex, lastApplied, kvApplied, dead>>

\* Every 50 ms: has the index been applied?
Applied_Bug(t) == kvApplied > index[t]
Applied(t) == kvApplied >= index[t]

\* Start is called with no lock held.
CommandStep(t) ==
  \/ pc[t] = "begin" /\ Lock(t, rf_mu, "start")
  \/ pc[t] = "start" /\ Start(t)
  \/ pc[t] = "poll" /\ Lock(t, kv_mu, "look")
  \/ pc[t] = "look" /\ Leave(t, IF Applied(t) THEN "end" ELSE "poll")

-----------------------------------------------------------------------------
(* The two checkApply, and applyCh between them *)

\* Raft's: it holds rf.mu until all that is committed has been received.
checkApply ==
  LET t == applyLoop IN
  \/ LoopHead(t, "locked")
  \/ /\ pc[t] = "locked" /\ lastApplied < commitIndex
     /\ lastApplied' = lastApplied + 1
     /\ Goto(t, "send")
     /\ UNCHANGED <<holder, elections, rounds, logLen, commitIndex, kvApplied, index, dead>>
  \/ pc[t] = "locked" /\ lastApplied >= commitIndex /\ Leave(t, "loop")

\* A message goes over when both sides are there.
applyCh ==
  /\ pc[applyLoop] = "send" /\ pc[kvLoop] = "loop"
  /\ pc' = [pc EXCEPT ![applyLoop] = "locked", ![kvLoop] = "received"]
  /\ UNCHANGED <<holder, data>>

\* The server's: it never looks at killed().
kv_checkApply ==
  LET t == kvLoop IN
  \/ pc[t] = "received" /\ Lock(t, kv_mu, "locked")
  \/ /\ pc[t] = "locked"
     /\ kvApplied' = kvApplied + 1
     /\ UnlockAll(t) /\ Goto(t, "loop")
     /\ UNCHANGED <<elections, rounds, logLen, commitIndex, lastApplied, index, dead>>

Kill ==
  /\ ~dead
  /\ dead' = TRUE
  /\ UNCHANGED <<holder, pc, elections, rounds, logLen, commitIndex, lastApplied, kvApplied, index>>

-----------------------------------------------------------------------------

Next ==
  \/ checkElection \/ sendHeartbeat \/ checkApply \/ applyCh \/ kv_checkApply \/ Kill
  \/ \E t \in VoteGoroutine : VoteStep(t)
  \/ \E t \in AppendGoroutine : AppendStep(t)
  \/ \E t \in Request : Arrive(t) \/ RequestStep(t)
  \/ \E t \in Command : Arrive(t) \/ CommandStep(t)

\* Every goroutine that can go on does.  A mutex of Go is handed to the one that
\* has waited longest once it has waited for a millisecond, so none waits for
\* ever while the mutex is free again and again; this is only needed of those
\* that a command passes through.
Spec ==
  /\ Init /\ [][Next]_vars
  /\ WF_vars(checkElection) /\ WF_vars(sendHeartbeat) /\ WF_vars(applyCh)
  /\ SF_vars(checkApply) /\ SF_vars(kv_checkApply)
  /\ \A t \in VoteGoroutine : WF_vars(VoteStep(t))
  /\ \A t \in AppendGoroutine : WF_vars(AppendStep(t))
  /\ \A t \in Request : WF_vars(RequestStep(t))
  /\ \A t \in Command : SF_vars(CommandStep(t))

-----------------------------------------------------------------------------
(* Properties *)

Holds(t) == \E l \in Mutex : holder[l] = t

\* Among the goroutines that hold a mutex, and the one that receives from
\* applyCh, there is always one that can go on: they never wait for each other,
\* in whatever order rf.mu and mu are locked, and although checkApply sends with
\* rf.mu held.
NoDeadlock ==
  (\E t \in Threads : Holds(t)) =>
    \/ Holds(electionLoop) /\ ENABLED checkElection
    \/ Holds(heartbeatLoop) /\ ENABLED sendHeartbeat
    \/ Holds(applyLoop) /\ ENABLED (checkApply \/ applyCh)
    \/ ENABLED kv_checkApply
    \/ \E t \in VoteGoroutine : Holds(t) /\ ENABLED VoteStep(t)
    \/ \E t \in AppendGoroutine : Holds(t) /\ ENABLED AppendStep(t)
    \/ \E t \in Request : Holds(t) /\ ENABLED RequestStep(t)
    \/ \E t \in Command : Holds(t) /\ ENABLED CommandStep(t)

\* What is committed reaches the key/value server, and the Get or PutAppend that
\* polls for its index returns; only a kill may stop this.
CommandsReturn ==
  \A t \in Command :
    (pc[t] = "poll" /\ index[t] <= commitIndex) ~> (pc[t] = "end" \/ dead)

=============================================================================
