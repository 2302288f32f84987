-------------------------------- MODULE Raft --------------------------------
(***************************************************************************)
(* The Raft peer of src/raft/raft.go: elections, log replication, commit,  *)
(* apply, persistence and crash/restart, over the RPC service of labrpc.   *)
(*                                                                         *)
(* Every action is one critical section of rf.mu.  The goroutines that     *)
(* checkElection and sendHeartbeat spawn are records of voteCalls and      *)
(* appendCalls whose pc says where the goroutine stands:                   *)
(*   "ready"    before the critical section that builds the RPC arguments, *)
(*   "sent"     inside Call(), the handler has not run,                    *)
(*   "replied"  inside Call(), the handler has run, the reply is under way.*)
(* A goroutine that returns leaves its set.                                *)
(*                                                                         *)
(* Index i of the Go slice rf.log is index i of the sequence log[s]; the   *)
(* sentinel that Make puts at index 0 (Term 0) is left implicit, so        *)
(* len(rf.log) - 1 is Len(log[s]).                                         *)
(*                                                                         *)
(* A definition whose name ends in _Bug is the one after it with a mistake *)
(* in it.  Nothing uses it: it shows which mistake a property rules out.   *)
(***************************************************************************)
EXTENDS Integers, Sequences, FiniteSets

CONSTANTS
  Server,            \* rf.peers
  Command,           \* what the service may pass to Start
  NoVote,            \* the -1 of votedFor
  LateVoteRequests,  \* may a vote goroutine still wait for rf.mu when the
                     \* next election timeout (300 ms or more) fires?
  MaxTerm, MaxElections, MaxLog, MaxRounds, MaxFails, MaxRestarts  \* bounds

ASSUME RaftAssumption ==
  /\ IsFiniteSet(Server)
  /\ NoVote \notin Server
  /\ LateVoteRequests \in BOOLEAN
  /\ {MaxTerm, MaxElections, MaxLog, MaxRounds, MaxFails, MaxRestarts} \subseteq Nat

LEADER == 0
FOLLOWER == 1
CANDIDATE == 2
\* The value -1 that line 534 stores in rf.state.
GAVE_UP == -1

VARIABLES
  state, currentTerm, votedFor, log,             \* persistent fields of a peer
  commitIndex, lastApplied, nextIndex, matchIndex,       \* volatile fields
  saved,        \* the Persister of each server
  voteCalls,    \* goroutines of checkElection
  granted,      \* <<s, e, p>>: p is counted in grantedCnt of s's election e
  rounds,       \* the variables shared by the goroutines of each running heartbeat
  appendCalls,  \* goroutines of sendHeartbeat
  lateVotes, lateAppends,  \* requests under way whose caller no longer waits
  applied,      \* every <<index, command>> sent on any applyCh so far
  fails, restarts          \* how many failed calls and restarts so far

durable == <<state, currentTerm, votedFor, log>>
volatile == <<commitIndex, lastApplied, nextIndex, matchIndex>>
elections == <<voteCalls, granted, lateVotes>>
replication == <<rounds, appendCalls, lateAppends>>
vars == <<durable, volatile, saved, elections, replication, applied, fails, restarts>>

LogEntry == [Command : Command, Term : Nat]
Persistent == [state : {LEADER, FOLLOWER, CANDIDATE, GAVE_UP}, currentTerm : Nat,
               votedFor : Server \cup {NoVote}, log : Seq(LogEntry)]

RequestVoteArgs == [Term : Nat, CandidateId : Server, LastLogIndex : Nat, LastLogTerm : Nat]
RequestVoteReply == [Term : Nat, VoteGranted : BOOLEAN]
VoteCall == [cand : Server, election : Nat, peer : Server, pc : {"ready", "sent", "replied"},
             args : RequestVoteArgs, reply : RequestVoteReply]

AppendEntriesArgs == [Term : Nat, PrevLogIndex : Nat, PrevLogTerm : Nat,
                      Entries : Seq(LogEntry), LeaderCommit : Nat]
AppendEntriesReply == [Term : Nat, Success : BOOLEAN, XLen : Nat \cup {-1},
                       XTerm : Nat, XIndex : Nat]
AppendCall == [round : Server \X Nat, peer : Server, pc : {"ready", "sent", "replied"},
               args : AppendEntriesArgs, reply : AppendEntriesReply]
Round == [leader : Server, currentTerm : Nat, currentLogLen : Nat, changeCommit : BOOLEAN,
          currentCommitIndex : Nat, replicated : SUBSET Server]

\* The zero values Go gives to argument and reply structs.
NoVoteArgs(s) == [Term |-> 0, CandidateId |-> s, LastLogIndex |-> 0, LastLogTerm |-> 0]
NoVoteReply == [Term |-> 0, VoteGranted |-> FALSE]
NoAppendArgs == [Term |-> 0, PrevLogIndex |-> 0, PrevLogTerm |-> 0, Entries |-> <<>>, LeaderCommit |-> 0]
AppendReply(t, success, xLen, xTerm, xIndex) ==
  [Term |-> t, Success |-> success, XLen |-> xLen, XTerm |-> xTerm, XIndex |-> xIndex]
NoAppendReply == AppendReply(0, FALSE, 0, 0, 0)

-----------------------------------------------------------------------------
TermAt(l, i) == IF i = 0 THEN 0 ELSE l[i].Term
LastTerm(l) == TermAt(l, Len(l))
Majority_Bug(n) == 2 * (n + 1) > Cardinality(Server)   \* counts itself twice
Majority(n) == 2 * n > Cardinality(Server)
Smaller(x, y) == IF x > y THEN y ELSE x

\* The vote is not saved; the log is not saved.
persistVote_Bug(s) ==
  saved' = [saved EXCEPT ![s] = [state |-> state'[s], currentTerm |-> currentTerm'[s],
                                 votedFor |-> saved[s].votedFor, log |-> log'[s]]]
persistLog_Bug(s) ==
  saved' = [saved EXCEPT ![s] = [state |-> state'[s], currentTerm |-> currentTerm'[s],
                                 votedFor |-> votedFor'[s], log |-> saved[s].log]]

\* persist(): what the action leaves in the four durable fields is saved.
persist(s) ==
  saved' = [saved EXCEPT ![s] = [state |-> state'[s], currentTerm |-> currentTerm'[s],
                                 votedFor |-> votedFor'[s], log |-> log'[s]]]

Init ==
  /\ state = [s \in Server |-> FOLLOWER]
  /\ currentTerm = [s \in Server |-> 0]
  /\ votedFor = [s \in Server |-> NoVote]
  /\ log = [s \in Server |-> <<>>]
  /\ commitIndex = [s \in Server |-> 0]
  /\ lastApplied = [s \in Server |-> 0]
  /\ nextIndex = [s \in Server |-> [p \in Server |-> 1]]
  /\ matchIndex = [s \in Server |-> [p \in Server |-> 0]]
  /\ saved = [s \in Server |-> [state |-> FOLLOWER, currentTerm |-> 0,
                                votedFor |-> NoVote, log |-> <<>>]]
  /\ voteCalls = {} /\ granted = {} /\ lateVotes = {}
  /\ rounds = <<>> /\ appendCalls = {} /\ lateAppends = {}
  /\ applied = {} /\ fails = 0 /\ restarts = 0

-----------------------------------------------------------------------------
(* Elections *)

\* checkElection: the timer of a server that is not leader fires.  The timer
\* itself (lastHeartbeat, electionTimeout) is left out: it may fire at any time.
checkElection(s) ==
  /\ state[s] # LEADER
  /\ currentTerm[s] < MaxTerm /\ Cardinality({v \in granted : v[1] = v[3]}) < MaxElections
  /\ LateVoteRequests \/ \A g \in voteCalls : g.cand = s => g.pc # "ready"
  /\ state' = [state EXCEPT ![s] = CANDIDATE]
  /\ currentTerm' = [currentTerm EXCEPT ![s] = @ + 1]
  /\ votedFor' = [votedFor EXCEPT ![s] = s]
  /\ log' = log
  /\ persist(s)
  /\ voteCalls' = voteCalls \cup
       {[cand |-> s, election |-> currentTerm[s] + 1, peer |-> p, pc |-> "ready",
         args |-> NoVoteArgs(s), reply |-> NoVoteReply] : p \in Server \ {s}}
  /\ granted' = granted \cup {<<s, currentTerm[s] + 1, s>>}
  /\ UNCHANGED <<volatile, lateVotes, replication, applied, fails, restarts>>

\* The goroutine gets rf.mu and builds the arguments from what the server is
\* by now, which need not be what it was when the election started.
sendRequestVote(g) ==
  /\ g.pc = "ready"
  /\ voteCalls' = (voteCalls \ {g}) \cup
       {[g EXCEPT !.pc = "sent",
                  !.args = [Term |-> currentTerm[g.cand], CandidateId |-> g.cand,
                            LastLogIndex |-> Len(log[g.cand]),
                            LastLogTerm |-> LastTerm(log[g.cand])]]}
  /\ UNCHANGED <<durable, volatile, saved, granted, lateVotes, replication, applied, fails, restarts>>

UpToDate_Bug(i, a) == TRUE
UpToDate(i, a) ==
  \/ a.LastLogTerm > LastTerm(log[i])
  \/ a.LastLogTerm = LastTerm(log[i]) /\ a.LastLogIndex >= Len(log[i])

GrantsVote(i, a) ==
  /\ a.Term >= currentTerm[i]
  /\ a.Term = currentTerm[i] => votedFor[i] \in {NoVote, a.CandidateId}
  /\ UpToDate(i, a)

\* RequestVote: the handler.  A refusal leaves currentTerm alone even when the
\* candidate's term is higher.
RequestVote(i, a) ==
  \/ /\ GrantsVote(i, a)
     /\ currentTerm' = [currentTerm EXCEPT ![i] = a.Term]
     /\ votedFor' = [votedFor EXCEPT ![i] = a.CandidateId]
     /\ state' = [state EXCEPT ![i] = FOLLOWER]
     /\ log' = log
     /\ persist(i)
  \/ /\ ~GrantsVote(i, a)
     /\ UNCHANGED <<durable, saved>>

RequestVoteAnswer(i, a) ==
  IF GrantsVote(i, a) THEN [Term |-> a.Term, VoteGranted |-> TRUE]
                      ELSE [Term |-> currentTerm[i], VoteGranted |-> FALSE]

DeliverRequestVote(g) ==
  /\ g.pc = "sent"
  /\ RequestVote(g.peer, g.args)
  /\ voteCalls' = (voteCalls \ {g}) \cup
       {[g EXCEPT !.pc = "replied", !.reply = RequestVoteAnswer(g.peer, g.args)]}
  /\ UNCHANGED <<volatile, granted, lateVotes, replication, applied, fails, restarts>>

\* A request of a server that has restarted since: nobody waits for the reply.
DeliverLateVote(m) ==
  /\ RequestVote(m.to, m.args)
  /\ lateVotes' = lateVotes \ {m}
  /\ UNCHANGED <<volatile, voteCalls, granted, replication, applied, fails, restarts>>

\* Call() returned true.  (When it returns false the goroutine returns and
\* nothing changes: the model leaves such a goroutine where it stands.)
RequestVoteReturns(g) ==
  LET s == g.cand
      counted == IF state[s] = CANDIDATE /\ g.reply.VoteGranted
                   THEN granted \cup {<<s, g.election, g.peer>>} ELSE granted
      grantedCnt == Cardinality({p \in Server : <<s, g.election, p>> \in counted})
  IN
  /\ g.pc = "replied"
  /\ voteCalls' = voteCalls \ {g}
  /\ UNCHANGED <<votedFor, log, commitIndex, lastApplied, lateVotes, replication,
                 applied, fails, restarts>>
  /\ \/ /\ g.reply.Term < g.args.Term
        /\ state' = [state EXCEPT ![s] = GAVE_UP]
        /\ currentTerm' = currentTerm
        /\ persist(s)
        /\ UNCHANGED <<granted, nextIndex, matchIndex>>
     \/ /\ g.reply.Term >= g.args.Term
        /\ g.args.Term # currentTerm[s]
        /\ UNCHANGED <<state, currentTerm, saved, granted, nextIndex, matchIndex>>
     \/ /\ g.reply.Term > g.args.Term
        /\ g.args.Term = currentTerm[s]
        /\ currentTerm' = [currentTerm EXCEPT ![s] = g.reply.Term]
        /\ state' = [state EXCEPT ![s] = FOLLOWER]
        /\ persist(s)
        /\ UNCHANGED <<granted, nextIndex, matchIndex>>
     \/ /\ g.reply.Term = g.args.Term
        /\ g.args.Term = currentTerm[s]
        /\ granted' = counted
        /\ currentTerm' = currentTerm
        /\ \/ /\ Majority(grantedCnt) /\ state[s] = CANDIDATE
              /\ state' = [state EXCEPT ![s] = LEADER]
              /\ persist(s)
              /\ nextIndex' = [nextIndex EXCEPT ![s] = [p \in Server |-> Len(log[s]) + 1]]
              /\ matchIndex' = [matchIndex EXCEPT ![s] = [p \in Server |-> 0]]
           \/ /\ ~(Majority(grantedCnt) /\ state[s] = CANDIDATE)
              /\ UNCHANGED <<state, saved, nextIndex, matchIndex>>

-----------------------------------------------------------------------------
(* Log replication *)

\* Start: the service hands a command to a server that believes it leads.
Start(s, command) ==
  /\ state[s] = LEADER
  /\ Len(log[s]) < MaxLog
  /\ log' = [log EXCEPT ![s] = Append(@, [Command |-> command, Term |-> currentTerm[s]])]
  /\ UNCHANGED <<state, currentTerm, votedFor>>
  /\ persist(s)
  /\ UNCHANGED <<volatile, elections, replication, applied, fails, restarts>>

\* The rounds some goroutine still works for; the variables of the others are
\* garbage, and their numbers are used again.
Running(rs, calls) == [k \in {g.round : g \in calls} |-> rs[k]]
FreeRounds(s) == {k \in 1 .. MaxRounds : <<s, k>> \notin DOMAIN rounds}

\* Only an entry of the leader's own term may move its commitIndex.
changeCommit_Bug(s) == TRUE
changeCommit(s) == LastTerm(log[s]) = currentTerm[s]

\* sendHeartbeat: a leader starts a round, without waiting for earlier rounds.
sendHeartbeat(s) ==
  /\ state[s] = LEADER
  /\ FreeRounds(s) # {}
  /\ LET k == <<s, CHOOSE i \in FreeRounds(s) : \A j \in FreeRounds(s) : i <= j>>
         r == [leader |-> s, currentTerm |-> currentTerm[s], currentLogLen |-> Len(log[s]) + 1,
               changeCommit |-> changeCommit(s),
               currentCommitIndex |-> commitIndex[s], replicated |-> {s}]
         calls == {[round |-> k, peer |-> p, pc |-> "ready",
                    args |-> NoAppendArgs, reply |-> NoAppendReply] : p \in Server \ {s}}
     IN /\ appendCalls' = appendCalls \cup calls
        /\ rounds' = [i \in {g.round : g \in appendCalls'} |-> IF i = k THEN r ELSE rounds[i]]
  /\ UNCHANGED <<durable, volatile, saved, elections, lateAppends, applied, fails, restarts>>

\* The test the goroutine makes whenever it gets rf.mu back.
StillLeads(r) == state[r.leader] = LEADER /\ currentTerm[r.leader] = r.currentTerm

\* Sends the commitIndex of now with the entries of then.
BuildAppendEntries_Bug(r, p) ==
  LET l == log[r.leader]
      next == nextIndex[r.leader][p]
  IN [Term |-> r.currentTerm, PrevLogIndex |-> next - 1, PrevLogTerm |-> TermAt(l, next - 1),
      Entries |-> IF next < r.currentLogLen THEN SubSeq(l, next, r.currentLogLen - 1) ELSE <<>>,
      LeaderCommit |-> commitIndex[r.leader]]
BuildAppendEntries(r, p) ==
  LET l == log[r.leader]
      next == nextIndex[r.leader][p]
  IN [Term |-> r.currentTerm, PrevLogIndex |-> next - 1, PrevLogTerm |-> TermAt(l, next - 1),
      Entries |-> IF next < r.currentLogLen THEN SubSeq(l, next, r.currentLogLen - 1) ELSE <<>>,
      LeaderCommit |-> r.currentCommitIndex]

sendAppendEntries(g) ==
  LET r == rounds[g.round]
  IN
  /\ g.pc = "ready"
  /\ appendCalls' = (appendCalls \ {g}) \cup
       (IF StillLeads(r)
          THEN {[g EXCEPT !.pc = "sent", !.args = BuildAppendEntries(r, g.peer), !.reply = NoAppendReply]}
          ELSE {})
  /\ rounds' = Running(rounds, appendCalls')
  /\ UNCHANGED <<durable, volatile, saved, elections, lateAppends, applied, fails, restarts>>

\* AppendEntries, the handler: what it makes of the log l ...
TooShort(l, a) == Len(l) < a.PrevLogIndex
Conflicts_Bug(l, a) == FALSE
Conflicts(l, a) == ~TooShort(l, a) /\ TermAt(l, a.PrevLogIndex) # a.PrevLogTerm
Accepts(l, a) == ~TooShort(l, a) /\ ~Conflicts(l, a)

AlreadyHas_Bug(l, a) == FALSE   \* a late request truncates the log
AlreadyHas(l, a) ==
  /\ a.PrevLogIndex + Len(a.Entries) < Len(l)
  /\ \A i \in 1 .. Len(a.Entries) : l[a.PrevLogIndex + i].Term = a.Entries[i].Term

FollowerLog(l, a) ==
  CASE TooShort(l, a)  -> l
    [] Conflicts(l, a) -> SubSeq(l, 1, a.PrevLogIndex - 1)
    [] OTHER           -> IF a.Entries = <<>> \/ AlreadyHas(l, a) THEN l
                          ELSE SubSeq(l, 1, a.PrevLogIndex) \o a.Entries

\* ... what it answers (XIndex follows the last entry of a smaller term) ...
FirstOfTerm_Bug(l, t) ==   \* the last entry of a smaller term, off by one
  CHOOSE i \in 0 .. Len(l) : TermAt(l, i) < t /\ \A j \in (i + 1) .. Len(l) : TermAt(l, j) >= t
FirstOfTerm(l, t) ==
  IF \E i \in 0 .. Len(l) : TermAt(l, i) < t
    THEN 1 + CHOOSE i \in 0 .. Len(l) :
               TermAt(l, i) < t /\ \A j \in (i + 1) .. Len(l) : TermAt(l, j) >= t
    ELSE 0

AppendEntriesAnswer(i, a) ==
  LET l == log[i]
      x == TermAt(l, a.PrevLogIndex)
  IN IF a.Term < currentTerm[i] THEN AppendReply(currentTerm[i], FALSE, 0, 0, 0)
     ELSE IF TooShort(l, a) THEN AppendReply(a.Term, FALSE, Len(l) + 1, 0, 0)
     ELSE IF Conflicts(l, a) THEN AppendReply(a.Term, FALSE, -1, x, FirstOfTerm(l, x))
     ELSE AppendReply(a.Term, TRUE, -1, 0, 0)

\* ... and what it does.
AppendEntries(i, a) ==
  \/ /\ a.Term < currentTerm[i]
     /\ UNCHANGED <<durable, commitIndex, saved>>
  \/ /\ a.Term >= currentTerm[i]
     /\ currentTerm' = [currentTerm EXCEPT ![i] = a.Term]
     /\ state' = [state EXCEPT ![i] = FOLLOWER]
     /\ votedFor' = votedFor
     /\ log' = [log EXCEPT ![i] = FollowerLog(@, a)]
     /\ persist(i)
     /\ commitIndex' = [commitIndex EXCEPT ![i] =
          IF Accepts(log[i], a) /\ a.LeaderCommit > @
            THEN Smaller(a.LeaderCommit, Len(log'[i])) ELSE @]

DeliverAppendEntries(g) ==
  /\ g.pc = "sent"
  /\ AppendEntries(g.peer, g.args)
  /\ appendCalls' = (appendCalls \ {g}) \cup
       {[g EXCEPT !.pc = "replied", !.reply = AppendEntriesAnswer(g.peer, g.args)]}
  /\ UNCHANGED <<lastApplied, nextIndex, matchIndex, elections, rounds, lateAppends,
                 applied, fails, restarts>>

\* A request whose Call() has returned false runs its handler all the same.
DeliverLateAppend(m) ==
  /\ AppendEntries(m.to, m.args)
  /\ lateAppends' = lateAppends \ {m}
  /\ UNCHANGED <<lastApplied, nextIndex, matchIndex, elections, rounds, appendCalls,
                 applied, fails, restarts>>

\* The goroutine still answers for its follower after Call() has returned; or it
\* compares with the index before.
StillMine_Bug(g) ==
  /\ StillLeads(rounds[g.round])
  /\ nextIndex[rounds[g.round].leader][g.peer] = g.args.PrevLogIndex
StillMine(g) ==
  /\ StillLeads(rounds[g.round])
  /\ nextIndex[rounds[g.round].leader][g.peer] = g.args.PrevLogIndex + 1

\* nextIndex after a rejection: cases 1 to 3 of the comment at line 660.
\* One too low.
BackUpLow_Bug(l, reply) == IF reply.XLen # -1 THEN reply.XLen - 1 ELSE reply.XIndex
BackUp(l, reply) ==
  LET ofXTerm == {j \in 0 .. Len(l) : TermAt(l, j) = reply.XTerm}
  IN IF reply.XLen # -1 THEN reply.XLen
     ELSE IF ofXTerm = {} THEN reply.XIndex
     ELSE CHOOSE j \in ofXTerm : \A k \in ofXTerm : k <= j

Again(g) == [g EXCEPT !.pc = "ready", !.args = NoAppendArgs, !.reply = NoAppendReply]

\* One too far.
nextCommitIndex_Bug(r) == r.currentLogLen
nextCommitIndex(r) == r.currentLogLen - 1

AppendEntriesReturns(g) ==
  LET k == g.round
      r == rounds[k]
      s == r.leader
      p == g.peer
      match == g.args.PrevLogIndex + Len(g.args.Entries)
      rest == appendCalls \ {g}
  IN
  /\ g.pc = "replied"
  /\ UNCHANGED <<votedFor, log, lastApplied, elections, lateAppends, applied, fails, restarts>>
  /\ \/ /\ ~StillMine(g)
        /\ appendCalls' = rest
        /\ rounds' = Running(rounds, rest)
        /\ UNCHANGED <<state, currentTerm, saved, commitIndex, nextIndex, matchIndex>>
     \/ /\ StillMine(g) /\ ~g.reply.Success /\ g.reply.Term > currentTerm[s]
        /\ currentTerm' = [currentTerm EXCEPT ![s] = g.reply.Term]
        /\ state' = [state EXCEPT ![s] = FOLLOWER]
        /\ persist(s)
        /\ appendCalls' = rest
        /\ rounds' = Running(rounds, rest)
        /\ UNCHANGED <<commitIndex, nextIndex, matchIndex>>
     \/ /\ StillMine(g) /\ ~g.reply.Success /\ g.reply.Term <= currentTerm[s]
        /\ nextIndex' = [nextIndex EXCEPT ![s][p] = BackUp(log[s], g.reply)]
        /\ appendCalls' = rest \cup {Again(g)}
        /\ UNCHANGED <<state, currentTerm, saved, commitIndex, matchIndex, rounds>>
     \/ /\ StillMine(g) /\ g.reply.Success
        /\ matchIndex' = [matchIndex EXCEPT ![s][p] = match]
        /\ nextIndex' = [nextIndex EXCEPT ![s][p] = match + 1]
        /\ rounds' = Running([rounds EXCEPT ![k].replicated = @ \cup {p}], rest)
        /\ commitIndex' = [commitIndex EXCEPT ![s] =
             IF /\ r.changeCommit
                /\ Majority(Cardinality(r.replicated \cup {p}))
                /\ @ < nextCommitIndex(r)
               THEN nextCommitIndex(r) ELSE @]
        /\ appendCalls' = rest
        /\ UNCHANGED <<state, currentTerm, saved>>

\* Call() returns false: the request or the reply is lost, or the server is
\* cut off while the handler waits; then the handler may still run later.
AppendEntriesFails(g) ==
  /\ g.pc \in {"sent", "replied"}
  /\ fails < MaxFails
  /\ fails' = fails + 1
  /\ appendCalls' = (appendCalls \ {g}) \cup (IF StillMine(g) THEN {Again(g)} ELSE {})
  /\ rounds' = Running(rounds, appendCalls')
  /\ lateAppends' = lateAppends \cup
       (IF g.pc = "sent" THEN {[to |-> g.peer, args |-> g.args]} ELSE {})
  /\ UNCHANGED <<durable, volatile, saved, elections, applied, restarts>>

\* checkApply: rf.mu is held until everything committed is on applyCh.
checkApply(s) ==
  /\ lastApplied[s] < commitIndex[s]
  /\ commitIndex[s] <= Len(log[s])   \* rf.log[i] panics otherwise (CommitWithinLog)
  /\ applied' = applied \cup
       {<<i, log[s][i].Command>> : i \in (lastApplied[s] + 1) .. commitIndex[s]}
  /\ lastApplied' = [lastApplied EXCEPT ![s] = commitIndex[s]]
  /\ UNCHANGED <<durable, commitIndex, nextIndex, matchIndex, saved, elections, replication,
                 fails, restarts>>

-----------------------------------------------------------------------------
(* Crash and restart *)

\* The server stops and Make() builds a new one from the persister's content p.
\* Its goroutines are gone; its requests under way may still arrive.
Reboot(s, p) ==
  /\ restarts < MaxRestarts
  /\ restarts' = restarts + 1
  /\ saved' = [saved EXCEPT ![s] = p]
  /\ state' = [state EXCEPT ![s] = p.state]
  /\ currentTerm' = [currentTerm EXCEPT ![s] = p.currentTerm]
  /\ votedFor' = [votedFor EXCEPT ![s] = p.votedFor]
  /\ log' = [log EXCEPT ![s] = p.log]
  /\ commitIndex' = [commitIndex EXCEPT ![s] = 0]
  /\ lastApplied' = [lastApplied EXCEPT ![s] = 0]
  /\ nextIndex' = [nextIndex EXCEPT ![s] = [q \in Server |-> Len(p.log) + 1]]
  /\ matchIndex' = [matchIndex EXCEPT ![s] = [q \in Server |-> 0]]
  /\ voteCalls' = {g \in voteCalls : g.cand # s}
  /\ lateVotes' = lateVotes \cup
       {[to |-> g.peer, args |-> g.args] : g \in {h \in voteCalls : h.cand = s /\ h.pc = "sent"}}
  /\ appendCalls' = {g \in appendCalls : rounds[g.round].leader # s}
  /\ rounds' = Running(rounds, appendCalls')
  /\ UNCHANGED <<granted, applied, fails>>

AppendsUnderWay(s) ==
  {[to |-> g.peer, args |-> g.args] :
     g \in {h \in appendCalls : rounds[h.round].leader = s /\ h.pc = "sent"}}

Restart(s) ==
  /\ Reboot(s, saved[s])
  /\ lateAppends' = lateAppends \cup AppendsUnderWay(s)

\* The crash falls between the two persist() calls of AppendEntries (189, 211
\* and 238): the new term is saved, the new log is not.
CrashInAppendEntries(m) ==
  /\ m.args.Term >= currentTerm[m.to]
  /\ Reboot(m.to, [saved[m.to] EXCEPT !.currentTerm = m.args.Term, !.state = FOLLOWER])
  /\ lateAppends' = (lateAppends \ {m}) \cup AppendsUnderWay(m.to)

-----------------------------------------------------------------------------
Next ==
  \/ \E s \in Server : checkElection(s) \/ sendHeartbeat(s) \/ checkApply(s) \/ Restart(s)
  \/ \E s \in Server, c \in Command : Start(s, c)
  \/ \E g \in voteCalls : sendRequestVote(g) \/ DeliverRequestVote(g) \/ RequestVoteReturns(g)
  \/ \E m \in lateVotes : DeliverLateVote(m)
  \/ \E g \in appendCalls :
       \/ sendAppendEntries(g) \/ DeliverAppendEntries(g)
       \/ AppendEntriesReturns(g) \/ AppendEntriesFails(g)
  \/ \E m \in lateAppends : DeliverLateAppend(m) \/ CrashInAppendEntries(m)

Spec == Init /\ [][Next]_vars

\* Every goroutine that can go on does, a leader goes on sending heartbeats, and
\* a request that is not lost arrives.  Nothing is assumed of the service, of
\* elections, failed calls or restarts.
Goroutine(k, p) ==
  \E g \in appendCalls : /\ g.round = k /\ g.peer = p
                         /\ sendAppendEntries(g) \/ DeliverAppendEntries(g) \/ AppendEntriesReturns(g)

Fairness ==
  /\ \A s \in Server : WF_vars(sendHeartbeat(s)) /\ WF_vars(checkApply(s))
  /\ \A s, p \in Server, k \in 1 .. MaxRounds : WF_vars(Goroutine(<<s, k>>, p))

-----------------------------------------------------------------------------
(* Properties *)

\* Every field, goroutine, request and saved record has its type; in particular
\* BackUp and the answers of AppendEntries never make nextIndex negative, and
\* the variables of a round live exactly as long as one of its goroutines.
TypeOK ==
  /\ state \in [Server -> {LEADER, FOLLOWER, CANDIDATE, GAVE_UP}]
  /\ currentTerm \in [Server -> Nat]
  /\ votedFor \in [Server -> Server \cup {NoVote}]
  /\ log \in [Server -> Seq(LogEntry)]
  /\ commitIndex \in [Server -> Nat] /\ lastApplied \in [Server -> Nat]
  /\ nextIndex \in [Server -> [Server -> Nat]] /\ matchIndex \in [Server -> [Server -> Nat]]
  /\ saved \in [Server -> Persistent]
  /\ \A g \in voteCalls : g \in VoteCall
  /\ granted \subseteq Server \X Nat \X Server
  /\ \A m \in lateVotes : m \in [to : Server, args : RequestVoteArgs]
  /\ \A g \in appendCalls : g \in AppendCall
  /\ DOMAIN rounds = {g.round : g \in appendCalls}
  /\ \A k \in DOMAIN rounds : rounds[k] \in Round
  /\ \A m \in lateAppends : m \in [to : Server, args : AppendEntriesArgs]
  /\ \A x \in applied : x[1] \in Nat   \* x[2] is a command because of CommitWithinLog
  /\ fails \in 0 .. MaxFails /\ restarts \in 0 .. MaxRestarts

\* At most one server leads a term (checkOneLeader in config.go: "term %d has
\* %d (>1) leaders"): the votes counted by RequestVoteReturns belong together.
ElectionSafety ==
  \A s, t \in Server :
    state[s] = LEADER /\ state[t] = LEADER /\ currentTerm[s] = currentTerm[t] => s = t

\* Two logs that hold an entry of the same term at the same index agree up to
\* there: truncation, overwriting and the "stale RPC" case of AppendEntries
\* keep what a leader wrote in one piece.
LogMatching ==
  \A s, t \in Server :
    \A i \in 1 .. Smaller(Len(log[s]), Len(log[t])) :
      log[s][i].Term = log[t][i].Term => SubSeq(log[s], 1, i) = SubSeq(log[t], 1, i)

\* No two servers, and no server before and after a restart, ever send different
\* commands on applyCh for one index (config.go, start1).
StateMachineSafety == \A x, y \in applied : x[1] = y[1] => x[2] = y[2]

\* A leader has every entry that some server knows to be committed, unless that
\* server has already moved on to a later term.
LeaderCompleteness ==
  \A s, t \in Server :
    state[s] = LEADER /\ currentTerm[t] <= currentTerm[s] =>
      /\ commitIndex[t] <= Len(log[s])
      /\ \A i \in 1 .. commitIndex[t] : log[s][i] = log[t][i]

\* checkApply never reads past the log: neither truncation in AppendEntries nor
\* the commit of a round that started earlier leaves commitIndex beyond the end.
CommitWithinLog ==
  \A s \in Server : lastApplied[s] <= commitIndex[s] /\ commitIndex[s] <= Len(log[s])

\* The slice expressions of sendHeartbeat stay in range whenever a goroutine of
\* a leader evaluates them: nextIndex is at least 1 and at most len(rf.log), and
\* the log still has the length the round started with.
IndexesInRange ==
  /\ \A s, p \in Server : state[s] = LEADER => nextIndex[s][p] \in 1 .. Len(log[s]) + 1
  /\ \A k \in DOMAIN rounds :
       StillLeads(rounds[k]) => rounds[k].currentLogLen <= Len(log[rounds[k].leader]) + 1

\* AppendEntries bounds LeaderCommit by the follower's whole log, not by the last
\* entry the request vouches for; that is right only because every request
\* reaches at least as far as its LeaderCommit.
LeaderCommitIsCovered ==
  /\ \A g \in appendCalls : g.args.LeaderCommit <= g.args.PrevLogIndex + Len(g.args.Entries)
  /\ \A m \in lateAppends : m.args.LeaderCommit <= m.args.PrevLogIndex + Len(m.args.Entries)

\* While the follower is still in the leader's term it holds everything
\* matchIndex claims, whatever late replies and late requests have arrived.
MatchIndexIsSound ==
  \A s, p \in Server :
    state[s] = LEADER /\ currentTerm[p] = currentTerm[s] /\ p # s =>
      /\ matchIndex[s][p] <= Len(log[p])
      /\ SubSeq(log[p], 1, matchIndex[s][p]) = SubSeq(log[s], 1, matchIndex[s][p])

\* Terms never go back, and within a term a vote is never changed, across
\* crashes too: what RequestVote and checkElection promise is on disk in time.
VoteIsFinal ==
  [][\A s \in Server :
       /\ currentTerm'[s] >= currentTerm[s]
       /\ currentTerm'[s] = currentTerm[s] /\ votedFor[s] # NoVote => votedFor'[s] = votedFor[s]]_vars

\* Seen from the services, Raft is the replicated log: what each has received
\* since its start is the applied part of its server's log.
Chosen ==
  [i \in 1 .. Cardinality({x[1] : x \in applied}) |-> CHOOSE c \in Command : <<i, c>> \in applied]
Delivered ==
  [s \in Server |-> [i \in 1 .. Smaller(lastApplied[s], Len(log[s])) |-> log[s][i].Command]]
Service == INSTANCE ReplicatedLog WITH chosen <- Chosen, delivered <- Delivered

\* Raft implements ReplicatedLog: checkApply delivers, in order, a prefix of the
\* one sequence, whichever server leads and whenever servers restart.
ImplementsReplicatedLog == Service!Spec

\* An entry that a leader has appended in its own term reaches the service of
\* every server when no further election or crash comes between: concurrent
\* rounds of sendHeartbeat that discard each other's replies ("nextIndex has
\* been changed") do not starve it.
EntriesGetApplied ==
  \A n \in 1 .. MaxLog :
    (\E s \in Server : state[s] = LEADER /\ n <= Len(log[s]) /\ log[s][n].Term = currentTerm[s])
      ~> (\A p \in Server : lastApplied[p] >= n)

=============================================================================
