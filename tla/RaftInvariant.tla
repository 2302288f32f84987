--------------------------- MODULE RaftInvariant ---------------------------
(***************************************************************************)
(* The inductive invariants behind the theorems of RaftProofs and          *)
(* RaftSafetyProofs; those that need a history are in RaftHistory.         *)
(***************************************************************************)
EXTENDS Raft

\* Every critical section that changes a durable field also calls persist().
SavedIsCurrent ==
  \A s \in Server : saved[s] = [state |-> state[s], currentTerm |-> currentTerm[s],
                                votedFor |-> votedFor[s], log |-> log[s]]

-----------------------------------------------------------------------------
(* Logs and the indexes into them *)

\* Terms in a log start at 1, never decrease and stay at or below t.
LogOK(l, t) ==
  /\ \A i \in 1 .. Len(l) : l[i].Term \in 1 .. t
  /\ \A i, j \in 1 .. Len(l) : i <= j => l[i].Term <= l[j].Term

\* Arguments are a slice of such a log.
ArgsOK(a) ==
  /\ LogOK(a.Entries, a.Term)
  /\ a.PrevLogTerm <= a.Term
  /\ \A i \in 1 .. Len(a.Entries) : a.PrevLogTerm <= a.Entries[i].Term
  /\ a.PrevLogIndex = 0 => a.PrevLogTerm = 0

\* A rejection in the leader's term names a place before the rejected entry.
ReplyOK(a, reply) ==
  /\ reply.Term >= a.Term
  /\ reply.Term = a.Term /\ ~reply.Success =>
       \/ reply.XLen \in 1 .. a.PrevLogIndex
       \/ reply.XLen = -1 /\ reply.XTerm > 0 /\ reply.XIndex \in 1 .. a.PrevLogIndex

\* The variables of a round belong to a term its server does not lead again.
RoundOK(k) ==
  LET r == rounds[k] IN
  /\ r.leader = k[1]
  /\ r.currentTerm <= currentTerm[r.leader]
  /\ r.currentTerm = currentTerm[r.leader] => state[r.leader] # CANDIDATE
  /\ r.currentLogLen >= 1
  /\ StillLeads(r) => r.currentLogLen <= Len(log[r.leader]) + 1

AppendCallOK(g) ==
  LET r == rounds[g.round] IN
  /\ g.pc # "ready" =>
       /\ ArgsOK(g.args)
       /\ g.args.Term = r.currentTerm
       /\ StillLeads(r) => g.args.PrevLogIndex + Len(g.args.Entries) <= Len(log[r.leader])
  /\ g.pc = "replied" => ReplyOK(g.args, g.reply)

\* What keeps every index of sendHeartbeat and AppendEntries inside a log: logs
\* and requests are in order of term, rejections point backwards, and a round
\* whose server still leads finds the log it started with.
IndexInvariant ==
  /\ SavedIsCurrent
  /\ \A s \in Server : LogOK(log[s], currentTerm[s])
  /\ \A s \in Server : state[s] \in {LEADER, CANDIDATE} => currentTerm[s] > 0
  /\ \A s, p \in Server : state[s] = LEADER => nextIndex[s][p] \in 1 .. Len(log[s]) + 1
  /\ \A k \in DOMAIN rounds : RoundOK(k)
  /\ \A g \in appendCalls : AppendCallOK(g)
  /\ \A m \in lateAppends : ArgsOK(m.args)

-----------------------------------------------------------------------------
(* Votes *)

\* <<c, e, p>>: p has voted for c in term e, on record with c or in a reply
\* under way.
Votes ==
  granted \cup {<<g.cand, g.args.Term, g.peer>> :
                 g \in {h \in voteCalls : h.pc = "replied" /\ h.reply.VoteGranted}}

\* A vote binds its voter, and is its only vote of the term.
VotesBind ==
  \A v \in Votes :
    currentTerm[v[3]] > v[2] \/ (currentTerm[v[3]] = v[2] /\ votedFor[v[3]] = v[1])
VotesAreUnique ==
  \A v, w \in Votes : v[2] = w[2] /\ v[3] = w[3] => v[1] = w[1]

\* A request that carries another term than that of its election carries a
\* term in which its server never stood.
VoteCallOK(g) ==
  LET c == g.cand IN
  IF g.pc = "ready"
    THEN /\ g.election <= currentTerm[c]
         /\ g.election < currentTerm[c] => <<c, currentTerm[c], c>> \notin granted
    ELSE /\ g.args.CandidateId = c
         /\ g.args.Term <= currentTerm[c]
         /\ g.args.Term # g.election => <<c, g.args.Term, c>> \notin granted

\* A candidate has its own vote, a leader those of a majority.
StandingOK(s) ==
  /\ state[s] = CANDIDATE => <<s, currentTerm[s], s>> \in granted
  /\ state[s] = LEADER =>
       \E Q \in SUBSET Server : /\ Majority(Cardinality(Q))
                                /\ \A p \in Q : <<s, currentTerm[s], p>> \in granted

\* What makes elections safe when no vote goroutine outlives its election: the
\* votes counted by RequestVoteReturns are votes of the term it leads.
VoteInvariant ==
  /\ VotesBind /\ VotesAreUnique
  /\ \A g \in voteCalls : VoteCallOK(g)
  /\ \A s \in Server : StandingOK(s)

-----------------------------------------------------------------------------
(* What was applied *)

\* l and k have the same first n entries.
Agree(l, k, n) ==
  /\ n <= Len(l) /\ n <= Len(k)
  /\ \A i \in 1 .. n : l[i] = k[i]

\* The commands sent on all applyCh are those of the indexes up to some k.
InOrder(A, k) ==
  /\ {x[1] : x \in A} = 1 .. k
  /\ \A i \in 1 .. k : \E c \in Command : <<i, c>> \in A

\* A server has applied the first entries of its log, and nothing beyond k.
AppliedInOrder ==
  /\ \E k \in Nat : InOrder(applied, k)
  /\ \A s \in Server : \A i \in 1 .. lastApplied[s] : <<i, log[s][i].Command>> \in applied

=============================================================================
