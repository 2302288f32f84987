----------------------------- MODULE RaftHistory -----------------------------
(***************************************************************************)
(* What the safety of the log rests on is history: which logs the leaders  *)
(* of past terms had, and who held which entry while in which term.  The   *)
(* code keeps no record of it, so the invariants below take it as          *)
(* parameters, and the theorems show that a fitting history exists in      *)
(* every reachable state:                                                  *)
(*   led    <<s, t>>: s became leader of term t;                           *)
(*   llog   llog[t]: the log of the leader of term t, as long as it got;   *)
(*   held   <<p, t, n>>: while in term t, p had an entry of term t at n.   *)
(***************************************************************************)
EXTENDS RaftInvariant

\* l has an entry of term t at index n.
Has(l, t, n) == n \in 1 .. Len(l) /\ l[n].Term = t

Led(led, t) == \E s \in Server : <<s, t>> \in led

\* Up to any entry, l is what the leader of that entry's term had.
FromLeaders(led, llog, l) ==
  \A i \in 1 .. Len(l) : Led(led, l[i].Term) /\ Agree(l, llog[l[i].Term], i)

LogsFromLeaders(led, llog) ==
  /\ \A s \in Server : FromLeaders(led, llog, log[s])
  /\ \A t \in DOMAIN llog : FromLeaders(led, llog, llog[t]) /\ LogOK(llog[t], t)

\* A leader is on record, with the log it has now; nobody stands in a term it led.
LeadersOnRecord(led, llog) ==
  /\ \A s \in Server : state[s] = LEADER => /\ <<s, currentTerm[s]>> \in led
                                            /\ llog[currentTerm[s]] = log[s]
  /\ \A e \in led : /\ e[2] <= currentTerm[e[1]]
                    /\ e[2] = currentTerm[e[1]] => state[e[1]] # CANDIDATE

\* The arguments a, on their way to p, are a slice of the log of the leader of
\* their term, which is not p.
SliceOK(led, llog, p, a) ==
  LET l == llog[a.Term] IN
  /\ Led(led, a.Term) /\ <<p, a.Term>> \notin led
  /\ a.PrevLogIndex + Len(a.Entries) <= Len(l)
  /\ a.PrevLogTerm = TermAt(l, a.PrevLogIndex)
  /\ \A j \in 1 .. Len(a.Entries) : a.Entries[j] = l[a.PrevLogIndex + j]

RequestsFromLeaders(led, llog) ==
  /\ \A k \in DOMAIN rounds : <<rounds[k].leader, rounds[k].currentTerm>> \in led
  /\ \A g \in appendCalls : /\ g.peer # rounds[g.round].leader
                            /\ g.pc # "ready" => SliceOK(led, llog, g.peer, g.args)
  /\ \A m \in lateAppends : SliceOK(led, llog, m.to, m.args)

-----------------------------------------------------------------------------
(* Entries held, and what votes say about them *)

\* Two majorities have a server in common.
MajoritiesIntersect ==
  \A Q, R \in SUBSET Server :
    Majority(Cardinality(Q)) /\ Majority(Cardinality(R)) => \E p \in Q : p \in R

\* l has entry n of term t, or some leader of a later term up to u has not.
Kept(led, llog, l, u, t, n) ==
  Has(l, t, n) \/ \E v \in (t + 1) .. u : Led(led, v) /\ ~Has(llog[v], t, n)

\* What p held in term t is in its log until a later leader without it comes.
HeldIsKept(led, llog, held) ==
  /\ \A s \in Server : \A n \in 1 .. Len(log[s]) :
       log[s][n].Term = currentTerm[s] => <<s, currentTerm[s], n>> \in held
  /\ \A x \in held : /\ x[2] <= currentTerm[x[1]]
                     /\ Has(llog[x[2]], x[2], x[3])
                     /\ Kept(led, llog, log[x[1]], currentTerm[x[1]], x[2], x[3])

\* l, a log of term u, has what p held in terms before u and may be committed.
Covers(led, llog, held, p, u, l, v) ==
  \A x \in held : x[1] = p /\ x[2] < u => Kept(led, llog, l, v, x[2], x[3])

\* A leader has what a majority of its voters held.
LeadersCover(led, llog, held) ==
  \A e \in led : \E Q \in SUBSET Server :
    /\ Majority(Cardinality(Q))
    /\ \A p \in Q : /\ <<e[1], e[2], p>> \in granted
                    /\ Covers(led, llog, held, p, e[2], llog[e[2]], e[2] - 1)

\* A request of a candidate describes the log it has, and the candidate has what
\* those who vote for it held.
RequestDescribes(g) ==
  g.pc # "ready" /\ state[g.cand] = CANDIDATE /\ g.args.Term = currentTerm[g.cand] =>
    g.args.LastLogIndex = Len(log[g.cand]) /\ g.args.LastLogTerm = LastTerm(log[g.cand])
VoteCovers(led, llog, held, v) ==
  state[v[1]] = CANDIDATE /\ currentTerm[v[1]] = v[2] =>
    Covers(led, llog, held, v[3], v[2], log[v[1]], v[2])

CandidatesCover(led, llog, held) ==
  /\ \A v \in granted : v[2] <= currentTerm[v[1]]
  /\ \A g \in voteCalls : RequestDescribes(g)
  /\ \A v \in Votes : VoteCovers(led, llog, held, v)

HistoryOK(led, llog, held) ==
  /\ led \subseteq Server \X Nat
  /\ llog \in [Nat -> Seq(LogEntry)]
  /\ held \subseteq Server \X Nat \X Nat
  /\ LogsFromLeaders(led, llog)
  /\ LeadersOnRecord(led, llog)
  /\ RequestsFromLeaders(led, llog)
  /\ HeldIsKept(led, llog, held)
  /\ LeadersCover(led, llog, held)
  /\ CandidatesCover(led, llog, held)

-----------------------------------------------------------------------------
(* Commitment *)

\* A majority held entry n of term t while in term t.
Committed(held, t, n) ==
  \E Q \in SUBSET Server : Majority(Cardinality(Q)) /\ \A p \in Q : <<p, t, n>> \in held

\* The first n entries of l were committed in a term up to u.
SafeUpTo(llog, held, l, n, u) ==
  n = 0 \/ \E t \in DOMAIN llog : /\ t <= u
                                  /\ Agree(l, llog[t], n)
                                  /\ \E m \in n .. Len(llog[t]) : Committed(held, t, m)

ServerCommits(llog, held, s) ==
  /\ lastApplied[s] <= commitIndex[s]
  /\ SafeUpTo(llog, held, log[s], commitIndex[s], currentTerm[s])

\* A round that may commit counts servers that hold its last entry.
RoundCommits(llog, held, r) ==
  LET t == r.currentTerm
      n == r.currentLogLen - 1 IN
  /\ SafeUpTo(llog, held, llog[t], r.currentCommitIndex, t)
  /\ r.currentCommitIndex < r.currentLogLen
  /\ r.changeCommit => Has(llog[t], t, n) /\ \A p \in r.replicated : <<p, t, n>> \in held

\* A request of a round reaches as far as the round; who accepts it holds the
\* last entry of the round.
CallCommits(held, g) ==
  LET r == rounds[g.round] IN
  IF g.pc = "ready" THEN g.args = NoAppendArgs
  ELSE /\ g.args.LeaderCommit = r.currentCommitIndex
       /\ r.currentLogLen <= g.args.PrevLogIndex + Len(g.args.Entries) + 1
       /\ g.pc = "replied" /\ g.reply.Success /\ r.changeCommit =>
            <<g.peer, r.currentTerm, r.currentLogLen - 1>> \in held

LateCommits(llog, held, a) ==
  /\ a.LeaderCommit <= a.PrevLogIndex + Len(a.Entries)
  /\ SafeUpTo(llog, held, llog[a.Term], a.LeaderCommit, a.Term)

\* What was applied at i is the command that was committed there.
WasCommitted(llog, held, i, c) ==
  \E t \in DOMAIN llog : \E m \in 1 .. Len(llog[t]) :
    Committed(held, t, m) /\ i \in 1 .. m /\ llog[t][i].Command = c

CommitsAreSafe(llog, held) ==
  /\ \A s \in Server : ServerCommits(llog, held, s)
  /\ \A k \in DOMAIN rounds : RoundCommits(llog, held, rounds[k])
  /\ \A g \in appendCalls : CallCommits(held, g)
  /\ \A m \in lateAppends : LateCommits(llog, held, m.args)
  /\ \A x \in applied : WasCommitted(llog, held, x[1], x[2])

-----------------------------------------------------------------------------
(* Acknowledgements *)

\* p has the first n entries of the leader of term t, or has moved on.
Acknowledged(llog, p, t, n) ==
  n = 0 \/ currentTerm[p] > t \/ (currentTerm[p] = t /\ Agree(log[p], llog[t], n))

AcksAreSound(llog) ==
  /\ \A s, p \in Server : state[s] = LEADER /\ p # s =>
       Acknowledged(llog, p, currentTerm[s], matchIndex[s][p])
  /\ \A g \in appendCalls : g.pc = "replied" /\ g.reply.Success =>
       Acknowledged(llog, g.peer, g.args.Term, g.args.PrevLogIndex + Len(g.args.Entries))

-----------------------------------------------------------------------------
\* What is inductive without late vote requests: some history fits.
SafetyInvariant ==
  /\ TypeOK /\ IndexInvariant /\ VoteInvariant
  /\ \E led, llog, held : /\ HistoryOK(led, llog, held)
                          /\ CommitsAreSafe(llog, held) /\ AcksAreSound(llog)

=============================================================================
