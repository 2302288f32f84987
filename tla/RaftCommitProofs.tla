-------------------------- MODULE RaftCommitProofs --------------------------
(***************************************************************************)
(* What is committed stays: every later leader has it, so that truncation  *)
(* never reaches it, and what the servers, rounds and requests take for    *)
(* committed is (CommitsAreSafe).  What was acknowledged is there as well  *)
(* (AcksAreSound).                                                         *)
(***************************************************************************)
EXTENDS RaftProofs

USE Zenon

-----------------------------------------------------------------------------
(* Later leaders have what is committed *)

\* An entry that is committed was held by somebody, so its leader has it.
LEMMA CommittedIsHeld ==
  ASSUME NEW led, NEW llog, NEW held, Before(led, llog, held), NEW t, NEW n, Committed(held, t, n)
  PROVE  /\ t \in Nat /\ n \in Nat /\ Led(led, t) /\ Has(llog[t], t, n)
         /\ \E p \in Server : <<p, t, n>> \in held
<1>1. PICK Q \in SUBSET Server : Majority(Cardinality(Q)) /\ \A p \in Q : <<p, t, n>> \in held
  BY DEF Committed
<1>2. PICK p \in Q : TRUE
  BY <1>1 DEF Before, MajoritiesIntersect
<1>3. PICK x : x = <<p, t, n>>
  OBVIOUS
<1>4. x \in held /\ p \in Server
  BY <1>1, <1>2, <1>3
<1>5. x[1] = p /\ x[2] = t /\ x[3] = n
  BY <1>3
<1>6. /\ Led(led, x[2]) /\ Has(llog[x[2]], x[2], x[3])
      /\ x[1] \in Server /\ x[2] \in Nat /\ x[3] \in Nat
  BY <1>4, HeldIsLed DEF Before
<1> QED
  BY <1>3, <1>4, <1>5, <1>6

\* Leader completeness: the first later leader without the entry would have been
\* elected by a majority that shares a server with the one that held it.
LEMMA LaterLeadersHave ==
  ASSUME NEW led, NEW llog, NEW held, Before(led, llog, held), NEW t \in Nat, NEW n \in Nat,
         Committed(held, t, n), NEW u \in Nat, t < u, Led(led, u)
  PROVE  Has(llog[u], t, n)
<1> DEFINE Lacks == {v \in Nat : t < v /\ Led(led, v) /\ ~Has(llog[v], t, n)}
<1> SUFFICES ASSUME Lacks # {} PROVE FALSE
  OBVIOUS
<1>1. PICK v \in Lacks : \A w \in Lacks : v <= w
  BY SmallestExists
<1>2. v \in Nat /\ t < v /\ Led(led, v) /\ ~Has(llog[v], t, n)
  BY <1>1
<1>3. PICK s \in Server : <<s, v>> \in led
  BY <1>2 DEF Led
<1>4. PICK e : e = <<s, v>>
  OBVIOUS
<1>5. e \in led /\ e[1] = s /\ e[2] = v
  BY <1>3, <1>4
<1>6. LeadersCover(led, llog, held)
  BY DEF Before, HistoryOK
<1>7. PICK Q \in SUBSET Server :
        /\ Majority(Cardinality(Q))
        /\ \A p \in Q : Covers(led, llog, held, p, e[2], llog[e[2]], e[2] - 1)
  BY <1>5, <1>6 DEF LeadersCover
<1>8. PICK R \in SUBSET Server : Majority(Cardinality(R)) /\ \A p \in R : <<p, t, n>> \in held
  BY DEF Committed
<1>9. PICK p \in Q : p \in R
  BY <1>7, <1>8 DEF Before, MajoritiesIntersect
<1>10. Covers(led, llog, held, p, v, llog[v], v - 1)
  BY <1>5, <1>7, <1>9
<1>11. PICK x : x = <<p, t, n>>
  OBVIOUS
<1>12. x \in held /\ x[1] = p /\ x[2] = t /\ x[3] = n
  BY <1>8, <1>9, <1>11
<1>13. Kept(led, llog, llog[v], v - 1, t, n)
  BY <1>2, <1>10, <1>12 DEF Covers
<1>14. PICK w \in (t + 1) .. (v - 1) : Led(led, w) /\ ~Has(llog[w], t, n)
  BY <1>2, <1>13 DEF Kept
<1>15. w \in Nat /\ t < w /\ w < v
  BY SMT, <1>2
<1>16. w \in Lacks
  BY <1>14, <1>15
<1>17. v <= w
  BY <1>1, <1>16
<1> QED
  BY SMT, <1>2, <1>15, <1>17

\* So the logs of the two leaders agree up to it.
LEMMA CommittedAgrees ==
  ASSUME NEW led, NEW llog, NEW held, Before(led, llog, held), NEW t \in Nat, NEW n \in Nat,
         Committed(held, t, n), NEW u \in Nat, t <= u, Led(led, u)
  PROVE  Agree(llog[u], llog[t], n)
<1>1. llog \in [Nat -> Seq(LogEntry)] /\ LogsFromLeaders(led, llog)
  BY DEF Before, HistoryOK
<1>2. PICK k \in Seq(LogEntry) : k = llog[u]
  BY <1>1, LeaderLogType
<1>3. Has(llog[t], t, n)
  BY CommittedIsHeld
<1>4. Has(k, t, n)
  <2>1. CASE t = u
    BY <1>2, <1>3, <2>1
  <2>2. CASE t # u
    <3>1. t < u
      BY SMT, <2>2
    <3> QED
      BY <1>2, <3>1, LaterLeadersHave
  <2> QED
    BY <2>1, <2>2
<1>5. u \in DOMAIN llog
  BY <1>1
<1>6. FromLeaders(led, llog, k)
  BY <1>1, <1>2, <1>5 DEF LogsFromLeaders
<1>7. Agree(k, llog[t], n)
  BY <1>4, <1>6 DEF Has, FromLeaders
<1> QED
  BY <1>2, <1>7

-----------------------------------------------------------------------------
(* What is safe *)

\* What is committed stays so as more is held.
LEMMA CommittedGrows ==
  ASSUME NEW held, NEW held2, held \subseteq held2, NEW t, NEW n, Committed(held, t, n)
  PROVE  Committed(held2, t, n)
BY DEF Committed

\* The term and the entry that make a nonempty part of a log safe.
LEMMA SafeMeans ==
  ASSUME NEW led, NEW llog, NEW held, Before(led, llog, held), NEW l, NEW n \in Nat, n # 0, NEW u,
         SafeUpTo(llog, held, l, n, u)
  PROVE  \E t, m \in Nat : /\ t <= u /\ n <= m /\ Agree(l, llog[t], n)
                           /\ Committed(held, t, m) /\ Led(led, t) /\ Has(llog[t], t, m)
<1>1. PICK t \in DOMAIN llog : /\ t <= u /\ Agree(l, llog[t], n)
                               /\ \E m \in n .. Len(llog[t]) : Committed(held, t, m)
  BY DEF SafeUpTo
<1>2. PICK m \in n .. Len(llog[t]) : Committed(held, t, m)
  BY <1>1
<1>3. t \in Nat /\ m \in Nat /\ Led(led, t) /\ Has(llog[t], t, m)
  BY <1>2, CommittedIsHeld
<1>4. n <= m
  <2>1. PICK z : z = Len(llog[t])
    OBVIOUS
  <2>2. m \in n .. z
    BY <2>1
  <2> QED
    BY SMT, <1>3, <2>2
<1> QED
  BY <1>1, <1>2, <1>3, <1>4

\* And conversely.
LEMMA SafeIf ==
  ASSUME NEW llog \in [Nat -> Seq(LogEntry)], NEW held, NEW l, NEW n \in Nat, NEW u,
         NEW t \in Nat, NEW m \in Nat, t <= u, n <= m, Agree(l, llog[t], n),
         Committed(held, t, m), Has(llog[t], t, m)
  PROVE  SafeUpTo(llog, held, l, n, u)
<1>1. PICK z \in Nat : z = Len(llog[t])
  BY LeaderLogType
<1>2. m \in 1 .. z
  BY <1>1 DEF Has
<1>3. m \in n .. z
  BY SMT, <1>2
<1>4. m \in n .. Len(llog[t])
  BY <1>1, <1>3
<1>5. t \in DOMAIN llog
  OBVIOUS
<1> QED
  BY <1>4, <1>5 DEF SafeUpTo

\* What is safe is within the log ...
LEMMA SafeWithin ==
  ASSUME NEW llog, NEW held, NEW l \in Seq(LogEntry), NEW n \in Nat, NEW u, SafeUpTo(llog, held, l, n, u)
  PROVE  n <= Len(l)
<1>1. n = 0 \/ n <= Len(l)
  BY DEF SafeUpTo, Agree
<1> QED
  BY SMT, <1>1

\* ... and in the log of every leader of that term or a later one.
LEMMA LeadersAgree ==
  ASSUME NEW led, NEW llog, NEW held, Before(led, llog, held), NEW l \in Seq(LogEntry), NEW n \in Nat,
         NEW u \in Nat, SafeUpTo(llog, held, l, n, u), NEW v \in Nat, u <= v, Led(led, v)
  PROVE  Agree(l, llog[v], n)
<1>1. llog \in [Nat -> Seq(LogEntry)]
  BY DEF Before, HistoryOK
<1>2. PICK k \in Seq(LogEntry) : k = llog[v]
  BY <1>1, LeaderLogType
<1>3. CASE n = 0
  <2>1. Agree(l, k, n)
    BY SMT, <1>3 DEF Agree
  <2> QED
    BY <1>2, <2>1
<1>4. CASE n # 0
  <2>1. PICK t \in Nat, m \in Nat : /\ t <= u /\ n <= m /\ Agree(l, llog[t], n)
                                    /\ Committed(held, t, m)
    BY <1>4, SafeMeans
  <2>2. t <= v
    BY SMT, <2>1
  <2>3. PICK w \in Seq(LogEntry) : w = llog[t]
    BY <1>1, LeaderLogType
  <2>4. Agree(k, w, m)
    BY <1>2, <2>1, <2>2, <2>3, CommittedAgrees
  <2>5. Agree(l, w, n)
    BY <2>1, <2>3
  <2>6. Agree(l, k, n)
    BY SMT, <2>1, <2>4, <2>5 DEF Agree
  <2> QED
    BY <1>2, <2>6
<1> QED
  BY <1>3, <1>4

\* What is safe stays safe as the history grows.
LEMMA SafeGrows ==
  ASSUME NEW led, NEW llog, NEW held, NEW led2, NEW llog2, NEW held2,
         Before(led, llog, held), Growth(led, llog, held, led2, llog2, held2),
         NEW l \in Seq(LogEntry), NEW k \in Seq(LogEntry), NEW n \in Nat, NEW u \in Nat, NEW u2 \in Nat,
         u <= u2, SafeUpTo(llog, held, l, n, u), Agree(l, k, n)
  PROVE  SafeUpTo(llog2, held2, k, n, u2)
<1>1. CASE n = 0
  BY <1>1 DEF SafeUpTo
<1>2. CASE n # 0
  <2>1. PICK t \in Nat, m \in Nat : /\ t <= u /\ n <= m /\ Agree(l, llog[t], n)
                                    /\ Committed(held, t, m) /\ Led(led, t) /\ Has(llog[t], t, m)
    BY <1>2, SafeMeans
  <2>2. /\ llog \in [Nat -> Seq(LogEntry)] /\ llog2 \in [Nat -> Seq(LogEntry)]
        /\ Grows(led, llog, led2, llog2) /\ held \subseteq held2
    BY DEF Before, HistoryOK, Growth, HistoryTypes, HeldGrows
  <2>3. PICK w \in Seq(LogEntry), w2 \in Seq(LogEntry) : w = llog[t] /\ w2 = llog2[t]
    BY <2>2, LeaderLogType
  <2>4. Agree(w, w2, Len(w)) /\ Agree(l, w, n)
    BY <2>1, <2>2, <2>3 DEF Grows
  <2>5. Agree(k, w2, n)
    BY SMT, <2>4 DEF Agree
  <2>6. Has(llog2[t], t, m)
    BY <2>1, <2>2, GrowsHas
  <2>7. Committed(held2, t, m)
    BY <2>1, <2>2, CommittedGrows
  <2>8. t <= u2
    BY SMT, <2>1
  <2> QED
    BY <2>1, <2>2, <2>3, <2>5, <2>6, <2>7, <2>8, SafeIf
<1> QED
  BY <1>1, <1>2

\* What was applied was committed, and stays so.
LEMMA AppliedGrows ==
  ASSUME NEW led, NEW llog, NEW held, NEW led2, NEW llog2, NEW held2,
         Before(led, llog, held), Growth(led, llog, held, led2, llog2, held2),
         NEW i, NEW c, WasCommitted(llog, held, i, c)
  PROVE  WasCommitted(llog2, held2, i, c)
<1>1. PICK t \in DOMAIN llog : \E m \in 1 .. Len(llog[t]) :
        Committed(held, t, m) /\ i \in 1 .. m /\ llog[t][i].Command = c
  BY DEF WasCommitted
<1>2. PICK m \in 1 .. Len(llog[t]) : Committed(held, t, m) /\ i \in 1 .. m /\ llog[t][i].Command = c
  BY <1>1
<1>3. /\ llog \in [Nat -> Seq(LogEntry)] /\ llog2 \in [Nat -> Seq(LogEntry)]
      /\ Grows(led, llog, led2, llog2) /\ held \subseteq held2
  BY DEF Before, HistoryOK, Growth, HistoryTypes, HeldGrows
<1>4. t \in Nat /\ t \in DOMAIN llog2
  BY <1>3
<1>5. PICK w \in Seq(LogEntry), w2 \in Seq(LogEntry) : w = llog[t] /\ w2 = llog2[t]
  BY <1>3, <1>4, LeaderLogType
<1>6. Led(led, t)
  BY <1>2, CommittedIsHeld
<1>7. Agree(w, w2, Len(w))
  BY <1>3, <1>4, <1>5, <1>6 DEF Grows
<1>8. m \in 1 .. Len(w) /\ i \in 1 .. m /\ w[i].Command = c
  BY <1>2, <1>5
<1>9. m \in 1 .. Len(w2) /\ i \in 1 .. m /\ w2[i].Command = c
  BY SMT, <1>7, <1>8 DEF Agree
<1>10. Committed(held2, t, m)
  BY <1>2, <1>3, CommittedGrows
<1> QED
  BY <1>4, <1>5, <1>9, <1>10 DEF WasCommitted

\* There is one committed command for an index.
LEMMA AppliedOnce ==
  ASSUME NEW led, NEW llog, NEW held, Before(led, llog, held), NEW i, NEW c, NEW d,
         WasCommitted(llog, held, i, c), WasCommitted(llog, held, i, d)
  PROVE  c = d
<1> DEFINE At(t, m, x) == /\ t \in Nat /\ m \in Nat /\ Committed(held, t, m) /\ i \in 1 .. m
                          /\ llog[t][i].Command = x
<1>1. ASSUME NEW x, WasCommitted(llog, held, i, x) PROVE \E t, m : At(t, m, x)
  <2>1. PICK t \in DOMAIN llog : \E m \in 1 .. Len(llog[t]) :
          Committed(held, t, m) /\ i \in 1 .. m /\ llog[t][i].Command = x
    BY <1>1 DEF WasCommitted
  <2>2. PICK m \in 1 .. Len(llog[t]) : Committed(held, t, m) /\ i \in 1 .. m /\ llog[t][i].Command = x
    BY <2>1
  <2>3. t \in Nat /\ m \in Nat
    BY <2>2, CommittedIsHeld
  <2> QED
    BY <2>2, <2>3
<1>2. ASSUME NEW t, NEW m, NEW x, At(t, m, x), NEW u, NEW n, NEW y, At(u, n, y), t <= u
      PROVE  x = y
  <2>1. llog \in [Nat -> Seq(LogEntry)] /\ Led(led, u)
    BY <1>2, CommittedIsHeld DEF Before, HistoryOK
  <2>2. Agree(llog[u], llog[t], m)
    BY <1>2, <2>1, CommittedAgrees
  <2> QED
    BY <1>2, <2>2 DEF Agree
<1>3. PICK t, m : At(t, m, c)
  BY <1>1
<1>4. PICK u, n : At(u, n, d)
  BY <1>1
<1>5. t <= u \/ u <= t
  BY SMT, <1>3, <1>4
<1> HIDE DEF At
<1>6. CASE t <= u
  BY <1>2, <1>3, <1>4, <1>6
<1>7. CASE u <= t
  <2>1. d = c
    BY <1>2, <1>3, <1>4, <1>7
  <2> QED
    BY <2>1
<1> QED
  BY <1>5, <1>6, <1>7

-----------------------------------------------------------------------------
(* What the invariants give *)

\* A state, its history and what is safe in it.
Safe(led, llog, held) == Before(led, llog, held) /\ CommitsAreSafe(llog, held)

\* checkApply stays inside the log.
LEMMA SafeCommitWithinLog ==
  ASSUME NEW led, NEW llog, NEW held, Safe(led, llog, held)
  PROVE  CommitWithinLog
<1> SUFFICES ASSUME NEW s \in Server
             PROVE  lastApplied[s] <= commitIndex[s] /\ commitIndex[s] <= Len(log[s])
  BY DEF CommitWithinLog
<1>1. ServerCommits(llog, held, s)
  BY DEF Safe, CommitsAreSafe
<1>2. log[s] \in Seq(LogEntry) /\ commitIndex[s] \in Nat
  BY DEF Safe, Before, IInv, TypeOK
<1> QED
  BY <1>1, <1>2, SafeWithin DEF ServerCommits

\* A leader has what others know to be committed.
LEMMA SafeLeaderCompleteness ==
  ASSUME NEW led, NEW llog, NEW held, Safe(led, llog, held)
  PROVE  LeaderCompleteness
<1> SUFFICES ASSUME NEW s \in Server, NEW t \in Server, state[s] = LEADER, currentTerm[t] <= currentTerm[s]
             PROVE  /\ commitIndex[t] <= Len(log[s])
                    /\ \A i \in 1 .. commitIndex[t] : log[s][i] = log[t][i]
  BY DEF LeaderCompleteness
<1>1. Before(led, llog, held) /\ ServerCommits(llog, held, t)
  BY DEF Safe, CommitsAreSafe
<1>2. /\ log[t] \in Seq(LogEntry) /\ commitIndex[t] \in Nat
      /\ currentTerm[s] \in Nat /\ currentTerm[t] \in Nat
  BY <1>1 DEF Before, IInv, TypeOK
<1>3. Led(led, currentTerm[s]) /\ llog[currentTerm[s]] = log[s]
  BY <1>1 DEF Before, HistoryOK, LeadersOnRecord, Led
<1>4. Agree(log[t], llog[currentTerm[s]], commitIndex[t])
  BY <1>1, <1>2, <1>3, LeadersAgree DEF ServerCommits
<1> QED
  BY <1>3, <1>4 DEF Agree

\* Nobody is told two commands for an index.
LEMMA SafeStateMachines ==
  ASSUME NEW led, NEW llog, NEW held, Safe(led, llog, held)
  PROVE  StateMachineSafety
<1> SUFFICES ASSUME NEW x \in applied, NEW y \in applied, x[1] = y[1] PROVE x[2] = y[2]
  BY DEF StateMachineSafety
<1>1. Before(led, llog, held)
  BY DEF Safe
<1>2. WasCommitted(llog, held, x[1], x[2]) /\ WasCommitted(llog, held, x[1], y[2])
  BY DEF Safe, CommitsAreSafe
<1> QED
  BY SMT, <1>1, <1>2, AppliedOnce

\* A request reaches as far as its LeaderCommit.
LEMMA CallCovered ==
  ASSUME NEW led, NEW llog, NEW held, Safe(led, llog, held), NEW g \in appendCalls, g.pc # "ready"
  PROVE  LateCommits(llog, held, g.args)
<1>1. IInv
  BY DEF Safe, Before
<1>2. g \in AppendCall /\ g.round \in DOMAIN rounds /\ rounds[g.round] \in Round
  BY <1>1 DEF IInv, TypeOK
<1>3. PICK r \in Round : r = rounds[g.round]
  BY <1>2
<1>4. PICK a \in AppendEntriesArgs : a = g.args
  BY <1>2 DEF AppendCall
<1>5. a.LeaderCommit = r.currentCommitIndex /\ r.currentLogLen <= a.PrevLogIndex + Len(a.Entries) + 1
  BY <1>3, <1>4 DEF Safe, CommitsAreSafe, CallCommits
<1>6. RoundCommits(llog, held, r)
  BY <1>2, <1>3 DEF Safe, CommitsAreSafe
<1>7. a.Term = r.currentTerm
  BY <1>1, <1>3, <1>4 DEF IInv, IndexInvariant, AppendCallOK
<1>8. /\ a.PrevLogIndex \in Nat /\ Len(a.Entries) \in Nat
      /\ r.currentLogLen \in Nat /\ r.currentCommitIndex \in Nat
  <2>1. a.Entries \in Seq(LogEntry) /\ a.PrevLogIndex \in Nat
    BY DEF AppendEntriesArgs
  <2> QED
    BY SMT, <2>1 DEF Round
<1>9. r.currentCommitIndex < r.currentLogLen
  BY <1>6 DEF RoundCommits
<1>10. a.LeaderCommit <= a.PrevLogIndex + Len(a.Entries)
  BY SMT, <1>5, <1>8, <1>9
<1>11. SafeUpTo(llog, held, llog[a.Term], a.LeaderCommit, a.Term)
  BY <1>5, <1>6, <1>7 DEF RoundCommits
<1> QED
  BY <1>4, <1>10, <1>11 DEF LateCommits

\* LeaderCommit never reaches beyond the entries of its request.
LEMMA SafeLeaderCommit ==
  ASSUME NEW led, NEW llog, NEW held, Safe(led, llog, held)
  PROVE  LeaderCommitIsCovered
<1>1. ASSUME NEW g \in appendCalls PROVE g.args.LeaderCommit <= g.args.PrevLogIndex + Len(g.args.Entries)
  <2>1. CASE g.pc = "ready"
    <3>1. g.args = NoAppendArgs
      BY <2>1 DEF Safe, CommitsAreSafe, CallCommits
    <3> QED
      BY SMT, <3>1 DEF NoAppendArgs
  <2>2. CASE g.pc # "ready"
    BY <2>2, CallCovered DEF LateCommits
  <2> QED
    BY <2>1, <2>2
<1>2. \A m \in lateAppends : m.args.LeaderCommit <= m.args.PrevLogIndex + Len(m.args.Entries)
  BY DEF Safe, CommitsAreSafe, LateCommits
<1> QED
  BY <1>1, <1>2 DEF LeaderCommitIsCovered

-----------------------------------------------------------------------------
(* A step, and the parts of CommitsAreSafe after it *)

\* A step from a state in which commits are safe, and the history after it.
Step(led, llog, held, led2, llog2, held2) ==
  /\ Safe(led, llog, held) /\ IInv' /\ \A s \in Server : VoteMoves(s)
  /\ Follows(led, llog, held, led2, llog2, held2)

\* What a step gives.
LEMMA StepMeans ==
  ASSUME NEW led, NEW llog, NEW held, NEW led2, NEW llog2, NEW held2,
         Step(led, llog, held, led2, llog2, held2)
  PROVE  /\ Before(led, llog, held) /\ Growth(led, llog, held, led2, llog2, held2)
         /\ llog \in [Nat -> Seq(LogEntry)] /\ llog2 \in [Nat -> Seq(LogEntry)]
         /\ Grows(led, llog, led2, llog2) /\ held \subseteq held2
         /\ \A s \in Server : /\ currentTerm[s] \in Nat /\ currentTerm'[s] \in Nat
                              /\ currentTerm[s] <= currentTerm'[s]
                              /\ log[s] \in Seq(LogEntry) /\ log'[s] \in Seq(LogEntry)
                              /\ commitIndex[s] \in Nat /\ commitIndex'[s] \in Nat
<1>1. Before(led, llog, held) /\ Growth(led, llog, held, led2, llog2, held2)
  BY DEF Step, Safe, Follows
<1>2. /\ llog \in [Nat -> Seq(LogEntry)] /\ llog2 \in [Nat -> Seq(LogEntry)]
      /\ Grows(led, llog, led2, llog2) /\ held \subseteq held2
  BY <1>1 DEF Before, HistoryOK, Growth, HistoryTypes, HeldGrows
<1>3. \A s \in Server : /\ currentTerm[s] \in Nat /\ log[s] \in Seq(LogEntry) /\ commitIndex[s] \in Nat
  BY <1>1 DEF Before, IInv, TypeOK
<1>4. \A s \in Server : /\ currentTerm'[s] \in Nat /\ log'[s] \in Seq(LogEntry) /\ commitIndex'[s] \in Nat
  BY DEF Step, IInv, TypeOK
<1>5. ASSUME NEW s \in Server PROVE currentTerm[s] <= currentTerm'[s]
  <2>1. currentTerm'[s] >= currentTerm[s]
    BY DEF Step, VoteMoves
  <2> QED
    BY <1>3, <1>4, <2>1
<1> QED
  BY <1>1, <1>2, <1>3, <1>4, <1>5

\* A server that keeps what it knows to be committed.
LEMMA ServerStays ==
  ASSUME NEW led, NEW llog, NEW held, NEW led2, NEW llog2, NEW held2,
         Step(led, llog, held, led2, llog2, held2), NEW s \in Server,
         Agree(log[s], log'[s], commitIndex[s]),
         commitIndex'[s] = commitIndex[s], lastApplied'[s] = lastApplied[s]
  PROVE  ServerCommits(llog2, held2, s)'
<1>1. /\ Before(led, llog, held) /\ Growth(led, llog, held, led2, llog2, held2)
      /\ currentTerm[s] \in Nat /\ currentTerm'[s] \in Nat /\ currentTerm[s] <= currentTerm'[s]
      /\ log[s] \in Seq(LogEntry) /\ log'[s] \in Seq(LogEntry) /\ commitIndex[s] \in Nat
  BY StepMeans
<1>2. lastApplied[s] <= commitIndex[s] /\ SafeUpTo(llog, held, log[s], commitIndex[s], currentTerm[s])
  BY DEF Step, Safe, CommitsAreSafe, ServerCommits
<1>3. SafeUpTo(llog2, held2, log'[s], commitIndex[s], currentTerm'[s])
  BY <1>1, <1>2, SafeGrows
<1> QED
  BY <1>2, <1>3 DEF ServerCommits

\* In particular one whose log stays or grows.
LEMMA ServerGrows ==
  ASSUME NEW led, NEW llog, NEW held, NEW led2, NEW llog2, NEW held2,
         Step(led, llog, held, led2, llog2, held2), NEW s \in Server,
         log'[s] = log[s] \/ Agree(log[s], log'[s], Len(log[s])),
         commitIndex'[s] = commitIndex[s], lastApplied'[s] = lastApplied[s]
  PROVE  ServerCommits(llog2, held2, s)'
<1>1. PICK l \in Seq(LogEntry), k \in Seq(LogEntry), n \in Nat :
        l = log[s] /\ k = log'[s] /\ n = commitIndex[s]
  BY StepMeans
<1>2. SafeUpTo(llog, held, l, n, currentTerm[s])
  BY <1>1 DEF Step, Safe, CommitsAreSafe, ServerCommits
<1>3. n <= Len(l)
  BY <1>2, SafeWithin
<1>4. k = l \/ Agree(l, k, Len(l))
  BY <1>1
<1>5. Agree(l, k, n)
  BY SMT, <1>3, <1>4 DEF Agree
<1> QED
  BY <1>1, <1>5, ServerStays

\* A log of record that is safe stays safe.
LEMMA RecordGrows ==
  ASSUME NEW led, NEW llog, NEW held, NEW led2, NEW llog2, NEW held2,
         Step(led, llog, held, led2, llog2, held2), NEW t \in Nat, NEW n \in Nat,
         Led(led, t), SafeUpTo(llog, held, llog[t], n, t)
  PROVE  SafeUpTo(llog2, held2, llog2[t], n, t)
<1>1. /\ Before(led, llog, held) /\ Growth(led, llog, held, led2, llog2, held2)
      /\ llog \in [Nat -> Seq(LogEntry)] /\ llog2 \in [Nat -> Seq(LogEntry)]
      /\ Grows(led, llog, led2, llog2)
  BY StepMeans
<1>2. PICK w \in Seq(LogEntry), w2 \in Seq(LogEntry) : w = llog[t] /\ w2 = llog2[t]
  BY <1>1, LeaderLogType
<1>3. Agree(w, w2, Len(w)) /\ SafeUpTo(llog, held, w, n, t)
  BY <1>1, <1>2 DEF Grows
<1>4. n <= Len(w)
  BY <1>3, SafeWithin
<1>5. Agree(w, w2, n) /\ t <= t
  BY SMT, <1>3, <1>4 DEF Agree
<1>6. SafeUpTo(llog2, held2, w2, n, t)
  BY <1>1, <1>3, <1>5, SafeGrows
<1> QED
  BY <1>2, <1>6

\* A round goes on; the servers it adds hold its last entry.
RoundGoesOn(held2, k) ==
  /\ k \in DOMAIN rounds /\ rounds'[k] = [rounds[k] EXCEPT !.replicated = rounds'[k].replicated]
  /\ rounds[k].changeCommit => \A p \in rounds'[k].replicated :
       p \in rounds[k].replicated \/ <<p, rounds[k].currentTerm, rounds[k].currentLogLen - 1>> \in held2

\* What such a round keeps.
LEMMA SameRound ==
  ASSUME IInv, NEW k \in DOMAIN rounds, rounds'[k] = [rounds[k] EXCEPT !.replicated = rounds'[k].replicated]
  PROVE  /\ rounds[k] \in Round
         /\ rounds'[k].currentTerm = rounds[k].currentTerm
         /\ rounds'[k].currentLogLen = rounds[k].currentLogLen
         /\ rounds'[k].changeCommit = rounds[k].changeCommit
         /\ rounds'[k].currentCommitIndex = rounds[k].currentCommitIndex
         /\ rounds'[k].leader = rounds[k].leader
<1>1. rounds[k] \in Round
  BY DEF IInv, TypeOK
<1> QED
  BY <1>1 DEF Round

\* The commits of a round of a leader of record stay safe as the history grows.
LEMMA RoundGrows ==
  ASSUME NEW led, NEW llog, NEW held, NEW led2, NEW llog2, NEW held2,
         Step(led, llog, held, led2, llog2, held2),
         NEW r \in Round, Led(led, r.currentTerm), RoundCommits(llog, held, r), NEW r2,
         r2.currentTerm = r.currentTerm, r2.currentLogLen = r.currentLogLen,
         r2.changeCommit = r.changeCommit, r2.currentCommitIndex = r.currentCommitIndex,
         r.changeCommit => \A p \in r2.replicated :
           p \in r.replicated \/ <<p, r.currentTerm, r.currentLogLen - 1>> \in held2
  PROVE  RoundCommits(llog2, held2, r2)
<1>1. PICK n : n = r.currentLogLen - 1
  OBVIOUS
<1>2. PICK t \in Nat : t = r.currentTerm /\ n = r.currentLogLen - 1
  BY <1>1 DEF Round
<1>3. r.currentCommitIndex \in Nat
  BY DEF Round
<1>4. /\ llog \in [Nat -> Seq(LogEntry)] /\ llog2 \in [Nat -> Seq(LogEntry)]
      /\ Grows(led, llog, led2, llog2) /\ held \subseteq held2
  BY StepMeans
<1>5. Led(led, t) /\ SafeUpTo(llog, held, llog[t], r.currentCommitIndex, t)
  BY <1>2 DEF RoundCommits
<1>6. SafeUpTo(llog2, held2, llog2[t], r.currentCommitIndex, t)
  BY <1>3, <1>5, RecordGrows
<1>7. ASSUME r.changeCommit
      PROVE  Has(llog2[t], t, n) /\ \A p \in r2.replicated : <<p, t, n>> \in held2
  <2>1. Has(llog[t], t, n) /\ \A p \in r.replicated : <<p, t, n>> \in held
    BY <1>2, <1>7 DEF RoundCommits
  <2>2. n \in Nat
    <3>1. PICK z \in Nat : z = Len(llog[t])
      BY <1>4, LeaderLogType
    <3>2. n \in 1 .. z
      BY <2>1, <3>1 DEF Has
    <3> QED
      BY SMT, <3>2
  <2>3. Has(llog2[t], t, n)
    BY <1>4, <1>5, <2>1, <2>2, GrowsHas
  <2>4. \A p \in r2.replicated : p \in r.replicated \/ <<p, t, n>> \in held2
    BY <1>2, <1>7
  <2> QED
    BY <1>4, <2>1, <2>3, <2>4
<1>8. r.currentCommitIndex < r.currentLogLen
  BY DEF RoundCommits
<1> QED
  BY <1>2, <1>6, <1>7, <1>8 DEF RoundCommits

\* In particular those of a round that goes on.
LEMMA RoundStays ==
  ASSUME NEW led, NEW llog, NEW held, NEW led2, NEW llog2, NEW held2,
         Step(led, llog, held, led2, llog2, held2), NEW k, RoundGoesOn(held2, k)
  PROVE  RoundCommits(llog2, held2, rounds'[k])
<1>1. Before(led, llog, held) /\ k \in DOMAIN rounds
  BY StepMeans DEF RoundGoesOn
<1>2. PICK r2 : r2 = rounds'[k]
  OBVIOUS
<1>3. PICK r \in Round : /\ r = rounds[k] /\ r2 = rounds'[k]
                         /\ r2.currentTerm = r.currentTerm /\ r2.currentLogLen = r.currentLogLen
                         /\ r2.changeCommit = r.changeCommit
                         /\ r2.currentCommitIndex = r.currentCommitIndex
  BY <1>1, <1>2, SameRound DEF Before, RoundGoesOn
<1>4. RoundCommits(llog, held, r)
  BY <1>1, <1>3 DEF Step, Safe, CommitsAreSafe
<1>5. Led(led, r.currentTerm)
  <2>1. <<r.leader, r.currentTerm>> \in led
    BY <1>1, <1>3 DEF Before, HistoryOK, RequestsFromLeaders
  <2>2. r.leader \in Server
    BY DEF Round
  <2> QED
    BY <2>1, <2>2 DEF Led
<1>6. r.changeCommit => \A p \in r2.replicated :
        p \in r.replicated \/ <<p, r.currentTerm, r.currentLogLen - 1>> \in held2
  BY <1>3 DEF RoundGoesOn
<1>7. RoundCommits(llog2, held2, r2)
  BY <1>3, <1>4, <1>5, <1>6, RoundGrows
<1> QED
  BY <1>3, <1>7

\* A goroutine that does not move goes on in its round.
LEMMA CallStays ==
  ASSUME NEW led, NEW llog, NEW held, NEW led2, NEW llog2, NEW held2,
         Step(led, llog, held, led2, llog2, held2),
         NEW g \in appendCalls, RoundGoesOn(held2, g.round)
  PROVE  CallCommits(held2, g)'
<1>1. IInv /\ held \subseteq held2 /\ CallCommits(held, g)
  BY StepMeans DEF Step, Safe, Before, CommitsAreSafe
<1>2. /\ g.round \in DOMAIN rounds
      /\ rounds'[g.round] = [rounds[g.round] EXCEPT !.replicated = rounds'[g.round].replicated]
  BY DEF RoundGoesOn
<1>3. PICK r, r2 : /\ r = rounds[g.round] /\ r2 = rounds'[g.round]
                   /\ r2.currentTerm = r.currentTerm /\ r2.currentLogLen = r.currentLogLen
                   /\ r2.changeCommit = r.changeCommit
                   /\ r2.currentCommitIndex = r.currentCommitIndex
  BY <1>1, <1>2, SameRound
<1>4. CASE g.pc = "ready"
  BY <1>1, <1>4 DEF CallCommits
<1>5. CASE g.pc # "ready"
  <2>1. /\ g.args.LeaderCommit = r.currentCommitIndex
        /\ r.currentLogLen <= g.args.PrevLogIndex + Len(g.args.Entries) + 1
        /\ g.pc = "replied" /\ g.reply.Success /\ r.changeCommit =>
             <<g.peer, r.currentTerm, r.currentLogLen - 1>> \in held
    BY <1>1, <1>3, <1>5 DEF CallCommits
  <2>2. /\ g.args.LeaderCommit = r2.currentCommitIndex
        /\ r2.currentLogLen <= g.args.PrevLogIndex + Len(g.args.Entries) + 1
        /\ g.pc = "replied" /\ g.reply.Success /\ r2.changeCommit =>
             <<g.peer, r2.currentTerm, r2.currentLogLen - 1>> \in held2
    BY <1>1, <1>3, <2>1
  <2> QED
    BY <1>3, <1>5, <2>2 DEF CallCommits
<1> QED
  BY <1>4, <1>5

\* A goroutine about to build its request has none.
LEMMA ReadyCommits ==
  ASSUME NEW held, NEW g, g.pc = "ready", g.args = NoAppendArgs
  PROVE  CallCommits(held, g)'
BY DEF CallCommits

\* A request under way stays right when the history grows.
LEMMA LateGrows ==
  ASSUME NEW led, NEW llog, NEW held, NEW led2, NEW llog2, NEW held2,
         Step(led, llog, held, led2, llog2, held2), NEW a \in AppendEntriesArgs, NEW p,
         SliceOK(led, llog, p, a), LateCommits(llog, held, a)
  PROVE  LateCommits(llog2, held2, a)
<1>1. a.Term \in Nat /\ a.LeaderCommit \in Nat
  BY DEF AppendEntriesArgs
<1>2. Led(led, a.Term)
  BY DEF SliceOK
<1>3. SafeUpTo(llog2, held2, llog2[a.Term], a.LeaderCommit, a.Term)
  BY <1>1, <1>2, RecordGrows DEF LateCommits
<1> QED
  BY <1>3 DEF LateCommits

\* So do the requests nobody waits for.
LEMMA LateStays ==
  ASSUME NEW led, NEW llog, NEW held, NEW led2, NEW llog2, NEW held2,
         Step(led, llog, held, led2, llog2, held2), NEW m,
         m \in lateAppends \/ \E h \in appendCalls : h.pc # "ready" /\ m.to = h.peer /\ m.args = h.args
  PROVE  LateCommits(llog2, held2, m.args)
<1>1. Safe(led, llog, held) /\ IInv /\ RequestsFromLeaders(led, llog)
  BY DEF Step, Safe, Before, HistoryOK
<1>2. CASE m \in lateAppends
  <2>1. m \in [to : Server, args : AppendEntriesArgs]
    BY <1>1, <1>2 DEF IInv, TypeOK
  <2>2. m.args \in AppendEntriesArgs
    BY <2>1
  <2>3. SliceOK(led, llog, m.to, m.args) /\ LateCommits(llog, held, m.args)
    BY <1>1, <1>2 DEF RequestsFromLeaders, Safe, CommitsAreSafe
  <2> QED
    BY <2>2, <2>3, LateGrows
<1>3. ASSUME NEW h \in appendCalls, h.pc # "ready", m.to = h.peer, m.args = h.args
      PROVE  LateCommits(llog2, held2, m.args)
  <2>1. h \in AppendCall
    BY <1>1 DEF IInv, TypeOK
  <2>2. h.args \in AppendEntriesArgs
    BY <2>1 DEF AppendCall
  <2>3. SliceOK(led, llog, h.peer, h.args)
    BY <1>1, <1>3 DEF RequestsFromLeaders
  <2>4. LateCommits(llog, held, h.args)
    BY <1>1, <1>3, CallCovered
  <2> QED
    BY <1>3, <2>2, <2>3, <2>4, LateGrows
<1> QED
  BY <1>2, <1>3

\* What is left to show for a step: its new rounds, its goroutines that move and
\* what it applies.
LEMMA CommitsGoOn ==
  ASSUME NEW led, NEW llog, NEW held, NEW led2, NEW llog2, NEW held2,
         Step(led, llog, held, led2, llog2, held2),
         \A s \in Server : ServerCommits(llog2, held2, s)',
         \A k \in DOMAIN rounds' : IF k \in DOMAIN rounds THEN RoundGoesOn(held2, k)
                                   ELSE RoundCommits(llog2, held2, rounds'[k]),
         \A g \in appendCalls' : g \in appendCalls \/ CallCommits(held2, g)',
         \A m \in lateAppends' :
           m \in lateAppends \/ \E h \in appendCalls : h.pc # "ready" /\ m.to = h.peer /\ m.args = h.args,
         \A x \in applied' : x \in applied \/ WasCommitted(llog, held, x[1], x[2])
  PROVE  CommitsAreSafe(llog2, held2)'
<1>1. \A k \in DOMAIN rounds' : RoundCommits(llog2, held2, rounds'[k])
  BY RoundStays
<1>2. ASSUME NEW g \in appendCalls', g \in appendCalls PROVE CallCommits(held2, g)'
  <2>1. g.round \in DOMAIN rounds' /\ g.round \in DOMAIN rounds
    BY <1>2 DEF Step, Safe, Before, IInv, TypeOK
  <2> QED
    BY <1>2, <2>1, CallStays
<1>3. \A m \in lateAppends' : LateCommits(llog2, held2, m.args)
  BY LateStays
<1>4. ASSUME NEW x \in applied' PROVE WasCommitted(llog2, held2, x[1], x[2])
  <2>1. PICK i, c : i = x[1] /\ c = x[2]
    OBVIOUS
  <2>2. WasCommitted(llog, held, i, c)
    BY <2>1 DEF Step, Safe, CommitsAreSafe
  <2>3. Before(led, llog, held) /\ Growth(led, llog, held, led2, llog2, held2)
    BY StepMeans
  <2>4. WasCommitted(llog2, held2, i, c)
    BY <2>2, <2>3, AppliedGrows
  <2> QED
    BY <2>1, <2>4
<1> QED
  BY <1>1, <1>2, <1>3, <1>4 DEF CommitsAreSafe

\* The same when CallsGoOn is known and nothing is applied.
LEMMA CommitsGoOnWithCalls ==
  ASSUME NEW led, NEW llog, NEW held, NEW led2, NEW llog2, NEW held2,
         Step(led, llog, held, led2, llog2, held2), CallsGoOn, applied' = applied,
         \A s \in Server : ServerCommits(llog2, held2, s)',
         \A k \in DOMAIN rounds' : rounds'[k].replicated = rounds[k].replicated,
         \A g \in appendCalls' : g \in appendCalls \/ CallCommits(held2, g)'
  PROVE  CommitsAreSafe(llog2, held2)'
<1>1. \A k \in DOMAIN rounds' : k \in DOMAIN rounds /\ RoundGoesOn(held2, k)
  BY DEF CallsGoOn, RoundGoesOn
<1>2. \A m \in lateAppends' :
        m \in lateAppends \/ \E h \in appendCalls : h.pc # "ready" /\ m.to = h.peer /\ m.args = h.args
  BY DEF CallsGoOn
<1> QED
  BY <1>1, <1>2, CommitsGoOn

-----------------------------------------------------------------------------
(* The steps that commit nothing *)

\* The rounds that go on have counted nobody else.
LEMMA RunningSame ==
  ASSUME NEW calls, rounds' = Running(rounds, calls) \/ rounds' = rounds
  PROVE  \A k \in DOMAIN rounds' : rounds'[k].replicated = rounds[k].replicated
BY DEF Running

\* Elections and Start leave the commits alone.
LEMMA StillCommits ==
  ASSUME NEW led, NEW llog, NEW held, NEW led2, NEW llog2, NEW held2,
         Step(led, llog, held, led2, llog2, held2),
         UNCHANGED replication, UNCHANGED <<commitIndex, lastApplied, applied>>,
         \A s \in Server : log'[s] = log[s] \/ Agree(log[s], log'[s], Len(log[s]))
  PROVE  CommitsAreSafe(llog2, held2)'
<1>1. rounds' = rounds /\ appendCalls' = appendCalls
  BY DEF replication
<1>2. commitIndex' = commitIndex /\ lastApplied' = lastApplied /\ applied' = applied
  OBVIOUS
<1>3. CallsGoOn
  BY CallsStay DEF Step, Safe, Before
<1>4. \A s \in Server : ServerCommits(llog2, held2, s)'
  BY <1>2, ServerGrows
<1>5. \A k \in DOMAIN rounds' : rounds'[k].replicated = rounds[k].replicated
  BY <1>1
<1> QED
  BY <1>1, <1>2, <1>3, <1>4, <1>5, CommitsGoOnWithCalls

\* A lost call commits nothing.
LEMMA FailCommits ==
  ASSUME NEW led, NEW llog, NEW held, NEW led2, NEW llog2, NEW held2,
         Step(led, llog, held, led2, llog2, held2), NEW g \in appendCalls, AppendEntriesFails(g)
  PROVE  CommitsAreSafe(llog2, held2)'
<1>1. IInv
  BY DEF Step, Safe, Before
<1>2. UNCHANGED durable /\ UNCHANGED volatile /\ applied' = applied
  BY DEF AppendEntriesFails
<1>3. log' = log /\ commitIndex' = commitIndex /\ lastApplied' = lastApplied
  BY <1>2 DEF durable, volatile
<1>4. CallsGoOn
  BY <1>1, SentCallsGoOn
<1>5. \A s \in Server : ServerCommits(llog2, held2, s)'
  BY <1>3, ServerGrows
<1>6. rounds' = Running(rounds, appendCalls')
  BY DEF AppendEntriesFails
<1>7. \A k \in DOMAIN rounds' : rounds'[k].replicated = rounds[k].replicated
  BY <1>6, RunningSame
<1>8. ASSUME NEW x \in appendCalls' PROVE x \in appendCalls \/ CallCommits(held2, x)'
  <2>1. x \in appendCalls \/ x = Again(g)
    BY DEF AppendEntriesFails
  <2>2. g \in AppendCall
    BY <1>1 DEF IInv, TypeOK
  <2>3. Again(g).pc = "ready" /\ Again(g).args = NoAppendArgs
    BY <2>2 DEF Again, AppendCall
  <2> QED
    BY <2>1, <2>3, ReadyCommits
<1> QED
  BY <1>2, <1>4, <1>5, <1>7, <1>8, CommitsGoOnWithCalls

\* A restart forgets what was known to be committed.
LEMMA RebootCommits ==
  ASSUME NEW led, NEW llog, NEW held, NEW led2, NEW llog2, NEW held2,
         Step(led, llog, held, led2, llog2, held2), NEW s \in Server, NEW p, Reboot(s, p),
         lateAppends' \subseteq lateAppends \cup AppendsUnderWay(s)
  PROVE  CommitsAreSafe(llog2, held2)'
<1>1. IInv
  BY DEF Step, Safe, Before
<1>2. CallsGoOn
  BY <1>1, RebootCallsGoOn
<1>3. /\ log' = [log EXCEPT ![s] = p.log] /\ commitIndex' = [commitIndex EXCEPT ![s] = 0]
      /\ lastApplied' = [lastApplied EXCEPT ![s] = 0] /\ applied' = applied
      /\ appendCalls' \subseteq appendCalls /\ rounds' = Running(rounds, appendCalls')
  BY DEF Reboot
<1>4. log \in [Server -> Seq(LogEntry)] /\ commitIndex \in [Server -> Nat] /\ lastApplied \in [Server -> Nat]
  BY <1>1 DEF IInv, TypeOK
<1>5. /\ commitIndex'[s] = 0 /\ lastApplied'[s] = 0 /\ 0 <= 0
      /\ \A q \in Server \ {s} : /\ log'[q] = log[q] /\ commitIndex'[q] = commitIndex[q]
                                 /\ lastApplied'[q] = lastApplied[q]
  BY SMT, <1>3, <1>4
<1>6. ASSUME NEW q \in Server PROVE ServerCommits(llog2, held2, q)'
  <2>1. CASE q = s
    BY <1>5, <2>1 DEF ServerCommits, SafeUpTo
  <2>2. CASE q # s
    BY <1>5, <2>2, ServerGrows
  <2> QED
    BY <2>1, <2>2
<1>7. \A k \in DOMAIN rounds' : rounds'[k].replicated = rounds[k].replicated
  BY <1>3, RunningSame
<1> QED
  BY <1>2, <1>3, <1>6, <1>7, CommitsGoOnWithCalls

\* What checkApply hands out was committed.
LEMMA ApplyCommits ==
  ASSUME NEW led, NEW llog, NEW held, NEW led2, NEW llog2, NEW held2,
         Step(led, llog, held, led2, llog2, held2), NEW s \in Server, checkApply(s)
  PROVE  CommitsAreSafe(llog2, held2)'
<1>1. IInv /\ Before(led, llog, held)
  BY DEF Step, Safe, Before
<1>2. PICK l \in Seq(LogEntry), n \in Nat, z \in Nat :
        l = log[s] /\ n = commitIndex[s] /\ z = lastApplied[s]
  BY <1>1 DEF IInv, TypeOK
<1>3. /\ z < n /\ applied' = applied \cup {<<i, l[i].Command>> : i \in (z + 1) .. n}
      /\ lastApplied' = [lastApplied EXCEPT ![s] = n]
      /\ UNCHANGED durable /\ commitIndex' = commitIndex /\ UNCHANGED replication
  BY <1>2 DEF checkApply
<1>4. log' = log /\ rounds' = rounds /\ appendCalls' = appendCalls /\ lateAppends' = lateAppends
  BY <1>3 DEF durable, replication
<1>5. SafeUpTo(llog, held, l, n, currentTerm[s])
  BY <1>2 DEF Step, Safe, CommitsAreSafe, ServerCommits
<1>6. ASSUME NEW i \in (z + 1) .. n PROVE WasCommitted(llog, held, i, l[i].Command)
  <2>1. n # 0
    BY SMT, <1>3
  <2>2. PICK t \in Nat, m \in Nat : /\ n <= m /\ Agree(l, llog[t], n) /\ Committed(held, t, m)
                                    /\ Has(llog[t], t, m)
    BY <1>1, <1>5, <2>1, SafeMeans
  <2>3. i \in 1 .. n /\ i \in 1 .. m
    BY SMT, <2>2
  <2>4. m \in 1 .. Len(llog[t]) /\ llog[t][i].Command = l[i].Command
    BY <2>2, <2>3 DEF Agree, Has
  <2>5. t \in DOMAIN llog
    <3>1. llog \in [Nat -> Seq(LogEntry)]
      BY <1>1 DEF Before, HistoryOK
    <3> QED
      BY <3>1
  <2> QED
    BY <2>2, <2>3, <2>4, <2>5 DEF WasCommitted
<1>7. ASSUME NEW x \in applied' PROVE x \in applied \/ WasCommitted(llog, held, x[1], x[2])
  <2>1. CASE x \in applied
    BY <2>1
  <2>2. ASSUME NEW i \in (z + 1) .. n, x = <<i, l[i].Command>>
        PROVE  WasCommitted(llog, held, x[1], x[2])
    <3>1. x[1] = i /\ x[2] = l[i].Command
      BY <2>2
    <3> QED
      BY <1>6, <3>1
  <2> QED
    BY <1>3, <2>1, <2>2
<1>8. ASSUME NEW q \in Server PROVE ServerCommits(llog2, held2, q)'
  <2>1. lastApplied \in [Server -> Nat]
    BY <1>1 DEF IInv, TypeOK
  <2>2. CASE q = s
    <3>1. lastApplied'[s] = n /\ n <= n
      BY SMT, <1>3, <2>1
    <3>2. currentTerm[s] \in Nat /\ currentTerm'[s] \in Nat /\ currentTerm[s] <= currentTerm'[s]
          /\ Growth(led, llog, held, led2, llog2, held2)
      BY StepMeans
    <3>3. Agree(l, l, n)
      <4>1. n <= Len(l)
        BY <1>5, SafeWithin
      <4> QED
        BY <4>1 DEF Agree
    <3>4. SafeUpTo(llog2, held2, l, n, currentTerm'[s])
      BY <1>1, <1>5, <3>2, <3>3, SafeGrows
    <3> QED
      BY <1>2, <1>3, <1>4, <2>2, <3>1, <3>4 DEF ServerCommits
  <2>3. CASE q # s
    <3>1. lastApplied'[q] = lastApplied[q]
      BY <1>3, <2>1, <2>3
    <3> QED
      BY <1>3, <1>4, <3>1, ServerGrows
  <2> QED
    BY <2>2, <2>3
<1>9. CallsGoOn
  BY <1>1, <1>3, CallsStay
<1>10. \A k \in DOMAIN rounds' : k \in DOMAIN rounds /\ RoundGoesOn(held2, k)
  BY <1>4, <1>9 DEF CallsGoOn, RoundGoesOn
<1> QED
  BY <1>4, <1>7, <1>8, <1>10, CommitsGoOn

-----------------------------------------------------------------------------
(* sendHeartbeat and its requests *)

\* A round starts with what its leader knows to be committed, and may commit only
\* entries of its own term.
LEMMA FirstCommits ==
  ASSUME NEW led, NEW llog, NEW held, Safe(led, llog, held), NEW s \in Server, state[s] = LEADER,
         NEW r, r = [leader |-> s, currentTerm |-> currentTerm[s], currentLogLen |-> Len(log[s]) + 1,
                     changeCommit |-> changeCommit(s),
                     currentCommitIndex |-> commitIndex[s], replicated |-> {s}]
  PROVE  r \in Round /\ Led(led, r.currentTerm) /\ RoundCommits(llog, held, r)
<1>1. IInv /\ HistoryOK(led, llog, held) /\ ServerCommits(llog, held, s)
  BY DEF Safe, Before, CommitsAreSafe
<1>2. PICK l \in Seq(LogEntry), t \in Nat, c \in Nat :
        l = log[s] /\ t = currentTerm[s] /\ c = commitIndex[s]
  BY <1>1 DEF IInv, TypeOK
<1>3. <<s, t>> \in led /\ llog[t] = l
  BY <1>1, <1>2 DEF HistoryOK, LeadersOnRecord
<1>4. PICK n \in Nat : n = Len(l)
  BY SMT
<1>5. SafeUpTo(llog, held, l, c, t)
  BY <1>1, <1>2 DEF ServerCommits
<1>6. c <= n
  BY <1>4, <1>5, SafeWithin
<1>7. changeCommit(s) \in BOOLEAN
  BY DEF changeCommit
<1>8. /\ r.leader = s /\ r.currentTerm = t /\ r.currentLogLen = n + 1
      /\ r.changeCommit = changeCommit(s) /\ r.currentCommitIndex = c /\ r.replicated = {s}
  BY <1>2, <1>4
<1>9. r \in Round
  <2>1. r = [leader |-> s, currentTerm |-> t, currentLogLen |-> n + 1, changeCommit |-> changeCommit(s),
             currentCommitIndex |-> c, replicated |-> {s}]
    BY <1>2, <1>4
  <2>2. {s} \in SUBSET Server /\ n + 1 \in Nat
    BY SMT
  <2> QED
    BY SMT, <1>7, <2>1, <2>2 DEF Round
<1>10. ASSUME changeCommit(s) PROVE Has(l, t, n) /\ <<s, t, n>> \in held
  <2>1. LastTerm(l) = t
    BY <1>2, <1>10 DEF changeCommit
  <2>2. t > 0
    BY <1>1, <1>2 DEF IInv, IndexInvariant
  <2>3. n # 0 /\ l[n].Term = t
    BY SMT, <1>4, <2>1, <2>2 DEF LastTerm, TermAt
  <2>4. n \in 1 .. n
    BY SMT, <2>3
  <2>5. <<s, t, n>> \in held
    BY <1>1, <1>2, <1>4, <2>3, <2>4 DEF HistoryOK, HeldIsKept
  <2> QED
    BY <1>4, <2>3, <2>4, <2>5 DEF Has
<1>11. c < n + 1 /\ n + 1 - 1 = n
  BY SMT, <1>6
<1>12. \A p \in r.replicated : p = s
  BY <1>8
<1>13. RoundCommits(llog, held, r)
  <2>1. SafeUpTo(llog, held, llog[r.currentTerm], r.currentCommitIndex, r.currentTerm)
    BY <1>3, <1>5, <1>8
  <2>2. r.currentCommitIndex < r.currentLogLen
    BY <1>8, <1>11
  <2>3. ASSUME r.changeCommit
        PROVE  /\ Has(llog[r.currentTerm], r.currentTerm, r.currentLogLen - 1)
               /\ \A p \in r.replicated : <<p, r.currentTerm, r.currentLogLen - 1>> \in held
    <3>1. Has(l, t, n) /\ <<s, t, n>> \in held
      BY <1>8, <1>10, <2>3
    <3>2. r.currentLogLen - 1 = n
      BY SMT, <1>8
    <3> QED
      BY <1>3, <1>8, <1>12, <3>1, <3>2
  <2> QED
    BY <2>1, <2>2, <2>3 DEF RoundCommits
<1> QED
  BY <1>3, <1>8, <1>9, <1>13 DEF Led

\* sendHeartbeat.
LEMMA HeartbeatCommits ==
  ASSUME NEW led, NEW llog, NEW held, NEW led2, NEW llog2, NEW held2,
         Step(led, llog, held, led2, llog2, held2), NEW s \in Server, sendHeartbeat(s)
  PROVE  CommitsAreSafe(llog2, held2)'
<1> DEFINE i0 == CHOOSE i \in FreeRounds(s) : \A j \in FreeRounds(s) : i <= j
           k0 == <<s, i0>>
           r == [leader |-> s, currentTerm |-> currentTerm[s], currentLogLen |-> Len(log[s]) + 1,
                 changeCommit |-> changeCommit(s),
                 currentCommitIndex |-> commitIndex[s], replicated |-> {s}]
           calls == {[round |-> k0, peer |-> p, pc |-> "ready",
                      args |-> NoAppendArgs, reply |-> NoAppendReply] : p \in Server \ {s}}
<1>1. /\ appendCalls' = appendCalls \cup calls
      /\ rounds' = [k \in {g.round : g \in appendCalls'} |-> IF k = k0 THEN r ELSE rounds[k]]
      /\ FreeRounds(s) # {} /\ lateAppends' = lateAppends /\ state[s] = LEADER
      /\ UNCHANGED durable /\ UNCHANGED volatile /\ applied' = applied
  BY DEF sendHeartbeat
<1>2. i0 \in FreeRounds(s)
  <2>1. FreeRounds(s) \in SUBSET Nat
    BY SMT DEF FreeRounds
  <2>2. \E i \in FreeRounds(s) : \A j \in FreeRounds(s) : i <= j
    BY <1>1, <2>1, SmallestExists
  <2> QED
    BY <2>2
<1>3. k0 \notin DOMAIN rounds
  BY <1>2 DEF FreeRounds
<1>4. \A g \in calls : g.round = k0 /\ g.pc = "ready" /\ g.args = NoAppendArgs
  BY SMT
<1>5. PICK r0 : r0 = r
  OBVIOUS
<1>6. r0 \in Round /\ Led(led, r0.currentTerm) /\ RoundCommits(llog, held, r0)
  BY <1>1, <1>5, FirstCommits DEF Step
<1> HIDE DEF k0, r, calls
<1>7. IInv
  BY DEF Step, Safe, Before
<1>8. \A g \in appendCalls : g.round \in DOMAIN rounds
  BY <1>7 DEF IInv, TypeOK
<1>9. log' = log /\ commitIndex' = commitIndex /\ lastApplied' = lastApplied
  BY <1>1 DEF durable, volatile
<1>10. \A q \in Server : ServerCommits(llog2, held2, q)'
  BY <1>9, ServerGrows
<1>11. \A k \in DOMAIN rounds' : IF k = k0 THEN rounds'[k] = r0 ELSE k \in DOMAIN rounds /\ rounds'[k] = rounds[k]
  BY <1>1, <1>4, <1>5, <1>8
<1>12. ASSUME NEW k \in DOMAIN rounds'
       PROVE  IF k \in DOMAIN rounds THEN RoundGoesOn(held2, k) ELSE RoundCommits(llog2, held2, rounds'[k])
  <2>1. CASE k = k0
    <3>1. RoundCommits(llog2, held2, r0)
      BY <1>6, RoundGrows
    <3> QED
      BY <1>3, <1>11, <2>1, <3>1
  <2>2. CASE k # k0
    <3>1. k \in DOMAIN rounds /\ rounds'[k] = rounds[k]
      BY <1>11, <2>2
    <3>2. rounds[k] \in Round
      BY <1>7, <3>1 DEF IInv, TypeOK
    <3>3. rounds[k] = [rounds[k] EXCEPT !.replicated = rounds[k].replicated]
      BY <3>2 DEF Round
    <3> QED
      BY <3>1, <3>3 DEF RoundGoesOn
  <2> QED
    BY <2>1, <2>2
<1>13. \A g \in appendCalls' : g \in appendCalls \/ CallCommits(held2, g)'
  BY <1>1, <1>4, ReadyCommits
<1> QED
  BY <1>1, <1>10, <1>12, <1>13, CommitsGoOn

\* A request carries the round's commit index and all that is left of its log.
LEMMA BuildCommits ==
  ASSUME TypeOK, NEW r \in Round, NEW p \in Server,
         nextIndex[r.leader][p] \in 1 .. Len(log[r.leader]) + 1,
         r.currentLogLen \in 1 .. Len(log[r.leader]) + 1
  PROVE  LET a == BuildAppendEntries(r, p) IN
         /\ a.LeaderCommit = r.currentCommitIndex
         /\ r.currentLogLen <= a.PrevLogIndex + Len(a.Entries) + 1
<1>1. r.leader \in Server
  BY DEF Round
<1>2. PICK l \in Seq(LogEntry) : l = log[r.leader]
  BY <1>1 DEF TypeOK
<1>3. PICK x, y : x = nextIndex[r.leader][p] /\ y = r.currentLogLen
  OBVIOUS
<1>4. x \in 1 .. Len(l) + 1 /\ y \in 1 .. Len(l) + 1
  BY <1>2, <1>3
<1>5. PICK e : e = IF x < y THEN SubSeq(l, x, y - 1) ELSE <<>>
  OBVIOUS
<1>6. PICK a : a = BuildAppendEntries(r, p)
  OBVIOUS
<1>7. a = [Term |-> r.currentTerm, PrevLogIndex |-> x - 1, PrevLogTerm |-> TermAt(l, x - 1),
           Entries |-> e, LeaderCommit |-> r.currentCommitIndex]
  BY <1>2, <1>3, <1>5, <1>6 DEF BuildAppendEntries
<1>8. a.PrevLogIndex = x - 1 /\ a.Entries = e /\ a.LeaderCommit = r.currentCommitIndex
  BY <1>7
<1>9. y <= x - 1 + Len(e) + 1
  BY SMT, <1>4, <1>5
<1> QED
  BY <1>3, <1>6, <1>8, <1>9

\* A goroutine that sends its request.
LEMMA SendCommits ==
  ASSUME NEW led, NEW llog, NEW held, NEW led2, NEW llog2, NEW held2,
         Step(led, llog, held, led2, llog2, held2), NEW g \in appendCalls, sendAppendEntries(g)
  PROVE  CommitsAreSafe(llog2, held2)'
<1>1. IInv /\ IInv'
  BY DEF Step, Safe, Before
<1>2. PICK r \in Round : r = rounds[g.round]
  BY <1>1 DEF IInv, TypeOK
<1>3. g \in AppendCall /\ g.round \in DOMAIN rounds /\ g.peer \in Server
  BY <1>1 DEF IInv, TypeOK, AppendCall
<1>4. /\ UNCHANGED durable /\ UNCHANGED volatile /\ applied' = applied /\ lateAppends' = lateAppends
      /\ rounds' = Running(rounds, appendCalls')
  BY DEF sendAppendEntries
<1>5. log' = log /\ commitIndex' = commitIndex /\ lastApplied' = lastApplied
  BY <1>4 DEF durable, volatile
<1>6. \A q \in Server : ServerCommits(llog2, held2, q)'
  BY <1>5, ServerGrows
<1>7. \A k \in DOMAIN rounds' : rounds'[k].replicated = rounds[k].replicated
  BY <1>4, RunningSame
<1>8. CASE ~StillLeads(r)
  <2>1. appendCalls' = appendCalls \ {g}
    BY <1>2, <1>8 DEF sendAppendEntries
  <2>2. CallsGoOn
    BY <1>1, <1>2, <1>8, IdleCallGoesOn
  <2>3. \A x \in appendCalls' : x \in appendCalls
    BY <2>1
  <2> QED
    BY <1>4, <1>6, <1>7, <2>2, <2>3, CommitsGoOnWithCalls
<1>9. CASE StillLeads(r)
  <2>1. PICK a, h : /\ a = BuildAppendEntries(r, g.peer)
                    /\ h = [g EXCEPT !.pc = "sent", !.args = a, !.reply = NoAppendReply]
    OBVIOUS
  <2>2. appendCalls' = (appendCalls \ {g}) \cup {h}
    BY <1>2, <1>9, <2>1 DEF sendAppendEntries
  <2>3. h.round = g.round /\ h.pc = "sent" /\ h.args = a
    BY <1>3, <2>1 DEF AppendCall
  <2>4. \A x \in appendCalls' : x \in appendCalls \/ x = h
    BY <2>2
  <2>5. \A k \in DOMAIN rounds' : k \in DOMAIN rounds /\ rounds'[k] = rounds[k]
    <3>1. \A x \in appendCalls' : x.round \in DOMAIN rounds
      BY <1>1, <1>3, <2>3, <2>4 DEF IInv, TypeOK
    <3>2. {x.round : x \in appendCalls'} \subseteq DOMAIN rounds
      BY <3>1
    <3> QED
      BY <1>4, <3>2, RunningKeeps
  <2>6. h \in appendCalls' /\ g.round \in DOMAIN rounds'
    BY <1>1, <2>2, <2>3 DEF IInv, TypeOK
  <2>7. a.LeaderCommit = r.currentCommitIndex /\ r.currentLogLen <= a.PrevLogIndex + Len(a.Entries) + 1
    <3>1. r.leader \in Server /\ r.currentLogLen \in Nat
      BY DEF Round
    <3>2. RoundOK(g.round)
      BY <1>1, <1>3 DEF IInv, IndexInvariant
    <3>3. state[r.leader] = LEADER
      BY <1>9 DEF StillLeads
    <3>4. nextIndex[r.leader][g.peer] \in 1 .. Len(log[r.leader]) + 1
      BY <1>1, <1>3, <3>1, <3>3 DEF IInv, IndexInvariant
    <3>5. r.currentLogLen >= 1 /\ r.currentLogLen <= Len(log[r.leader]) + 1
      BY <1>2, <1>9, <3>2 DEF RoundOK
    <3>6. Len(log[r.leader]) \in Nat
      BY <1>1, <3>1, LogType DEF IInv
    <3>7. r.currentLogLen \in 1 .. Len(log[r.leader]) + 1
      BY SMT, <3>1, <3>5, <3>6
    <3>8. TypeOK
      BY <1>1 DEF IInv
    <3> QED
      BY <1>3, <2>1, <3>4, <3>7, <3>8, BuildCommits
  <2>8. CallCommits(held2, h)'
    <3>1. rounds'[g.round] = rounds[g.round]
      BY <2>5, <2>6
    <3>2. rounds'[h.round] = r
      BY <1>2, <2>3, <3>1
    <3> QED
      BY <2>3, <2>7, <3>2 DEF CallCommits
  <2>9. ASSUME NEW k \in DOMAIN rounds'
        PROVE  IF k \in DOMAIN rounds THEN RoundGoesOn(held2, k) ELSE RoundCommits(llog2, held2, rounds'[k])
    <3>1. k \in DOMAIN rounds /\ rounds'[k] = rounds[k]
      BY <2>5
    <3>2. rounds[k] \in Round
      BY <1>1, <3>1 DEF IInv, TypeOK
    <3>3. rounds[k] = [rounds[k] EXCEPT !.replicated = rounds[k].replicated]
      BY <3>2 DEF Round
    <3> QED
      BY <3>1, <3>3 DEF RoundGoesOn
  <2> QED
    BY <1>4, <1>6, <2>4, <2>8, <2>9, CommitsGoOn
<1> QED
  BY <1>8, <1>9

-----------------------------------------------------------------------------
(* AppendEntries *)

\* The handler takes nothing away that is known to be committed.
LEMMA HandlerKeepsCommits ==
  ASSUME NEW led, NEW llog, NEW held, Safe(led, llog, held), NEW i \in Server,
         NEW a \in AppendEntriesArgs, SliceOK(led, llog, i, a), currentTerm[i] <= a.Term,
         NEW f, f = FollowerLog(log[i], a)
  PROVE  Agree(log[i], f, commitIndex[i])
<1>1. Before(led, llog, held) /\ ServerCommits(llog, held, i)
  BY DEF Safe, CommitsAreSafe
<1>2. PICK l \in Seq(LogEntry), c \in Nat, t \in Nat :
        l = log[i] /\ c = commitIndex[i] /\ t = currentTerm[i]
  BY <1>1 DEF Before, IInv, TypeOK
<1>3. a.Term \in Nat
  BY DEF AppendEntriesArgs
<1>4. Led(led, a.Term)
  BY DEF SliceOK
<1>5. SafeUpTo(llog, held, l, c, t) /\ t <= a.Term
  BY <1>1, <1>2 DEF ServerCommits
<1>6. Agree(l, llog[a.Term], c)
  BY <1>1, <1>3, <1>4, <1>5, LeadersAgree
<1>7. Agree(f, llog[a.Term], c)
  BY <1>1, <1>2, <1>6, AppendedLog
<1>8. Agree(l, f, c)
  BY <1>6, <1>7 DEF Agree
<1> QED
  BY <1>2, <1>8

\* The handler learns of commits that its request covers.
LEMMA HandlerCommits ==
  ASSUME NEW led, NEW llog, NEW held, NEW led2, NEW llog2, NEW held2,
         Step(led, llog, held, led2, llog2, held2), NEW i \in Server,
         NEW a \in AppendEntriesArgs, SliceOK(led, llog, i, a), LateCommits(llog, held, a),
         AppendEntries(i, a), lastApplied' = lastApplied
  PROVE  \A s \in Server : ServerCommits(llog2, held2, s)'
<1>1. IInv /\ Safe(led, llog, held) /\ Before(led, llog, held)
  BY DEF Step, Safe, Before
<1>2. CASE a.Term < currentTerm[i] /\ UNCHANGED <<durable, commitIndex, saved>>
  <2>1. log' = log /\ commitIndex' = commitIndex
    BY <1>2 DEF durable
  <2> QED
    BY <2>1, ServerGrows
<1>3. CASE a.Term >= currentTerm[i] /\ ~(a.Term < currentTerm[i])
  <2>1. PICK f : f = FollowerLog(log[i], a)
    OBVIOUS
  <2>2. /\ currentTerm' = [currentTerm EXCEPT ![i] = a.Term] /\ log' = [log EXCEPT ![i] = f]
        /\ commitIndex' = [commitIndex EXCEPT ![i] =
             IF Accepts(log[i], a) /\ a.LeaderCommit > @
               THEN Smaller(a.LeaderCommit, Len(log'[i])) ELSE @]
    BY <1>3, <2>1 DEF AppendEntries
  <2>3. PICK c \in Nat, lc \in Nat, t \in Nat, u \in Nat :
          c = commitIndex[i] /\ lc = a.LeaderCommit /\ t = a.Term /\ u = currentTerm[i]
    <3>1. commitIndex[i] \in Nat /\ currentTerm[i] \in Nat
      BY StepMeans
    <3>2. a.LeaderCommit \in Nat /\ a.Term \in Nat
      BY DEF AppendEntriesArgs
    <3> QED
      BY <3>1, <3>2
  <2>4. log \in [Server -> Seq(LogEntry)] /\ commitIndex \in [Server -> Nat] /\ currentTerm \in [Server -> Nat]
    BY <1>1 DEF IInv, TypeOK
  <2>5. /\ currentTerm'[i] = t /\ log'[i] = f
        /\ commitIndex'[i] = IF Accepts(log[i], a) /\ lc > c THEN Smaller(lc, Len(f)) ELSE c
        /\ \A q \in Server \ {i} : log'[q] = log[q] /\ commitIndex'[q] = commitIndex[q]
    <3>1. log'[i] = f
      BY <2>2, <2>4
    <3>2. commitIndex'[i] = IF Accepts(log[i], a) /\ a.LeaderCommit > commitIndex[i]
                              THEN Smaller(a.LeaderCommit, Len(log'[i])) ELSE commitIndex[i]
      BY <2>2, <2>4
    <3>3. commitIndex'[i] = IF Accepts(log[i], a) /\ lc > c THEN Smaller(lc, Len(f)) ELSE c
      BY <2>3, <3>1, <3>2
    <3>4. \A q \in Server \ {i} : log'[q] = log[q] /\ commitIndex'[q] = commitIndex[q]
      BY <2>2, <2>4
    <3>5. currentTerm'[i] = t
      BY <2>2, <2>3, <2>4
    <3> QED
      BY <3>1, <3>3, <3>4, <3>5
  <2>6. ASSUME NEW s \in Server PROVE ServerCommits(llog2, held2, s)'
    <3>1. CASE s # i
      <4>1. log'[s] = log[s] /\ commitIndex'[s] = commitIndex[s]
        BY <2>5, <3>1
      <4> QED
        BY <4>1, ServerGrows
    <3>2. CASE s = i /\ ~(Accepts(log[i], a) /\ lc > c)
      <4>1. u <= t
        BY <1>3, <2>3
      <4>2. Agree(log[i], f, c)
        BY <1>1, <2>1, <2>3, <4>1, HandlerKeepsCommits
      <4>3. commitIndex'[i] = c
        BY <2>5, <3>2
      <4> QED
        BY <2>3, <2>5, <3>2, <4>2, <4>3, ServerStays
    <3>3. CASE s = i /\ Accepts(log[i], a) /\ lc > c
      <4>1. f \in Seq(LogEntry) /\ Agree(f, llog[t], a.PrevLogIndex + Len(a.Entries))
        BY <1>1, <2>1, <2>3, <3>3, AppendedLog
      <4>2. lc <= a.PrevLogIndex + Len(a.Entries) /\ SafeUpTo(llog, held, llog[t], lc, t)
        BY <2>3 DEF LateCommits
      <4>3. PICK w \in Seq(LogEntry), m \in Nat : w = llog[t] /\ m = a.PrevLogIndex + Len(a.Entries)
        <5>1. llog[t] \in Seq(LogEntry)
          BY StepMeans, LeaderLogType
        <5>2. a.PrevLogIndex \in Nat /\ a.Entries \in Seq(LogEntry)
          BY DEF AppendEntriesArgs
        <5>3. a.PrevLogIndex + Len(a.Entries) \in Nat
          BY SMT, <5>2
        <5> QED
          BY <5>1, <5>3
      <4>4. Agree(f, w, m) /\ lc <= m
        BY <4>1, <4>2, <4>3
      <4>5. Agree(w, f, lc) /\ lc <= Len(f) /\ t <= t
        BY SMT, <4>1, <4>4 DEF Agree
      <4>6. SafeUpTo(llog2, held2, f, lc, t)
        <5>1. Growth(led, llog, held, led2, llog2, held2) /\ SafeUpTo(llog, held, w, lc, t)
          BY <4>2, <4>3, StepMeans
        <5> QED
          BY <1>1, <4>1, <4>5, <5>1, SafeGrows
      <4>7. Smaller(lc, Len(f)) = lc
        BY SMT, <4>1, <4>5 DEF Smaller
      <4>8. commitIndex'[i] = lc
        BY <2>5, <3>3, <4>7
      <4>9. lastApplied[i] <= c
        BY <1>1, <2>3 DEF Safe, CommitsAreSafe, ServerCommits
      <4>10. lastApplied[i] \in Nat
        BY <1>1 DEF IInv, TypeOK
      <4>11. lastApplied[i] <= lc
        BY SMT, <3>3, <4>9, <4>10
      <4> QED
        BY <2>5, <3>3, <4>6, <4>8, <4>11 DEF ServerCommits
    <3> QED
      BY <3>1, <3>2, <3>3
  <2> QED
    BY <2>6
<1>4. (a.Term < currentTerm[i] /\ UNCHANGED <<durable, commitIndex, saved>>) \/ a.Term >= currentTerm[i]
  BY DEF AppendEntries
<1>5. a.Term >= currentTerm[i] => ~(a.Term < currentTerm[i])
  <2>1. currentTerm[i] \in Nat
    BY StepMeans
  <2> QED
    BY SMT, <2>1 DEF AppendEntriesArgs
<1> QED
  BY <1>2, <1>3, <1>4, <1>5

\* The handler answers with success only when the request fits.
LEMMA SuccessAccepts ==
  ASSUME NEW i, NEW a, AppendEntriesAnswer(i, a).Success, currentTerm[i] \in Nat, a.Term \in Nat
  PROVE  a.Term >= currentTerm[i] /\ Accepts(log[i], a)
<1>1. \A t, x, y, z : ~AppendReply(t, FALSE, x, y, z).Success
  BY DEF AppendReply
<1>2. ~(a.Term < currentTerm[i])
  BY <1>1 DEF AppendEntriesAnswer
<1>3. ~TooShort(log[i], a)
  BY <1>1, <1>2 DEF AppendEntriesAnswer
<1>4. ~Conflicts(log[i], a)
  BY <1>1, <1>2, <1>3 DEF AppendEntriesAnswer
<1>5. a.Term >= currentTerm[i]
  BY SMT, <1>2
<1> QED
  BY <1>3, <1>4, <1>5 DEF Accepts

\* Who accepts a request then has what the leader had up to its last entry.
LEMMA AcceptedLog ==
  ASSUME NEW led, NEW llog, NEW held, Before(led, llog, held), NEW i \in Server,
         NEW a \in AppendEntriesArgs, SliceOK(led, llog, i, a), AppendEntries(i, a),
         AppendEntriesAnswer(i, a).Success
  PROVE  /\ currentTerm'[i] = a.Term /\ log'[i] \in Seq(LogEntry)
         /\ Agree(log'[i], llog[a.Term], a.PrevLogIndex + Len(a.Entries))
<1>1. currentTerm \in [Server -> Nat] /\ log \in [Server -> Seq(LogEntry)]
  BY DEF Before, IInv, TypeOK
<1>2. currentTerm[i] \in Nat /\ a.Term \in Nat
  BY <1>1 DEF AppendEntriesArgs
<1>3. a.Term >= currentTerm[i] /\ Accepts(log[i], a)
  BY <1>2, SuccessAccepts
<1>4. PICK f : f = FollowerLog(log[i], a)
  OBVIOUS
<1>5. ~(a.Term < currentTerm[i])
  BY SMT, <1>2, <1>3
<1>6. currentTerm' = [currentTerm EXCEPT ![i] = a.Term] /\ log' = [log EXCEPT ![i] = f]
  BY <1>4, <1>5 DEF AppendEntries
<1>7. currentTerm'[i] = a.Term /\ log'[i] = f
  BY <1>1, <1>6
<1>8. f \in Seq(LogEntry) /\ Agree(f, llog[a.Term], a.PrevLogIndex + Len(a.Entries))
  BY <1>3, <1>4, AppendedLog
<1> QED
  BY <1>7, <1>8

\* So it holds the entries of the leader's term among them.
LEMMA AcceptedHolds ==
  ASSUME NEW led, NEW llog, NEW held, NEW led2, NEW llog2, NEW held2,
         Step(led, llog, held, led2, llog2, held2), NEW i \in Server,
         NEW a \in AppendEntriesArgs, SliceOK(led, llog, i, a), AppendEntries(i, a),
         AppendEntriesAnswer(i, a).Success, NEW n \in Nat, Has(llog[a.Term], a.Term, n),
         n <= a.PrevLogIndex + Len(a.Entries)
  PROVE  <<i, a.Term, n>> \in held2
<1>1. Before(led, llog, held) /\ llog \in [Nat -> Seq(LogEntry)]
  BY StepMeans
<1>2. PICK f \in Seq(LogEntry), t \in Nat, m \in Nat, w \in Seq(LogEntry) :
        /\ f = log'[i] /\ t = a.Term /\ m = a.PrevLogIndex + Len(a.Entries) /\ w = llog[t]
  <2>1. a.Term \in Nat /\ a.PrevLogIndex \in Nat /\ a.Entries \in Seq(LogEntry)
    BY DEF AppendEntriesArgs
  <2>2. a.PrevLogIndex + Len(a.Entries) \in Nat
    BY SMT, <2>1
  <2>3. log'[i] \in Seq(LogEntry) /\ llog[a.Term] \in Seq(LogEntry)
    BY <1>1, <2>1, StepMeans, LeaderLogType
  <2> QED
    BY <2>1, <2>2, <2>3
<1>3. currentTerm'[i] = t /\ Agree(f, w, m)
  BY <1>1, <1>2, AcceptedLog
<1>4. n \in 1 .. Len(w) /\ w[n].Term = t /\ n <= m
  BY <1>2 DEF Has
<1>5. n \in 1 .. Len(f) /\ f[n].Term = t
  BY SMT, <1>3, <1>4 DEF Agree
<1>6. HeldIsKept(led2, llog2, held2)'
  BY DEF Step, Follows, HistoryOK
<1>7. <<i, t, n>> \in held2
  BY <1>2, <1>3, <1>5, <1>6 DEF HeldIsKept
<1> QED
  BY <1>2, <1>7

\* An AppendEntries request arrives, its caller waiting.
LEMMA DeliverCommits ==
  ASSUME NEW led, NEW llog, NEW held, NEW led2, NEW llog2, NEW held2,
         Step(led, llog, held, led2, llog2, held2), NEW g \in appendCalls, DeliverAppendEntries(g)
  PROVE  CommitsAreSafe(llog2, held2)'
<1>1. IInv /\ Safe(led, llog, held) /\ RequestsFromLeaders(led, llog)
  BY DEF Step, Safe, Before, HistoryOK
<1>2. g \in AppendCall /\ g.round \in DOMAIN rounds /\ g.peer \in Server /\ g.args \in AppendEntriesArgs
  BY <1>1 DEF IInv, TypeOK, AppendCall
<1>3. PICK a \in AppendEntriesArgs, i \in Server, r \in Round :
        a = g.args /\ i = g.peer /\ r = rounds[g.round]
  BY <1>1, <1>2 DEF IInv, TypeOK
<1>4. PICK y, h : y = AppendEntriesAnswer(i, a) /\ h = [g EXCEPT !.pc = "replied", !.reply = y]
  OBVIOUS
<1>5. /\ g.pc = "sent" /\ AppendEntries(i, a) /\ appendCalls' = (appendCalls \ {g}) \cup {h}
      /\ rounds' = rounds /\ lastApplied' = lastApplied /\ applied' = applied
  BY <1>3, <1>4 DEF DeliverAppendEntries
<1>6. g.pc # "ready"
  BY <1>5
<1>7. SliceOK(led, llog, i, a) /\ LateCommits(llog, held, a)
  BY <1>1, <1>3, <1>6, CallCovered DEF RequestsFromLeaders
<1>8. \A s \in Server : ServerCommits(llog2, held2, s)'
  BY <1>5, <1>7, HandlerCommits
<1>9. CallsGoOn
  BY <1>1, SentCallsGoOn
<1>10. h.round = g.round /\ h.peer = i /\ h.args = a /\ h.pc = "replied" /\ h.reply = y
  BY <1>2, <1>3, <1>4 DEF AppendCall
<1>11. a.LeaderCommit = r.currentCommitIndex /\ r.currentLogLen <= a.PrevLogIndex + Len(a.Entries) + 1
  BY <1>1, <1>3, <1>6 DEF Safe, CommitsAreSafe, CallCommits
<1>12. ASSUME y.Success, r.changeCommit PROVE <<i, r.currentTerm, r.currentLogLen - 1>> \in held2
  <2>1. a.Term = r.currentTerm
    BY <1>1, <1>3, <1>6 DEF IInv, IndexInvariant, AppendCallOK
  <2>2. PICK n : n = r.currentLogLen - 1
    OBVIOUS
  <2>3. RoundCommits(llog, held, r)
    BY <1>1, <1>2, <1>3 DEF Safe, CommitsAreSafe
  <2>4. Has(llog[a.Term], a.Term, n)
    BY <1>12, <2>1, <2>2, <2>3 DEF RoundCommits
  <2>5. a.PrevLogIndex \in Nat /\ a.Entries \in Seq(LogEntry) /\ r.currentLogLen \in Nat /\ a.Term \in Nat
    BY DEF AppendEntriesArgs, Round
  <2>6. PICK z \in Nat : z = Len(llog[a.Term])
    BY <2>5, StepMeans, LeaderLogType
  <2>7. n \in 1 .. z
    BY <2>4, <2>6 DEF Has
  <2>8. n \in Nat /\ n <= a.PrevLogIndex + Len(a.Entries)
    BY SMT, <1>11, <2>2, <2>5, <2>7
  <2>9. <<i, a.Term, n>> \in held2
    BY <1>4, <1>5, <1>7, <1>12, <2>4, <2>8, AcceptedHolds
  <2> QED
    BY <2>1, <2>2, <2>9
<1>13. CallCommits(held2, h)'
  <2>1. rounds'[h.round] = r /\ h.pc # "ready"
    BY <1>3, <1>5, <1>10
  <2> QED
    BY <1>10, <1>11, <1>12, <2>1 DEF CallCommits
<1>14. \A x \in appendCalls' : x \in appendCalls \/ CallCommits(held2, x)'
  BY <1>5, <1>13
<1>15. \A k \in DOMAIN rounds' : rounds'[k].replicated = rounds[k].replicated
  BY <1>5
<1> QED
  BY <1>5, <1>8, <1>9, <1>14, <1>15, CommitsGoOnWithCalls

\* An AppendEntries request nobody waits for arrives.
LEMMA DeliverLateCommits ==
  ASSUME NEW led, NEW llog, NEW held, NEW led2, NEW llog2, NEW held2,
         Step(led, llog, held, led2, llog2, held2), NEW m \in lateAppends, DeliverLateAppend(m)
  PROVE  CommitsAreSafe(llog2, held2)'
<1>1. IInv /\ Safe(led, llog, held) /\ RequestsFromLeaders(led, llog)
  BY DEF Step, Safe, Before, HistoryOK
<1>2. m \in [to : Server, args : AppendEntriesArgs]
  BY <1>1 DEF IInv, TypeOK
<1>3. m.to \in Server /\ m.args \in AppendEntriesArgs
  BY <1>2
<1>4. PICK a \in AppendEntriesArgs, i \in Server : a = m.args /\ i = m.to
  BY <1>3
<1>5. /\ AppendEntries(i, a) /\ rounds' = rounds /\ appendCalls' = appendCalls
      /\ lateAppends' = lateAppends \ {m} /\ lastApplied' = lastApplied /\ applied' = applied
  BY <1>4 DEF DeliverLateAppend
<1>6. SliceOK(led, llog, i, a) /\ LateCommits(llog, held, a)
  BY <1>1, <1>4 DEF RequestsFromLeaders, Safe, CommitsAreSafe
<1>7. \A s \in Server : ServerCommits(llog2, held2, s)'
  BY <1>5, <1>6, HandlerCommits
<1>8. ASSUME NEW k \in DOMAIN rounds'
      PROVE  IF k \in DOMAIN rounds THEN RoundGoesOn(held2, k) ELSE RoundCommits(llog2, held2, rounds'[k])
  <2>1. k \in DOMAIN rounds /\ rounds'[k] = rounds[k]
    BY <1>5
  <2>2. rounds[k] \in Round
    BY <1>1, <2>1 DEF IInv, TypeOK
  <2>3. rounds[k] = [rounds[k] EXCEPT !.replicated = rounds[k].replicated]
    BY <2>2 DEF Round
  <2> QED
    BY <2>1, <2>3 DEF RoundGoesOn
<1>9. \A x \in lateAppends' : x \in lateAppends
  BY <1>5
<1> QED
  BY <1>5, <1>7, <1>8, <1>9, CommitsGoOn

-----------------------------------------------------------------------------
(* AppendEntries answers *)

\* When a majority of a round has accepted, the last entry of the round is
\* committed and its leader has it.
LEMMA RoundIsCommitted ==
  ASSUME NEW led, NEW llog, NEW held, Safe(led, llog, held), NEW r \in Round, StillLeads(r),
         RoundCommits(llog, held, r), r.changeCommit, NEW p \in Server,
         <<p, r.currentTerm, r.currentLogLen - 1>> \in held,
         Majority(Cardinality(r.replicated \cup {p}))
  PROVE  /\ r.currentLogLen - 1 \in Nat
         /\ SafeUpTo(llog, held, log[r.leader], r.currentLogLen - 1, r.currentTerm)
<1>1. Before(led, llog, held) /\ llog \in [Nat -> Seq(LogEntry)]
  BY DEF Safe, Before, HistoryOK
<1>2. r.currentTerm \in Nat /\ r.leader \in Server
  BY DEF Round
<1>3. PICK n : n = r.currentLogLen - 1
  OBVIOUS
<1>4. PICK t \in Nat, s \in Server : t = r.currentTerm /\ s = r.leader /\ n = r.currentLogLen - 1
  BY <1>2, <1>3
<1>5. Has(llog[t], t, n) /\ (\A q \in r.replicated : <<q, t, n>> \in held) /\ <<p, t, n>> \in held
  BY <1>4 DEF RoundCommits
<1>6. PICK w \in Seq(LogEntry) : w = llog[t]
  BY <1>1, LeaderLogType
<1>7. n \in 1 .. Len(w)
  BY <1>5, <1>6 DEF Has
<1>8. n \in Nat /\ n <= n /\ t <= t /\ Agree(w, w, n)
  BY SMT, <1>7 DEF Agree
<1>9. Committed(held, t, n)
  <2>1. r.replicated \cup {p} \in SUBSET Server
    BY DEF Round
  <2>2. \A q \in r.replicated \cup {p} : <<q, t, n>> \in held
    BY <1>5
  <2> QED
    BY <2>1, <2>2 DEF Committed
<1>10. log[s] = w
  BY <1>1, <1>4, <1>6 DEF StillLeads, Before, HistoryOK, LeadersOnRecord
<1>11. SafeUpTo(llog, held, w, n, t)
  BY <1>1, <1>5, <1>6, <1>8, <1>9, SafeIf
<1> QED
  BY <1>4, <1>8, <1>10, <1>11

\* AppendEntriesReturns: answers that change no commitIndex.
LEMMA RejectedCommits ==
  ASSUME NEW led, NEW llog, NEW held, NEW led2, NEW llog2, NEW held2,
         Step(led, llog, held, led2, llog2, held2), NEW g \in appendCalls, AppendEntriesReturns(g),
         ~(StillMine(g) /\ g.reply.Success)
  PROVE  CommitsAreSafe(llog2, held2)'
<1>1. IInv
  BY DEF Step, Safe, Before
<1>2. /\ log' = log /\ lastApplied' = lastApplied /\ applied' = applied /\ commitIndex' = commitIndex
      /\ (appendCalls' = appendCalls \ {g} \/ appendCalls' = (appendCalls \ {g}) \cup {Again(g)})
      /\ (rounds' = Running(rounds, appendCalls \ {g}) \/ rounds' = rounds)
  BY DEF AppendEntriesReturns
<1>3. CallsGoOn
  BY <1>1, SentCallsGoOn
<1>4. \A s \in Server : ServerCommits(llog2, held2, s)'
  BY <1>2, ServerGrows
<1>5. \A k \in DOMAIN rounds' : rounds'[k].replicated = rounds[k].replicated
  BY <1>2, RunningSame
<1>6. ASSUME NEW x \in appendCalls' PROVE x \in appendCalls \/ CallCommits(held2, x)'
  <2>1. x \in appendCalls \/ x = Again(g)
    BY <1>2
  <2>2. g \in AppendCall
    BY <1>1 DEF IInv, TypeOK
  <2>3. Again(g).pc = "ready" /\ Again(g).args = NoAppendArgs
    BY <2>2 DEF Again, AppendCall
  <2> QED
    BY <2>1, <2>3, ReadyCommits
<1> QED
  BY <1>2, <1>3, <1>4, <1>5, <1>6, CommitsGoOnWithCalls

\* AppendEntriesReturns: the answer that adds a follower to its round, and may
\* commit.
LEMMA AcceptedCommits ==
  ASSUME NEW led, NEW llog, NEW held, NEW led2, NEW llog2, NEW held2,
         Step(led, llog, held, led2, llog2, held2), NEW g \in appendCalls, AppendEntriesReturns(g),
         StillMine(g), g.reply.Success
  PROVE  CommitsAreSafe(llog2, held2)'
<1>1. IInv /\ Safe(led, llog, held) /\ held \subseteq held2
  BY StepMeans DEF Step, Safe, Before
<1>2. g \in AppendCall /\ g.round \in DOMAIN rounds /\ g.peer \in Server /\ rounds[g.round] \in Round
  BY <1>1 DEF IInv, TypeOK, AppendCall
<1>3. PICK k0 : k0 = g.round
  OBVIOUS
<1>4. PICK r \in Round, p \in Server : r = rounds[g.round] /\ p = g.peer /\ k0 = g.round
  BY <1>2, <1>3
<1>5. /\ g.pc = "replied" /\ log' = log /\ lastApplied' = lastApplied /\ applied' = applied
      /\ lateAppends' = lateAppends /\ appendCalls' = appendCalls \ {g}
      /\ rounds' = Running([rounds EXCEPT ![k0].replicated = @ \cup {p}], appendCalls \ {g})
      /\ commitIndex' = [commitIndex EXCEPT ![r.leader] =
             IF /\ r.changeCommit
                /\ Majority(Cardinality(r.replicated \cup {p}))
                /\ @ < nextCommitIndex(r)
               THEN nextCommitIndex(r) ELSE @]
  BY <1>4 DEF AppendEntriesReturns
<1>6. g.pc # "ready"
  BY <1>5
<1>7. r.changeCommit => <<p, r.currentTerm, r.currentLogLen - 1>> \in held
  BY <1>1, <1>4, <1>5, <1>6 DEF Safe, CommitsAreSafe, CallCommits
<1>8. CallsGoOn
  BY <1>1, SentCallsGoOn
<1>9. ASSUME NEW k \in DOMAIN rounds'
      PROVE  IF k \in DOMAIN rounds THEN RoundGoesOn(held2, k) ELSE RoundCommits(llog2, held2, rounds'[k])
  <2>1. k \in DOMAIN rounds /\ rounds'[k] = [rounds[k] EXCEPT !.replicated = rounds'[k].replicated]
    BY <1>8 DEF CallsGoOn
  <2>2. rounds'[k] = [rounds EXCEPT ![k0].replicated = @ \cup {p}][k]
    BY <1>5 DEF Running
  <2>3. CASE k = k0
    <3>1. rounds[k] \in Round
      BY <1>2, <1>4, <2>3
    <3>2. rounds'[k].replicated = rounds[k].replicated \cup {p}
      BY <2>1, <2>2, <2>3, <3>1 DEF Round
    <3>3. r.changeCommit => \A q \in rounds'[k].replicated :
            q \in rounds[k].replicated \/ <<q, r.currentTerm, r.currentLogLen - 1>> \in held2
      BY <1>1, <1>7, <3>2
    <3> QED
      BY <1>4, <2>1, <2>3, <3>3 DEF RoundGoesOn
  <2>4. CASE k # k0
    <3>1. rounds'[k] = rounds[k]
      BY <2>1, <2>2, <2>4
    <3> QED
      BY <2>1, <3>1 DEF RoundGoesOn
  <2> QED
    BY <2>3, <2>4
<1>10. ASSUME NEW s \in Server PROVE ServerCommits(llog2, held2, s)'
  <2>1. commitIndex \in [Server -> Nat] /\ lastApplied \in [Server -> Nat] /\ log \in [Server -> Seq(LogEntry)]
    BY <1>1 DEF IInv, TypeOK
  <2>2. CASE commitIndex'[s] = commitIndex[s]
    BY <1>5, <2>2, ServerGrows
  <2>3. CASE commitIndex'[s] # commitIndex[s]
    <3>1. /\ s = r.leader /\ r.changeCommit /\ Majority(Cardinality(r.replicated \cup {p}))
          /\ commitIndex[s] < nextCommitIndex(r) /\ commitIndex'[s] = nextCommitIndex(r)
      BY <1>5, <2>1, <2>3
    <3>2. PICK n : n = r.currentLogLen - 1
      OBVIOUS
    <3>3. commitIndex'[s] = n /\ commitIndex[s] < n
      BY <3>1, <3>2 DEF nextCommitIndex
    <3>4. StillLeads(r)
      BY <1>4 DEF StillMine
    <3>5. RoundCommits(llog, held, r)
      BY <1>1, <1>2, <1>4 DEF Safe, CommitsAreSafe
    <3>6. n \in Nat /\ SafeUpTo(llog, held, log[s], n, r.currentTerm)
      BY <1>1, <1>7, <3>1, <3>2, <3>4, <3>5, RoundIsCommitted
    <3>7. PICK l \in Seq(LogEntry) : l = log[s]
      BY <1>1 DEF IInv, TypeOK
    <3>8. Agree(l, l, n)
      <4>1. n <= Len(l)
        BY <3>6, <3>7, SafeWithin
      <4> QED
        BY <3>6, <4>1 DEF Agree
    <3>9. PICK t \in Nat, t2 \in Nat : t = r.currentTerm /\ t2 = currentTerm'[s] /\ t <= t2
      BY <3>1, <3>4, StepMeans DEF StillLeads
    <3>10. SafeUpTo(llog, held, l, n, t)
      BY <3>6, <3>7, <3>9
    <3>11. Before(led, llog, held) /\ Growth(led, llog, held, led2, llog2, held2)
      BY StepMeans
    <3>12. SafeUpTo(llog2, held2, l, n, t2)
      BY <3>6, <3>8, <3>9, <3>10, <3>11, SafeGrows
    <3>13. lastApplied[s] <= commitIndex[s]
      BY <1>1 DEF Safe, CommitsAreSafe, ServerCommits
    <3>14. lastApplied[s] <= n
      BY SMT, <2>1, <3>3, <3>6, <3>13
    <3> QED
      BY <1>5, <3>3, <3>7, <3>9, <3>12, <3>14 DEF ServerCommits
  <2> QED
    BY <2>2, <2>3
<1>11. \A x \in appendCalls' : x \in appendCalls
  BY <1>5
<1> QED
  BY <1>5, <1>9, <1>10, <1>11, CommitsGoOn

-----------------------------------------------------------------------------
(* All steps *)

\* Start adds to a log.
LEMMA StartGrowsLog ==
  ASSUME IInv, NEW s \in Server, NEW c \in Command, Start(s, c)
  PROVE  \A q \in Server : log'[q] = log[q] \/ Agree(log[q], log'[q], Len(log[q]))
<1>1. log' = [log EXCEPT ![s] = Append(@, [Command |-> c, Term |-> currentTerm[s]])]
  BY DEF Start
<1>2. log \in [Server -> Seq(LogEntry)] /\ currentTerm[s] \in Nat
  BY DEF IInv, TypeOK
<1>3. PICK e \in LogEntry : e = [Command |-> c, Term |-> currentTerm[s]]
  <2>1. [Command |-> c, Term |-> currentTerm[s]] \in LogEntry
    BY <1>2 DEF LogEntry
  <2> QED
    BY <2>1
<1>4. log' = [log EXCEPT ![s] = Append(log[s], e)]
  BY <1>1, <1>3
<1>5. \A q \in Server : log'[q] = log[q] \/ (q = s /\ log'[q] = Append(log[s], e))
  BY <1>2, <1>4
<1>6. log[s] \in Seq(LogEntry)
  BY <1>2
<1>7. Agree(log[s], Append(log[s], e), Len(log[s]))
  BY <1>6, AppendedEntry
<1> QED
  BY <1>5, <1>7

\* The steps of elections, and Start, commit nothing.
LEMMA ElectionsCommit ==
  ASSUME NEW led, NEW llog, NEW held, NEW led2, NEW llog2, NEW held2,
         Step(led, llog, held, led2, llog2, held2),
         \/ UNCHANGED vars
         \/ \E s \in Server : checkElection(s)
         \/ \E s \in Server, c \in Command : Start(s, c)
         \/ \E g \in voteCalls : sendRequestVote(g) \/ DeliverRequestVote(g) \/ RequestVoteReturns(g)
         \/ \E m \in lateVotes : DeliverLateVote(m)
  PROVE  CommitsAreSafe(llog2, held2)'
<1>1. CASE UNCHANGED vars
  <2>1. UNCHANGED replication /\ UNCHANGED <<commitIndex, lastApplied, applied>> /\ log' = log
    BY <1>1 DEF vars, volatile, durable
  <2> QED
    BY <2>1, StillCommits
<1>2. ASSUME NEW s \in Server, checkElection(s) PROVE CommitsAreSafe(llog2, held2)'
  <2>1. UNCHANGED replication /\ UNCHANGED volatile /\ applied' = applied /\ log' = log
    BY <1>2 DEF checkElection
  <2>2. UNCHANGED <<commitIndex, lastApplied, applied>>
    BY <2>1 DEF volatile
  <2> QED
    BY <2>1, <2>2, StillCommits
<1>3. ASSUME NEW s \in Server, NEW c \in Command, Start(s, c) PROVE CommitsAreSafe(llog2, held2)'
  <2>1. UNCHANGED replication /\ UNCHANGED volatile /\ applied' = applied
    BY <1>3 DEF Start
  <2>2. UNCHANGED <<commitIndex, lastApplied, applied>>
    BY <2>1 DEF volatile
  <2>3. \A q \in Server : log'[q] = log[q] \/ Agree(log[q], log'[q], Len(log[q]))
    BY <1>3, StartGrowsLog DEF Step, Safe, Before
  <2> QED
    BY <2>1, <2>2, <2>3, StillCommits
<1>4. ASSUME NEW g \in voteCalls, sendRequestVote(g) \/ DeliverRequestVote(g) PROVE CommitsAreSafe(llog2, held2)'
  <2>1. /\ UNCHANGED replication /\ UNCHANGED volatile /\ applied' = applied
        /\ UNCHANGED durable \/ log' = log
    BY <1>4 DEF sendRequestVote, DeliverRequestVote, RequestVote
  <2>2. UNCHANGED <<commitIndex, lastApplied, applied>> /\ log' = log
    BY <2>1 DEF volatile, durable
  <2> QED
    BY <2>1, <2>2, StillCommits
<1>5. ASSUME NEW g \in voteCalls, RequestVoteReturns(g) PROVE CommitsAreSafe(llog2, held2)'
  <2>1. UNCHANGED replication /\ UNCHANGED <<commitIndex, lastApplied, applied>> /\ log' = log
    BY <1>5 DEF RequestVoteReturns
  <2> QED
    BY <2>1, StillCommits
<1>6. ASSUME NEW m \in lateVotes, DeliverLateVote(m) PROVE CommitsAreSafe(llog2, held2)'
  <2>1. /\ UNCHANGED replication /\ UNCHANGED volatile /\ applied' = applied
        /\ UNCHANGED durable \/ log' = log
    BY <1>6 DEF DeliverLateVote, RequestVote
  <2>2. UNCHANGED <<commitIndex, lastApplied, applied>> /\ log' = log
    BY <2>1 DEF volatile, durable
  <2> QED
    BY <2>1, <2>2, StillCommits
<1> QED
  BY <1>1, <1>2, <1>3, <1>4, <1>5, <1>6

\* Every step leaves commits safe.
LEMMA CommitsKeep ==
  ASSUME NEW led, NEW llog, NEW held, NEW led2, NEW llog2, NEW held2,
         Step(led, llog, held, led2, llog2, held2), [Next]_vars
  PROVE  CommitsAreSafe(llog2, held2)'
<1>1. ASSUME NEW s \in Server, sendHeartbeat(s) \/ checkApply(s) PROVE CommitsAreSafe(llog2, held2)'
  BY <1>1, HeartbeatCommits, ApplyCommits
<1>2. ASSUME NEW s \in Server, Restart(s) PROVE CommitsAreSafe(llog2, held2)'
  BY <1>2, RebootCommits DEF Restart
<1>3. ASSUME NEW g \in appendCalls, sendAppendEntries(g) \/ DeliverAppendEntries(g)
      PROVE  CommitsAreSafe(llog2, held2)'
  BY <1>3, SendCommits, DeliverCommits
<1>4. ASSUME NEW g \in appendCalls, AppendEntriesReturns(g) \/ AppendEntriesFails(g)
      PROVE  CommitsAreSafe(llog2, held2)'
  BY <1>4, RejectedCommits, AcceptedCommits, FailCommits
<1>5. ASSUME NEW m \in lateAppends, DeliverLateAppend(m) PROVE CommitsAreSafe(llog2, held2)'
  BY <1>5, DeliverLateCommits
<1>6. ASSUME NEW m \in lateAppends, CrashInAppendEntries(m) PROVE CommitsAreSafe(llog2, held2)'
  <2>1. m.to \in Server
    BY DEF Step, Safe, Before, IInv, TypeOK
  <2>2. PICK p : Reboot(m.to, p)
    BY <1>6 DEF CrashInAppendEntries
  <2>3. lateAppends' \subseteq lateAppends \cup AppendsUnderWay(m.to)
    BY <1>6 DEF CrashInAppendEntries
  <2> QED
    BY <2>1, <2>2, <2>3, RebootCommits
<1>7. CASE \/ UNCHANGED vars
           \/ \E s \in Server : checkElection(s)
           \/ \E s \in Server, c \in Command : Start(s, c)
           \/ \E g \in voteCalls : sendRequestVote(g) \/ DeliverRequestVote(g) \/ RequestVoteReturns(g)
           \/ \E m \in lateVotes : DeliverLateVote(m)
  BY <1>7, ElectionsCommit
<1> QED
  BY <1>1, <1>2, <1>3, <1>4, <1>5, <1>6, <1>7 DEF Next

\* Nothing is committed at the start.
LEMMA CommitsInit ==
  ASSUME Init, NEW llog, NEW held
  PROVE  CommitsAreSafe(llog, held)
<1>1. /\ \A s \in Server : lastApplied[s] = 0 /\ commitIndex[s] = 0
      /\ DOMAIN rounds = {} /\ appendCalls = {} /\ lateAppends = {} /\ applied = {}
  BY SMT DEF Init
<1>2. 0 <= 0
  BY SMT
<1>3. \A s \in Server : ServerCommits(llog, held, s)
  BY <1>1, <1>2 DEF ServerCommits, SafeUpTo
<1> QED
  BY <1>1, <1>3 DEF CommitsAreSafe

-----------------------------------------------------------------------------
(* Acknowledgements *)

\* While a server stays in a term it keeps what it has of its leader's log.
AckMoves(llog, p) ==
  currentTerm'[p] = currentTerm[p] =>
    \A n \in Nat : Agree(log[p], llog[currentTerm[p]], n) => Agree(log'[p], llog[currentTerm[p]], n)

\* What a step does to matchIndex.
MatchMoves(llog, s) ==
  state'[s] = LEADER => \A p \in Server \ {s} :
    \/ matchIndex'[s][p] = 0
    \/ /\ state[s] = LEADER /\ currentTerm'[s] = currentTerm[s]
       /\ Acknowledged(llog, p, currentTerm[s], matchIndex'[s][p])

\* matchIndex is sound when acknowledgements are.
LEMMA AckedIsMatched ==
  ASSUME NEW led, NEW llog, NEW held, Before(led, llog, held), AcksAreSound(llog)
  PROVE  MatchIndexIsSound
<1> SUFFICES ASSUME NEW s \in Server, NEW p \in Server, state[s] = LEADER,
                    currentTerm[p] = currentTerm[s], p # s
             PROVE  /\ matchIndex[s][p] <= Len(log[p])
                    /\ SubSeq(log[p], 1, matchIndex[s][p]) = SubSeq(log[s], 1, matchIndex[s][p])
  BY DEF MatchIndexIsSound
<1>1. /\ matchIndex \in [Server -> [Server -> Nat]] /\ currentTerm[p] \in Nat
      /\ log[p] \in Seq(LogEntry) /\ log[s] \in Seq(LogEntry)
  BY DEF Before, IInv, TypeOK
<1>2. matchIndex[s][p] \in Nat
  BY <1>1
<1>3. PICK l \in Seq(LogEntry), k \in Seq(LogEntry), n \in Nat, t \in Nat :
        l = log[p] /\ k = log[s] /\ n = matchIndex[s][p] /\ t = currentTerm[p]
  BY <1>1, <1>2
<1>4. llog[t] = k
  BY <1>3 DEF Before, HistoryOK, LeadersOnRecord
<1>5. n = 0 \/ currentTerm[p] > t \/ Agree(l, k, n)
  BY <1>3, <1>4 DEF AcksAreSound, Acknowledged
<1>6. n = 0 \/ Agree(l, k, n)
  <2>1. ~(currentTerm[p] > t)
    BY SMT, <1>3
  <2> QED
    BY <1>5, <2>1
<1>7. n <= Len(l) /\ n <= Len(k) /\ \A i \in 1 .. n : l[i] = k[i]
  BY SMT, <1>6 DEF Agree
<1>8. SubSeq(l, 1, n) = SubSeq(k, 1, n)
  BY SMT, <1>7
<1> QED
  BY <1>3, <1>7, <1>8

\* What is acknowledged stays so.
LEMMA AckStays ==
  ASSUME NEW led, NEW llog, NEW held, NEW led2, NEW llog2, NEW held2,
         Step(led, llog, held, led2, llog2, held2), NEW p \in Server, NEW t \in Nat, NEW n \in Nat,
         AckMoves(llog, p), Led(led, t), Acknowledged(llog, p, t, n)
  PROVE  Acknowledged(llog2, p, t, n)'
<1>1. /\ llog \in [Nat -> Seq(LogEntry)] /\ llog2 \in [Nat -> Seq(LogEntry)]
      /\ Grows(led, llog, led2, llog2) /\ log'[p] \in Seq(LogEntry)
  BY StepMeans
<1>2. PICK u \in Nat, u2 \in Nat : u = currentTerm[p] /\ u2 = currentTerm'[p] /\ u <= u2
  BY StepMeans
<1>3. CASE n = 0
  BY <1>3 DEF Acknowledged
<1>4. CASE u2 > t
  BY <1>2, <1>4 DEF Acknowledged
<1>5. CASE n # 0 /\ ~(u2 > t)
  <2>1. u > t \/ (u = t /\ Agree(log[p], llog[t], n))
    BY <1>2, <1>5 DEF Acknowledged
  <2>2. u = t /\ u2 = t
    BY SMT, <1>2, <1>5, <2>1
  <2>3. u = t /\ Agree(log[p], llog[t], n)
    BY SMT, <2>1, <2>2
  <2>4. Agree(log'[p], llog[t], n)
    BY <1>2, <2>2, <2>3 DEF AckMoves
  <2>5. PICK k \in Seq(LogEntry), w \in Seq(LogEntry), w2 \in Seq(LogEntry) :
          k = log'[p] /\ w = llog[t] /\ w2 = llog2[t]
    BY <1>1, LeaderLogType
  <2>6. Agree(k, w, n) /\ Agree(w, w2, Len(w))
    BY <1>1, <2>4, <2>5 DEF Grows
  <2>7. Agree(k, w2, n)
    BY SMT, <2>6 DEF Agree
  <2> QED
    BY <1>2, <2>2, <2>5, <2>7 DEF Acknowledged
<1> QED
  BY <1>3, <1>4, <1>5

\* What is left to show for a step: what it does to matchIndex and the answers
\* it gives.
LEMMA AcksGoOn ==
  ASSUME NEW led, NEW llog, NEW held, NEW led2, NEW llog2, NEW held2,
         Step(led, llog, held, led2, llog2, held2), AcksAreSound(llog),
         \A p \in Server : AckMoves(llog, p) /\ MatchMoves(llog, p),
         \A g \in appendCalls' : g.pc = "replied" /\ g.reply.Success =>
           \/ g \in appendCalls
           \/ Acknowledged(llog2, g.peer, g.args.Term, g.args.PrevLogIndex + Len(g.args.Entries))'
  PROVE  AcksAreSound(llog2)'
<1>1. IInv /\ HistoryOK(led, llog, held)
  BY DEF Step, Safe, Before
<1>2. ASSUME NEW s \in Server, NEW p \in Server, state'[s] = LEADER, p # s
      PROVE  Acknowledged(llog2, p, currentTerm[s], matchIndex[s][p])'
  <2>1. matchIndex' \in [Server -> [Server -> Nat]]
    BY DEF Step, IInv, TypeOK
  <2>2. matchIndex'[s][p] \in Nat
    BY <2>1
  <2>3. CASE matchIndex'[s][p] = 0
    BY <2>3 DEF Acknowledged
  <2>4. CASE matchIndex'[s][p] # 0
    <3>1. p \in Server \ {s}
      BY <1>2
    <3>2. /\ state[s] = LEADER /\ currentTerm'[s] = currentTerm[s]
          /\ Acknowledged(llog, p, currentTerm[s], matchIndex'[s][p])
      BY <1>2, <2>4, <3>1 DEF MatchMoves
    <3>3. PICK t \in Nat, n \in Nat : t = currentTerm[s] /\ n = matchIndex'[s][p]
      BY <2>2, StepMeans
    <3>4. Led(led, t) /\ Acknowledged(llog, p, t, n)
      BY <1>1, <3>2, <3>3 DEF HistoryOK, LeadersOnRecord, Led
    <3>5. Acknowledged(llog2, p, t, n)'
      BY <3>4, AckStays
    <3> QED
      BY <3>2, <3>3, <3>5
  <2> QED
    BY <2>3, <2>4
<1>3. ASSUME NEW g \in appendCalls, g.pc = "replied", g.reply.Success
      PROVE  Acknowledged(llog2, g.peer, g.args.Term, g.args.PrevLogIndex + Len(g.args.Entries))'
  <2>1. g.peer \in Server /\ g.args \in AppendEntriesArgs
    BY <1>1 DEF IInv, TypeOK, AppendCall
  <2>2. PICK a \in AppendEntriesArgs, p \in Server : a = g.args /\ p = g.peer
    BY <2>1
  <2>3. a.Term \in Nat /\ a.PrevLogIndex \in Nat /\ a.Entries \in Seq(LogEntry)
    BY DEF AppendEntriesArgs
  <2>4. a.PrevLogIndex + Len(a.Entries) \in Nat /\ g.pc # "ready"
    BY SMT, <1>3, <2>3
  <2>5. Led(led, a.Term)
    BY <1>1, <2>2, <2>4 DEF HistoryOK, RequestsFromLeaders, SliceOK
  <2>6. Acknowledged(llog, p, a.Term, a.PrevLogIndex + Len(a.Entries))
    BY <1>3, <2>2 DEF AcksAreSound
  <2>7. Acknowledged(llog2, p, a.Term, a.PrevLogIndex + Len(a.Entries))'
    BY <2>3, <2>4, <2>5, <2>6, AckStays
  <2> QED
    BY <2>2, <2>7
<1> QED
  BY <1>2, <1>3 DEF AcksAreSound

\* Who leads after the step led before it, in the same term.
LeaderMoves(s) == state'[s] = LEADER => state[s] = LEADER /\ currentTerm'[s] = currentTerm[s]

\* A log that stays or grows keeps what it has of the leader's.
LEMMA GrownAcks ==
  ASSUME NEW led, NEW llog, NEW held, NEW led2, NEW llog2, NEW held2,
         Step(led, llog, held, led2, llog2, held2), NEW p \in Server,
         log'[p] = log[p] \/ Agree(log[p], log'[p], Len(log[p]))
  PROVE  AckMoves(llog, p)
<1>1. PICK l \in Seq(LogEntry), k \in Seq(LogEntry), w \in Seq(LogEntry) :
        l = log[p] /\ k = log'[p] /\ w = llog[currentTerm[p]]
  BY StepMeans, LeaderLogType
<1>2. k = l \/ Agree(l, k, Len(l))
  BY <1>1
<1>3. \A n \in Nat : Agree(l, w, n) => Agree(k, w, n)
  BY SMT, <1>2 DEF Agree
<1> QED
  BY <1>1, <1>3 DEF AckMoves

\* A leader that goes on, with its matchIndex.
LEMMA MatchStays ==
  ASSUME NEW llog, AcksAreSound(llog), NEW s \in Server, LeaderMoves(s), matchIndex'[s] = matchIndex[s]
  PROVE  MatchMoves(llog, s)
BY DEF AcksAreSound, MatchMoves, LeaderMoves

\* Steps in which nobody starts to lead, answers or is answered.
LEMMA StillAcks ==
  ASSUME NEW led, NEW llog, NEW held, NEW led2, NEW llog2, NEW held2,
         Step(led, llog, held, led2, llog2, held2), AcksAreSound(llog),
         matchIndex' = matchIndex, \A s \in Server : LeaderMoves(s),
         \A s \in Server : log'[s] = log[s] \/ Agree(log[s], log'[s], Len(log[s])),
         \A g \in appendCalls' : g \in appendCalls \/ g.pc # "replied"
  PROVE  AcksAreSound(llog2)'
<1>1. \A p \in Server : AckMoves(llog, p) /\ MatchMoves(llog, p)
  BY GrownAcks, MatchStays
<1> QED
  BY <1>1, AcksGoOn

\* Leaders in steps that leave elections alone.
LEMMA LeadersMove ==
  ASSUME AllMove
  PROVE  \A s \in Server : LeaderMoves(s)
BY DEF AllMove, StateMoves, LeaderMoves

\* The steps of elections.
LEMMA ElectionAcks ==
  ASSUME NEW led, NEW llog, NEW held, NEW led2, NEW llog2, NEW held2,
         Step(led, llog, held, led2, llog2, held2), AcksAreSound(llog),
         \/ \E s \in Server : checkElection(s)
         \/ \E g \in voteCalls : sendRequestVote(g) \/ DeliverRequestVote(g)
  PROVE  AcksAreSound(llog2)'
<1>1. IInv
  BY DEF Step, Safe, Before
<1>2. ASSUME NEW s \in Server, checkElection(s) PROVE AcksAreSound(llog2)'
  <2>1. /\ UNCHANGED replication /\ UNCHANGED volatile /\ log' = log
        /\ state' = [state EXCEPT ![s] = CANDIDATE] /\ currentTerm' = [currentTerm EXCEPT ![s] = @ + 1]
    BY <1>2 DEF checkElection
  <2>2. appendCalls' = appendCalls /\ matchIndex' = matchIndex
    BY <2>1 DEF replication, volatile
  <2>3. /\ state \in [Server -> {LEADER, FOLLOWER, CANDIDATE, GAVE_UP}]
        /\ currentTerm \in [Server -> Nat]
    BY <1>1 DEF IInv, TypeOK
  <2>4. \A q \in Server : LeaderMoves(q)
    BY SMT, <2>1, <2>3 DEF LeaderMoves, LEADER, CANDIDATE
  <2> QED
    BY <2>1, <2>2, <2>4, StillAcks
<1>3. ASSUME NEW g \in voteCalls, sendRequestVote(g) \/ DeliverRequestVote(g) PROVE AcksAreSound(llog2)'
  <2>1. /\ UNCHANGED replication /\ UNCHANGED volatile
        /\ UNCHANGED durable \/ log' = log
    BY <1>3 DEF sendRequestVote, DeliverRequestVote, RequestVote
  <2>2. appendCalls' = appendCalls /\ matchIndex' = matchIndex /\ log' = log
    BY <2>1 DEF replication, volatile, durable
  <2>3. AllMove
    BY <1>1, <1>3, SendVoteMoves, DeliverVoteMoves
  <2> QED
    BY <2>2, <2>3, LeadersMove, StillAcks
<1> QED
  BY <1>2, <1>3

\* A vote comes in: a new leader starts with nothing acknowledged.
LEMMA VoteAcks ==
  ASSUME NEW led, NEW llog, NEW held, NEW led2, NEW llog2, NEW held2,
         Step(led, llog, held, led2, llog2, held2), AcksAreSound(llog),
         NEW g \in voteCalls, RequestVoteReturns(g)
  PROVE  AcksAreSound(llog2)'
<1>1. IInv
  BY DEF Step, Safe, Before
<1>2. PICK s \in Server : s = g.cand
  BY <1>1 DEF IInv, TypeOK, VoteCall
<1>3. /\ UNCHANGED replication /\ log' = log
      /\ \/ /\ \/ state' = [state EXCEPT ![s] = GAVE_UP] /\ currentTerm' = currentTerm
               \/ state' = state /\ currentTerm' = currentTerm
               \/ /\ currentTerm' = [currentTerm EXCEPT ![s] = g.reply.Term]
                  /\ state' = [state EXCEPT ![s] = FOLLOWER]
            /\ matchIndex' = matchIndex
         \/ /\ state' = [state EXCEPT ![s] = LEADER] /\ currentTerm' = currentTerm
            /\ matchIndex' = [matchIndex EXCEPT ![s] = [p \in Server |-> 0]]
  BY <1>2 DEF RequestVoteReturns
<1>4. /\ state \in [Server -> {LEADER, FOLLOWER, CANDIDATE, GAVE_UP}]
      /\ currentTerm \in [Server -> Nat] /\ matchIndex \in [Server -> [Server -> Nat]]
  BY <1>1 DEF IInv, TypeOK
<1>5. \A q \in Server : \/ LeaderMoves(q) /\ matchIndex'[q] = matchIndex[q]
                        \/ \A p \in Server : matchIndex'[q][p] = 0
  BY SMT, <1>3, <1>4 DEF LeaderMoves, LEADER, FOLLOWER, GAVE_UP
<1>6. \A q \in Server : MatchMoves(llog, q)
  <2>1. ASSUME NEW q \in Server, \A p \in Server : matchIndex'[q][p] = 0 PROVE MatchMoves(llog, q)
    BY <2>1 DEF MatchMoves
  <2> QED
    BY <1>5, <2>1, MatchStays
<1>7. \A q \in Server : AckMoves(llog, q)
  BY <1>3, GrownAcks
<1>8. appendCalls' = appendCalls
  BY <1>3 DEF replication
<1> QED
  BY <1>6, <1>7, <1>8, AcksGoOn

\* The steps of Start, checkApply and sendHeartbeat before an answer, late votes
\* and failed calls.
LEMMA QuietAcks ==
  ASSUME NEW led, NEW llog, NEW held, NEW led2, NEW llog2, NEW held2,
         Step(led, llog, held, led2, llog2, held2), AcksAreSound(llog),
         \/ UNCHANGED vars
         \/ \E s \in Server : sendHeartbeat(s) \/ checkApply(s)
         \/ \E s \in Server, c \in Command : Start(s, c)
         \/ \E m \in lateVotes : DeliverLateVote(m)
         \/ \E g \in appendCalls : sendAppendEntries(g) \/ AppendEntriesFails(g)
  PROVE  AcksAreSound(llog2)'
<1>1. IInv
  BY DEF Step, Safe, Before
<1>2. \A s \in Server : LeaderMoves(s)
  <2>1. Quiet
    BY DEF Quiet
  <2> QED
    BY <1>1, <2>1, QuietMoves, LeadersMove
<1>3. CASE UNCHANGED vars
  <2>1. matchIndex' = matchIndex /\ log' = log /\ appendCalls' = appendCalls
    BY <1>3 DEF vars, volatile, durable, replication
  <2> QED
    BY <1>2, <2>1, StillAcks
<1>4. ASSUME NEW s \in Server, sendHeartbeat(s) PROVE AcksAreSound(llog2)'
  <2>1. /\ UNCHANGED durable /\ UNCHANGED volatile
        /\ \E k : appendCalls' = appendCalls \cup
             {[round |-> k, peer |-> p, pc |-> "ready", args |-> NoAppendArgs, reply |-> NoAppendReply] :
                p \in Server \ {s}}
    BY <1>4 DEF sendHeartbeat
  <2>2. matchIndex' = matchIndex /\ log' = log
    BY <2>1 DEF durable, volatile
  <2>3. \A g \in appendCalls' : g \in appendCalls \/ g.pc # "replied"
    BY SMT, <2>1
  <2> QED
    BY <1>2, <2>2, <2>3, StillAcks
<1>5. ASSUME NEW s \in Server, checkApply(s) PROVE AcksAreSound(llog2)'
  <2>1. UNCHANGED durable /\ matchIndex' = matchIndex /\ UNCHANGED replication
    BY <1>5 DEF checkApply
  <2>2. log' = log /\ appendCalls' = appendCalls
    BY <2>1 DEF durable, replication
  <2> QED
    BY <1>2, <2>1, <2>2, StillAcks
<1>6. ASSUME NEW s \in Server, NEW c \in Command, Start(s, c) PROVE AcksAreSound(llog2)'
  <2>1. UNCHANGED replication /\ UNCHANGED volatile
    BY <1>6 DEF Start
  <2>2. matchIndex' = matchIndex /\ appendCalls' = appendCalls
    BY <2>1 DEF volatile, replication
  <2>3. \A q \in Server : log'[q] = log[q] \/ Agree(log[q], log'[q], Len(log[q]))
    BY <1>1, <1>6, StartGrowsLog
  <2> QED
    BY <1>2, <2>2, <2>3, StillAcks
<1>7. ASSUME NEW m \in lateVotes, DeliverLateVote(m) PROVE AcksAreSound(llog2)'
  <2>1. UNCHANGED replication /\ UNCHANGED volatile /\ (UNCHANGED durable \/ log' = log)
    BY <1>7 DEF DeliverLateVote, RequestVote
  <2>2. matchIndex' = matchIndex /\ appendCalls' = appendCalls /\ log' = log
    BY <2>1 DEF volatile, replication, durable
  <2> QED
    BY <1>2, <2>2, StillAcks
<1>8. ASSUME NEW g \in appendCalls, sendAppendEntries(g) \/ AppendEntriesFails(g) PROVE AcksAreSound(llog2)'
  <2>1. g \in AppendCall
    BY <1>1 DEF IInv, TypeOK
  <2>2. PICK h, a : h = [g EXCEPT !.pc = "sent", !.args = a, !.reply = NoAppendReply]
                    /\ a = BuildAppendEntries(rounds[g.round], g.peer)
    OBVIOUS
  <2>3. h.pc # "replied" /\ Again(g).pc # "replied"
    BY <2>1, <2>2 DEF Again, AppendCall
  <2>4. UNCHANGED durable /\ UNCHANGED volatile
    BY <1>8 DEF sendAppendEntries, AppendEntriesFails
  <2>5. log' = log /\ matchIndex' = matchIndex
    BY <2>4 DEF durable, volatile
  <2>6. \A x \in appendCalls' : x \in appendCalls \/ x = h \/ x = Again(g)
    <3>1. CASE sendAppendEntries(g)
      <4>1. PICK new : /\ new = [g EXCEPT !.pc = "sent", !.args = a, !.reply = NoAppendReply]
                       /\ appendCalls' \subseteq appendCalls \cup {new}
        BY <2>2, <3>1 DEF sendAppendEntries
      <4> QED
        BY <2>2, <4>1
    <3>2. CASE AppendEntriesFails(g)
      <4>1. appendCalls' \subseteq appendCalls \cup {Again(g)}
        BY <3>2 DEF AppendEntriesFails
      <4> QED
        BY <4>1
    <3> QED
      BY <1>8, <3>1, <3>2
  <2>7. \A x \in appendCalls' : x \in appendCalls \/ x.pc # "replied"
    BY <2>3, <2>6
  <2> QED
    BY <1>2, <2>5, <2>7, StillAcks
<1> QED
  BY <1>3, <1>4, <1>5, <1>6, <1>7, <1>8

\* A restart: the log was saved, and nothing is acknowledged.
LEMMA RebootAcks ==
  ASSUME NEW led, NEW llog, NEW held, NEW led2, NEW llog2, NEW held2,
         Step(led, llog, held, led2, llog2, held2), AcksAreSound(llog), Reboots
  PROVE  AcksAreSound(llog2)'
<1>1. IInv
  BY DEF Step, Safe, Before
<1>2. PICK s \in Server : \E p : Reboot(s, p) /\ p.log = saved[s].log
  <2>1. CASE \E s \in Server : Restart(s)
    BY <2>1 DEF Restart
  <2>2. ASSUME NEW m \in lateAppends, CrashInAppendEntries(m)
        PROVE  \E s \in Server : \E p : Reboot(s, p) /\ p.log = saved[s].log
    <3>1. m.to \in Server /\ saved[m.to] \in Persistent
      BY <1>1 DEF IInv, TypeOK
    <3>2. [saved[m.to] EXCEPT !.currentTerm = m.args.Term, !.state = FOLLOWER].log = saved[m.to].log
      BY <3>1 DEF Persistent
    <3> QED
      BY <2>2, <3>1, <3>2 DEF CrashInAppendEntries
  <2> QED
    BY <2>1, <2>2 DEF Reboots
<1>3. PICK p : Reboot(s, p) /\ p.log = saved[s].log
  BY <1>2
<1>4. /\ log' = [log EXCEPT ![s] = p.log] /\ appendCalls' \subseteq appendCalls
      /\ matchIndex' = [matchIndex EXCEPT ![s] = [q \in Server |-> 0]]
  BY <1>3 DEF Reboot
<1>5. log \in [Server -> Seq(LogEntry)] /\ matchIndex \in [Server -> [Server -> Nat]]
  BY <1>1 DEF IInv, TypeOK
<1>6. p.log = log[s]
  BY <1>1, <1>3, SavedFields
<1>7. \A q \in Server : log'[q] = log[q]
  BY <1>4, <1>5, <1>6
<1>8. \A q \in Server : LeaderMoves(q)
  BY <1>1, RebootsMove, LeadersMove
<1>9. \A q \in Server : matchIndex'[q] = matchIndex[q] \/ \A x \in Server : matchIndex'[q][x] = 0
  BY <1>4, <1>5
<1>10. \A q \in Server : MatchMoves(llog, q)
  <2>1. ASSUME NEW q \in Server, \A x \in Server : matchIndex'[q][x] = 0 PROVE MatchMoves(llog, q)
    BY <2>1 DEF MatchMoves
  <2> QED
    BY <1>8, <1>9, <2>1, MatchStays
<1>11. \A q \in Server : AckMoves(llog, q)
  BY <1>7, GrownAcks
<1> QED
  BY <1>4, <1>10, <1>11, AcksGoOn

\* The handler of AppendEntries takes nothing from what it has of the leader's log.
LEMMA HandlerAcks ==
  ASSUME NEW led, NEW llog, NEW held, Before(led, llog, held), AcksAreSound(llog), NEW i \in Server,
         NEW a \in AppendEntriesArgs, SliceOK(led, llog, i, a), AppendEntries(i, a),
         matchIndex' = matchIndex
  PROVE  \A p \in Server : AckMoves(llog, p) /\ MatchMoves(llog, p)
<1>1. IInv
  BY DEF Before
<1>2. \A p \in Server : MatchMoves(llog, p)
  BY <1>1, AppendEntriesMoves, LeadersMove, MatchStays
<1>3. log \in [Server -> Seq(LogEntry)] /\ currentTerm \in [Server -> Nat]
  BY <1>1 DEF IInv, TypeOK
<1>4. CASE UNCHANGED durable
  <2>1. log' = log
    BY <1>4 DEF durable
  <2> QED
    BY <1>2, <2>1 DEF AckMoves
<1>5. CASE ~UNCHANGED durable
  <2>1. PICK f : f = FollowerLog(log[i], a)
    OBVIOUS
  <2>2. currentTerm' = [currentTerm EXCEPT ![i] = a.Term] /\ log' = [log EXCEPT ![i] = f]
    BY <1>5, <2>1 DEF AppendEntries
  <2>3. /\ currentTerm'[i] = a.Term /\ log'[i] = f
        /\ \A p \in Server \ {i} : log'[p] = log[p]
    BY <1>3, <2>2
  <2>4. \A n \in Nat : Agree(log[i], llog[a.Term], n) => Agree(f, llog[a.Term], n)
    BY <2>1, AppendedLog
  <2>5. AckMoves(llog, i)
    BY <2>3, <2>4 DEF AckMoves
  <2>6. \A p \in Server \ {i} : AckMoves(llog, p)
    BY <2>3 DEF AckMoves
  <2> QED
    BY <1>2, <2>5, <2>6
<1> QED
  BY <1>4, <1>5

\* An AppendEntries request arrives: success acknowledges all of it.
LEMMA DeliverAcks ==
  ASSUME NEW led, NEW llog, NEW held, NEW led2, NEW llog2, NEW held2,
         Step(led, llog, held, led2, llog2, held2), AcksAreSound(llog),
         NEW g \in appendCalls, DeliverAppendEntries(g)
  PROVE  AcksAreSound(llog2)'
<1>1. IInv /\ Before(led, llog, held) /\ RequestsFromLeaders(led, llog)
  BY DEF Step, Safe, Before, HistoryOK
<1>2. g \in AppendCall /\ g.peer \in Server /\ g.args \in AppendEntriesArgs
  BY <1>1 DEF IInv, TypeOK, AppendCall
<1>3. PICK a \in AppendEntriesArgs, i \in Server : a = g.args /\ i = g.peer
  BY <1>2
<1>4. PICK y, h : y = AppendEntriesAnswer(i, a) /\ h = [g EXCEPT !.pc = "replied", !.reply = y]
  OBVIOUS
<1>5. /\ g.pc = "sent" /\ AppendEntries(i, a) /\ appendCalls' = (appendCalls \ {g}) \cup {h}
      /\ matchIndex' = matchIndex
  BY <1>3, <1>4 DEF DeliverAppendEntries
<1>6. g.pc # "ready"
  BY <1>5
<1>7. SliceOK(led, llog, i, a)
  BY <1>1, <1>3, <1>6 DEF RequestsFromLeaders
<1>8. \A p \in Server : AckMoves(llog, p) /\ MatchMoves(llog, p)
  BY <1>1, <1>5, <1>7, HandlerAcks
<1>9. h.peer = i /\ h.args = a /\ h.reply = y
  BY <1>2, <1>3, <1>4 DEF AppendCall
<1>10. ASSUME y.Success PROVE Acknowledged(llog2, i, a.Term, a.PrevLogIndex + Len(a.Entries))'
  <2>1. /\ currentTerm'[i] = a.Term /\ log'[i] \in Seq(LogEntry)
        /\ Agree(log'[i], llog[a.Term], a.PrevLogIndex + Len(a.Entries))
    BY <1>1, <1>4, <1>5, <1>7, <1>10, AcceptedLog
  <2>2. a.Term \in Nat /\ a.PrevLogIndex \in Nat /\ a.Entries \in Seq(LogEntry)
    BY DEF AppendEntriesArgs
  <2>3. a.PrevLogIndex + Len(a.Entries) \in Nat
    BY SMT, <2>2
  <2>4. /\ llog \in [Nat -> Seq(LogEntry)] /\ llog2 \in [Nat -> Seq(LogEntry)]
        /\ Grows(led, llog, led2, llog2)
    BY StepMeans
  <2>5. PICK k \in Seq(LogEntry), w \in Seq(LogEntry), w2 \in Seq(LogEntry), n \in Nat :
          /\ k = log'[i] /\ w = llog[a.Term] /\ w2 = llog2[a.Term]
          /\ n = a.PrevLogIndex + Len(a.Entries)
    BY <2>1, <2>2, <2>3, <2>4, LeaderLogType
  <2>6. Agree(k, w, n) /\ Agree(w, w2, Len(w))
    BY <1>7, <2>1, <2>2, <2>4, <2>5 DEF Grows, SliceOK
  <2>7. Agree(k, w2, n)
    BY SMT, <2>6 DEF Agree
  <2> QED
    BY <2>1, <2>5, <2>7 DEF Acknowledged
<1>11. \A x \in appendCalls' : x \in appendCalls \/ x = h
  BY <1>5
<1> QED
  BY <1>8, <1>9, <1>10, <1>11, AcksGoOn

\* A late one acknowledges nothing.
LEMMA DeliverLateAcks ==
  ASSUME NEW led, NEW llog, NEW held, NEW led2, NEW llog2, NEW held2,
         Step(led, llog, held, led2, llog2, held2), AcksAreSound(llog),
         NEW m \in lateAppends, DeliverLateAppend(m)
  PROVE  AcksAreSound(llog2)'
<1>1. IInv /\ Before(led, llog, held) /\ RequestsFromLeaders(led, llog)
  BY DEF Step, Safe, Before, HistoryOK
<1>2. m \in [to : Server, args : AppendEntriesArgs]
  BY <1>1 DEF IInv, TypeOK
<1>3. m.to \in Server /\ m.args \in AppendEntriesArgs
  BY <1>2
<1>4. SliceOK(led, llog, m.to, m.args)
  BY <1>1 DEF RequestsFromLeaders
<1>5. AppendEntries(m.to, m.args) /\ matchIndex' = matchIndex /\ appendCalls' = appendCalls
  BY DEF DeliverLateAppend
<1>6. \A p \in Server : AckMoves(llog, p) /\ MatchMoves(llog, p)
  BY <1>1, <1>3, <1>4, <1>5, HandlerAcks
<1> QED
  BY <1>5, <1>6, AcksGoOn

\* An answer comes back: only success moves matchIndex, to what was acknowledged.
LEMMA ReturnAcks ==
  ASSUME NEW led, NEW llog, NEW held, NEW led2, NEW llog2, NEW held2,
         Step(led, llog, held, led2, llog2, held2), AcksAreSound(llog),
         NEW g \in appendCalls, AppendEntriesReturns(g)
  PROVE  AcksAreSound(llog2)'
<1>1. IInv
  BY DEF Step, Safe, Before
<1>2. g \in AppendCall /\ g.round \in DOMAIN rounds /\ g.peer \in Server /\ rounds[g.round] \in Round
  BY <1>1 DEF IInv, TypeOK, AppendCall
<1>3. PICK n : n = g.args.PrevLogIndex + Len(g.args.Entries)
  OBVIOUS
<1>4. PICK r \in Round, p \in Server :
        r = rounds[g.round] /\ p = g.peer /\ n = g.args.PrevLogIndex + Len(g.args.Entries)
  BY <1>2, <1>3
<1>5. \A q \in Server : LeaderMoves(q)
  BY <1>1, AppendReturnsMoves, LeadersMove
<1>6. /\ log' = log /\ g.pc = "replied"
      /\ (appendCalls' = appendCalls \ {g} \/ appendCalls' = (appendCalls \ {g}) \cup {Again(g)})
  BY DEF AppendEntriesReturns
<1>7. \A q \in Server : AckMoves(llog, q)
  BY <1>6, GrownAcks
<1>8. ASSUME NEW x \in appendCalls' PROVE x \in appendCalls \/ x.pc # "replied"
  <2>1. x \in appendCalls \/ x = Again(g)
    BY <1>6
  <2>2. Again(g).pc # "replied"
    BY <1>2 DEF Again, AppendCall
  <2> QED
    BY <2>1, <2>2
<1>9. CASE matchIndex' = matchIndex
  BY <1>5, <1>6, <1>8, <1>9, StillAcks
<1>10. CASE matchIndex' # matchIndex
  <2>1. PICK s \in Server : s = r.leader
    BY DEF Round
  <2>2. /\ StillMine(g) /\ g.reply.Success
        /\ matchIndex' = [matchIndex EXCEPT ![s][p] = n]
    BY <1>4, <1>10, <2>1 DEF AppendEntriesReturns
  <2>3. Acknowledged(llog, p, g.args.Term, n)
    BY <1>4, <1>6, <2>2 DEF AcksAreSound
  <2>4. g.pc # "ready"
    BY <1>6
  <2>5. g.args.Term = r.currentTerm
    BY <1>1, <1>4, <2>4 DEF IInv, IndexInvariant, AppendCallOK
  <2>6. r.currentTerm = currentTerm[s]
    BY <1>4, <2>1, <2>2 DEF StillMine, StillLeads
  <2>7. Acknowledged(llog, p, currentTerm[s], n)
    BY <2>3, <2>5, <2>6
  <2>8. matchIndex \in [Server -> [Server -> Nat]]
    BY <1>1 DEF IInv, TypeOK
  <2>9. /\ \A q \in Server \ {s} : matchIndex'[q] = matchIndex[q]
        /\ \A q \in Server : matchIndex'[s][q] = IF q = p THEN n ELSE matchIndex[s][q]
    BY <2>2, <2>8
  <2>10. MatchMoves(llog, s)
    BY <1>5, <2>7, <2>9 DEF MatchMoves, LeaderMoves, AcksAreSound
  <2>11. \A q \in Server \ {s} : MatchMoves(llog, q)
    BY <1>5, <2>9, MatchStays
  <2>12. \A q \in Server : MatchMoves(llog, q)
    BY <2>10, <2>11
  <2> QED
    BY <1>7, <1>8, <2>12, AcksGoOn
<1> QED
  BY <1>9, <1>10

\* Every step leaves acknowledgements sound.
LEMMA AcksKeep ==
  ASSUME NEW led, NEW llog, NEW held, NEW led2, NEW llog2, NEW held2,
         Step(led, llog, held, led2, llog2, held2), AcksAreSound(llog), [Next]_vars
  PROVE  AcksAreSound(llog2)'
<1>1. CASE \/ UNCHANGED vars
           \/ \E s \in Server : sendHeartbeat(s) \/ checkApply(s)
           \/ \E s \in Server, c \in Command : Start(s, c)
           \/ \E m \in lateVotes : DeliverLateVote(m)
           \/ \E g \in appendCalls : sendAppendEntries(g) \/ AppendEntriesFails(g)
  BY <1>1, QuietAcks
<1>2. CASE \/ \E s \in Server : checkElection(s)
           \/ \E g \in voteCalls : sendRequestVote(g) \/ DeliverRequestVote(g)
  BY <1>2, ElectionAcks
<1>3. CASE \E g \in voteCalls : RequestVoteReturns(g)
  BY <1>3, VoteAcks
<1>4. CASE \E g \in appendCalls : DeliverAppendEntries(g) \/ AppendEntriesReturns(g)
  BY <1>4, DeliverAcks, ReturnAcks
<1>5. CASE \E m \in lateAppends : DeliverLateAppend(m)
  BY <1>5, DeliverLateAcks
<1>6. CASE Reboots
  BY <1>6, RebootAcks
<1> QED
  BY <1>1, <1>2, <1>3, <1>4, <1>5, <1>6 DEF Next, Reboots

\* Nobody leads at the start.
LEMMA AcksInit ==
  ASSUME Init, NEW llog
  PROVE  AcksAreSound(llog)
BY SMT DEF Init, AcksAreSound, LEADER, FOLLOWER

=============================================================================
