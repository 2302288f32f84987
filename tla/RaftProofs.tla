----------------------------- MODULE RaftProofs -----------------------------
(***************************************************************************)
(* Types, index safety and votes of Raft, for any number of servers and    *)
(* any scheduling: TypeOK and IndexInvariant are inductive together, and   *)
(* so, without late vote requests, is VoteInvariant.  The last part has    *)
(* what RaftHistoryProofs and RaftCommitProofs both need.                  *)
(***************************************************************************)
EXTENDS RaftHistory, WellFoundedInduction, TLAPS

USE Zenon

-----------------------------------------------------------------------------
(* Numbers *)

\* A nonempty set of naturals with an upper bound has a largest element: the
\* loops of AppendEntries and sendHeartbeat that search from the end find one.
LEMMA LargestExists ==
  ASSUME NEW n \in Nat, NEW S \in SUBSET (0 .. n), S # {}
  PROVE  \E i \in S : \A j \in S : j <= i
<1> DEFINE T == {n - i : i \in S}
<1>1. T \subseteq Nat /\ T # {}
  <2>1. \A i \in S : n - i \in Nat
    BY SMT
  <2> QED
    BY <2>1
<1>2. PICK x \in T : \A y \in T : ~(<<y, x>> \in OpToRel(<, Nat))
  BY <1>1, NatLessThanWellFounded, WFMin
<1>3. \A y \in T : ~(y < x)
  BY <1>1, <1>2 DEF OpToRel
<1>4. PICK i \in S : x = n - i
  OBVIOUS
<1>5. ASSUME NEW j \in S PROVE j <= i
  <2>1. ~(n - j < n - i)
    BY <1>3, <1>4
  <2> QED
    BY SMT, <2>1
<1> QED
  BY <1>5

\* A nonempty set of naturals has a smallest element: sendHeartbeat finds the
\* first free number.
LEMMA SmallestExists ==
  ASSUME NEW S \in SUBSET Nat, S # {}
  PROVE  \E i \in S : \A j \in S : i <= j
<1>1. PICK x \in S : \A y \in S : ~(<<y, x>> \in OpToRel(<, Nat))
  BY NatLessThanWellFounded, WFMin
<1>2. \A y \in S : ~(y < x)
  BY <1>1 DEF OpToRel
<1> QED
  BY SMT, <1>2

-----------------------------------------------------------------------------
(* What the operators on logs return *)

\* The term at an index of a log is a natural number.
LEMMA TermAtType ==
  ASSUME NEW l \in Seq(LogEntry), NEW i \in 0 .. Len(l)
  PROVE  TermAt(l, i) \in Nat
<1>1. CASE i = 0
  BY <1>1 DEF TermAt
<1>2. CASE i # 0
  <2>1. l[i] \in LogEntry
    BY SMT, <1>2
  <2>2. l[i].Term \in Nat
    BY <2>1 DEF LogEntry
  <2> QED
    BY <1>2, <2>2 DEF TermAt
<1> QED
  BY <1>1, <1>2

\* The bound on the terms of a log may grow.
LEMMA LogOKLater ==
  ASSUME NEW l \in Seq(LogEntry), NEW t \in Nat, NEW u \in Nat, t <= u, LogOK(l, t)
  PROVE  LogOK(l, u)
BY SMT DEF LogOK

\* A log is a sequence of entries, each with a term that is a number.
LEMMA LogType ==
  ASSUME TypeOK, NEW s \in Server
  PROVE  log[s] \in Seq(LogEntry) /\ Len(log[s]) \in Nat
<1>1. log[s] \in Seq(LogEntry)
  BY DEF TypeOK
<1> QED
  BY SMT, <1>1

\* The same after a step.
LEMMA LogTypePrimed ==
  ASSUME TypeOK', NEW s \in Server
  PROVE  log'[s] \in Seq(LogEntry) /\ Len(log'[s]) \in Nat
<1>1. log'[s] \in Seq(LogEntry)
  BY DEF TypeOK
<1> QED
  BY SMT, <1>1

\* AppendEntries leaves a well-formed log, in order, whose terms are at most
\* the term of the request.
LEMMA FollowerLogOK ==
  ASSUME NEW l \in Seq(LogEntry), NEW a \in AppendEntriesArgs, NEW t \in Nat, t <= a.Term,
         LogOK(l, t), ArgsOK(a)
  PROVE  FollowerLog(l, a) \in Seq(LogEntry) /\ LogOK(FollowerLog(l, a), a.Term)
<1> DEFINE n == a.PrevLogIndex
<1>1. n \in Nat /\ a.Term \in Nat /\ a.Entries \in Seq(LogEntry) /\ a.PrevLogTerm \in Nat
  BY DEF AppendEntriesArgs
<1>2. LogOK(l, a.Term)
  BY SMT, <1>1 DEF LogOK
<1>3. ASSUME ~TooShort(l, a), NEW m \in Int, m <= n
      PROVE  SubSeq(l, 1, m) \in Seq(LogEntry) /\ LogOK(SubSeq(l, 1, m), a.Term)
  <2>1. Len(l) \in Nat /\ m <= Len(l)
    BY SMT, <1>1, <1>3 DEF TooShort
  <2>2. PICK k : k = SubSeq(l, 1, m)
    OBVIOUS
  <2>3. k \in Seq(LogEntry) /\ Len(k) <= Len(l) /\ \A i \in 1 .. Len(k) : i \in 1 .. Len(l) /\ k[i] = l[i]
    BY SMT, <1>3, <2>1, <2>2
  <2>4. LogOK(k, a.Term)
    BY SMT, <1>2, <2>3 DEF LogOK
  <2> QED
    BY <2>2, <2>3, <2>4
<1>4. CASE TooShort(l, a)
  BY <1>2, <1>4 DEF FollowerLog, Conflicts
<1>5. CASE Conflicts(l, a)
  <2>1. ~TooShort(l, a) /\ n - 1 \in Int /\ n - 1 <= n
    BY SMT, <1>1, <1>5 DEF Conflicts
  <2>2. FollowerLog(l, a) = SubSeq(l, 1, n - 1)
    BY <1>5, <2>1 DEF FollowerLog
  <2> QED
    BY <1>3, <2>1, <2>2
<1>6. CASE Accepts(l, a)
  <2>1. \A i \in 1 .. Len(a.Entries) : /\ a.Entries[i].Term \in 1 .. a.Term
                                       /\ a.PrevLogTerm <= a.Entries[i].Term
    BY DEF ArgsOK, LogOK
  <2>2. \A i, j \in 1 .. Len(a.Entries) : i <= j => a.Entries[i].Term <= a.Entries[j].Term
    BY DEF ArgsOK, LogOK
  <2> DEFINE p == SubSeq(l, 1, n)
             k == p \o a.Entries
  <2>3. n <= Len(l) /\ TermAt(l, n) = a.PrevLogTerm
    BY SMT, <1>1, <1>6 DEF Accepts, Conflicts, TooShort
  <2>4. p \in Seq(LogEntry) /\ Len(p) = n /\ \A i \in 1 .. n : p[i] = l[i]
    BY SMT, <1>1, <2>3
  <2>5. k \in Seq(LogEntry) /\ Len(k) = n + Len(a.Entries)
    BY SMT, <1>1, <2>4
  <2>6. /\ \A i \in 1 .. Len(k) : i <= n => k[i] = l[i]
        /\ \A i \in 1 .. Len(k) : i > n => k[i] = a.Entries[i - n]
    BY SMT, <1>1, <2>4, <2>5
  <2>7. FollowerLog(l, a) \in {l, k}
    BY <1>6 DEF FollowerLog, Accepts
  <2> HIDE DEF n, p, k
  <2>8. \A i \in 1 .. n : l[i].Term <= a.PrevLogTerm
    BY SMT, <1>1, <1>2, <2>3 DEF LogOK, TermAt
  <2>9. \A i \in 1 .. Len(k) : k[i].Term \in 1 .. a.Term
    <3> SUFFICES ASSUME NEW i \in 1 .. Len(k) PROVE k[i].Term \in 1 .. a.Term
      OBVIOUS
    <3>1. CASE i <= n
      <4>1. i \in 1 .. Len(l)
        BY SMT, <1>1, <2>3, <2>5, <3>1
      <4> QED
        BY <1>2, <2>6, <3>1, <4>1 DEF LogOK
    <3>2. CASE i > n
      <4>1. i - n \in 1 .. Len(a.Entries)
        BY SMT, <1>1, <2>5, <3>2
      <4>2. k[i] = a.Entries[i - n]
        BY <1>1, <2>5, <2>6, <3>2
      <4> QED
        BY <2>1, <4>1, <4>2
    <3> QED
      BY SMT, <1>1, <2>5, <3>1, <3>2
  <2>10. ASSUME NEW i \in 1 .. Len(k), NEW j \in 1 .. Len(k), i <= j
         PROVE  k[i].Term <= k[j].Term
    <3>1. CASE j <= n
      <4>1. i \in 1 .. Len(l) /\ j \in 1 .. Len(l) /\ i <= n
        BY SMT, <1>1, <2>3, <2>5, <2>10, <3>1
      <4>2. l[i].Term <= l[j].Term
        BY <1>2, <2>10, <4>1 DEF LogOK
      <4>3. k[i] = l[i] /\ k[j] = l[j]
        BY <2>6, <3>1, <4>1
      <4> QED
        BY <4>2, <4>3
    <3>2. CASE i > n
      <4>1. i - n \in 1 .. Len(a.Entries) /\ j - n \in 1 .. Len(a.Entries)
        BY SMT, <1>1, <2>5, <2>10, <3>2
      <4>2. k[i] = a.Entries[i - n] /\ k[j] = a.Entries[j - n]
        BY SMT, <1>1, <2>5, <2>6, <2>10, <3>2
      <4>3. i - n <= j - n
        BY SMT, <1>1, <2>5, <2>10
      <4> QED
        BY <2>2, <4>1, <4>2, <4>3
    <3>3. CASE i <= n /\ j > n
      <4>1. j - n \in 1 .. Len(a.Entries)
        BY SMT, <1>1, <2>5, <3>3
      <4>2. k[i] = l[i] /\ k[j] = a.Entries[j - n]
        BY <1>1, <2>5, <2>6, <3>3
      <4>3. l[i].Term <= a.PrevLogTerm /\ l[i].Term \in Nat
        BY SMT, <1>1, <1>2, <2>3, <2>5, <2>8, <3>3 DEF LogOK
      <4>4. a.PrevLogTerm <= a.Entries[j - n].Term /\ a.Entries[j - n].Term \in Nat
        BY SMT, <1>1, <2>1, <4>1
      <4>5. \A x, y, z \in Nat : x <= y /\ y <= z => x <= z
        BY SMT
      <4> QED
        BY <1>1, <4>2, <4>3, <4>4, <4>5
    <3> QED
      BY SMT, <1>1, <2>5, <3>1, <3>2, <3>3
  <2>11. LogOK(k, a.Term)
    BY <2>9, <2>10 DEF LogOK
  <2> QED
    BY <1>2, <2>5, <2>11, <2>7
<1> QED
  BY <1>4, <1>5, <1>6 DEF Accepts

\* The index AppendEntries answers with: the first entry of the conflicting
\* term, which is at or before the conflict.
LEMMA FirstOfTermOK ==
  ASSUME NEW l \in Seq(LogEntry), NEW t \in Nat, LogOK(l, t), NEW m \in 1 .. Len(l)
  PROVE  FirstOfTerm(l, TermAt(l, m)) \in 1 .. m
<1> DEFINE x == TermAt(l, m)
           P(i) == TermAt(l, i) < x /\ \A j \in (i + 1) .. Len(l) : TermAt(l, j) >= x
           S == {i \in 0 .. Len(l) : TermAt(l, i) < x}
<1>1. Len(l) \in Nat /\ \A i \in 0 .. Len(l) : TermAt(l, i) \in Nat
  BY SMT, TermAtType
<1>2. \A i \in 1 .. Len(l) : TermAt(l, i) = l[i].Term
  BY SMT DEF TermAt
<1>3. x > 0 /\ TermAt(l, 0) = 0
  BY SMT, <1>2 DEF LogOK, TermAt
<1>4. 0 \in S
  BY SMT, <1>1, <1>3
<1>5. PICK i \in S : \A j \in S : j <= i
  BY <1>1, <1>4, LargestExists
<1>6. P(i)
  <2>1. ASSUME NEW j \in (i + 1) .. Len(l) PROVE TermAt(l, j) >= x
    <3>1. j \in 0 .. Len(l) /\ ~(j <= i)
      BY SMT, <1>1
    <3>2. ~(TermAt(l, j) < x)
      BY <1>5, <3>1
    <3> QED
      BY SMT, <1>1, <3>1, <3>2
  <2> QED
    BY <2>1
<1> DEFINE c == CHOOSE k \in 0 .. Len(l) : P(k)
<1>7. c \in 0 .. Len(l) /\ P(c)
  BY <1>6
<1>8. FirstOfTerm(l, x) = 1 + c
  BY <1>4 DEF FirstOfTerm
<1> HIDE DEF c, P, S
<1>9. c < m
  <2>1. SUFFICES ASSUME c >= m PROVE FALSE
    BY SMT, <1>1, <1>7
  <2>2. c \in 1 .. Len(l)
    BY SMT, <1>1, <1>7, <2>1
  <2>3. l[m].Term <= l[c].Term
    BY <2>1, <2>2 DEF LogOK
  <2>4. TermAt(l, c) < x
    BY <1>7 DEF P
  <2> QED
    BY SMT, <1>1, <1>2, <2>2, <2>3, <2>4
<1> QED
  BY SMT, <1>1, <1>7, <1>8, <1>9

\* The answer of AppendEntries has the form sendHeartbeat relies on.
LEMMA AnswerOK ==
  ASSUME NEW i \in Server, TypeOK, LogOK(log[i], currentTerm[i]),
         NEW a \in AppendEntriesArgs, ArgsOK(a)
  PROVE  AppendEntriesAnswer(i, a) \in AppendEntriesReply /\ ReplyOK(a, AppendEntriesAnswer(i, a))
<1> DEFINE l == log[i]
           n == a.PrevLogIndex
           x == TermAt(l, n)
           ans == AppendEntriesAnswer(i, a)
<1>1. l \in Seq(LogEntry) /\ Len(l) \in Nat /\ currentTerm[i] \in Nat
  BY SMT DEF TypeOK
<1>2. a.Term \in Nat /\ n \in Nat /\ a.PrevLogTerm \in Nat
  BY DEF AppendEntriesArgs
<1>3. CASE a.Term < currentTerm[i]
  <2>1. ans = AppendReply(currentTerm[i], FALSE, 0, 0, 0)
    BY <1>1, <1>2, <1>3 DEF AppendEntriesAnswer
  <2>2. ans \in AppendEntriesReply /\ ans.Term = currentTerm[i]
    BY SMT, <1>1, <2>1 DEF AppendReply, AppendEntriesReply
  <2> QED
    BY SMT, <1>1, <1>2, <1>3, <2>2 DEF ReplyOK
<1>4. CASE ~(a.Term < currentTerm[i]) /\ TooShort(l, a)
  <2>1. ans = AppendReply(a.Term, FALSE, Len(l) + 1, 0, 0)
    BY <1>4 DEF AppendEntriesAnswer
  <2>2. Len(l) + 1 \in 1 .. n
    BY SMT, <1>1, <1>2, <1>4 DEF TooShort
  <2>3. ans \in AppendEntriesReply /\ ans.Term = a.Term /\ ans.XLen = Len(l) + 1
    BY SMT, <1>1, <1>2, <2>1 DEF AppendReply, AppendEntriesReply
  <2> QED
    BY SMT, <1>2, <2>2, <2>3 DEF ReplyOK
<1>5. CASE ~(a.Term < currentTerm[i]) /\ Conflicts(l, a)
  <2>1. ans = AppendReply(a.Term, FALSE, -1, x, FirstOfTerm(l, x))
    BY <1>5 DEF AppendEntriesAnswer, Conflicts
  <2>2. n <= Len(l) /\ TermAt(l, n) # a.PrevLogTerm
    BY SMT, <1>1, <1>2, <1>5 DEF Conflicts, TooShort
  <2>3. n # 0
    BY <2>2 DEF ArgsOK, TermAt
  <2>4. FirstOfTerm(l, x) \in 1 .. n
    BY SMT, <1>1, <1>2, <2>2, <2>3, FirstOfTermOK
  <2>5. x \in Nat /\ x > 0
    BY SMT, <1>1, <1>2, <2>2, <2>3 DEF LogOK, TermAt
  <2>6. /\ ans \in AppendEntriesReply /\ ans.Term = a.Term /\ ans.XLen = -1
        /\ ans.XTerm = x /\ ans.XIndex = FirstOfTerm(l, x)
    BY SMT, <1>2, <2>1, <2>4, <2>5 DEF AppendReply, AppendEntriesReply
  <2> QED
    BY SMT, <1>2, <2>4, <2>5, <2>6 DEF ReplyOK
<1>6. CASE ~(a.Term < currentTerm[i]) /\ Accepts(l, a)
  <2>1. ans = AppendReply(a.Term, TRUE, -1, 0, 0)
    BY <1>6 DEF AppendEntriesAnswer, Accepts
  <2>2. ans \in AppendEntriesReply /\ ans.Term = a.Term /\ ans.Success
    BY SMT, <1>2, <2>1 DEF AppendReply, AppendEntriesReply
  <2> QED
    BY SMT, <1>2, <2>2 DEF ReplyOK
<1> QED
  BY <1>1, <1>2, <1>3, <1>4, <1>5, <1>6 DEF Accepts

\* Backing up after a rejection stays inside the leader's log.
LEMMA BackUpOK ==
  ASSUME NEW l \in Seq(LogEntry), NEW a \in AppendEntriesArgs, NEW reply \in AppendEntriesReply,
         ReplyOK(a, reply), ~reply.Success, reply.Term = a.Term, a.PrevLogIndex <= Len(l)
  PROVE  BackUp(l, reply) \in 1 .. Len(l) + 1
<1> DEFINE S == {j \in 0 .. Len(l) : TermAt(l, j) = reply.XTerm}
<1>1. Len(l) \in Nat /\ a.PrevLogIndex \in Nat
  BY SMT DEF AppendEntriesArgs
<1>2. CASE reply.XLen # -1
  BY SMT, <1>1, <1>2 DEF ReplyOK, BackUp
<1>3. CASE reply.XLen = -1 /\ S = {}
  BY SMT, <1>1, <1>3 DEF ReplyOK, BackUp
<1>4. CASE reply.XLen = -1 /\ S # {}
  <2>1. \E j \in S : \A k \in S : k <= j
    BY <1>1, <1>4, LargestExists
  <2>2. BackUp(l, reply) = CHOOSE j \in S : \A k \in S : k <= j
    BY <1>4 DEF BackUp
  <2>3. BackUp(l, reply) \in S
    BY <2>1, <2>2
  <2>4. reply.XTerm > 0
    BY SMT, <1>1, <1>4 DEF ReplyOK
  <2> QED
    BY SMT, <1>1, <2>3, <2>4 DEF TermAt
<1> QED
  BY <1>2, <1>3, <1>4

\* A goroutine of a leader sends a slice of the leader's log.
LEMMA BuildOK ==
  ASSUME TypeOK, NEW r \in Round, NEW p \in Server, LogOK(log[r.leader], r.currentTerm),
         nextIndex[r.leader][p] \in 1 .. Len(log[r.leader]) + 1,
         r.currentLogLen \in 1 .. Len(log[r.leader]) + 1
  PROVE  LET a == BuildAppendEntries(r, p) IN
         /\ a \in AppendEntriesArgs /\ ArgsOK(a)
         /\ a.Term = r.currentTerm
         /\ a.PrevLogIndex + Len(a.Entries) <= Len(log[r.leader])
<1> DEFINE l == log[r.leader]
           n == nextIndex[r.leader][p] - 1
           m == r.currentLogLen - 1
           e == IF n < m THEN SubSeq(l, n + 1, m) ELSE <<>>
           a == BuildAppendEntries(r, p)
<1>1. l \in Seq(LogEntry) /\ Len(l) \in Nat /\ n \in 0 .. Len(l) /\ m \in 0 .. Len(l)
  <2>1. r.leader \in Server
    BY DEF Round
  <2>2. l \in Seq(LogEntry) /\ Len(l) \in Nat
    BY <2>1, LogType
  <2> QED
    BY SMT, <2>2
<1>2. r.currentTerm \in Nat /\ r.currentCommitIndex \in Nat
  BY DEF Round
<1>3. TermAt(l, n) \in Nat
  BY <1>1, TermAtType
<1>4. a = [Term |-> r.currentTerm, PrevLogIndex |-> n, PrevLogTerm |-> TermAt(l, n),
           Entries |-> e, LeaderCommit |-> r.currentCommitIndex]
  <2>1. nextIndex[r.leader][p] < r.currentLogLen <=> n < m
    BY SMT, <1>1 DEF Round
  <2>2. n + 1 = nextIndex[r.leader][p]
    BY SMT, <1>1
  <2> QED
    BY <2>1, <2>2 DEF BuildAppendEntries
<1> HIDE DEF l, n, m
<1>5. e \in Seq(LogEntry) /\ n + Len(e) <= Len(l)
  BY SMT, <1>1
<1>6. \A i \in 1 .. Len(e) : n + i \in 1 .. Len(l) /\ e[i] = l[n + i]
  BY SMT, <1>1
<1> HIDE DEF e, a
<1>7. a \in AppendEntriesArgs
  BY SMT, <1>1, <1>2, <1>3, <1>4, <1>5 DEF AppendEntriesArgs
<1>8. LogOK(l, r.currentTerm)
  BY DEF l
<1>9. LogOK(e, r.currentTerm)
  <2>1. \A i \in 1 .. Len(e) : e[i].Term \in 1 .. r.currentTerm
    BY <1>6, <1>8 DEF LogOK
  <2>2. ASSUME NEW i \in 1 .. Len(e), NEW j \in 1 .. Len(e), i <= j PROVE e[i].Term <= e[j].Term
    <3>1. n + i <= n + j
      BY SMT, <1>1, <1>5, <2>2
    <3> QED
      BY SMT, <1>6, <1>8, <3>1 DEF LogOK
  <2> QED
    BY <2>1, <2>2 DEF LogOK
<1>10. TermAt(l, n) <= r.currentTerm
  BY SMT, <1>1, <1>2, <1>8 DEF LogOK, TermAt
<1>11. ASSUME NEW i \in 1 .. Len(e) PROVE TermAt(l, n) <= e[i].Term
  <2>1. n + i \in 1 .. Len(l) /\ e[i] = l[n + i] /\ n <= n + i
    BY SMT, <1>1, <1>5, <1>6
  <2>2. CASE n = 0
    BY SMT, <1>2, <1>8, <2>1, <2>2 DEF LogOK, TermAt
  <2>3. CASE n # 0
    BY SMT, <1>1, <1>8, <2>1, <2>3 DEF LogOK, TermAt
  <2> QED
    BY <2>2, <2>3
<1>12. ArgsOK(a)
  <2>1. a.Term = r.currentTerm /\ a.PrevLogIndex = n /\ a.PrevLogTerm = TermAt(l, n) /\ a.Entries = e
    BY <1>4
  <2>2. n = 0 => TermAt(l, n) = 0
    BY DEF TermAt
  <2> QED
    BY <1>9, <1>10, <1>11, <2>1, <2>2 DEF ArgsOK
<1> QED
  BY SMT, <1>4, <1>5, <1>7, <1>12 DEF a, l

-----------------------------------------------------------------------------
(* What a step of a server may do to the rounds it leads *)

\* The term of a server does not go back, it stands for election in a new term
\* only, and while it goes on leading a term its log does not shrink.
Moves(s) ==
  /\ currentTerm'[s] >= currentTerm[s]
  /\ state'[s] = CANDIDATE => currentTerm'[s] > currentTerm[s] \/ state[s] = CANDIDATE
  /\ state'[s] = LEADER /\ currentTerm'[s] = currentTerm[s] =>
       state[s] = CANDIDATE \/ (state[s] = LEADER /\ Len(log[s]) <= Len(log'[s]))

\* Then the variables of a round stay in order ...
LEMMA RoundKept ==
  ASSUME TypeOK, TypeOK', NEW k \in DOMAIN rounds, k \in DOMAIN rounds',
         RoundOK(k), Moves(rounds[k].leader),
         rounds'[k] = [rounds[k] EXCEPT !.replicated = rounds'[k].replicated]
  PROVE  /\ RoundOK(k)'
         /\ StillLeads(rounds[k])' =>
              /\ StillLeads(rounds[k])
              /\ Len(log[rounds[k].leader]) <= Len(log'[rounds[k].leader])
<1> DEFINE r == rounds[k]
           q == rounds'[k]
           s == r.leader
<1>1. r \in Round /\ q \in Round
  BY DEF TypeOK
<1>2. s \in Server /\ r.currentTerm \in Nat /\ r.currentLogLen \in Nat
  BY <1>1 DEF Round
<1>3. q.leader = s /\ q.currentTerm = r.currentTerm /\ q.currentLogLen = r.currentLogLen
  BY <1>1 DEF Round
<1>4. /\ currentTerm[s] \in Nat /\ currentTerm'[s] \in Nat
      /\ Len(log[s]) \in Nat /\ Len(log'[s]) \in Nat
  BY <1>2, LogType, LogTypePrimed DEF TypeOK
<1> HIDE DEF r, q, s
<1>5. /\ s = k[1] /\ r.currentTerm <= currentTerm[s]
      /\ r.currentTerm = currentTerm[s] => state[s] # CANDIDATE
      /\ r.currentLogLen >= 1
      /\ state[s] = LEADER /\ currentTerm[s] = r.currentTerm => r.currentLogLen <= Len(log[s]) + 1
  BY DEF RoundOK, StillLeads, r, s
<1>6. Moves(s)
  BY DEF r, s
<1>7. state'[s] = LEADER /\ currentTerm'[s] = r.currentTerm =>
        state[s] = LEADER /\ currentTerm[s] = r.currentTerm /\ Len(log[s]) <= Len(log'[s])
  BY SMT, <1>2, <1>4, <1>5, <1>6 DEF Moves, LEADER, CANDIDATE
<1>8. r.currentTerm <= currentTerm'[s] /\ (r.currentTerm = currentTerm'[s] => state'[s] # CANDIDATE)
  BY SMT, <1>2, <1>4, <1>5, <1>6 DEF Moves
<1>9. RoundOK(k)'
  <2>1. state'[s] = LEADER /\ currentTerm'[s] = r.currentTerm => r.currentLogLen <= Len(log'[s]) + 1
    BY SMT, <1>2, <1>4, <1>5, <1>7
  <2> QED
    BY <1>3, <1>5, <1>8, <2>1 DEF RoundOK, StillLeads, q
<1>10. StillLeads(rounds[k])' <=> state'[s] = LEADER /\ currentTerm'[s] = r.currentTerm
  BY <1>3 DEF StillLeads, q, r, s
<1> QED
  BY <1>7, <1>9, <1>10 DEF StillLeads, r, s

\* ... and so do the arguments of its goroutines.
LEMMA CallKept ==
  ASSUME TypeOK, TypeOK', NEW g \in appendCalls, g.round \in DOMAIN rounds',
         RoundOK(g.round), AppendCallOK(g), Moves(rounds[g.round].leader),
         rounds'[g.round] = [rounds[g.round] EXCEPT !.replicated = rounds'[g.round].replicated]
  PROVE  AppendCallOK(g)'
<1> DEFINE r == rounds[g.round]
           q == rounds'[g.round]
<1>1. g \in AppendCall /\ g.round \in DOMAIN rounds
  BY DEF TypeOK
<1>2. r \in Round /\ q \in Round
  BY <1>1 DEF TypeOK
<1>3. q.leader = r.leader /\ q.currentTerm = r.currentTerm /\ r.leader \in Server
  BY <1>2 DEF Round
<1>4. StillLeads(r)' => StillLeads(r) /\ Len(log[r.leader]) <= Len(log'[r.leader])
  BY <1>1, RoundKept
<1>5. Len(log[r.leader]) \in Nat /\ Len(log'[r.leader]) \in Nat
  BY <1>3, LogType, LogTypePrimed
<1>6. g.args.PrevLogIndex \in Nat /\ Len(g.args.Entries) \in Nat
  BY SMT, <1>1 DEF AppendCall, AppendEntriesArgs
<1>7. g.pc # "ready" =>
        /\ ArgsOK(g.args) /\ g.args.Term = q.currentTerm
        /\ StillLeads(r)' => g.args.PrevLogIndex + Len(g.args.Entries) <= Len(log'[q.leader])
  <2>1. g.pc # "ready" =>
          /\ ArgsOK(g.args) /\ g.args.Term = r.currentTerm
          /\ StillLeads(r) => g.args.PrevLogIndex + Len(g.args.Entries) <= Len(log[r.leader])
    BY DEF AppendCallOK
  <2>2. ASSUME g.pc # "ready", StillLeads(r)'
        PROVE  g.args.PrevLogIndex + Len(g.args.Entries) <= Len(log'[q.leader])
    <3>1. StillLeads(r) /\ Len(log[r.leader]) <= Len(log'[r.leader])
      BY <1>4, <2>2
    <3>2. g.args.PrevLogIndex + Len(g.args.Entries) <= Len(log[r.leader])
      BY <2>1, <2>2, <3>1
    <3>3. log'[q.leader] = log'[r.leader]
      BY <1>3
    <3> DEFINE m == g.args.PrevLogIndex + Len(g.args.Entries)
               a == Len(log[r.leader])
               b == Len(log'[r.leader])
    <3>4. m \in Nat /\ a \in Nat /\ b \in Nat /\ m <= a /\ a <= b
      BY SMT, <1>5, <1>6, <3>1, <3>2
    <3>5. m <= b
      <4> HIDE DEF m, a, b
      <4> QED
        BY SMT, <3>4
    <3> QED
      BY <3>3, <3>5
  <2> QED
    BY <1>3, <2>1, <2>2
<1>8. g.pc = "replied" => ReplyOK(g.args, g.reply)
  BY DEF AppendCallOK
<1> QED
  BY <1>7, <1>8 DEF AppendCallOK

\* Both together, for the rounds and goroutines a step leaves in place.
LEMMA RoundsKept ==
  ASSUME TypeOK, TypeOK', IndexInvariant,
         \A k \in DOMAIN rounds \cap DOMAIN rounds' :
           /\ Moves(rounds[k].leader)
           /\ rounds'[k] = [rounds[k] EXCEPT !.replicated = rounds'[k].replicated]
  PROVE  /\ \A k \in DOMAIN rounds \cap DOMAIN rounds' : RoundOK(k)'
         /\ \A g \in appendCalls \cap appendCalls' : AppendCallOK(g)'
<1>1. ASSUME NEW k \in DOMAIN rounds \cap DOMAIN rounds' PROVE RoundOK(k)'
  BY <1>1, RoundKept DEF IndexInvariant
<1>2. ASSUME NEW g \in appendCalls \cap appendCalls' PROVE AppendCallOK(g)'
  <2>1. g.round \in DOMAIN rounds \cap DOMAIN rounds'
    BY DEF TypeOK
  <2>2. RoundOK(g.round) /\ AppendCallOK(g)
    BY <2>1 DEF IndexInvariant
  <2> QED
    BY <2>1, <2>2, CallKept
<1> QED
  BY <1>1, <1>2

\* A step that touches neither rounds nor their goroutines.
LEMMA ReplicationKept ==
  ASSUME TypeOK, TypeOK', IndexInvariant, UNCHANGED replication, \A s \in Server : Moves(s)
  PROVE  /\ \A k \in DOMAIN rounds' : RoundOK(k)'
         /\ \A g \in appendCalls' : AppendCallOK(g)'
         /\ \A m \in lateAppends' : ArgsOK(m.args)
<1>1. rounds' = rounds /\ appendCalls' = appendCalls /\ lateAppends' = lateAppends
  BY DEF replication
<1>2. \A k \in DOMAIN rounds : rounds[k] \in Round /\ rounds[k].leader \in Server
  BY DEF TypeOK, Round
<1>3. \A k \in DOMAIN rounds : rounds'[k] = [rounds[k] EXCEPT !.replicated = rounds'[k].replicated]
  BY <1>1, <1>2 DEF Round
<1>4. /\ \A k \in DOMAIN rounds \cap DOMAIN rounds' : RoundOK(k)'
      /\ \A g \in appendCalls \cap appendCalls' : AppendCallOK(g)'
  BY <1>2, <1>3, RoundsKept
<1> QED
  BY <1>1, <1>4 DEF IndexInvariant

\* The variables of the rounds that go on are the same.
LEMMA RunningKeeps ==
  ASSUME NEW rs, NEW calls, {g.round : g \in calls} \subseteq DOMAIN rs
  PROVE  /\ DOMAIN Running(rs, calls) = {g.round : g \in calls}
         /\ \A k \in DOMAIN Running(rs, calls) : k \in DOMAIN rs /\ Running(rs, calls)[k] = rs[k]
BY DEF Running

-----------------------------------------------------------------------------
(* What a step of a server may do to its durable fields *)

IInv == TypeOK /\ IndexInvariant

\* The part of IInv about the fields persist() saves.
DurableOK ==
  /\ state \in [Server -> {LEADER, FOLLOWER, CANDIDATE, GAVE_UP}]
  /\ currentTerm \in [Server -> Nat]
  /\ votedFor \in [Server -> Server \cup {NoVote}]
  /\ log \in [Server -> Seq(LogEntry)]
  /\ saved \in [Server -> Persistent]
  /\ SavedIsCurrent
  /\ \A s \in Server : LogOK(log[s], currentTerm[s])
  /\ \A s \in Server : state[s] \in {LEADER, CANDIDATE} => currentTerm[s] > 0

\* One server gets a new state, term, vote and log, and saves them.
LEMMA ServerStep ==
  ASSUME DurableOK, NEW i \in Server,
         NEW st \in {LEADER, FOLLOWER, CANDIDATE, GAVE_UP}, NEW t \in Nat,
         NEW v \in Server \cup {NoVote}, NEW l \in Seq(LogEntry),
         state' = [state EXCEPT ![i] = st], currentTerm' = [currentTerm EXCEPT ![i] = t],
         votedFor' = [votedFor EXCEPT ![i] = v], log' = [log EXCEPT ![i] = l],
         saved' = [saved EXCEPT ![i] = [state |-> st, currentTerm |-> t, votedFor |-> v, log |-> l]],
         LogOK(l, t), st \in {LEADER, CANDIDATE} => t > 0
  PROVE  DurableOK'
<1>1. /\ state' \in [Server -> {LEADER, FOLLOWER, CANDIDATE, GAVE_UP}]
      /\ currentTerm' \in [Server -> Nat]
      /\ votedFor' \in [Server -> Server \cup {NoVote}]
      /\ log' \in [Server -> Seq(LogEntry)]
  BY DEF DurableOK
<1>2. saved' \in [Server -> Persistent]
  <2>1. [state |-> st, currentTerm |-> t, votedFor |-> v, log |-> l] \in Persistent
    BY DEF Persistent
  <2> QED
    BY <2>1 DEF DurableOK
<1>3. SavedIsCurrent'
  BY DEF DurableOK, SavedIsCurrent
<1>4. ASSUME NEW q \in Server PROVE LogOK(log'[q], currentTerm'[q])
  BY DEF DurableOK
<1>5. ASSUME NEW q \in Server, state'[q] \in {LEADER, CANDIDATE} PROVE currentTerm'[q] > 0
  BY <1>5 DEF DurableOK
<1> QED
  BY <1>1, <1>2, <1>3, <1>4, <1>5 DEF DurableOK

\* The other servers stay where they are, so only server i has to move well.
LEMMA OthersMove ==
  ASSUME DurableOK, NEW i \in Server, Moves(i),
         \A q \in Server \ {i} : /\ state'[q] = state[q] /\ currentTerm'[q] = currentTerm[q]
                                 /\ log'[q] = log[q]
  PROVE  \A q \in Server : Moves(q)
<1>1. ASSUME NEW q \in Server \ {i} PROVE Moves(q)
  <2>1. log[q] \in Seq(LogEntry) /\ currentTerm[q] \in Nat
    BY DEF DurableOK
  <2> QED
    BY SMT, <2>1 DEF Moves
<1> QED
  BY <1>1

\* A step that leaves the durable fields alone.
LEMMA NothingMoves ==
  ASSUME DurableOK, UNCHANGED <<durable, saved>>
  PROVE  DurableOK' /\ \A q \in Server : Moves(q)
<1>1. /\ state' = state /\ currentTerm' = currentTerm /\ votedFor' = votedFor /\ log' = log
      /\ saved' = saved
  BY DEF durable
<1>2. ASSUME NEW q \in Server PROVE Moves(q)
  <2>1. log[q] \in Seq(LogEntry) /\ currentTerm[q] \in Nat
    BY DEF DurableOK
  <2> QED
    BY SMT, <1>1, <2>1 DEF Moves
<1>3. DurableOK'
  BY <1>1 DEF DurableOK, SavedIsCurrent
<1> QED
  BY <1>2, <1>3

\* A server moves to another state, perhaps in a later term, and keeps its log.
LEMMA StateStep ==
  ASSUME DurableOK, NEW s \in Server, NEW st \in {LEADER, FOLLOWER, CANDIDATE, GAVE_UP}, NEW t \in Nat,
         state' = [state EXCEPT ![s] = st], currentTerm' = [currentTerm EXCEPT ![s] = t],
         votedFor' = votedFor, log' = log, persist(s), currentTerm[s] <= t,
         st # CANDIDATE, st = LEADER => state[s] = CANDIDATE
  PROVE  DurableOK' /\ \A q \in Server : Moves(q)
<1>1. /\ currentTerm[s] \in Nat /\ log[s] \in Seq(LogEntry) /\ LogOK(log[s], currentTerm[s])
      /\ votedFor[s] \in Server \cup {NoVote}
  BY DEF DurableOK
<1>2. LogOK(log[s], t)
  BY <1>1, LogOKLater
<1>3. log' = [log EXCEPT ![s] = log[s]] /\ votedFor' = [votedFor EXCEPT ![s] = votedFor[s]]
  BY DEF DurableOK
<1>4. saved' = [saved EXCEPT ![s] = [state |-> st, currentTerm |-> t,
                                     votedFor |-> votedFor[s], log |-> log[s]]]
  BY DEF persist, DurableOK
<1>5. st \in {LEADER, CANDIDATE} => t > 0
  BY SMT, <1>1 DEF DurableOK
<1>6. DurableOK'
  BY <1>1, <1>2, <1>3, <1>4, <1>5, ServerStep
<1>7. Moves(s)
  BY <1>1 DEF Moves, DurableOK
<1> QED
  BY <1>6, <1>7, OthersMove DEF DurableOK

\* What the types say of a goroutine and its round.
LEMMA CallType ==
  ASSUME TypeOK, NEW g \in appendCalls
  PROVE  /\ g \in AppendCall /\ g.peer \in Server /\ g.args \in AppendEntriesArgs
         /\ g.reply \in AppendEntriesReply
         /\ g.round \in DOMAIN rounds /\ rounds[g.round] \in Round /\ rounds[g.round].leader \in Server
<1>1. g \in AppendCall /\ g.round \in DOMAIN rounds
  BY DEF TypeOK
<1>2. rounds[g.round] \in Round
  BY <1>1 DEF TypeOK
<1> QED
  BY <1>1, <1>2 DEF AppendCall, Round

-----------------------------------------------------------------------------
(* What a step does to the votes and the states of the servers *)

\* What a step may do to the term and the vote of a server ...
VoteMoves(s) ==
  /\ currentTerm'[s] >= currentTerm[s]
  /\ currentTerm'[s] = currentTerm[s] /\ votedFor[s] # NoVote => votedFor'[s] = votedFor[s]

\* ... and, unless it is a step of an election, to its state.
StateMoves(s) ==
  state'[s] \in {LEADER, CANDIDATE} => state'[s] = state[s] /\ currentTerm'[s] = currentTerm[s]

AllMove == \A s \in Server : VoteMoves(s) /\ StateMoves(s)

\* A server that keeps its term, vote and state moves well.
LEMMA StillMoves ==
  ASSUME IInv, UNCHANGED <<state, currentTerm, votedFor>>
  PROVE  AllMove
<1>1. \A s \in Server : currentTerm[s] \in Nat
  BY DEF IInv, TypeOK
<1> QED
  BY SMT, <1>1 DEF AllMove, VoteMoves, StateMoves

\* A server that becomes a follower in its own or a later term.
LEMMA FollowerMoves ==
  ASSUME IInv, NEW i \in Server, NEW t \in Nat, t >= currentTerm[i],
         state' = [state EXCEPT ![i] = FOLLOWER],
         currentTerm' = [currentTerm EXCEPT ![i] = t],
         \A s \in Server \ {i} : votedFor'[s] = votedFor[s],
         t = currentTerm[i] /\ votedFor[i] # NoVote => votedFor'[i] = votedFor[i]
  PROVE  AllMove
<1>1. /\ currentTerm \in [Server -> Nat]
      /\ state \in [Server -> {LEADER, FOLLOWER, CANDIDATE, GAVE_UP}]
  BY DEF IInv, TypeOK
<1>2. FOLLOWER \notin {LEADER, CANDIDATE}
  BY SMT DEF LEADER, FOLLOWER, CANDIDATE
<1>3. VoteMoves(i) /\ StateMoves(i)
  BY <1>1, <1>2 DEF VoteMoves, StateMoves
<1>4. ASSUME NEW s \in Server \ {i} PROVE VoteMoves(s) /\ StateMoves(s)
  <2>1. currentTerm'[s] = currentTerm[s] /\ state'[s] = state[s] /\ currentTerm[s] \in Nat
    BY <1>1
  <2> QED
    BY SMT, <2>1 DEF VoteMoves, StateMoves
<1> QED
  BY <1>3, <1>4 DEF AllMove

\* RequestVote gives its vote in a later term, or the first one of this term.
LEMMA RequestVoteMoves ==
  ASSUME IInv, NEW i \in Server, NEW a \in RequestVoteArgs, RequestVote(i, a)
  PROVE  AllMove
<1>1. a.Term \in Nat /\ currentTerm[i] \in Nat /\ votedFor \in [Server -> Server \cup {NoVote}]
  BY DEF RequestVoteArgs, IInv, TypeOK
<1>2. CASE GrantsVote(i, a)
  <2>1. a.Term >= currentTerm[i] /\ (a.Term = currentTerm[i] => votedFor[i] \in {NoVote, a.CandidateId})
    BY <1>2 DEF GrantsVote
  <2>2. /\ state' = [state EXCEPT ![i] = FOLLOWER] /\ currentTerm' = [currentTerm EXCEPT ![i] = a.Term]
        /\ votedFor' = [votedFor EXCEPT ![i] = a.CandidateId]
    BY <1>2 DEF RequestVote
  <2> QED
    BY <1>1, <2>1, <2>2, FollowerMoves
<1>3. CASE ~GrantsVote(i, a)
  BY <1>3, StillMoves DEF RequestVote, durable
<1> QED
  BY <1>2, <1>3

\* AppendEntries raises the term or keeps it, and leaves the vote alone.
LEMMA AppendEntriesMoves ==
  ASSUME IInv, NEW i \in Server, NEW a \in AppendEntriesArgs, AppendEntries(i, a)
  PROVE  AllMove
<1>1. a.Term \in Nat
  BY DEF AppendEntriesArgs
<1>2. CASE UNCHANGED <<durable, commitIndex, saved>>
  BY <1>2, StillMoves DEF durable
<1>3. CASE a.Term >= currentTerm[i] /\ ~UNCHANGED <<durable, commitIndex, saved>>
  BY <1>1, <1>3, FollowerMoves DEF AppendEntries
<1> QED
  BY <1>2, <1>3 DEF AppendEntries

\* What a server has saved is what it is.
LEMMA SavedFields ==
  ASSUME IInv, NEW s \in Server
  PROVE  /\ saved[s].state = state[s] /\ saved[s].currentTerm = currentTerm[s]
         /\ saved[s].votedFor = votedFor[s] /\ saved[s].log = log[s]
<1>1. saved[s] = [state |-> state[s], currentTerm |-> currentTerm[s],
                  votedFor |-> votedFor[s], log |-> log[s]]
  BY DEF IInv, IndexInvariant, SavedIsCurrent
<1> QED
  BY SMT, <1>1

\* A restart brings back the term and the vote that were there.
LEMMA RestartMoves ==
  ASSUME IInv, NEW s \in Server, Restart(s)
  PROVE  AllMove
<1>1. /\ saved[s].state = state[s] /\ saved[s].currentTerm = currentTerm[s]
      /\ saved[s].votedFor = votedFor[s]
  BY SavedFields
<1>2. /\ state' = state /\ currentTerm' = currentTerm /\ votedFor' = votedFor
  BY <1>1 DEF Restart, Reboot, IInv, TypeOK
<1> QED
  BY <1>2, StillMoves

\* So does a crash in AppendEntries, perhaps with the term of the request.
LEMMA CrashMoves ==
  ASSUME IInv, NEW m \in lateAppends, CrashInAppendEntries(m)
  PROVE  AllMove
<1> DEFINE s == m.to
           t == m.args.Term
           p == [saved[s] EXCEPT !.currentTerm = t, !.state = FOLLOWER]
<1>1. s \in Server /\ t \in Nat /\ saved[s] \in Persistent
  BY DEF IInv, TypeOK, AppendEntriesArgs
<1>2. saved[s].votedFor = votedFor[s]
  BY <1>1, SavedFields
<1>3. p.state = FOLLOWER /\ p.currentTerm = t /\ p.votedFor = votedFor[s]
  BY <1>1, <1>2 DEF Persistent
<1>4. /\ state' = [state EXCEPT ![s] = p.state] /\ currentTerm' = [currentTerm EXCEPT ![s] = p.currentTerm]
      /\ votedFor' = [votedFor EXCEPT ![s] = p.votedFor] /\ t >= currentTerm[s]
  BY DEF CrashInAppendEntries, Reboot
<1>5. votedFor' = votedFor
  BY <1>1, <1>3, <1>4 DEF IInv, TypeOK
<1> HIDE DEF p, s, t
<1> QED
  BY <1>1, <1>3, <1>4, <1>5, FollowerMoves

\* A returning AppendEntries may raise the term, and leaves the vote alone.
LEMMA AppendReturnsMoves ==
  ASSUME IInv, NEW g \in appendCalls, AppendEntriesReturns(g)
  PROVE  AllMove
<1> DEFINE s == rounds[g.round].leader
<1>1. s \in Server /\ g.reply \in AppendEntriesReply
  BY CallType DEF IInv
<1>2. g.reply.Term \in Nat /\ currentTerm[s] \in Nat
  BY <1>1 DEF AppendEntriesReply, IInv, TypeOK
<1>3. votedFor' = votedFor
  BY DEF AppendEntriesReturns
<1>4. CASE UNCHANGED <<state, currentTerm>>
  BY <1>3, <1>4, StillMoves
<1>5. CASE /\ g.reply.Term > currentTerm[s]
           /\ currentTerm' = [currentTerm EXCEPT ![s] = g.reply.Term]
           /\ state' = [state EXCEPT ![s] = FOLLOWER]
  <2>1. g.reply.Term >= currentTerm[s]
    BY SMT, <1>2, <1>5
  <2> HIDE DEF s
  <2> QED
    BY <1>1, <1>2, <1>3, <1>5, <2>1, FollowerMoves
<1> QED
  BY <1>4, <1>5 DEF AppendEntriesReturns

\* A returning vote goroutine may raise the term, and leaves the vote alone.
LEMMA VoteReturnsMoves ==
  ASSUME IInv, NEW g \in voteCalls, RequestVoteReturns(g)
  PROVE  \A s \in Server : VoteMoves(s)
<1> DEFINE c == g.cand
<1>1. g \in VoteCall
  BY DEF IInv, TypeOK
<1>2. c \in Server /\ g.args.Term \in Nat /\ g.reply.Term \in Nat /\ currentTerm \in [Server -> Nat]
  BY <1>1 DEF VoteCall, RequestVoteArgs, RequestVoteReply, IInv, TypeOK
<1>3. votedFor' = votedFor
  BY DEF RequestVoteReturns
<1>4. \/ currentTerm' = currentTerm
      \/ /\ g.reply.Term > g.args.Term /\ g.args.Term = currentTerm[c]
         /\ currentTerm' = [currentTerm EXCEPT ![c] = g.reply.Term]
  BY DEF RequestVoteReturns
<1> QED
  BY SMT, <1>2, <1>3, <1>4 DEF VoteMoves

\* checkElection votes in a new term.
LEMMA ElectionMoves ==
  ASSUME IInv, NEW c \in Server, checkElection(c)
  PROVE  \A s \in Server : VoteMoves(s)
<1>1. currentTerm \in [Server -> Nat] /\ votedFor \in [Server -> Server \cup {NoVote}]
  BY DEF IInv, TypeOK
<1>2. /\ currentTerm' = [currentTerm EXCEPT ![c] = currentTerm[c] + 1]
      /\ votedFor' = [votedFor EXCEPT ![c] = c]
  BY DEF checkElection
<1> QED
  BY SMT, <1>1, <1>2 DEF VoteMoves

\* The steps that only touch the durable fields through a handler or a restart,
\* or not at all, and leave votes and vote goroutines alone.
Quiet ==
  \/ UNCHANGED vars
  \/ \E s \in Server : sendHeartbeat(s) \/ checkApply(s)
  \/ \E s \in Server, c \in Command : Start(s, c)
  \/ \E m \in lateVotes : DeliverLateVote(m)
  \/ \E g \in appendCalls : \/ sendAppendEntries(g) \/ DeliverAppendEntries(g)
                            \/ AppendEntriesReturns(g) \/ AppendEntriesFails(g)
  \/ \E m \in lateAppends : DeliverLateAppend(m)

Reboots == (\E s \in Server : Restart(s)) \/ (\E m \in lateAppends : CrashInAppendEntries(m))

\* The steps of replication, Start and checkApply move every server well.
LEMMA QuietMoves ==
  ASSUME IInv, Quiet
  PROVE  AllMove /\ UNCHANGED <<voteCalls, granted>>
<1>1. CASE UNCHANGED vars
  BY <1>1, StillMoves DEF vars, durable, elections
<1>2. ASSUME NEW s \in Server, sendHeartbeat(s) \/ checkApply(s)
      PROVE  AllMove /\ UNCHANGED <<voteCalls, granted>>
  <2>1. UNCHANGED <<durable, elections>>
    BY <1>2 DEF sendHeartbeat, checkApply
  <2>2. UNCHANGED <<currentTerm, votedFor, state, voteCalls, granted>>
    BY <2>1 DEF durable, elections
  <2> QED
    BY <2>2, StillMoves
<1>3. ASSUME NEW s \in Server, NEW c \in Command, Start(s, c)
      PROVE  AllMove /\ UNCHANGED <<voteCalls, granted>>
  BY <1>3, StillMoves DEF Start, elections
<1>4. ASSUME NEW m \in lateVotes, DeliverLateVote(m)
      PROVE  AllMove /\ UNCHANGED <<voteCalls, granted>>
  <2>1. m.to \in Server /\ m.args \in RequestVoteArgs
    BY DEF IInv, TypeOK
  <2> QED
    BY <1>4, <2>1, RequestVoteMoves DEF DeliverLateVote
<1>5. ASSUME NEW g \in appendCalls, \/ sendAppendEntries(g) \/ DeliverAppendEntries(g)
                                    \/ AppendEntriesReturns(g) \/ AppendEntriesFails(g)
      PROVE  AllMove /\ UNCHANGED <<voteCalls, granted>>
  <2>1. g.peer \in Server /\ g.args \in AppendEntriesArgs
    BY CallType DEF IInv
  <2>2. CASE sendAppendEntries(g) \/ AppendEntriesFails(g)
    BY <2>2, StillMoves DEF sendAppendEntries, AppendEntriesFails, durable, elections
  <2>3. CASE DeliverAppendEntries(g)
    BY <2>1, <2>3, AppendEntriesMoves DEF DeliverAppendEntries, elections
  <2>4. CASE AppendEntriesReturns(g)
    BY <2>4, AppendReturnsMoves DEF AppendEntriesReturns, elections
  <2> QED
    BY <1>5, <2>2, <2>3, <2>4
<1>6. ASSUME NEW m \in lateAppends, DeliverLateAppend(m)
      PROVE  AllMove /\ UNCHANGED <<voteCalls, granted>>
  <2>1. m.to \in Server /\ m.args \in AppendEntriesArgs
    BY DEF IInv, TypeOK
  <2> QED
    BY <1>6, <2>1, AppendEntriesMoves DEF DeliverLateAppend, elections
<1> QED
  BY <1>1, <1>2, <1>3, <1>4, <1>5, <1>6 DEF Quiet

\* So do restarts and crashes.
LEMMA RebootsMove ==
  ASSUME IInv, Reboots
  PROVE  AllMove /\ granted' = granted /\ voteCalls' \subseteq voteCalls
<1>1. ASSUME NEW s \in Server, Restart(s)
      PROVE  AllMove /\ granted' = granted /\ voteCalls' \subseteq voteCalls
  BY <1>1, RestartMoves DEF Restart, Reboot
<1>2. ASSUME NEW m \in lateAppends, CrashInAppendEntries(m)
      PROVE  AllMove /\ granted' = granted /\ voteCalls' \subseteq voteCalls
  BY <1>2, CrashMoves DEF CrashInAppendEntries, Reboot
<1> QED
  BY <1>1, <1>2 DEF Reboots

\* Every step is quiet, a restart or a step of an election.
LEMMA StepKinds ==
  ASSUME [Next]_vars
  PROVE  \/ Quiet \/ Reboots
         \/ \E s \in Server : checkElection(s)
         \/ \E g \in voteCalls : sendRequestVote(g) \/ DeliverRequestVote(g) \/ RequestVoteReturns(g)
BY DEF Next, Quiet, Reboots

\* Sending a RequestVote changes no server.
LEMMA SendVoteMoves ==
  ASSUME IInv, NEW g \in voteCalls, sendRequestVote(g)
  PROVE  AllMove
BY StillMoves DEF sendRequestVote, durable

\* Running RequestVote moves its server well.
LEMMA DeliverVoteMoves ==
  ASSUME IInv, NEW g \in voteCalls, DeliverRequestVote(g)
  PROVE  AllMove
<1>1. g.peer \in Server /\ g.args \in RequestVoteArgs
  BY DEF IInv, TypeOK, VoteCall
<1> QED
  BY <1>1, RequestVoteMoves DEF DeliverRequestVote

\* A vote names a candidate, a term and a voter.
LEMMA VoteType ==
  ASSUME IInv, NEW v \in Votes
  PROVE  v[1] \in Server /\ v[2] \in Nat /\ v[3] \in Server /\ v = <<v[1], v[2], v[3]>>
<1>1. CASE v \in granted
  <2>1. v \in Server \X Nat \X Server
    BY <1>1 DEF IInv, TypeOK
  <2> QED
    BY SMT, <2>1
<1>2. ASSUME NEW g \in voteCalls, v = <<g.cand, g.args.Term, g.peer>>
      PROVE  v[1] \in Server /\ v[2] \in Nat /\ v[3] \in Server /\ v = <<v[1], v[2], v[3]>>
  <2>1. g.cand \in Server /\ g.args.Term \in Nat /\ g.peer \in Server
    BY DEF IInv, TypeOK, VoteCall, RequestVoteArgs
  <2> QED
    BY <1>2, <2>1
<1> QED
  BY <1>1, <1>2 DEF Votes

\* Terms never go back, nor does a vote within a term, whatever the step.
LEMMA TermsGoOn ==
  ASSUME IInv, [Next]_vars
  PROVE  \A s \in Server : VoteMoves(s)
<1>1. CASE Quiet \/ Reboots
  BY <1>1, QuietMoves, RebootsMove DEF AllMove
<1>2. ASSUME NEW s \in Server, checkElection(s) PROVE \A q \in Server : VoteMoves(q)
  BY <1>2, ElectionMoves
<1>3. ASSUME NEW g \in voteCalls,
             sendRequestVote(g) \/ DeliverRequestVote(g) \/ RequestVoteReturns(g)
      PROVE  \A q \in Server : VoteMoves(q)
  BY <1>3, SendVoteMoves, DeliverVoteMoves, VoteReturnsMoves DEF AllMove
<1> QED
  BY <1>1, <1>2, <1>3, StepKinds

-----------------------------------------------------------------------------
(* Elections, Start and checkApply keep TypeOK and IndexInvariant *)

\* checkElection keeps the invariant: no round of the new term exists yet.
LEMMA ElectionKeeps ==
  ASSUME IInv, NEW s \in Server, checkElection(s)
  PROVE  IInv'
<1>1. TypeOK /\ IndexInvariant /\ DurableOK
  BY DEF IInv, TypeOK, IndexInvariant, DurableOK
<1>2. /\ currentTerm[s] \in Nat /\ log[s] \in Seq(LogEntry) /\ LogOK(log[s], currentTerm[s])
  BY <1>1 DEF DurableOK
<1>3. DurableOK'
  <2>1. /\ state' = [state EXCEPT ![s] = CANDIDATE]
        /\ currentTerm' = [currentTerm EXCEPT ![s] = currentTerm[s] + 1]
        /\ votedFor' = [votedFor EXCEPT ![s] = s]
        /\ log' = [log EXCEPT ![s] = log[s]]
    BY <1>1 DEF checkElection, DurableOK
  <2>2. saved' = [saved EXCEPT ![s] = [state |-> CANDIDATE, currentTerm |-> currentTerm[s] + 1,
                                       votedFor |-> s, log |-> log[s]]]
    BY <1>1 DEF checkElection, persist, DurableOK
  <2>3. LogOK(log[s], currentTerm[s] + 1)
    BY SMT, <1>2, LogOKLater
  <2>4. currentTerm[s] + 1 \in Nat /\ currentTerm[s] + 1 > 0
    BY SMT, <1>2
  <2> QED
    BY <1>1, <1>2, <2>1, <2>2, <2>3, <2>4, ServerStep
<1>4. \A q \in Server : Moves(q)
  <2>1. Moves(s)
    BY SMT, <1>1, <1>2 DEF checkElection, DurableOK, Moves, LEADER, CANDIDATE
  <2> QED
    BY <1>1, <2>1, OthersMove DEF checkElection, DurableOK
<1>5. TypeOK'
  <2>1. \A g \in voteCalls' : g \in VoteCall
    <3>1. NoVoteArgs(s) \in RequestVoteArgs /\ NoVoteReply \in RequestVoteReply
      BY DEF NoVoteArgs, NoVoteReply, RequestVoteArgs, RequestVoteReply
    <3>2. ASSUME NEW p \in Server
          PROVE  [cand |-> s, election |-> currentTerm[s] + 1, peer |-> p, pc |-> "ready",
                  args |-> NoVoteArgs(s), reply |-> NoVoteReply] \in VoteCall
      BY SMT, <1>2, <3>1 DEF VoteCall
    <3> QED
      BY <1>1, <3>2 DEF TypeOK, checkElection
  <2>2. granted' \subseteq Server \X Nat \X Server
    BY SMT, <1>1, <1>2 DEF TypeOK, checkElection
  <2> QED
    BY <1>1, <1>3, <2>1, <2>2 DEF TypeOK, DurableOK, checkElection, volatile, replication
<1>6. \A q, p \in Server : state'[q] = LEADER => nextIndex'[q][p] \in 1 .. Len(log'[q]) + 1
  BY SMT, <1>1 DEF checkElection, DurableOK, IndexInvariant, volatile, LEADER, CANDIDATE
<1> QED
  BY <1>1, <1>3, <1>4, <1>5, <1>6, ReplicationKept
  DEF IInv, IndexInvariant, DurableOK, checkElection

\* Sending a RequestVote keeps the invariant: it reads the server only.
LEMMA SendVoteKeeps ==
  ASSUME IInv, NEW g \in voteCalls, sendRequestVote(g)
  PROVE  IInv'
<1>1. TypeOK /\ IndexInvariant /\ DurableOK
  BY DEF IInv, TypeOK, IndexInvariant, DurableOK
<1>2. DurableOK' /\ \A q \in Server : Moves(q)
  BY <1>1, NothingMoves DEF sendRequestVote
<1>3. TypeOK'
  <2>1. g \in VoteCall /\ g.cand \in Server
    BY <1>1 DEF TypeOK, VoteCall
  <2>2. currentTerm[g.cand] \in Nat /\ Len(log[g.cand]) \in Nat /\ LastTerm(log[g.cand]) \in Nat
    <3>1. log[g.cand] \in Seq(LogEntry) /\ Len(log[g.cand]) \in Nat
      BY <1>1, <2>1, LogType
    <3>2. TermAt(log[g.cand], Len(log[g.cand])) \in Nat
      BY SMT, <3>1, TermAtType
    <3> QED
      BY <1>1, <2>1, <3>1, <3>2 DEF TypeOK, LastTerm
  <2> DEFINE a == [Term |-> currentTerm[g.cand], CandidateId |-> g.cand,
                   LastLogIndex |-> Len(log[g.cand]), LastLogTerm |-> LastTerm(log[g.cand])]
  <2>3. a \in RequestVoteArgs
    BY <2>1, <2>2 DEF RequestVoteArgs
  <2> HIDE DEF a
  <2>4. [g EXCEPT !.pc = "sent", !.args = a] \in VoteCall
    BY <2>1, <2>3 DEF VoteCall
  <2>5. \A h \in voteCalls' : h \in VoteCall
    BY <1>1, <2>4 DEF TypeOK, sendRequestVote, a
  <2> QED
    BY <1>1, <1>2, <2>5 DEF TypeOK, DurableOK, sendRequestVote, durable, volatile, replication
<1>4. \A q, p \in Server : state'[q] = LEADER => nextIndex'[q][p] \in 1 .. Len(log'[q]) + 1
  BY <1>1 DEF sendRequestVote, IndexInvariant, durable, volatile
<1> QED
  BY <1>1, <1>2, <1>3, <1>4, ReplicationKept DEF IInv, IndexInvariant, DurableOK, sendRequestVote

\* The handler RequestVote, whoever called it.
LEMMA RequestVoteStep ==
  ASSUME DurableOK, NEW i \in Server, NEW a \in RequestVoteArgs, RequestVote(i, a)
  PROVE  /\ DurableOK' /\ \A q \in Server : Moves(q)
         /\ log' = log /\ \A q \in Server : state'[q] = LEADER => state[q] = LEADER
<1>1. CASE UNCHANGED <<durable, saved>>
  BY <1>1, NothingMoves DEF durable
<1>2. CASE GrantsVote(i, a) /\ ~UNCHANGED <<durable, saved>>
  <2>1. /\ state' = [state EXCEPT ![i] = FOLLOWER]
        /\ currentTerm' = [currentTerm EXCEPT ![i] = a.Term]
        /\ votedFor' = [votedFor EXCEPT ![i] = a.CandidateId]
        /\ log' = log /\ persist(i)
    BY <1>2 DEF RequestVote
  <2>2. /\ a.Term \in Nat /\ a.CandidateId \in Server
        /\ currentTerm[i] \in Nat /\ log[i] \in Seq(LogEntry) /\ LogOK(log[i], currentTerm[i])
    BY DEF RequestVoteArgs, DurableOK
  <2>3. currentTerm[i] <= a.Term
    BY <1>2, <2>2 DEF GrantsVote
  <2>4. LogOK(log[i], a.Term)
    BY <2>2, <2>3, LogOKLater
  <2>5. log' = [log EXCEPT ![i] = log[i]]
    BY <2>1 DEF DurableOK
  <2>6. saved' = [saved EXCEPT ![i] = [state |-> FOLLOWER, currentTerm |-> a.Term,
                                       votedFor |-> a.CandidateId, log |-> log[i]]]
    BY <2>1 DEF persist, DurableOK
  <2>7. FOLLOWER \notin {LEADER, CANDIDATE}
    BY SMT DEF LEADER, FOLLOWER, CANDIDATE
  <2>8. DurableOK'
    BY <2>1, <2>2, <2>4, <2>5, <2>6, <2>7, ServerStep
  <2>9. Moves(i)
    BY <2>1, <2>2, <2>3, <2>7 DEF Moves, DurableOK
  <2>10. \A q \in Server : Moves(q)
    BY <2>1, <2>9, OthersMove DEF DurableOK
  <2> QED
    BY <2>1, <2>7, <2>8, <2>10 DEF DurableOK
<1> QED
  BY <1>1, <1>2 DEF RequestVote

\* The answer of RequestVote has its type.
LEMMA AnswerVoteType ==
  ASSUME DurableOK, NEW i \in Server, NEW a \in RequestVoteArgs
  PROVE  RequestVoteAnswer(i, a) \in RequestVoteReply
<1>1. a.Term \in Nat /\ currentTerm[i] \in Nat
  BY DEF DurableOK, RequestVoteArgs
<1> QED
  BY <1>1 DEF RequestVoteAnswer, RequestVoteReply

\* Running RequestVote for a goroutine that waits keeps the invariant.
LEMMA DeliverVoteKeeps ==
  ASSUME IInv, NEW g \in voteCalls, DeliverRequestVote(g)
  PROVE  IInv'
<1>1. TypeOK /\ IndexInvariant /\ DurableOK
  BY DEF IInv, TypeOK, IndexInvariant, DurableOK
<1>2. g \in VoteCall /\ g.peer \in Server /\ g.args \in RequestVoteArgs
  BY <1>1 DEF TypeOK, VoteCall
<1>3. /\ DurableOK' /\ \A q \in Server : Moves(q)
      /\ log' = log /\ \A q \in Server : state'[q] = LEADER => state[q] = LEADER
  BY <1>1, <1>2, RequestVoteStep DEF DeliverRequestVote
<1>4. TypeOK'
  <2> DEFINE r == RequestVoteAnswer(g.peer, g.args)
  <2>1. r \in RequestVoteReply
    BY <1>1, <1>2, AnswerVoteType
  <2> HIDE DEF r
  <2>2. [g EXCEPT !.pc = "replied", !.reply = r] \in VoteCall
    BY <1>2, <2>1 DEF VoteCall
  <2>3. \A h \in voteCalls' : h \in VoteCall
    BY <1>1, <2>2 DEF TypeOK, DeliverRequestVote, r
  <2> QED
    BY <1>1, <1>3, <2>3 DEF TypeOK, DurableOK, DeliverRequestVote, volatile, replication
<1>5. \A q, p \in Server : state'[q] = LEADER => nextIndex'[q][p] \in 1 .. Len(log'[q]) + 1
  BY <1>1, <1>3 DEF DeliverRequestVote, IndexInvariant, volatile
<1> QED
  BY <1>1, <1>3, <1>4, <1>5, ReplicationKept DEF IInv, IndexInvariant, DurableOK, DeliverRequestVote

\* Running RequestVote for a late request keeps the invariant.
LEMMA LateVoteKeeps ==
  ASSUME IInv, NEW m \in lateVotes, DeliverLateVote(m)
  PROVE  IInv'
<1>1. TypeOK /\ IndexInvariant /\ DurableOK
  BY DEF IInv, TypeOK, IndexInvariant, DurableOK
<1>2. m.to \in Server /\ m.args \in RequestVoteArgs
  BY <1>1 DEF TypeOK
<1>3. /\ DurableOK' /\ \A q \in Server : Moves(q)
      /\ log' = log /\ \A q \in Server : state'[q] = LEADER => state[q] = LEADER
  BY <1>1, <1>2, RequestVoteStep DEF DeliverLateVote
<1>4. TypeOK'
  BY <1>1, <1>3 DEF TypeOK, DurableOK, DeliverLateVote, volatile, replication
<1>5. \A q, p \in Server : state'[q] = LEADER => nextIndex'[q][p] \in 1 .. Len(log'[q]) + 1
  BY <1>1, <1>3 DEF DeliverLateVote, IndexInvariant, volatile
<1> QED
  BY <1>1, <1>3, <1>4, <1>5, ReplicationKept DEF IInv, IndexInvariant, DurableOK, DeliverLateVote

\* A returning vote goroutine keeps the invariant: a new leader starts with
\* nextIndex at the end of its log.
LEMMA VoteReturnsKeeps ==
  ASSUME IInv, NEW g \in voteCalls, RequestVoteReturns(g)
  PROVE  IInv'
<1> DEFINE s == g.cand
<1>1. TypeOK /\ IndexInvariant /\ DurableOK
  BY DEF IInv, TypeOK, IndexInvariant, DurableOK
<1>2. g \in VoteCall
  BY <1>1 DEF TypeOK
<1>3. s \in Server /\ g.peer \in Server /\ g.election \in Nat /\ g.args.Term \in Nat /\ g.reply.Term \in Nat
  BY <1>2 DEF VoteCall, RequestVoteArgs, RequestVoteReply
<1>4. /\ currentTerm[s] \in Nat /\ log[s] \in Seq(LogEntry) /\ Len(log[s]) \in Nat
      /\ currentTerm = [currentTerm EXCEPT ![s] = currentTerm[s]]
  BY <1>1, <1>3, LogType DEF DurableOK
<1>5. /\ voteCalls' = voteCalls \ {g} /\ log' = log /\ votedFor' = votedFor
      /\ UNCHANGED <<commitIndex, lastApplied, lateVotes, replication, applied, fails, restarts>>
  BY DEF RequestVoteReturns
<1>6. /\ granted \subseteq Server \X Nat \X Server
      /\ granted \cup {<<s, g.election, g.peer>>} \subseteq Server \X Nat \X Server
  <2>1. <<s, g.election, g.peer>> \in Server \X Nat \X Server
    BY <1>3
  <2>2. granted \subseteq Server \X Nat \X Server
    BY <1>1 DEF TypeOK
  <2> QED
    BY <2>1, <2>2
<1>7. ASSUME DurableOK', \A q \in Server : Moves(q),
             granted' \subseteq Server \X Nat \X Server,
             nextIndex' \in [Server -> [Server -> Nat]], matchIndex' \in [Server -> [Server -> Nat]],
             \A q, p \in Server : state'[q] = LEADER => nextIndex'[q][p] \in 1 .. Len(log'[q]) + 1
      PROVE  IInv'
  <2>1. TypeOK'
    BY <1>1, <1>5, <1>7 DEF TypeOK, DurableOK, replication
  <2> QED
    BY <1>1, <1>5, <1>7, <2>1, ReplicationKept DEF IInv, IndexInvariant, DurableOK
<1>8. CASE UNCHANGED <<state, currentTerm, saved, nextIndex, matchIndex>>
                 /\ granted' \in {granted, granted \cup {<<s, g.election, g.peer>>}}
  <2>1. DurableOK' /\ \A q \in Server : Moves(q)
    BY <1>1, <1>5, <1>8, NothingMoves DEF durable
  <2>2. granted' \subseteq Server \X Nat \X Server
    BY <1>8, <1>6
  <2> QED
    BY <1>1, <1>5, <1>7, <1>8, <2>1, <2>2 DEF TypeOK, IndexInvariant
<1>9. ASSUME NEW st \in {FOLLOWER, GAVE_UP}, NEW t \in Nat, currentTerm[s] <= t,
             state' = [state EXCEPT ![s] = st], currentTerm' = [currentTerm EXCEPT ![s] = t],
             persist(s), UNCHANGED <<granted, nextIndex, matchIndex>>
      PROVE  IInv'
  <2>1. st \notin {LEADER, CANDIDATE} /\ st \in {LEADER, FOLLOWER, CANDIDATE, GAVE_UP}
    BY SMT DEF LEADER, FOLLOWER, CANDIDATE, GAVE_UP
  <2>2. DurableOK' /\ \A q \in Server : Moves(q)
    BY <1>1, <1>3, <1>5, <1>9, <2>1, StateStep
  <2>3. \A q \in Server : state'[q] = LEADER => state[q] = LEADER
    BY <1>1, <1>9, <2>1 DEF DurableOK
  <2> QED
    BY <1>1, <1>5, <1>7, <1>9, <2>2, <2>3 DEF TypeOK, IndexInvariant
<1>10. CASE /\ state[s] = CANDIDATE /\ state' = [state EXCEPT ![s] = LEADER] /\ currentTerm' = currentTerm
            /\ persist(s)
            /\ granted' \in {granted, granted \cup {<<s, g.election, g.peer>>}}
            /\ nextIndex' = [nextIndex EXCEPT ![s] = [p \in Server |-> Len(log[s]) + 1]]
            /\ matchIndex' = [matchIndex EXCEPT ![s] = [p \in Server |-> 0]]
  <2>1. DurableOK' /\ \A q \in Server : Moves(q)
    <3>1. LEADER # CANDIDATE
      BY SMT DEF LEADER, CANDIDATE
    <3>2. /\ currentTerm' = [currentTerm EXCEPT ![s] = currentTerm[s]]
          /\ currentTerm[s] <= currentTerm[s]
      BY SMT, <1>4, <1>10
    <3>3. LEADER \in {LEADER, FOLLOWER, CANDIDATE, GAVE_UP}
      OBVIOUS
    <3> HIDE DEF s
    <3> QED
      BY <1>1, <1>3, <1>4, <1>5, <1>10, <3>1, <3>2, <3>3, StateStep
  <2>2. granted' \subseteq Server \X Nat \X Server
    BY <1>10, <1>6
  <2>3. nextIndex' \in [Server -> [Server -> Nat]] /\ matchIndex' \in [Server -> [Server -> Nat]]
    <3>1. nextIndex \in [Server -> [Server -> Nat]] /\ matchIndex \in [Server -> [Server -> Nat]]
      BY <1>1 DEF TypeOK
    <3>2. /\ [p \in Server |-> Len(log[s]) + 1] \in [Server -> Nat]
          /\ [p \in Server |-> 0] \in [Server -> Nat]
      BY SMT, <1>4
    <3> QED
      BY <1>10, <3>1, <3>2
  <2>4. ASSUME NEW q \in Server, NEW p \in Server, state'[q] = LEADER
        PROVE  nextIndex'[q][p] \in 1 .. Len(log'[q]) + 1
    <3>1. CASE q = s
      BY SMT, <1>1, <1>4, <1>5, <1>10, <3>1 DEF TypeOK
    <3>2. CASE q # s
      BY <1>1, <1>5, <1>10, <2>4, <3>2 DEF TypeOK, IndexInvariant
    <3> QED
      BY <3>1, <3>2
  <2> QED
    BY <1>7, <2>1, <2>2, <2>3, <2>4
<1> QED
  <2>1. CASE g.reply.Term < g.args.Term
    BY SMT, <1>3, <1>4, <1>9, <2>1 DEF RequestVoteReturns
  <2>2. CASE g.reply.Term >= g.args.Term /\ g.args.Term # currentTerm[s]
    BY SMT, <1>3, <1>4, <1>8, <2>2 DEF RequestVoteReturns
  <2>3. CASE g.reply.Term > g.args.Term /\ g.args.Term = currentTerm[s]
    BY SMT, <1>3, <1>4, <1>9, <2>3 DEF RequestVoteReturns
  <2>4. CASE g.reply.Term = g.args.Term /\ g.args.Term = currentTerm[s]
    BY SMT, <1>3, <1>4, <1>8, <1>10, <2>4 DEF RequestVoteReturns
  <2> QED
    BY SMT, <1>3, <1>4, <2>1, <2>2, <2>3, <2>4

\* Start keeps the invariant: the log of a leader only grows.
LEMMA StartKeeps ==
  ASSUME IInv, NEW s \in Server, NEW c \in Command, Start(s, c)
  PROVE  IInv'
<1> DEFINE l == log[s]
           t == currentTerm[s]
           e == [Command |-> c, Term |-> t]
           k == Append(l, e)
<1>1. TypeOK /\ IndexInvariant /\ DurableOK
  BY DEF IInv, TypeOK, IndexInvariant, DurableOK
<1>2. /\ t \in Nat /\ l \in Seq(LogEntry) /\ LogOK(l, t) /\ t > 0 /\ votedFor[s] \in Server \cup {NoVote}
      /\ state[s] = LEADER
  BY <1>1 DEF DurableOK, Start
<1>3. e \in LogEntry /\ e.Term = t
  BY <1>2 DEF LogEntry
<1>4. /\ Len(l) \in Nat /\ k \in Seq(LogEntry) /\ Len(k) = Len(l) + 1
      /\ \A i \in 1 .. Len(l) : k[i] = l[i]
      /\ k[Len(l) + 1] = e
  <2> HIDE DEF e, l
  <2> QED
    BY SMT, <1>2, <1>3
<1>5. LogOK(k, t)
  <2> HIDE DEF k, e, l, t
  <2>1. ASSUME NEW i \in 1 .. Len(k) PROVE k[i].Term \in 1 .. t
    <3>1. CASE i \in 1 .. Len(l)
      BY <1>2, <1>4, <3>1 DEF LogOK
    <3>2. CASE i = Len(l) + 1
      BY SMT, <1>2, <1>3, <1>4, <3>2
    <3> QED
      BY SMT, <1>4, <3>1, <3>2
  <2>2. ASSUME NEW i \in 1 .. Len(k), NEW j \in 1 .. Len(k), i <= j PROVE k[i].Term <= k[j].Term
    <3>1. CASE j \in 1 .. Len(l)
      <4>1. i \in 1 .. Len(l)
        BY SMT, <1>4, <2>2, <3>1
      <4> QED
        BY <1>2, <1>4, <2>2, <3>1, <4>1 DEF LogOK
    <3>2. CASE j = Len(l) + 1
      <4>1. k[j].Term = t
        BY <1>3, <1>4, <3>2
      <4> QED
        BY SMT, <1>2, <2>1, <4>1
    <3> QED
      BY SMT, <1>4, <3>1, <3>2
  <2> QED
    BY <2>1, <2>2 DEF LogOK
<1>6. /\ log' = [log EXCEPT ![s] = k]
      /\ state' = [state EXCEPT ![s] = LEADER] /\ state' = state
      /\ currentTerm' = [currentTerm EXCEPT ![s] = t] /\ currentTerm' = currentTerm
      /\ votedFor' = [votedFor EXCEPT ![s] = votedFor[s]] /\ votedFor' = votedFor
      /\ saved' = [saved EXCEPT ![s] = [state |-> LEADER, currentTerm |-> t,
                                        votedFor |-> votedFor[s], log |-> k]]
  BY <1>1, <1>2 DEF Start, persist, DurableOK
<1> HIDE DEF k
<1>7. DurableOK'
  <2>1. LEADER \in {LEADER, FOLLOWER, CANDIDATE, GAVE_UP}
    OBVIOUS
  <2> HIDE DEF t, l
  <2> QED
    BY <1>1, <1>2, <1>4, <1>5, <1>6, <2>1, ServerStep
<1>8. \A q \in Server : Moves(q)
  <2>1. log'[s] = k
    BY <1>1, <1>6 DEF DurableOK
  <2>2. Len(log[s]) <= Len(log'[s])
    BY SMT, <1>4, <2>1
  <2>3. Moves(s)
    BY SMT, <1>2, <1>6, <2>2 DEF Moves, LEADER, CANDIDATE
  <2> QED
    BY <1>1, <1>6, <2>3, OthersMove DEF DurableOK
<1>9. TypeOK'
  BY <1>1, <1>7 DEF TypeOK, DurableOK, Start, volatile, elections, replication
<1>10. ASSUME NEW q \in Server, NEW p \in Server, state'[q] = LEADER
       PROVE  nextIndex'[q][p] \in 1 .. Len(log'[q]) + 1
  <2>1. nextIndex'[q][p] \in 1 .. Len(log[q]) + 1
    BY <1>1, <1>6, <1>10 DEF IndexInvariant, Start, volatile
  <2>2. CASE q = s
    <3>1. log'[q] = k
      BY <1>1, <1>6, <2>2 DEF DurableOK
    <3> QED
      BY SMT, <1>4, <2>1, <2>2, <3>1
  <2>3. CASE q # s
    BY <1>1, <1>6, <2>1, <2>3 DEF DurableOK
  <2> QED
    BY <2>2, <2>3
<1> QED
  BY <1>1, <1>7, <1>8, <1>9, <1>10, ReplicationKept DEF IInv, IndexInvariant, DurableOK, Start

\* checkApply keeps the invariant: it moves lastApplied only.
LEMMA ApplyKeeps ==
  ASSUME IInv, NEW s \in Server, checkApply(s)
  PROVE  IInv'
<1>1. TypeOK /\ IndexInvariant /\ DurableOK
  BY DEF IInv, TypeOK, IndexInvariant, DurableOK
<1>2. DurableOK' /\ \A q \in Server : Moves(q)
  BY <1>1, NothingMoves DEF checkApply
<1>3. TypeOK'
  <2>1. lastApplied[s] \in Nat /\ commitIndex[s] \in Nat
    BY <1>1 DEF TypeOK
  <2>2. \A x \in applied' : x[1] \in Nat
    <3>1. ASSUME NEW x \in applied' \ applied PROVE x[1] \in Nat
      <4>1. PICK i \in (lastApplied[s] + 1) .. commitIndex[s] : x = <<i, log[s][i].Command>>
        BY <3>1 DEF checkApply
      <4>2. x[1] = i /\ i \in Nat
        BY SMT, <2>1, <4>1
      <4> QED
        BY <4>2
    <3> QED
      BY <1>1, <3>1 DEF TypeOK
  <2>3. lastApplied' \in [Server -> Nat]
    BY <1>1, <2>1 DEF TypeOK, checkApply
  <2> QED
    BY <1>1, <1>2, <2>2, <2>3 DEF TypeOK, DurableOK, checkApply, elections, replication
<1>4. \A q, p \in Server : state'[q] = LEADER => nextIndex'[q][p] \in 1 .. Len(log'[q]) + 1
  BY <1>1 DEF checkApply, IndexInvariant, durable
<1> QED
  BY <1>1, <1>2, <1>3, <1>4, ReplicationKept DEF IInv, IndexInvariant, DurableOK, checkApply

-----------------------------------------------------------------------------
(* Rounds of sendHeartbeat and AppendEntries keep them *)

\* sendHeartbeat keeps the invariant: a new round describes the log of now.
LEMMA HeartbeatKeeps ==
  ASSUME IInv, NEW s \in Server, sendHeartbeat(s)
  PROVE  IInv'
<1>1. TypeOK /\ IndexInvariant /\ DurableOK
  BY DEF IInv, TypeOK, IndexInvariant, DurableOK
<1>2. DurableOK' /\ \A q \in Server : Moves(q)
  BY <1>1, NothingMoves DEF sendHeartbeat
<1>3. PICK n : n = CHOOSE i \in FreeRounds(s) : \A j \in FreeRounds(s) : i <= j
  OBVIOUS
<1> DEFINE k == <<s, n>>
           r == [leader |-> s, currentTerm |-> currentTerm[s], currentLogLen |-> Len(log[s]) + 1,
                 changeCommit |-> changeCommit(s),
                 currentCommitIndex |-> commitIndex[s], replicated |-> {s}]
           new(p) == [round |-> k, peer |-> p, pc |-> "ready",
                      args |-> NoAppendArgs, reply |-> NoAppendReply]
<1>4. n \in FreeRounds(s)
  <2>1. FreeRounds(s) \in SUBSET Nat /\ FreeRounds(s) # {}
    <3>1. FreeRounds(s) # {}
      BY DEF sendHeartbeat
    <3>2. FreeRounds(s) \subseteq Nat
      BY SMT, RaftAssumption DEF FreeRounds
    <3> QED
      BY <3>1, <3>2
  <2> QED
    BY <1>3, <2>1, SmallestExists
<1>5. n \in Nat /\ k \notin DOMAIN rounds /\ k \in Server \X Nat /\ k[1] = s
  BY SMT, <1>4, RaftAssumption DEF FreeRounds
<1>6. /\ appendCalls' = appendCalls \cup {new(p) : p \in Server \ {s}}
      /\ rounds' = [i \in {g.round : g \in appendCalls'} |-> IF i = k THEN r ELSE rounds[i]]
  BY <1>3 DEF sendHeartbeat
<1>7. state[s] = LEADER /\ currentTerm[s] \in Nat /\ Len(log[s]) \in Nat /\ commitIndex[s] \in Nat
  BY <1>1, LogType DEF sendHeartbeat, TypeOK
<1>8. r \in Round
  <2>1. changeCommit(s) \in BOOLEAN
    BY DEF changeCommit
  <2> QED
    BY SMT, <1>7, <2>1 DEF Round
<1>9. r.leader = s /\ r.currentTerm = currentTerm[s] /\ r.currentLogLen = Len(log[s]) + 1
  OBVIOUS
<1> HIDE DEF k, r
<1>10. ASSUME NEW p \in Server PROVE new(p) \in AppendCall /\ new(p).round = k /\ new(p).pc = "ready"
  <2>1. NoAppendArgs \in AppendEntriesArgs /\ NoAppendReply \in AppendEntriesReply
    BY SMT DEF NoAppendArgs, NoAppendReply, AppendReply, AppendEntriesArgs, AppendEntriesReply
  <2> QED
    BY <1>5, <2>1 DEF AppendCall
<1> HIDE DEF new
<1>11. \A i \in DOMAIN rounds' : i # k => i \in DOMAIN rounds /\ rounds'[i] = rounds[i]
  BY SMT, <1>1, <1>6, <1>10 DEF TypeOK
<1>12. k \in DOMAIN rounds' => rounds'[k] = r
  BY <1>6
<1>13. TypeOK'
  <2>1. \A g \in appendCalls' : g \in AppendCall
    BY <1>1, <1>6, <1>10 DEF TypeOK
  <2>2. DOMAIN rounds' = {g.round : g \in appendCalls'}
    BY <1>6
  <2>3. \A i \in DOMAIN rounds' : rounds'[i] \in Round
    BY <1>1, <1>8, <1>11, <1>12 DEF TypeOK
  <2> QED
    BY <1>1, <1>2, <2>1, <2>2, <2>3 DEF TypeOK, DurableOK, sendHeartbeat, volatile, elections
<1>14. /\ \A i \in DOMAIN rounds \cap DOMAIN rounds' : RoundOK(i)'
       /\ \A g \in appendCalls \cap appendCalls' : AppendCallOK(g)'
  <2>1. ASSUME NEW i \in DOMAIN rounds \cap DOMAIN rounds'
        PROVE  /\ Moves(rounds[i].leader)
               /\ rounds'[i] = [rounds[i] EXCEPT !.replicated = rounds'[i].replicated]
    <3>1. rounds'[i] = rounds[i] /\ rounds[i] \in Round
      BY <1>1, <1>5, <1>11 DEF TypeOK
    <3> QED
      BY <1>2, <3>1 DEF Round
  <2> QED
    BY <1>1, <1>13, <2>1, RoundsKept
<1>15. k \in DOMAIN rounds' => RoundOK(k)'
  <2>1. state' = state /\ currentTerm' = currentTerm /\ log' = log
    BY DEF sendHeartbeat, durable
  <2>2. /\ currentTerm[s] <= currentTerm[s] /\ state[s] # CANDIDATE
        /\ Len(log[s]) + 1 >= 1 /\ Len(log[s]) + 1 <= Len(log[s]) + 1
    BY SMT, <1>7 DEF LEADER, CANDIDATE
  <2> QED
    BY <1>5, <1>9, <1>12, <2>1, <2>2 DEF RoundOK
<1>16. \A p \in Server : AppendCallOK(new(p))'
  BY <1>10 DEF AppendCallOK
<1>17. \A q, p \in Server : state'[q] = LEADER => nextIndex'[q][p] \in 1 .. Len(log'[q]) + 1
  BY <1>1 DEF sendHeartbeat, IndexInvariant, durable, volatile
<1>18. \A i \in DOMAIN rounds' : RoundOK(i)'
  BY <1>11, <1>14, <1>15
<1>19. \A g \in appendCalls' : AppendCallOK(g)'
  BY <1>6, <1>14, <1>16
<1> QED
  BY <1>1, <1>2, <1>13, <1>17, <1>18, <1>19 DEF IInv, IndexInvariant, DurableOK, sendHeartbeat

\* A step of a goroutine: it goes on as h, or it returns.
LEMMA CallStep ==
  ASSUME IInv, DurableOK', \A q \in Server : Moves(q),
         NEW h, h \in appendCalls' \ appendCalls => h \in AppendCall /\ h.round \in DOMAIN rounds,
         appendCalls' \subseteq appendCalls \cup {h},
         DOMAIN rounds' = {g.round : g \in appendCalls'},
         \A k \in DOMAIN rounds' : k \in DOMAIN rounds =>
           /\ rounds'[k] \in Round
           /\ rounds'[k] = [rounds[k] EXCEPT !.replicated = rounds'[k].replicated],
         commitIndex' \in [Server -> Nat], lastApplied' = lastApplied,
         nextIndex' \in [Server -> [Server -> Nat]], matchIndex' \in [Server -> [Server -> Nat]],
         UNCHANGED <<elections, applied, restarts>>, fails' \in 0 .. MaxFails,
         \A m \in lateAppends' : m \in [to : Server, args : AppendEntriesArgs] /\ ArgsOK(m.args),
         \A q, p \in Server : state'[q] = LEADER => nextIndex'[q][p] \in 1 .. Len(log'[q]) + 1,
         TypeOK' /\ h \in appendCalls' \ appendCalls => AppendCallOK(h)'
  PROVE  IInv'
<1>1. TypeOK /\ IndexInvariant
  BY DEF IInv
<1>2. \A g \in appendCalls' : g \in AppendCall /\ g.round \in DOMAIN rounds
  BY <1>1 DEF TypeOK
<1>3. DOMAIN rounds' \subseteq DOMAIN rounds
  BY <1>2
<1>4. TypeOK'
  <2>1. \A k \in DOMAIN rounds' : rounds'[k] \in Round
    BY <1>3
  <2>2. \A g \in appendCalls' : g \in AppendCall
    BY <1>2
  <2> QED
    BY <1>1, <2>1, <2>2 DEF TypeOK, DurableOK, elections
<1>5. \A k \in DOMAIN rounds : rounds[k].leader \in Server
  BY <1>1 DEF TypeOK, Round
<1>6. /\ \A k \in DOMAIN rounds \cap DOMAIN rounds' : RoundOK(k)'
      /\ \A g \in appendCalls \cap appendCalls' : AppendCallOK(g)'
  BY <1>1, <1>4, <1>5, RoundsKept
<1>7. \A k \in DOMAIN rounds' : RoundOK(k)'
  BY <1>3, <1>6
<1>8. \A g \in appendCalls' : AppendCallOK(g)'
  BY <1>4, <1>6
<1> QED
  BY <1>4, <1>7, <1>8 DEF IInv, IndexInvariant, DurableOK

\* Building an AppendEntries keeps the invariant: its arguments are a slice.
LEMMA SendAppendKeeps ==
  ASSUME IInv, NEW g \in appendCalls, sendAppendEntries(g)
  PROVE  IInv'
<1>1. TypeOK /\ IndexInvariant /\ DurableOK
  BY DEF IInv, TypeOK, IndexInvariant, DurableOK
<1>2. DurableOK' /\ \A q \in Server : Moves(q)
  BY <1>1, NothingMoves DEF sendAppendEntries
<1>3. /\ state' = state /\ currentTerm' = currentTerm /\ log' = log
      /\ UNCHANGED <<volatile, elections, lateAppends, applied, fails, restarts>>
  BY DEF sendAppendEntries, durable
<1>4. /\ g \in AppendCall /\ g.peer \in Server /\ g.round \in DOMAIN rounds
      /\ rounds[g.round] \in Round /\ rounds[g.round].leader \in Server
  BY <1>1, CallType
<1>5. PICK r : r = rounds[g.round]
  OBVIOUS
<1>6. PICK a : a = BuildAppendEntries(r, g.peer)
  OBVIOUS
<1> DEFINE h == [g EXCEPT !.pc = "sent", !.args = a, !.reply = NoAppendReply]
<1>7. /\ appendCalls' = (appendCalls \ {g}) \cup (IF StillLeads(r) THEN {h} ELSE {})
      /\ rounds' = Running(rounds, appendCalls')
  BY <1>5, <1>6 DEF sendAppendEntries
<1>8. StillLeads(r) =>
        /\ a \in AppendEntriesArgs /\ ArgsOK(a) /\ a.Term = r.currentTerm
        /\ a.PrevLogIndex + Len(a.Entries) <= Len(log[r.leader])
  <2> HAVE StillLeads(r)
  <2>1. RoundOK(g.round)
    BY <1>1, <1>4 DEF IndexInvariant
  <2>2. r \in Round /\ r.leader \in Server /\ r.currentLogLen \in Nat
    BY <1>4, <1>5 DEF Round
  <2>3. state[r.leader] = LEADER /\ currentTerm[r.leader] = r.currentTerm
    BY DEF StillLeads
  <2>4. Len(log[r.leader]) \in Nat
    BY <1>1, <2>2, LogType
  <2>5. r.currentLogLen >= 1 /\ r.currentLogLen <= Len(log[r.leader]) + 1
    BY <1>5, <2>1 DEF RoundOK
  <2>6. r.currentLogLen \in 1 .. Len(log[r.leader]) + 1
    BY SMT, <2>2, <2>4, <2>5
  <2>7. nextIndex[r.leader][g.peer] \in 1 .. Len(log[r.leader]) + 1
    BY <1>1, <1>4, <2>2, <2>3 DEF IndexInvariant
  <2>8. LogOK(log[r.leader], r.currentTerm)
    BY <1>1, <2>2, <2>3 DEF IndexInvariant
  <2> QED
    BY <1>1, <1>4, <1>6, <2>2, <2>6, <2>7, <2>8, BuildOK
<1>9. StillLeads(r) => h \in AppendCall
  <2>1. NoAppendReply \in AppendEntriesReply
    BY DEF NoAppendReply, AppendReply, AppendEntriesReply
  <2> QED
    BY <1>4, <1>8, <2>1 DEF AppendCall
<1>10. h.round = g.round /\ h.pc = "sent" /\ h.args = a
  BY <1>4 DEF AppendCall
<1> HIDE DEF h
<1>11. {x.round : x \in appendCalls'} \subseteq DOMAIN rounds
  BY <1>1, <1>4, <1>7, <1>10 DEF TypeOK
<1>12. /\ DOMAIN rounds' = {x.round : x \in appendCalls'}
       /\ \A k \in DOMAIN rounds' : k \in DOMAIN rounds /\ rounds'[k] = rounds[k]
  BY <1>7, <1>11, RunningKeeps
<1>13. \A k \in DOMAIN rounds' : k \in DOMAIN rounds =>
         /\ rounds'[k] \in Round
         /\ rounds'[k] = [rounds[k] EXCEPT !.replicated = rounds'[k].replicated]
  BY <1>1, <1>12 DEF TypeOK, Round
<1>14. CASE StillLeads(r)
  <2>1. AppendCallOK(h)'
    <3>1. rounds'[g.round] = r
      BY <1>7, <1>10, <1>12, <1>14, <1>5
    <3> QED
      BY <1>3, <1>8, <1>10, <1>14, <3>1 DEF AppendCallOK
  <2> QED
    BY <1>1, <1>2, <1>3, <1>4, <1>7, <1>9, <1>10, <1>12, <1>13, <1>14, <2>1, CallStep
    DEF TypeOK, IndexInvariant, volatile
<1>15. CASE ~StillLeads(r)
  <2>1. g \notin appendCalls'
    BY <1>7, <1>15
  <2> QED
    BY <1>1, <1>2, <1>3, <1>7, <1>12, <1>13, <1>15, <2>1, CallStep DEF TypeOK, IndexInvariant, volatile
<1> QED
  BY <1>14, <1>15

\* The handler AppendEntries, whoever called it.
LEMMA AppendEntriesStep ==
  ASSUME DurableOK, commitIndex \in [Server -> Nat],
         NEW i \in Server, NEW a \in AppendEntriesArgs, ArgsOK(a), AppendEntries(i, a)
  PROVE  /\ DurableOK' /\ \A q \in Server : Moves(q)
         /\ commitIndex' \in [Server -> Nat]
         /\ \A q \in Server : state'[q] = LEADER => state[q] = LEADER /\ log'[q] = log[q]
<1>1. CASE UNCHANGED <<durable, commitIndex, saved>>
  BY <1>1, NothingMoves DEF durable
<1>2. CASE a.Term >= currentTerm[i] /\ ~UNCHANGED <<durable, commitIndex, saved>>
  <2> DEFINE l == FollowerLog(log[i], a)
  <2>1. /\ a.Term \in Nat /\ a.LeaderCommit \in Nat /\ currentTerm[i] \in Nat
        /\ log[i] \in Seq(LogEntry) /\ LogOK(log[i], currentTerm[i])
        /\ votedFor[i] \in Server \cup {NoVote}
    BY DEF AppendEntriesArgs, DurableOK
  <2>2. currentTerm[i] <= a.Term
    BY <1>2, <2>1
  <2>3. l \in Seq(LogEntry) /\ LogOK(l, a.Term)
    BY <2>1, <2>2, FollowerLogOK
  <2>4. /\ state' = [state EXCEPT ![i] = FOLLOWER]
        /\ currentTerm' = [currentTerm EXCEPT ![i] = a.Term]
        /\ votedFor' = votedFor
        /\ log' = [log EXCEPT ![i] = l] /\ persist(i)
        /\ commitIndex' = [commitIndex EXCEPT ![i] =
             IF Accepts(log[i], a) /\ a.LeaderCommit > commitIndex[i]
               THEN Smaller(a.LeaderCommit, Len(log'[i])) ELSE commitIndex[i]]
    BY <1>2 DEF AppendEntries
  <2> HIDE DEF l
  <2>5. votedFor' = [votedFor EXCEPT ![i] = votedFor[i]] /\ log'[i] = l
    BY <2>4 DEF DurableOK
  <2>6. saved' = [saved EXCEPT ![i] = [state |-> FOLLOWER, currentTerm |-> a.Term,
                                       votedFor |-> votedFor[i], log |-> l]]
    BY <2>4, <2>5 DEF persist, DurableOK
  <2>7. FOLLOWER \notin {LEADER, CANDIDATE} /\ FOLLOWER \in {LEADER, FOLLOWER, CANDIDATE, GAVE_UP}
    BY SMT DEF LEADER, FOLLOWER, CANDIDATE
  <2>8. DurableOK'
    BY <2>1, <2>3, <2>4, <2>5, <2>6, <2>7, ServerStep
  <2>9. Moves(i)
    BY <2>1, <2>2, <2>4, <2>7 DEF Moves, DurableOK
  <2>10. \A q \in Server : Moves(q)
    BY <2>4, <2>9, OthersMove DEF DurableOK
  <2>11. commitIndex' \in [Server -> Nat]
    <3>1. Smaller(a.LeaderCommit, Len(log'[i])) \in Nat /\ commitIndex[i] \in Nat
      BY SMT, <2>1, <2>3, <2>5 DEF Smaller
    <3> QED
      BY <2>4, <3>1
  <2> QED
    BY <2>4, <2>7, <2>8, <2>10, <2>11 DEF DurableOK
<1> QED
  BY <1>1, <1>2 DEF AppendEntries

\* Running AppendEntries for a goroutine that waits keeps the invariant.
LEMMA DeliverAppendKeeps ==
  ASSUME IInv, NEW g \in appendCalls, DeliverAppendEntries(g)
  PROVE  IInv'
<1>1. TypeOK /\ IndexInvariant /\ DurableOK
  BY DEF IInv, TypeOK, IndexInvariant, DurableOK
<1>2. /\ g \in AppendCall /\ g.peer \in Server /\ g.args \in AppendEntriesArgs /\ g.round \in DOMAIN rounds
      /\ rounds[g.round] \in Round /\ rounds[g.round].leader \in Server
  BY <1>1, CallType
<1>3. g.pc = "sent" /\ AppendCallOK(g) /\ RoundOK(g.round)
  BY <1>1, <1>2 DEF DeliverAppendEntries, IndexInvariant
<1>4. ArgsOK(g.args) /\ g.args.Term = rounds[g.round].currentTerm
  BY <1>3 DEF AppendCallOK
<1>5. /\ DurableOK' /\ \A q \in Server : Moves(q)
      /\ commitIndex' \in [Server -> Nat]
      /\ \A q \in Server : state'[q] = LEADER => state[q] = LEADER /\ log'[q] = log[q]
  BY <1>1, <1>2, <1>4, AppendEntriesStep DEF DeliverAppendEntries, TypeOK
<1>6. PICK b : b = AppendEntriesAnswer(g.peer, g.args)
  OBVIOUS
<1>7. b \in AppendEntriesReply /\ ReplyOK(g.args, b)
  BY <1>1, <1>2, <1>4, <1>6, AnswerOK DEF IndexInvariant
<1> DEFINE h == [g EXCEPT !.pc = "replied", !.reply = b]
<1>8. /\ h \in AppendCall /\ h.round = g.round /\ h.pc = "replied" /\ h.args = g.args /\ h.reply = b
  BY <1>2, <1>7 DEF AppendCall
<1>9. appendCalls' = (appendCalls \ {g}) \cup {h}
  BY <1>6 DEF DeliverAppendEntries
<1>10. /\ UNCHANGED <<lastApplied, nextIndex, matchIndex, elections, rounds, lateAppends,
                     applied, fails, restarts>>
  BY DEF DeliverAppendEntries
<1> HIDE DEF h
<1>11. DOMAIN rounds' = {x.round : x \in appendCalls'}
  BY SMT, <1>1, <1>8, <1>9, <1>10 DEF TypeOK
<1>12. \A k \in DOMAIN rounds' : k \in DOMAIN rounds =>
         /\ rounds'[k] \in Round
         /\ rounds'[k] = [rounds[k] EXCEPT !.replicated = rounds'[k].replicated]
  BY <1>1, <1>10 DEF TypeOK, Round
<1>13. TypeOK' => AppendCallOK(h)'
  <2> HAVE TypeOK'
  <2>1. AppendCallOK(g)'
    BY <1>1, <1>2, <1>3, <1>5, <1>10, <1>12, CallKept
  <2> QED
    BY <1>3, <1>7, <1>8, <2>1 DEF AppendCallOK
<1>14. \A q, p \in Server : state'[q] = LEADER => nextIndex'[q][p] \in 1 .. Len(log'[q]) + 1
  BY <1>1, <1>5, <1>10 DEF IndexInvariant
<1> QED
  BY <1>1, <1>2, <1>5, <1>8, <1>9, <1>10, <1>11, <1>12, <1>13, <1>14, CallStep
  DEF TypeOK, IndexInvariant

\* Running AppendEntries for a late request keeps the invariant.
LEMMA LateAppendKeeps ==
  ASSUME IInv, NEW m \in lateAppends, DeliverLateAppend(m)
  PROVE  IInv'
<1>1. TypeOK /\ IndexInvariant /\ DurableOK
  BY DEF IInv, TypeOK, IndexInvariant, DurableOK
<1>2. m.to \in Server /\ m.args \in AppendEntriesArgs /\ ArgsOK(m.args)
  BY <1>1 DEF TypeOK, IndexInvariant
<1>3. /\ DurableOK' /\ \A q \in Server : Moves(q)
      /\ commitIndex' \in [Server -> Nat]
      /\ \A q \in Server : state'[q] = LEADER => state[q] = LEADER /\ log'[q] = log[q]
  BY <1>1, <1>2, AppendEntriesStep DEF DeliverLateAppend, TypeOK
<1>4. /\ UNCHANGED <<lastApplied, nextIndex, matchIndex, elections, rounds, appendCalls,
                     applied, fails, restarts>>
      /\ lateAppends' = lateAppends \ {m}
  BY DEF DeliverLateAppend
<1>5. \A k \in DOMAIN rounds' : k \in DOMAIN rounds =>
         /\ rounds'[k] \in Round
         /\ rounds'[k] = [rounds[k] EXCEPT !.replicated = rounds'[k].replicated]
  BY <1>1, <1>4 DEF TypeOK, Round
<1>6. \A q, p \in Server : state'[q] = LEADER => nextIndex'[q][p] \in 1 .. Len(log'[q]) + 1
  BY <1>1, <1>3, <1>4 DEF IndexInvariant
<1>7. m \notin appendCalls' \ appendCalls
  BY <1>4
<1> QED
  BY <1>1, <1>3, <1>4, <1>5, <1>6, <1>7, CallStep DEF TypeOK, IndexInvariant

\* A goroutine that tries again has nothing to vouch for.
LEMMA AgainOK ==
  ASSUME NEW g \in AppendCall
  PROVE  /\ Again(g) \in AppendCall /\ Again(g).round = g.round /\ Again(g).peer = g.peer
         /\ Again(g).pc = "ready"
<1>1. NoAppendArgs \in AppendEntriesArgs /\ NoAppendReply \in AppendEntriesReply
  BY SMT DEF NoAppendArgs, NoAppendReply, AppendReply, AppendEntriesArgs, AppendEntriesReply
<1> QED
  BY <1>1 DEF AppendCall, Again

\* A failed call keeps the invariant: its goroutine tries again or returns.
LEMMA AppendFailsKeeps ==
  ASSUME IInv, NEW g \in appendCalls, AppendEntriesFails(g)
  PROVE  IInv'
<1>1. TypeOK /\ IndexInvariant /\ DurableOK
  BY DEF IInv, TypeOK, IndexInvariant, DurableOK
<1>2. DurableOK' /\ \A q \in Server : Moves(q)
  BY <1>1, NothingMoves DEF AppendEntriesFails
<1>3. /\ state' = state /\ currentTerm' = currentTerm /\ log' = log
      /\ UNCHANGED <<volatile, elections, applied, restarts>>
  BY DEF AppendEntriesFails, durable
<1>4. /\ g \in AppendCall /\ g.peer \in Server /\ g.args \in AppendEntriesArgs
      /\ g.round \in DOMAIN rounds
  BY <1>1, CallType
<1>5. PICK h : h = Again(g)
  OBVIOUS
<1>6. h \in AppendCall /\ h.round = g.round /\ h.pc = "ready"
  BY <1>4, <1>5, AgainOK
<1>7. /\ appendCalls' \subseteq appendCalls \cup {h}
      /\ rounds' = Running(rounds, appendCalls')
  BY <1>5 DEF AppendEntriesFails
<1>8. {x.round : x \in appendCalls'} \subseteq DOMAIN rounds
  BY <1>1, <1>4, <1>6, <1>7 DEF TypeOK
<1>9. /\ DOMAIN rounds' = {x.round : x \in appendCalls'}
      /\ \A k \in DOMAIN rounds' : k \in DOMAIN rounds /\ rounds'[k] = rounds[k]
  BY <1>7, <1>8, RunningKeeps
<1>10. \A k \in DOMAIN rounds' : k \in DOMAIN rounds =>
         /\ rounds'[k] \in Round
         /\ rounds'[k] = [rounds[k] EXCEPT !.replicated = rounds'[k].replicated]
  BY <1>1, <1>9 DEF TypeOK, Round
<1>11. AppendCallOK(h)'
  BY <1>6 DEF AppendCallOK
<1>12. \A m \in lateAppends' : m \in [to : Server, args : AppendEntriesArgs] /\ ArgsOK(m.args)
  <2>1. ArgsOK(g.args)
    BY <1>1 DEF IndexInvariant, AppendCallOK, AppendEntriesFails
  <2>2. /\ [to |-> g.peer, args |-> g.args] \in [to : Server, args : AppendEntriesArgs]
        /\ ArgsOK([to |-> g.peer, args |-> g.args].args)
    BY <1>4, <2>1
  <2> QED
    BY <1>1, <2>2 DEF AppendEntriesFails, TypeOK, IndexInvariant
<1>13. fails' \in 0 .. MaxFails
  BY SMT, <1>1, RaftAssumption DEF AppendEntriesFails, TypeOK
<1> QED
  BY <1>1, <1>2, <1>3, <1>4, <1>6, <1>7, <1>9, <1>10, <1>11, <1>12, <1>13, CallStep
  DEF TypeOK, IndexInvariant, volatile

\* A returning AppendEntries keeps the invariant: nextIndex backs up inside the
\* log after a rejection and moves to the end of the slice after a success.
LEMMA AppendReturnsKeeps ==
  ASSUME IInv, NEW g \in appendCalls, AppendEntriesReturns(g)
  PROVE  IInv'
<1>1. TypeOK /\ IndexInvariant /\ DurableOK
  BY DEF IInv, TypeOK, IndexInvariant, DurableOK
<1>2. /\ g \in AppendCall /\ g.peer \in Server /\ g.args \in AppendEntriesArgs
      /\ g.reply \in AppendEntriesReply /\ g.round \in DOMAIN rounds
      /\ rounds[g.round] \in Round /\ rounds[g.round].leader \in Server
  BY <1>1, CallType
<1>3. PICK r : r = rounds[g.round]
  OBVIOUS
<1>4. PICK s \in Server : s = r.leader
  BY <1>2, <1>3
<1> DEFINE p == g.peer
           rest == appendCalls \ {g}
           match == g.args.PrevLogIndex + Len(g.args.Entries)
<1>5. AppendCallOK(g) /\ g.pc = "replied"
  BY <1>1 DEF IndexInvariant, AppendEntriesReturns
<1>6. /\ g.args.Term \in Nat /\ g.args.PrevLogIndex \in Nat /\ g.args.Entries \in Seq(LogEntry)
      /\ Len(g.args.Entries) \in Nat /\ g.reply.Term \in Nat
  BY SMT, <1>2 DEF AppendEntriesArgs, AppendEntriesReply
<1>7. /\ currentTerm[s] \in Nat /\ log[s] \in Seq(LogEntry) /\ Len(log[s]) \in Nat
      /\ nextIndex \in [Server -> [Server -> Nat]] /\ matchIndex \in [Server -> [Server -> Nat]]
      /\ commitIndex \in [Server -> Nat]
  BY <1>1, LogType DEF TypeOK
<1>8. /\ ReplyOK(g.args, g.reply) /\ g.args.Term = r.currentTerm
      /\ StillLeads(r) => match <= Len(log[s])
  BY <1>5, <1>3, <1>4 DEF AppendCallOK
<1>9. StillMine(g) => StillLeads(r) /\ state[s] = LEADER /\ currentTerm[s] = g.args.Term
  BY <1>8, <1>3, <1>4 DEF StillMine, StillLeads
<1>10. UNCHANGED <<votedFor, log, lastApplied, elections, lateAppends, applied, fails, restarts>>
  BY DEF AppendEntriesReturns
<1>11. /\ {x.round : x \in rest} \subseteq DOMAIN rounds
       /\ \A k \in DOMAIN rounds : rounds[k] \in Round
  BY <1>1 DEF TypeOK
<1>12. ASSUME DurableOK', \A q \in Server : Moves(q), commitIndex' \in [Server -> Nat],
              nextIndex' \in [Server -> [Server -> Nat]], matchIndex' \in [Server -> [Server -> Nat]],
              \A q, x \in Server : state'[q] = LEADER => nextIndex'[q][x] \in 1 .. Len(log'[q]) + 1,
              appendCalls' = rest, rounds' = Running(rounds, rest)
       PROVE  IInv'
  <2>1. /\ DOMAIN rounds' = {x.round : x \in appendCalls'}
        /\ \A k \in DOMAIN rounds' : k \in DOMAIN rounds /\ rounds'[k] = rounds[k]
    BY <1>11, <1>12, RunningKeeps
  <2>2. \A k \in DOMAIN rounds' : k \in DOMAIN rounds =>
           /\ rounds'[k] \in Round
           /\ rounds'[k] = [rounds[k] EXCEPT !.replicated = rounds'[k].replicated]
    BY <1>11, <2>1 DEF Round
  <2>3. g \notin appendCalls' \ appendCalls
    BY <1>12
  <2> QED
    BY <1>1, <1>10, <1>12, <2>1, <2>2, <2>3, CallStep DEF TypeOK, IndexInvariant
<1>13. CASE ~StillMine(g)
  <2>1. /\ appendCalls' = rest /\ rounds' = Running(rounds, rest)
        /\ UNCHANGED <<state, currentTerm, saved, commitIndex, nextIndex, matchIndex>>
    BY <1>13 DEF AppendEntriesReturns
  <2>2. DurableOK' /\ \A q \in Server : Moves(q)
    BY <1>1, <1>10, <2>1, NothingMoves DEF durable
  <2> QED
    BY <1>1, <1>7, <1>10, <1>12, <2>1, <2>2 DEF IndexInvariant
<1>14. CASE StillMine(g) /\ ~g.reply.Success /\ g.reply.Term > currentTerm[s]
  <2>1. /\ currentTerm' = [currentTerm EXCEPT ![s] = g.reply.Term]
        /\ state' = [state EXCEPT ![s] = FOLLOWER] /\ persist(s)
        /\ appendCalls' = rest /\ rounds' = Running(rounds, rest)
        /\ UNCHANGED <<commitIndex, nextIndex, matchIndex>>
    <3>1. s = rounds[g.round].leader /\ ~(g.reply.Term <= currentTerm[s])
      BY SMT, <1>6, <1>7, <1>14, <1>3, <1>4
    <3> QED
      BY <1>14, <3>1 DEF AppendEntriesReturns
  <2>2. FOLLOWER \notin {LEADER, CANDIDATE} /\ FOLLOWER \in {LEADER, FOLLOWER, CANDIDATE, GAVE_UP}
    BY SMT DEF LEADER, FOLLOWER, CANDIDATE
  <2>3. currentTerm[s] <= g.reply.Term
    BY SMT, <1>6, <1>7, <1>14
  <2>4. DurableOK' /\ \A q \in Server : Moves(q)
    BY <1>1, <1>6, <1>10, <2>1, <2>2, <2>3, StateStep
  <2>5. \A q \in Server : state'[q] = LEADER => state[q] = LEADER
    BY <1>1, <2>1, <2>2 DEF DurableOK
  <2> QED
    BY <1>1, <1>7, <1>10, <1>12, <2>1, <2>4, <2>5 DEF IndexInvariant

<1>15. ASSUME NEW n \in 1 .. Len(log[s]) + 1, UNCHANGED <<state, currentTerm, saved>>,
              nextIndex' = [nextIndex EXCEPT ![s][p] = n]
       PROVE  /\ DurableOK' /\ \A q \in Server : Moves(q)
              /\ nextIndex' \in [Server -> [Server -> Nat]]
              /\ \A q, x \in Server : state'[q] = LEADER => nextIndex'[q][x] \in 1 .. Len(log'[q]) + 1
  <2>1. DurableOK' /\ \A q \in Server : Moves(q)
    BY <1>1, <1>10, <1>15, NothingMoves DEF durable
  <2>2. n \in Nat
    BY SMT, <1>7
  <2>3. nextIndex' \in [Server -> [Server -> Nat]]
    BY <1>2, <1>7, <1>15, <2>2
  <2>4. \A q, x \in Server : nextIndex'[q][x] = IF q = s /\ x = p THEN n ELSE nextIndex[q][x]
    BY <1>2, <1>7, <1>15
  <2>5. \A q, x \in Server : state'[q] = LEADER => nextIndex'[q][x] \in 1 .. Len(log'[q]) + 1
    BY SMT, <1>1, <1>10, <1>15, <2>4 DEF IndexInvariant
  <2> QED
    BY <2>1, <2>3, <2>5
<1>16. CASE StillMine(g) /\ ~g.reply.Success /\ g.reply.Term <= currentTerm[s]
  <2>1. /\ nextIndex' = [nextIndex EXCEPT ![s][p] = BackUp(log[s], g.reply)]
        /\ appendCalls' = rest \cup {Again(g)}
        /\ UNCHANGED <<state, currentTerm, saved, commitIndex, matchIndex, rounds>>
    <3>1. s = rounds[g.round].leader /\ ~(g.reply.Term > currentTerm[s])
      BY SMT, <1>6, <1>7, <1>16, <1>3, <1>4
    <3> QED
      BY <1>16, <3>1 DEF AppendEntriesReturns
  <2>2. g.reply.Term = g.args.Term /\ g.args.PrevLogIndex <= Len(log[s])
    <3>1. g.args.PrevLogIndex <= match
      BY SMT, <1>6
    <3>2. match <= Len(log[s])
      BY <1>8, <1>9, <1>16
    <3>3. g.reply.Term >= g.args.Term
      BY <1>8 DEF ReplyOK
    <3> QED
      BY SMT, <1>6, <1>7, <1>9, <1>16, <3>1, <3>2, <3>3
  <2>3. BackUp(log[s], g.reply) \in 1 .. Len(log[s]) + 1
    BY <1>2, <1>7, <1>8, <1>16, <2>2, BackUpOK
  <2>4. /\ DurableOK' /\ \A q \in Server : Moves(q)
        /\ nextIndex' \in [Server -> [Server -> Nat]]
        /\ \A q, x \in Server : state'[q] = LEADER => nextIndex'[q][x] \in 1 .. Len(log'[q]) + 1
    BY <1>15, <2>1, <2>3
  <2>5. PICK h : h = Again(g)
    OBVIOUS
  <2>6. h \in AppendCall /\ h.round = g.round /\ h.pc = "ready"
    BY <1>2, <2>5, AgainOK
  <2>7. DOMAIN rounds' = {x.round : x \in appendCalls'}
    BY <1>1, <2>1, <2>6, <2>5 DEF TypeOK
  <2>8. \A k \in DOMAIN rounds' : k \in DOMAIN rounds =>
           /\ rounds'[k] \in Round
           /\ rounds'[k] = [rounds[k] EXCEPT !.replicated = rounds'[k].replicated]
    BY <1>11, <2>1 DEF Round
  <2>9. AppendCallOK(h)'
    BY <2>6 DEF AppendCallOK
  <2>10. /\ appendCalls' \subseteq appendCalls \cup {h}
         /\ commitIndex' \in [Server -> Nat] /\ matchIndex' \in [Server -> [Server -> Nat]]
    BY <1>7, <2>1, <2>5
  <2> QED
    BY <1>1, <1>2, <1>10, <2>4, <2>6, <2>7, <2>8, <2>9, <2>10, CallStep DEF TypeOK, IndexInvariant
<1>17. CASE StillMine(g) /\ g.reply.Success
  <2> DEFINE rs == [rounds EXCEPT ![g.round].replicated = @ \cup {p}]
  <2>1. /\ matchIndex' = [matchIndex EXCEPT ![s][p] = match]
        /\ nextIndex' = [nextIndex EXCEPT ![s][p] = match + 1]
        /\ rounds' = Running(rs, rest) /\ appendCalls' = rest
        /\ commitIndex' \in {commitIndex, [commitIndex EXCEPT ![s] = r.currentLogLen - 1]}
        /\ UNCHANGED <<state, currentTerm, saved>>
    <3>1. commitIndex = [commitIndex EXCEPT ![s] = commitIndex[s]]
      BY <1>7
    <3> QED
      BY <1>17, <1>3, <1>4, <3>1 DEF AppendEntriesReturns, nextCommitIndex
  <2>2. match \in Nat /\ match + 1 \in 1 .. Len(log[s]) + 1
    <3>1. match <= Len(log[s])
      BY <1>8, <1>9, <1>17
    <3>2. match \in Nat
      BY SMT, <1>6
    <3> HIDE DEF match
    <3> QED
      BY SMT, <1>7, <3>1, <3>2
  <2> HIDE DEF match
  <2>3. /\ DurableOK' /\ \A q \in Server : Moves(q)
        /\ nextIndex' \in [Server -> [Server -> Nat]]
        /\ \A q, x \in Server : state'[q] = LEADER => nextIndex'[q][x] \in 1 .. Len(log'[q]) + 1
    BY <1>15, <2>1, <2>2
  <2>4. matchIndex' \in [Server -> [Server -> Nat]]
    BY <1>2, <1>7, <2>1, <2>2
  <2>5. commitIndex' \in [Server -> Nat]
    <3>1. r.currentLogLen \in Nat
      BY <1>2, <1>3 DEF Round
    <3>2. r.currentLogLen - 1 \in Nat
      BY SMT, <1>1, <1>2, <1>3, <3>1 DEF IndexInvariant, RoundOK
    <3> QED
      BY <1>7, <2>1, <3>2
  <2>6. /\ DOMAIN rs = DOMAIN rounds
        /\ \A k \in DOMAIN rounds :
             /\ rs[k] \in Round
             /\ rs[k] = [rounds[k] EXCEPT !.replicated = rs[k].replicated]
    <3>1. \A k \in DOMAIN rounds :
            rs[k] = IF k = g.round THEN [rounds[k] EXCEPT !.replicated = @ \cup {p}] ELSE rounds[k]
      BY <1>2
    <3>2. ASSUME NEW k \in DOMAIN rounds
          PROVE  /\ rs[k] \in Round
                 /\ rs[k] = [rounds[k] EXCEPT !.replicated = rs[k].replicated]
      <4>1. rounds[k] \in Round
        BY <1>11
      <4>2. CASE k = g.round
        <5>1. rs[k] = [rounds[k] EXCEPT !.replicated = rounds[k].replicated \cup {p}]
          BY <3>1, <4>2
        <5>2. rounds[k].replicated \cup {p} \in SUBSET Server
          BY <1>2, <4>1 DEF Round
        <5> HIDE DEF rs
        <5> QED
          BY <4>1, <5>1, <5>2 DEF Round
      <4>3. CASE k # g.round
        <5>1. rs[k] = rounds[k]
          BY <3>1, <4>3
        <5> HIDE DEF rs
        <5> QED
          BY <4>1, <5>1 DEF Round
      <4> QED
        BY <4>2, <4>3
    <3>3. DOMAIN rs = DOMAIN rounds
      OBVIOUS
    <3> QED
      BY <3>2, <3>3
  <2> HIDE DEF rs
  <2>7. /\ DOMAIN rounds' = {x.round : x \in appendCalls'}
        /\ \A k \in DOMAIN rounds' : k \in DOMAIN rs /\ rounds'[k] = rs[k]
    <3>1. {x.round : x \in rest} \subseteq DOMAIN rs
      BY <1>11, <2>6
    <3>2. /\ DOMAIN Running(rs, rest) = {x.round : x \in rest}
          /\ \A k \in DOMAIN Running(rs, rest) : k \in DOMAIN rs /\ Running(rs, rest)[k] = rs[k]
      <4> HIDE DEF rest
      <4> QED
        BY <3>1, RunningKeeps
    <3> QED
      BY <2>1, <3>2
  <2>8. \A k \in DOMAIN rounds' : k \in DOMAIN rounds =>
           /\ rounds'[k] \in Round
           /\ rounds'[k] = [rounds[k] EXCEPT !.replicated = rounds'[k].replicated]
    BY <2>6, <2>7
  <2>9. g \notin appendCalls' \ appendCalls
    BY <2>1
  <2> QED
    BY <1>1, <1>10, <2>1, <2>3, <2>4, <2>5, <2>7, <2>8, <2>9, CallStep DEF TypeOK, IndexInvariant
<1> QED
  BY SMT, <1>6, <1>7, <1>13, <1>14, <1>16, <1>17

-----------------------------------------------------------------------------
(* Restarts keep them *)

\* A server comes back with what its persister holds.
LEMMA RebootKeeps ==
  ASSUME IInv, NEW s \in Server, NEW p \in Persistent, Reboot(s, p),
         LogOK(p.log, p.currentTerm), p.state \in {LEADER, CANDIDATE} => p.currentTerm > 0,
         \A m \in lateAppends' : m \in lateAppends \cup AppendsUnderWay(s)
  PROVE  IInv'
<1>1. TypeOK /\ IndexInvariant /\ DurableOK
  BY DEF IInv, TypeOK, IndexInvariant, DurableOK
<1>2. /\ p.state \in {LEADER, FOLLOWER, CANDIDATE, GAVE_UP} /\ p.currentTerm \in Nat
      /\ p.votedFor \in Server \cup {NoVote} /\ p.log \in Seq(LogEntry) /\ Len(p.log) \in Nat
      /\ p = [state |-> p.state, currentTerm |-> p.currentTerm, votedFor |-> p.votedFor, log |-> p.log]
  <2>1. /\ p.state \in {LEADER, FOLLOWER, CANDIDATE, GAVE_UP} /\ p.currentTerm \in Nat
        /\ p.votedFor \in Server \cup {NoVote} /\ p.log \in Seq(LogEntry)
        /\ p = [state |-> p.state, currentTerm |-> p.currentTerm, votedFor |-> p.votedFor, log |-> p.log]
    BY DEF Persistent
  <2> QED
    BY SMT, <2>1
<1>3. /\ state' = [state EXCEPT ![s] = p.state]
      /\ currentTerm' = [currentTerm EXCEPT ![s] = p.currentTerm]
      /\ votedFor' = [votedFor EXCEPT ![s] = p.votedFor]
      /\ log' = [log EXCEPT ![s] = p.log]
      /\ saved' = [saved EXCEPT ![s] = p]
  BY DEF Reboot
<1>4. DurableOK'
  <2>1. saved' = [saved EXCEPT ![s] = [state |-> p.state, currentTerm |-> p.currentTerm,
                                       votedFor |-> p.votedFor, log |-> p.log]]
    BY <1>2, <1>3
  <2> QED
    BY <1>1, <1>2, <1>3, <2>1, ServerStep
<1>5. ASSUME NEW q \in Server \ {s}
      PROVE  /\ state'[q] = state[q] /\ currentTerm'[q] = currentTerm[q] /\ log'[q] = log[q]
             /\ Moves(q)
  <2>1. /\ state'[q] = state[q] /\ currentTerm'[q] = currentTerm[q] /\ log'[q] = log[q]
    BY <1>1, <1>3 DEF DurableOK
  <2>2. currentTerm[q] \in Nat /\ Len(log[q]) \in Nat
    BY <1>1, LogType DEF TypeOK
  <2> QED
    BY SMT, <2>1, <2>2 DEF Moves
<1>6. /\ appendCalls' = {g \in appendCalls : rounds[g.round].leader # s}
      /\ rounds' = Running(rounds, appendCalls')
  BY DEF Reboot
<1>7. {g.round : g \in appendCalls'} \subseteq DOMAIN rounds
  BY <1>1, <1>6 DEF TypeOK
<1>8. /\ DOMAIN rounds' = {g.round : g \in appendCalls'}
      /\ \A k \in DOMAIN rounds' : k \in DOMAIN rounds /\ rounds'[k] = rounds[k]
  BY <1>6, <1>7, RunningKeeps
<1>9. \A k \in DOMAIN rounds' : rounds[k] \in Round /\ rounds[k].leader \in Server \ {s}
  BY <1>1, <1>6, <1>8 DEF TypeOK, Round
<1>10. \A m \in lateAppends' : m \in [to : Server, args : AppendEntriesArgs] /\ ArgsOK(m.args)
  <2>1. ASSUME NEW m \in AppendsUnderWay(s)
        PROVE  m \in [to : Server, args : AppendEntriesArgs] /\ ArgsOK(m.args)
    <3>1. PICK g \in appendCalls : g.pc = "sent" /\ m = [to |-> g.peer, args |-> g.args]
      BY DEF AppendsUnderWay
    <3>2. g.peer \in Server /\ g.args \in AppendEntriesArgs
      BY <1>1, CallType
    <3>3. ArgsOK(g.args)
      BY <1>1, <3>1 DEF IndexInvariant, AppendCallOK
    <3> QED
      BY <3>1, <3>2, <3>3
  <2> QED
    BY <1>1, <2>1 DEF TypeOK, IndexInvariant
<1>11. TypeOK'
  <2>1. /\ commitIndex' \in [Server -> Nat] /\ lastApplied' \in [Server -> Nat]
        /\ restarts' \in 0 .. MaxRestarts
    <3>1. /\ commitIndex' = [commitIndex EXCEPT ![s] = 0] /\ lastApplied' = [lastApplied EXCEPT ![s] = 0]
          /\ restarts < MaxRestarts /\ restarts' = restarts + 1
      BY DEF Reboot
    <3>2. /\ commitIndex \in [Server -> Nat] /\ lastApplied \in [Server -> Nat]
          /\ restarts \in 0 .. MaxRestarts /\ MaxRestarts \in Nat
      BY <1>1, RaftAssumption DEF TypeOK
    <3> QED
      BY SMT, <3>1, <3>2
  <2>2. nextIndex' \in [Server -> [Server -> Nat]] /\ matchIndex' \in [Server -> [Server -> Nat]]
    <3>1. nextIndex \in [Server -> [Server -> Nat]] /\ matchIndex \in [Server -> [Server -> Nat]]
      BY <1>1 DEF TypeOK
    <3>2. /\ [q \in Server |-> Len(p.log) + 1] \in [Server -> Nat]
          /\ [q \in Server |-> 0] \in [Server -> Nat]
      BY SMT, <1>2
    <3> QED
      BY <3>1, <3>2 DEF Reboot
  <2>3. \A g \in voteCalls' : g \in VoteCall
    BY <1>1 DEF TypeOK, Reboot
  <2>4. \A m \in lateVotes' : m \in [to : Server, args : RequestVoteArgs]
    BY SMT, <1>1 DEF TypeOK, Reboot, VoteCall
  <2>5. \A g \in appendCalls' : g \in AppendCall
    BY <1>1, <1>6 DEF TypeOK
  <2>6. \A k \in DOMAIN rounds' : rounds'[k] \in Round
    BY <1>8, <1>9
  <2>7. /\ granted' \subseteq Server \X Nat \X Server /\ \A x \in applied' : x[1] \in Nat
        /\ fails' \in 0 .. MaxFails
    BY <1>1 DEF TypeOK, Reboot
  <2> QED
    BY <1>4, <1>8, <1>10, <2>1, <2>2, <2>3, <2>4, <2>5, <2>6, <2>7 DEF TypeOK, DurableOK
<1>12. /\ \A k \in DOMAIN rounds \cap DOMAIN rounds' : RoundOK(k)'
       /\ \A g \in appendCalls \cap appendCalls' : AppendCallOK(g)'
  <2>1. ASSUME NEW k \in DOMAIN rounds \cap DOMAIN rounds'
        PROVE  /\ Moves(rounds[k].leader)
               /\ rounds'[k] = [rounds[k] EXCEPT !.replicated = rounds'[k].replicated]
    BY <1>5, <1>8, <1>9 DEF Round
  <2> QED
    BY <1>1, <1>11, <2>1, RoundsKept
<1>13. ASSUME NEW q \in Server, NEW x \in Server, state'[q] = LEADER
       PROVE  nextIndex'[q][x] \in 1 .. Len(log'[q]) + 1
  <2>1. CASE q = s
    <3>1. log'[q] = p.log /\ nextIndex'[q][x] = Len(p.log) + 1
      BY <1>1, <1>3, <2>1 DEF TypeOK, Reboot
    <3> QED
      BY SMT, <1>2, <3>1
  <2>2. CASE q # s
    <3>1. nextIndex'[q] = nextIndex[q]
      BY <1>1, <2>2 DEF TypeOK, Reboot
    <3> QED
      BY <1>1, <1>5, <1>13, <2>2, <3>1 DEF IndexInvariant
  <2> QED
    BY <2>1, <2>2
<1>14. /\ \A k \in DOMAIN rounds' : RoundOK(k)'
       /\ \A g \in appendCalls' : AppendCallOK(g)'
  BY <1>6, <1>8, <1>12
<1> QED
  BY <1>4, <1>10, <1>11, <1>13, <1>14 DEF IInv, IndexInvariant, DurableOK

\* A restart keeps the invariant: what is saved is what the server was.
LEMMA RestartKeeps ==
  ASSUME IInv, NEW s \in Server, Restart(s)
  PROVE  IInv'
<1>1. DurableOK
  BY DEF IInv, TypeOK, IndexInvariant, DurableOK
<1>2. /\ saved[s] \in Persistent /\ saved[s].log = log[s] /\ saved[s].currentTerm = currentTerm[s]
      /\ saved[s].state = state[s]
  BY SMT, <1>1 DEF DurableOK, SavedIsCurrent
<1>3. LogOK(saved[s].log, saved[s].currentTerm)
      /\ (saved[s].state \in {LEADER, CANDIDATE} => saved[s].currentTerm > 0)
  BY <1>1, <1>2 DEF DurableOK
<1> QED
  BY <1>2, <1>3, RebootKeeps DEF Restart

\* A crash between the two persist() calls of AppendEntries keeps the
\* invariant: the old log is in order for the new term too.
LEMMA CrashKeeps ==
  ASSUME IInv, NEW m \in lateAppends, CrashInAppendEntries(m)
  PROVE  IInv'
<1>1. DurableOK /\ m.to \in Server /\ m.args \in AppendEntriesArgs
  BY DEF IInv, TypeOK, IndexInvariant, DurableOK
<1> DEFINE s == m.to
           t == m.args.Term
           p == [saved[s] EXCEPT !.currentTerm = t, !.state = FOLLOWER]
<1>2. /\ saved[s] \in Persistent /\ saved[s].log = log[s]
      /\ t \in Nat /\ currentTerm[s] \in Nat /\ log[s] \in Seq(LogEntry)
      /\ LogOK(log[s], currentTerm[s])
  BY SMT, <1>1 DEF DurableOK, SavedIsCurrent, AppendEntriesArgs
<1>3. p \in Persistent /\ p.log = log[s] /\ p.currentTerm = t /\ p.state = FOLLOWER
  <2>1. FOLLOWER \in {LEADER, FOLLOWER, CANDIDATE, GAVE_UP}
    OBVIOUS
  <2> QED
    BY <1>2, <2>1 DEF Persistent
<1>4. Reboot(s, p) /\ currentTerm[s] <= t
  BY <1>2 DEF CrashInAppendEntries
<1>5. \A x \in lateAppends' : x \in lateAppends \cup AppendsUnderWay(s)
  BY DEF CrashInAppendEntries
<1> HIDE DEF p, s, t
<1>6. LogOK(p.log, p.currentTerm)
  BY <1>2, <1>3, <1>4, LogOKLater
<1>7. p.state \notin {LEADER, CANDIDATE}
  BY SMT, <1>3 DEF LEADER, FOLLOWER, CANDIDATE
<1>8. s \in Server
  BY <1>1 DEF s
<1> QED
  BY <1>3, <1>4, <1>5, <1>6, <1>7, <1>8, RebootKeeps

-----------------------------------------------------------------------------
(* Every step keeps them *)

\* The invariant holds when all servers have just been made.
LEMMA InitHolds == Init => IInv
<1> SUFFICES ASSUME Init PROVE IInv
  OBVIOUS
<1>1. << >> \in Seq(LogEntry) /\ Len(<< >>) = 0
  BY SMT
<1>2. TypeOK
  <2>1. [state |-> FOLLOWER, currentTerm |-> 0, votedFor |-> NoVote, log |-> << >>] \in Persistent
    BY <1>1 DEF Persistent
  <2>2. DOMAIN rounds = {} /\ rounds = << >>
    BY SMT DEF Init
  <2>3. /\ state \in [Server -> {LEADER, FOLLOWER, CANDIDATE, GAVE_UP}]
        /\ votedFor \in [Server -> Server \cup {NoVote}] /\ log \in [Server -> Seq(LogEntry)]
        /\ saved \in [Server -> Persistent]
    BY <1>1, <2>1 DEF Init
  <2>4. /\ currentTerm \in [Server -> Nat] /\ commitIndex \in [Server -> Nat] /\ lastApplied \in [Server -> Nat]
        /\ nextIndex \in [Server -> [Server -> Nat]] /\ matchIndex \in [Server -> [Server -> Nat]]
    BY DEF Init
  <2>5. /\ voteCalls = {} /\ granted = {} /\ lateVotes = {} /\ appendCalls = {} /\ lateAppends = {}
        /\ applied = {} /\ fails \in 0 .. MaxFails /\ restarts \in 0 .. MaxRestarts
    BY SMT, RaftAssumption DEF Init
  <2>6. DOMAIN rounds = {g.round : g \in appendCalls}
    BY <2>2, <2>5
  <2> QED
    BY <2>2, <2>3, <2>4, <2>5, <2>6 DEF TypeOK
<1>3. SavedIsCurrent
  BY DEF Init, SavedIsCurrent
<1>4. /\ \A s \in Server : LogOK(log[s], currentTerm[s])
      /\ \A s \in Server : state[s] \notin {LEADER, CANDIDATE}
  BY SMT, <1>1 DEF Init, LogOK, LEADER, FOLLOWER, CANDIDATE
<1>5. DOMAIN rounds = {} /\ appendCalls = {} /\ lateAppends = {}
  BY SMT DEF Init
<1> QED
  BY <1>2, <1>3, <1>4, <1>5 DEF IInv, IndexInvariant

\* A step that changes nothing keeps the invariant.
LEMMA StutterKeeps ==
  ASSUME IInv, UNCHANGED vars
  PROVE  IInv'
<1>1. /\ UNCHANGED <<state, currentTerm, votedFor, log>>
      /\ UNCHANGED <<commitIndex, lastApplied, nextIndex, matchIndex>>
      /\ UNCHANGED <<saved, voteCalls, granted, lateVotes>>
      /\ UNCHANGED <<rounds, appendCalls, lateAppends, applied, fails, restarts>>
  BY DEF vars, durable, volatile, elections, replication
<1>2. TypeOK'
  BY <1>1 DEF IInv, TypeOK
<1>3. IndexInvariant'
  BY <1>1 DEF IInv, IndexInvariant, SavedIsCurrent, RoundOK, AppendCallOK, StillLeads
<1> QED
  BY <1>2, <1>3 DEF IInv

\* Every step keeps the invariant: one case per action.
LEMMA NextKeeps == IInv /\ [Next]_vars => IInv'
<1> SUFFICES ASSUME IInv, [Next]_vars PROVE IInv'
  OBVIOUS
<1>1. CASE UNCHANGED vars
  BY <1>1, StutterKeeps
<1>2. ASSUME NEW s \in Server, checkElection(s) \/ sendHeartbeat(s) \/ checkApply(s) \/ Restart(s)
      PROVE  IInv'
  BY <1>2, ElectionKeeps, HeartbeatKeeps, ApplyKeeps, RestartKeeps
<1>3. ASSUME NEW s \in Server, NEW c \in Command, Start(s, c) PROVE IInv'
  BY <1>3, StartKeeps
<1>4. ASSUME NEW g \in voteCalls,
             sendRequestVote(g) \/ DeliverRequestVote(g) \/ RequestVoteReturns(g)
      PROVE  IInv'
  BY <1>4, SendVoteKeeps, DeliverVoteKeeps, VoteReturnsKeeps
<1>5. ASSUME NEW m \in lateVotes, DeliverLateVote(m) PROVE IInv'
  BY <1>5, LateVoteKeeps
<1>6. ASSUME NEW g \in appendCalls, \/ sendAppendEntries(g) \/ DeliverAppendEntries(g)
                                    \/ AppendEntriesReturns(g) \/ AppendEntriesFails(g)
      PROVE  IInv'
  BY <1>6, SendAppendKeeps, DeliverAppendKeeps, AppendReturnsKeeps, AppendFailsKeeps
<1>7. ASSUME NEW m \in lateAppends, DeliverLateAppend(m) \/ CrashInAppendEntries(m) PROVE IInv'
  BY <1>7, LateAppendKeeps, CrashKeeps
<1> QED
  BY <1>1, <1>2, <1>3, <1>4, <1>5, <1>6, <1>7 DEF Next

\* In every behaviour, with any number of servers, restarts, failed calls and
\* late requests, the fields of a peer have their types and agree with what
\* persist() saved, and logs, rounds and replies satisfy IndexInvariant.
THEOREM InvariantHolds == Spec => [](TypeOK /\ IndexInvariant)
<1>1. Init => IInv
  BY InitHolds
<1>2. IInv /\ [Next]_vars => IInv'
  BY NextKeeps
<1> QED
  BY <1>1, <1>2, PTL DEF Spec, IInv

\* The slice expressions of sendHeartbeat never panic: nextIndex stays between 1
\* and len(rf.log), and the log of a server that still leads a round is as long
\* as when the round started.
THEOREM IndexesStayInRange == Spec => []IndexesInRange
<1>1. IInv => IndexesInRange
  <2> SUFFICES ASSUME IInv PROVE IndexesInRange
    OBVIOUS
  <2>1. \A k \in DOMAIN rounds : StillLeads(rounds[k]) =>
          rounds[k].currentLogLen <= Len(log[rounds[k].leader]) + 1
    BY DEF IInv, IndexInvariant, RoundOK
  <2> QED
    BY <2>1 DEF IInv, IndexInvariant, IndexesInRange
<1>2. Spec => []IInv
  BY InvariantHolds DEF IInv
<1> QED
  BY <1>1, <1>2, PTL

\* Terms never go back and within a term a vote never changes, whatever is late,
\* lost or crashes: what RequestVote and checkElection decide is persisted.
THEOREM VotesAreFinal == Spec => VoteIsFinal
<1>1. IInv /\ [Next]_vars => \A s \in Server : VoteMoves(s)
  BY TermsGoOn
<1>2. Spec => []IInv
  BY InvariantHolds DEF IInv
<1>3. IInv /\ [Next]_vars =>
        [\A s \in Server :
           /\ currentTerm'[s] >= currentTerm[s]
           /\ currentTerm'[s] = currentTerm[s] /\ votedFor[s] # NoVote => votedFor'[s] = votedFor[s]]_vars
  BY <1>1 DEF VoteMoves
<1> QED
  BY <1>2, <1>3, PTL DEF Spec, VoteIsFinal

-----------------------------------------------------------------------------
(* Votes *)

\* Votes that were there before bind their voters after the step as well.
LEMMA VotesStayBound ==
  ASSUME IInv, IInv', VotesBind, \A s \in Server : VoteMoves(s), NEW v \in Votes
  PROVE  \/ currentTerm'[v[3]] > v[2]
         \/ currentTerm'[v[3]] = v[2] /\ votedFor'[v[3]] = v[1]
<1> DEFINE p == v[3]
           t == currentTerm[p]
           u == currentTerm'[p]
<1>1. v[1] \in Server /\ v[2] \in Nat /\ p \in Server
  BY VoteType
<1>2. t > v[2] \/ (t = v[2] /\ votedFor[p] = v[1])
  BY DEF VotesBind
<1>3. u >= t /\ (u = t /\ votedFor[p] # NoVote => votedFor'[p] = votedFor[p])
  BY <1>1 DEF VoteMoves
<1>4. t \in Nat /\ v[1] # NoVote
  BY <1>1, RaftAssumption DEF IInv, TypeOK
<1>5. u \in Nat
  BY <1>1 DEF IInv, TypeOK
<1> HIDE DEF p, t, u
<1> QED
  BY SMT, <1>1, <1>2, <1>3, <1>4, <1>5 DEF p, t, u

\* A step that adds no vote keeps them binding and unique.
LEMMA VotesKept ==
  ASSUME IInv, IInv', VotesBind, VotesAreUnique, \A s \in Server : VoteMoves(s), Votes' \subseteq Votes
  PROVE  VotesBind' /\ VotesAreUnique'
<1>1. VotesBind'
  BY VotesStayBound DEF VotesBind
<1>2. VotesAreUnique'
  BY DEF VotesAreUnique
<1> QED
  BY <1>1, <1>2

\* A goroutine that stays where it is, when no server stands for election.
LEMMA VoteCallKept ==
  ASSUME IInv, IInv', VotesBind, \A s \in Server : VoteMoves(s),
         \A c \in Server, e \in Nat : <<c, e, c>> \in granted' => <<c, e, c>> \in granted,
         NEW g \in voteCalls, VoteCallOK(g)
  PROVE  VoteCallOK(g)'
<1> DEFINE c == g.cand
           t == currentTerm[c]
           u == currentTerm'[c]
<1>1. c \in Server /\ g.election \in Nat /\ g.args.Term \in Nat
  BY DEF IInv, TypeOK, VoteCall, RequestVoteArgs
<1>2. t \in Nat /\ u \in Nat
  BY <1>1 DEF IInv, TypeOK
<1>3. u >= t
  BY <1>1 DEF VoteMoves
<1>4. CASE g.pc = "ready"
  <2>1. g.election <= t /\ (g.election < t => <<c, t, c>> \notin granted)
    BY <1>4 DEF VoteCallOK
  <2>2. u > t => <<c, u, c>> \notin granted
    <3> SUFFICES ASSUME u > t, <<c, u, c>> \in granted PROVE FALSE
      OBVIOUS
    <3>1. <<c, u, c>> \in Votes
      BY DEF Votes
    <3>2. t > u \/ t = u
      BY <3>1 DEF VotesBind
    <3> HIDE DEF t, u
    <3> QED
      BY SMT, <1>2, <3>2
  <2>3. u = t \/ u > t
    <3> HIDE DEF t, u
    <3> QED
      BY SMT, <1>2, <1>3
  <2>4. g.election <= u
    <3> HIDE DEF t, u
    <3> QED
      BY SMT, <1>1, <1>2, <1>3, <2>1
  <2>5. g.election < u => <<c, u, c>> \notin granted'
    BY <1>1, <1>2, <2>1, <2>2, <2>3
  <2> QED
    BY <1>4, <2>4, <2>5 DEF VoteCallOK
<1>5. CASE g.pc # "ready"
  <2>1. /\ g.args.CandidateId = c /\ g.args.Term <= t
        /\ g.args.Term # g.election => <<c, g.args.Term, c>> \notin granted
    BY <1>5 DEF VoteCallOK
  <2>2. g.args.Term <= u
    <3> HIDE DEF t, u
    <3> QED
      BY SMT, <1>1, <1>2, <1>3, <2>1
  <2>3. g.args.Term # g.election => <<c, g.args.Term, c>> \notin granted'
    BY <1>1, <2>1
  <2> QED
    BY <1>5, <2>1, <2>2, <2>3 DEF VoteCallOK
<1> QED
  BY <1>4, <1>5

\* A server that does not win an election keeps the votes it stands on.
LEMMA StandingKept ==
  ASSUME NEW s \in Server, StandingOK(s), StateMoves(s), granted \subseteq granted'
  PROVE  StandingOK(s)'
<1>1. CASE state'[s] = CANDIDATE
  <2>1. state[s] = CANDIDATE /\ currentTerm'[s] = currentTerm[s]
    BY <1>1 DEF StateMoves
  <2> QED
    BY <1>1, <2>1 DEF StandingOK, LEADER, CANDIDATE
<1>2. CASE state'[s] = LEADER
  <2>1. state[s] = LEADER /\ currentTerm'[s] = currentTerm[s]
    BY <1>2 DEF StateMoves
  <2>2. PICK Q \in SUBSET Server : /\ Majority(Cardinality(Q))
                                   /\ \A p \in Q : <<s, currentTerm[s], p>> \in granted
    BY <2>1 DEF StandingOK
  <2>3. \A p \in Q : <<s, currentTerm'[s], p>> \in granted'
    BY <2>1, <2>2
  <2> QED
    BY SMT, <1>2, <2>2, <2>3 DEF StandingOK, LEADER, CANDIDATE
<1> QED
  BY <1>1, <1>2 DEF StandingOK

\* Steps outside elections.
LEMMA OutsideKeeps ==
  ASSUME IInv, IInv', VoteInvariant, AllMove, granted' = granted, voteCalls' \subseteq voteCalls
  PROVE  VoteInvariant'
<1>1. Votes' \subseteq Votes
  BY DEF Votes
<1>2. \A s \in Server : VoteMoves(s) /\ StateMoves(s)
  BY DEF AllMove
<1>3. VotesBind' /\ VotesAreUnique'
  BY <1>1, <1>2, VotesKept DEF VoteInvariant
<1>4. \A g \in voteCalls' : VoteCallOK(g)'
  BY <1>2, VoteCallKept DEF VoteInvariant
<1>5. \A s \in Server : StandingOK(s)'
  BY <1>2, StandingKept DEF VoteInvariant
<1> QED
  BY <1>3, <1>4, <1>5 DEF VoteInvariant

\* Sending a RequestVote keeps the invariant: without late requests it carries
\* the term of its election, or one in which its server never stood.
LEMMA SendKeepsVotes ==
  ASSUME IInv, IInv', VoteInvariant, NEW g \in voteCalls, sendRequestVote(g)
  PROVE  VoteInvariant'
<1> DEFINE c == g.cand
<1>1. \A s \in Server : VoteMoves(s) /\ StateMoves(s)
  BY SendVoteMoves DEF AllMove
<1>2. /\ g \in VoteCall /\ c \in Server /\ g.election \in Nat /\ currentTerm[c] \in Nat
      /\ currentTerm' = currentTerm /\ granted' = granted
  BY DEF IInv, TypeOK, VoteCall, sendRequestVote, durable
<1>3. PICK a : a = [Term |-> currentTerm[c], CandidateId |-> c, LastLogIndex |-> Len(log[c]),
                    LastLogTerm |-> LastTerm(log[c])]
  OBVIOUS
<1> DEFINE h == [g EXCEPT !.pc = "sent", !.args = a]
<1>4. /\ voteCalls' = (voteCalls \ {g}) \cup {h} /\ g.pc = "ready"
  BY <1>3 DEF sendRequestVote
<1>5. /\ h.pc = "sent" /\ h.cand = c /\ h.election = g.election
      /\ h.args = a /\ a.Term = currentTerm[c] /\ a.CandidateId = c
  BY <1>2, <1>3 DEF VoteCall
<1> HIDE DEF h
<1>6. Votes' \subseteq Votes
  BY <1>2, <1>4, <1>5 DEF Votes
<1>7. VotesBind' /\ VotesAreUnique'
  BY <1>1, <1>6, VotesKept DEF VoteInvariant
<1>8. VoteCallOK(h)'
  <2>1. g.election <= currentTerm[c] /\ (g.election < currentTerm[c] => <<c, currentTerm[c], c>> \notin granted)
    BY <1>4 DEF VoteInvariant, VoteCallOK
  <2>2. currentTerm[c] # g.election => <<c, currentTerm[c], c>> \notin granted
    BY SMT, <1>2, <2>1
  <2> QED
    BY SMT, <1>2, <1>5, <2>2 DEF VoteCallOK
<1>9. \A x \in voteCalls' : VoteCallOK(x)'
  <2>1. \A x \in voteCalls : VoteCallOK(x)'
    BY <1>1, <1>2, VoteCallKept DEF VoteInvariant
  <2> QED
    BY <1>4, <1>8, <2>1
<1>10. \A s \in Server : StandingOK(s)'
  BY <1>1, <1>2, StandingKept DEF VoteInvariant
<1> QED
  BY <1>7, <1>9, <1>10 DEF VoteInvariant

\* Running RequestVote keeps the invariant: a new vote is its voter's only one.
LEMMA DeliverKeepsVotes ==
  ASSUME IInv, IInv', VoteInvariant, NEW g \in voteCalls, DeliverRequestVote(g)
  PROVE  VoteInvariant'
<1> DEFINE c == g.cand
           p == g.peer
<1>1. \A s \in Server : VoteMoves(s) /\ StateMoves(s)
  BY DeliverVoteMoves DEF AllMove
<1>2. /\ g \in VoteCall /\ c \in Server /\ p \in Server /\ g.args \in RequestVoteArgs
      /\ g.args.Term \in Nat /\ currentTerm[p] \in Nat /\ granted' = granted
  BY DEF IInv, TypeOK, VoteCall, RequestVoteArgs, DeliverRequestVote
<1>3. PICK b : b = RequestVoteAnswer(p, g.args)
  OBVIOUS
<1> DEFINE h == [g EXCEPT !.pc = "replied", !.reply = b]
           v == <<c, g.args.Term, p>>
<1>4. voteCalls' = (voteCalls \ {g}) \cup {h} /\ g.pc = "sent"
  BY <1>3 DEF DeliverRequestVote
<1>5. /\ h.pc = "replied" /\ h.cand = c /\ h.peer = p /\ h.election = g.election /\ h.args = g.args
      /\ h.reply = b
  BY <1>2 DEF VoteCall
<1> HIDE DEF h
<1>6. g.args.CandidateId = c
  BY <1>4 DEF VoteInvariant, VoteCallOK
<1>7. b.VoteGranted <=> GrantsVote(p, g.args)
  BY <1>3 DEF RequestVoteAnswer
<1>8. /\ Votes' \subseteq Votes \cup {v}
      /\ v \in Votes' /\ v \notin Votes => GrantsVote(p, g.args)
  BY <1>2, <1>4, <1>5, <1>7 DEF Votes
<1>9. GrantsVote(p, g.args) =>
        /\ currentTerm'[p] = g.args.Term /\ votedFor'[p] = c
        /\ \A w \in Votes : w[2] = g.args.Term /\ w[3] = p => w[1] = c
  <2> HAVE GrantsVote(p, g.args)
  <2>1. /\ g.args.Term >= currentTerm[p]
        /\ g.args.Term = currentTerm[p] => votedFor[p] \in {NoVote, c}
    BY <1>6 DEF GrantsVote
  <2>2. currentTerm'[p] = g.args.Term /\ votedFor'[p] = c
    BY <1>2, <1>6 DEF DeliverRequestVote, RequestVote, IInv, TypeOK
  <2>3. ASSUME NEW w \in Votes, w[2] = g.args.Term, w[3] = p PROVE w[1] = c
    <3>1. currentTerm[p] > w[2] \/ (currentTerm[p] = w[2] /\ votedFor[p] = w[1])
      BY <2>3 DEF VoteInvariant, VotesBind
    <3>2. w[1] # NoVote
      BY VoteType, RaftAssumption
    <3> QED
      BY SMT, <1>2, <2>1, <2>3, <3>1, <3>2
  <2> QED
    BY <2>2, <2>3
<1>10. \A w \in Votes : \/ currentTerm'[w[3]] > w[2]
                        \/ currentTerm'[w[3]] = w[2] /\ votedFor'[w[3]] = w[1]
  BY <1>1, VotesStayBound DEF VoteInvariant
<1>11. v[1] = c /\ v[2] = g.args.Term /\ v[3] = p
  OBVIOUS
<1> HIDE DEF v
<1>12. VotesBind'
  BY <1>8, <1>9, <1>10, <1>11 DEF VotesBind
<1>13. VotesAreUnique'
  <2> SUFFICES ASSUME NEW x \in Votes', NEW y \in Votes', x[2] = y[2], x[3] = y[3]
               PROVE  x[1] = y[1]
    BY DEF VotesAreUnique
  <2>1. CASE x \in Votes /\ y \in Votes
    BY <2>1 DEF VoteInvariant, VotesAreUnique
  <2>2. CASE x \notin Votes
    <3>1. x = v /\ GrantsVote(p, g.args)
      BY <1>8, <2>2
    <3> QED
      BY <1>8, <1>9, <1>11, <3>1
  <2>3. CASE y \notin Votes
    <3>1. y = v /\ GrantsVote(p, g.args)
      BY <1>8, <2>3
    <3> QED
      BY <1>8, <1>9, <1>11, <3>1
  <2> QED
    BY <2>1, <2>2, <2>3
<1>14. \A x \in voteCalls : VoteCallOK(x)'
  BY <1>1, <1>2, VoteCallKept DEF VoteInvariant
<1>15. VoteCallOK(h)'
  <2>1. VoteCallOK(g)'
    BY <1>14
  <2> QED
    BY <1>4, <1>5, <2>1 DEF VoteCallOK
<1>16. \A s \in Server : StandingOK(s)'
  BY <1>1, <1>2, StandingKept DEF VoteInvariant
<1> QED
  BY <1>4, <1>12, <1>13, <1>14, <1>15, <1>16 DEF VoteInvariant

\* With the premise of the theorem below: no goroutine of
\* checkElection still waits for rf.mu when its server stands again.
LEMMA ElectionKeepsVotes ==
  ASSUME IInv, IInv', VoteInvariant, ~LateVoteRequests, NEW s \in Server, checkElection(s)
  PROVE  VoteInvariant'
<1>1. PICK t \in Nat : t = currentTerm[s]
  BY DEF IInv, TypeOK
<1> DEFINE v == <<s, t + 1, s>>
           new(p) == [cand |-> s, election |-> t + 1, peer |-> p, pc |-> "ready",
                      args |-> NoVoteArgs(s), reply |-> NoVoteReply]
<1>2. \A q \in Server : VoteMoves(q)
  BY ElectionMoves
<1>3. /\ state \in [Server -> {LEADER, FOLLOWER, CANDIDATE, GAVE_UP}]
      /\ currentTerm \in [Server -> Nat] /\ votedFor \in [Server -> Server \cup {NoVote}]
  BY DEF IInv, TypeOK
<1>4. /\ currentTerm' = [currentTerm EXCEPT ![s] = t + 1]
      /\ votedFor' = [votedFor EXCEPT ![s] = s] /\ state' = [state EXCEPT ![s] = CANDIDATE]
      /\ granted' = granted \cup {v}
      /\ voteCalls' = voteCalls \cup {new(p) : p \in Server \ {s}}
      /\ \A g \in voteCalls : g.cand = s => g.pc # "ready"
  BY <1>1 DEF checkElection
<1>5. currentTerm'[s] = t + 1 /\ votedFor'[s] = s
  <2>1. currentTerm' = [currentTerm EXCEPT ![s] = t + 1] /\ votedFor' = [votedFor EXCEPT ![s] = s]
    BY <1>4
  <2> QED
    BY <1>3, <2>1
<1>6. \A p : new(p).cand = s /\ new(p).election = t + 1 /\ new(p).pc = "ready"
  OBVIOUS
<1>7. v[1] = s /\ v[2] = t + 1 /\ v[3] = s
  OBVIOUS
<1> HIDE DEF new
<1>8. Votes' \subseteq Votes \cup {v}
  <2>1. granted' = granted \cup {v}
    BY <1>4
  <2>2. \A h \in voteCalls' : h.pc = "replied" => h \in voteCalls
    <3>1. \A h \in voteCalls' : h \in voteCalls \/ h.pc = "ready"
      BY <1>4, <1>6
    <3> QED
      BY <3>1
  <2> QED
    BY <2>1, <2>2 DEF Votes
<1>9. \A w \in Votes : w[3] = s => w[2] # t + 1
  <2> TAKE w \in Votes
  <2> HAVE w[3] = s
  <2>1. t > w[2] \/ t = w[2]
    BY <1>1 DEF VoteInvariant, VotesBind
  <2>2. w[2] \in Nat
    BY VoteType
  <2> QED
    BY SMT, <1>3, <2>1, <2>2
<1>10. VotesBind'
  <2>1. \A w \in Votes : \/ currentTerm'[w[3]] > w[2]
                         \/ currentTerm'[w[3]] = w[2] /\ votedFor'[w[3]] = w[1]
    BY <1>2, VotesStayBound DEF VoteInvariant
  <2> HIDE DEF v
  <2> QED
    BY <1>5, <1>8, <1>7, <2>1 DEF VotesBind
<1>11. VotesAreUnique'
  <2> HIDE DEF v
  <2> SUFFICES ASSUME NEW x \in Votes', NEW y \in Votes', x[2] = y[2], x[3] = y[3]
               PROVE  x[1] = y[1]
    BY DEF VotesAreUnique
  <2>1. CASE x \in Votes /\ y \in Votes
    BY <2>1 DEF VoteInvariant, VotesAreUnique
  <2>2. CASE x = v
    BY <1>8, <1>9, <1>7, <2>2
  <2>3. CASE y = v
    BY <1>8, <1>9, <1>7, <2>3
  <2> QED
    BY <1>8, <2>1, <2>2, <2>3
<1>12. ASSUME NEW g \in voteCalls PROVE VoteCallOK(g)'
  <2>1. g.cand \in Server /\ g.election \in Nat /\ g.args.Term \in Nat /\ currentTerm[g.cand] \in Nat
    BY DEF IInv, TypeOK, VoteCall, RequestVoteArgs
  <2>2. VoteCallOK(g)
    BY DEF VoteInvariant
  <2>3. CASE g.cand # s
    <3>1. currentTerm'[g.cand] = currentTerm[g.cand] /\ \A e : <<g.cand, e, g.cand>> # v
      BY <1>3, <1>4, <2>1, <2>3
    <3> HIDE DEF v
    <3> QED
      BY SMT, <1>4, <2>2, <3>1 DEF VoteCallOK
  <2>4. CASE g.cand = s
    <3>1. /\ g.pc # "ready" /\ g.args.CandidateId = s /\ g.args.Term <= t
          /\ g.args.Term # g.election => <<s, g.args.Term, s>> \notin granted
      BY <1>4, <1>1, <2>2, <2>4 DEF VoteCallOK
    <3>2. g.args.Term <= t + 1 /\ g.args.Term # t + 1
      BY SMT, <1>3, <2>1, <3>1
    <3>3. <<s, g.args.Term, s>> # v
      BY <3>2
    <3> HIDE DEF v
    <3> QED
      BY <1>4, <1>5, <2>4, <3>1, <3>2, <3>3 DEF VoteCallOK
  <2> QED
    BY <2>3, <2>4
<1>13. ASSUME NEW p \in Server PROVE VoteCallOK(new(p))'
  BY SMT, <1>5, <1>6 DEF VoteCallOK
<1>14. ASSUME NEW q \in Server PROVE StandingOK(q)'
  <2>1. CASE q = s
    BY SMT, <1>3, <1>4, <1>5, <2>1 DEF StandingOK, LEADER, CANDIDATE
  <2>2. CASE q # s
    <3>1. state'[q] = state[q] /\ currentTerm'[q] = currentTerm[q] /\ granted \subseteq granted'
      BY <1>3, <1>4, <2>2
    <3> QED
      BY <3>1, StandingKept DEF VoteInvariant, StateMoves
  <2> QED
    BY <2>1, <2>2
<1> QED
  BY <1>4, <1>10, <1>11, <1>12, <1>13, <1>14 DEF VoteInvariant

\* A returning vote goroutine keeps the invariant: the votes it counts are of
\* the current term, so a new leader has those of a majority.
LEMMA ReturnKeepsVotes ==
  ASSUME IInv, IInv', VoteInvariant, NEW g \in voteCalls, RequestVoteReturns(g)
  PROVE  VoteInvariant'
<1> DEFINE s == g.cand
           e == g.election
           v == <<s, e, g.peer>>
           counted == IF state[s] = CANDIDATE /\ g.reply.VoteGranted THEN granted \cup {v} ELSE granted
           GivenUp == /\ granted' = granted /\ currentTerm' = currentTerm
                      /\ state' = [state EXCEPT ![s] = GAVE_UP]
           Ignored == granted' = granted /\ currentTerm' = currentTerm /\ state' = state
           Demoted == /\ granted' = granted
                      /\ currentTerm' = [currentTerm EXCEPT ![s] = g.reply.Term]
                      /\ state' = [state EXCEPT ![s] = FOLLOWER]
           Counted == /\ g.args.Term = currentTerm[s]
                      /\ granted' = counted /\ currentTerm' = currentTerm
                      /\ \/ /\ Majority(Cardinality({p \in Server : <<s, e, p>> \in counted}))
                            /\ state[s] = CANDIDATE
                            /\ state' = [state EXCEPT ![s] = LEADER]
                         \/ state' = state
<1>1. \A q \in Server : VoteMoves(q)
  BY VoteReturnsMoves
<1>2. /\ state \in [Server -> {LEADER, FOLLOWER, CANDIDATE, GAVE_UP}] /\ currentTerm \in [Server -> Nat]
      /\ s \in Server /\ e \in Nat /\ g.peer \in Server /\ g.args.Term \in Nat /\ g.reply.Term \in Nat
  BY DEF IInv, TypeOK, VoteCall, RequestVoteArgs, RequestVoteReply
<1>3. voteCalls' = voteCalls \ {g} /\ g.pc = "replied"
  BY DEF RequestVoteReturns
<1>4. g.args.Term # e => <<s, g.args.Term, s>> \notin granted
  BY <1>3 DEF VoteInvariant, VoteCallOK
<1>5. ASSUME state[s] = CANDIDATE, g.args.Term = currentTerm[s]
      PROVE  e = currentTerm[s] /\ <<s, e, s>> \in granted
  <2>1. <<s, currentTerm[s], s>> \in granted
    BY <1>2, <1>5 DEF VoteInvariant, StandingOK
  <2> QED
    BY <1>4, <1>5, <2>1
<1>6. ASSUME NEW r \in SUBSET Votes, granted \subseteq r, granted' = r,
             \A c \in Server, f \in Nat : <<c, f, c>> \in r => <<c, f, c>> \in granted,
             \A q \in Server : StandingOK(q)'
      PROVE  VoteInvariant'
  <2>1. Votes' \subseteq Votes
    BY <1>3, <1>6 DEF Votes
  <2>2. VotesBind' /\ VotesAreUnique'
    BY <1>1, <2>1, VotesKept DEF VoteInvariant
  <2>3. \A x \in voteCalls' : VoteCallOK(x)'
    BY <1>1, <1>3, <1>6, VoteCallKept DEF VoteInvariant
  <2> QED
    BY <1>6, <2>2, <2>3 DEF VoteInvariant
<1>7. granted \in SUBSET Votes
  BY DEF Votes
<1>8. ASSUME granted' = granted, \A q \in Server : StateMoves(q)
      PROVE  VoteInvariant'
  <2>1. \A q \in Server : StandingOK(q)'
    BY <1>8, StandingKept DEF VoteInvariant
  <2> QED
    BY <1>6, <1>7, <1>8, <2>1
<1>9. \/ GivenUp \/ Ignored \/ Demoted \/ Counted
  BY DEF RequestVoteReturns
<1>10. CASE GivenUp
  <2>1. \A q \in Server : StateMoves(q)
    BY SMT, <1>2, <1>10 DEF StateMoves, LEADER, CANDIDATE, GAVE_UP
  <2> QED
    BY <1>8, <1>10, <2>1
<1>11. CASE Ignored
  <2>1. \A q \in Server : StateMoves(q)
    BY <1>11 DEF StateMoves
  <2> QED
    BY <1>8, <1>11, <2>1
<1>12. CASE Demoted
  <2>1. \A q \in Server : StateMoves(q)
    BY SMT, <1>2, <1>12 DEF StateMoves, LEADER, CANDIDATE, FOLLOWER
  <2> QED
    BY <1>8, <1>12, <2>1
<1>13. CASE Counted
  <2> DEFINE Q == {p \in Server : <<s, e, p>> \in counted}
  <2>1. /\ granted' = counted /\ currentTerm' = currentTerm
        /\ \/ Majority(Cardinality(Q)) /\ state[s] = CANDIDATE /\ state' = [state EXCEPT ![s] = LEADER]
           \/ state' = state
    BY <1>13
  <2>2. counted \in SUBSET Votes /\ granted \subseteq counted
    <3>1. CASE state[s] = CANDIDATE /\ g.reply.VoteGranted
      <4>1. v = <<g.cand, g.args.Term, g.peer>>
        BY <1>5, <1>13, <3>1
      <4> QED
        BY <1>3, <3>1, <4>1 DEF Votes
    <3>2. CASE ~(state[s] = CANDIDATE /\ g.reply.VoteGranted)
      BY <1>7, <3>2
    <3> QED
      BY <3>1, <3>2
  <2>3. \A c \in Server, f \in Nat : <<c, f, c>> \in counted => <<c, f, c>> \in granted
    BY <1>2, <1>5, <1>13
  <2>4. ASSUME NEW q \in Server PROVE StandingOK(q)'
    <3>1. CASE state' = state \/ q # s
      <4>1. StateMoves(q)
        BY <1>2, <2>1, <3>1 DEF StateMoves
      <4> QED
        BY <2>1, <2>2, <4>1, StandingKept DEF VoteInvariant
    <3>2. CASE q = s /\ state' # state
      <4>1. /\ Majority(Cardinality(Q)) /\ state[s] = CANDIDATE /\ state'[s] = LEADER
            /\ currentTerm'[s] = e
        <5>1. /\ Majority(Cardinality(Q)) /\ state[s] = CANDIDATE
              /\ state' = [state EXCEPT ![s] = LEADER] /\ currentTerm' = currentTerm
          BY <2>1, <3>2
        <5>2. currentTerm[s] = e
          BY <1>5, <1>13, <5>1
        <5>3. state'[s] = LEADER
          BY <1>2, <5>1
        <5> QED
          BY <5>1, <5>2, <5>3
      <4>2. Q \in SUBSET Server /\ \A p \in Q : <<s, currentTerm'[s], p>> \in granted'
        <5> HIDE DEF counted
        <5> QED
          BY <2>1, <4>1
      <4> HIDE DEF Q
      <4> QED
        BY SMT, <3>2, <4>1, <4>2 DEF StandingOK, LEADER, CANDIDATE
    <3> QED
      BY <3>1, <3>2
  <2> HIDE DEF counted
  <2> QED
    BY <1>6, <2>1, <2>2, <2>3, <2>4
<1> QED
  BY <1>9, <1>10, <1>11, <1>12, <1>13

\* Nobody has voted when all servers have just been made.
LEMMA VoteInitHolds == Init => VoteInvariant
<1> SUFFICES ASSUME Init PROVE VoteInvariant
  OBVIOUS
<1>1. voteCalls = {} /\ granted = {} /\ \A s \in Server : state[s] = FOLLOWER
  BY DEF Init
<1>2. Votes = {}
  BY <1>1 DEF Votes
<1> QED
  BY SMT, <1>1, <1>2 DEF VoteInvariant, VotesBind, VotesAreUnique, StandingOK, LEADER, FOLLOWER, CANDIDATE

\* Every step keeps the invariant, without late vote requests.
LEMMA VoteNextKeeps ==
  ASSUME ~LateVoteRequests
  PROVE  IInv /\ VoteInvariant /\ [Next]_vars => VoteInvariant'
<1> SUFFICES ASSUME IInv, VoteInvariant, [Next]_vars PROVE VoteInvariant'
  OBVIOUS
<1>1. IInv'
  BY NextKeeps
<1>2. CASE Quiet
  BY <1>1, <1>2, QuietMoves, OutsideKeeps
<1>3. CASE Reboots
  BY <1>1, <1>3, RebootsMove, OutsideKeeps
<1>4. ASSUME NEW s \in Server, checkElection(s) PROVE VoteInvariant'
  BY <1>1, <1>4, ElectionKeepsVotes
<1>5. ASSUME NEW g \in voteCalls,
             sendRequestVote(g) \/ DeliverRequestVote(g) \/ RequestVoteReturns(g)
      PROVE  VoteInvariant'
  BY <1>1, <1>5, SendKeepsVotes, DeliverKeepsVotes, ReturnKeepsVotes
<1> QED
  BY <1>2, <1>3, <1>4, <1>5, StepKinds

-----------------------------------------------------------------------------
(* What RaftHistoryProofs and RaftCommitProofs both need *)

\* The type of the logs of leaders.
LEMMA LeaderLogType ==
  ASSUME NEW llog \in [Nat -> Seq(LogEntry)], NEW t \in Nat
  PROVE  llog[t] \in Seq(LogEntry) /\ Len(llog[t]) \in Nat
<1>1. llog[t] \in Seq(LogEntry)
  OBVIOUS
<1> QED
  BY SMT, <1>1

\* Two logs that come from leaders and share an entry agree up to it.
LEMMA SameEntry ==
  ASSUME NEW led, NEW llog, NEW l \in Seq(LogEntry), NEW k \in Seq(LogEntry),
         FromLeaders(led, llog, l), FromLeaders(led, llog, k),
         NEW n \in 1 .. Len(l), n <= Len(k), l[n].Term = k[n].Term
  PROVE  Agree(l, k, n)
<1>1. Agree(l, llog[l[n].Term], n) /\ Agree(k, llog[l[n].Term], n)
  BY SMT DEF FromLeaders
<1> QED
  BY <1>1 DEF Agree

\* A log that has grown has what it had, and nothing more of a term other than
\* that of its new entries.
LEMMA GrownLog ==
  ASSUME NEW l \in Seq(LogEntry), NEW k \in Seq(LogEntry), NEW v \in Nat, Agree(l, k, Len(l)),
         \A i \in 1 .. Len(k) : i > Len(l) => k[i].Term = v
  PROVE  /\ \A i \in 1 .. Len(l) : i <= Len(k) /\ l[i] = k[i]
         /\ \A t, n \in Nat : Has(l, t, n) => Has(k, t, n)
         /\ \A t, n \in Nat : v # t /\ ~Has(l, t, n) => ~Has(k, t, n)
<1>1. \A i \in 1 .. Len(l) : i <= Len(k) /\ l[i] = k[i]
  BY SMT DEF Agree
<1> QED
  BY SMT, <1>1 DEF Has

\* The beginning of a log from leaders comes from leaders.
LEMMA FromLeadersPrefix ==
  ASSUME NEW led, NEW llog \in [Nat -> Seq(LogEntry)], NEW l \in Seq(LogEntry), NEW k \in Seq(LogEntry),
         FromLeaders(led, llog, k), Agree(l, k, Len(l))
  PROVE  FromLeaders(led, llog, l)
<1> SUFFICES ASSUME NEW i \in 1 .. Len(l)
             PROVE  Led(led, l[i].Term) /\ Agree(l, llog[l[i].Term], i)
  BY DEF FromLeaders
<1>1. i \in 1 .. Len(k) /\ l[i] = k[i]
  BY SMT DEF Agree
<1>2. Led(led, k[i].Term) /\ Agree(k, llog[k[i].Term], i)
  BY <1>1 DEF FromLeaders
<1> QED
  BY SMT, <1>1, <1>2 DEF Agree

\* What AppendEntries makes of a log l when the request is a slice of w: what l
\* had in common with w it still has, an accepted request makes it agree with w
\* as far as the request reaches, and it is the beginning of l or of w.
LEMMA FollowerLogAgrees ==
  ASSUME NEW led, NEW llog, NEW l \in Seq(LogEntry), NEW w \in Seq(LogEntry),
         FromLeaders(led, llog, l), FromLeaders(led, llog, w),
         NEW a \in AppendEntriesArgs,
         a.PrevLogIndex + Len(a.Entries) <= Len(w),
         a.PrevLogTerm = TermAt(w, a.PrevLogIndex),
         \A j \in 1 .. Len(a.Entries) : a.Entries[j] = w[a.PrevLogIndex + j]
  PROVE  /\ FollowerLog(l, a) \in Seq(LogEntry)
         /\ \A n \in Nat : Agree(l, w, n) => Agree(FollowerLog(l, a), w, n)
         /\ Accepts(l, a) => Agree(FollowerLog(l, a), w, a.PrevLogIndex + Len(a.Entries))
         /\ LET f == FollowerLog(l, a) IN Agree(f, l, Len(f)) \/ Agree(f, w, Len(f))
<1> DEFINE f == FollowerLog(l, a)
           p == a.PrevLogIndex
           e == a.Entries
           z == Len(e)
<1>1. p \in Nat /\ e \in Seq(LogEntry) /\ z \in Nat /\ Len(l) \in Nat /\ Len(w) \in Nat
  BY SMT DEF AppendEntriesArgs
<1>2. CASE TooShort(l, a)
  <2>1. f = l /\ ~Accepts(l, a)
    BY <1>2 DEF FollowerLog, Accepts, Conflicts
  <2> QED
    BY SMT, <1>1, <2>1 DEF Agree
<1>3. CASE Conflicts(l, a)
  <2>1. f = SubSeq(l, 1, p - 1) /\ ~Accepts(l, a)
    BY <1>3 DEF FollowerLog, Conflicts, Accepts
  <2>2. p <= Len(l) /\ TermAt(l, p) # TermAt(w, p)
    BY SMT, <1>1, <1>3 DEF Conflicts, TooShort
  <2>3. p > 0 /\ l[p].Term # w[p].Term
    BY SMT, <1>1, <2>2 DEF TermAt
  <2>4. f \in Seq(LogEntry) /\ Len(f) = p - 1 /\ \A i \in 1 .. p - 1 : f[i] = l[i]
    BY SMT, <1>1, <2>1, <2>2, <2>3
  <2>5. ASSUME NEW n \in Nat, Agree(l, w, n) PROVE n < p
    BY SMT, <1>1, <2>3, <2>5 DEF Agree
  <2>6. ASSUME NEW n \in Nat, Agree(l, w, n) PROVE Agree(f, w, n)
    <3>1. n < p
      BY <2>5, <2>6
    <3>2. n <= Len(f) /\ \A i \in 1 .. n : i \in 1 .. p - 1
      BY SMT, <1>1, <2>4, <3>1
    <3> QED
      BY <2>4, <2>6, <3>2 DEF Agree
  <2>7. Agree(f, l, Len(f))
    BY SMT, <1>1, <2>2, <2>4 DEF Agree
  <2> QED
    BY <2>1, <2>4, <2>6, <2>7
<1>4. CASE Accepts(l, a)
  <2>1. ~TooShort(l, a) /\ ~Conflicts(l, a) /\ p <= Len(l) /\ TermAt(l, p) = TermAt(w, p)
    BY SMT, <1>1, <1>4 DEF Accepts, Conflicts, TooShort
  <2>2. Agree(l, w, p)
    <3>1. CASE p = 0
      BY SMT, <1>1, <3>1 DEF Agree
    <3>2. CASE p > 0
      <4>1. p \in 1 .. Len(l) /\ p <= Len(w) /\ l[p].Term = w[p].Term
        BY SMT, <1>1, <2>1, <3>2 DEF TermAt
      <4> QED
        BY <4>1, SameEntry
    <3> QED
      BY SMT, <1>1, <3>1, <3>2
  <2>3. CASE e = << >> \/ AlreadyHas(l, a)
    <3>1. f = l
      BY <2>1, <2>3 DEF FollowerLog
    <3>2. Agree(l, w, p + z)
      <4>1. CASE e = << >>
        <5>1. z = 0
          BY SMT, <4>1
        <5> QED
          BY SMT, <1>1, <2>2, <5>1
      <4>2. CASE e # << >> /\ AlreadyHas(l, a)
        <5>1. z \in 1 .. z /\ p + z < Len(l)
          BY SMT, <1>1, <4>2 DEF AlreadyHas
        <5>2. l[p + z].Term = e[z].Term /\ e[z] = w[p + z]
          BY <4>2, <5>1 DEF AlreadyHas
        <5>3. p + z \in 1 .. Len(l) /\ p + z <= Len(w) /\ l[p + z].Term = w[p + z].Term
          BY SMT, <1>1, <5>1, <5>2
        <5> QED
          BY <5>3, SameEntry
      <4> QED
        BY <2>3, <4>1, <4>2
    <3>3. Agree(f, l, Len(f))
      BY SMT, <1>1, <3>1 DEF Agree
    <3> QED
      BY <3>1, <3>2, <3>3
  <2>4. CASE ~(e = << >> \/ AlreadyHas(l, a))
    <3>1. f = SubSeq(l, 1, p) \o e
      BY <2>1, <2>4 DEF FollowerLog
    <3>2. f \in Seq(LogEntry) /\ Len(f) = p + z
      BY SMT, <1>1, <2>1, <3>1
    <3>3. ASSUME NEW i \in 1 .. p + z PROVE f[i] = w[i]
      <4>1. CASE i <= p
        <5>1. f[i] = l[i]
          BY SMT, <1>1, <2>1, <3>1, <4>1
        <5> QED
          BY SMT, <1>1, <2>2, <4>1, <5>1 DEF Agree
      <4>2. CASE i > p
        <5>1. f[i] = e[i - p] /\ i - p \in 1 .. z
          BY SMT, <1>1, <2>1, <3>1, <4>2
        <5>2. e[i - p] = w[p + (i - p)]
          BY <5>1
        <5> QED
          BY SMT, <1>1, <5>1, <5>2
      <4> QED
        BY SMT, <1>1, <4>1, <4>2
    <3>4. Agree(f, w, p + z)
      BY SMT, <1>1, <3>2, <3>3 DEF Agree
    <3>5. ASSUME NEW n \in Nat, Agree(l, w, n) PROVE Agree(f, w, n)
      <4>1. n <= p + z
        <5> SUFFICES ASSUME n > p + z PROVE AlreadyHas(l, a)
          BY SMT, <1>1, <2>4
        <5>1. p + z < Len(l)
          BY SMT, <1>1, <3>5 DEF Agree
        <5>2. ASSUME NEW i \in 1 .. z PROVE l[p + i].Term = e[i].Term
          <6>1. p + i \in 1 .. n
            BY SMT, <1>1
          <6>2. l[p + i] = w[p + i]
            BY <3>5, <6>1 DEF Agree
          <6> QED
            BY <6>2
        <5> QED
          BY <5>1, <5>2 DEF AlreadyHas
      <4> QED
        BY SMT, <1>1, <3>2, <3>4, <4>1 DEF Agree
    <3> QED
      BY <3>2, <3>4, <3>5
  <2> QED
    BY <2>3, <2>4
<1> QED
  BY <1>2, <1>3, <1>4 DEF Accepts

\* Leaders are added; the log of a leader of record grows by entries of its term.
Grows(led, llog, led2, llog2) ==
  /\ led \subseteq led2
  /\ \A t \in Nat : Led(led, t) =>
       /\ Agree(llog[t], llog2[t], Len(llog[t]))
       /\ \A i \in 1 .. Len(llog2[t]) : i > Len(llog[t]) => llog2[t][i].Term = t

\* Who holds a new entry holds it in its term of now.
HeldGrows(held, held2) ==
  /\ held \subseteq held2
  /\ \A x \in held2 : x \in held \/ x[2] = currentTerm'[x[1]]

\* What a leader of record has it keeps, and what it lacks of an earlier term it
\* never gets.
LEMMA GrowsHas ==
  ASSUME NEW led, NEW llog \in [Nat -> Seq(LogEntry)], NEW led2, NEW llog2 \in [Nat -> Seq(LogEntry)],
         Grows(led, llog, led2, llog2), NEW v \in Nat, Led(led, v), NEW t \in Nat, NEW n \in Nat
  PROVE  /\ Has(llog[v], t, n) => Has(llog2[v], t, n)
         /\ v # t /\ ~Has(llog[v], t, n) => ~Has(llog2[v], t, n)
<1>1. /\ Agree(llog[v], llog2[v], Len(llog[v]))
      /\ \A i \in 1 .. Len(llog2[v]) : i > Len(llog[v]) => llog2[v][i].Term = v
  BY DEF Grows
<1>2. llog[v] \in Seq(LogEntry) /\ llog2[v] \in Seq(LogEntry)
  BY LeaderLogType
<1>3. PICK l \in Seq(LogEntry) : l = llog[v]
  BY <1>2
<1>4. PICK k \in Seq(LogEntry) : k = llog2[v]
  BY <1>2
<1>5. Agree(l, k, Len(l)) /\ \A i \in 1 .. Len(k) : i > Len(l) => k[i].Term = v
  BY <1>1, <1>3, <1>4
<1>6. Has(l, t, n) => Has(k, t, n)
  BY <1>5, GrownLog
<1>7. v # t /\ ~Has(l, t, n) => ~Has(k, t, n)
  BY <1>5, GrownLog
<1> QED
  BY <1>3, <1>4, <1>6, <1>7

\* The parts of a history have their types.
HistoryTypes(led, llog, held) ==
  /\ led \subseteq Server \X Nat
  /\ llog \in [Nat -> Seq(LogEntry)]
  /\ held \subseteq Server \X Nat \X Nat

\* The invariants and a history before a step, and the history after it.
Before(led, llog, held) ==
  IInv /\ VoteInvariant /\ MajoritiesIntersect /\ HistoryOK(led, llog, held)

Growth(led, llog, held, led2, llog2, held2) ==
  /\ HistoryTypes(led2, llog2, held2)
  /\ Grows(led, llog, led2, llog2)
  /\ HeldGrows(held, held2)

\* An entry that was held names a server, a term and an index; so does a leader.
LEMMA HeldType ==
  ASSUME NEW led, NEW llog, NEW held, HistoryTypes(led, llog, held)
  PROVE  /\ \A x \in held : x[1] \in Server /\ x[2] \in Nat /\ x[3] \in Nat /\ x = <<x[1], x[2], x[3]>>
         /\ \A e \in led : e[1] \in Server /\ e[2] \in Nat /\ e = <<e[1], e[2]>>
<1>1. \A x \in Server \X Nat \X Nat : x[1] \in Server /\ x[2] \in Nat /\ x[3] \in Nat /\ x = <<x[1], x[2], x[3]>>
  BY SMT
<1>2. \A e \in Server \X Nat : e[1] \in Server /\ e[2] \in Nat /\ e = <<e[1], e[2]>>
  BY SMT
<1> QED
  BY <1>1, <1>2 DEF HistoryTypes

\* What somebody held was led.
LEMMA HeldIsLed ==
  ASSUME NEW led, NEW llog, NEW held, HistoryOK(led, llog, held), NEW x \in held
  PROVE  /\ Led(led, x[2]) /\ Has(llog[x[2]], x[2], x[3])
         /\ x[1] \in Server /\ x[2] \in Nat /\ x[3] \in Nat
<1>1. x[1] \in Server /\ x[2] \in Nat /\ x[3] \in Nat /\ llog \in [Nat -> Seq(LogEntry)]
  BY HeldType DEF HistoryTypes, HistoryOK
<1>2. Has(llog[x[2]], x[2], x[3])
  BY DEF HistoryOK, HeldIsKept
<1>3. x[2] \in DOMAIN llog
  BY <1>1
<1>4. FromLeaders(led, llog, llog[x[2]])
  BY <1>3 DEF HistoryOK, LogsFromLeaders
<1>5. Led(led, llog[x[2]][x[3]].Term)
  BY <1>2, <1>4 DEF FromLeaders, Has
<1> QED
  BY <1>1, <1>2, <1>5 DEF Has

\* A step that makes no request: rounds and goroutines go on, start again or
\* end, and a request whose caller no longer waits was one before.
CallsGoOn ==
  /\ \A k \in DOMAIN rounds' :
       k \in DOMAIN rounds /\ rounds'[k] = [rounds[k] EXCEPT !.replicated = rounds'[k].replicated]
  /\ \A g \in appendCalls' : \E h \in appendCalls :
       /\ g.round = h.round /\ g.peer = h.peer
       /\ g.pc # "ready" => h.pc # "ready" /\ g.args = h.args
  /\ \A m \in lateAppends' :
       m \in lateAppends \/ \E h \in appendCalls : h.pc # "ready" /\ m.to = h.peer /\ m.args = h.args

\* Steps that leave the goroutines of sendHeartbeat alone.
LEMMA CallsStay ==
  ASSUME IInv, UNCHANGED replication
  PROVE  CallsGoOn
<1>1. \A k \in DOMAIN rounds : rounds[k] = [rounds[k] EXCEPT !.replicated = rounds[k].replicated]
  BY DEF IInv, TypeOK, Round
<1> QED
  BY <1>1 DEF replication, CallsGoOn

\* Steps after which some of the rounds go on, unchanged.
LEMMA CallsRun ==
  ASSUME IInv, NEW calls, rounds' = Running(rounds, calls), {g.round : g \in calls} \subseteq DOMAIN rounds
  PROVE  \A k \in DOMAIN rounds' :
           k \in DOMAIN rounds /\ rounds'[k] = [rounds[k] EXCEPT !.replicated = rounds'[k].replicated]
<1>1. \A k \in DOMAIN rounds : rounds[k] = [rounds[k] EXCEPT !.replicated = rounds[k].replicated]
  BY DEF IInv, TypeOK, Round
<1>2. \A k \in DOMAIN rounds' : k \in DOMAIN rounds /\ rounds'[k] = rounds[k]
  BY RunningKeeps
<1> QED
  BY <1>1, <1>2

\* A goroutine that goes on as h, or ends.
LEMMA OneCallGoesOn ==
  ASSUME IInv, NEW g \in appendCalls, NEW h, appendCalls' \subseteq (appendCalls \ {g}) \cup {h},
         h.round = g.round, h.peer = g.peer, h.pc # "ready" => g.pc # "ready" /\ h.args = g.args,
         \A k \in DOMAIN rounds' :
           k \in DOMAIN rounds /\ rounds'[k] = [rounds[k] EXCEPT !.replicated = rounds'[k].replicated],
         \A m \in lateAppends' : \/ m \in lateAppends
                                 \/ g.pc # "ready" /\ m.to = g.peer /\ m.args = g.args
  PROVE  CallsGoOn
BY DEF CallsGoOn

\* The steps of a goroutine after it has sent its request.
LEMMA SentCallsGoOn ==
  ASSUME IInv, NEW g \in appendCalls,
         DeliverAppendEntries(g) \/ AppendEntriesReturns(g) \/ AppendEntriesFails(g)
  PROVE  CallsGoOn
<1>1. g \in AppendCall /\ g.round \in DOMAIN rounds
  BY DEF IInv, TypeOK
<1>2. \A x \in appendCalls : x.round \in DOMAIN rounds
  BY DEF IInv, TypeOK
<1>3. Again(g).round = g.round /\ Again(g).peer = g.peer /\ Again(g).pc = "ready"
  BY <1>1 DEF Again, AppendCall
<1>4. \A k \in DOMAIN rounds : rounds[k] = [rounds[k] EXCEPT !.replicated = rounds[k].replicated]
  BY DEF IInv, TypeOK, Round
<1>5. CASE DeliverAppendEntries(g)
  <2> DEFINE h == [g EXCEPT !.pc = "replied", !.reply = AppendEntriesAnswer(g.peer, g.args)]
  <2>1. h.round = g.round /\ h.peer = g.peer /\ h.args = g.args /\ g.pc # "ready"
    BY <1>1, <1>5 DEF DeliverAppendEntries, AppendCall
  <2>2. appendCalls' = (appendCalls \ {g}) \cup {h} /\ rounds' = rounds /\ lateAppends' = lateAppends
    BY <1>5 DEF DeliverAppendEntries
  <2> HIDE DEF h
  <2> QED
    BY <1>4, <2>1, <2>2, OneCallGoesOn
<1>6. CASE AppendEntriesFails(g)
  <2>1. g.pc # "ready"
    BY <1>6 DEF AppendEntriesFails
  <2>2. appendCalls' \subseteq (appendCalls \ {g}) \cup {Again(g)}
    BY <1>6 DEF AppendEntriesFails
  <2>3. {x.round : x \in appendCalls'} \subseteq DOMAIN rounds
    BY <1>1, <1>2, <1>3, <2>2
  <2>4. rounds' = Running(rounds, appendCalls')
    BY <1>6 DEF AppendEntriesFails
  <2>5. \A k \in DOMAIN rounds' :
           k \in DOMAIN rounds /\ rounds'[k] = [rounds[k] EXCEPT !.replicated = rounds'[k].replicated]
    BY <2>3, <2>4, CallsRun
  <2>6. \A m \in lateAppends' : m \in lateAppends \/ m = [to |-> g.peer, args |-> g.args]
    BY <1>6 DEF AppendEntriesFails
  <2>7. \A m \in lateAppends' : m \in lateAppends \/ (m.to = g.peer /\ m.args = g.args)
    BY SMT, <2>6
  <2> QED
    BY <1>3, <2>1, <2>2, <2>5, <2>7, OneCallGoesOn
<1>7. CASE AppendEntriesReturns(g)
  <2> DEFINE rest == appendCalls \ {g}
             rs == [rounds EXCEPT ![g.round].replicated = @ \cup {g.peer}]
  <2>1. appendCalls' \subseteq rest \cup {Again(g)} /\ lateAppends' = lateAppends
    BY <1>7 DEF AppendEntriesReturns
  <2>2. \/ rounds' = rounds \/ rounds' = Running(rounds, rest) \/ rounds' = Running(rs, rest)
    BY <1>7 DEF AppendEntriesReturns
  <2>3. {x.round : x \in rest} \subseteq DOMAIN rounds
    BY <1>2
  <2>4. ASSUME NEW k \in DOMAIN rounds'
        PROVE  k \in DOMAIN rounds /\ rounds'[k] = [rounds[k] EXCEPT !.replicated = rounds'[k].replicated]
    <3>1. CASE rounds' = rounds
      BY <1>4, <3>1
    <3>2. CASE rounds' = Running(rounds, rest)
      BY <2>3, <3>2, CallsRun
    <3>3. CASE rounds' = Running(rs, rest)
      <4>1. DOMAIN rs = DOMAIN rounds
        OBVIOUS
      <4>2. PICK q : q = rs
        OBVIOUS
      <4>3. k \in DOMAIN q /\ rounds'[k] = q[k]
        <5>1. /\ {x.round : x \in rest} \subseteq DOMAIN q /\ rounds' = Running(q, rest)
          BY <2>3, <3>3, <4>1, <4>2
        <5> QED
          BY <5>1, RunningKeeps
      <4>4. rounds[k] \in Round
        BY <4>1, <4>3, <4>2 DEF IInv, TypeOK
      <4>5. q[k] = [rounds[k] EXCEPT !.replicated = q[k].replicated]
        BY <4>1, <4>3, <4>4, <4>2 DEF Round
      <4> QED
        BY <4>1, <4>3, <4>5, <4>2
    <3> QED
      BY <2>2, <3>1, <3>2, <3>3
  <2> HIDE DEF rs
  <2> QED
    BY <1>3, <2>1, <2>4, OneCallGoesOn
<1> QED
  BY <1>5, <1>6, <1>7

\* A goroutine that finds its server no longer leads returns.
LEMMA IdleCallGoesOn ==
  ASSUME IInv, NEW g \in appendCalls, sendAppendEntries(g), ~StillLeads(rounds[g.round])
  PROVE  CallsGoOn
<1>1. appendCalls' = appendCalls \ {g} /\ rounds' = Running(rounds, appendCalls') /\ lateAppends' = lateAppends
  BY DEF sendAppendEntries
<1>2. {x.round : x \in appendCalls'} \subseteq DOMAIN rounds
  BY <1>1 DEF IInv, TypeOK
<1>3. \A k \in DOMAIN rounds' :
           k \in DOMAIN rounds /\ rounds'[k] = [rounds[k] EXCEPT !.replicated = rounds'[k].replicated]
  BY <1>1, <1>2, CallsRun
<1> QED
  BY <1>1, <1>3 DEF CallsGoOn

\* A restart ends the goroutines of its server.
LEMMA RebootCallsGoOn ==
  ASSUME IInv, NEW s \in Server, NEW p, Reboot(s, p),
         lateAppends' \subseteq lateAppends \cup AppendsUnderWay(s)
  PROVE  CallsGoOn
<1>1. /\ appendCalls' \subseteq appendCalls /\ rounds' = Running(rounds, appendCalls')
  BY DEF Reboot
<1>2. {x.round : x \in appendCalls'} \subseteq DOMAIN rounds
  BY <1>1 DEF IInv, TypeOK
<1>3. \A k \in DOMAIN rounds' :
           k \in DOMAIN rounds /\ rounds'[k] = [rounds[k] EXCEPT !.replicated = rounds'[k].replicated]
  BY <1>1, <1>2, CallsRun
<1>4. \A m \in AppendsUnderWay(s) : \E h \in appendCalls : h.pc # "ready" /\ m.to = h.peer /\ m.args = h.args
  BY SMT DEF AppendsUnderWay
<1> QED
  BY <1>1, <1>3, <1>4 DEF CallsGoOn

\* The history after a step, and how it comes from the one before.
Follows(led, llog, held, led2, llog2, held2) ==
  HistoryOK(led2, llog2, held2)' /\ Growth(led, llog, held, led2, llog2, held2)

\* What AppendEntries does to the log of the receiver of a slice of the log of a
\* leader.
LEMMA AppendedLog ==
  ASSUME NEW led, NEW llog, NEW held, Before(led, llog, held), NEW i \in Server,
         NEW a \in AppendEntriesArgs, SliceOK(led, llog, i, a), NEW f, f = FollowerLog(log[i], a)
  PROVE  /\ f \in Seq(LogEntry)
         /\ FromLeaders(led, llog, f)
         /\ \A n \in Nat : Agree(log[i], llog[a.Term], n) => Agree(f, llog[a.Term], n)
         /\ Accepts(log[i], a) => Agree(f, llog[a.Term], a.PrevLogIndex + Len(a.Entries))
         /\ Agree(f, log[i], Len(f)) \/ Agree(f, llog[a.Term], Len(f))
<1>1. PICK l \in Seq(LogEntry) : l = log[i]
  BY DEF Before, IInv, TypeOK
<1>2. PICK u \in Nat : u = a.Term
  BY DEF AppendEntriesArgs
<1>3. llog \in [Nat -> Seq(LogEntry)] /\ LogsFromLeaders(led, llog)
  BY DEF Before, HistoryOK
<1>4. PICK w \in Seq(LogEntry) : w = llog[u]
  BY <1>3
<1>5. FromLeaders(led, llog, l)
  BY <1>1, <1>3 DEF LogsFromLeaders
<1>6. FromLeaders(led, llog, w)
  <2>1. u \in DOMAIN llog
    BY <1>3
  <2> QED
    BY <1>3, <1>4, <2>1 DEF LogsFromLeaders
<1>7. /\ a.PrevLogIndex + Len(a.Entries) <= Len(w)
      /\ a.PrevLogTerm = TermAt(w, a.PrevLogIndex)
      /\ \A j \in 1 .. Len(a.Entries) : a.Entries[j] = w[a.PrevLogIndex + j]
  BY <1>2, <1>4 DEF SliceOK
<1>8. /\ f \in Seq(LogEntry)
      /\ \A n \in Nat : Agree(l, w, n) => Agree(f, w, n)
      /\ Accepts(l, a) => Agree(f, w, a.PrevLogIndex + Len(a.Entries))
      /\ Agree(f, l, Len(f)) \/ Agree(f, w, Len(f))
  <2>1. f = FollowerLog(l, a)
    BY <1>1
  <2> QED
    BY <1>5, <1>6, <1>7, <2>1, FollowerLogAgrees
<1>9. FromLeaders(led, llog, f)
  BY <1>3, <1>5, <1>6, <1>8, FromLeadersPrefix
<1> QED
  BY <1>1, <1>2, <1>4, <1>8, <1>9

\* A log grows by an entry.
LEMMA AppendedEntry ==
  ASSUME NEW l \in Seq(LogEntry), NEW e \in LogEntry, NEW k, k = Append(l, e)
  PROVE  /\ k \in Seq(LogEntry) /\ Len(k) = Len(l) + 1 /\ Agree(l, k, Len(l))
         /\ \A i \in 1 .. Len(k) : i > Len(l) => k[i] = e
<1>1. k \in Seq(LogEntry) /\ Len(k) = Len(l) + 1
  BY SMT
<1>2. \A i \in 1 .. Len(l) : k[i] = l[i]
  BY SMT
<1>3. k[Len(l) + 1] = e
  BY SMT
<1> QED
  BY SMT, <1>1, <1>2, <1>3 DEF Agree

=============================================================================
