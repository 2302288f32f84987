------------------------- MODULE RaftHistoryProofs --------------------------
(***************************************************************************)
(* Without late vote requests every step leads from a history of leaders,  *)
(* their logs and the entries held that is right (HistoryOK) to one that   *)
(* is.                                                                     *)
(***************************************************************************)
EXTENDS RaftProofs

USE Zenon

-----------------------------------------------------------------------------
(* Logs that agree *)

\* The type of an entry of a log.
LEMMA EntryType ==
  ASSUME NEW l \in Seq(LogEntry), NEW i \in 1 .. Len(l)
  PROVE  l[i] \in LogEntry /\ l[i].Term \in Nat /\ l[i].Command \in Command
<1>1. l[i] \in LogEntry
  BY SMT
<1> QED
  BY <1>1 DEF LogEntry

\* What a log has, one that agrees with it that far has too.
LEMMA HasAgree ==
  ASSUME NEW l \in Seq(LogEntry), NEW k \in Seq(LogEntry), NEW n \in Nat, NEW m \in Nat, m <= n,
         Agree(l, k, n), NEW t
  PROVE  Has(l, t, m) <=> Has(k, t, m)
BY SMT DEF Agree, Has

\* Agreement is transitive.
LEMMA AgreeTrans ==
  ASSUME NEW l \in Seq(LogEntry), NEW k \in Seq(LogEntry), NEW w \in Seq(LogEntry),
         NEW n \in Nat, NEW m \in Nat, n <= m, Agree(l, k, n), Agree(k, w, m)
  PROVE  Agree(l, w, n)
BY SMT DEF Agree

-----------------------------------------------------------------------------
(* A history that grows *)

\* A history grows into itself.
LEMMA GrowsNot ==
  ASSUME NEW led, NEW llog \in [Nat -> Seq(LogEntry)]
  PROVE  Grows(led, llog, led, llog)
<1>1. \A t \in Nat : llog[t] \in Seq(LogEntry) /\ Len(llog[t]) \in Nat
  BY SMT
<1> QED
  BY SMT, <1>1 DEF Grows, Agree

\* A log from leaders stays one.
LEMMA GrowsFrom ==
  ASSUME NEW led, NEW llog \in [Nat -> Seq(LogEntry)], NEW led2, NEW llog2 \in [Nat -> Seq(LogEntry)],
         Grows(led, llog, led2, llog2), NEW l \in Seq(LogEntry), FromLeaders(led, llog, l)
  PROVE  FromLeaders(led2, llog2, l)
<1> SUFFICES ASSUME NEW i \in 1 .. Len(l)
             PROVE  Led(led2, l[i].Term) /\ Agree(l, llog2[l[i].Term], i)
  BY DEF FromLeaders
<1>1. PICK t \in Nat : t = l[i].Term
  BY EntryType
<1>2. Led(led, t) /\ Agree(l, llog[t], i)
  BY <1>1 DEF FromLeaders
<1>3. Agree(llog[t], llog2[t], Len(llog[t])) /\ Led(led2, t)
  BY <1>2 DEF Grows, Led
<1>4. llog[t] \in Seq(LogEntry) /\ Len(llog[t]) \in Nat /\ llog2[t] \in Seq(LogEntry)
  BY LeaderLogType
<1>5. i \in Nat /\ i <= Len(llog[t])
  BY SMT, <1>2 DEF Agree
<1>6. Agree(l, llog2[t], i)
  BY <1>2, <1>3, <1>4, <1>5, AgreeTrans
<1> QED
  BY <1>1, <1>3, <1>6

\* Kept survives growth, a later term, and a log that has as much.
LEMMA GrowsKept ==
  ASSUME NEW led, NEW llog \in [Nat -> Seq(LogEntry)], NEW led2, NEW llog2 \in [Nat -> Seq(LogEntry)],
         Grows(led, llog, led2, llog2), NEW t \in Nat, NEW n \in Nat, NEW u \in Nat, NEW u2 \in Nat,
         u <= u2, NEW l, NEW k, Has(l, t, n) => Has(k, t, n), Kept(led, llog, l, u, t, n)
  PROVE  Kept(led2, llog2, k, u2, t, n)
<1>1. CASE Has(l, t, n)
  BY <1>1 DEF Kept
<1>2. ASSUME NEW v \in (t + 1) .. u, Led(led, v), ~Has(llog[v], t, n)
      PROVE  Kept(led2, llog2, k, u2, t, n)
  <2>1. v \in Nat /\ v # t /\ v \in (t + 1) .. u2
    BY SMT
  <2>2. ~Has(llog2[v], t, n)
    BY <1>2, <2>1, GrowsHas
  <2>3. Led(led2, v)
    BY <1>2 DEF Grows, Led
  <2> QED
    BY <2>1, <2>2, <2>3 DEF Kept
<1> QED
  BY <1>1, <1>2 DEF Kept

\* A place in a slice that fits is a place in the log.
LEMMA SumInRange ==
  ASSUME NEW n \in Nat, NEW z \in Nat, NEW m \in Nat, n + z <= m, NEW j \in 1 .. z
  PROVE  n + j \in 1 .. m
BY SMT

\* A request stays a slice, unless its receiver comes to lead its term.
LEMMA GrowsSlice ==
  ASSUME NEW led, NEW llog \in [Nat -> Seq(LogEntry)], NEW led2, NEW llog2 \in [Nat -> Seq(LogEntry)],
         Grows(led, llog, led2, llog2), NEW p, NEW a \in AppendEntriesArgs,
         SliceOK(led, llog, p, a), <<p, a.Term>> \notin led2
  PROVE  SliceOK(led2, llog2, p, a)
<1> DEFINE t == a.Term
           n == a.PrevLogIndex
           z == Len(a.Entries)
<1>1. t \in Nat /\ n \in Nat /\ z \in Nat /\ a.Entries \in Seq(LogEntry)
  BY SMT DEF AppendEntriesArgs
<1>2. /\ Led(led, t) /\ n + z <= Len(llog[t]) /\ a.PrevLogTerm = TermAt(llog[t], n)
      /\ \A j \in 1 .. z : a.Entries[j] = llog[t][n + j]
  BY DEF SliceOK
<1>3. /\ Agree(llog[t], llog2[t], Len(llog[t])) /\ Led(led2, t)
      /\ \A i \in 1 .. Len(llog2[t]) : i > Len(llog[t]) => llog2[t][i].Term = t
  BY <1>1, <1>2 DEF Grows, Led
<1>4. /\ llog[t] \in Seq(LogEntry) /\ llog2[t] \in Seq(LogEntry)
      /\ Len(llog[t]) \in Nat /\ Len(llog2[t]) \in Nat
  BY <1>1, LeaderLogType
<1> HIDE DEF t, n, z
<1>5. \A i \in 1 .. Len(llog[t]) : i <= Len(llog2[t]) /\ llog[t][i] = llog2[t][i]
  <2>1. PICK l \in Seq(LogEntry), k \in Seq(LogEntry) : l = llog[t] /\ k = llog2[t]
    BY <1>4
  <2>2. Agree(l, k, Len(l)) /\ \A i \in 1 .. Len(k) : i > Len(l) => k[i].Term = t
    BY <1>3, <2>1
  <2>3. \A i \in 1 .. Len(l) : i <= Len(k) /\ l[i] = k[i]
    BY <1>1, <2>2, GrownLog
  <2> QED
    BY <2>1, <2>3
<1>6. n + z <= Len(llog2[t])
  BY SMT, <1>1, <1>2, <1>3, <1>4 DEF Agree
<1>7. TermAt(llog[t], n) = TermAt(llog2[t], n)
  <2>1. CASE n = 0
    BY <2>1 DEF TermAt
  <2>2. CASE n # 0
    <3>1. n \in 1 .. Len(llog[t])
      BY SMT, <1>1, <1>2, <1>4, <2>2
    <3> QED
      BY <1>5, <2>2, <3>1 DEF TermAt
  <2> QED
    BY <2>1, <2>2
<1>8. ASSUME NEW j \in 1 .. z PROVE a.Entries[j] = llog2[t][n + j]
  <2>1. n + j \in 1 .. Len(llog[t])
    <3>1. PICK m \in Nat : m = Len(llog[t])
      BY <1>4
    <3>2. n + z <= m
      BY <1>2, <3>1
    <3>3. n + j \in 1 .. m
      BY <1>1, <3>2, SumInRange
    <3> QED
      BY <3>1, <3>3
  <2> QED
    BY <1>2, <1>5, <2>1
<1> QED
  BY <1>2, <1>3, <1>6, <1>7, <1>8 DEF SliceOK, t, n, z

-----------------------------------------------------------------------------
(* What a step does to the history *)

\* Who voted in term u holds nothing new of an earlier term, so what is covered
\* stays covered.
LEMMA GrowsCovers ==
  ASSUME NEW led, NEW llog, NEW held, NEW led2, NEW llog2, NEW held2,
         HistoryTypes(led, llog, held), Growth(led, llog, held, led2, llog2, held2),
         NEW p \in Server, NEW u \in Nat, NEW v \in Nat, NEW v2 \in Nat, v <= v2,
         NEW l, NEW k, \A t, n \in Nat : Has(l, t, n) => Has(k, t, n),
         currentTerm'[p] \in Nat, currentTerm'[p] >= u,
         Covers(led, llog, held, p, u, l, v)
  PROVE  Covers(led2, llog2, held2, p, u, k, v2)
<1> SUFFICES ASSUME NEW x \in held2, x[1] = p, x[2] < u
             PROVE  Kept(led2, llog2, k, v2, x[2], x[3])
  BY DEF Covers
<1>1. x[2] \in Nat /\ x[3] \in Nat
  BY HeldType DEF Growth
<1>2. x \in held
  BY SMT, <1>1 DEF Growth, HeldGrows
<1>3. Kept(led, llog, l, v, x[2], x[3])
  BY <1>2 DEF Covers
<1>4. /\ llog \in [Nat -> Seq(LogEntry)] /\ llog2 \in [Nat -> Seq(LogEntry)]
      /\ Grows(led, llog, led2, llog2)
  BY DEF HistoryTypes, Growth
<1>5. Has(l, x[2], x[3]) => Has(k, x[2], x[3])
  BY <1>1
<1>6. PICK t \in Nat : t = x[2]
  BY <1>1
<1>7. PICK n \in Nat : n = x[3]
  BY <1>1
<1>8. Kept(led, llog, l, v, t, n) /\ (Has(l, t, n) => Has(k, t, n))
  BY <1>3, <1>5, <1>6, <1>7
<1>9. Kept(led2, llog2, k, v2, t, n)
  BY <1>4, <1>8, GrowsKept
<1> QED
  BY <1>6, <1>7, <1>9

\* A leader of record goes on covering what its voters held.
LEMMA LeaderGoesOn ==
  ASSUME NEW led, NEW llog, NEW held, NEW led2, NEW llog2, NEW held2,
         Before(led, llog, held), Growth(led, llog, held, led2, llog2, held2),
         IInv', \A s \in Server : VoteMoves(s), granted \subseteq granted', NEW e \in led
  PROVE  \E Q \in SUBSET Server :
           /\ Majority(Cardinality(Q))
           /\ \A p \in Q : /\ <<e[1], e[2], p>> \in granted'
                           /\ Covers(led2, llog2, held2, p, e[2], llog2[e[2]], e[2] - 1)
<1>1. /\ HistoryTypes(led, llog, held) /\ LeadersCover(led, llog, held)
      /\ LogsFromLeaders(led, llog)
  BY DEF Before, HistoryOK, HistoryTypes
<1>2. PICK Q \in SUBSET Server :
           /\ Majority(Cardinality(Q))
           /\ \A p \in Q : /\ <<e[1], e[2], p>> \in granted
                           /\ Covers(led, llog, held, p, e[2], llog[e[2]], e[2] - 1)
  BY <1>1 DEF LeadersCover
<1>3. e[1] \in Server /\ e[2] \in Nat /\ e = <<e[1], e[2]>>
  BY <1>1, HeldType
<1>4. PICK u \in Nat : u = e[2]
  BY <1>3
<1>5. Led(led, u)
  BY <1>3, <1>4 DEF Led
<1>6. /\ llog \in [Nat -> Seq(LogEntry)] /\ llog2 \in [Nat -> Seq(LogEntry)]
      /\ Grows(led, llog, led2, llog2)
  BY <1>1 DEF HistoryTypes, Growth
<1>7. \A t, n \in Nat : Has(llog[u], t, n) => Has(llog2[u], t, n)
  BY <1>5, <1>6, GrowsHas
<1>8. ASSUME NEW p \in Q
      PROVE  Covers(led2, llog2, held2, p, u, llog2[u], u - 1)
  <2>1. <<e[1], e[2], p>> \in Votes
    BY <1>2 DEF Votes
  <2>2. currentTerm[p] \in Nat /\ currentTerm'[p] \in Nat /\ currentTerm'[p] >= currentTerm[p]
    BY DEF Before, IInv, TypeOK, VoteMoves
  <2>3. currentTerm[p] > u \/ currentTerm[p] = u
    BY <1>4, <2>1 DEF Before, VoteInvariant, VotesBind
  <2>4. currentTerm'[p] >= u
    BY SMT, <2>2, <2>3
  <2>5. CASE u = 0
    <3>1. ASSUME NEW x \in held2 PROVE ~(x[2] < 0)
      <4>1. x[2] \in Nat
        BY HeldType DEF Growth
      <4> QED
        BY SMT, <4>1
    <3> QED
      BY <2>5, <3>1 DEF Covers
  <2>6. CASE u > 0
    <3>1. PICK v \in Nat : v = u - 1
      BY SMT, <2>6
    <3>2. Covers(led, llog, held, p, u, llog[u], v) /\ v <= v
      <4>1. Covers(led, llog, held, p, e[2], llog[e[2]], e[2] - 1)
        BY <1>2
      <4>2. Covers(led, llog, held, p, u, llog[u], v)
        BY <1>4, <3>1, <4>1
      <4> QED
        BY SMT, <4>2
    <3>3. Covers(led2, llog2, held2, p, u, llog2[u], v)
      BY SMT, <1>1, <1>7, <2>2, <2>4, <3>2, GrowsCovers
    <3> QED
      BY <3>1, <3>3
  <2> QED
    BY SMT, <2>5, <2>6
<1> QED
  BY <1>2, <1>8, <1>4

\* What the servers hold of their current terms.
NowHeld == {x \in Server \X Nat \X Nat : x[2] = currentTerm[x[1]] /\ Has(log[x[1]], x[2], x[3])}

\* The history after a step holds what was held and what is held now.
LEMMA GrowthHolds ==
  ASSUME NEW led, NEW llog, NEW held, NEW led2, NEW llog2, NEW held2,
         Before(led, llog, held), Grows(led, llog, led2, llog2),
         led2 \subseteq Server \X Nat, llog2 \in [Nat -> Seq(LogEntry)], held2 = held \cup NowHeld'
  PROVE  Growth(led, llog, held, led2, llog2, held2)
<1>1. held2 \subseteq Server \X Nat \X Nat
  BY DEF Before, HistoryOK, NowHeld
<1>2. HeldGrows(held, held2)
  BY DEF HeldGrows, NowHeld
<1> QED
  BY <1>1, <1>2 DEF Growth, HistoryTypes

\* What was held in a log from leaders is kept, and what is held now is there.
LEMMA HeldGoesOn ==
  ASSUME NEW led, NEW llog, NEW held, NEW led2, NEW llog2, NEW held2,
         Before(led, llog, held), Growth(led, llog, held, led2, llog2, held2),
         held2 = held \cup NowHeld', IInv', \A s \in Server : VoteMoves(s),
         LogsFromLeaders(led2, llog2)',
         \A x \in held : Has(log[x[1]], x[2], x[3]) =>
           Kept(led2, llog2, log'[x[1]], currentTerm'[x[1]], x[2], x[3])
  PROVE  HeldIsKept(led2, llog2, held2)'
<1>1. /\ \A s \in Server : currentTerm[s] \in Nat /\ currentTerm'[s] \in Nat /\ currentTerm'[s] >= currentTerm[s]
      /\ \A s \in Server : log'[s] \in Seq(LogEntry)
  BY DEF Before, IInv, TypeOK, VoteMoves
<1>2. ASSUME NEW s \in Server, NEW n \in 1 .. Len(log'[s]), log'[s][n].Term = currentTerm'[s]
      PROVE  <<s, currentTerm'[s], n>> \in held2
  <2>1. <<s, currentTerm'[s], n>> \in Server \X Nat \X Nat
    BY SMT, <1>1
  <2>2. Has(log'[s], currentTerm'[s], n)
    BY <1>2 DEF Has
  <2> QED
    BY <2>1, <2>2 DEF NowHeld
<1>3. ASSUME NEW x \in held2
      PROVE  /\ x[2] <= currentTerm'[x[1]]
             /\ Has(llog2[x[2]], x[2], x[3])
             /\ Kept(led2, llog2, log'[x[1]], currentTerm'[x[1]], x[2], x[3])
  <2>1. x[1] \in Server /\ x[2] \in Nat /\ x[3] \in Nat
    BY HeldType DEF Growth
  <2>2. PICK p \in Server : p = x[1]
    BY <2>1
  <2>3. PICK t \in Nat : t = x[2]
    BY <2>1
  <2>4. PICK n \in Nat : n = x[3]
    BY <2>1
  <2>5. /\ llog \in [Nat -> Seq(LogEntry)] /\ llog2 \in [Nat -> Seq(LogEntry)]
        /\ Grows(led, llog, led2, llog2)
    BY DEF Before, HistoryOK, Growth, HistoryTypes
  <2>6. CASE x \in held
    <3>1. t <= currentTerm[p] /\ Kept(led, llog, log[p], currentTerm[p], t, n)
      BY <2>6, <2>2, <2>3, <2>4 DEF Before, HistoryOK, HeldIsKept
    <3>2. Led(led, t) /\ Has(llog[t], t, n)
      BY <2>6, <2>3, <2>4, HeldIsLed DEF Before
    <3>3. Has(llog2[t], t, n)
      BY <2>5, <3>2, GrowsHas
    <3>4. t <= currentTerm'[p]
      BY SMT, <1>1, <3>1
    <3>5. CASE Has(log[p], t, n)
      BY <2>2, <2>3, <2>4, <2>6, <3>4, <3>3, <3>5
    <3>6. CASE ~Has(log[p], t, n)
      <4>1. PICK u \in Nat : u = currentTerm[p]
        BY <1>1
      <4>2. PICK v \in Nat : v = currentTerm'[p]
        BY <1>1
      <4>3. u <= v
        BY <1>1, <4>1, <4>2
      <4>4. /\ Kept(led, llog, log[p], u, t, n)
            /\ Has(log[p], t, n) => Has(log'[p], t, n)
        BY <3>1, <3>6, <4>1
      <4>5. PICK l : l = log[p]
        OBVIOUS
      <4>6. PICK k : k = log'[p]
        OBVIOUS
      <4>7. Kept(led2, llog2, k, v, t, n)
        BY <2>5, <4>3, <4>4, <4>5, <4>6, GrowsKept
      <4> QED
        BY <2>2, <2>3, <2>4, <3>4, <3>3, <4>2, <4>7, <4>6
    <3> QED
      BY <3>5, <3>6
  <2>7. CASE x \in NowHeld'
    <3>1. t = currentTerm'[p] /\ Has(log'[p], t, n)
      BY <2>7, <2>2, <2>3, <2>4 DEF NowHeld
    <3>2. FromLeaders(led2, llog2, log'[p])
      BY DEF LogsFromLeaders
    <3>3. PICK l \in Seq(LogEntry) : l = log'[p]
      BY <1>1
    <3>4. PICK k \in Seq(LogEntry) : k = llog2[t]
      BY <2>5
    <3>5. Agree(l, k, n)
      BY <3>1, <3>2, <3>3, <3>4 DEF FromLeaders, Has
    <3>6. Has(k, t, n)
      BY SMT, <3>1, <3>5, <3>3 DEF Agree, Has
    <3> QED
      BY SMT, <1>1, <2>2, <2>3, <2>4, <3>1, <3>4, <3>6 DEF Kept
  <2> QED
    BY <2>6, <2>7
<1> QED
  BY <1>2, <1>3 DEF HeldIsKept

-----------------------------------------------------------------------------
(* Steps in which nobody becomes leader and no leader adds to its log *)

\* What the history says of the servers.
ServersOK(led, llog, held) ==
  /\ LogsFromLeaders(led, llog) /\ LeadersOnRecord(led, llog)
  /\ HeldIsKept(led, llog, held) /\ LeadersCover(led, llog, held)

\* A leader goes on as it is; a candidate goes on, or stands in a new term.
CalmMoves(s) ==
  /\ state'[s] = LEADER =>
       state[s] = LEADER /\ currentTerm'[s] = currentTerm[s] /\ log'[s] = log[s]
  /\ state'[s] = CANDIDATE =>
       currentTerm'[s] > currentTerm[s] \/ (state[s] = CANDIDATE /\ currentTerm'[s] = currentTerm[s])

\* Then the record of the leaders stands, and what was held is kept.
LEMMA CalmServers ==
  ASSUME NEW led, NEW llog, NEW held, NEW held2, Before(led, llog, held),
         held2 = held \cup NowHeld', IInv', granted \subseteq granted',
         \A s \in Server : VoteMoves(s) /\ CalmMoves(s) /\ FromLeaders(led, llog, log'[s]),
         \A x \in held : Has(log[x[1]], x[2], x[3]) =>
           Kept(led, llog, log'[x[1]], currentTerm'[x[1]], x[2], x[3])
  PROVE  Growth(led, llog, held, led, llog, held2) /\ ServersOK(led, llog, held2)'
<1>1. /\ led \subseteq Server \X Nat /\ llog \in [Nat -> Seq(LogEntry)]
      /\ LogsFromLeaders(led, llog) /\ LeadersOnRecord(led, llog)
  BY DEF Before, HistoryOK
<1>2. Growth(led, llog, held, led, llog, held2)
  BY <1>1, GrowsNot, GrowthHolds
<1>3. LogsFromLeaders(led, llog)'
  BY <1>1 DEF LogsFromLeaders
<1>4. LeadersOnRecord(led, llog)'
  <2>1. \A s \in Server : state'[s] = LEADER => /\ <<s, currentTerm'[s]>> \in led
                                                /\ llog[currentTerm'[s]] = log'[s]
    BY <1>1 DEF LeadersOnRecord, CalmMoves
  <2>2. ASSUME NEW e \in led
        PROVE  /\ e[2] <= currentTerm'[e[1]]
               /\ e[2] = currentTerm'[e[1]] => state'[e[1]] # CANDIDATE
    <3>1. e[1] \in Server /\ e[2] \in Nat
      BY <1>1
    <3>2. currentTerm[e[1]] \in Nat /\ currentTerm'[e[1]] \in Nat
      BY <3>1 DEF Before, IInv, TypeOK
    <3>3. e[2] <= currentTerm[e[1]] /\ (e[2] = currentTerm[e[1]] => state[e[1]] # CANDIDATE)
      BY <1>1 DEF LeadersOnRecord
    <3>4. currentTerm'[e[1]] >= currentTerm[e[1]] /\ CalmMoves(e[1])
      BY <3>1 DEF VoteMoves
    <3> QED
      BY SMT, <3>1, <3>2, <3>3, <3>4 DEF CalmMoves
  <2> QED
    BY <2>1, <2>2 DEF LeadersOnRecord
<1>5. HeldIsKept(led, llog, held2)'
  BY <1>2, <1>3, HeldGoesOn
<1>6. LeadersCover(led, llog, held2)'
  <2>1. ASSUME NEW e \in led
        PROVE  \E Q \in SUBSET Server :
                 /\ Majority(Cardinality(Q))
                 /\ \A p \in Q : /\ <<e[1], e[2], p>> \in granted'
                                 /\ Covers(led, llog, held2, p, e[2], llog[e[2]], e[2] - 1)
    BY <1>2, LeaderGoesOn
  <2> QED
    BY <2>1 DEF LeadersCover
<1> QED
  BY <1>2, <1>3, <1>4, <1>5, <1>6 DEF ServersOK

\* In particular when no log changes.
LEMMA StillServers ==
  ASSUME NEW led, NEW llog, NEW held, NEW held2, Before(led, llog, held),
         held2 = held \cup NowHeld', IInv', granted \subseteq granted', log' = log,
         \A s \in Server : VoteMoves(s) /\ CalmMoves(s)
  PROVE  Growth(led, llog, held, led, llog, held2) /\ ServersOK(led, llog, held2)'
<1>1. \A s \in Server : FromLeaders(led, llog, log'[s])
  BY DEF Before, HistoryOK, LogsFromLeaders
<1>2. \A x \in held : Has(log[x[1]], x[2], x[3]) =>
           Kept(led, llog, log'[x[1]], currentTerm'[x[1]], x[2], x[3])
  BY DEF Kept
<1> QED
  BY <1>1, <1>2, CalmServers

-----------------------------------------------------------------------------
(* The requests under way *)

\* Then they stay slices of the logs of leaders.
LEMMA RequestsGoOn ==
  ASSUME NEW led, NEW llog \in [Nat -> Seq(LogEntry)], NEW led2, NEW llog2 \in [Nat -> Seq(LogEntry)],
         Grows(led, llog, led2, llog2), RequestsFromLeaders(led, llog), IInv, IInv', CallsGoOn,
         \A p \in Server, t \in Nat : <<p, t>> \in led2 => <<p, t>> \in led \/ ~Led(led, t)
  PROVE  RequestsFromLeaders(led2, llog2)'
<1>1. ASSUME NEW p \in Server, NEW a \in AppendEntriesArgs, SliceOK(led, llog, p, a)
      PROVE  SliceOK(led2, llog2, p, a)
  <2>1. PICK t \in Nat : t = a.Term
    BY DEF AppendEntriesArgs
  <2>2. Led(led, t) /\ <<p, t>> \notin led
    BY <1>1, <2>1 DEF SliceOK
  <2>3. <<p, a.Term>> \notin led2
    BY <2>1, <2>2
  <2> QED
    BY <1>1, <2>3, GrowsSlice
<1>2. ASSUME NEW k \in DOMAIN rounds'
      PROVE  <<rounds'[k].leader, rounds'[k].currentTerm>> \in led2
  <2>1. k \in DOMAIN rounds /\ rounds'[k] = [rounds[k] EXCEPT !.replicated = rounds'[k].replicated]
    BY DEF CallsGoOn
  <2>2. rounds[k] \in Round
    BY <2>1 DEF IInv, TypeOK
  <2>3. rounds'[k].leader = rounds[k].leader /\ rounds'[k].currentTerm = rounds[k].currentTerm
    BY <2>1, <2>2 DEF Round
  <2> QED
    BY <2>1, <2>3 DEF RequestsFromLeaders, Grows
<1>3. ASSUME NEW g \in appendCalls'
      PROVE  /\ g.peer # rounds'[g.round].leader
             /\ g.pc # "ready" => SliceOK(led2, llog2, g.peer, g.args)
  <2>1. PICK h \in appendCalls : /\ g.round = h.round /\ g.peer = h.peer
                                 /\ g.pc # "ready" => h.pc # "ready" /\ g.args = h.args
    BY DEF CallsGoOn
  <2>2. g.round \in DOMAIN rounds'
    BY DEF IInv, TypeOK
  <2>3. /\ g.round \in DOMAIN rounds
        /\ rounds'[g.round] = [rounds[g.round] EXCEPT !.replicated = rounds'[g.round].replicated]
    BY <2>2 DEF CallsGoOn
  <2>4. rounds[g.round] \in Round
    BY <2>3 DEF IInv, TypeOK
  <2>5. rounds'[g.round].leader = rounds[g.round].leader
    BY <2>3, <2>4 DEF Round
  <2>6. h \in AppendCall
    BY DEF IInv, TypeOK
  <2>7. h.peer \in Server /\ h.args \in AppendEntriesArgs
    BY <2>6 DEF AppendCall
  <2> QED
    BY <1>1, <2>1, <2>5, <2>7 DEF RequestsFromLeaders
<1>4. ASSUME NEW m \in lateAppends' PROVE SliceOK(led2, llog2, m.to, m.args)
  <2>1. m.to \in Server /\ m.args \in AppendEntriesArgs
    BY DEF IInv, TypeOK
  <2>2. CASE m \in lateAppends
    BY <1>1, <2>1, <2>2 DEF RequestsFromLeaders
  <2>3. ASSUME NEW h \in appendCalls, h.pc # "ready", m.to = h.peer, m.args = h.args
        PROVE  SliceOK(led2, llog2, m.to, m.args)
    BY <1>1, <2>1, <2>3 DEF RequestsFromLeaders
  <2> QED
    BY <2>2, <2>3 DEF CallsGoOn
<1> QED
  BY <1>2, <1>3, <1>4 DEF RequestsFromLeaders

\* A term has one leader on record.
LEMMA LedOnce ==
  ASSUME NEW led, NEW llog, NEW held, Before(led, llog, held),
         NEW s \in Server, NEW p \in Server, NEW t \in Nat, <<s, t>> \in led, <<p, t>> \in led
  PROVE  s = p
<1>1. PICK Q \in SUBSET Server : Majority(Cardinality(Q)) /\ \A q \in Q : <<s, t, q>> \in granted
  BY DEF Before, HistoryOK, LeadersCover
<1>2. PICK R \in SUBSET Server : Majority(Cardinality(R)) /\ \A q \in R : <<p, t, q>> \in granted
  BY DEF Before, HistoryOK, LeadersCover
<1>3. PICK q \in Q : q \in R
  BY <1>1, <1>2 DEF Before, MajoritiesIntersect
<1>4. <<s, t, q>> \in Votes /\ <<p, t, q>> \in Votes
  BY <1>1, <1>2, <1>3 DEF Votes
<1> QED
  BY <1>4 DEF Before, VoteInvariant, VotesAreUnique

\* A leader that starts a round is on record.
LEMMA HeartbeatRequests ==
  ASSUME NEW led, NEW llog, NEW held, Before(led, llog, held), IInv', NEW s \in Server, sendHeartbeat(s)
  PROVE  RequestsFromLeaders(led, llog)'
<1> DEFINE i0 == CHOOSE i \in FreeRounds(s) : \A j \in FreeRounds(s) : i <= j
           k0 == <<s, i0>>
           r == [leader |-> s, currentTerm |-> currentTerm[s], currentLogLen |-> Len(log[s]) + 1,
                 changeCommit |-> changeCommit(s),
                 currentCommitIndex |-> commitIndex[s], replicated |-> {s}]
           calls == {[round |-> k0, peer |-> p, pc |-> "ready",
                      args |-> NoAppendArgs, reply |-> NoAppendReply] : p \in Server \ {s}}
<1>1. /\ appendCalls' = appendCalls \cup calls
      /\ rounds' = [k \in {g.round : g \in appendCalls'} |-> IF k = k0 THEN r ELSE rounds[k]]
      /\ FreeRounds(s) # {} /\ lateAppends' = lateAppends /\ state[s] = LEADER
  BY DEF sendHeartbeat
<1>2. i0 \in FreeRounds(s)
  <2>1. FreeRounds(s) \in SUBSET Nat
    BY SMT DEF FreeRounds
  <2>2. \E i \in FreeRounds(s) : \A j \in FreeRounds(s) : i <= j
    BY <1>1, <2>1, SmallestExists
  <2> QED
    BY <2>2
<1>3. k0 \notin DOMAIN rounds
  BY <1>2 DEF FreeRounds
<1>4. \A g \in calls : g.round = k0 /\ g.peer # s /\ g.pc = "ready"
  BY SMT
<1>5. r.leader = s /\ r.currentTerm = currentTerm[s]
  OBVIOUS
<1> HIDE DEF k0, r, calls
<1>6. \A g \in appendCalls : g.round \in DOMAIN rounds
  BY DEF Before, IInv, TypeOK
<1>7. <<s, currentTerm[s]>> \in led /\ RequestsFromLeaders(led, llog)
  BY <1>1 DEF Before, HistoryOK, LeadersOnRecord
<1>8. ASSUME NEW k \in DOMAIN rounds' PROVE <<rounds'[k].leader, rounds'[k].currentTerm>> \in led
  <2>1. CASE k = k0
    BY <1>1, <1>5, <1>7, <2>1
  <2>2. CASE k # k0
    <3>1. k \in DOMAIN rounds /\ rounds'[k] = rounds[k]
      BY SMT, <1>1, <1>4, <1>6, <2>2
    <3> QED
      BY <1>7, <3>1 DEF RequestsFromLeaders
  <2> QED
    BY <2>1, <2>2
<1>9. ASSUME NEW g \in appendCalls'
      PROVE  /\ g.peer # rounds'[g.round].leader
             /\ g.pc # "ready" => SliceOK(led, llog, g.peer, g.args)
  <2>1. CASE g \in calls
    <3>1. rounds'[g.round] = r
      BY <1>1, <1>4, <2>1
    <3> QED
      BY <1>4, <1>5, <2>1, <3>1
  <2>2. CASE g \in appendCalls
    <3>1. rounds'[g.round] = rounds[g.round]
      BY <1>1, <1>3, <1>6, <2>2
    <3> QED
      BY <1>7, <2>2, <3>1 DEF RequestsFromLeaders
  <2> QED
    BY <1>1, <2>1, <2>2
<1> QED
  BY <1>1, <1>7, <1>8, <1>9 DEF RequestsFromLeaders

\* What a goroutine sends is a slice of its leader's log.
LEMMA BuildSlice ==
  ASSUME TypeOK, NEW r \in Round, NEW p \in Server,
         nextIndex[r.leader][p] \in 1 .. Len(log[r.leader]) + 1,
         r.currentLogLen \in 1 .. Len(log[r.leader]) + 1
  PROVE  LET a == BuildAppendEntries(r, p)
             l == log[r.leader] IN
         /\ a.Term = r.currentTerm
         /\ a.PrevLogIndex + Len(a.Entries) <= Len(l)
         /\ a.PrevLogTerm = TermAt(l, a.PrevLogIndex)
         /\ \A j \in 1 .. Len(a.Entries) : a.Entries[j] = l[a.PrevLogIndex + j]
<1> DEFINE l == log[r.leader]
           n == nextIndex[r.leader][p] - 1
           m == r.currentLogLen - 1
           e == IF n < m THEN SubSeq(l, n + 1, m) ELSE <<>>
           a == BuildAppendEntries(r, p)
<1>1. l \in Seq(LogEntry) /\ Len(l) \in Nat /\ n \in 0 .. Len(l) /\ m \in 0 .. Len(l)
  <2>1. r.leader \in Server
    BY DEF Round
  <2>2. l \in Seq(LogEntry) /\ Len(l) \in Nat
    BY <2>1, LogType
  <2> QED
    BY SMT, <2>2
<1>2. a = [Term |-> r.currentTerm, PrevLogIndex |-> n, PrevLogTerm |-> TermAt(l, n),
           Entries |-> e, LeaderCommit |-> r.currentCommitIndex]
  <2>1. nextIndex[r.leader][p] < r.currentLogLen <=> n < m
    BY SMT, <1>1 DEF Round
  <2>2. n + 1 = nextIndex[r.leader][p]
    BY SMT, <1>1
  <2> QED
    BY <2>1, <2>2 DEF BuildAppendEntries
<1> HIDE DEF l, n, m
<1>3. e \in Seq(LogEntry) /\ n + Len(e) <= Len(l) /\ \A j \in 1 .. Len(e) : e[j] = l[n + j]
  BY SMT, <1>1
<1> HIDE DEF e, a
<1>4. a.Term = r.currentTerm /\ a.PrevLogIndex = n /\ a.PrevLogTerm = TermAt(l, n) /\ a.Entries = e
  BY <1>2
<1> QED
  BY <1>3, <1>4 DEF a, l

\* A goroutine that sends a request sends a slice of the log of record.
LEMMA SendRequests ==
  ASSUME NEW led, NEW llog, NEW held, Before(led, llog, held), IInv', NEW g \in appendCalls,
         sendAppendEntries(g), StillLeads(rounds[g.round])
  PROVE  RequestsFromLeaders(led, llog)'
<1> DEFINE r == rounds[g.round]
           a == BuildAppendEntries(r, g.peer)
           h == [g EXCEPT !.pc = "sent", !.args = a, !.reply = NoAppendReply]
<1>1. /\ appendCalls' = (appendCalls \ {g}) \cup {h} /\ rounds' = Running(rounds, appendCalls')
      /\ lateAppends' = lateAppends
  BY DEF sendAppendEntries
<1>2. g \in AppendCall /\ g.round \in DOMAIN rounds /\ r \in Round /\ g.peer \in Server
  BY DEF Before, IInv, TypeOK, AppendCall
<1>3. h.round = g.round /\ h.peer = g.peer /\ h.args = a
  BY <1>2 DEF AppendCall
<1>4. RequestsFromLeaders(led, llog) /\ LeadersOnRecord(led, llog)
  BY DEF Before, HistoryOK
<1>5. {x.round : x \in appendCalls'} \subseteq DOMAIN rounds
  <2>1. \A x \in appendCalls : x.round \in DOMAIN rounds
    BY DEF Before, IInv, TypeOK
  <2> HIDE DEF h
  <2> QED
    BY <1>1, <1>2, <1>3, <2>1
<1>6. \A k \in DOMAIN rounds' : k \in DOMAIN rounds /\ rounds'[k] = rounds[k]
  <2> HIDE DEF h
  <2> QED
    BY <1>1, <1>5, RunningKeeps
<1>7. \A x \in appendCalls' : x.round \in DOMAIN rounds'
  BY DEF IInv, TypeOK
<1>8. SliceOK(led, llog, g.peer, a)
  <2> DEFINE s == r.leader
             t == r.currentTerm
  <2>1. s \in Server /\ t \in Nat /\ r.currentLogLen \in Nat
    BY <1>2 DEF Round
  <2>2. state[s] = LEADER /\ currentTerm[s] = t
    BY DEF StillLeads
  <2>3. /\ nextIndex[s][g.peer] \in 1 .. Len(log[s]) + 1
        /\ r.currentLogLen \in 1 .. Len(log[s]) + 1
    <3>1. RoundOK(g.round) /\ nextIndex[s][g.peer] \in 1 .. Len(log[s]) + 1
      BY <1>2, <2>1, <2>2 DEF Before, IInv, IndexInvariant
    <3>2. r.currentLogLen >= 1 /\ r.currentLogLen <= Len(log[s]) + 1
      BY <3>1 DEF RoundOK
    <3>3. Len(log[s]) \in Nat
      BY <2>1, LogType DEF Before, IInv
    <3> QED
      BY SMT, <2>1, <3>1, <3>2, <3>3
  <2>4. <<s, t>> \in led /\ llog[t] = log[s]
    BY <1>4, <2>1, <2>2 DEF LeadersOnRecord
  <2>5. /\ a.Term = t
        /\ a.PrevLogIndex + Len(a.Entries) <= Len(log[s])
        /\ a.PrevLogTerm = TermAt(log[s], a.PrevLogIndex)
        /\ \A j \in 1 .. Len(a.Entries) : a.Entries[j] = log[s][a.PrevLogIndex + j]
    <3>1. TypeOK
      BY DEF Before, IInv
    <3> HIDE DEF r
    <3> QED
      BY <1>2, <2>3, <3>1, BuildSlice
  <2>6. g.peer # s
    BY <1>4 DEF RequestsFromLeaders
  <2> HIDE DEF s, t, a
  <2>7. <<g.peer, t>> \notin led
    BY <1>2, <2>1, <2>4, <2>6, LedOnce
  <2>8. Led(led, t)
    BY <2>1, <2>4 DEF Led
  <2> QED
    BY SMT, <2>4, <2>5, <2>7, <2>8 DEF SliceOK
<1> HIDE DEF h, a
<1>9. ASSUME NEW x \in appendCalls'
      PROVE  /\ x.peer # rounds'[x.round].leader
             /\ x.pc # "ready" => SliceOK(led, llog, x.peer, x.args)
  <2>1. rounds'[x.round] = rounds[x.round]
    BY <1>6, <1>7
  <2> QED
    BY <1>1, <1>3, <1>4, <1>8, <2>1 DEF RequestsFromLeaders
<1> QED
  BY <1>1, <1>4, <1>6, <1>9 DEF RequestsFromLeaders

-----------------------------------------------------------------------------
(* Candidates and their voters *)

\* A candidate goes on with its log, or stands in a new term.
StandsOn(s) ==
  state'[s] = CANDIDATE =>
    \/ currentTerm'[s] > currentTerm[s]
    \/ state[s] = CANDIDATE /\ currentTerm'[s] = currentTerm[s] /\ log'[s] = log[s]

\* No vote is of a term its candidate has not reached.
LEMMA VoteIsPast ==
  ASSUME NEW led, NEW llog, NEW held, Before(led, llog, held), NEW v \in Votes
  PROVE  v[2] <= currentTerm[v[1]]
<1>1. CASE v \in granted
  BY <1>1 DEF Before, HistoryOK, CandidatesCover
<1>2. ASSUME NEW g \in voteCalls, g.pc = "replied", v = <<g.cand, g.args.Term, g.peer>>
      PROVE  v[2] <= currentTerm[v[1]]
  <2>1. VoteCallOK(g)
    BY DEF Before, VoteInvariant
  <2> QED
    BY <1>2, <2>1 DEF VoteCallOK
<1> QED
  BY <1>1, <1>2 DEF Votes

\* What the old votes say of the candidates still holds.
LEMMA VoteGoesOn ==
  ASSUME NEW led, NEW llog, NEW held, NEW led2, NEW llog2, NEW held2,
         Before(led, llog, held), Growth(led, llog, held, led2, llog2, held2),
         IInv', \A s \in Server : VoteMoves(s) /\ StandsOn(s), NEW v \in Votes
  PROVE  VoteCovers(led2, llog2, held2, v)'
<1> SUFFICES ASSUME state'[v[1]] = CANDIDATE, currentTerm'[v[1]] = v[2]
             PROVE  Covers(led2, llog2, held2, v[3], v[2], log'[v[1]], v[2])
  BY DEF VoteCovers
<1>1. v[1] \in Server /\ v[2] \in Nat /\ v[3] \in Server
  BY VoteType DEF Before
<1>2. v[2] <= currentTerm[v[1]]
  BY VoteIsPast
<1>3. PICK c \in Server : c = v[1]
  BY <1>1
<1>4. PICK u \in Nat : u = v[2]
  BY <1>1
<1>5. PICK p \in Server : p = v[3]
  BY <1>1
<1>6. currentTerm[c] \in Nat /\ currentTerm'[c] \in Nat /\ currentTerm[p] \in Nat /\ currentTerm'[p] \in Nat
  BY DEF Before, IInv, TypeOK
<1>7. state[c] = CANDIDATE /\ currentTerm[c] = u /\ log'[c] = log[c]
  <2>1. state'[c] = CANDIDATE /\ currentTerm'[c] = u /\ StandsOn(c)
    BY <1>3, <1>4
  <2>2. u <= currentTerm[c]
    BY <1>2, <1>3, <1>4
  <2>3. ~(currentTerm'[c] > currentTerm[c])
    BY SMT, <1>6, <2>1, <2>2
  <2> QED
    BY <2>1, <2>3 DEF StandsOn
<1>8. Covers(led, llog, held, p, u, log[c], u)
  BY <1>3, <1>4, <1>5, <1>7 DEF Before, HistoryOK, CandidatesCover, VoteCovers
<1>9. currentTerm'[p] >= u
  <2>1. currentTerm'[p] >= currentTerm[p]
    BY DEF VoteMoves
  <2>2. currentTerm[p] > u \/ currentTerm[p] = u
    BY <1>4, <1>5 DEF Before, VoteInvariant, VotesBind
  <2> QED
    BY SMT, <1>6, <2>1, <2>2
<1>10. HistoryTypes(led, llog, held)
  BY DEF Before, HistoryOK, HistoryTypes
<1>11. u <= u
  BY SMT
<1>12. PICK l : l = log[c]
  OBVIOUS
<1>13. Covers(led2, llog2, held2, p, u, l, u)
  BY <1>6, <1>8, <1>9, <1>10, <1>11, <1>12, GrowsCovers
<1> QED
  BY <1>3, <1>4, <1>5, <1>7, <1>12, <1>13

\* A request that was sent still describes the log of its candidate.
LEMMA RequestGoesOn ==
  ASSUME NEW led, NEW llog, NEW held, Before(led, llog, held), IInv',
         \A s \in Server : VoteMoves(s) /\ StandsOn(s),
         NEW h \in voteCalls, h.pc # "ready", NEW g, g.cand = h.cand, g.args = h.args
  PROVE  RequestDescribes(g)'
<1> SUFFICES ASSUME state'[g.cand] = CANDIDATE, g.args.Term = currentTerm'[g.cand]
             PROVE  g.args.LastLogIndex = Len(log'[g.cand]) /\ g.args.LastLogTerm = LastTerm(log'[g.cand])
  BY DEF RequestDescribes
<1>1. h \in VoteCall
  BY DEF Before, IInv, TypeOK
<1>2. h.cand \in Server /\ h.args.Term \in Nat
  BY <1>1 DEF VoteCall, RequestVoteArgs
<1>3. currentTerm[h.cand] \in Nat /\ currentTerm'[h.cand] \in Nat
  BY <1>2 DEF Before, IInv, TypeOK
<1>4. h.args.Term <= currentTerm[h.cand]
  BY DEF Before, VoteInvariant, VoteCallOK
<1>5. /\ state[h.cand] = CANDIDATE /\ currentTerm'[h.cand] = currentTerm[h.cand]
      /\ log'[h.cand] = log[h.cand]
  BY SMT, <1>2, <1>3, <1>4 DEF StandsOn
<1>6. RequestDescribes(h)
  BY DEF Before, HistoryOK, CandidatesCover
<1> QED
  BY <1>5, <1>6 DEF RequestDescribes

\* A step that adds no vote and no vote goroutine, but may count a vote ...
LEMMA CountsGoOn ==
  ASSUME NEW led, NEW llog, NEW held, NEW led2, NEW llog2, NEW held2,
         Before(led, llog, held), Growth(led, llog, held, led2, llog2, held2),
         IInv', \A s \in Server : VoteMoves(s) /\ StandsOn(s),
         granted' \subseteq Votes, voteCalls' \subseteq voteCalls
  PROVE  CandidatesCover(led2, llog2, held2)'
<1>1. Votes' \subseteq Votes
  BY DEF Votes
<1>2. \A v \in Votes' : VoteCovers(led2, llog2, held2, v)'
  BY <1>1, VoteGoesOn
<1>3. ASSUME NEW g \in voteCalls' PROVE RequestDescribes(g)'
  <2>1. CASE g.pc = "ready"
    BY <2>1 DEF RequestDescribes
  <2>2. CASE g.pc # "ready"
    BY <2>2, RequestGoesOn
  <2> QED
    BY <2>1, <2>2
<1>4. ASSUME NEW v \in granted' PROVE v[2] <= currentTerm'[v[1]]
  <2>1. v[1] \in Server /\ v[2] \in Nat /\ v[2] <= currentTerm[v[1]]
    BY VoteType, VoteIsPast DEF Before
  <2>2. currentTerm[v[1]] \in Nat /\ currentTerm'[v[1]] \in Nat /\ currentTerm'[v[1]] >= currentTerm[v[1]]
    BY <2>1 DEF Before, IInv, TypeOK, VoteMoves
  <2> QED
    BY SMT, <2>1, <2>2
<1> QED
  BY <1>2, <1>3, <1>4 DEF CandidatesCover

\* ... and one that counts none.
LEMMA CandidatesGoOn ==
  ASSUME NEW led, NEW llog, NEW held, NEW led2, NEW llog2, NEW held2,
         Before(led, llog, held), Growth(led, llog, held, led2, llog2, held2),
         IInv', \A s \in Server : VoteMoves(s) /\ StandsOn(s),
         granted' = granted, voteCalls' \subseteq voteCalls
  PROVE  CandidatesCover(led2, llog2, held2)'
<1>1. granted' \subseteq Votes
  BY DEF Votes
<1> QED
  BY <1>1, CountsGoOn

-----------------------------------------------------------------------------
(* The steps *)

\* What there is to show when the parts are known.
LEMMA FollowsFromParts ==
  ASSUME NEW led, NEW llog, NEW held, NEW led2, NEW llog2, NEW held2,
         Growth(led, llog, held, led2, llog2, held2), ServersOK(led2, llog2, held2)',
         RequestsFromLeaders(led2, llog2)', CandidatesCover(led2, llog2, held2)'
  PROVE  Follows(led, llog, held, led2, llog2, held2)
<1>1. HistoryOK(led2, llog2, held2)'
  BY DEF HistoryOK, ServersOK, Growth, HistoryTypes
<1> QED
  BY <1>1 DEF Follows

\* Steps outside elections that change no log.
LEMMA StillFollows ==
  ASSUME NEW led, NEW llog, NEW held, Before(led, llog, held), IInv', AllMove, log' = log,
         granted' = granted, voteCalls' \subseteq voteCalls, RequestsFromLeaders(led, llog)'
  PROVE  \E held2 : Follows(led, llog, held, led, llog, held2)
<1>1. PICK held2 : held2 = held \cup NowHeld'
  OBVIOUS
<1>2. \A s \in Server : VoteMoves(s) /\ CalmMoves(s) /\ StandsOn(s)
  BY DEF AllMove, StateMoves, CalmMoves, StandsOn
<1>3. Growth(led, llog, held, led, llog, held2) /\ ServersOK(led, llog, held2)'
  BY <1>1, <1>2, StillServers
<1>4. CandidatesCover(led, llog, held2)'
  BY <1>2, <1>3, CandidatesGoOn
<1> QED
  BY <1>3, <1>4, FollowsFromParts

\* When no request is made either, the requests take care of themselves.
LEMMA CallsKeep ==
  ASSUME NEW led, NEW llog, NEW held, Before(led, llog, held), IInv', CallsGoOn
  PROVE  RequestsFromLeaders(led, llog)'
<1>1. /\ llog \in [Nat -> Seq(LogEntry)] /\ RequestsFromLeaders(led, llog) /\ IInv
  BY DEF Before, HistoryOK
<1>2. Grows(led, llog, led, llog)
  BY <1>1, GrowsNot
<1> QED
  BY <1>1, <1>2, RequestsGoOn

\* Steps of goroutines and checkApply.
LEMMA GoroutinesFollow ==
  ASSUME NEW led, NEW llog, NEW held, Before(led, llog, held), IInv',
         \/ UNCHANGED vars
         \/ \E s \in Server : sendHeartbeat(s) \/ checkApply(s)
         \/ \E m \in lateVotes : DeliverLateVote(m)
         \/ \E g \in appendCalls : \/ sendAppendEntries(g)
                                   \/ AppendEntriesReturns(g) \/ AppendEntriesFails(g)
  PROVE  \E held2 : Follows(led, llog, held, led, llog, held2)
<1>1. IInv
  BY DEF Before
<1>2. AllMove /\ UNCHANGED <<voteCalls, granted>>
  BY <1>1, QuietMoves DEF Quiet
<1>3. CASE UNCHANGED vars
  <2>1. CallsGoOn /\ log' = log
    BY <1>1, <1>3, CallsStay DEF vars, durable
  <2> QED
    BY <1>2, <2>1, CallsKeep, StillFollows
<1>4. ASSUME NEW s \in Server, sendHeartbeat(s)
      PROVE  \E held2 : Follows(led, llog, held, led, llog, held2)
  <2>1. log' = log
    BY <1>4 DEF sendHeartbeat, durable
  <2> QED
    BY <1>2, <1>4, <2>1, HeartbeatRequests, StillFollows
<1>5. ASSUME NEW s \in Server, checkApply(s)
      PROVE  \E held2 : Follows(led, llog, held, led, llog, held2)
  <2>1. log' = log /\ UNCHANGED replication
    BY <1>5 DEF checkApply, durable
  <2> QED
    BY <1>1, <1>2, <2>1, CallsStay, CallsKeep, StillFollows
<1>6. ASSUME NEW m \in lateVotes, DeliverLateVote(m)
      PROVE  \E held2 : Follows(led, llog, held, led, llog, held2)
  <2>1. log' = log /\ UNCHANGED replication
    BY <1>6 DEF DeliverLateVote, RequestVote, durable
  <2> QED
    BY <1>1, <1>2, <2>1, CallsStay, CallsKeep, StillFollows
<1>7. ASSUME NEW g \in appendCalls, sendAppendEntries(g)
      PROVE  \E held2 : Follows(led, llog, held, led, llog, held2)
  <2>1. log' = log
    BY <1>7 DEF sendAppendEntries, durable
  <2>2. RequestsFromLeaders(led, llog)'
    BY <1>1, <1>7, SendRequests, IdleCallGoesOn, CallsKeep
  <2> QED
    BY <1>2, <2>1, <2>2, StillFollows
<1>8. ASSUME NEW g \in appendCalls, AppendEntriesReturns(g) \/ AppendEntriesFails(g)
      PROVE  \E held2 : Follows(led, llog, held, led, llog, held2)
  <2>1. log' = log
    BY <1>8 DEF AppendEntriesReturns, AppendEntriesFails, durable
  <2> QED
    BY <1>1, <1>2, <1>8, <2>1, SentCallsGoOn, CallsKeep, StillFollows
<1> QED
  BY <1>3, <1>4, <1>5, <1>6, <1>7, <1>8

\* Restarts, of a server that has saved its log or is about to.
LEMMA RebootsFollow ==
  ASSUME NEW led, NEW llog, NEW held, Before(led, llog, held), IInv', Reboots
  PROVE  \E held2 : Follows(led, llog, held, led, llog, held2)
<1>1. IInv
  BY DEF Before
<1>2. AllMove /\ granted' = granted /\ voteCalls' \subseteq voteCalls
  BY <1>1, RebootsMove
<1>3. ASSUME NEW s \in Server, NEW p, p.log = saved[s].log, Reboot(s, p)
      PROVE  log' = log
  <2>1. log' = [log EXCEPT ![s] = p.log]
    BY <1>3 DEF Reboot
  <2>2. saved[s].log = log[s]
    BY <1>1, SavedFields
  <2> QED
    BY <1>1, <1>3, <2>1, <2>2 DEF IInv, TypeOK
<1>4. ASSUME NEW s \in Server, Restart(s) PROVE CallsGoOn /\ log' = log
  BY <1>1, <1>3, <1>4, RebootCallsGoOn DEF Restart
<1>5. ASSUME NEW m \in lateAppends, CrashInAppendEntries(m) PROVE CallsGoOn /\ log' = log
  <2>1. m.to \in Server /\ saved[m.to] \in Persistent
    BY <1>1 DEF IInv, TypeOK
  <2>2. [saved[m.to] EXCEPT !.currentTerm = m.args.Term, !.state = FOLLOWER].log = saved[m.to].log
    BY <2>1 DEF Persistent
  <2>3. lateAppends' \subseteq lateAppends \cup AppendsUnderWay(m.to)
    BY <1>5 DEF CrashInAppendEntries
  <2> QED
    BY <1>1, <1>3, <1>5, <2>1, <2>2, <2>3, RebootCallsGoOn DEF CrashInAppendEntries
<1> QED
  BY <1>2, <1>4, <1>5, CallsKeep, StillFollows DEF Reboots

\* The receiver keeps what it held, unless the leader does not have it.
LEMMA AppendKeepsHeld ==
  ASSUME NEW led, NEW llog, NEW held, Before(led, llog, held), NEW i \in Server,
         NEW a \in AppendEntriesArgs, SliceOK(led, llog, i, a), NEW f, f = FollowerLog(log[i], a),
         a.Term >= currentTerm[i], NEW t \in Nat, NEW n \in Nat, t <= currentTerm[i], Has(log[i], t, n)
  PROVE  Kept(led, llog, f, a.Term, t, n)
<1>1. PICK l \in Seq(LogEntry) : l = log[i]
  BY DEF Before, IInv, TypeOK
<1>2. PICK u \in Nat : u = a.Term
  BY DEF AppendEntriesArgs
<1>3. llog \in [Nat -> Seq(LogEntry)] /\ LogsFromLeaders(led, llog)
  BY DEF Before, HistoryOK
<1>4. PICK w \in Seq(LogEntry) : w = llog[u]
  BY <1>3
<1>5. f \in Seq(LogEntry) /\ (Agree(l, w, n) => Agree(f, w, n))
  BY <1>1, <1>2, <1>4, AppendedLog
<1>6. FromLeaders(led, llog, l) /\ Led(led, u)
  BY <1>1, <1>2, <1>3 DEF LogsFromLeaders, SliceOK
<1>7. FromLeaders(led, llog, w)
  <2>1. u \in DOMAIN llog
    BY <1>3
  <2> QED
    BY <1>3, <1>4, <2>1 DEF LogsFromLeaders
<1>8. Has(l, t, n) /\ n \in 1 .. Len(l) /\ l[n].Term = t
  BY <1>1 DEF Has
<1>9. t <= u
  <2>1. currentTerm[i] \in Nat
    BY DEF Before, IInv, TypeOK
  <2> QED
    BY SMT, <1>2, <2>1
<1>10. CASE Has(w, t, n) \/ t = u
  <2>1. Agree(l, w, n)
    <3>1. CASE t = u
      BY <1>4, <1>6, <1>8, <3>1 DEF FromLeaders
    <3>2. CASE Has(w, t, n)
      <4>1. n <= Len(w) /\ l[n].Term = w[n].Term
        BY SMT, <1>8, <3>2 DEF Has
      <4> QED
        BY <1>6, <1>7, <1>8, <4>1, SameEntry
    <3> QED
      BY <1>10, <3>1, <3>2
  <2>2. Agree(l, w, n) /\ Agree(f, w, n) /\ n <= n
    BY SMT, <1>5, <2>1
  <2>3. Has(w, t, n)
    BY <1>8, <2>2, HasAgree
  <2>4. Has(f, t, n)
    BY <1>5, <2>2, <2>3, HasAgree
  <2> QED
    BY <2>4 DEF Kept
<1>11. CASE ~Has(w, t, n) /\ t # u
  <2>1. u \in (t + 1) .. u
    BY SMT, <1>9, <1>11
  <2> QED
    BY <1>2, <1>4, <1>6, <1>11, <2>1 DEF Kept
<1> QED
  BY <1>10, <1>11

\* A step that runs AppendEntries.
LEMMA AppendFollows ==
  ASSUME NEW led, NEW llog, NEW held, Before(led, llog, held), IInv', NEW i \in Server,
         NEW a \in AppendEntriesArgs, SliceOK(led, llog, i, a), AppendEntries(i, a),
         CallsGoOn, UNCHANGED <<voteCalls, granted>>
  PROVE  \E held2 : Follows(led, llog, held, led, llog, held2)
<1>1. AllMove
  BY AppendEntriesMoves DEF Before
<1>2. RequestsFromLeaders(led, llog)'
  BY CallsKeep
<1>3. CASE log' = log
  BY <1>1, <1>2, <1>3, StillFollows
<1>4. CASE log' # log
  <2>1. PICK f : f = FollowerLog(log[i], a)
    OBVIOUS
  <2>2. /\ a.Term >= currentTerm[i] /\ currentTerm' = [currentTerm EXCEPT ![i] = a.Term]
        /\ state' = [state EXCEPT ![i] = FOLLOWER] /\ log' = [log EXCEPT ![i] = f]
    BY <1>4, <2>1 DEF AppendEntries, durable
  <2>3. /\ currentTerm'[i] = a.Term /\ state'[i] = FOLLOWER /\ log'[i] = f
        /\ \A s \in Server \ {i} : currentTerm'[s] = currentTerm[s] /\ state'[s] = state[s] /\ log'[s] = log[s]
    BY <2>2 DEF Before, IInv, TypeOK
  <2>4. \A s \in Server : VoteMoves(s) /\ CalmMoves(s) /\ StandsOn(s)
    <3>1. FOLLOWER # LEADER /\ FOLLOWER # CANDIDATE
      BY SMT DEF FOLLOWER, LEADER, CANDIDATE
    <3>2. \A s \in Server : s = i \/ s \in Server \ {i}
      OBVIOUS
    <3> QED
      BY <1>1, <2>3, <3>1, <3>2 DEF AllMove, StateMoves, CalmMoves, StandsOn
  <2>5. \A s \in Server : FromLeaders(led, llog, log'[s])
    <3>1. FromLeaders(led, llog, f)
      BY <2>1, AppendedLog
    <3>2. \A s \in Server : FromLeaders(led, llog, log[s])
      BY DEF Before, HistoryOK, LogsFromLeaders
    <3>3. \A s \in Server : s = i \/ s \in Server \ {i}
      OBVIOUS
    <3> QED
      BY <2>3, <3>1, <3>2, <3>3
  <2>6. ASSUME NEW x \in held, Has(log[x[1]], x[2], x[3])
        PROVE  Kept(led, llog, log'[x[1]], currentTerm'[x[1]], x[2], x[3])
    <3>1. x[1] \in Server /\ x[2] \in Nat /\ x[3] \in Nat
      BY HeldIsLed DEF Before
    <3>2. x[2] <= currentTerm[x[1]]
      BY DEF Before, HistoryOK, HeldIsKept
    <3>3. CASE x[1] = i
      <4>1. PICK t \in Nat : t = x[2]
        BY <3>1
      <4>2. PICK n \in Nat : n = x[3]
        BY <3>1
      <4>3. Kept(led, llog, f, a.Term, t, n)
        BY <2>1, <2>2, <2>6, <3>2, <3>3, <4>1, <4>2, AppendKeepsHeld
      <4> QED
        BY <2>3, <3>3, <4>1, <4>2, <4>3
    <3>4. CASE x[1] # i
      BY <2>3, <2>6, <3>1, <3>4 DEF Kept
    <3> QED
      BY <3>3, <3>4
  <2>7. PICK held2 : held2 = held \cup NowHeld'
    OBVIOUS
  <2>8. Growth(led, llog, held, led, llog, held2) /\ ServersOK(led, llog, held2)'
    BY <2>4, <2>5, <2>6, <2>7, CalmServers
  <2>9. CandidatesCover(led, llog, held2)'
    BY <2>4, <2>8, CandidatesGoOn
  <2> QED
    BY <1>2, <2>8, <2>9, FollowsFromParts
<1> QED
  BY <1>3, <1>4

\* The two ways an AppendEntries request arrives.
LEMMA DeliveriesFollow ==
  ASSUME NEW led, NEW llog, NEW held, Before(led, llog, held), IInv',
         \/ \E g \in appendCalls : DeliverAppendEntries(g)
         \/ \E m \in lateAppends : DeliverLateAppend(m)
  PROVE  \E held2 : Follows(led, llog, held, led, llog, held2)
<1>1. IInv /\ RequestsFromLeaders(led, llog)
  BY DEF Before, HistoryOK
<1>2. ASSUME NEW g \in appendCalls, DeliverAppendEntries(g)
      PROVE  \E held2 : Follows(led, llog, held, led, llog, held2)
  <2>1. g.peer \in Server /\ g.args \in AppendEntriesArgs /\ g.pc # "ready"
    BY <1>1, <1>2 DEF DeliverAppendEntries, IInv, TypeOK, AppendCall
  <2>2. SliceOK(led, llog, g.peer, g.args)
    BY <1>1, <2>1 DEF RequestsFromLeaders
  <2>3. CallsGoOn
    BY <1>1, <1>2, SentCallsGoOn
  <2>4. AppendEntries(g.peer, g.args) /\ UNCHANGED <<voteCalls, granted>>
    BY <1>2 DEF DeliverAppendEntries, elections
  <2> QED
    BY <2>1, <2>2, <2>3, <2>4, AppendFollows
<1>3. ASSUME NEW m \in lateAppends, DeliverLateAppend(m)
      PROVE  \E held2 : Follows(led, llog, held, led, llog, held2)
  <2>1. m.to \in Server /\ m.args \in AppendEntriesArgs
    BY <1>1 DEF IInv, TypeOK
  <2>2. SliceOK(led, llog, m.to, m.args)
    BY <1>1 DEF RequestsFromLeaders
  <2>3. CallsGoOn
    <3>1. rounds' = rounds /\ appendCalls' = appendCalls /\ lateAppends' \subseteq lateAppends
      BY <1>3 DEF DeliverLateAppend
    <3>2. \A k \in DOMAIN rounds : rounds[k] = [rounds[k] EXCEPT !.replicated = rounds[k].replicated]
      BY <1>1 DEF IInv, TypeOK, Round
    <3> QED
      BY <3>1, <3>2 DEF CallsGoOn
  <2>4. AppendEntries(m.to, m.args) /\ UNCHANGED <<voteCalls, granted>>
    BY <1>3 DEF DeliverLateAppend, elections
  <2> QED
    BY <2>1, <2>2, <2>3, <2>4, AppendFollows
<1> QED
  BY <1>2, <1>3

\* A leader's log grows by an entry of its term, and the log of record with it.
LEMMA StartGrows ==
  ASSUME NEW led, NEW llog, NEW held, Before(led, llog, held), IInv', NEW s \in Server, NEW c \in Command,
         Start(s, c)
  PROVE  \E llog2 :
           /\ llog2 \in [Nat -> Seq(LogEntry)] /\ llog2[currentTerm[s]] = log'[s]
           /\ \A t \in Nat : t # currentTerm[s] => llog2[t] = llog[t]
           /\ Grows(led, llog, led, llog2) /\ LogsFromLeaders(led, llog2)'
<1>1. PICK u \in Nat : u = currentTerm[s]
  BY DEF Before, IInv, TypeOK
<1>2. PICK l \in Seq(LogEntry) : l = log[s]
  BY DEF Before, IInv, TypeOK
<1>3. PICK e \in LogEntry : e = [Command |-> c, Term |-> u]
  BY DEF LogEntry
<1>4. PICK k : k = Append(l, e)
  OBVIOUS
<1>5. log'[s] = k /\ \A p \in Server \ {s} : log'[p] = log[p]
  BY <1>1, <1>2, <1>3, <1>4 DEF Start, Before, IInv, TypeOK
<1>6. /\ k \in Seq(LogEntry) /\ Len(k) = Len(l) + 1 /\ Agree(l, k, Len(l))
      /\ \A i \in 1 .. Len(k) : i > Len(l) => k[i].Term = u
  <2>1. e.Term = u
    BY <1>3
  <2> QED
    BY <1>4, <2>1, AppendedEntry
<1>7. /\ llog \in [Nat -> Seq(LogEntry)] /\ LogsFromLeaders(led, llog)
      /\ <<s, u>> \in led /\ llog[u] = l
  BY <1>1, <1>2 DEF Start, Before, HistoryOK, LeadersOnRecord
<1>8. PICK llog2 : llog2 = [llog EXCEPT ![u] = k]
  OBVIOUS
<1>9. /\ llog2 \in [Nat -> Seq(LogEntry)] /\ llog2[u] = k
      /\ \A t \in Nat : t # u => llog2[t] = llog[t]
  BY <1>6, <1>7, <1>8
<1>10. Grows(led, llog, led, llog2)
  <2>1. ASSUME NEW t \in Nat
        PROVE  /\ Agree(llog[t], llog2[t], Len(llog[t]))
               /\ \A i \in 1 .. Len(llog2[t]) : i > Len(llog[t]) => llog2[t][i].Term = t
    <3>1. CASE t = u
      <4>1. llog[t] = l /\ llog2[t] = k
        BY <1>7, <1>9, <3>1
      <4> QED
        BY <1>6, <3>1, <4>1
    <3>2. CASE t # u
      <4>1. llog[t] \in Seq(LogEntry) /\ Len(llog[t]) \in Nat
        BY <1>7, LeaderLogType
      <4> QED
        <5>1. llog2[t] = llog[t]
          BY <1>9, <3>2
        <5>2. PICK h \in Seq(LogEntry) : h = llog[t]
          BY <4>1
        <5>3. Agree(h, h, Len(h)) /\ \A i \in 1 .. Len(h) : ~(i > Len(h))
          BY SMT DEF Agree
        <5> QED
          BY <5>1, <5>2, <5>3
    <3> QED
      BY <3>1, <3>2
  <2> QED
    BY <2>1 DEF Grows
<1>11. FromLeaders(led, llog2, k)
  <2>1. FromLeaders(led, llog, l) /\ Led(led, u)
    BY <1>2, <1>7 DEF LogsFromLeaders, Led
  <2>2. llog \in [Nat -> Seq(LogEntry)] /\ llog2 \in [Nat -> Seq(LogEntry)]
    BY <1>7, <1>9
  <2>3. FromLeaders(led, llog2, l)
    BY <1>10, <2>1, <2>2, GrowsFrom
  <2>4. ASSUME NEW i \in 1 .. Len(k)
        PROVE  Led(led, k[i].Term) /\ Agree(k, llog2[k[i].Term], i)
    <3>1. CASE i > Len(l)
      <4>1. k[i].Term = u /\ k \in Seq(LogEntry)
        BY <1>6, <3>1
      <4>2. llog2[k[i].Term] = k
        BY <1>9, <4>1
      <4>3. Agree(k, k, i)
        BY SMT, <4>1 DEF Agree
      <4> QED
        BY <2>1, <4>1, <4>2, <4>3
    <3>2. CASE i <= Len(l)
      <4>1. i \in 1 .. Len(l) /\ k[i] = l[i]
        BY SMT, <1>6, <3>2 DEF Agree
      <4>2. Led(led, l[i].Term) /\ Agree(l, llog2[l[i].Term], i)
        BY <2>3, <4>1 DEF FromLeaders
      <4> QED
        BY SMT, <1>6, <4>1, <4>2 DEF Agree
    <3> QED
      BY SMT, <1>6, <3>1, <3>2
  <2> QED
    BY <2>4 DEF FromLeaders
<1>12. \A p \in Server : FromLeaders(led, llog2, log'[p])
  <2>1. ASSUME NEW p \in Server \ {s} PROVE FromLeaders(led, llog2, log'[p])
    <3>1. log[p] \in Seq(LogEntry) /\ FromLeaders(led, llog, log[p]) /\ log'[p] = log[p]
      BY <1>5, <1>7 DEF LogsFromLeaders, Before, IInv, TypeOK
    <3> QED
      BY <1>7, <1>9, <1>10, <3>1, GrowsFrom
  <2> QED
    BY <1>5, <1>11, <2>1
<1>13. ASSUME NEW t \in Nat PROVE FromLeaders(led, llog2, llog2[t]) /\ LogOK(llog2[t], t)
  <2>1. CASE t = u
    <3>1. LogOK(log'[s], currentTerm'[s]) /\ currentTerm'[s] = u
      BY <1>1 DEF IInv, IndexInvariant, Start
    <3> QED
      BY <1>5, <1>9, <1>11, <2>1, <3>1
  <2>2. CASE t # u
    <3>1. t \in DOMAIN llog /\ llog[t] \in Seq(LogEntry)
      BY <1>7
    <3>2. FromLeaders(led, llog, llog[t]) /\ LogOK(llog[t], t)
      BY <1>7, <3>1 DEF LogsFromLeaders
    <3>3. PICK w \in Seq(LogEntry) : w = llog[t]
      BY <3>1
    <3>4. llog \in [Nat -> Seq(LogEntry)] /\ llog2 \in [Nat -> Seq(LogEntry)] /\ FromLeaders(led, llog, w)
      BY <1>7, <1>9, <3>2, <3>3
    <3>5. FromLeaders(led, llog2, w)
      BY <1>10, <3>4, GrowsFrom
    <3> QED
      BY <1>9, <2>2, <3>2, <3>3, <3>5
  <2> QED
    BY <2>1, <2>2
<1>14. DOMAIN llog2 = Nat
  BY <1>9
<1> QED
  BY <1>1, <1>5, <1>9, <1>10, <1>12, <1>13, <1>14 DEF LogsFromLeaders

\* A leader of record before the step is one after it, whatever was added.
LEMMA CoverGoesOn ==
  ASSUME NEW led, NEW llog, NEW held, NEW llog2, NEW held2,
         Before(led, llog, held), Growth(led, llog, held, led, llog2, held2),
         IInv', \A s \in Server : VoteMoves(s), granted \subseteq granted'
  PROVE  LeadersCover(led, llog2, held2)'
<1>1. ASSUME NEW e \in led
      PROVE  \E Q \in SUBSET Server :
               /\ Majority(Cardinality(Q))
               /\ \A p \in Q : /\ <<e[1], e[2], p>> \in granted'
                               /\ Covers(led, llog2, held2, p, e[2], llog2[e[2]], e[2] - 1)
  BY LeaderGoesOn
<1> QED
  BY <1>1 DEF LeadersCover

\* Start.
LEMMA StartFollows ==
  ASSUME NEW led, NEW llog, NEW held, Before(led, llog, held), IInv', NEW s \in Server, NEW c \in Command,
         Start(s, c)
  PROVE  \E llog2, held2 : Follows(led, llog, held, led, llog2, held2)
<1>1. IInv /\ VoteInvariant /\ HistoryOK(led, llog, held)
  BY DEF Before
<1>2. PICK held2 : held2 = held \cup NowHeld'
  OBVIOUS
<1>3. PICK llog2 :
        /\ llog2 \in [Nat -> Seq(LogEntry)] /\ llog2[currentTerm[s]] = log'[s]
        /\ \A t \in Nat : t # currentTerm[s] => llog2[t] = llog[t]
        /\ Grows(led, llog, led, llog2) /\ LogsFromLeaders(led, llog2)'
  BY StartGrows
<1>4. Growth(led, llog, held, led, llog2, held2)
  BY <1>1, <1>2, <1>3, GrowthHolds DEF HistoryOK
<1>5. /\ state[s] = LEADER /\ UNCHANGED <<state, currentTerm, votedFor>>
      /\ UNCHANGED <<voteCalls, granted>> /\ UNCHANGED replication
  BY DEF Start, elections
<1>6. \A p \in Server \ {s} : log'[p] = log[p]
  BY <1>1 DEF Start, IInv, TypeOK
<1>7. \A p \in Server : VoteMoves(p) /\ StandsOn(p)
  <2>1. \A p \in Server : VoteMoves(p)
    BY <1>1, <1>5, StillMoves DEF AllMove
  <2>2. LEADER # CANDIDATE
    BY SMT DEF LEADER, CANDIDATE
  <2>3. ASSUME NEW p \in Server PROVE StandsOn(p)
    <3>1. CASE p = s
      BY <1>5, <2>2, <3>1 DEF StandsOn
    <3>2. CASE p # s
      BY <1>5, <1>6, <3>2 DEF StandsOn
    <3> QED
      BY <3>1, <3>2
  <2> QED
    BY <2>1, <2>3
<1>8. LeadersOnRecord(led, llog2)'
  <2>1. LeadersOnRecord(led, llog)
    BY <1>1 DEF HistoryOK
  <2>2. ASSUME NEW p \in Server, state'[p] = LEADER
        PROVE  <<p, currentTerm'[p]>> \in led /\ llog2[currentTerm'[p]] = log'[p]
    <3>1. CASE p = s
      BY <1>3, <1>5, <2>1, <3>1 DEF LeadersOnRecord
    <3>2. CASE p # s
      <4>1. currentTerm[p] # currentTerm[s]
        <5>1. <<p, currentTerm[p]>> \in led /\ <<s, currentTerm[s]>> \in led /\ currentTerm[p] \in Nat
          BY <1>1, <1>5, <2>1, <2>2 DEF LeadersOnRecord, IInv, TypeOK
        <5> QED
          BY <3>2, <5>1, LedOnce
      <4>2. currentTerm[p] \in Nat
        BY <1>1 DEF IInv, TypeOK
      <4> QED
        BY <1>3, <1>5, <1>6, <2>1, <2>2, <3>2, <4>1, <4>2 DEF LeadersOnRecord
    <3> QED
      BY <3>1, <3>2
  <2> QED
    BY <1>5, <2>1, <2>2 DEF LeadersOnRecord
<1>9. ASSUME NEW x \in held, Has(log[x[1]], x[2], x[3])
      PROVE  Kept(led, llog2, log'[x[1]], currentTerm'[x[1]], x[2], x[3])
  <2>1. x[1] \in Server /\ x[2] \in Nat /\ x[3] \in Nat
    BY HeldIsLed DEF Before
  <2>2. CASE x[1] = s
    <3>1. PICK l \in Seq(LogEntry) : l = log[s]
      BY <1>1 DEF IInv, TypeOK
    <3>2. PICK e \in LogEntry : e = [Command |-> c, Term |-> currentTerm[s]]
      BY <1>1 DEF LogEntry, IInv, TypeOK
    <3>3. PICK k : k = Append(l, e)
      OBVIOUS
    <3>4. k = log'[s]
      BY <1>1, <3>1, <3>2, <3>3 DEF Start, IInv, TypeOK
    <3>5. k \in Seq(LogEntry) /\ Agree(l, k, Len(l))
      BY <3>3, AppendedEntry
    <3>6. Has(k, x[2], x[3])
      <4>1. x[3] \in 1 .. Len(l) /\ l[x[3]].Term = x[2]
        BY <1>9, <2>2, <3>1 DEF Has
      <4>2. Len(l) <= Len(k) /\ k[x[3]] = l[x[3]]
        BY <3>5, <4>1 DEF Agree
      <4>3. x[3] \in 1 .. Len(k)
        <5>1. PICK n, m, i : n = Len(l) /\ m = Len(k) /\ i = x[3]
          OBVIOUS
        <5>2. n \in Nat /\ m \in Nat
          BY SMT, <3>5, <5>1
        <5> HIDE <5>1
        <5>3. i \in 1 .. n /\ n <= m => i \in 1 .. m
          BY SMT, <5>2
        <5> QED
          BY <4>1, <4>2, <5>1, <5>3
      <4> QED
        BY <4>1, <4>2, <4>3 DEF Has
    <3> QED
      BY <2>2, <3>4, <3>6 DEF Kept
  <2>3. CASE x[1] # s
    BY <1>6, <1>9, <2>1, <2>3 DEF Kept
  <2> QED
    BY <2>2, <2>3
<1>10. HeldIsKept(led, llog2, held2)'
  BY <1>2, <1>3, <1>4, <1>7, <1>9, HeldGoesOn
<1>11. LeadersCover(led, llog2, held2)'
  BY <1>4, <1>5, <1>7, CoverGoesOn
<1>12. CandidatesCover(led, llog2, held2)'
  BY <1>4, <1>5, <1>7, CandidatesGoOn
<1>13. RequestsFromLeaders(led, llog2)'
  <2>1. CallsGoOn /\ RequestsFromLeaders(led, llog) /\ llog \in [Nat -> Seq(LogEntry)]
    BY <1>1, <1>5, CallsStay DEF HistoryOK
  <2> QED
    BY <1>1, <1>3, <2>1, RequestsGoOn
<1>14. ServersOK(led, llog2, held2)'
  BY <1>3, <1>8, <1>10, <1>11 DEF ServersOK
<1> QED
  BY <1>4, <1>12, <1>13, <1>14, FollowsFromParts

-----------------------------------------------------------------------------
(* Elections *)

\* A server that stands for election covers what it held itself.
LEMMA CoversItself ==
  ASSUME NEW led, NEW llog, NEW held, NEW held2, Before(led, llog, held),
         Growth(led, llog, held, led, llog, held2), NEW s \in Server, NEW u \in Nat,
         u = currentTerm'[s], u > currentTerm[s]
  PROVE  Covers(led, llog, held2, s, u, log[s], u)
<1> SUFFICES ASSUME NEW x \in held2, x[1] = s, x[2] < u
             PROVE  Kept(led, llog, log[s], u, x[2], x[3])
  BY DEF Covers
<1>1. x[2] \in Nat /\ x[3] \in Nat
  BY HeldType DEF Growth
<1>2. x \in held
  BY SMT, <1>1 DEF Growth, HeldGrows
<1>3. Kept(led, llog, log[s], currentTerm[s], x[2], x[3])
  BY <1>2 DEF Before, HistoryOK, HeldIsKept
<1>4. currentTerm[s] \in Nat
  BY DEF Before, IInv, TypeOK
<1>5. \A v \in (x[2] + 1) .. currentTerm[s] : v \in (x[2] + 1) .. u
  BY SMT, <1>1, <1>4
<1> QED
  BY <1>3, <1>5 DEF Kept

\* checkElection.
LEMMA ElectionFollows ==
  ASSUME NEW led, NEW llog, NEW held, Before(led, llog, held), IInv', NEW s \in Server, checkElection(s)
  PROVE  \E held2 : Follows(led, llog, held, led, llog, held2)
<1>1. IInv
  BY DEF Before
<1>2. currentTerm \in [Server -> Nat] /\ state \in [Server -> {LEADER, FOLLOWER, CANDIDATE, GAVE_UP}]
  BY <1>1 DEF IInv, TypeOK
<1>3. PICK u \in Nat : u = currentTerm[s] + 1
  BY SMT, <1>2
<1> DEFINE new == {[cand |-> s, election |-> currentTerm[s] + 1, peer |-> p, pc |-> "ready",
                    args |-> NoVoteArgs(s), reply |-> NoVoteReply] : p \in Server \ {s}}
<1>4. /\ state' = [state EXCEPT ![s] = CANDIDATE] /\ currentTerm' = [currentTerm EXCEPT ![s] = u]
      /\ log' = log /\ UNCHANGED replication
      /\ voteCalls' = voteCalls \cup new /\ granted' = granted \cup {<<s, u, s>>}
  BY <1>3 DEF checkElection
<1>5. /\ currentTerm'[s] = u /\ u > currentTerm[s] /\ state'[s] = CANDIDATE
      /\ \A p \in Server \ {s} : currentTerm'[p] = currentTerm[p] /\ state'[p] = state[p]
  BY SMT, <1>2, <1>3, <1>4
<1>6. \A g \in new : g.pc = "ready"
  BY SMT
<1> HIDE DEF new
<1>7. \A p \in Server : VoteMoves(p) /\ CalmMoves(p) /\ StandsOn(p)
  <2>1. \A p \in Server : VoteMoves(p)
    BY <1>1, ElectionMoves
  <2>2. LEADER # CANDIDATE
    BY SMT DEF LEADER, CANDIDATE
  <2>3. ASSUME NEW p \in Server PROVE CalmMoves(p) /\ StandsOn(p)
    <3>1. CASE p = s
      BY <1>5, <2>2, <3>1 DEF CalmMoves, StandsOn
    <3>2. CASE p # s
      BY <1>4, <1>5, <3>2 DEF CalmMoves, StandsOn
    <3> QED
      BY <3>1, <3>2
  <2> QED
    BY <2>1, <2>3
<1>8. PICK held2 : held2 = held \cup NowHeld'
  OBVIOUS
<1>9. Growth(led, llog, held, led, llog, held2) /\ ServersOK(led, llog, held2)'
  BY <1>4, <1>7, <1>8, StillServers
<1>10. RequestsFromLeaders(led, llog)'
  BY <1>1, <1>4, CallsStay, CallsKeep
<1>11. CandidatesCover(led, llog, held2)'
  <2>1. ASSUME NEW v \in granted' PROVE v[2] <= currentTerm'[v[1]]
    <3>1. CASE v = <<s, u, s>>
      BY SMT, <1>5, <3>1
    <3>2. CASE v \in granted
      <4>1. v[1] \in Server /\ v[2] \in Nat /\ v[2] <= currentTerm[v[1]]
        BY <1>1, <3>2, VoteType, VoteIsPast DEF Votes
      <4>2. currentTerm[v[1]] \in Nat /\ currentTerm'[v[1]] \in Nat /\ currentTerm'[v[1]] >= currentTerm[v[1]]
        BY <1>1, <1>7, <4>1 DEF IInv, TypeOK, VoteMoves
      <4> QED
        BY SMT, <4>1, <4>2
    <3> QED
      BY <1>4, <3>1, <3>2
  <2>2. ASSUME NEW g \in voteCalls' PROVE RequestDescribes(g)'
    <3>1. CASE g.pc = "ready"
      BY <3>1 DEF RequestDescribes
    <3>2. CASE g.pc # "ready"
      BY <1>4, <1>6, <1>7, <3>2, RequestGoesOn
    <3> QED
      BY <3>1, <3>2
  <2>3. ASSUME NEW v \in Votes' PROVE VoteCovers(led, llog, held2, v)'
    <3>1. v \in Votes \/ v = <<s, u, s>>
      BY <1>4, <1>6 DEF Votes
    <3>2. CASE v \in Votes
      BY <1>7, <1>9, <3>2, VoteGoesOn
    <3>3. CASE v = <<s, u, s>>
      <4>1. Covers(led, llog, held2, s, u, log[s], u)
        BY <1>5, <1>9, CoversItself
      <4> QED
        BY <1>4, <3>3, <4>1 DEF VoteCovers
    <3> QED
      BY <3>1, <3>2, <3>3
  <2> QED
    BY <2>1, <2>2, <2>3 DEF CandidatesCover
<1> QED
  BY <1>9, <1>10, <1>11, FollowsFromParts

\* sendRequestVote.
LEMMA SendVoteFollows ==
  ASSUME NEW led, NEW llog, NEW held, Before(led, llog, held), IInv', NEW g \in voteCalls, sendRequestVote(g)
  PROVE  \E held2 : Follows(led, llog, held, led, llog, held2)
<1>1. IInv
  BY DEF Before
<1>2. PICK h : h = [g EXCEPT !.pc = "sent",
                             !.args = [Term |-> currentTerm[g.cand], CandidateId |-> g.cand,
                                       LastLogIndex |-> Len(log[g.cand]),
                                       LastLogTerm |-> LastTerm(log[g.cand])]]
  OBVIOUS
<1>3. /\ UNCHANGED <<state, currentTerm, votedFor>> /\ log' = log /\ granted' = granted
      /\ voteCalls' = (voteCalls \ {g}) \cup {h} /\ UNCHANGED replication
  BY <1>2 DEF sendRequestVote, durable
<1>4. g \in VoteCall
  BY <1>1 DEF IInv, TypeOK
<1>5. /\ h.cand = g.cand /\ h.pc = "sent"
      /\ h.args.LastLogIndex = Len(log[g.cand]) /\ h.args.LastLogTerm = LastTerm(log[g.cand])
  BY <1>4, <1>2 DEF VoteCall
<1>6. \A s \in Server : VoteMoves(s) /\ CalmMoves(s) /\ StandsOn(s)
  BY <1>1, <1>3, SendVoteMoves DEF AllMove, StateMoves, CalmMoves, StandsOn
<1>7. PICK held2 : held2 = held \cup NowHeld'
  OBVIOUS
<1>8. Growth(led, llog, held, led, llog, held2) /\ ServersOK(led, llog, held2)'
  BY <1>3, <1>6, <1>7, StillServers
<1>9. RequestsFromLeaders(led, llog)'
  BY <1>1, <1>3, CallsStay, CallsKeep
<1>10. CandidatesCover(led, llog, held2)'
  <2>1. Votes' \subseteq Votes
    BY <1>3, <1>5 DEF Votes
  <2>2. \A v \in Votes' : VoteCovers(led, llog, held2, v)'
    BY <1>6, <1>8, <2>1, VoteGoesOn
  <2>3. RequestDescribes(h)'
    BY <1>3, <1>5 DEF RequestDescribes
  <2>4. ASSUME NEW x \in voteCalls PROVE RequestDescribes(x)'
    <3>1. CASE x.pc = "ready"
      BY <3>1 DEF RequestDescribes
    <3>2. CASE x.pc # "ready"
      BY <1>6, <3>2, RequestGoesOn
    <3> QED
      BY <3>1, <3>2
  <2>5. \A v \in granted' : v[2] <= currentTerm'[v[1]]
    BY <1>3 DEF Before, HistoryOK, CandidatesCover
  <2> QED
    BY <1>3, <2>2, <2>3, <2>4, <2>5 DEF CandidatesCover
<1> QED
  BY <1>8, <1>9, <1>10, FollowsFromParts

\* The last term of a log that is not empty, and the logs it comes from.
LEMMA LastEntry ==
  ASSUME NEW led, NEW llog, NEW l \in Seq(LogEntry), FromLeaders(led, llog, l), Len(l) > 0
  PROVE  /\ LastTerm(l) = l[Len(l)].Term /\ LastTerm(l) \in Nat
         /\ Led(led, LastTerm(l)) /\ Agree(l, llog[LastTerm(l)], Len(l))
<1>1. Len(l) \in 1 .. Len(l)
  BY SMT
<1>2. LastTerm(l) = l[Len(l)].Term
  BY SMT, <1>1 DEF LastTerm, TermAt
<1>3. l[Len(l)].Term \in Nat
  BY <1>1, EntryType
<1>4. Led(led, l[Len(l)].Term) /\ Agree(l, llog[l[Len(l)].Term], Len(l))
  BY <1>1 DEF FromLeaders
<1> QED
  BY <1>2, <1>3, <1>4

LeaderLogs == [Nat -> Seq(LogEntry)]

\* The comparison RequestVote makes.
NotBehind(c, l) ==
  \/ LastTerm(c) > LastTerm(l)
  \/ LastTerm(c) = LastTerm(l) /\ Len(c) >= Len(l)

\* A log c at least as up to date as l has the entries of l, or the leader of
\* its last term has not.
LEMMA UpToDateKeeps ==
  ASSUME NEW led, NEW llog \in LeaderLogs, NEW l \in Seq(LogEntry), NEW c \in Seq(LogEntry),
         FromLeaders(led, llog, l), FromLeaders(led, llog, c),
         LogsFromLeaders(led, llog), NEW z \in Nat, LogOK(l, z), NEW u \in Nat, LogOK(c, u),
         NotBehind(c, l), NEW t \in Nat, NEW n \in Nat, Has(l, t, n)
  PROVE  Kept(led, llog, c, u, t, n)
<1>1. n \in 1 .. Len(l) /\ l[n].Term = t /\ Len(l) > 0 /\ Len(l) \in Nat /\ Len(c) \in Nat
  BY SMT DEF Has
<1>2. PICK T \in Nat : T = LastTerm(l)
  <2>1. LastTerm(l) \in Nat
    BY <1>1, LastEntry DEF LeaderLogs, LogsFromLeaders
  <2> QED
    BY <2>1
<1>3. t <= T
  <2>1. T = l[Len(l)].Term
    BY <1>1, <1>2, LastEntry DEF LeaderLogs
  <2> QED
    BY SMT, <1>1, <2>1 DEF LogOK
<1>4. T >= 1
  BY SMT, <1>1, <1>3 DEF LogOK
<1>5. Len(c) > 0
  <2>1. CASE Len(c) = 0
    <3>1. LastTerm(c) = 0
      BY <2>1 DEF LastTerm, TermAt
    <3> QED
      BY SMT, <1>1, <1>2, <1>4, <2>1, <3>1 DEF NotBehind
  <2> QED
    BY SMT, <1>1, <2>1
<1>6. PICK W \in Nat : W = LastTerm(c)
  BY <1>5, LastEntry DEF LeaderLogs
<1>7. PICK w \in Seq(LogEntry) : w = llog[W]
  BY <1>6 DEF LeaderLogs
<1>8. Led(led, W) /\ Agree(c, w, Len(c)) /\ W = c[Len(c)].Term
  BY <1>5, <1>6, <1>7, LastEntry DEF LeaderLogs
<1>9. CASE W = T /\ Len(c) >= Len(l)
  <2>1. Agree(l, w, Len(l))
    BY <1>1, <1>2, <1>7, <1>9, LastEntry DEF LeaderLogs
  <2>2. Has(c, t, n)
    BY SMT, <1>1, <1>8, <1>9, <2>1 DEF Agree, Has
  <2> QED
    BY <2>2 DEF Kept
<1>10. CASE W > T
  <2>1. W \in (t + 1) .. u
    <3>1. W \in 1 .. u
      BY SMT, <1>5, <1>8 DEF LogOK
    <3> QED
      BY SMT, <1>3, <1>10, <3>1
  <2>2. CASE ~Has(w, t, n)
    BY <1>7, <1>8, <2>1, <2>2 DEF Kept
  <2>3. CASE Has(w, t, n)
    <3>1. n \in 1 .. Len(w) /\ w[n].Term = t
      BY <2>3 DEF Has
    <3>2. Len(c) \in 1 .. Len(w) /\ w[Len(c)].Term = W
      BY SMT, <1>5, <1>8 DEF Agree
    <3>3. LogOK(w, W)
      <4>1. W \in DOMAIN llog
        BY DEF LeaderLogs
      <4> QED
        BY <1>7, <4>1 DEF LogsFromLeaders
    <3>4. n < Len(c)
      <4>1. CASE Len(c) <= n
        <5>1. W <= t
          BY <3>1, <3>2, <3>3, <4>1 DEF LogOK
        <5> QED
          BY SMT, <2>1, <5>1
      <4> QED
        BY SMT, <1>1, <3>1, <4>1
    <3>5. Has(c, t, n)
      BY SMT, <1>8, <3>1, <3>4 DEF Agree, Has
    <3> QED
      BY <3>5 DEF Kept
  <2> QED
    BY <2>2, <2>3
<1> QED
  BY <1>1, <1>2, <1>6, <1>9, <1>10 DEF NotBehind

\* A vote that is granted: the candidate has what its voter held.
LEMMA GrantCovers ==
  ASSUME NEW led, NEW llog, NEW held, NEW held2, Before(led, llog, held),
         Growth(led, llog, held, led, llog, held2), NEW g \in voteCalls, g.pc # "ready",
         GrantsVote(g.peer, g.args), currentTerm'[g.peer] = g.args.Term,
         state[g.cand] = CANDIDATE, currentTerm[g.cand] = g.args.Term
  PROVE  Covers(led, llog, held2, g.peer, g.args.Term, log[g.cand], g.args.Term)
<1>1. IInv /\ HistoryOK(led, llog, held)
  BY DEF Before
<1>2. g \in VoteCall
  BY <1>1 DEF IInv, TypeOK
<1>3. g.cand \in Server /\ g.peer \in Server /\ g.args.Term \in Nat
  BY <1>2 DEF VoteCall, RequestVoteArgs
<1>4. PICK i \in Server : i = g.peer
  BY <1>3
<1>5. PICK u \in Nat : u = g.args.Term
  BY <1>3
<1>6. PICK c \in Seq(LogEntry) : c = log[g.cand]
  BY <1>1, <1>3 DEF IInv, TypeOK
<1>7. PICK l \in Seq(LogEntry) : l = log[i]
  BY <1>1 DEF IInv, TypeOK
<1>8. PICK z \in Nat : z = currentTerm[i]
  BY <1>1 DEF IInv, TypeOK
<1>9. NotBehind(c, l) /\ u >= z
  <2>1. g.args.LastLogIndex = Len(c) /\ g.args.LastLogTerm = LastTerm(c)
    BY <1>1, <1>6 DEF HistoryOK, CandidatesCover, RequestDescribes
  <2> QED
    BY <1>4, <1>5, <1>7, <1>8, <2>1 DEF GrantsVote, UpToDate, NotBehind
<1>10. llog \in [Nat -> Seq(LogEntry)] /\ LogsFromLeaders(led, llog)
  BY <1>1 DEF HistoryOK
<1>11. FromLeaders(led, llog, l) /\ FromLeaders(led, llog, c) /\ LogOK(l, z) /\ LogOK(c, u)
  BY <1>1, <1>3, <1>5, <1>6, <1>7, <1>8, <1>10 DEF LogsFromLeaders, IInv, IndexInvariant
<1>12. ASSUME NEW x \in held2, x[1] = i, x[2] < u PROVE Kept(led, llog, c, u, x[2], x[3])
  <2>1. x[2] \in Nat /\ x[3] \in Nat
    BY HeldType DEF Growth
  <2>2. x \in held
    <3>1. x \in held \/ x[2] = u
      BY <1>4, <1>5, <1>12 DEF Growth, HeldGrows
    <3> QED
      BY SMT, <1>12, <2>1, <3>1
  <2>3. PICK t \in Nat : t = x[2]
    BY <2>1
  <2>4. PICK n \in Nat : n = x[3]
    BY <2>1
  <2>5. Kept(led, llog, l, z, t, n)
    BY <1>1, <1>7, <1>8, <1>12, <2>2, <2>3, <2>4 DEF HistoryOK, HeldIsKept
  <2>6. CASE Has(l, t, n)
    <3>1. Kept(led, llog, c, u, t, n)
      BY <1>9, <1>10, <1>11, <2>6, UpToDateKeeps DEF LeaderLogs
    <3> QED
      BY <2>3, <2>4, <3>1
  <2>7. CASE ~Has(l, t, n)
    <3>1. PICK v \in (t + 1) .. z : Led(led, v) /\ ~Has(llog[v], t, n)
      BY <2>5, <2>7 DEF Kept
    <3>2. v \in (t + 1) .. u
      BY SMT, <1>9
    <3>3. Kept(led, llog, c, u, t, n)
      BY <3>1, <3>2 DEF Kept
    <3> QED
      BY <2>3, <2>4, <3>3
  <2> QED
    BY <2>6, <2>7
<1>13. Covers(led, llog, held2, i, u, c, u)
  BY <1>12 DEF Covers
<1> QED
  BY <1>4, <1>5, <1>6, <1>13

\* DeliverRequestVote.
LEMMA DeliverVoteFollows ==
  ASSUME NEW led, NEW llog, NEW held, Before(led, llog, held), IInv', NEW g \in voteCalls, DeliverRequestVote(g)
  PROVE  \E held2 : Follows(led, llog, held, led, llog, held2)
<1>1. IInv
  BY DEF Before
<1>2. PICK h : h = [g EXCEPT !.pc = "replied", !.reply = RequestVoteAnswer(g.peer, g.args)]
  OBVIOUS
<1>3. /\ log' = log /\ granted' = granted /\ voteCalls' = (voteCalls \ {g}) \cup {h}
      /\ UNCHANGED replication /\ g.pc = "sent"
  BY <1>2 DEF DeliverRequestVote, RequestVote, durable
<1>4. g \in VoteCall
  BY <1>1 DEF IInv, TypeOK
<1>5. /\ h.cand = g.cand /\ h.peer = g.peer /\ h.pc = "replied" /\ h.args = g.args
      /\ h.reply = RequestVoteAnswer(g.peer, g.args)
  BY <1>4, <1>2 DEF VoteCall
<1>6. \A s \in Server : VoteMoves(s) /\ StateMoves(s) /\ CalmMoves(s) /\ StandsOn(s)
  BY <1>1, <1>3, DeliverVoteMoves DEF AllMove, StateMoves, CalmMoves, StandsOn
<1>7. PICK held2 : held2 = held \cup NowHeld'
  OBVIOUS
<1>8. Growth(led, llog, held, led, llog, held2) /\ ServersOK(led, llog, held2)'
  BY <1>3, <1>6, <1>7, StillServers
<1>9. RequestsFromLeaders(led, llog)'
  BY <1>1, <1>3, CallsStay, CallsKeep
<1>10. CandidatesCover(led, llog, held2)'
  <2>1. ASSUME NEW v \in granted' PROVE v[2] <= currentTerm'[v[1]]
    <3>1. v[1] \in Server /\ v[2] \in Nat /\ v[2] <= currentTerm[v[1]]
      BY <1>1, <1>3, VoteType, VoteIsPast DEF Votes
    <3>2. currentTerm[v[1]] \in Nat /\ currentTerm'[v[1]] \in Nat /\ currentTerm'[v[1]] >= currentTerm[v[1]]
      BY <1>1, <1>6, <3>1 DEF IInv, TypeOK, VoteMoves
    <3> QED
      BY SMT, <3>1, <3>2
  <2>2. ASSUME NEW x \in voteCalls PROVE RequestDescribes(x)'
    <3>1. CASE x.pc = "ready"
      BY <3>1 DEF RequestDescribes
    <3>2. CASE x.pc # "ready"
      BY <1>6, <3>2, RequestGoesOn
    <3> QED
      BY <3>1, <3>2
  <2>3. RequestDescribes(h)'
    BY <1>3, <1>5, <1>6, RequestGoesOn
  <2>4. ASSUME NEW v \in Votes' PROVE VoteCovers(led, llog, held2, v)'
    <3>1. CASE v \in Votes
      BY <1>6, <1>8, <3>1, VoteGoesOn
    <3>2. CASE v \notin Votes
      <4>1. v = <<g.cand, g.args.Term, g.peer>> /\ h.reply.VoteGranted
        BY <1>3, <1>5, <3>2 DEF Votes
      <4>2. GrantsVote(g.peer, g.args)
        BY SMT, <1>5, <4>1 DEF RequestVoteAnswer
      <4>3. g.cand \in Server /\ g.peer \in Server
        BY <1>4 DEF VoteCall
      <4>4. currentTerm'[g.peer] = g.args.Term
        BY <1>1, <4>2, <4>3 DEF DeliverRequestVote, RequestVote, IInv, TypeOK
      <4>5. ASSUME state'[g.cand] = CANDIDATE, currentTerm'[g.cand] = g.args.Term
            PROVE  Covers(led, llog, held2, g.peer, g.args.Term, log[g.cand], g.args.Term)
        <5>1. state[g.cand] = CANDIDATE /\ currentTerm[g.cand] = g.args.Term
          BY <1>6, <4>3, <4>5 DEF StateMoves
        <5> QED
          BY <1>3, <1>8, <4>2, <4>4, <5>1, GrantCovers
      <4> QED
        BY <1>3, <4>1, <4>5 DEF VoteCovers
    <3> QED
      BY <3>1, <3>2
  <2> QED
    BY <1>3, <2>1, <2>2, <2>3, <2>4 DEF CandidatesCover
<1> QED
  BY <1>8, <1>9, <1>10, FollowsFromParts

\* A vote goroutine that returns counts votes of the current term only: its
\* server becomes leader with those of a majority, or moves like any other.
LEMMA ReturnKinds ==
  ASSUME IInv, VoteInvariant, NEW g \in voteCalls, RequestVoteReturns(g)
  PROVE  /\ log' = log /\ voteCalls' \subseteq voteCalls /\ UNCHANGED replication
         /\ granted \subseteq granted' /\ granted' \subseteq Votes
         /\ \/ AllMove
            \/ /\ state[g.cand] = CANDIDATE /\ state' = [state EXCEPT ![g.cand] = LEADER]
               /\ currentTerm' = currentTerm
               /\ Majority(Cardinality({p \in Server : <<g.cand, currentTerm[g.cand], p>> \in granted'}))
<1> DEFINE s == g.cand
           e == g.election
           v == <<s, e, g.peer>>
           counted == IF state[s] = CANDIDATE /\ g.reply.VoteGranted THEN granted \cup {v} ELSE granted
           GivenUp == /\ granted' = granted /\ currentTerm' = currentTerm
                      /\ state' = [state EXCEPT ![s] = GAVE_UP]
           Ignored == granted' = granted /\ currentTerm' = currentTerm /\ state' = state
           Demoted == /\ granted' = granted
                      /\ currentTerm' = [currentTerm EXCEPT ![s] = g.reply.Term]
                      /\ state' = [state EXCEPT ![s] = FOLLOWER]
           Counted == /\ g.args.Term = currentTerm[s]
                      /\ granted' = counted /\ currentTerm' = currentTerm
                      /\ \/ /\ Majority(Cardinality({p \in Server : <<s, e, p>> \in counted}))
                            /\ state[s] = CANDIDATE
                            /\ state' = [state EXCEPT ![s] = LEADER]
                         \/ state' = state
<1>1. log' = log /\ voteCalls' \subseteq voteCalls /\ UNCHANGED replication /\ g.pc = "replied"
  BY DEF RequestVoteReturns
<1>2. \A q \in Server : VoteMoves(q)
  BY VoteReturnsMoves
<1>3. /\ state \in [Server -> {LEADER, FOLLOWER, CANDIDATE, GAVE_UP}] /\ currentTerm \in [Server -> Nat]
      /\ s \in Server
  BY DEF IInv, TypeOK, VoteCall
<1>4. ASSUME state[s] = CANDIDATE, g.args.Term = currentTerm[s] PROVE e = currentTerm[s]
  <2>1. <<s, currentTerm[s], s>> \in granted
    BY <1>3, <1>4 DEF VoteInvariant, StandingOK
  <2>2. g.args.Term # e => <<s, g.args.Term, s>> \notin granted
    BY <1>1 DEF VoteInvariant, VoteCallOK
  <2> QED
    BY <1>4, <2>1, <2>2
<1>5. granted \subseteq Votes
  BY DEF Votes
<1>6. \/ GivenUp \/ Ignored \/ Demoted \/ Counted
  BY DEF RequestVoteReturns
<1>7. CASE GivenUp
  <2>1. AllMove
    BY SMT, <1>2, <1>3, <1>7 DEF AllMove, StateMoves, LEADER, CANDIDATE, GAVE_UP
  <2> QED
    BY <1>1, <1>5, <1>7, <2>1
<1>8. CASE Ignored
  <2>1. AllMove
    BY <1>2, <1>8 DEF AllMove, StateMoves
  <2> QED
    BY <1>1, <1>5, <1>8, <2>1
<1>9. CASE Demoted
  <2>1. AllMove
    BY SMT, <1>2, <1>3, <1>9 DEF AllMove, StateMoves, LEADER, CANDIDATE, FOLLOWER
  <2> QED
    BY <1>1, <1>5, <1>9, <2>1
<1>10. CASE Counted
  <2>1. granted \subseteq granted' /\ granted' \subseteq Votes
    <3>1. CASE state[s] = CANDIDATE /\ g.reply.VoteGranted
      <4>1. v = <<g.cand, g.args.Term, g.peer>>
        BY <1>4, <1>10, <3>1
      <4>2. v \in Votes
        BY <1>1, <3>1, <4>1 DEF Votes
      <4>3. granted' = granted \cup {v}
        BY <1>10, <3>1
      <4> QED
        BY <1>5, <4>2, <4>3
    <3>2. CASE ~(state[s] = CANDIDATE /\ g.reply.VoteGranted)
      BY <1>5, <1>10, <3>2
    <3> QED
      BY <3>1, <3>2
  <2>2. CASE state' = state
    <3>1. AllMove
      BY <1>2, <1>10, <2>2 DEF AllMove, StateMoves
    <3> QED
      BY <1>1, <2>1, <3>1
  <2>3. CASE state' # state
    <3>1. /\ Majority(Cardinality({p \in Server : <<s, e, p>> \in granted'}))
          /\ state[s] = CANDIDATE /\ state' = [state EXCEPT ![s] = LEADER] /\ currentTerm' = currentTerm
      BY <1>10, <2>3
    <3>2. e = currentTerm[s]
      BY <1>4, <1>10, <3>1
    <3> HIDE DEF s, e
    <3>3. Majority(Cardinality({p \in Server : <<s, currentTerm[s], p>> \in granted'}))
      BY <3>1, <3>2
    <3> QED
      BY <1>1, <2>1, <3>1, <3>3 DEF s
  <2> QED
    BY <2>2, <2>3
<1> QED
  BY <1>6, <1>7, <1>8, <1>9, <1>10

\* A returning vote goroutine that makes no leader.
LEMMA CountFollows ==
  ASSUME NEW led, NEW llog, NEW held, Before(led, llog, held), IInv', AllMove, log' = log,
         granted \subseteq granted', granted' \subseteq Votes, voteCalls' \subseteq voteCalls,
         UNCHANGED replication
  PROVE  \E held2 : Follows(led, llog, held, led, llog, held2)
<1>1. IInv
  BY DEF Before
<1>2. PICK held2 : held2 = held \cup NowHeld'
  OBVIOUS
<1>3. \A s \in Server : VoteMoves(s) /\ CalmMoves(s) /\ StandsOn(s)
  BY DEF AllMove, StateMoves, CalmMoves, StandsOn
<1>4. Growth(led, llog, held, led, llog, held2) /\ ServersOK(led, llog, held2)'
  BY <1>2, <1>3, StillServers
<1>5. CandidatesCover(led, llog, held2)'
  BY <1>3, <1>4, CountsGoOn
<1>6. RequestsFromLeaders(led, llog)'
  BY <1>1, CallsStay, CallsKeep
<1> QED
  BY <1>4, <1>5, <1>6, FollowsFromParts

\* A candidate that wins.
Wins(s) ==
  /\ log' = log /\ voteCalls' \subseteq voteCalls /\ UNCHANGED replication
  /\ granted \subseteq granted' /\ granted' \subseteq Votes
  /\ state[s] = CANDIDATE /\ state' = [state EXCEPT ![s] = LEADER] /\ currentTerm' = currentTerm
  /\ Majority(Cardinality({p \in Server : <<s, currentTerm[s], p>> \in granted'}))

\* Its term has no other leader: two majorities have a voter in common.
LEMMA NoRival ==
  ASSUME NEW led, NEW llog, NEW held, Before(led, llog, held), NEW s \in Server, Wins(s)
  PROVE  ~Led(led, currentTerm[s])
<1> SUFFICES ASSUME NEW p \in Server, <<p, currentTerm[s]>> \in led PROVE FALSE
  BY DEF Led
<1>1. PICK u : u = currentTerm[s]
  OBVIOUS
<1>2. PICK e : e = <<p, u>>
  OBVIOUS
<1>3. e \in led /\ e[1] = p /\ e[2] = u
  BY <1>1, <1>2
<1>4. p # s
  BY <1>1, <1>3 DEF Before, HistoryOK, LeadersOnRecord, Wins
<1>5. LeadersCover(led, llog, held)
  BY DEF Before, HistoryOK
<1>6. PICK Q \in SUBSET Server : /\ Majority(Cardinality(Q))
                                 /\ \A q \in Q : <<e[1], e[2], q>> \in granted
  BY <1>3, <1>5 DEF LeadersCover
<1>7. PICK R \in SUBSET Server : Majority(Cardinality(R)) /\ R = {q \in Server : <<s, u, q>> \in granted'}
  BY <1>1 DEF Wins
<1>8. PICK q \in Q : q \in R
  BY <1>6, <1>7 DEF Before, MajoritiesIntersect
<1>9. <<p, u, q>> \in Votes /\ <<s, u, q>> \in Votes
  BY <1>3, <1>6, <1>7, <1>8 DEF Votes, Wins
<1> QED
  BY <1>4, <1>9 DEF Before, VoteInvariant, VotesAreUnique

\* The record with s as a leader of its term and its log as the log of that term.
Crowns(led, llog, s, led2, llog2) ==
  /\ led2 = led \cup {<<s, currentTerm[s]>>}
  /\ llog2 \in [Nat -> Seq(LogEntry)] /\ llog2[currentTerm[s]] = log[s]
  /\ \A t \in Nat : t # currentTerm[s] => llog2[t] = llog[t]
  /\ Grows(led, llog, led2, llog2) /\ LogsFromLeaders(led2, llog2)'

\* Its log becomes the log of record of its term.
LEMMA WinGrows ==
  ASSUME NEW led, NEW llog, NEW held, Before(led, llog, held), IInv', NEW s \in Server, Wins(s)
  PROVE  \E led2, llog2 : Crowns(led, llog, s, led2, llog2)
<1>1. PICK led2 : led2 = led \cup {<<s, currentTerm[s]>>}
  OBVIOUS
<1>2. PICK u \in Nat : u = currentTerm[s]
  BY DEF Before, IInv, TypeOK
<1>3. PICK l \in Seq(LogEntry) : l = log[s]
  BY DEF Before, IInv, TypeOK
<1>4. /\ llog \in [Nat -> Seq(LogEntry)] /\ LogsFromLeaders(led, llog) /\ log' = log
      /\ LogOK(l, u)
  BY <1>2, <1>3 DEF Before, HistoryOK, Wins, IInv, IndexInvariant
<1>5. ~Led(led, u)
  BY <1>2, NoRival
<1>6. PICK llog2 : llog2 = [llog EXCEPT ![u] = l]
  OBVIOUS
<1>7. llog2 \in [Nat -> Seq(LogEntry)] /\ llog2[u] = l /\ \A t \in Nat : t # u => llog2[t] = llog[t]
  BY <1>4, <1>6
<1>8. Grows(led, llog, led2, llog2)
  <2>1. ASSUME NEW t \in Nat, Led(led, t)
        PROVE  /\ Agree(llog[t], llog2[t], Len(llog[t]))
               /\ \A i \in 1 .. Len(llog2[t]) : i > Len(llog[t]) => llog2[t][i].Term = t
    <3>1. llog2[t] = llog[t]
      BY <1>5, <1>7, <2>1
    <3>2. PICK h \in Seq(LogEntry) : h = llog[t]
      BY <1>4
    <3>3. Agree(h, h, Len(h)) /\ \A i \in 1 .. Len(h) : ~(i > Len(h))
      BY SMT DEF Agree
    <3> QED
      BY <3>1, <3>2, <3>3
  <2>2. led \subseteq led2
    BY <1>1
  <2> QED
    BY <2>1, <2>2 DEF Grows
<1>9. ASSUME NEW h \in Seq(LogEntry), FromLeaders(led, llog, h) PROVE FromLeaders(led2, llog2, h)
  BY <1>4, <1>7, <1>8, <1>9, GrowsFrom
<1>10. \A p \in Server : FromLeaders(led2, llog2, log[p])
  BY <1>4, <1>9 DEF LogsFromLeaders, Before, IInv, TypeOK
<1>11. ASSUME NEW t \in Nat PROVE FromLeaders(led2, llog2, llog2[t]) /\ LogOK(llog2[t], t)
  <2>1. CASE t = u
    BY <1>3, <1>4, <1>7, <1>10, <2>1
  <2>2. CASE t # u
    <3>1. PICK h \in Seq(LogEntry) : h = llog[t]
      BY <1>4
    <3>2. llog2[t] = h
      BY <1>7, <2>2, <3>1
    <3>3. t \in DOMAIN llog
      BY <1>4
    <3>4. FromLeaders(led, llog, h) /\ LogOK(h, t)
      BY <1>4, <3>1, <3>3 DEF LogsFromLeaders
    <3> QED
      BY <1>9, <3>2, <3>4
  <2> QED
    BY <2>1, <2>2
<1>12. DOMAIN llog2 = Nat
  BY <1>7
<1>13. LogsFromLeaders(led2, llog2)'
  BY <1>4, <1>10, <1>11, <1>12 DEF LogsFromLeaders
<1> QED
  BY <1>1, <1>2, <1>3, <1>7, <1>8, <1>13 DEF Crowns

\* A log that covers what a voter held goes on doing so.
LEMMA LogCovers ==
  ASSUME NEW led, NEW llog, NEW held, NEW led2, NEW llog2, NEW held2,
         HistoryTypes(led, llog, held), Growth(led, llog, held, led2, llog2, held2),
         NEW p \in Server, NEW u \in Nat, NEW v \in Nat, NEW l,
         currentTerm'[p] \in Nat, currentTerm'[p] >= u, Covers(led, llog, held, p, u, l, v)
  PROVE  Covers(led2, llog2, held2, p, u, l, v)
<1>1. v <= v
  BY SMT
<1> QED
  BY <1>1, GrowsCovers

\* The winner has what a majority of its voters held.
LEMMA WinCovers ==
  ASSUME NEW led, NEW llog, NEW held, NEW led2, NEW llog2, NEW held2,
         Before(led, llog, held), Growth(led, llog, held, led2, llog2, held2),
         IInv', NEW s \in Server, Wins(s), NEW u \in Nat, u = currentTerm[s]
  PROVE  \E Q \in SUBSET Server :
           /\ Majority(Cardinality(Q))
           /\ \A p \in Q : /\ <<s, u, p>> \in granted'
                           /\ Covers(led2, llog2, held2, p, u, log[s], u - 1)
<1>1. PICK Q \in SUBSET Server : Majority(Cardinality(Q)) /\ Q = {q \in Server : <<s, u, q>> \in granted'}
  BY DEF Wins
<1>2. u > 0 /\ u - 1 \in Nat
  <2>1. u > 0
    BY DEF Before, IInv, IndexInvariant, Wins
  <2> QED
    BY SMT, <2>1
<1>3. ASSUME NEW p \in Q PROVE Covers(led2, llog2, held2, p, u, log[s], u - 1)
  <2>1. <<s, u, p>> \in Votes
    BY <1>1, <1>3 DEF Wins
  <2>2. PICK v : v = <<s, u, p>>
    OBVIOUS
  <2>3. v \in Votes /\ v[1] = s /\ v[2] = u /\ v[3] = p
    BY <2>1, <2>2
  <2>4. VoteCovers(led, llog, held, v)
    BY <2>3 DEF Before, HistoryOK, CandidatesCover
  <2>5. Covers(led, llog, held, p, u, log[s], u)
    BY <2>3, <2>4 DEF VoteCovers, Wins
  <2>6. HistoryTypes(led, llog, held)
    BY DEF Before, HistoryOK, HistoryTypes
  <2>7. Covers(led, llog, held, p, u, log[s], u - 1)
    <3> SUFFICES ASSUME NEW x \in held, x[1] = p, x[2] < u, ~Has(log[s], x[2], x[3])
                 PROVE  \E w \in (x[2] + 1) .. (u - 1) : Led(led, w) /\ ~Has(llog[w], x[2], x[3])
      BY DEF Covers, Kept
    <3>1. x[2] \in Nat
      BY <2>6, HeldType
    <3>2. PICK w \in (x[2] + 1) .. u : Led(led, w) /\ ~Has(llog[w], x[2], x[3])
      BY <2>5 DEF Covers, Kept
    <3>3. w # u
      BY <3>2, NoRival
    <3>4. w \in (x[2] + 1) .. (u - 1)
      BY SMT, <3>1, <3>3
    <3> QED
      BY <3>2, <3>4
  <2>8. currentTerm'[p] \in Nat /\ currentTerm'[p] >= u
    <3>1. currentTerm[p] \in Nat /\ currentTerm' = currentTerm
      BY DEF Before, IInv, TypeOK, Wins
    <3>2. currentTerm[p] > u \/ currentTerm[p] = u
      BY <2>3 DEF Before, VoteInvariant, VotesBind
    <3> QED
      BY SMT, <3>1, <3>2
  <2>9. PICK l : l = log[s]
    OBVIOUS
  <2>10. PICK w \in Nat : w = u - 1 /\ l = log[s]
    BY <1>2, <2>9
  <2>11. Covers(led, llog, held, p, u, l, w) /\ p \in Server
    BY <2>7, <2>10
  <2>12. Covers(led2, llog2, held2, p, u, l, w)
    BY <2>6, <2>8, <2>11, LogCovers
  <2> QED
    BY <2>10, <2>12
<1> QED
  BY <1>1, <1>3

\* A returning vote goroutine that makes a leader.
LEMMA WinFollows ==
  ASSUME NEW led, NEW llog, NEW held, Before(led, llog, held), IInv', NEW s \in Server, Wins(s),
         \A p \in Server : VoteMoves(p)
  PROVE  \E led2, llog2, held2 : Follows(led, llog, held, led2, llog2, held2)
<1>1. IInv /\ VoteInvariant /\ HistoryOK(led, llog, held)
  BY DEF Before
<1>2. PICK u \in Nat : u = currentTerm[s]
  BY <1>1 DEF IInv, TypeOK
<1>3. PICK held2 : held2 = held \cup NowHeld'
  OBVIOUS
<1>4. PICK led2, llog2 : Crowns(led, llog, s, led2, llog2)
  BY WinGrows
<1>5. /\ led2 = led \cup {<<s, currentTerm[s]>>}
      /\ llog2 \in [Nat -> Seq(LogEntry)] /\ llog2[currentTerm[s]] = log[s]
      /\ \A t \in Nat : t # currentTerm[s] => llog2[t] = llog[t]
      /\ Grows(led, llog, led2, llog2) /\ LogsFromLeaders(led2, llog2)'
  BY <1>4 DEF Crowns
<1>6. led2 \subseteq Server \X Nat
  <2>1. led \subseteq Server \X Nat /\ <<s, u>> \in Server \X Nat
    BY <1>1 DEF HistoryOK
  <2> QED
    BY <1>2, <1>5, <2>1
<1>7. Growth(led, llog, held, led2, llog2, held2)
  BY <1>3, <1>5, <1>6, GrowthHolds
<1>8. /\ log' = log /\ voteCalls' \subseteq voteCalls /\ UNCHANGED replication
      /\ granted \subseteq granted' /\ granted' \subseteq Votes /\ currentTerm' = currentTerm
      /\ state[s] = CANDIDATE /\ state'[s] = LEADER /\ \A p \in Server \ {s} : state'[p] = state[p]
  BY <1>1 DEF Wins, IInv, TypeOK
<1>9. \A p \in Server : StandsOn(p)
  <2>1. LEADER # CANDIDATE
    BY SMT DEF LEADER, CANDIDATE
  <2>2. ASSUME NEW p \in Server PROVE StandsOn(p)
    <3>1. CASE p = s
      BY <1>8, <2>1, <3>1 DEF StandsOn
    <3>2. CASE p # s
      BY <1>8, <3>2 DEF StandsOn
    <3> QED
      BY <3>1, <3>2
  <2> QED
    BY <2>2
<1>10. ~Led(led, u)
  BY <1>2, NoRival
<1>11. LeadersOnRecord(led2, llog2)'
  <2>1. LeadersOnRecord(led, llog)
    BY <1>1 DEF HistoryOK
  <2>2. ASSUME NEW p \in Server, state'[p] = LEADER
        PROVE  <<p, currentTerm'[p]>> \in led2 /\ llog2[currentTerm'[p]] = log'[p]
    <3>1. CASE p = s
      BY <1>5, <1>8, <3>1
    <3>2. CASE p # s
      <4>1. <<p, currentTerm[p]>> \in led /\ llog[currentTerm[p]] = log[p] /\ currentTerm[p] \in Nat
        BY <1>1, <1>8, <2>1, <2>2, <3>2 DEF LeadersOnRecord, IInv, TypeOK
      <4>2. currentTerm[p] # currentTerm[s]
        BY <1>2, <1>10, <4>1 DEF Led
      <4> QED
        BY <1>5, <1>8, <4>1, <4>2
    <3> QED
      BY <3>1, <3>2
  <2>3. ASSUME NEW e \in led2
        PROVE  /\ e[2] <= currentTerm'[e[1]]
               /\ e[2] = currentTerm'[e[1]] => state'[e[1]] # CANDIDATE
    <3>1. CASE e \in led
      <4>1. /\ e[2] <= currentTerm[e[1]] /\ e[1] \in Server
            /\ e[2] = currentTerm[e[1]] => state[e[1]] # CANDIDATE
        BY <1>1, <2>1, <3>1 DEF LeadersOnRecord, HistoryOK
      <4>2. state'[e[1]] = CANDIDATE => state[e[1]] = CANDIDATE
        BY <1>8, <4>1
      <4> QED
        BY <1>8, <4>1, <4>2
    <3>2. CASE e = <<s, currentTerm[s]>>
      <4>1. e[1] = s /\ e[2] = u
        BY <1>2, <3>2
      <4> QED
        BY SMT, <1>2, <1>8, <4>1 DEF LEADER, CANDIDATE
    <3> QED
      BY <1>5, <3>1, <3>2
  <2> QED
    BY <2>2, <2>3 DEF LeadersOnRecord
<1>12. HeldIsKept(led2, llog2, held2)'
  <2>1. \A x \in held : Has(log[x[1]], x[2], x[3]) =>
          Kept(led2, llog2, log'[x[1]], currentTerm'[x[1]], x[2], x[3])
    BY <1>8 DEF Kept
  <2> QED
    BY <1>3, <1>5, <1>7, <2>1, HeldGoesOn
<1>13. LeadersCover(led2, llog2, held2)'
  <2>1. ASSUME NEW e \in led2
        PROVE  \E Q \in SUBSET Server :
                 /\ Majority(Cardinality(Q))
                 /\ \A p \in Q : /\ <<e[1], e[2], p>> \in granted'
                                 /\ Covers(led2, llog2, held2, p, e[2], llog2[e[2]], e[2] - 1)
    <3>1. CASE e \in led
      BY <1>7, <1>8, <3>1, LeaderGoesOn
    <3>2. CASE e = <<s, currentTerm[s]>>
      <4>1. e[1] = s /\ e[2] = u /\ llog2[e[2]] = log[s]
        BY <1>2, <1>5, <3>2
      <4>2. \E Q \in SUBSET Server :
              /\ Majority(Cardinality(Q))
              /\ \A p \in Q : /\ <<s, u, p>> \in granted'
                              /\ Covers(led2, llog2, held2, p, u, log[s], u - 1)
        BY <1>2, <1>7, WinCovers
      <4> QED
        BY <4>1, <4>2
    <3> QED
      BY <1>5, <3>1, <3>2
  <2> QED
    BY <2>1 DEF LeadersCover
<1>14. CandidatesCover(led2, llog2, held2)'
  BY <1>7, <1>8, <1>9, CountsGoOn
<1>15. RequestsFromLeaders(led2, llog2)'
  <2>1. CallsGoOn /\ RequestsFromLeaders(led, llog) /\ llog \in [Nat -> Seq(LogEntry)]
    BY <1>1, <1>8, CallsStay DEF HistoryOK
  <2>2. \A p \in Server, t \in Nat : <<p, t>> \in led2 => <<p, t>> \in led \/ ~Led(led, t)
    BY <1>2, <1>5, <1>10
  <2> QED
    BY <1>1, <1>5, <2>1, <2>2, RequestsGoOn
<1>16. ServersOK(led2, llog2, held2)'
  BY <1>5, <1>11, <1>12, <1>13 DEF ServersOK
<1> QED
  BY <1>7, <1>14, <1>15, <1>16, FollowsFromParts

\* Without late vote requests every step leads from one history to the next.
LEMMA HistoryKeeps ==
  ASSUME NEW led, NEW llog, NEW held, Before(led, llog, held), IInv', [Next]_vars
  PROVE  \E led2, llog2, held2 : Follows(led, llog, held, led2, llog2, held2)
<1>1. IInv /\ VoteInvariant
  BY DEF Before
<1>2. CASE Quiet
  <2>1. CASE \/ UNCHANGED vars
             \/ \E s \in Server : sendHeartbeat(s) \/ checkApply(s)
             \/ \E m \in lateVotes : DeliverLateVote(m)
             \/ \E g \in appendCalls : \/ sendAppendEntries(g)
                                       \/ AppendEntriesReturns(g) \/ AppendEntriesFails(g)
    BY <2>1, GoroutinesFollow
  <2>2. CASE \E s \in Server, c \in Command : Start(s, c)
    BY <2>2, StartFollows
  <2>3. CASE \/ \E g \in appendCalls : DeliverAppendEntries(g)
             \/ \E m \in lateAppends : DeliverLateAppend(m)
    BY <2>3, DeliveriesFollow
  <2> QED
    BY <1>2, <2>1, <2>2, <2>3 DEF Quiet
<1>3. CASE Reboots
  BY <1>3, RebootsFollow
<1>4. ASSUME NEW s \in Server, checkElection(s)
      PROVE  \E led2, llog2, held2 : Follows(led, llog, held, led2, llog2, held2)
  BY <1>4, ElectionFollows
<1>5. ASSUME NEW g \in voteCalls, sendRequestVote(g) \/ DeliverRequestVote(g)
      PROVE  \E led2, llog2, held2 : Follows(led, llog, held, led2, llog2, held2)
  BY <1>5, SendVoteFollows, DeliverVoteFollows
<1>6. ASSUME NEW g \in voteCalls, RequestVoteReturns(g)
      PROVE  \E led2, llog2, held2 : Follows(led, llog, held, led2, llog2, held2)
  <2>1. /\ log' = log /\ voteCalls' \subseteq voteCalls /\ UNCHANGED replication
        /\ granted \subseteq granted' /\ granted' \subseteq Votes
        /\ AllMove \/ Wins(g.cand)
    BY <1>1, <1>6, ReturnKinds DEF Wins
  <2>2. CASE AllMove
    BY <2>1, <2>2, CountFollows
  <2>3. CASE Wins(g.cand)
    <3>1. g.cand \in Server /\ \A p \in Server : VoteMoves(p)
      BY <1>1, <1>6, VoteReturnsMoves DEF IInv, TypeOK, VoteCall
    <3> QED
      BY <2>3, <3>1, WinFollows
  <2> QED
    BY <2>1, <2>2, <2>3
<1> QED
  BY <1>2, <1>3, <1>4, <1>5, <1>6, StepKinds

\* At the start there is no history.
LEMMA HistoryInit ==
  ASSUME Init
  PROVE  HistoryOK({}, [t \in Nat |-> <<>>], {})
<1>1. PICK llog : llog = [t \in Nat |-> <<>>]
  OBVIOUS
<1>2. llog \in [Nat -> Seq(LogEntry)] /\ \A t \in DOMAIN llog : llog[t] = <<>>
  BY SMT, <1>1
<1>3. /\ \A s \in Server : state[s] = FOLLOWER /\ log[s] = <<>>
      /\ voteCalls = {} /\ granted = {} /\ DOMAIN rounds = {} /\ appendCalls = {} /\ lateAppends = {}
  BY SMT DEF Init
<1>4. Votes = {}
  BY <1>3 DEF Votes
<1>5. LogsFromLeaders({}, llog)
  BY SMT, <1>2, <1>3 DEF LogsFromLeaders, FromLeaders, LogOK
<1>6. LeadersOnRecord({}, llog)
  BY SMT, <1>3 DEF LeadersOnRecord, LEADER, FOLLOWER
<1>7. RequestsFromLeaders({}, llog)
  BY <1>3 DEF RequestsFromLeaders
<1>8. HeldIsKept({}, llog, {})
  BY SMT, <1>3 DEF HeldIsKept
<1>9. LeadersCover({}, llog, {})
  BY DEF LeadersCover
<1>10. CandidatesCover({}, llog, {})
  BY <1>3, <1>4 DEF CandidatesCover
<1> QED
  BY <1>1, <1>2, <1>5, <1>6, <1>7, <1>8, <1>9, <1>10 DEF HistoryOK

=============================================================================
