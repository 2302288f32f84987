-------------------------- MODULE RaftSafetyProofs --------------------------
(***************************************************************************)
(* The safety of Raft when no vote goroutine outlives its election, for    *)
(* any number of servers, and through any crashes, lost, late and          *)
(* reordered calls; and that Raft implements ReplicatedLog.                *)
(***************************************************************************)
EXTENDS RaftHistoryProofs, RaftCommitProofs, FiniteSetTheorems

USE Zenon

-----------------------------------------------------------------------------
(* Elections *)

\* Two majorities of a finite set have a member in common.
LEMMA MajoritiesMeet == MajoritiesIntersect
<1> SUFFICES ASSUME NEW Q \in SUBSET Server, NEW R \in SUBSET Server,
                    Majority(Cardinality(Q)), Majority(Cardinality(R))
             PROVE  \E p \in Q : p \in R
  BY DEF MajoritiesIntersect
<1>1. IsFiniteSet(Server)
  BY RaftAssumption
<1>2. IsFiniteSet(Q) /\ IsFiniteSet(R)
  BY <1>1, FS_Subset
<1>3. Cardinality(Server) \in Nat /\ Cardinality(Q) \in Nat /\ Cardinality(R) \in Nat
  BY <1>1, <1>2, FS_CardinalityType
<1>4. Cardinality(Q) + Cardinality(R) > Cardinality(Server)
  BY SMT, <1>3 DEF Majority
<1>5. Q \cap R # {}
  BY <1>1, <1>4, FS_MajoritiesIntersect
<1> QED
  BY <1>5

\* Two majorities have a voter in common, who voted once.
LEMMA QuorumsMeet ==
  ASSUME IInv, VoteInvariant
  PROVE  ElectionSafety
<1> SUFFICES ASSUME NEW s \in Server, NEW t \in Server, state[s] = LEADER, state[t] = LEADER,
                    currentTerm[s] = currentTerm[t]
             PROVE  s = t
  BY DEF ElectionSafety
<1>1. PICK Q \in SUBSET Server : /\ Majority(Cardinality(Q))
                                 /\ \A p \in Q : <<s, currentTerm[s], p>> \in granted
  BY DEF VoteInvariant, StandingOK
<1>2. PICK R \in SUBSET Server : /\ Majority(Cardinality(R))
                                 /\ \A p \in R : <<t, currentTerm[t], p>> \in granted
  BY DEF VoteInvariant, StandingOK
<1>3. PICK p \in Q : p \in R
  BY <1>1, <1>2, MajoritiesMeet DEF MajoritiesIntersect
<1>4. <<s, currentTerm[s], p>> \in Votes /\ <<t, currentTerm[s], p>> \in Votes
  BY <1>1, <1>2, <1>3 DEF Votes
<1> QED
  BY <1>4 DEF VoteInvariant, VotesAreUnique

\* When no vote goroutine outlives its election, at most one server leads a
\* term, for any number of servers and through any crashes, lost calls and late
\* requests: two majorities share a voter, and RequestVote votes once per term.
THEOREM OneLeaderPerTerm ==
  ASSUME ~LateVoteRequests
  PROVE  Spec => []ElectionSafety
<1>1. Init => IInv /\ VoteInvariant
  BY InitHolds, VoteInitHolds
<1>2. IInv /\ VoteInvariant /\ [Next]_vars => (IInv /\ VoteInvariant)'
  BY NextKeeps, VoteNextKeeps
<1>3. IInv /\ VoteInvariant => ElectionSafety
  BY QuorumsMeet
<1> QED
  BY <1>1, <1>2, <1>3, PTL DEF Spec

-----------------------------------------------------------------------------
(* Logs and commits *)

\* The history of the start.
LEMMA SafetyInit == Init => SafetyInvariant
<1> SUFFICES ASSUME Init PROVE SafetyInvariant
  OBVIOUS
<1>1. PICK led, llog, held : led = {} /\ llog = [t \in Nat |-> <<>>] /\ held = {}
  OBVIOUS
<1>2. HistoryOK(led, llog, held)
  BY <1>1, HistoryInit
<1>3. CommitsAreSafe(llog, held) /\ AcksAreSound(llog)
  BY CommitsInit, AcksInit
<1>4. IInv /\ VoteInvariant
  BY InitHolds, VoteInitHolds
<1> QED
  BY <1>2, <1>3, <1>4 DEF SafetyInvariant, IInv

\* In every state that fits a history, commits are safe.
LEMMA SafetyMeans ==
  ASSUME SafetyInvariant
  PROVE  \E led, llog, held : Safe(led, llog, held) /\ Before(led, llog, held) /\ AcksAreSound(llog)
BY MajoritiesMeet DEF SafetyInvariant, IInv, Safe, Before

\* Every step leads from a history that fits to one that fits.
LEMMA SafetyKeeps ==
  ASSUME ~LateVoteRequests
  PROVE  SafetyInvariant /\ [Next]_vars => SafetyInvariant'
<1> SUFFICES ASSUME SafetyInvariant, [Next]_vars PROVE SafetyInvariant'
  OBVIOUS
<1>1. IInv /\ VoteInvariant
  BY DEF SafetyInvariant, IInv
<1>2. IInv' /\ VoteInvariant'
  BY <1>1, NextKeeps, VoteNextKeeps
<1>3. PICK led, llog, held : Safe(led, llog, held) /\ Before(led, llog, held) /\ AcksAreSound(llog)
  BY SafetyMeans
<1>4. PICK led2, llog2, held2 : Follows(led, llog, held, led2, llog2, held2)
  BY <1>2, <1>3, HistoryKeeps
<1>5. \A s \in Server : VoteMoves(s)
  BY <1>1, TermsGoOn
<1>6. Step(led, llog, held, led2, llog2, held2)
  BY <1>2, <1>3, <1>4, <1>5 DEF Step
<1>7. CommitsAreSafe(llog2, held2)'
  BY <1>6, CommitsKeep
<1>8. AcksAreSound(llog2)'
  BY <1>3, <1>6, AcksKeep
<1>9. HistoryOK(led2, llog2, held2)'
  BY <1>4 DEF Follows
<1> QED
  BY <1>2, <1>7, <1>8, <1>9 DEF SafetyInvariant, IInv

\* Logs that come from leaders match.
LEMMA HistoryMatches ==
  ASSUME SafetyInvariant
  PROVE  LogMatching
<1> SUFFICES ASSUME NEW s \in Server, NEW t \in Server,
                    NEW i \in 1 .. Smaller(Len(log[s]), Len(log[t])), log[s][i].Term = log[t][i].Term
             PROVE  SubSeq(log[s], 1, i) = SubSeq(log[t], 1, i)
  BY DEF LogMatching
<1>1. PICK led, llog, held : HistoryOK(led, llog, held)
  BY DEF SafetyInvariant
<1>2. PICK l \in Seq(LogEntry), k \in Seq(LogEntry) : l = log[s] /\ k = log[t]
  BY DEF SafetyInvariant, TypeOK
<1>3. FromLeaders(led, llog, l) /\ FromLeaders(led, llog, k)
  BY <1>1, <1>2 DEF HistoryOK, LogsFromLeaders
<1>4. i \in 1 .. Len(l) /\ i <= Len(k) /\ i \in Nat
  BY SMT, <1>2 DEF Smaller
<1>5. l[i].Term = k[i].Term
  BY <1>2
<1>6. Agree(l, k, i)
  BY <1>3, <1>4, <1>5, SameEntry
<1>7. \A j \in 1 .. i : l[j] = k[j]
  BY <1>6 DEF Agree
<1>8. SubSeq(l, 1, i) = SubSeq(k, 1, i)
  BY SMT, <1>4, <1>7
<1> QED
  BY <1>2, <1>8

\* If no vote goroutine outlives its election, logs match: two servers with an
\* entry of the same term at an index have the same entries up to it.  This is
\* what lets AppendEntries compare one entry only.
THEOREM LogsMatch ==
  ASSUME ~LateVoteRequests
  PROVE  Spec => []LogMatching
<1>1. SafetyInvariant => LogMatching
  BY HistoryMatches
<1> QED
  BY <1>1, SafetyInit, SafetyKeeps, PTL DEF Spec

\* commitIndex never passes the end of the log that checkApply reads, although
\* AppendEntries truncates logs and bounds LeaderCommit by whatever log is there.
THEOREM CommitsWithinLogs ==
  ASSUME ~LateVoteRequests
  PROVE  Spec => []CommitWithinLog
<1>1. SafetyInvariant => CommitWithinLog
  BY SafetyMeans, SafeCommitWithinLog
<1> QED
  BY <1>1, SafetyInit, SafetyKeeps, PTL DEF Spec

\* Every AppendEntries request, late ones too, reaches as far as its
\* LeaderCommit: a round sends the commitIndex it read when it started.
THEOREM LeaderCommitsCovered ==
  ASSUME ~LateVoteRequests
  PROVE  Spec => []LeaderCommitIsCovered
<1>1. SafetyInvariant => LeaderCommitIsCovered
  BY SafetyMeans, SafeLeaderCommit
<1> QED
  BY <1>1, SafetyInit, SafetyKeeps, PTL DEF Spec

\* A leader's log has everything that a server of its term or an earlier one
\* knows to be committed: RequestVote elects only who has it, and sendHeartbeat
\* commits only entries of the leader's own term.
THEOREM LeadersAreComplete ==
  ASSUME ~LateVoteRequests
  PROVE  Spec => []LeaderCompleteness
<1>1. SafetyInvariant => LeaderCompleteness
  BY SafetyMeans, SafeLeaderCompleteness
<1> QED
  BY <1>1, SafetyInit, SafetyKeeps, PTL DEF Spec

\* checkApply never hands out two commands for one index, at one server or at
\* two, before or after restarts.
THEOREM StateMachinesAgree ==
  ASSUME ~LateVoteRequests
  PROVE  Spec => []StateMachineSafety
<1>1. SafetyInvariant => StateMachineSafety
  BY SafetyMeans, SafeStateMachines
<1> QED
  BY <1>1, SafetyInit, SafetyKeeps, PTL DEF Spec

\* A follower in the leader's term has all that matchIndex says, whatever answers
\* were late or came twice.
THEOREM MatchIndexesSound ==
  ASSUME ~LateVoteRequests
  PROVE  Spec => []MatchIndexIsSound
<1>1. SafetyInvariant => MatchIndexIsSound
  BY SafetyMeans, AckedIsMatched
<1> QED
  BY <1>1, SafetyInit, SafetyKeeps, PTL DEF Spec

-----------------------------------------------------------------------------
(* Raft implements ReplicatedLog *)

\* The refinement mapping, of the values that it takes.
ChosenOf(A) == [i \in 1 .. Cardinality({x[1] : x \in A}) |-> CHOOSE c \in Command : <<i, c>> \in A]

DeliveredOf(l, n) == [i \in 1 .. Smaller(n, Len(l)) |-> l[i].Command]

\* No index has two commands.
Agreed(A) == \A x, y \in A : x[1] = y[1] => x[2] = y[2]

\* The sequence that was chosen.
LEMMA ChosenIs ==
  ASSUME NEW A, NEW k \in Nat, InOrder(A, k), Agreed(A)
  PROVE  /\ ChosenOf(A) \in Seq(Command) /\ Len(ChosenOf(A)) = k
         /\ \A i \in 1 .. k : \A c : <<i, c>> \in A => ChosenOf(A)[i] = c
<1>1. Cardinality(1 .. k) = k
  <2>1. Cardinality(1 .. k) = IF 1 > k THEN 0 ELSE k - 1 + 1
    BY SMT, FS_Interval
  <2> QED
    BY SMT, <2>1
<1>2. Cardinality({x[1] : x \in A}) = k
  BY <1>1 DEF InOrder
<1>3. PICK f : f = [i \in 1 .. k |-> CHOOSE c \in Command : <<i, c>> \in A]
  OBVIOUS
<1>4. ChosenOf(A) = f
  BY <1>2, <1>3 DEF ChosenOf
<1>5. \A i \in 1 .. k : f[i] \in Command /\ <<i, f[i]>> \in A
  <2> SUFFICES ASSUME NEW i \in 1 .. k PROVE f[i] \in Command /\ <<i, f[i]>> \in A
    OBVIOUS
  <2>1. \E c \in Command : <<i, c>> \in A
    BY DEF InOrder
  <2>2. f[i] = CHOOSE c \in Command : <<i, c>> \in A
    BY <1>3
  <2> QED
    BY <2>1, <2>2
<1>6. f \in Seq(Command) /\ Len(f) = k
  <2>1. f \in [1 .. k -> Command]
    BY <1>3, <1>5
  <2> QED
    BY SMT, <2>1
<1>7. ASSUME NEW i \in 1 .. k, NEW c, <<i, c>> \in A PROVE f[i] = c
  <2>1. PICK x, y : x = <<i, f[i]>> /\ y = <<i, c>>
    OBVIOUS
  <2>2. x[1] = y[1] /\ x[2] = f[i] /\ y[2] = c
    BY <2>1
  <2> QED
    BY <1>5, <1>7, <2>1, <2>2 DEF Agreed
<1> QED
  BY <1>4, <1>6, <1>7

\* The sequence that a server delivered.
LEMMA DeliveredIs ==
  ASSUME NEW l \in Seq(LogEntry), NEW n \in Nat, n <= Len(l)
  PROVE  /\ DeliveredOf(l, n) \in Seq(Command) /\ Len(DeliveredOf(l, n)) = n
         /\ \A i \in 1 .. n : DeliveredOf(l, n)[i] = l[i].Command
<1>1. Smaller(n, Len(l)) = n
  BY SMT DEF Smaller
<1>2. PICK f : f = [i \in 1 .. n |-> l[i].Command]
  OBVIOUS
<1>3. DeliveredOf(l, n) = f
  BY <1>1, <1>2 DEF DeliveredOf
<1>4. \A i \in 1 .. n : l[i] \in LogEntry
  BY SMT
<1>5. f \in [1 .. n -> Command]
  BY <1>2, <1>4 DEF LogEntry
<1>6. f \in Seq(Command) /\ Len(f) = n
  BY SMT, <1>5
<1> QED
  BY <1>2, <1>3, <1>6

\* It does not depend on what the log has beyond.
LEMMA DeliveredSame ==
  ASSUME NEW l \in Seq(LogEntry), NEW k \in Seq(LogEntry), NEW n \in Nat, Agree(l, k, n)
  PROVE  DeliveredOf(l, n) = DeliveredOf(k, n)
<1>1. Smaller(n, Len(l)) = n /\ Smaller(n, Len(k)) = n
  BY SMT DEF Smaller, Agree
<1>2. \A i \in 1 .. n : l[i] = k[i]
  BY DEF Agree
<1> QED
  BY <1>1, <1>2 DEF DeliveredOf

\* A sequence extends another that has its first commands.
LEMMA ExtendsIf ==
  ASSUME NEW c \in Seq(Command), NEW d \in Seq(Command), Len(d) <= Len(c),
         \A i \in 1 .. Len(d) : c[i] = d[i]
  PROVE  Service!Extends(c, d)
<1>1. SubSeq(c, 1, Len(d)) = d
  BY SMT
<1> QED
  BY <1>1 DEF Service!Extends

\* Sequences with the same commands are the same.
LEMMA SameSequence ==
  ASSUME NEW c \in Seq(Command), NEW d \in Seq(Command), Len(d) = Len(c),
         \A i \in 1 .. Len(d) : c[i] = d[i]
  PROVE  c = d
BY SMT

\* What checkApply sends.
Sent(l, z, n) == {<<i, l[i].Command>> : i \in (z + 1) .. n}

\* What is applied stays in order when a server goes on with its log.
LEMMA ApplyInOrder ==
  ASSUME NEW A, NEW k \in Nat, InOrder(A, k), NEW l \in Seq(LogEntry), NEW z \in Nat, NEW n \in Nat,
         z < n, n <= Len(l), \A i \in 1 .. z : <<i, l[i].Command>> \in A,
         NEW B, B = A \cup Sent(l, z, n)
  PROVE  /\ \A i \in 1 .. n : <<i, l[i].Command>> \in B
         /\ InOrder(B, IF n > k THEN n ELSE k)
<1>1. \A i \in 1 .. n : i \in 1 .. z \/ i \in (z + 1) .. n
  BY SMT
<1>2. \A i \in 1 .. n : <<i, l[i].Command>> \in B
  BY <1>1 DEF Sent
<1>3. \A i \in 1 .. n : l[i].Command \in Command
  <2>1. \A i \in 1 .. n : l[i] \in LogEntry
    BY SMT
  <2> QED
    BY <2>1 DEF LogEntry
<1>4. PICK m \in Nat : m = (IF n > k THEN n ELSE k)
  OBVIOUS
<1>5. \A i \in 1 .. m : i \in 1 .. n \/ i \in 1 .. k
  BY <1>4
<1>6. \A i \in 1 .. m : \E c \in Command : <<i, c>> \in B
  BY <1>2, <1>3, <1>5 DEF InOrder
<1>7. \A i : \A c : <<i, c>>[1] = i
  OBVIOUS
<1>8. 1 .. m \subseteq {x[1] : x \in B}
  BY <1>6, <1>7
<1>9. {x[1] : x \in B} \subseteq 1 .. m
  <2> SUFFICES ASSUME NEW x \in B PROVE x[1] \in 1 .. m
    OBVIOUS
  <2>1. CASE x \in A
    <3>1. x[1] \in 1 .. k
      BY <2>1 DEF InOrder
    <3> QED
      BY SMT, <1>4, <3>1
  <2>2. CASE x \in Sent(l, z, n)
    <3>1. PICK i \in (z + 1) .. n : x = <<i, l[i].Command>>
      BY <2>2 DEF Sent
    <3>2. x[1] = i
      BY <1>7, <3>1
    <3> QED
      BY SMT, <1>4, <3>2
  <2> QED
    BY <2>1, <2>2
<1>10. {x[1] : x \in B} = 1 .. m
  BY <1>8, <1>9
<1> QED
  BY <1>2, <1>4, <1>6, <1>10 DEF InOrder

\* What ReplicatedLog allows as a delivery.
Delivery(c, c2, d, d2) ==
  /\ Service!Extends(d2, d) /\ d2 # d
  /\ IF Len(d2) > Len(c) THEN Service!Extends(d2, c) /\ c2 = d2
                         ELSE Service!Extends(c, d2) /\ c2 = c

\* What checkApply sends is a delivery.
LEMMA ApplyDelivers ==
  ASSUME NEW A, NEW k \in Nat, InOrder(A, k), NEW l \in Seq(LogEntry), NEW z \in Nat, NEW n \in Nat,
         z < n, n <= Len(l), \A i \in 1 .. z : <<i, l[i].Command>> \in A,
         NEW B, B = A \cup Sent(l, z, n), Agreed(B)
  PROVE  Delivery(ChosenOf(A), ChosenOf(B), DeliveredOf(l, z), DeliveredOf(l, n))
<1>1. PICK c, c2, d, d2 : /\ c = ChosenOf(A) /\ c2 = ChosenOf(B)
                          /\ d = DeliveredOf(l, z) /\ d2 = DeliveredOf(l, n)
  OBVIOUS
<1>2. PICK m \in Nat : m = (IF n > k THEN n ELSE k)
  OBVIOUS
<1>3. InOrder(B, m) /\ \A i \in 1 .. n : <<i, l[i].Command>> \in B
  <2>1. InOrder(B, IF n > k THEN n ELSE k) /\ \A i \in 1 .. n : <<i, l[i].Command>> \in B
    BY ApplyInOrder
  <2> QED
    BY <1>2, <2>1
<1>4. Agreed(A)
  <2>1. A \subseteq B
    OBVIOUS
  <2> QED
    BY <2>1 DEF Agreed
<1>5. /\ c \in Seq(Command) /\ Len(c) = k
      /\ \A i \in 1 .. k : \A e : <<i, e>> \in A => c[i] = e
  BY <1>1, <1>4, ChosenIs
<1>6. /\ c2 \in Seq(Command) /\ Len(c2) = m
      /\ \A i \in 1 .. m : \A e : <<i, e>> \in B => c2[i] = e
  BY <1>1, <1>3, ChosenIs
<1>7. d2 \in Seq(Command) /\ Len(d2) = n /\ \A i \in 1 .. n : d2[i] = l[i].Command
  BY <1>1, DeliveredIs
<1>8. d \in Seq(Command) /\ Len(d) = z /\ \A i \in 1 .. z : d[i] = l[i].Command
  <2>1. z <= Len(l)
    BY SMT
  <2> QED
    BY <1>1, <2>1, DeliveredIs
<1>9. Service!Extends(d2, d) /\ d2 # d
  <2>1. Len(d) <= Len(d2) /\ d2 # d
    BY SMT, <1>7, <1>8
  <2>2. \A i \in 1 .. z : i \in 1 .. n
    BY SMT
  <2>3. \A i \in 1 .. Len(d) : d2[i] = d[i]
    BY <1>7, <1>8, <2>2
  <2> QED
    BY <1>7, <1>8, <2>1, <2>3, ExtendsIf
<1>10. \A i \in 1 .. n : i \in 1 .. m => c2[i] = d2[i]
  BY <1>3, <1>6, <1>7
<1>11. \A i \in 1 .. k : i \in 1 .. m => c2[i] = c[i]
  <2> SUFFICES ASSUME NEW i \in 1 .. k, i \in 1 .. m PROVE c2[i] = c[i]
    OBVIOUS
  <2>1. PICK e \in Command : <<i, e>> \in A
    BY DEF InOrder
  <2>2. c[i] = e /\ c2[i] = e
    BY <1>5, <1>6, <2>1
  <2> QED
    BY <2>2
<1>12. ASSUME n > k PROVE Delivery(c, c2, d, d2)
  <2>1. m = n /\ Len(d2) > Len(c) /\ Len(c) <= Len(d2)
    BY SMT, <1>2, <1>5, <1>7, <1>12
  <2>2. \A i \in 1 .. n : c2[i] = d2[i]
    BY <1>10, <2>1
  <2>3. c2 = d2
    BY <1>6, <1>7, <2>1, <2>2, SameSequence
  <2>4. \A i \in 1 .. k : i \in 1 .. n
    BY SMT, <1>12
  <2>5. \A i \in 1 .. Len(c) : d2[i] = c[i]
    BY <1>5, <1>11, <2>1, <2>3, <2>4
  <2>6. Service!Extends(d2, c)
    BY <1>5, <1>7, <2>1, <2>5, ExtendsIf
  <2> QED
    BY <1>9, <2>1, <2>3, <2>6 DEF Delivery
<1>13. ASSUME ~(n > k) PROVE Delivery(c, c2, d, d2)
  <2>1. m = k /\ ~(Len(d2) > Len(c)) /\ Len(d2) <= Len(c)
    BY SMT, <1>2, <1>5, <1>7, <1>13
  <2>2. \A i \in 1 .. k : c2[i] = c[i]
    BY <1>11, <2>1
  <2>3. c2 = c
    BY <1>5, <1>6, <2>1, <2>2, SameSequence
  <2>4. \A i \in 1 .. n : i \in 1 .. k
    BY SMT, <1>13
  <2>5. \A i \in 1 .. Len(d2) : c[i] = d2[i]
    BY <1>7, <1>10, <2>1, <2>3, <2>4
  <2>6. Service!Extends(c, d2)
    BY <1>5, <1>7, <2>1, <2>5, ExtendsIf
  <2> QED
    BY <1>9, <2>1, <2>3, <2>6 DEF Delivery
<1> QED
  BY <1>1, <1>12, <1>13

\* What a step other than checkApply does, seen from the services.
LogsKeep == \A q \in Server : log'[q] = log[q] \/ Agree(log[q], log'[q], commitIndex[q])

NothingSent ==
  /\ LogsKeep /\ applied' = applied
  /\ lastApplied' = lastApplied \/ \E s \in Server : lastApplied' = [lastApplied EXCEPT ![s] = 0]

\* A restart keeps the log and starts over.
LEMMA RebootSendsNothing ==
  ASSUME IInv, Reboots
  PROVE  NothingSent
<1>1. PICK s \in Server : \E p : Reboot(s, p) /\ p.log = saved[s].log
  <2>1. CASE \E s \in Server : Restart(s)
    BY <2>1 DEF Restart
  <2>2. ASSUME NEW m \in lateAppends, CrashInAppendEntries(m)
        PROVE  \E s \in Server : \E p : Reboot(s, p) /\ p.log = saved[s].log
    <3>1. m.to \in Server /\ saved[m.to] \in Persistent
      BY DEF IInv, TypeOK
    <3>2. [saved[m.to] EXCEPT !.currentTerm = m.args.Term, !.state = FOLLOWER].log = saved[m.to].log
      BY <3>1 DEF Persistent
    <3> QED
      BY <2>2, <3>1, <3>2 DEF CrashInAppendEntries
  <2> QED
    BY <2>1, <2>2 DEF Reboots
<1>2. PICK p : Reboot(s, p) /\ p.log = saved[s].log
  BY <1>1
<1>3. /\ log' = [log EXCEPT ![s] = p.log] /\ applied' = applied
      /\ lastApplied' = [lastApplied EXCEPT ![s] = 0]
  BY <1>2 DEF Reboot
<1>4. log \in [Server -> Seq(LogEntry)]
  BY DEF IInv, TypeOK
<1>5. p.log = log[s]
  BY <1>2, SavedFields
<1>6. \A q \in Server : log'[q] = log[q]
  BY <1>3, <1>4, <1>5
<1> QED
  BY <1>3, <1>6 DEF NothingSent, LogsKeep

\* The mapping in both states of a step.
LEMMA MappingIs ==
  /\ Chosen = ChosenOf(applied) /\ Chosen' = ChosenOf(applied')
  /\ Delivered = [q \in Server |-> DeliveredOf(log[q], lastApplied[q])]
  /\ Delivered' = [q \in Server |-> DeliveredOf(log'[q], lastApplied'[q])]
BY DEF Chosen, ChosenOf, Delivered, DeliveredOf

\* Nothing was applied at the start.
LEMMA AppliedInit ==
  ASSUME Init
  PROVE  AppliedInOrder /\ Service!Init
<1>1. applied = {} /\ \A s \in Server : lastApplied[s] = 0 /\ log[s] = <<>>
  BY DEF Init
<1>2. 1 .. 0 = {} /\ 0 \in Nat
  BY SMT
<1>3. {x[1] : x \in applied} = {}
  BY <1>1
<1>4. InOrder(applied, 0)
  BY <1>2, <1>3 DEF InOrder
<1>5. AppliedInOrder
  BY <1>1, <1>2, <1>4 DEF AppliedInOrder
<1>6. Chosen = <<>>
  <2>1. Agreed(applied)
    BY <1>1 DEF Agreed
  <2>2. ChosenOf(applied) \in Seq(Command) /\ Len(ChosenOf(applied)) = 0
    BY <1>2, <1>4, <2>1, ChosenIs
  <2>3. PICK c : c = ChosenOf(applied)
    OBVIOUS
  <2>4. c = <<>>
    BY SMT, <2>2, <2>3
  <2> QED
    BY <2>3, <2>4, MappingIs
<1>7. Delivered = [s \in Server |-> <<>>]
  <2>1. <<>> \in Seq(LogEntry) /\ 0 <= Len(<<>>)
    BY SMT
  <2>2. PICK d : d = DeliveredOf(<<>>, 0)
    OBVIOUS
  <2>3. d \in Seq(Command) /\ Len(d) = 0
    BY <1>2, <2>1, <2>2, DeliveredIs
  <2>4. d = <<>>
    BY SMT, <2>3
  <2>5. \A s \in Server : DeliveredOf(log[s], lastApplied[s]) = <<>>
    BY <1>1, <2>2, <2>4
  <2> QED
    BY <2>5, MappingIs
<1> QED
  BY <1>5, <1>6, <1>7 DEF Service!Init

\* A server that has not gone on keeps what it delivered; or it starts over.
LEMMA NothingSentMeans ==
  ASSUME IInv, CommitWithinLog, IInv', NothingSent,
         NEW q \in Server, lastApplied'[q] = lastApplied[q] \/ lastApplied'[q] = 0
  PROVE  /\ \A i \in 1 .. lastApplied'[q] : i \in 1 .. lastApplied[q] /\ log'[q][i] = log[q][i]
         /\ lastApplied'[q] = lastApplied[q] =>
              DeliveredOf(log'[q], lastApplied'[q]) = DeliveredOf(log[q], lastApplied[q])
         /\ lastApplied'[q] = 0 => DeliveredOf(log'[q], lastApplied'[q]) = <<>>
<1>1. lastApplied[q] <= commitIndex[q] /\ commitIndex[q] <= Len(log[q])
  BY DEF CommitWithinLog
<1>2. PICK l \in Seq(LogEntry), k \in Seq(LogEntry), n \in Nat, z \in Nat, y \in Nat :
        l = log[q] /\ k = log'[q] /\ n = commitIndex[q] /\ z = lastApplied[q] /\ y = lastApplied'[q]
  BY DEF IInv, TypeOK
<1>3. z <= n /\ n <= Len(l) /\ (y = z \/ y = 0)
  BY <1>1, <1>2
<1>4. k = l \/ Agree(l, k, n)
  BY <1>2 DEF NothingSent, LogsKeep
<1>5. Agree(l, k, z)
  BY SMT, <1>3, <1>4 DEF Agree
<1>6. \A i \in 1 .. y : i \in 1 .. z
  BY SMT, <1>3
<1>7. \A i \in 1 .. y : i \in 1 .. z /\ k[i] = l[i]
  BY <1>5, <1>6 DEF Agree
<1>8. DeliveredOf(l, z) = DeliveredOf(k, z)
  BY <1>5, DeliveredSame
<1>9. DeliveredOf(k, 0) = <<>>
  <2>1. 0 \in Nat /\ 0 <= Len(k)
    BY SMT
  <2>2. PICK d : d = DeliveredOf(k, 0)
    OBVIOUS
  <2>3. d \in Seq(Command) /\ Len(d) = 0
    BY <2>1, <2>2, DeliveredIs
  <2>4. d = <<>>
    BY SMT, <2>3
  <2> QED
    BY <2>2, <2>4
<1> QED
  BY <1>2, <1>7, <1>8, <1>9

\* What a step that is not checkApply means to the services.
LEMMA OthersImplement ==
  ASSUME IInv, CommitWithinLog, IInv', AppliedInOrder, NothingSent
  PROVE  AppliedInOrder' /\ [Service!Next]_(Service!vars)
<1>1. applied' = applied /\ Chosen' = Chosen
  BY MappingIs DEF NothingSent
<1>2. lastApplied \in [Server -> Nat]
  BY DEF IInv, TypeOK
<1>3. \A q \in Server : lastApplied'[q] = lastApplied[q] \/ lastApplied'[q] = 0
  <2>1. CASE lastApplied' = lastApplied
    BY <2>1
  <2>2. ASSUME NEW s \in Server, lastApplied' = [lastApplied EXCEPT ![s] = 0]
        PROVE  \A q \in Server : lastApplied'[q] = lastApplied[q] \/ lastApplied'[q] = 0
    BY <1>2, <2>2
  <2> QED
    BY <2>1, <2>2 DEF NothingSent
<1>4. \A q \in Server :
         /\ \A i \in 1 .. lastApplied'[q] : i \in 1 .. lastApplied[q] /\ log'[q][i] = log[q][i]
         /\ lastApplied'[q] = lastApplied[q] =>
              DeliveredOf(log'[q], lastApplied'[q]) = DeliveredOf(log[q], lastApplied[q])
         /\ lastApplied'[q] = 0 => DeliveredOf(log'[q], lastApplied'[q]) = <<>>
  BY <1>3, NothingSentMeans
<1>5. \A q \in Server : \A i \in 1 .. lastApplied'[q] : <<i, log'[q][i].Command>> \in applied'
  BY <1>1, <1>4 DEF AppliedInOrder
<1>6. \E k \in Nat : InOrder(applied', k)
  BY <1>1 DEF AppliedInOrder
<1>7. AppliedInOrder'
  BY <1>5, <1>6 DEF AppliedInOrder, InOrder
<1>8. CASE lastApplied' = lastApplied
  <2>1. \A q \in Server : DeliveredOf(log'[q], lastApplied'[q]) = DeliveredOf(log[q], lastApplied[q])
    BY <1>4, <1>8
  <2>2. Delivered' = Delivered
    BY <2>1, MappingIs
  <2> QED
    BY <1>1, <1>7, <2>2 DEF Service!vars
<1>9. ASSUME NEW s \in Server, lastApplied' = [lastApplied EXCEPT ![s] = 0]
      PROVE  [Service!Next]_(Service!vars)
  <2>1. lastApplied'[s] = 0 /\ \A q \in Server \ {s} : lastApplied'[q] = lastApplied[q]
    BY <1>2, <1>9
  <2>2. PICK d, e : /\ d = [q \in Server |-> DeliveredOf(log[q], lastApplied[q])]
                    /\ e = [q \in Server |-> DeliveredOf(log'[q], lastApplied'[q])]
    OBVIOUS
  <2>3. e[s] = <<>> /\ \A q \in Server \ {s} : e[q] = d[q]
    BY <1>4, <2>1, <2>2
  <2>4. DOMAIN d = Server /\ DOMAIN e = Server /\ d = [q \in Server |-> d[q]] /\ e = [q \in Server |-> e[q]]
    BY <2>2
  <2>5. e = [d EXCEPT ![s] = <<>>]
    BY <2>3, <2>4
  <2>6. Delivered' = [Delivered EXCEPT ![s] = <<>>]
    BY <2>2, <2>5, MappingIs
  <2>7. Service!Restart(s)
    BY <1>1, <2>6 DEF Service!Restart
  <2>8. CASE Delivered' = Delivered
    BY <1>1, <2>8 DEF Service!vars
  <2>9. CASE Delivered' # Delivered
    BY <2>7, <2>9 DEF Service!Next
  <2> QED
    BY <2>8, <2>9
<1> QED
  BY <1>7, <1>8, <1>9 DEF NothingSent

\* checkApply is a delivery to its service.
LEMMA ApplyImplements ==
  ASSUME IInv, CommitWithinLog, StateMachineSafety', AppliedInOrder,
         NEW s \in Server, checkApply(s)
  PROVE  AppliedInOrder' /\ [Service!Next]_(Service!vars)
<1>1. log \in [Server -> Seq(LogEntry)] /\ lastApplied \in [Server -> Nat] /\ commitIndex[s] \in Nat
  BY DEF IInv, TypeOK
<1>2. PICK l \in Seq(LogEntry), n \in Nat, z \in Nat :
        l = log[s] /\ n = commitIndex[s] /\ z = lastApplied[s]
  BY <1>1
<1>3. PICK A, B, c, c2, d, e :
        /\ A = applied /\ B = applied' /\ c = ChosenOf(A) /\ c2 = ChosenOf(B)
        /\ d = [q \in Server |-> DeliveredOf(log[q], lastApplied[q])]
        /\ e = [q \in Server |-> DeliveredOf(log'[q], lastApplied'[q])]
  OBVIOUS
<1>4. /\ z < n /\ n <= Len(l) /\ lastApplied' = [lastApplied EXCEPT ![s] = n]
      /\ UNCHANGED durable
      /\ B = A \cup {<<i, log[s][i].Command>> : i \in (lastApplied[s] + 1) .. commitIndex[s]}
  BY <1>2, <1>3 DEF checkApply
<1>5. B = A \cup Sent(l, z, n)
  BY <1>2, <1>4 DEF Sent
<1>6. log' = log /\ lastApplied'[s] = n /\ \A q \in Server \ {s} : lastApplied'[q] = lastApplied[q]
  BY <1>1, <1>4 DEF durable
<1>7. PICK k \in Nat : InOrder(A, k)
  BY <1>3 DEF AppliedInOrder
<1>8. \A q \in Server : \A i \in 1 .. lastApplied[q] : <<i, log[q][i].Command>> \in A
  BY <1>3 DEF AppliedInOrder
<1>9. \A i \in 1 .. z : <<i, l[i].Command>> \in A
  BY <1>2, <1>8
<1>10. PICK m \in Nat : m = (IF n > k THEN n ELSE k)
  OBVIOUS
<1>11. InOrder(B, m) /\ \A i \in 1 .. n : <<i, l[i].Command>> \in B
  <2>1. InOrder(B, IF n > k THEN n ELSE k) /\ \A i \in 1 .. n : <<i, l[i].Command>> \in B
    BY <1>4, <1>5, <1>7, <1>9, ApplyInOrder
  <2> QED
    BY <1>10, <2>1
<1>12. AppliedInOrder'
  <2>1. ASSUME NEW q \in Server PROVE \A i \in 1 .. lastApplied'[q] : <<i, log'[q][i].Command>> \in B
    <3>1. CASE q = s
      BY <1>2, <1>6, <1>11, <3>1
    <3>2. CASE q # s
      BY <1>4, <1>6, <1>8, <3>2
    <3> QED
      BY <3>1, <3>2
  <2> QED
    BY <1>3, <1>11, <2>1 DEF AppliedInOrder, InOrder
<1>13. Agreed(B)
  BY <1>3 DEF StateMachineSafety, Agreed
<1>14. d[s] = DeliveredOf(l, z) /\ e[s] = DeliveredOf(l, n) /\ \A q \in Server \ {s} : e[q] = d[q]
  BY <1>2, <1>3, <1>6
<1>15. Delivery(c, c2, d[s], e[s])
  <2>1. Delivery(ChosenOf(A), ChosenOf(B), DeliveredOf(l, z), DeliveredOf(l, n))
    BY <1>4, <1>5, <1>7, <1>9, <1>13, ApplyDelivers
  <2> QED
    BY <1>3, <1>14, <2>1
<1>16. e = [d EXCEPT ![s] = e[s]]
  <2>1. DOMAIN d = Server /\ DOMAIN e = Server /\ d = [q \in Server |-> d[q]] /\ e = [q \in Server |-> e[q]]
    BY <1>3
  <2> QED
    BY <1>14, <2>1
<1>17. Delivered = d /\ Delivered' = e /\ Chosen = c /\ Chosen' = c2
  BY <1>3, MappingIs
<1>18. Service!Deliver(s) /\ Delivered' # Delivered
  BY <1>15, <1>16, <1>17 DEF Service!Deliver, Delivery
<1> QED
  BY <1>12, <1>18 DEF Service!Next


\* AppendEntries keeps what is committed.
LEMMA HandlerKeepsLogs ==
  ASSUME NEW led, NEW llog, NEW held, Safe(led, llog, held), NEW i \in Server,
         NEW a \in AppendEntriesArgs, SliceOK(led, llog, i, a), AppendEntries(i, a)
  PROVE  LogsKeep
<1>1. log \in [Server -> Seq(LogEntry)] /\ currentTerm[i] \in Nat
  BY DEF Safe, Before, IInv, TypeOK
<1>2. a.Term \in Nat
  BY DEF AppendEntriesArgs
<1>3. CASE UNCHANGED durable
  <2>1. log' = log
    BY <1>3 DEF durable
  <2> QED
    BY <2>1 DEF LogsKeep
<1>4. CASE a.Term >= currentTerm[i] /\ log' = [log EXCEPT ![i] = FollowerLog(@, a)]
  <2>1. PICK f : f = FollowerLog(log[i], a)
    OBVIOUS
  <2>2. log' = [log EXCEPT ![i] = f]
    BY <1>4, <2>1
  <2>3. \A q \in Server : log'[q] = log[q] \/ (q = i /\ log'[q] = f)
    BY <1>1, <2>2
  <2>4. currentTerm[i] <= a.Term
    BY <1>1, <1>2, <1>4
  <2>5. Agree(log[i], f, commitIndex[i])
    BY <2>1, <2>4, HandlerKeepsCommits
  <2> QED
    BY <2>3, <2>5 DEF LogsKeep
<1> QED
  BY <1>3, <1>4 DEF AppendEntries

\* Only checkApply sends anything to the services.
LEMMA OnlyCheckApply ==
  ASSUME NEW led, NEW llog, NEW held, Safe(led, llog, held), IInv', [Next]_vars
  PROVE  (\E s \in Server : checkApply(s)) \/ NothingSent
<1>1. IInv /\ RequestsFromLeaders(led, llog)
  BY DEF Safe, Before, HistoryOK
<1>2. CASE UNCHANGED vars
  <2>1. log' = log /\ applied' = applied /\ lastApplied' = lastApplied
    BY <1>2 DEF vars, durable, volatile
  <2> QED
    BY <2>1 DEF NothingSent, LogsKeep
<1>3. ASSUME NEW s \in Server, checkElection(s) \/ sendHeartbeat(s) PROVE NothingSent
  <2>1. (log' = log \/ UNCHANGED durable) /\ applied' = applied
        /\ (lastApplied' = lastApplied \/ UNCHANGED volatile)
    BY <1>3 DEF checkElection, sendHeartbeat
  <2>2. log' = log /\ lastApplied' = lastApplied
    BY <2>1 DEF durable, volatile
  <2> QED
    BY <2>1, <2>2 DEF NothingSent, LogsKeep
<1>4. ASSUME NEW s \in Server, NEW c \in Command, Start(s, c) PROVE NothingSent
  <2>1. UNCHANGED volatile /\ applied' = applied
    BY <1>4 DEF Start
  <2>2. lastApplied' = lastApplied
    BY <2>1 DEF volatile
  <2>3. \A q \in Server : log'[q] = log[q] \/ Agree(log[q], log'[q], Len(log[q]))
    BY <1>1, <1>4, StartGrowsLog
  <2>4. CommitWithinLog
    BY SafeCommitWithinLog
  <2>5. ASSUME NEW q \in Server, Agree(log[q], log'[q], Len(log[q]))
        PROVE  Agree(log[q], log'[q], commitIndex[q])
    <3>1. commitIndex[q] <= Len(log[q]) /\ commitIndex[q] \in Nat /\ log[q] \in Seq(LogEntry)
      BY <1>1, <2>4 DEF CommitWithinLog, IInv, TypeOK
    <3>2. PICK f : f = log'[q]
      OBVIOUS
    <3>3. Agree(log[q], f, Len(log[q]))
      BY <2>5, <3>2
    <3>4. f \in Seq(LogEntry)
      BY <3>2 DEF IInv, TypeOK
    <3>5. Agree(log[q], f, commitIndex[q])
      BY SMT, <3>1, <3>3, <3>4 DEF Agree
    <3> QED
      BY <3>2, <3>5
  <2> QED
    BY <2>1, <2>2, <2>3, <2>5 DEF NothingSent, LogsKeep
<1>5. ASSUME NEW g \in voteCalls, sendRequestVote(g) \/ DeliverRequestVote(g) \/ RequestVoteReturns(g)
      PROVE  NothingSent
  <2>1. (log' = log \/ UNCHANGED durable) /\ applied' = applied
        /\ (lastApplied' = lastApplied \/ UNCHANGED volatile)
    BY <1>5 DEF sendRequestVote, DeliverRequestVote, RequestVoteReturns, RequestVote
  <2>2. log' = log /\ lastApplied' = lastApplied
    BY <2>1 DEF durable, volatile
  <2> QED
    BY <2>1, <2>2 DEF NothingSent, LogsKeep
<1>6. ASSUME NEW m \in lateVotes, DeliverLateVote(m) PROVE NothingSent
  <2>1. (log' = log \/ UNCHANGED durable) /\ applied' = applied
        /\ (lastApplied' = lastApplied \/ UNCHANGED volatile)
    BY <1>6 DEF DeliverLateVote, RequestVote
  <2>2. log' = log /\ lastApplied' = lastApplied
    BY <2>1 DEF durable, volatile
  <2> QED
    BY <2>1, <2>2 DEF NothingSent, LogsKeep
<1>7. ASSUME NEW g \in appendCalls, sendAppendEntries(g) \/ AppendEntriesReturns(g) \/ AppendEntriesFails(g)
      PROVE  NothingSent
  <2>1. (log' = log \/ UNCHANGED durable) /\ applied' = applied
        /\ (lastApplied' = lastApplied \/ UNCHANGED volatile)
    BY <1>7 DEF sendAppendEntries, AppendEntriesReturns, AppendEntriesFails
  <2>2. log' = log /\ lastApplied' = lastApplied
    BY <2>1 DEF durable, volatile
  <2> QED
    BY <2>1, <2>2 DEF NothingSent, LogsKeep
<1>8. ASSUME NEW g \in appendCalls, DeliverAppendEntries(g) PROVE NothingSent
  <2>1. g \in AppendCall /\ g.peer \in Server /\ g.args \in AppendEntriesArgs
    BY <1>1 DEF IInv, TypeOK, AppendCall
  <2>2. g.pc = "sent" /\ AppendEntries(g.peer, g.args) /\ lastApplied' = lastApplied /\ applied' = applied
    BY <1>8 DEF DeliverAppendEntries
  <2>3. g.pc # "ready"
    BY <2>2
  <2>4. SliceOK(led, llog, g.peer, g.args)
    BY <1>1, <2>3 DEF RequestsFromLeaders
  <2>5. LogsKeep
    BY <2>1, <2>2, <2>4, HandlerKeepsLogs
  <2> QED
    BY <2>2, <2>5 DEF NothingSent
<1>9. ASSUME NEW m \in lateAppends, DeliverLateAppend(m) PROVE NothingSent
  <2>1. m \in [to : Server, args : AppendEntriesArgs]
    BY <1>1 DEF IInv, TypeOK
  <2>2. m.to \in Server /\ m.args \in AppendEntriesArgs
    BY <2>1
  <2>3. AppendEntries(m.to, m.args) /\ lastApplied' = lastApplied /\ applied' = applied
    BY <1>9 DEF DeliverLateAppend
  <2>4. SliceOK(led, llog, m.to, m.args)
    BY <1>1 DEF RequestsFromLeaders
  <2>5. LogsKeep
    BY <2>2, <2>3, <2>4, HandlerKeepsLogs
  <2> QED
    BY <2>3, <2>5 DEF NothingSent
<1>10. CASE Reboots
  BY <1>1, <1>10, RebootSendsNothing
<1> QED
  BY <1>2, <1>3, <1>4, <1>5, <1>6, <1>7, <1>8, <1>9, <1>10 DEF Next, Reboots

\* Applying and implementing go together, step by step.
LEMMA StepImplements ==
  ASSUME SafetyInvariant, IInv', StateMachineSafety', AppliedInOrder, [Next]_vars
  PROVE  AppliedInOrder' /\ [Service!Next]_(Service!vars)
<1>1. PICK led, llog, held : Safe(led, llog, held)
  BY SafetyMeans
<1>2. IInv /\ CommitWithinLog
  BY <1>1, SafeCommitWithinLog DEF Safe, Before
<1>3. ASSUME NEW s \in Server, checkApply(s) PROVE AppliedInOrder' /\ [Service!Next]_(Service!vars)
  BY <1>2, <1>3, ApplyImplements
<1>4. ASSUME NothingSent PROVE AppliedInOrder' /\ [Service!Next]_(Service!vars)
  BY <1>2, <1>4, OthersImplement
<1> QED
  BY <1>1, <1>3, <1>4, OnlyCheckApply

\* Seen from the services Raft is the replicated log of ReplicatedLog, when no
\* vote goroutine outlives its election: checkApply delivers, in order and
\* without gaps, a prefix of one sequence of commands that only grows, whichever
\* server leads; a server that restarts starts over, and no other step of any
\* goroutine or handler is seen at all.
THEOREM RaftImplementsReplicatedLog ==
  ASSUME ~LateVoteRequests
  PROVE  Spec => ImplementsReplicatedLog
<1>1. Init => SafetyInvariant /\ AppliedInOrder /\ Service!Init
  BY SafetyInit, AppliedInit
<1>2. SafetyInvariant => StateMachineSafety /\ IInv
  BY SafetyMeans, SafeStateMachines DEF SafetyInvariant, IInv
<1>3. SafetyInvariant /\ [Next]_vars => SafetyInvariant'
  BY SafetyKeeps
<1>4. SafetyInvariant /\ [Next]_vars => StateMachineSafety' /\ IInv'
  BY <1>2, <1>3, PTL
<1>5. SafetyInvariant /\ AppliedInOrder /\ [Next]_vars => AppliedInOrder' /\ [Service!Next]_(Service!vars)
  BY <1>4, StepImplements
<1> QED
  BY <1>1, <1>3, <1>5, PTL DEF Spec, ImplementsReplicatedLog, Service!Spec

=============================================================================
