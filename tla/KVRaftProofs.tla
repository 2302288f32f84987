---------------------------- MODULE KVRaftProofs ----------------------------
(***************************************************************************)
(* The key/value service applies every request once, answers it the same   *)
(* way every time, and is linearizable, for any number of clerks, servers  *)
(* and keys.                                                               *)
(***************************************************************************)
EXTENDS KVInvariant, WellFoundedInduction, TLAPS

USE Zenon

-----------------------------------------------------------------------------
(* Induction *)

\* A nonempty set of naturals has a least element.
LEMMA LeastExists ==
  ASSUME NEW S \in SUBSET Nat, S # {}
  PROVE  \E x \in S : \A y \in S : x <= y
<1>1. PICK x \in S : \A y \in S : ~(<<y, x>> \in OpToRel(<, Nat))
  BY NatLessThanWellFounded, WFMin
<1>2. \A y \in S : ~(y < x)
  BY <1>1 DEF OpToRel
<1> QED
  BY SMT, <1>2

-----------------------------------------------------------------------------
(* The reference *)

\* The fields of a request.
LEMMA OpFields ==
  ASSUME NEW o \in Op
  PROVE  /\ o.CommandType \in Type /\ o.CommandKey \in Key /\ o.ClerkId \in Clerk
         /\ o.CommandId \in Id /\ o.CommandId \in Nat /\ o.CommandValue \in Value
<1>1. /\ o.CommandType \in Type /\ o.CommandKey \in Key /\ o.ClerkId \in Clerk /\ o.CommandId \in Id
      /\ o.CommandValue \in Text
  BY DEF Op, Id
<1>2. CASE o.CommandValue = <<>>
  <2>1. <<>> \in Value
    BY SMT DEF Value
  <2> QED
    BY SMT, <1>1, <1>2, <2>1, KVAssumption DEF Id
<1>3. CASE o.CommandValue # <<>>
  <2>1. o.CommandValue \in {<<<<c, n>>>> : c \in Clerk, n \in Id}
    BY SMT, <1>1, <1>3 DEF Id, Text
  <2>2. PICK c \in Clerk, n \in Id : o.CommandValue = <<<<c, n>>>>
    BY SMT, <2>1
  <2>3. <<c, n>> \in Clerk \X Id
    OBVIOUS
  <2>4. PICK x \in Clerk \X Id : x = <<c, n>>
    BY <2>3
  <2>5. <<x>> \in Seq(Clerk \X Id)
    BY SMT
  <2>6. o.CommandValue \in Value
    BY <2>2, <2>4, <2>5 DEF Value
  <2> QED
    BY SMT, <1>1, <2>6, KVAssumption DEF Id
<1> QED
  BY <1>2, <1>3

\* One step of the reference.
LEMMA AfterType ==
  ASSUME NEW l \in Seq(Op), NEW n \in 1 .. Len(l), NEW k, NEW v \in Value
  PROVE  After(l, n, k, v) \in Value
<1>1. l[n].CommandValue \in Value
  <2>1. l[n] \in Op
    BY SMT
  <2> QED
    BY <2>1, OpFields
<1>2. v \o l[n].CommandValue \in Value
  BY SMT, <1>1 DEF Value
<1> QED
  BY <1>1, <1>2 DEF After

\* The reference is defined for every prefix of the sequence.
LEMMA ContentExists ==
  ASSUME NEW l \in Seq(Op), NEW k
  PROVE  \E g \in [0 .. Len(l) -> Value] :
           g[0] = <<>> /\ \A i \in 1 .. Len(l) : g[i] = After(l, i, k, g[i - 1])
<1> DEFINE Good(m) == \E g \in [0 .. m -> Value] :
                        g[0] = <<>> /\ \A i \in 1 .. m : g[i] = After(l, i, k, g[i - 1])
<1>1. PICK n \in Nat : n = Len(l)
  BY SMT
<1>2. Good(0)
  <2>1. PICK g : g = [i \in 0 .. 0 |-> <<>>]
    OBVIOUS
  <2>2. 0 \in 0 .. 0 /\ 1 .. 0 = {} /\ <<>> \in Value
    BY SMT DEF Value
  <2>3. g \in [0 .. 0 -> Value] /\ g[0] = <<>>
    BY <2>1, <2>2
  <2> QED
    BY <2>2, <2>3
<1>3. ASSUME NEW m \in 1 .. n, Good(m - 1) PROVE Good(m)
  <2>1. PICK g \in [0 .. m - 1 -> Value] :
          g[0] = <<>> /\ \A i \in 1 .. m - 1 : g[i] = After(l, i, k, g[i - 1])
    BY <1>3
  <2>2. PICK v : v = After(l, m, k, g[m - 1])
    OBVIOUS
  <2>3. PICK h : h = [i \in 0 .. m |-> IF i = m THEN v ELSE g[i]]
    OBVIOUS
  <2>4. m - 1 \in 0 .. m - 1 /\ m \in 0 .. m /\ 0 \in 0 .. m - 1
    BY SMT
  <2>5. v \in Value
    BY <1>1, <2>2, <2>4, AfterType
  <2>6. \A i \in 0 .. m - 1 : i # m /\ i \in 0 .. m
    BY SMT
  <2>7. \A i \in 0 .. m : i = m \/ i \in 0 .. m - 1
    BY SMT
  <2>8. h \in [0 .. m -> Value]
    BY <2>3, <2>5, <2>7
  <2>9. h[m] = v /\ \A i \in 0 .. m - 1 : h[i] = g[i]
    BY <2>3, <2>4, <2>6
  <2>10. \A i \in 1 .. m : i = m \/ i \in 1 .. m - 1
    BY SMT
  <2>11. \A i \in 1 .. m - 1 : i \in 0 .. m - 1 /\ i - 1 \in 0 .. m - 1
    BY SMT
  <2>12. \A i \in 1 .. m : h[i] = After(l, i, k, h[i - 1])
    BY <2>1, <2>2, <2>4, <2>9, <2>10, <2>11
  <2>13. h[0] = <<>>
    BY <2>1, <2>4, <2>9
  <2> QED
    BY <2>8, <2>12, <2>13
<1>4. \A m \in 0 .. n : Good(m)
  <2> DEFINE S == {m \in 0 .. n : ~Good(m)}
  <2> HIDE DEF Good
  <2> SUFFICES ASSUME S # {} PROVE FALSE
    OBVIOUS
  <2>1. S \in SUBSET Nat
    BY SMT
  <2>2. PICK m \in S : \A i \in S : m <= i
    BY <2>1, LeastExists
  <2>3. m \in 0 .. n /\ ~Good(m)
    OBVIOUS
  <2>4. m # 0
    BY <1>2, <2>3
  <2>5. m \in 1 .. n /\ m - 1 \in 0 .. n /\ ~(m <= m - 1)
    BY SMT, <2>3, <2>4
  <2>6. Good(m - 1)
    BY <2>2, <2>5
  <2> QED
    BY <1>3, <2>3, <2>5, <2>6
<1>5. n \in 0 .. n
  BY SMT
<1> QED
  BY <1>1, <1>4, <1>5

\* Content obeys its recursion.
LEMMA ContentIs ==
  ASSUME NEW l \in Seq(Op), NEW k
  PROVE  /\ Content(l, k) \in [0 .. Len(l) -> Value]
         /\ Content(l, k)[0] = <<>>
         /\ \A n \in 1 .. Len(l) : Content(l, k)[n] = After(l, n, k, Content(l, k)[n - 1])
<1>1. PICK g \in [0 .. Len(l) -> Value] :
        g[0] = <<>> /\ \A i \in 1 .. Len(l) : g[i] = After(l, i, k, g[i - 1])
  BY ContentExists
<1>2. \A n \in 0 .. Len(l) : n = 0 \/ n \in 1 .. Len(l)
  BY SMT
<1>3. \A n \in 0 .. Len(l) : g[n] = IF n = 0 THEN <<>> ELSE After(l, n, k, g[n - 1])
  BY <1>1, <1>2
<1>4. g = [n \in 0 .. Len(l) |-> IF n = 0 THEN <<>> ELSE After(l, n, k, g[n - 1])]
  BY <1>3
<1>5. Content(l, k) = [n \in 0 .. Len(l) |-> IF n = 0 THEN <<>> ELSE After(l, n, k, Content(l, k)[n - 1])]
  BY <1>4 DEF Content
<1>6. PICK h : h = Content(l, k)
  OBVIOUS
<1>7. h = [n \in 0 .. Len(l) |-> IF n = 0 THEN <<>> ELSE After(l, n, k, h[n - 1])]
  BY <1>5, <1>6
<1>8. \A n \in 1 .. Len(l) : n \in 0 .. Len(l) /\ n - 1 \in 0 .. Len(l) /\ n # 0 /\ n \in Nat
  BY SMT
<1>9. 0 \in 0 .. Len(l)
  BY SMT
<1>10. h[0] = <<>> /\ \A n \in 1 .. Len(l) : h[n] = After(l, n, k, h[n - 1])
  BY <1>7, <1>8, <1>9
<1>11. \A n \in 0 .. Len(l) : h[n] \in Value
  <2> DEFINE S == {n \in 0 .. Len(l) : h[n] \notin Value}
  <2> SUFFICES ASSUME S # {} PROVE FALSE
    OBVIOUS
  <2>1. S \in SUBSET Nat
    BY SMT
  <2>2. PICK n \in S : \A i \in S : n <= i
    BY <2>1, LeastExists
  <2>3. n \in 0 .. Len(l) /\ h[n] \notin Value
    OBVIOUS
  <2>4. <<>> \in Value
    BY SMT DEF Value
  <2>5. n # 0
    BY <1>10, <2>3, <2>4
  <2>6. n \in 1 .. Len(l) /\ n - 1 \in 0 .. Len(l) /\ ~(n <= n - 1)
    BY SMT, <2>3, <2>5
  <2>7. h[n - 1] \in Value
    BY <2>2, <2>6
  <2>8. After(l, n, k, h[n - 1]) \in Value
    BY <2>6, <2>7, AfterType
  <2> QED
    BY <1>10, <2>3, <2>6, <2>8
<1>12. h \in [0 .. Len(l) -> Value]
  BY <1>7, <1>11
<1> QED
  BY <1>6, <1>10, <1>12

\* Appending to a sequence of requests.
LEMMA AppendIs ==
  ASSUME NEW l \in Seq(Op), NEW o \in Op
  PROVE  /\ Append(l, o) \in Seq(Op) /\ Len(Append(l, o)) = Len(l) + 1
         /\ Append(l, o)[Len(l) + 1] = o
         /\ \A n \in 1 .. Len(l) : Append(l, o)[n] = l[n]
  BY SMT

\* l2 goes on where l ends.
Longer(l, l2) ==
  /\ l \in Seq(Op) /\ l2 \in Seq(Op) /\ Len(l) \in Nat /\ Len(l2) \in Nat /\ Len(l) <= Len(l2)
  /\ \A n \in 1 .. Len(l) : l2[n] = l[n]

\* What the reference says of a prefix does not depend on what comes after it.
LEMMA FirstLonger ==
  ASSUME NEW l, NEW l2, Longer(l, l2), NEW n \in 1 .. Len(l)
  PROVE  /\ l2[n] = l[n] /\ n \in 1 .. Len(l2)
         /\ First(l2, n) <=> First(l, n)
         /\ \A k, v : After(l2, n, k, v) = After(l, n, k, v)
<1>1. Len(l) \in Nat /\ Len(l2) \in Nat /\ Len(l) <= Len(l2) /\ \A m \in 1 .. Len(l) : l2[m] = l[m]
  BY DEF Longer
<1>2. n \in 1 .. Len(l2) /\ \A m \in 1 .. n - 1 : m \in 1 .. Len(l)
  BY SMT, <1>1
<1>3. l2[n] = l[n] /\ \A m \in 1 .. n - 1 : l2[m] = l[m]
  BY <1>1, <1>2
<1>4. First(l2, n) <=> First(l, n)
  BY <1>3 DEF First, SameRequest
<1>5. \A k, v : After(l2, n, k, v) = After(l, n, k, v)
  BY <1>3, <1>4 DEF After
<1> QED
  BY <1>2, <1>3, <1>4, <1>5

\* What a key holds after a prefix does not depend on what follows.
LEMMA ContentLonger ==
  ASSUME NEW l, NEW l2, NEW k, Longer(l, l2)
  PROVE  \A n \in 0 .. Len(l) : Content(l2, k)[n] = Content(l, k)[n]
<1>1. l \in Seq(Op) /\ l2 \in Seq(Op) /\ Len(l) \in Nat /\ Len(l2) \in Nat /\ Len(l) <= Len(l2)
  BY DEF Longer
<1> DEFINE S == {n \in 0 .. Len(l) : Content(l2, k)[n] # Content(l, k)[n]}
<1> SUFFICES ASSUME S # {} PROVE FALSE
  OBVIOUS
<1>2. S \in SUBSET Nat
  BY SMT, <1>1
<1>3. PICK n \in S : \A i \in S : n <= i
  BY <1>2, LeastExists
<1>4. n \in 0 .. Len(l) /\ Content(l2, k)[n] # Content(l, k)[n]
  OBVIOUS
<1>5. n # 0
  BY <1>1, <1>4, ContentIs
<1>6. n \in 1 .. Len(l) /\ n \in 1 .. Len(l2) /\ n - 1 \in 0 .. Len(l) /\ ~(n <= n - 1)
  BY SMT, <1>1, <1>4, <1>5
<1>7. Content(l2, k)[n - 1] = Content(l, k)[n - 1]
  BY <1>3, <1>6
<1>8. Content(l, k)[n] = After(l, n, k, Content(l, k)[n - 1])
  BY <1>1, <1>6, ContentIs
<1>9. Content(l2, k)[n] = After(l2, n, k, Content(l2, k)[n - 1])
  BY <1>1, <1>6, ContentIs
<1>10. \A q, v : After(l2, n, q, v) = After(l, n, q, v)
  BY <1>6, FirstLonger
<1> QED
  BY <1>4, <1>7, <1>8, <1>9, <1>10

\* The same, at one place.
LEMMA ContentAtLonger ==
  ASSUME NEW l, NEW l2, Longer(l, l2), NEW n \in 0 .. Len(l), NEW k
  PROVE  Content(l2, k)[n] = Content(l, k)[n]
<1>1. \A m \in 0 .. Len(l) : Content(l2, k)[m] = Content(l, k)[m]
  BY SMT, ContentLonger
<1> QED
  BY <1>1

\* Nor does whether a request is in it,
LEMMA PresentLonger ==
  ASSUME NEW l, NEW l2, Longer(l, l2), NEW n \in 0 .. Len(l), NEW c, NEW i
  PROVE  Present(l2, n, c, i) <=> Present(l, n, c, i)
<1>1. Len(l) \in Nat /\ \A m \in 1 .. Len(l) : l2[m] = l[m]
  BY DEF Longer
<1>2. \A m \in 1 .. n : m \in 1 .. Len(l)
  BY SMT, <1>1
<1> QED
  BY <1>1, <1>2 DEF Present

\* what a server holds that has applied it,
LEMMA AppliedLonger ==
  ASSUME NEW l, NEW l2, Longer(l, l2), NEW m \in 0 .. Len(l), NEW store, NEW latest, NEW entries,
         Applied(l, m, store, latest, entries)
  PROVE  Applied(l2, m, store, latest, entries)
<1>1. Len(l) \in Nat /\ \A n \in 1 .. Len(l) : l2[n] = l[n]
  BY DEF Longer
<1>2. \A n \in 1 .. m : n \in 1 .. Len(l) /\ n - 1 \in 0 .. Len(l)
  BY SMT, <1>1
<1>3. \A k \in Key : store[k] = Content(l2, k)[m]
  <2>1. \A k : Content(l2, k)[m] = Content(l, k)[m]
    BY ContentAtLonger
  <2> QED
    BY <2>1 DEF Applied
<1>4. \A c \in Clerk : IsLatest(l2, m, c, latest[c])
  BY <1>1, <1>2, PresentLonger DEF Applied, IsLatest
<1>5. ASSUME NEW n \in 1 .. m PROVE EntryOf(l2, n) = EntryOf(l, n)
  <2>1. l2[n] = l[n] /\ (First(l2, n) <=> First(l, n))
    BY <1>2, FirstLonger
  <2>2. PICK p \in 0 .. Len(l) : p = n - 1
    BY <1>2
  <2>3. \A k : Content(l2, k)[p] = Content(l, k)[p]
    BY ContentAtLonger
  <2> QED
    BY <2>1, <2>2, <2>3 DEF EntryOf
<1> QED
  BY <1>3, <1>4, <1>5 DEF Applied

\* or the answer to a request in it.
LEMMA AnsweredLonger ==
  ASSUME NEW l, NEW l2, Longer(l, l2), NEW o, NEW v, Answered(l, o, v)
  PROVE  Answered(l2, o, v)
<1>1. PICK n \in 1 .. Len(l) : /\ l[n] = o /\ First(l, n)
                               /\ v = IF o.CommandType = "Get" THEN Content(l, o.CommandKey)[n - 1] ELSE <<>>
  BY DEF Answered
<1>2. n \in 1 .. Len(l2) /\ l2[n] = o /\ First(l2, n)
  BY <1>1, FirstLonger
<1>3. Len(l) \in Nat
  BY DEF Longer
<1>4. PICK p \in 0 .. Len(l) : p = n - 1
  BY SMT, <1>3
<1>5. \A k : Content(l2, k)[p] = Content(l, k)[p]
  BY ContentAtLonger
<1> QED
  BY <1>1, <1>2, <1>4, <1>5 DEF Answered

-----------------------------------------------------------------------------
(* Applying one command *)

\* Comparing a request with the latest of its clerk tells whether it stands
\* there for the first time.
LEMMA DupIsNotFirst ==
  ASSUME NEW l \in Seq(Op), Ordered(l), NEW n \in 1 .. Len(l), NEW latest \in Int,
         IsLatest(l, n - 1, l[n].ClerkId, latest)
  PROVE  latest >= l[n].CommandId <=> ~First(l, n)
<1>1. PICK o \in Op : o = l[n]
  BY SMT
<1>2. o.CommandId \in Nat
  BY OpFields
<1>3. Len(l) \in Nat
  BY SMT
<1>4. ASSUME latest >= o.CommandId PROVE ~First(l, n)
  <2>1. latest # -1
    BY SMT, <1>2, <1>4
  <2>2. PICK p \in 1 .. n - 1 : l[p].ClerkId = o.ClerkId /\ l[p].CommandId = latest
    BY <1>1, <2>1 DEF IsLatest, Present
  <2>3. CASE latest = o.CommandId
    BY <1>1, <2>2, <2>3 DEF First, SameRequest
  <2>4. CASE latest # o.CommandId
    <3>1. o.CommandId \in 0 .. latest - 1
      BY SMT, <1>2, <1>4, <2>4
    <3>2. p \in 1 .. Len(l)
      BY SMT, <1>3
    <3>3. Present(l, p - 1, o.ClerkId, o.CommandId)
      BY <2>2, <3>1, <3>2 DEF Ordered
    <3>4. PICK q \in 1 .. p - 1 : l[q].ClerkId = o.ClerkId /\ l[q].CommandId = o.CommandId
      BY <3>3 DEF Present
    <3>5. q \in 1 .. n - 1
      BY SMT, <1>3
    <3> QED
      BY <1>1, <3>4, <3>5 DEF First, SameRequest
  <2> QED
    BY <2>3, <2>4
<1>5. ASSUME ~First(l, n) PROVE latest >= o.CommandId
  <2>1. PICK m \in 1 .. n - 1 : l[m].ClerkId = o.ClerkId /\ l[m].CommandId = o.CommandId
    BY <1>1, <1>5 DEF First, SameRequest
  <2>2. o.CommandId <= latest
    BY <1>1, <2>1 DEF IsLatest
  <2> QED
    BY <1>2, <2>2
<1> QED
  BY <1>1, <1>4, <1>5

\* The latest request of each clerk after one more command.
LEMMA LatestNext ==
  ASSUME NEW l \in Seq(Op), NEW n \in 1 .. Len(l), NEW c, NEW latest \in Int, NEW latest2 \in Int,
         IsLatest(l, n - 1, c, latest),
         latest2 = IF c = l[n].ClerkId /\ ~(latest >= l[n].CommandId) THEN l[n].CommandId ELSE latest
  PROVE  IsLatest(l, n, c, latest2)
<1>1. PICK o \in Op : o = l[n]
  BY SMT
<1>2. o.CommandId \in Nat
  BY OpFields
<1>3. Len(l) \in Nat
  BY SMT
<1>4. /\ n \in 1 .. n
      /\ \A m \in 1 .. n - 1 : m \in 1 .. n
      /\ \A m \in 1 .. n : m = n \/ m \in 1 .. n - 1
  BY SMT, <1>3
<1>5. latest <= latest2 /\ (c = o.ClerkId => o.CommandId <= latest2)
  BY SMT, <1>1, <1>2
<1>6. \A m \in 1 .. n - 1 : l[m].ClerkId = c => l[m].CommandId <= latest2
  <2> SUFFICES ASSUME NEW m \in 1 .. n - 1, l[m].ClerkId = c PROVE l[m].CommandId <= latest2
    OBVIOUS
  <2>1. l[m].CommandId <= latest
    BY DEF IsLatest
  <2>2. l[m] \in Op
    BY SMT, <1>3
  <2>3. PICK i \in Nat : i = l[m].CommandId
    BY <2>2, OpFields
  <2> QED
    BY SMT, <1>5, <2>1, <2>3
<1>7. \A m \in 1 .. n : l[m].ClerkId = c => l[m].CommandId <= latest2
  BY <1>1, <1>4, <1>5, <1>6
<1>8. latest2 = -1 \/ Present(l, n, c, latest2)
  <2>1. CASE c = o.ClerkId /\ ~(latest >= o.CommandId)
    <3>1. latest2 = o.CommandId
      BY <1>1, <2>1
    <3> QED
      BY <1>1, <1>4, <2>1, <3>1 DEF Present
  <2>2. CASE ~(c = o.ClerkId /\ ~(latest >= o.CommandId))
    <3>1. latest2 = latest
      BY <1>1, <2>2
    <3> QED
      BY <1>4, <3>1 DEF IsLatest, Present
  <2> QED
    BY <2>1, <2>2
<1> QED
  BY <1>7, <1>8 DEF IsLatest

\* What checkApply makes of a server's state, for request o.
ApplyOp(o, dup, store, latest, entries, store2, latest2, entries2) ==
  /\ latest2 = IF dup THEN latest ELSE [latest EXCEPT ![o.ClerkId] = o.CommandId]
  /\ entries2 = Append(entries,
       [ClerkId |-> o.ClerkId, CommandId |-> o.CommandId, IsDup |-> dup,
        CommandValue |-> IF o.CommandType = "Get" /\ ~dup THEN store[o.CommandKey] ELSE o.CommandValue])
  /\ store2 = IF dup \/ o.CommandType = "Get" THEN store
              ELSE [store EXCEPT ![o.CommandKey] =
                      IF o.CommandType = "Put" THEN o.CommandValue ELSE @ \o o.CommandValue]

\* One message of checkApply, as a step of the reference.
LEMMA ApplyNext ==
  ASSUME NEW l \in Seq(Op), Ordered(l), NEW m \in Nat, m + 1 \in 1 .. Len(l),
         NEW store \in [Key -> Value], NEW latest \in [Clerk -> Int], NEW entries \in Seq(Entry),
         Len(entries) = m, Applied(l, m, store, latest, entries),
         NEW o \in Op, o = l[m + 1], NEW dup \in BOOLEAN, dup <=> latest[o.ClerkId] >= o.CommandId,
         NEW store2, NEW latest2, NEW entries2,
         ApplyOp(o, dup, store, latest, entries, store2, latest2, entries2)
  PROVE  Applied(l, m + 1, store2, latest2, entries2)
<1>1. /\ latest2 = IF dup THEN latest ELSE [latest EXCEPT ![o.ClerkId] = o.CommandId]
      /\ entries2 = Append(entries,
           [ClerkId |-> o.ClerkId, CommandId |-> o.CommandId, IsDup |-> dup,
            CommandValue |-> IF o.CommandType = "Get" /\ ~dup THEN store[o.CommandKey] ELSE o.CommandValue])
      /\ store2 = IF dup \/ o.CommandType = "Get" THEN store
                  ELSE [store EXCEPT ![o.CommandKey] =
                          IF o.CommandType = "Put" THEN o.CommandValue ELSE @ \o o.CommandValue]
  BY DEF ApplyOp
<1>2. PICK n \in 1 .. Len(l) : n = m + 1
  OBVIOUS
<1>3. n - 1 = m /\ m \in 0 .. Len(l)
  BY SMT, <1>2
<1>4. /\ o.CommandType \in Type /\ o.CommandKey \in Key /\ o.ClerkId \in Clerk
      /\ o.CommandId \in Nat /\ o.CommandValue \in Value
  BY OpFields
<1>5. dup <=> ~First(l, n)
  <2>1. IsLatest(l, n - 1, o.ClerkId, latest[o.ClerkId]) /\ latest[o.ClerkId] \in Int
    BY <1>3, <1>4 DEF Applied
  <2> QED
    BY <1>2, <2>1, DupIsNotFirst
<1>6. \A k \in Key : store2[k] = Content(l, k)[n]
  <2> SUFFICES ASSUME NEW k \in Key PROVE store2[k] = Content(l, k)[n]
    OBVIOUS
  <2>1. Content(l, k)[n] = After(l, n, k, Content(l, k)[n - 1])
    BY ContentIs
  <2>2. Content(l, k)[n - 1] = store[k]
    BY <1>3 DEF Applied
  <2>3. store2[k] = IF o.CommandKey # k \/ o.CommandType = "Get" \/ dup THEN store[k]
                    ELSE IF o.CommandType = "Put" THEN o.CommandValue ELSE store[k] \o o.CommandValue
    <3>1. PICK v : v = IF o.CommandType = "Put" THEN o.CommandValue
                       ELSE store[o.CommandKey] \o o.CommandValue
      OBVIOUS
    <3>2. store2 = IF dup \/ o.CommandType = "Get" THEN store
                   ELSE [store EXCEPT ![o.CommandKey] = v]
      BY <1>1, <3>1
    <3>3. store2[k] = IF o.CommandKey # k \/ o.CommandType = "Get" \/ dup THEN store[k] ELSE v
      BY <1>4, <3>2
    <3> QED
      BY <3>1, <3>3
  <2> QED
    BY <1>2, <1>5, <2>1, <2>2, <2>3 DEF After
<1>7. \A c \in Clerk : IsLatest(l, n, c, latest2[c])
  <2> SUFFICES ASSUME NEW c \in Clerk PROVE IsLatest(l, n, c, latest2[c])
    OBVIOUS
  <2>1. IsLatest(l, n - 1, c, latest[c]) /\ latest[c] \in Int
    BY <1>3 DEF Applied
  <2>2. latest2[c] = IF c = o.ClerkId /\ ~(latest[c] >= o.CommandId) THEN o.CommandId ELSE latest[c]
    BY <1>1, <1>4
  <2>3. latest2[c] \in Int
    BY SMT, <1>4, <2>1, <2>2
  <2> QED
    BY <1>2, <2>1, <2>2, <2>3, LatestNext
<1>8. \A i \in 1 .. n : entries2[i] = EntryOf(l, i)
  <2>1. PICK e \in Entry :
          e = [ClerkId |-> o.ClerkId, CommandId |-> o.CommandId, IsDup |-> dup,
            CommandValue |-> IF o.CommandType = "Get" /\ ~dup THEN store[o.CommandKey] ELSE o.CommandValue]
    <3>1. o.CommandId \in Id /\ store[o.CommandKey] \in Value
      BY <1>4, OpFields
    <3>2. PICK v \in Value :
            v = IF o.CommandType = "Get" /\ ~dup THEN store[o.CommandKey] ELSE o.CommandValue
      BY <1>4, <3>1
    <3>3. [ClerkId |-> o.ClerkId, CommandId |-> o.CommandId, IsDup |-> dup, CommandValue |-> v] \in Entry
      BY <1>4, <3>1 DEF Entry
    <3> QED
      BY <3>2, <3>3
  <2>2. entries2 = Append(entries, e)
    BY <1>1, <2>1
  <2>3. entries2[n] = e /\ \A i \in 1 .. m : entries2[i] = entries[i]
    BY SMT, <1>2, <2>2
  <2>4. \A i \in 1 .. n : i = n \/ i \in 1 .. m
    BY SMT, <1>2
  <2>5. store[o.CommandKey] = Content(l, o.CommandKey)[n - 1]
    BY <1>3, <1>4 DEF Applied
  <2>6. e = EntryOf(l, n)
    BY <1>2, <1>5, <2>1, <2>5 DEF EntryOf
  <2> QED
    BY <2>3, <2>4, <2>6 DEF Applied
<1> QED
  BY <1>2, <1>6, <1>7, <1>8 DEF Applied

-----------------------------------------------------------------------------
(* Where a request takes effect *)

\* A request that is in the sequence stands there for the first time somewhere.
LEMMA FirstExists ==
  ASSUME NEW l \in Seq(Op), NEW o, NEW n \in 1 .. Len(l), SameRequest(l[n], o)
  PROVE  \E m \in 1 .. n : SameRequest(l[m], o) /\ First(l, m)
<1> DEFINE S == {m \in 1 .. n : SameRequest(l[m], o)}
<1>1. Len(l) \in Nat
  BY SMT
<1>2. S \in SUBSET Nat /\ n \in 1 .. n
  BY SMT, <1>1
<1>3. n \in S
  BY <1>2
<1>4. PICK m \in S : \A i \in S : m <= i
  BY <1>2, <1>3, LeastExists
<1>5. m \in 1 .. n /\ SameRequest(l[m], o)
  OBVIOUS
<1>6. First(l, m)
  <2> SUFFICES ASSUME NEW i \in 1 .. m - 1, SameRequest(l[i], l[m]) PROVE FALSE
    BY DEF First
  <2>1. i \in 1 .. n /\ ~(m <= i)
    BY SMT, <1>1, <1>5
  <2>2. SameRequest(l[i], o)
    BY <1>5 DEF SameRequest
  <2> QED
    BY <1>4, <2>1, <2>2
<1> QED
  BY <1>5, <1>6

\* It does so at one place only.
LEMMA FirstUnique ==
  ASSUME NEW l \in Seq(Op), NEW o, NEW n \in 1 .. Len(l), NEW m \in 1 .. Len(l),
         SameRequest(l[n], o), SameRequest(l[m], o), First(l, n), First(l, m)
  PROVE  n = m
<1>1. SameRequest(l[n], l[m]) /\ SameRequest(l[m], l[n])
  BY DEF SameRequest
<1>2. n \notin 1 .. m - 1 /\ m \notin 1 .. n - 1
  BY <1>1 DEF First
<1>3. Len(l) \in Nat
  BY SMT
<1> QED
  BY SMT, <1>2, <1>3

\* The effect of a request that stands at n for the first time.
LEMMA EffectIs ==
  ASSUME NEW l \in Seq(Op), NEW o, NEW n \in 1 .. Len(l), SameRequest(l[n], o), First(l, n)
  PROVE  Effect(l, o) = <<IF o.CommandType = "Get" THEN Content(l, o.CommandKey)[n - 1] ELSE <<>> >>
<1>1. n \in At(l, o)
  BY DEF At
<1>2. \A m \in At(l, o) : First(l, m) => m = n
  BY FirstUnique DEF At
<1>3. (CHOOSE m \in At(l, o) : First(l, m)) = n
  <2>1. PICK m : m = CHOOSE i \in At(l, o) : First(l, i)
    OBVIOUS
  <2>2. m \in At(l, o) /\ First(l, m)
    BY <1>1, <2>1
  <2> QED
    BY <1>2, <2>1, <2>2
<1> QED
  BY <1>1, <1>3 DEF Effect

\* A request that is not in the sequence has had no effect.
LEMMA NoEffect ==
  ASSUME NEW l, NEW o, \A n \in 1 .. Len(l) : ~SameRequest(l[n], o)
  PROVE  Effect(l, o) = <<>>
<1>1. At(l, o) = {}
  BY DEF At
<1> QED
  BY <1>1 DEF Effect

\* What an answered request found is its effect.
LEMMA AnsweredIs ==
  ASSUME NEW l \in Seq(Op), NEW o, NEW v, Answered(l, o, v)
  PROVE  Effect(l, o) = <<v>>
<1>1. PICK n \in 1 .. Len(l) : /\ l[n] = o /\ First(l, n)
                               /\ v = IF o.CommandType = "Get" THEN Content(l, o.CommandKey)[n - 1] ELSE <<>>
  BY DEF Answered
<1>2. SameRequest(l[n], o)
  BY <1>1 DEF SameRequest
<1> QED
  BY <1>1, <1>2, EffectIs

\* The effect of a request stays what it is when the sequence grows.
LEMMA EffectLonger ==
  ASSUME NEW l, NEW l2, Longer(l, l2), NEW o, NEW n \in 1 .. Len(l), SameRequest(l[n], o)
  PROVE  Effect(l2, o) = Effect(l, o)
<1>1. l \in Seq(Op) /\ l2 \in Seq(Op) /\ Len(l) \in Nat
  BY DEF Longer
<1>2. PICK m \in 1 .. n : SameRequest(l[m], o) /\ First(l, m)
  BY <1>1, FirstExists
<1>3. m \in 1 .. Len(l)
  BY SMT, <1>1
<1>4. m \in 1 .. Len(l2) /\ SameRequest(l2[m], o) /\ First(l2, m)
  BY <1>2, <1>3, FirstLonger
<1>5. PICK p \in 0 .. Len(l) : p = m - 1
  BY SMT, <1>1, <1>3
<1>6. \A k : Content(l2, k)[p] = Content(l, k)[p]
  BY ContentAtLonger
<1>7. Effect(l, o) = <<IF o.CommandType = "Get" THEN Content(l, o.CommandKey)[m - 1] ELSE <<>> >>
  BY <1>1, <1>2, <1>3, EffectIs
<1>8. Effect(l2, o) = <<IF o.CommandType = "Get" THEN Content(l2, o.CommandKey)[m - 1] ELSE <<>> >>
  BY <1>1, <1>4, EffectIs
<1>9. Content(l2, o.CommandKey)[m - 1] = Content(l, o.CommandKey)[m - 1]
  BY <1>5, <1>6
<1>10. PICK e : e = <<IF o.CommandType = "Get" THEN Content(l, o.CommandKey)[m - 1] ELSE <<>> >>
  OBVIOUS
<1>11. Effect(l, o) = e
  BY <1>7, <1>10
<1>12. Effect(l2, o) = e
  BY <1>8, <1>9, <1>10
<1> QED
  BY <1>11, <1>12

\* The requests of a clerk stay in order when one is appended whose
\* predecessors are all there.
LEMMA OrderedLonger ==
  ASSUME NEW l \in Seq(Op), NEW o \in Op, Ordered(l),
         \A i \in 0 .. o.CommandId - 1 : Present(l, Len(l), o.ClerkId, i)
  PROVE  Ordered(Append(l, o)) /\ Longer(l, Append(l, o))
<1>1. PICK l2 : l2 = Append(l, o)
  OBVIOUS
<1>2. /\ l2 \in Seq(Op) /\ Len(l2) = Len(l) + 1 /\ l2[Len(l) + 1] = o
      /\ \A n \in 1 .. Len(l) : l2[n] = l[n]
  BY <1>1, AppendIs
<1>3. Len(l) \in Nat /\ Len(l2) \in Nat /\ Len(l) <= Len(l2)
  BY SMT, <1>2
<1>4. Longer(l, l2)
  BY <1>2, <1>3 DEF Longer
<1>5. ASSUME NEW n \in 1 .. Len(l2), NEW i \in 0 .. l2[n].CommandId - 1
      PROVE  Present(l2, n - 1, l2[n].ClerkId, i)
  <2>1. CASE n \in 1 .. Len(l)
    <3>1. l2[n] = l[n]
      BY <1>2, <2>1
    <3>2. Present(l, n - 1, l[n].ClerkId, i)
      BY <2>1, <3>1 DEF Ordered
    <3>3. n - 1 \in 0 .. Len(l)
      BY SMT, <1>3, <2>1
    <3> QED
      BY <1>4, <3>1, <3>2, <3>3, PresentLonger
  <2>2. CASE n \notin 1 .. Len(l)
    <3>1. n = Len(l) + 1 /\ n - 1 = Len(l) /\ Len(l) \in 0 .. Len(l)
      BY SMT, <1>2, <1>3, <2>2
    <3>2. Present(l, Len(l), o.ClerkId, i)
      BY <1>2, <3>1
    <3>3. Present(l2, Len(l), o.ClerkId, i)
      BY <1>4, <3>1, <3>2, PresentLonger
    <3> QED
      BY <1>2, <3>1, <3>3
  <2> QED
    BY <2>1, <2>2
<1> QED
  BY <1>1, <1>4, <1>5 DEF Ordered

\* The fields of what is logged.
LEMMA EntryFields ==
  ASSUME NEW l, NEW n
  PROVE  /\ EntryOf(l, n).ClerkId = l[n].ClerkId /\ EntryOf(l, n).CommandId = l[n].CommandId
         /\ EntryOf(l, n).IsDup <=> ~First(l, n)
         /\ EntryOf(l, n).CommandValue =
              IF l[n].CommandType = "Get" /\ First(l, n) THEN Content(l, l[n].CommandKey)[n - 1]
              ELSE l[n].CommandValue
  BY DEF EntryOf

\* The numbers of a log entry are those of its command.
LEMMA EntryIds ==
  ASSUME NEW l, NEW n, NEW e, e = EntryOf(l, n)
  PROVE  e.ClerkId = l[n].ClerkId /\ e.CommandId = l[n].CommandId
  BY EntryFields

\* The first entry of a request in the log is that of its first place.
LEMMA FirstAnswerIs ==
  ASSUME NEW l \in Seq(Op), NEW entries \in Seq(Entry), NEW m \in 0 .. Len(l), Len(entries) = m,
         \A n \in 1 .. m : entries[n] = EntryOf(l, n),
         NEW p \in 1 .. m, First(l, p), NEW e, equals(entries[p], e)
  PROVE  FirstAnswer(entries, e) = EntryOf(l, p).CommandValue
<1>1. Len(l) \in Nat
  BY SMT
<1>2. \A n \in 1 .. m : n \in 1 .. Len(l) /\ \A i \in 1 .. n - 1 : i \in 1 .. m
  BY SMT, <1>1
<1>3. \A n \in 1 .. m : entries[n].ClerkId = l[n].ClerkId /\ entries[n].CommandId = l[n].CommandId
  <2> TAKE n \in 1 .. m
  <2>1. PICK x : x = entries[n] /\ x = EntryOf(l, n)
    OBVIOUS
  <2>2. x.ClerkId = l[n].ClerkId /\ x.CommandId = l[n].CommandId
    BY <2>1, EntryIds
  <2> QED
    BY <2>1, <2>2
<1>4. \A n \in 1 .. p - 1 : ~equals(entries[n], e)
  BY <1>2, <1>3 DEF equals, First, SameRequest
<1>5. ASSUME NEW q \in 1 .. m, equals(entries[q], e), \A n \in 1 .. q - 1 : ~equals(entries[n], e)
      PROVE  q = p
  <2>1. q \notin 1 .. p - 1 /\ p \notin 1 .. q - 1
    BY <1>4, <1>5
  <2> QED
    BY SMT, <1>1, <2>1
<1>6. PICK q : q = CHOOSE n \in 1 .. Len(entries) :
                     equals(entries[n], e) /\ \A i \in 1 .. n - 1 : ~equals(entries[i], e)
  OBVIOUS
<1>7. q \in 1 .. m /\ equals(entries[q], e) /\ \A i \in 1 .. q - 1 : ~equals(entries[i], e)
  BY <1>4, <1>6
<1>8. q = p
  BY <1>5, <1>7
<1> QED
  BY <1>6, <1>8 DEF FirstAnswer

\* What a handler answers is what the request found where it took effect.
LEMMA AnswerIs ==
  ASSUME NEW l \in Seq(Op), NEW entries \in Seq(Entry), NEW m \in 0 .. Len(l), Len(entries) = m,
         \A n \in 1 .. m : entries[n] = EntryOf(l, n),
         NEW index \in 1 .. m, NEW o, NEW e, e = entries[index], equals(o, e),
         \A n \in 1 .. Len(l) : SameRequest(l[n], o) => l[n] = o
  PROVE  Answered(l, o, IF o.CommandType # "Get" THEN <<>>
                        ELSE IF e.IsDup THEN FirstAnswer(entries, e) ELSE e.CommandValue)
<1>1. Len(l) \in Nat
  BY SMT
<1>2. index \in 1 .. Len(l) /\ \A n \in 1 .. index : n \in 1 .. m /\ n \in 1 .. Len(l)
  BY SMT, <1>1
<1>3. e.ClerkId = l[index].ClerkId /\ e.CommandId = l[index].CommandId /\ (e.IsDup <=> ~First(l, index))
  BY EntryFields
<1>4. SameRequest(l[index], o)
  BY <1>3 DEF SameRequest, equals
<1>5. PICK p \in 1 .. index : SameRequest(l[p], o) /\ First(l, p)
  BY <1>2, <1>4, FirstExists
<1>6. p \in 1 .. m /\ p \in 1 .. Len(l) /\ l[p] = o /\ l[index] = o
  BY <1>2, <1>4, <1>5
<1>7. ASSUME o.CommandType = "Get"
      PROVE  EntryOf(l, p).CommandValue = Content(l, o.CommandKey)[p - 1]
  BY <1>5, <1>6, <1>7, EntryFields
<1>8. CASE o.CommandType # "Get"
  BY <1>5, <1>6, <1>8 DEF Answered
<1>9. CASE o.CommandType = "Get" /\ e.IsDup
  <2>1. entries[p] = EntryOf(l, p)
    BY <1>6
  <2>2. entries[p].ClerkId = l[p].ClerkId /\ entries[p].CommandId = l[p].CommandId
    BY <2>1, EntryIds
  <2>3. equals(entries[p], e)
    BY <1>6, <2>2 DEF equals
  <2>4. FirstAnswer(entries, e) = EntryOf(l, p).CommandValue
    BY <1>5, <1>6, <2>3, FirstAnswerIs
  <2>5. Answered(l, o, FirstAnswer(entries, e))
    BY <1>5, <1>6, <1>7, <1>9, <2>4 DEF Answered
  <2> QED
    BY <1>9, <2>5
<1>10. CASE o.CommandType = "Get" /\ ~e.IsDup
  <2>1. First(l, index)
    BY <1>3, <1>10
  <2>2. e.CommandValue = Content(l, o.CommandKey)[index - 1]
    BY <1>6, <1>10, <2>1, EntryFields
  <2>3. Answered(l, o, e.CommandValue)
    BY <1>2, <1>6, <1>10, <2>1, <2>2 DEF Answered
  <2> QED
    BY <1>10, <2>3
<1> QED
  BY <1>8, <1>9, <1>10

\* An answer is a value.
LEMMA AnsweredType ==
  ASSUME NEW l \in Seq(Op), NEW o, NEW v, Answered(l, o, v)
  PROVE  v \in Value
<1>1. PICK n \in 1 .. Len(l) :
        v = IF o.CommandType = "Get" THEN Content(l, o.CommandKey)[n - 1] ELSE <<>>
  BY DEF Answered
<1>2. PICK p \in 0 .. Len(l) : p = n - 1
  BY SMT
<1>3. Content(l, o.CommandKey)[p] \in Value
  BY ContentIs
<1>4. <<>> \in Value
  BY SMT DEF Value
<1> QED
  BY <1>1, <1>2, <1>3, <1>4

-----------------------------------------------------------------------------
(* The initial state *)

\* The invariant holds initially: nothing is requested, chosen or applied.
LEMMA KVInit ==
  ASSUME Init
  PROVE  KVInv
<1>1. <<>> \in Value
  BY SMT DEF Value
<1>2. \A c \in Clerk : -1 \in -1 .. MaxCalls - 1 /\ 0 \in 0 .. MaxCalls /\ 0 \in 0 .. MaxTries
  BY SMT, KVAssumption
<1>3. 0 \in Server /\ 0 \in Nat /\ 0 \in 0 .. MaxRestarts
  BY SMT, KVAssumption DEF Server
<1>4. chosen = <<>> /\ <<>> \in Seq(Op) /\ Len(<<>>) = 0 /\ 1 .. 0 = {} /\ <<>> \in Seq(Entry)
  BY SMT DEF Init
<1>5. Types
  <2>1. pending \subseteq (1 .. MaxIndex) \X Op /\ chosen \in Seq(Op) /\ calls \subseteq Goroutine
        /\ late \subseteq Server \X Op
    BY <1>4 DEF Init
  <2>2. kv \in [Server -> [Key -> Value]] /\ log \in [Server -> Seq(Entry)]
    BY <1>1, <1>4 DEF Init
  <2>3. lastApplied \in [Server -> Nat]
    BY <1>3 DEF Init
  <2>4. clerkLatestCmd \in [Server -> [Clerk -> -1 .. MaxCalls - 1]]
    BY <1>2 DEF Init
  <2>5. \A s \in Server : lastApplied[s] = 0 /\ log[s] = <<>>
    BY DEF Init
  <2>6. \A s \in Server : lastApplied[s] = Len(log[s]) /\ lastApplied[s] <= Len(chosen)
    BY SMT, <1>4, <2>5
  <2>7. comandId \in [Clerk -> 0 .. MaxCalls] /\ preLeaderId \in [Clerk -> Server]
        /\ call \in [Clerk -> Op \cup {NoOp}] /\ done \in [Clerk -> BOOLEAN]
    BY <1>2, <1>3 DEF Init
  <2>8. value \in [Clerk -> Value] /\ j \in [Clerk -> Server] /\ tries \in [Clerk -> 0 .. MaxTries]
        /\ result \in [Clerk -> Value] /\ restarts \in 0 .. MaxRestarts
    BY <1>1, <1>2, <1>3 DEF Init
  <2> QED
    BY <2>1, <2>2, <2>3, <2>4, <2>6, <2>7, <2>8 DEF Types
<1>6. \A c \in Clerk : call[c] = NoOp /\ comandId[c] = 0
  BY DEF Init
<1>7. calls = {} /\ late = {} /\ pending = {} /\ 1 .. Len(chosen) = {}
  BY <1>4 DEF Init
<1>8. RequestsOK
  BY <1>6, <1>7 DEF RequestsOK, Requests
<1>9. OrderOK
  <2>1. 0 .. 0 - 1 = {}
    BY SMT
  <2> QED
    BY <1>6, <1>7, <2>1 DEF OrderOK, Ordered
<1>10. ASSUME NEW s \in Server PROVE ServerOK(s)
  <2>1. lastApplied[s] = 0 /\ kv[s] = [k \in Key |-> <<>>] /\ clerkLatestCmd[s] = [c \in Clerk |-> -1]
    BY DEF Init
  <2>2. \A k : Content(chosen, k)[0] = <<>>
    BY <1>4, ContentIs
  <2> QED
    BY <1>4, <2>1, <2>2 DEF ServerOK, Applied, IsLatest
<1>11. AnswersOK
  BY <1>6, <1>7 DEF AnswersOK
<1> QED
  BY <1>5, <1>8, <1>9, <1>10, <1>11 DEF KVInv

-----------------------------------------------------------------------------
(* Goroutines *)

\* A step of goroutine g: it goes on with the same request, or is gone.
Moved(g) ==
  \E new \in Goroutine : /\ new.op = g.op /\ Answering(chosen, new)
                         /\ calls' \subseteq calls \cup {new}

\* The fields of a goroutine.
LEMMA GoroutineFields ==
  ASSUME NEW g \in Goroutine
  PROVE  /\ g.op \in Op /\ g.n \in Nat /\ g.i \in Server /\ g.index \in 0 .. MaxIndex
         /\ g.answer \in Value /\ g.pc \in {"start", "call", "wait", "lost", "returned", "finish"}
  BY DEF Goroutine

\* NextServer wraps round at the last server (client.go).
LEMMA NextServerIs ==
  ASSUME NEW i \in Server
  PROVE  NextServer(i) \in Server
<1>1. i \in Nat /\ N \in Nat /\ N > 0
  BY SMT, KVAssumption DEF Server
<1>2. (i + 1) % N \in 0 .. N - 1
  BY SMT, <1>1
<1> QED
  BY <1>2 DEF NextServer, Server

\* The goroutines that are gone leave the others as they are.
LEMMA GoneMoves ==
  ASSUME Types, AnswersOK, NEW g \in calls, calls' \subseteq calls
  PROVE  Moved(g)
<1>1. g \in Goroutine /\ Answering(chosen, g)
  BY DEF Types, AnswersOK
<1>2. calls' \subseteq calls \cup {g}
  OBVIOUS
<1> QED
  BY <1>1, <1>2 DEF Moved

\* Replacing a goroutine by one with its request is such a step.
LEMMA ReplaceMoves ==
  ASSUME NEW g, NEW new \in Goroutine, new.op = g.op, Answering(chosen, new), Replace(g, new)
  PROVE  Moved(g)
<1>1. calls' \subseteq calls \cup {new}
  BY DEF Replace
<1> QED
  BY <1>1 DEF Moved

\* So is trying the next server,
LEMMA TryNextMoves ==
  ASSUME Types, AnswersOK, NEW g \in calls, TryNext(g)
  PROVE  Moved(g)
<1>1. CASE calls' = calls \ {g}
  <2>1. calls' \subseteq calls
    BY <1>1
  <2> QED
    BY <2>1, GoneMoves
<1>2. CASE Replace(g, [g EXCEPT !.pc = "call", !.i = NextServer(g.i), !.index = 0])
  <2>1. g \in Goroutine
    BY DEF Types
  <2>2. g.i \in Server /\ g.answer \in Value /\ NextServer(g.i) \in Server
    BY <2>1, GoroutineFields, NextServerIs
  <2>3. PICK i \in Server : i = NextServer(g.i)
    BY <2>2
  <2>4. PICK new : new = [g EXCEPT !.pc = "call", !.i = i, !.index = 0]
    OBVIOUS
  <2>5. new = [op |-> g.op, n |-> g.n, i |-> i, pc |-> "call", index |-> 0, answer |-> g.answer]
    BY <2>1, <2>4 DEF Goroutine
  <2>6. 0 \in 0 .. MaxIndex /\ "call" \in {"start", "call", "wait", "lost", "returned", "finish"}
    BY SMT, KVAssumption
  <2>7. g.op \in Op /\ g.n \in Nat /\ g.answer \in Value
    BY <2>1, GoroutineFields
  <2>8. new \in Goroutine /\ new.op = g.op /\ new.pc = "call"
    BY <2>5, <2>6, <2>7 DEF Goroutine
  <2>9. Answering(chosen, new)
    BY <2>8 DEF Answering
  <2> QED
    BY <1>2, <2>3, <2>4, <2>8, <2>9, ReplaceMoves
<1> QED
  BY <1>1, <1>2 DEF TryNext

\* reading preLeaderId,
LEMMA ReadServerMoves ==
  ASSUME Types, NEW g \in calls, NEW i \in Server, ReadServer(g, i)
  PROVE  Moved(g)
<1>1. g \in Goroutine
  BY DEF Types
<1>2. PICK new : new = [g EXCEPT !.pc = "call", !.i = i]
  OBVIOUS
<1>3. new = [op |-> g.op, n |-> g.n, i |-> i, pc |-> "call", index |-> g.index, answer |-> g.answer]
  BY <1>1, <1>2 DEF Goroutine
<1>4. g.op \in Op /\ g.n \in Nat /\ g.answer \in Value /\ g.index \in 0 .. MaxIndex
  BY <1>1, GoroutineFields
<1>5. new \in Goroutine /\ new.op = g.op /\ new.pc = "call"
  BY <1>3, <1>4 DEF Goroutine
<1>6. Answering(chosen, new)
  BY <1>5 DEF Answering
<1> QED
  BY <1>2, <1>5, <1>6, ReplaceMoves DEF ReadServer

\* waiting for what Start has accepted,
LEMMA AcceptMoves ==
  ASSUME Types, NEW g \in calls, NEW index \in 1 .. MaxIndex, Accept(g, index)
  PROVE  Moved(g)
<1>1. g \in Goroutine
  BY DEF Types
<1>2. PICK new : new = [g EXCEPT !.pc = "wait", !.index = index]
  OBVIOUS
<1>3. index \in 0 .. MaxIndex /\ index > 0
  BY SMT, KVAssumption
<1>4. new = [op |-> g.op, n |-> g.n, i |-> g.i, pc |-> "wait", index |-> index, answer |-> g.answer]
  BY <1>1, <1>2 DEF Goroutine
<1>5. g.op \in Op /\ g.n \in Nat /\ g.answer \in Value /\ g.i \in Server
  BY <1>1, GoroutineFields
<1>6. new \in Goroutine /\ new.op = g.op /\ new.pc = "wait" /\ new.index = index
  BY <1>3, <1>4, <1>5 DEF Goroutine
<1>7. Answering(chosen, new)
  BY <1>3, <1>6 DEF Answering
<1> QED
  BY <1>2, <1>6, <1>7, ReplaceMoves DEF Accept

\* and returning to the clerk's goroutine with an answer.
LEMMA CallReturnsMoves ==
  ASSUME Types, AnswersOK, NEW g \in calls, CallReturns(g)
  PROVE  Moved(g)
<1>1. CASE calls' = calls \ {g}
  <2>1. calls' \subseteq calls
    BY <1>1
  <2> QED
    BY <2>1, GoneMoves
<1>2. CASE Replace(g, [g EXCEPT !.pc = "finish"])
  <2>1. g \in Goroutine /\ Answering(chosen, g) /\ g.pc = "returned"
    BY DEF Types, AnswersOK, CallReturns
  <2>2. PICK new : new = [g EXCEPT !.pc = "finish"]
    OBVIOUS
  <2>3. new \in Goroutine /\ new.op = g.op /\ new.pc = "finish" /\ new.answer = g.answer
    BY <2>1, <2>2 DEF Goroutine
  <2>4. Answering(chosen, new)
    BY <2>1, <2>3 DEF Answering
  <2> QED
    BY <1>2, <2>2, <2>3, <2>4, ReplaceMoves
<1> QED
  BY <1>1, <1>2 DEF CallReturns

\* Requests with the same numbers are the same.
LEMMA ChosenRequest ==
  ASSUME RequestsOK, NEW o \in Requests, NEW n \in 1 .. Len(chosen), SameRequest(chosen[n], o)
  PROVE  chosen[n] = o
<1>1. chosen[n] \in Requests
  BY DEF Requests
<1> QED
  BY <1>1 DEF RequestsOK

\* The handler that finds its request applied answers with what it found: the log
\* entry it looks at is that of the first place of the request.
LEMMA ReplyMoves ==
  ASSUME Types, RequestsOK, AnswersOK, \A s \in Server : ServerOK(s), NEW g \in calls, Reply(g)
  PROVE  Moved(g)
<1>1. g \in Goroutine /\ Answering(chosen, g) /\ g.pc = "wait"
  BY DEF Types, AnswersOK, Reply
<1>2. /\ g.op \in Op /\ g.n \in Nat /\ g.i \in Server /\ g.index \in 0 .. MaxIndex
      /\ g.op \in Requests
  BY <1>1, GoroutineFields DEF Requests
<1>3. PICK e : e = log[g.i][g.index]
  OBVIOUS
<1>4. CASE ~equals(g.op, e)
  <2>1. TryNext(g)
    BY <1>3, <1>4 DEF Reply
  <2> QED
    BY <2>1, TryNextMoves
<1>5. CASE equals(g.op, e)
  <2>1. PICK m, entries, index :
          m = lastApplied[g.i] /\ entries = log[g.i] /\ index = g.index
    OBVIOUS
  <2>2. /\ m \in Nat /\ entries \in Seq(Entry) /\ Len(entries) = m /\ m <= Len(chosen)
        /\ chosen \in Seq(Op)
    BY <1>2, <2>1 DEF Types
  <2>3. \A n \in 1 .. m : entries[n] = EntryOf(chosen, n)
    BY <1>2, <2>1 DEF ServerOK, Applied
  <2>4. index \in 0 .. MaxIndex /\ index > 0 /\ m >= index
    BY <1>1, <1>2, <2>1 DEF Answering, Reply
  <2>5. index \in 1 .. m /\ m \in 0 .. Len(chosen)
    BY SMT, <2>2, <2>4, KVAssumption
  <2>6. \A n \in 1 .. Len(chosen) : SameRequest(chosen[n], g.op) => chosen[n] = g.op
    BY <1>2, ChosenRequest
  <2>7. PICK v : v = IF g.op.CommandType # "Get" THEN <<>>
                     ELSE IF e.IsDup THEN FirstAnswer(entries, e) ELSE e.CommandValue
    OBVIOUS
  <2>8. e = entries[index]
    BY <1>3, <2>1
  <2>9. Answered(chosen, g.op, v)
    BY <1>5, <2>2, <2>3, <2>5, <2>6, <2>7, <2>8, AnswerIs
  <2>10. v \in Value
    BY <2>2, <2>9, AnsweredType
  <2>11. PICK new : new = [g EXCEPT !.pc = "returned", !.index = 0, !.answer = v]
    OBVIOUS
  <2>12. Replace(g, new)
    BY <1>3, <1>5, <2>1, <2>7, <2>11 DEF Reply
  <2>13. new = [op |-> g.op, n |-> g.n, i |-> g.i, pc |-> "returned", index |-> 0, answer |-> v]
    BY <1>1, <2>11 DEF Goroutine
  <2>14. 0 \in 0 .. MaxIndex
    BY SMT, KVAssumption
  <2>15. new \in Goroutine /\ new.op = g.op /\ new.pc = "returned" /\ new.answer = v
    BY <1>2, <2>10, <2>13, <2>14 DEF Goroutine
  <2>16. Answering(chosen, new)
    BY <2>9, <2>15 DEF Answering
  <2> QED
    BY <2>12, <2>15, <2>16, ReplaceMoves
<1> QED
  BY <1>4, <1>5

GoroutineStep(g) ==
  \/ \E i \in Server : ReadServer(g, i)
  \/ WrongLeader(g) \/ \E index \in Indexes(g.i) : Accept(g, index)
  \/ Reply(g) \/ CallFails(g) \/ CallReturns(g) \/ Finish(g)

\* Nothing is started and nothing is late that was not, but for request o.
Sends(o) ==
  /\ pending' \subseteq pending \cup ((1 .. MaxIndex) \X {o})
  /\ late' \subseteq late \cup (Server \X {o})

\* What no step of a goroutine changes.
Same == UNCHANGED <<chosen, kv, log, lastApplied, clerkLatestCmd, comandId, preLeaderId, call,
                    tries, result, restarts>>

\* An index that Start gives is one there may be.
LEMMA IndexesAre ==
  ASSUME Types, NEW s \in Server, NEW index \in Indexes(s)
  PROVE  index \in 1 .. MaxIndex
<1>1. lastApplied[s] \in Nat
  BY DEF Types
<1>2. index \in (lastApplied[s] + 1) .. MaxIndex
  BY DEF Indexes
<1> QED
  BY SMT, <1>1, <1>2, KVAssumption

\* Start adds at most the request it is given.
LEMMA StartedSends ==
  ASSUME NEW index \in 1 .. MaxIndex, NEW o, Started(index, o), late' \subseteq late
  PROVE  Sends(o)
<1>1. <<index, o>> \in (1 .. MaxIndex) \X {o}
  OBVIOUS
<1>2. pending' \subseteq pending \cup {<<index, o>>}
  BY DEF Started
<1> QED
  BY <1>1, <1>2 DEF Sends

\* Every step of a goroutine goes on with its request, sends nothing else, and
\* leaves servers and clerks alone, but for the one that finishes the call.
LEMMA GoroutineMoves ==
  ASSUME Types, RequestsOK, AnswersOK, \A s \in Server : ServerOK(s), NEW g \in calls, GoroutineStep(g)
  PROVE  /\ Moved(g) /\ Sends(g.op) /\ Same
         /\ UNCHANGED <<value, j, done>> \/ Finish(g)
<1>1. g \in Goroutine /\ g.i \in Server
  BY GoroutineFields DEF Types
<1>2. ASSUME pending' = pending, late' = late PROVE Sends(g.op)
  BY <1>2 DEF Sends
<1>3. ASSUME NEW i \in Server, ReadServer(g, i) PROVE Moved(g) /\ Sends(g.op) /\ Same /\ UNCHANGED <<value, j, done>>
  <2>1. UNCHANGED <<raft, servers, clerks, late, restarts>>
    BY <1>3 DEF ReadServer
  <2> QED
    BY <1>2, <1>3, <2>1, ReadServerMoves DEF raft, servers, clerks, Same
<1>4. ASSUME WrongLeader(g) PROVE Moved(g) /\ Sends(g.op) /\ Same /\ UNCHANGED <<value, j, done>>
  <2>1. TryNext(g) /\ UNCHANGED <<raft, servers, clerks, late, restarts>>
    BY <1>4 DEF WrongLeader
  <2> QED
    BY <1>2, <2>1, TryNextMoves DEF raft, servers, clerks, Same
<1>5. ASSUME NEW index \in Indexes(g.i), Accept(g, index)
      PROVE  Moved(g) /\ Sends(g.op) /\ Same /\ UNCHANGED <<value, j, done>>
  <2>1. index \in 1 .. MaxIndex
    BY <1>1, IndexesAre
  <2>2. Started(index, g.op) /\ UNCHANGED <<chosen, servers, clerks, late, restarts>>
    BY <1>5 DEF Accept
  <2>3. Sends(g.op)
    BY <2>1, <2>2, StartedSends
  <2> QED
    BY <1>5, <2>1, <2>2, <2>3, AcceptMoves DEF servers, clerks, Same
<1>6. ASSUME Reply(g) PROVE Moved(g) /\ Sends(g.op) /\ Same /\ UNCHANGED <<value, j, done>>
  <2>1. UNCHANGED <<raft, servers, clerks, late, restarts>>
    BY <1>6 DEF Reply
  <2> QED
    BY <1>2, <1>6, <2>1, ReplyMoves DEF raft, servers, clerks, Same
<1>7. ASSUME CallFails(g) PROVE Moved(g) /\ Sends(g.op) /\ Same /\ UNCHANGED <<value, j, done>>
  <2>1. TryNext(g) /\ UNCHANGED <<raft, servers, clerks, restarts>> /\ late' \subseteq late \cup {<<g.i, g.op>>}
    BY <1>7 DEF CallFails
  <2>2. <<g.i, g.op>> \in Server \X {g.op}
    BY <1>1
  <2>3. Sends(g.op)
    BY <2>1, <2>2 DEF Sends, raft
  <2> QED
    BY <2>1, <2>3, TryNextMoves DEF raft, servers, clerks, Same
<1>8. ASSUME CallReturns(g) PROVE Moved(g) /\ Sends(g.op) /\ Same /\ UNCHANGED <<value, j, done>>
  <2>1. UNCHANGED <<raft, servers, clerks, late, restarts>>
    BY <1>8 DEF CallReturns
  <2> QED
    BY <1>2, <1>8, <2>1, CallReturnsMoves DEF raft, servers, clerks, Same
<1>9. ASSUME Finish(g) PROVE Moved(g) /\ Sends(g.op) /\ Same
  <2>1. UNCHANGED <<raft, servers, comandId, preLeaderId, call, tries, late, result, restarts>>
    BY <1>9 DEF Finish
  <2>2. calls' \subseteq calls
    BY <1>9 DEF Finish
  <2> QED
    BY <1>2, <2>1, <2>2, GoneMoves DEF raft, servers, Same
<1> QED
  BY <1>3, <1>4, <1>5, <1>6, <1>7, <1>8, <1>9 DEF GoroutineStep

-----------------------------------------------------------------------------
(* Requests *)

\* So it brings no new request.
LEMMA MovesNoRequest ==
  ASSUME NEW g \in calls, Moved(g), Sends(g.op), chosen' = chosen
  PROVE  Requests' \subseteq Requests
<1>1. PICK new \in Goroutine : new.op = g.op /\ calls' \subseteq calls \cup {new}
  BY DEF Moved
<1>2. PICK o : o = g.op
  OBVIOUS
<1>3. o \in Requests
  BY <1>2 DEF Requests
<1>4. \A x \in calls' : x.op \in Requests
  BY <1>1, <1>2, <1>3 DEF Requests
<1>5. \A m \in (1 .. MaxIndex) \X {o} : m[2] = o
  OBVIOUS
<1>6. \A m \in Server \X {o} : m[2] = o
  OBVIOUS
<1>7. \A m \in pending' : m[2] \in Requests
  BY <1>2, <1>3, <1>5 DEF Sends, Requests
<1>8. \A m \in late' : m[2] \in Requests
  BY <1>2, <1>3, <1>6 DEF Sends, Requests
<1>9. \A n \in 1 .. Len(chosen') : chosen'[n] \in Requests
  BY DEF Requests
<1> QED
  BY <1>4, <1>7, <1>8, <1>9 DEF Requests

\* Where no request is new and no call starts or returns, requests stay distinct.
LEMMA RequestsSame ==
  ASSUME RequestsOK, Requests' \subseteq Requests, UNCHANGED <<call, comandId>>
  PROVE  RequestsOK'
  BY DEF RequestsOK

\* Every request is an Op.
LEMMA RequestsType ==
  ASSUME Types
  PROVE  Requests \subseteq Op
<1>1. \A g \in calls : g.op \in Op
  BY GoroutineFields DEF Types
<1>2. \A m \in late : m[2] \in Op
  <2>1. \A m \in Server \X Op : m[2] \in Op
    OBVIOUS
  <2> QED
    BY <2>1 DEF Types
<1>3. \A m \in pending : m[2] \in Op
  <2>1. \A m \in (1 .. MaxIndex) \X Op : m[2] \in Op
    OBVIOUS
  <2> QED
    BY <2>1 DEF Types
<1>4. chosen \in Seq(Op)
  BY DEF Types
<1>5. \A n \in 1 .. Len(chosen) : chosen[n] \in Op
  BY SMT, <1>4
<1> QED
  BY <1>1, <1>2, <1>3, <1>5 DEF Requests

\* A request of the running call, or of an earlier one.
LEMMA RequestNumber ==
  ASSUME Types, RequestsOK, NEW o \in Requests
  PROVE  /\ o \in Op /\ o.ClerkId \in Clerk /\ o.CommandId \in Nat /\ comandId[o.ClerkId] \in Nat
         /\ o.CommandId <= comandId[o.ClerkId]
         /\ o.CommandId < comandId[o.ClerkId] \/ o = call[o.ClerkId]
<1>1. o \in Op
  BY RequestsType
<1>2. o.ClerkId \in Clerk /\ o.CommandId \in Nat
  BY <1>1, OpFields
<1>3. o.CommandId < comandId[o.ClerkId] \/ o = call[o.ClerkId]
  BY DEF RequestsOK
<1>4. PICK i : i = comandId[o.ClerkId]
  OBVIOUS
<1>5. i \in 0 .. MaxCalls
  BY <1>2, <1>4 DEF Types
<1>6. o = call[o.ClerkId] => o.CommandId = i
  <2>1. o # NoOp
    BY <1>1, KVAssumption
  <2> QED
    BY <1>2, <1>4, <2>1 DEF RequestsOK
<1>7. i \in Nat /\ o.CommandId <= i
  BY SMT, <1>2, <1>3, <1>4, <1>5, <1>6
<1> QED
  BY <1>1, <1>2, <1>3, <1>4, <1>7

-----------------------------------------------------------------------------
(* The steps of a clerk *)

\* A server that is left alone still holds what it applied.
LEMMA ServersSame ==
  ASSUME \A s \in Server : ServerOK(s), UNCHANGED <<chosen, kv, log, lastApplied, clerkLatestCmd>>
  PROVE  \A s \in Server : ServerOK(s)'
  BY DEF ServerOK

\* The request of a new call is an Op.
LEMMA InvokedIs ==
  ASSUME Types, NEW c \in Clerk, NEW type \in Type, NEW key \in Key, Invoke(c, type, key)
  PROVE  \E o \in Op : /\ o.ClerkId = c /\ o.CommandId = comandId[c]
                       /\ call' = [call EXCEPT ![c] = o]
<1>1. PICK i : i = comandId[c]
  OBVIOUS
<1>2. PICK v : v = IF type = "Get" THEN <<>> ELSE <<<<c, i>>>>
  OBVIOUS
<1>3. PICK o : o = [CommandType |-> type, CommandKey |-> key, ClerkId |-> c, CommandId |-> i,
                    CommandValue |-> v]
  OBVIOUS
<1>4. call' = [call EXCEPT ![c] = o]
  BY <1>1, <1>2, <1>3 DEF Invoke
<1>5. i \in 0 .. MaxCalls /\ i < MaxCalls
  BY <1>1 DEF Types, Invoke
<1>6. i \in 0 .. MaxCalls - 1
  BY SMT, <1>5, KVAssumption
<1>7. v \in Text
  BY SMT, <1>2, <1>6 DEF Text
<1>8. o \in Op
  BY <1>3, <1>6, <1>7 DEF Op
<1>9. o.ClerkId = c /\ o.CommandId = i
  BY <1>3
<1> QED
  BY <1>1, <1>4, <1>8, <1>9

\* A new call keeps the invariant: its number is fresh.
LEMMA InvokeKeeps ==
  ASSUME KVInv, NEW c \in Clerk, NEW type \in Type, NEW key \in Key, Invoke(c, type, key)
  PROVE  KVInv'
<1>1. Types /\ RequestsOK /\ OrderOK /\ (\A s \in Server : ServerOK(s)) /\ AnswersOK
  BY DEF KVInv
<1>2. PICK o \in Op : /\ o.ClerkId = c /\ o.CommandId = comandId[c]
                      /\ call' = [call EXCEPT ![c] = o]
  BY <1>1, InvokedIs
<1>3. /\ call[c] = NoOp /\ j' = [j EXCEPT ![c] = preLeaderId[c]] /\ done' = [done EXCEPT ![c] = FALSE]
      /\ value' = [value EXCEPT ![c] = <<>>] /\ tries' = [tries EXCEPT ![c] = 0]
      /\ UNCHANGED <<pending, chosen, kv, log, lastApplied, clerkLatestCmd, comandId, preLeaderId,
                     calls, late, result, restarts>>
  BY DEF Invoke, raft, servers
<1>4. call \in [Clerk -> Op \cup {NoOp}] /\ done \in [Clerk -> BOOLEAN]
  BY <1>1 DEF Types
<1>5. call'[c] = o /\ ~done'[c] /\ \A d \in Clerk : d # c => call'[d] = call[d] /\ done'[d] = done[d]
  BY <1>2, <1>3, <1>4
<1>6. Types'
  <2>1. call' \in [Clerk -> Op \cup {NoOp}] /\ done' \in [Clerk -> BOOLEAN]
    BY <1>2, <1>3, <1>4
  <2>2. j' \in [Clerk -> Server]
    BY <1>1, <1>3 DEF Types
  <2>3. <<>> \in Value /\ 0 \in 0 .. MaxTries
    BY SMT, KVAssumption DEF Value
  <2>4. value' \in [Clerk -> Value]
    BY <1>1, <1>3, <2>3 DEF Types
  <2>5. tries' \in [Clerk -> 0 .. MaxTries]
    BY <1>1, <1>3, <2>3 DEF Types
  <2> QED
    BY <1>1, <1>3, <2>1, <2>2, <2>4, <2>5 DEF Types
<1>7. RequestsOK'
  <2>1. Requests' = Requests
    BY <1>3 DEF Requests
  <2>2. ASSUME NEW d \in Clerk, call'[d] # NoOp
        PROVE  call'[d].ClerkId = d /\ call'[d].CommandId = comandId[d]
    <3>1. CASE d = c
      BY <1>2, <1>5, <3>1
    <3>2. CASE d # c
      BY <1>1, <1>5, <2>2, <3>2 DEF RequestsOK
    <3> QED
      BY <3>1, <3>2
  <2>3. ASSUME NEW x \in Requests
        PROVE  x.CommandId < comandId[x.ClerkId] \/ x = call'[x.ClerkId]
    <3>1. x \in Op /\ x.ClerkId \in Clerk
      BY <1>1, RequestNumber
    <3>2. x.CommandId < comandId[x.ClerkId] \/ x = call[x.ClerkId]
      BY <1>1 DEF RequestsOK
    <3>3. x # NoOp
      BY <3>1, KVAssumption
    <3> QED
      BY <1>3, <1>5, <3>1, <3>2, <3>3
  <2> QED
    BY <1>1, <1>3, <2>1, <2>2, <2>3 DEF RequestsOK
<1>8. OrderOK'
  BY <1>1, <1>3 DEF OrderOK
<1>9. \A s \in Server : ServerOK(s)'
  BY <1>1, <1>3, ServersSame
<1>10. AnswersOK'
  <2>1. \A d \in Clerk : d # c => value'[d] = value[d]
    BY <1>1, <1>3 DEF Types
  <2> QED
    BY <1>1, <1>3, <1>5, <2>1 DEF AnswersOK
<1> QED
  BY <1>6, <1>7, <1>8, <1>9, <1>10 DEF KVInv

\* The goroutine of a call starts with the request of the call.
LEMMA StartGoroutineKeeps ==
  ASSUME KVInv, NEW c \in Clerk, StartGoroutine(c)
  PROVE  KVInv'
<1>1. Types /\ RequestsOK /\ OrderOK /\ (\A s \in Server : ServerOK(s)) /\ AnswersOK
  BY DEF KVInv
<1>2. PICK o, new : /\ o = call[c]
                    /\ new = [op |-> o, n |-> tries[c], i |-> 0, pc |-> "start", index |-> 0, answer |-> <<>>]
  OBVIOUS
<1>3. /\ o # NoOp /\ tries[c] < MaxTries /\ tries' = [tries EXCEPT ![c] = tries[c] + 1]
      /\ calls' = calls \cup {new}
      /\ UNCHANGED <<pending, chosen, kv, log, lastApplied, clerkLatestCmd, comandId, preLeaderId,
                     call, done, value, j, late, result, restarts>>
  BY <1>2 DEF StartGoroutine, raft, servers
<1>4. o \in Op /\ o.ClerkId = c /\ o.CommandId = comandId[c]
  BY <1>1, <1>2, <1>3 DEF Types, RequestsOK
<1>5. new \in Goroutine /\ new.op = o /\ new.pc = "start"
  <2>1. tries[c] \in Nat /\ 0 \in 0 .. MaxIndex /\ <<>> \in Value /\ 0 \in Server
    <3>1. tries[c] \in 0 .. MaxTries
      BY <1>1 DEF Types
    <3> QED
      BY SMT, <3>1, KVAssumption DEF Value, Server
  <2> QED
    BY <1>2, <1>4, <2>1 DEF Goroutine
<1>6. Types'
  <2>1. tries' \in [Clerk -> 0 .. MaxTries]
    <3>1. tries \in [Clerk -> 0 .. MaxTries]
      BY <1>1 DEF Types
    <3>2. tries[c] + 1 \in 0 .. MaxTries
      BY SMT, <1>3, <3>1, KVAssumption
    <3> QED
      BY <1>3, <3>1, <3>2
  <2> QED
    BY <1>1, <1>3, <1>5, <2>1 DEF Types
<1>7. RequestsOK'
  <2>1. Requests' \subseteq Requests \cup {o}
    BY <1>3, <1>5 DEF Requests
  <2>2. \A x \in Requests : SameRequest(x, o) => x = o
    <3> SUFFICES ASSUME NEW x \in Requests, SameRequest(x, o) PROVE x = o
      OBVIOUS
    <3>1. x.CommandId \in Nat /\ (x.CommandId < comandId[x.ClerkId] \/ x = call[x.ClerkId])
      BY <1>1, RequestNumber
    <3>2. x.ClerkId = c /\ x.CommandId = comandId[c]
      BY <1>4 DEF SameRequest
    <3>3. ~(comandId[c] < comandId[c])
      <4>1. comandId[c] \in 0 .. MaxCalls
        BY <1>1 DEF Types
      <4> QED
        BY SMT, <4>1
    <3> QED
      BY <1>2, <3>1, <3>2, <3>3
  <2>3. \A a, b \in Requests \cup {o} : SameRequest(a, b) => a = b
    BY <1>1, <2>2 DEF RequestsOK, SameRequest
  <2>4. \A x \in Requests \cup {o} : x.CommandId < comandId[x.ClerkId] \/ x = call[x.ClerkId]
    BY <1>1, <1>2, <1>4 DEF RequestsOK
  <2> QED
    BY <1>1, <1>3, <2>1, <2>3, <2>4 DEF RequestsOK
<1>8. OrderOK'
  BY <1>1, <1>3 DEF OrderOK
<1>9. \A s \in Server : ServerOK(s)'
  BY <1>1, <1>3, ServersSame
<1>10. AnswersOK'
  <2>1. Answering(chosen, new)
    BY <1>5 DEF Answering
  <2> QED
    BY <1>1, <1>3, <2>1 DEF AnswersOK
<1> QED
  BY <1>6, <1>7, <1>8, <1>9, <1>10 DEF KVInv

\* A call returns when its request has been delivered, so that the clerk may go on
\* to the next number.
LEMMA ReturnKeeps ==
  ASSUME KVInv, NEW c \in Clerk, Return(c)
  PROVE  KVInv'
<1>1. Types /\ RequestsOK /\ OrderOK /\ (\A s \in Server : ServerOK(s)) /\ AnswersOK
  BY DEF KVInv
<1>2. PICK o, k : o = call[c] /\ k = comandId[c]
  OBVIOUS
<1>3. /\ o # NoOp /\ done[c] /\ preLeaderId' = [preLeaderId EXCEPT ![c] = j[c]]
      /\ comandId' = [comandId EXCEPT ![c] = k + 1] /\ result' = [result EXCEPT ![c] = value[c]]
      /\ call' = [call EXCEPT ![c] = NoOp]
      /\ UNCHANGED <<pending, chosen, kv, log, lastApplied, clerkLatestCmd, done, value, j, tries,
                     calls, late, restarts>>
  BY <1>2 DEF Return, NextComandId, raft, servers
<1>4. o \in Op /\ o.ClerkId = c /\ o.CommandId = k
  BY <1>1, <1>2, <1>3 DEF Types, RequestsOK
<1>5. call \in [Clerk -> Op \cup {NoOp}] /\ comandId \in [Clerk -> 0 .. MaxCalls]
  BY <1>1 DEF Types
<1>6. k \in 0 .. MaxCalls - 1
  BY <1>4, OpFields DEF Id
<1>7. k \in Nat /\ k + 1 \in 0 .. MaxCalls
  BY SMT, <1>6, KVAssumption
<1>8. /\ call'[c] = NoOp /\ comandId'[c] = k + 1
      /\ \A d \in Clerk : d # c => call'[d] = call[d] /\ comandId'[d] = comandId[d]
  BY <1>3, <1>5
<1>9. Types'
  <2>1. call' \in [Clerk -> Op \cup {NoOp}] /\ comandId' \in [Clerk -> 0 .. MaxCalls]
    BY <1>3, <1>5, <1>7
  <2>2. preLeaderId' \in [Clerk -> Server] /\ result' \in [Clerk -> Value]
    BY <1>1, <1>3 DEF Types
  <2> QED
    BY <1>1, <1>3, <2>1, <2>2 DEF Types
<1>10. RequestsOK'
  <2>1. Requests' = Requests
    BY <1>3 DEF Requests
  <2>2. ASSUME NEW d \in Clerk, call'[d] # NoOp
        PROVE  call'[d].ClerkId = d /\ call'[d].CommandId = comandId'[d]
    BY <1>1, <1>8, <2>2 DEF RequestsOK
  <2>3. ASSUME NEW x \in Requests
        PROVE  x.CommandId < comandId'[x.ClerkId] \/ x = call'[x.ClerkId]
    <3>1. /\ x.ClerkId \in Clerk /\ x.CommandId \in Nat /\ x.CommandId <= comandId[x.ClerkId]
          /\ x.CommandId < comandId[x.ClerkId] \/ x = call[x.ClerkId]
      BY <1>1, RequestNumber
    <3>2. CASE x.ClerkId = c
      <4>1. x.CommandId <= k
        BY <1>2, <3>1, <3>2
      <4>2. x.CommandId < k + 1
        BY SMT, <1>7, <3>1, <4>1
      <4> QED
        BY <1>8, <3>2, <4>2
    <3>3. CASE x.ClerkId # c
      BY <1>8, <3>1, <3>3
    <3> QED
      BY <3>2, <3>3
  <2> QED
    BY <1>1, <2>1, <2>2, <2>3 DEF RequestsOK
<1>11. OrderOK'
  <2>1. ASSUME NEW d \in Clerk, NEW i \in 0 .. comandId'[d] - 1 PROVE Present(chosen, Len(chosen), d, i)
    <3>1. CASE d # c \/ i \in 0 .. k - 1
      BY <1>1, <1>2, <1>8, <3>1 DEF OrderOK
    <3>2. CASE d = c /\ i \notin 0 .. k - 1
      <4>1. i \in 0 .. (k + 1) - 1
        BY <1>8, <3>2
      <4>2. i = k
        BY SMT, <1>7, <3>2, <4>1
      <4>3. PICK n \in 1 .. Len(chosen) : chosen[n] = o
        BY <1>1, <1>2, <1>3 DEF AnswersOK, Answered
      <4> QED
        BY <1>4, <3>2, <4>2, <4>3 DEF Present
    <3> QED
      BY <3>1, <3>2
  <2> QED
    BY <1>1, <1>3, <2>1 DEF OrderOK
<1>12. \A s \in Server : ServerOK(s)'
  BY <1>1, <1>3, ServersSame
<1>13. AnswersOK'
  BY <1>1, <1>3, <1>8 DEF AnswersOK
<1> QED
  BY <1>9, <1>10, <1>11, <1>12, <1>13 DEF KVInv

-----------------------------------------------------------------------------
(* The steps of goroutines and late requests *)

\* What is sent for an Op has its type.
LEMMA SendsTypes ==
  ASSUME Types, NEW o \in Op, Sends(o)
  PROVE  pending' \subseteq (1 .. MaxIndex) \X Op /\ late' \subseteq Server \X Op
<1>1. (1 .. MaxIndex) \X {o} \subseteq (1 .. MaxIndex) \X Op /\ Server \X {o} \subseteq Server \X Op
  OBVIOUS
<1> QED
  BY <1>1 DEF Types, Sends

\* A goroutine that finishes its call brings the answer.
LEMMA FinishAnswers ==
  ASSUME Types, AnswersOK, NEW g \in calls, Finish(g)
  PROVE  /\ value' \in [Clerk -> Value] /\ j' \in [Clerk -> Server] /\ done' \in [Clerk -> BOOLEAN]
         /\ \A c \in Clerk : call[c] # NoOp /\ done'[c] => Answered(chosen, call[c], value'[c])
<1>1. value \in [Clerk -> Value] /\ j \in [Clerk -> Server] /\ done \in [Clerk -> BOOLEAN]
  BY DEF Types
<1>2. \A c \in Clerk : call[c] # NoOp /\ done[c] => Answered(chosen, call[c], value[c])
  BY DEF AnswersOK
<1>3. g \in Goroutine /\ Answering(chosen, g) /\ g.pc = "finish"
  BY DEF Types, AnswersOK, Finish
<1>4. Answered(chosen, g.op, g.answer)
  BY <1>3 DEF Answering
<1>5. g.answer \in Value /\ g.i \in Server
  BY <1>3, GoroutineFields
<1>6. CASE g.op # call[g.op.ClerkId]
  <2>1. UNCHANGED <<value, j, done>>
    BY <1>6 DEF Finish
  <2> QED
    BY <1>1, <1>2, <2>1
<1>7. CASE g.op = call[g.op.ClerkId]
  <2>1. PICK c : c = g.op.ClerkId
    OBVIOUS
  <2>2. /\ value' = [value EXCEPT ![c] = g.answer] /\ j' = [j EXCEPT ![c] = g.i]
        /\ done' = [done EXCEPT ![c] = TRUE]
    BY <1>7, <2>1 DEF Finish
  <2>3. value' \in [Clerk -> Value] /\ j' \in [Clerk -> Server] /\ done' \in [Clerk -> BOOLEAN]
    BY <1>1, <1>5, <2>2
  <2>4. ASSUME NEW d \in Clerk, call[d] # NoOp, done'[d] PROVE Answered(chosen, call[d], value'[d])
    <3>1. CASE d = c
      BY <1>1, <1>4, <1>7, <2>1, <2>2, <3>1
    <3>2. CASE d # c
      BY <1>1, <1>2, <2>2, <2>4, <3>2
    <3> QED
      BY <3>1, <3>2
  <2> QED
    BY <2>3, <2>4
<1> QED
  BY <1>6, <1>7

\* The steps of goroutines keep the invariant,
LEMMA GoroutineKeeps ==
  ASSUME KVInv, NEW g \in calls, GoroutineStep(g)
  PROVE  KVInv'
<1>1. Types /\ RequestsOK /\ OrderOK /\ (\A s \in Server : ServerOK(s)) /\ AnswersOK
  BY DEF KVInv
<1>2. Moved(g) /\ Sends(g.op) /\ Same /\ (UNCHANGED <<value, j, done>> \/ Finish(g))
  BY <1>1, GoroutineMoves
<1>3. g.op \in Op
  BY <1>1, GoroutineFields DEF Types
<1>4. PICK new \in Goroutine : Answering(chosen, new) /\ calls' \subseteq calls \cup {new}
  BY <1>2 DEF Moved
<1>5. UNCHANGED <<chosen, kv, log, lastApplied, clerkLatestCmd, comandId, preLeaderId, call, tries,
                  result, restarts>>
  BY <1>2 DEF Same
<1>6. /\ value' \in [Clerk -> Value] /\ j' \in [Clerk -> Server] /\ done' \in [Clerk -> BOOLEAN]
      /\ \A c \in Clerk : call[c] # NoOp /\ done'[c] => Answered(chosen, call[c], value'[c])
  <2>1. CASE UNCHANGED <<value, j, done>>
    BY <1>1, <2>1 DEF Types, AnswersOK
  <2>2. CASE Finish(g)
    BY <1>1, <2>2, FinishAnswers
  <2> QED
    BY <1>2, <2>1, <2>2
<1>7. Types'
  <2>1. pending' \subseteq (1 .. MaxIndex) \X Op /\ late' \subseteq Server \X Op
    BY <1>1, <1>2, <1>3, SendsTypes
  <2>2. calls' \subseteq Goroutine
    BY <1>1, <1>4 DEF Types
  <2> QED
    BY <1>1, <1>5, <1>6, <2>1, <2>2 DEF Types
<1>8. RequestsOK'
  BY <1>1, <1>2, <1>5, MovesNoRequest, RequestsSame
<1>9. OrderOK'
  BY <1>1, <1>5 DEF OrderOK
<1>10. \A s \in Server : ServerOK(s)'
  BY <1>1, <1>5, ServersSame
<1>11. AnswersOK'
  BY <1>1, <1>4, <1>5, <1>6 DEF AnswersOK
<1> QED
  BY <1>7, <1>8, <1>9, <1>10, <1>11 DEF KVInv

\* and so does a request that reaches a handler late.
LEMMA LateRequestKeeps ==
  ASSUME KVInv, NEW m \in late, NEW index \in Indexes(m[1]), LateRequest(m, index)
  PROVE  KVInv'
<1>1. Types /\ RequestsOK /\ OrderOK /\ (\A s \in Server : ServerOK(s)) /\ AnswersOK
  BY DEF KVInv
<1>2. m \in Server \X Op
  BY <1>1 DEF Types
<1>3. PICK o \in Op : o = m[2]
  BY <1>2
<1>4. m[1] \in Server
  BY <1>2
<1>5. index \in 1 .. MaxIndex
  BY <1>1, <1>4, IndexesAre
<1>6. /\ late' = late \ {m} /\ Started(index, o)
      /\ UNCHANGED <<chosen, kv, log, lastApplied, clerkLatestCmd, comandId, preLeaderId, call, done,
                     value, j, tries, result, calls, restarts>>
  BY <1>3 DEF LateRequest, servers, clerks
<1>7. late' \subseteq late
  BY <1>6
<1>8. Sends(o)
  BY <1>5, <1>6, <1>7, StartedSends
<1>9. Types'
  <2>1. pending' \subseteq (1 .. MaxIndex) \X Op /\ late' \subseteq Server \X Op
    BY <1>1, <1>8, SendsTypes
  <2> QED
    BY <1>1, <1>6, <2>1 DEF Types
<1>10. RequestsOK'
  <2>1. o \in Requests
    BY <1>3 DEF Requests
  <2>2. \A e \in (1 .. MaxIndex) \X {o} : e[2] = o
    OBVIOUS
  <2>3. \A e \in pending' : e[2] \in Requests
    BY <1>8, <2>1, <2>2 DEF Sends, Requests
  <2>4. Requests' \subseteq Requests
    BY <1>6, <1>7, <2>3 DEF Requests
  <2> QED
    BY <1>1, <1>6, <2>4, RequestsSame
<1>11. OrderOK'
  BY <1>1, <1>6 DEF OrderOK
<1>12. \A s \in Server : ServerOK(s)'
  BY <1>1, <1>6, ServersSame
<1>13. AnswersOK'
  BY <1>1, <1>6 DEF AnswersOK
<1> QED
  BY <1>9, <1>10, <1>11, <1>12, <1>13 DEF KVInv

-----------------------------------------------------------------------------
(* The steps of a server *)

\* What checkApply changes at its server, and that it changes nothing elsewhere.
LEMMA CheckApplyIs ==
  ASSUME Types, NEW s \in Server, NEW o \in Op, checkApply(s, o)
  PROVE  /\ \A t \in Server : t # s => /\ kv'[t] = kv[t] /\ clerkLatestCmd'[t] = clerkLatestCmd[t]
                                       /\ log'[t] = log[t] /\ lastApplied'[t] = lastApplied[t]
         /\ lastApplied'[s] = lastApplied[s] + 1 /\ Len(log'[s]) = Len(log[s]) + 1
         /\ \E dup \in BOOLEAN :
              /\ dup <=> clerkLatestCmd[s][o.ClerkId] >= o.CommandId
              /\ ApplyOp(o, dup, kv[s], clerkLatestCmd[s], log[s], kv'[s], clerkLatestCmd'[s], log'[s])
         /\ kv' \in [Server -> [Key -> Value]] /\ log' \in [Server -> Seq(Entry)]
         /\ lastApplied' \in [Server -> Nat] /\ clerkLatestCmd' \in [Server -> [Clerk -> -1 .. MaxCalls - 1]]
<1>1. /\ kv \in [Server -> [Key -> Value]] /\ log \in [Server -> Seq(Entry)]
      /\ lastApplied \in [Server -> Nat] /\ clerkLatestCmd \in [Server -> [Clerk -> -1 .. MaxCalls - 1]]
  BY DEF Types
<1>2. /\ o.CommandKey \in Key /\ o.ClerkId \in Clerk /\ o.CommandId \in Id /\ o.CommandValue \in Value
      /\ o.CommandId \in Nat
  BY OpFields
<1>3. PICK store, latest, entries : store = kv[s] /\ latest = clerkLatestCmd[s] /\ entries = log[s]
  OBVIOUS
<1>4. PICK dup \in BOOLEAN : dup = Dup(s, o)
  <2>1. PICK i : i = latest[o.ClerkId]
    OBVIOUS
  <2>2. i \in -1 .. MaxCalls - 1
    BY <1>1, <1>2, <1>3, <2>1
  <2>3. (i >= o.CommandId) \in BOOLEAN
    BY SMT, <1>2, <2>2
  <2> QED
    BY <1>3, <2>1, <2>3 DEF Dup
<1>5. PICK e : e = [ClerkId |-> o.ClerkId, CommandId |-> o.CommandId, IsDup |-> dup,
                    CommandValue |-> IF o.CommandType = "Get" /\ ~dup THEN store[o.CommandKey]
                                     ELSE o.CommandValue]
  OBVIOUS
<1>6. e \in Entry
  <2>1. store[o.CommandKey] \in Value
    BY <1>1, <1>2, <1>3
  <2> QED
    BY <1>2, <1>5, <2>1 DEF Entry
<1>7. log' = [log EXCEPT ![s] = Append(entries, e)]
  BY <1>5, <1>3, <1>4 DEF checkApply
<1>8. Append(entries, e) \in Seq(Entry) /\ Len(Append(entries, e)) = Len(entries) + 1
  <2>1. entries \in Seq(Entry)
    BY <1>1, <1>3
  <2> QED
    BY SMT, <1>6, <2>1
<1>9. lastApplied' = [lastApplied EXCEPT ![s] = lastApplied[s] + 1]
  BY DEF checkApply
<1>10. PICK v \in Value : v = IF o.CommandType = "Put" THEN o.CommandValue
                             ELSE store[o.CommandKey] \o o.CommandValue
  <2>1. store[o.CommandKey] \in Value
    BY <1>1, <1>2, <1>3
  <2>2. store[o.CommandKey] \o o.CommandValue \in Value
    BY SMT, <1>2, <2>1 DEF Value
  <2> QED
    BY <1>2, <2>2
<1>11. PICK store2 : store2 = IF dup \/ o.CommandType = "Get" THEN store ELSE [store EXCEPT ![o.CommandKey] = v]
  OBVIOUS
<1>12. store2 \in [Key -> Value]
  BY <1>1, <1>11, <1>3
<1>13. kv' = [kv EXCEPT ![s] = store2]
  <2>1. CASE dup \/ o.CommandType = "Get"
    <3>1. kv' = kv /\ store2 = kv[s]
      BY <1>11, <1>3, <1>4, <2>1 DEF checkApply
    <3> QED
      BY <1>1, <3>1
  <2>2. CASE ~(dup \/ o.CommandType = "Get")
    <3>1. kv' = [kv EXCEPT ![s] = [kv[s] EXCEPT ![o.CommandKey] = v]]
      BY <1>10, <1>3, <1>4, <2>2 DEF checkApply
    <3> QED
      BY <1>11, <1>3, <2>2, <3>1
  <2> QED
    BY <2>1, <2>2
<1>14. PICK latest2 : latest2 = IF dup THEN latest ELSE [latest EXCEPT ![o.ClerkId] = o.CommandId]
  OBVIOUS
<1>15. latest2 \in [Clerk -> -1 .. MaxCalls - 1]
  <2>1. o.CommandId \in -1 .. MaxCalls - 1
    BY SMT, <1>2, KVAssumption DEF Id
  <2> QED
    BY <1>1, <1>14, <1>3, <2>1
<1>16. clerkLatestCmd' = [clerkLatestCmd EXCEPT ![s] = latest2]
  <2>1. CASE dup
    <3>1. clerkLatestCmd' = clerkLatestCmd /\ latest2 = clerkLatestCmd[s]
      BY <1>14, <1>3, <1>4, <2>1 DEF checkApply
    <3> QED
      BY <1>1, <3>1
  <2>2. CASE ~dup
    <3>1. clerkLatestCmd' = [clerkLatestCmd EXCEPT ![s] = [clerkLatestCmd[s] EXCEPT ![o.ClerkId] = o.CommandId]]
      BY <1>4, <2>2 DEF checkApply
    <3> QED
      BY <1>14, <1>3, <2>2, <3>1
  <2> QED
    BY <2>1, <2>2
<1>17. lastApplied[s] + 1 \in Nat
  BY SMT, <1>1
<1>18. kv'[s] = store2 /\ log'[s] = Append(entries, e) /\ clerkLatestCmd'[s] = latest2
       /\ lastApplied'[s] = lastApplied[s] + 1
  BY <1>1, <1>7, <1>9, <1>13, <1>16
<1>19. \A t \in Server : t # s => /\ kv'[t] = kv[t] /\ clerkLatestCmd'[t] = clerkLatestCmd[t]
                                  /\ log'[t] = log[t] /\ lastApplied'[t] = lastApplied[t]
  BY <1>1, <1>7, <1>9, <1>13, <1>16
<1>20. kv' \in [Server -> [Key -> Value]] /\ log' \in [Server -> Seq(Entry)]
  BY <1>1, <1>7, <1>8, <1>12, <1>13
<1>21. lastApplied' \in [Server -> Nat] /\ clerkLatestCmd' \in [Server -> [Clerk -> -1 .. MaxCalls - 1]]
  BY <1>1, <1>9, <1>15, <1>16, <1>17
<1>22. kv'[s] = IF dup \/ o.CommandType = "Get" THEN store
                ELSE [store EXCEPT ![o.CommandKey] =
                        IF o.CommandType = "Put" THEN o.CommandValue ELSE @ \o o.CommandValue]
  BY <1>10, <1>11, <1>18
<1>23. Len(log'[s]) = Len(log[s]) + 1
  BY <1>8, <1>18, <1>3
<1>24. ApplyOp(o, dup, store, latest, entries, kv'[s], clerkLatestCmd'[s], log'[s])
  BY <1>5, <1>14, <1>18, <1>22 DEF ApplyOp
<1>25. dup <=> clerkLatestCmd[s][o.ClerkId] >= o.CommandId
  BY <1>4 DEF Dup
<1>26. ApplyOp(o, dup, kv[s], clerkLatestCmd[s], log[s], kv'[s], clerkLatestCmd'[s], log'[s])
  BY <1>3, <1>24
<1> QED
  BY <1>18, <1>19, <1>20, <1>21, <1>23, <1>25, <1>26

\* What applyCh delivers to server s, next in the sequence or new at its end.
Delivered(s, o) ==
  /\ Longer(chosen, chosen') /\ Ordered(chosen')
  /\ lastApplied[s] + 1 \in 1 .. Len(chosen') /\ o = chosen'[lastApplied[s] + 1]
  /\ pending' \subseteq pending /\ Requests' \subseteq Requests
  /\ chosen' = chosen \/ (o \in Requests /\ chosen' = Append(chosen, o))

\* All that is chosen are requests whose predecessors are.
LEMMA PredecessorsPresent ==
  ASSUME Types, RequestsOK, OrderOK, NEW o \in Requests
  PROVE  \A i \in 0 .. o.CommandId - 1 : Present(chosen, Len(chosen), o.ClerkId, i)
<1>1. /\ o.ClerkId \in Clerk /\ o.CommandId \in Nat /\ comandId[o.ClerkId] \in Nat
      /\ o.CommandId <= comandId[o.ClerkId]
  BY RequestNumber
<1>2. PICK c \in Clerk, k \in Nat : c = o.ClerkId /\ k = comandId[c]
  BY <1>1
<1>3. \A i \in 0 .. o.CommandId - 1 : i \in 0 .. k - 1
  BY SMT, <1>1, <1>2
<1> QED
  BY <1>2, <1>3 DEF OrderOK

\* Deliver gives the server the next command of one sequence, which it lengthens
\* by a request if the server has applied all of it.
LEMMA DeliverChooses ==
  ASSUME KVInv, NEW s \in Server, Deliver(s)
  PROVE  /\ \E o \in Op : Delivered(s, o) /\ checkApply(s, o)
         /\ UNCHANGED <<clerks, calls, late, restarts>>
<1>1. Types /\ RequestsOK /\ OrderOK
  BY DEF KVInv
<1>2. PICK n : n = lastApplied[s] + 1
  OBVIOUS
<1>3. /\ chosen \in Seq(Op) /\ lastApplied[s] \in Nat /\ lastApplied[s] <= Len(chosen)
      /\ Ordered(chosen)
  BY <1>1 DEF Types, OrderOK
<1>4. Len(chosen) \in Nat /\ n \in Nat /\ n >= 1 /\ n <= Len(chosen) + 1
  BY SMT, <1>2, <1>3
<1>5. UNCHANGED <<clerks, calls, late, restarts>>
  BY DEF Deliver
<1>6. CASE n <= Len(chosen)
  <2>1. UNCHANGED raft /\ checkApply(s, chosen[n])
    BY <1>2, <1>6 DEF Deliver
  <2>2. n \in 1 .. Len(chosen)
    BY SMT, <1>4, <1>6
  <2>3. PICK o \in Op : o = chosen[n]
    BY SMT, <1>3, <2>2
  <2>4. Len(chosen) <= Len(chosen)
    BY SMT, <1>4
  <2>5. Longer(chosen, chosen)
    BY <1>3, <1>4, <2>4 DEF Longer
  <2>6. chosen' = chosen /\ pending' = pending
    BY <2>1 DEF raft
  <2>7. Requests' = Requests
    BY <1>5, <2>6 DEF Requests
  <2>8. Delivered(s, o)
    BY <1>2, <1>3, <2>2, <2>3, <2>5, <2>6, <2>7 DEF Delivered
  <2> QED
    BY <1>5, <2>1, <2>3, <2>8
<1>7. CASE ~(n <= Len(chosen))
  <2>1. PICK e \in pending : /\ e[1] = n /\ chosen' = Append(chosen, e[2])
                             /\ pending' = {f \in pending : f[1] > n} /\ checkApply(s, e[2])
    BY <1>2, <1>7 DEF Deliver
  <2>2. n = Len(chosen) + 1
    BY SMT, <1>4, <1>7
  <2>3. e[2] \in Requests
    BY DEF Requests
  <2>4. PICK o \in Op : o = e[2]
    BY <1>1, <2>3, RequestsType
  <2>5. Ordered(Append(chosen, o)) /\ Longer(chosen, Append(chosen, o))
    BY <1>1, <1>3, <2>3, <2>4, PredecessorsPresent, OrderedLonger
  <2>6. PICK l2 : l2 = chosen'
    OBVIOUS
  <2>7. /\ Len(l2) = Len(chosen) + 1 /\ l2[Len(chosen) + 1] = o
        /\ \A i \in 1 .. Len(chosen) : l2[i] = chosen[i]
    BY <1>3, <2>1, <2>4, <2>6, AppendIs
  <2>8. n \in 1 .. Len(l2) /\ \A i \in 1 .. Len(l2) : i = Len(chosen) + 1 \/ i \in 1 .. Len(chosen)
    BY SMT, <1>4, <2>2, <2>7
  <2>9. \A i \in 1 .. Len(chosen') : chosen'[i] \in Requests
    BY <2>3, <2>4, <2>6, <2>7, <2>8 DEF Requests
  <2>10. pending' \subseteq pending
    BY <2>1
  <2>11. Requests' \subseteq Requests
    BY <1>5, <2>9, <2>10 DEF Requests
  <2>12. Delivered(s, o)
    BY <1>2, <2>1, <2>2, <2>3, <2>4, <2>5, <2>6, <2>7, <2>8, <2>10, <2>11 DEF Delivered
  <2> QED
    BY <1>5, <2>1, <2>4, <2>12
<1> QED
  BY <1>6, <1>7

\* Applying the command keeps the invariant (checkApply).
LEMMA DeliverKeeps ==
  ASSUME KVInv, NEW s \in Server, Deliver(s)
  PROVE  KVInv'
<1>1. Types /\ RequestsOK /\ OrderOK /\ (\A t \in Server : ServerOK(t)) /\ AnswersOK
  BY DEF KVInv
<1>2. PICK o \in Op : Delivered(s, o) /\ checkApply(s, o)
  BY DeliverChooses
<1>3. UNCHANGED <<comandId, preLeaderId, call, done, value, j, tries, result, calls, late, restarts>>
  BY DeliverChooses DEF clerks
<1>4. PICK l, l2, m : l = chosen /\ l2 = chosen' /\ m = lastApplied[s]
  OBVIOUS
<1>5. /\ Longer(l, l2) /\ Ordered(l2) /\ m + 1 \in 1 .. Len(l2) /\ o = l2[m + 1]
      /\ pending' \subseteq pending /\ Requests' \subseteq Requests
  BY <1>2, <1>4 DEF Delivered
<1>6. l \in Seq(Op) /\ l2 \in Seq(Op) /\ Len(l) \in Nat /\ Len(l2) \in Nat /\ Len(l) <= Len(l2)
  BY <1>5 DEF Longer
<1>7. PICK store, latest, entries : store = kv[s] /\ latest = clerkLatestCmd[s] /\ entries = log[s]
  OBVIOUS
<1>8. PICK dup \in BOOLEAN :
        /\ dup <=> latest[o.ClerkId] >= o.CommandId
        /\ ApplyOp(o, dup, store, latest, entries, kv'[s], clerkLatestCmd'[s], log'[s])
  BY <1>1, <1>2, <1>7, CheckApplyIs
<1>9. /\ \A t \in Server : t # s => /\ kv'[t] = kv[t] /\ clerkLatestCmd'[t] = clerkLatestCmd[t]
                                    /\ log'[t] = log[t] /\ lastApplied'[t] = lastApplied[t]
      /\ lastApplied'[s] = lastApplied[s] + 1 /\ Len(log'[s]) = Len(log[s]) + 1
      /\ kv' \in [Server -> [Key -> Value]] /\ log' \in [Server -> Seq(Entry)]
      /\ lastApplied' \in [Server -> Nat] /\ clerkLatestCmd' \in [Server -> [Clerk -> -1 .. MaxCalls - 1]]
  BY <1>1, <1>2, CheckApplyIs
<1>10. \A t \in Server : lastApplied[t] = Len(log[t]) /\ lastApplied[t] \in Nat /\ lastApplied[t] <= Len(l)
  BY <1>1, <1>4 DEF Types
<1>11. Types'
  <2>1. ASSUME NEW t \in Server PROVE lastApplied'[t] = Len(log'[t]) /\ lastApplied'[t] <= Len(l2)
    <3>1. CASE t = s
      <4>1. m + 1 <= Len(l2)
        BY SMT, <1>5, <1>6
      <4> QED
        BY <1>4, <1>9, <1>10, <3>1, <4>1
    <3>2. CASE t # s
      <4>1. lastApplied[t] <= Len(l2)
        BY SMT, <1>6, <1>10
      <4> QED
        BY <1>9, <1>10, <3>2, <4>1
    <3> QED
      BY <3>1, <3>2
  <2>2. pending' \subseteq (1 .. MaxIndex) \X Op
    BY <1>1, <1>5 DEF Types
  <2> QED
    BY <1>1, <1>3, <1>4, <1>6, <1>9, <2>1, <2>2 DEF Types
<1>12. RequestsOK'
  BY <1>1, <1>3, <1>5, RequestsSame
<1>13. OrderOK'
  <2>1. ASSUME NEW c \in Clerk, NEW i \in 0 .. comandId[c] - 1 PROVE Present(l2, Len(l2), c, i)
    <3>1. Present(l, Len(l), c, i)
      BY <1>1, <1>4 DEF OrderOK
    <3>2. Len(l) \in 0 .. Len(l) /\ \A p \in 1 .. Len(l) : p \in 1 .. Len(l2)
      BY SMT, <1>6
    <3>3. Present(l2, Len(l), c, i)
      BY <1>5, <3>1, <3>2, PresentLonger
    <3> QED
      BY <3>2, <3>3 DEF Present
  <2> QED
    BY <1>3, <1>4, <1>5, <2>1 DEF OrderOK
<1>14. ASSUME NEW t \in Server PROVE Applied(l2, lastApplied[t], kv[t], clerkLatestCmd[t], log[t])
  <2>1. Applied(l, lastApplied[t], kv[t], clerkLatestCmd[t], log[t])
    BY <1>1, <1>4 DEF ServerOK
  <2>2. lastApplied[t] \in 0 .. Len(l)
    BY SMT, <1>6, <1>10
  <2> QED
    BY <1>5, <2>1, <2>2, AppliedLonger
<1>15. ASSUME NEW t \in Server PROVE ServerOK(t)'
  <2>1. CASE t # s
    BY <1>4, <1>9, <1>14, <2>1 DEF ServerOK
  <2>2. CASE t = s
    <3>1. store \in [Key -> Value] /\ latest \in [Clerk -> -1 .. MaxCalls - 1] /\ entries \in Seq(Entry)
      BY <1>1, <1>7 DEF Types
    <3>2. latest \in [Clerk -> Int]
      BY SMT, <3>1
    <3>3. m \in Nat /\ Len(entries) = m
      BY <1>4, <1>7, <1>10
    <3>4. Applied(l2, m, store, latest, entries)
      BY <1>4, <1>7, <1>14
    <3>5. PICK store2, latest2, entries2 : store2 = kv'[s] /\ latest2 = clerkLatestCmd'[s] /\ entries2 = log'[s]
      OBVIOUS
    <3>6. ApplyOp(o, dup, store, latest, entries, store2, latest2, entries2)
      BY <1>8, <3>5
    <3>7. Applied(l2, m + 1, store2, latest2, entries2)
      BY <1>5, <1>6, <1>8, <3>1, <3>2, <3>3, <3>4, <3>6, ApplyNext
    <3> QED
      BY <1>4, <1>9, <2>2, <3>5, <3>7 DEF ServerOK
  <2> QED
    BY <2>1, <2>2
<1>16. AnswersOK'
  <2>1. \A a, v : Answered(l, a, v) => Answered(l2, a, v)
    BY <1>5, AnsweredLonger
  <2> QED
    BY <1>1, <1>3, <1>4, <2>1 DEF AnswersOK, Answering
<1> QED
  BY <1>11, <1>12, <1>13, <1>15, <1>16 DEF KVInv

\* A goroutine whose server is killed while it waits.
LEMMA LostIs ==
  ASSUME NEW g \in Goroutine, NEW x,
         x = [op |-> g.op, n |-> g.n, i |-> g.i, pc |-> "lost", index |-> 0, answer |-> g.answer]
  PROVE  x \in Goroutine /\ Answering(chosen, x) /\ x.op = g.op
<1>1. 0 \in 0 .. MaxIndex
  BY SMT, KVAssumption
<1>2. g.op \in Op /\ g.n \in Nat /\ g.answer \in Value /\ g.i \in Server
  BY GoroutineFields
<1>3. x \in Goroutine /\ x.op = g.op /\ x.pc = "lost"
  BY <1>1, <1>2 DEF Goroutine
<1>4. Answering(chosen, x)
  BY <1>3 DEF Answering
<1> QED
  BY <1>3, <1>4

\* A restarted server has applied nothing.
LEMMA RestartKeeps ==
  ASSUME KVInv, NEW s \in Server, Restart(s)
  PROVE  KVInv'
<1>1. Types /\ RequestsOK /\ OrderOK /\ (\A t \in Server : ServerOK(t)) /\ AnswersOK
  BY DEF KVInv
<1>2. PICK empty, none : empty = [k \in Key |-> <<>>] /\ none = [c \in Clerk |-> -1]
  OBVIOUS
<1>3. /\ kv' = [kv EXCEPT ![s] = empty] /\ log' = [log EXCEPT ![s] = <<>>]
      /\ lastApplied' = [lastApplied EXCEPT ![s] = 0]
      /\ clerkLatestCmd' = [clerkLatestCmd EXCEPT ![s] = none]
      /\ restarts < MaxRestarts /\ restarts' = restarts + 1
      /\ UNCHANGED <<pending, chosen, comandId, preLeaderId, call, done, value, j, tries, result, late>>
  BY <1>2 DEF Restart, Fresh, raft, clerks
<1>4. /\ kv \in [Server -> [Key -> Value]] /\ log \in [Server -> Seq(Entry)]
      /\ lastApplied \in [Server -> Nat] /\ clerkLatestCmd \in [Server -> [Clerk -> -1 .. MaxCalls - 1]]
      /\ chosen \in Seq(Op) /\ restarts \in 0 .. MaxRestarts
  BY <1>1 DEF Types
<1>5. /\ kv'[s] = empty /\ log'[s] = <<>> /\ lastApplied'[s] = 0 /\ clerkLatestCmd'[s] = none
      /\ \A t \in Server : t # s => /\ kv'[t] = kv[t] /\ clerkLatestCmd'[t] = clerkLatestCmd[t]
                                    /\ log'[t] = log[t] /\ lastApplied'[t] = lastApplied[t]
  BY <1>3, <1>4
<1>6. \A x \in calls' : x \in Goroutine /\ Answering(chosen, x) /\ \E g \in calls : x.op = g.op
  <2> SUFFICES ASSUME NEW g \in calls, NEW x,
                      x = IF g.pc = "wait" /\ g.i = s THEN [g EXCEPT !.pc = "lost", !.index = 0] ELSE g
               PROVE  x \in Goroutine /\ Answering(chosen, x) /\ x.op = g.op
    BY DEF Restart
  <2>1. g \in Goroutine /\ Answering(chosen, g)
    BY <1>1 DEF Types, AnswersOK
  <2>2. CASE x = g
    BY <2>1, <2>2
  <2>3. CASE x = [g EXCEPT !.pc = "lost", !.index = 0]
    <3>1. x = [op |-> g.op, n |-> g.n, i |-> g.i, pc |-> "lost", index |-> 0, answer |-> g.answer]
      BY <2>1, <2>3 DEF Goroutine
    <3> QED
      BY <2>1, <3>1, LostIs
  <2> QED
    BY <2>2, <2>3
<1>7. Types'
  <2>1. <<>> \in Value /\ <<>> \in Seq(Entry) /\ Len(<<>>) = 0 /\ 0 \in Nat /\ 0 <= Len(chosen)
        /\ -1 \in -1 .. MaxCalls - 1
    BY SMT, <1>4, KVAssumption DEF Value
  <2>2. empty \in [Key -> Value] /\ none \in [Clerk -> -1 .. MaxCalls - 1]
    BY <1>2, <2>1
  <2>3. /\ kv' \in [Server -> [Key -> Value]] /\ log' \in [Server -> Seq(Entry)]
        /\ lastApplied' \in [Server -> Nat] /\ clerkLatestCmd' \in [Server -> [Clerk -> -1 .. MaxCalls - 1]]
    BY <1>3, <1>4, <2>1, <2>2
  <2>4. \A t \in Server : lastApplied'[t] = Len(log'[t]) /\ lastApplied'[t] <= Len(chosen)
    BY <1>1, <1>5, <2>1 DEF Types
  <2>5. restarts' \in 0 .. MaxRestarts
    BY SMT, <1>3, <1>4, KVAssumption
  <2>6. calls' \subseteq Goroutine
    BY <1>6
  <2> QED
    BY <1>1, <1>3, <2>3, <2>4, <2>5, <2>6 DEF Types
<1>8. RequestsOK'
  <2>1. Requests' \subseteq Requests
    BY <1>3, <1>6 DEF Requests
  <2> QED
    BY <1>1, <1>3, <2>1, RequestsSame
<1>9. OrderOK'
  BY <1>1, <1>3 DEF OrderOK
<1>10. ASSUME NEW t \in Server PROVE ServerOK(t)'
  <2>1. CASE t # s
    BY <1>1, <1>3, <1>5, <2>1 DEF ServerOK
  <2>2. CASE t = s
    <3>1. 1 .. 0 = {}
      BY SMT
    <3>2. \A k : Content(chosen, k)[0] = <<>>
      BY <1>4, ContentIs
    <3>3. Applied(chosen, 0, empty, none, <<>>)
      BY <1>2, <3>1, <3>2 DEF Applied, IsLatest
    <3> QED
      BY <1>3, <1>5, <2>2, <3>3 DEF ServerOK
  <2> QED
    BY <2>1, <2>2
<1>11. AnswersOK'
  BY <1>1, <1>3, <1>6 DEF AnswersOK
<1> QED
  BY <1>7, <1>8, <1>9, <1>10, <1>11 DEF KVInv

-----------------------------------------------------------------------------
(* Every step *)

\* A step that changes nothing keeps the invariant.
LEMMA StutterKeeps ==
  ASSUME KVInv, UNCHANGED vars
  PROVE  KVInv'
<1>1. UNCHANGED <<pending, chosen, kv, log, lastApplied, clerkLatestCmd, comandId, preLeaderId, call,
                  done, value, j, tries, result, calls, late, restarts>>
  BY DEF vars, raft, servers, clerks
<1>2. Requests' = Requests
  BY <1>1 DEF Requests
<1> QED
  BY <1>1, <1>2 DEF KVInv, Types, RequestsOK, OrderOK, ServerOK, AnswersOK

\* The invariant is inductive.
LEMMA KVKeeps ==
  ASSUME KVInv, [Next]_vars
  PROVE  KVInv'
<1>1. CASE UNCHANGED vars
  BY <1>1, StutterKeeps
<1>2. CASE \E c \in Clerk : \/ \E type \in Type, key \in Key : Invoke(c, type, key)
                            \/ StartGoroutine(c) \/ Return(c)
  BY <1>2, InvokeKeeps, StartGoroutineKeeps, ReturnKeeps
<1>3. CASE \E g \in calls : GoroutineStep(g)
  BY <1>3, GoroutineKeeps
<1>4. CASE \E m \in late : \E index \in Indexes(m[1]) : LateRequest(m, index)
  BY <1>4, LateRequestKeeps
<1>5. CASE \E s \in Server : Deliver(s) \/ Restart(s)
  BY <1>5, DeliverKeeps, RestartKeeps
<1> QED
  BY <1>1, <1>2, <1>3, <1>4, <1>5 DEF Next, GoroutineStep

\* The inductive invariant holds.
THEOREM KVInvariantHolds == Spec => []KVInv
<1>1. Init => KVInv
  BY KVInit
<1>2. KVInv /\ [Next]_vars => KVInv'
  BY KVKeeps
<1> QED
  BY <1>1, <1>2, PTL DEF Spec

-----------------------------------------------------------------------------
(* What the runs check *)

\* The invariant implies what the run checks: the types,
LEMMA InvariantTypes ==
  ASSUME KVInv
  PROVE  TypeOK
<1>1. Types
  BY DEF KVInv
<1>2. \A s \in Server, c \in Clerk : clerkLatestCmd[s][c] \in -1 .. MaxCalls - 1
  BY <1>1 DEF Types
<1>3. \A g \in calls : /\ g.op \in Op /\ g.i \in Server /\ g.index \in 0 .. MaxIndex
                       /\ g.pc \in {"start", "call", "wait", "lost", "returned", "finish"}
  BY <1>1, GoroutineFields DEF Types
<1> QED
  BY <1>1, <1>2, <1>3 DEF TypeOK, Types

\* that requests count once,
LEMMA InvariantOnce ==
  ASSUME KVInv
  PROVE  ExactlyOnce
  BY DEF KVInv, ServerOK, Applied, ExactlyOnce

\* and that answers agree.
LEMMA InvariantAgree ==
  ASSUME KVInv
  PROVE  AnswersAgree
<1> SUFFICES ASSUME NEW g \in calls, NEW h \in calls,
                    {g.pc, h.pc} \subseteq {"returned", "finish"}, g.op = h.op
             PROVE  g.answer = h.answer
  BY DEF AnswersAgree
<1>1. g.pc \in {"returned", "finish"} /\ h.pc \in {"returned", "finish"}
  OBVIOUS
<1>2. Answered(chosen, g.op, g.answer) /\ Answered(chosen, g.op, h.answer)
  BY <1>1 DEF KVInv, AnswersOK, Answering
<1>3. chosen \in Seq(Op)
  BY DEF KVInv, Types
<1>4. Effect(chosen, g.op) = <<g.answer>> /\ Effect(chosen, g.op) = <<h.answer>>
  BY <1>2, <1>3, AnsweredIs
<1>5. <<g.answer>> = <<h.answer>>
  BY <1>4
<1> QED
  BY <1>5

\* The variables of the clerks and servers keep their types, and clerks only call
\* servers there are, however often they retry (client.go).
THEOREM KVTypesOK == Spec => []TypeOK
  BY KVInvariantHolds, InvariantTypes, PTL

\* Every server holds what the requests it has applied amount to when each
\* counts once (checkApply), whatever is retried, duplicated or late.
THEOREM RequestsCountOnce == Spec => []ExactlyOnce
  BY KVInvariantHolds, InvariantOnce, PTL

\* All answers to one request are the same, whichever server gives them
\* and whichever of its repetitions they answer (Get, PutAppend).
THEOREM AnswersAreUnique == Spec => []AnswersAgree
  BY KVInvariantHolds, InvariantAgree, PTL

-----------------------------------------------------------------------------
(* The service implements the atomic store *)

\* Initially the store is empty and no call runs.
LEMMA AtomicInit ==
  ASSUME Init
  PROVE  Atomic!Init
<1>1. chosen = <<>> /\ call = [c \in Clerk |-> NoOp] /\ result = [c \in Clerk |-> <<>>]
  BY DEF Init
<1>2. chosen \in Seq(Op) /\ Len(chosen) = 0
  BY SMT, <1>1
<1>3. \A k : Content(chosen, k)[0] = <<>>
  BY <1>2, ContentIs
<1>4. Store = [k \in Key |-> <<>>]
  BY <1>2, <1>3 DEF Store
<1>5. Effects = [c \in Clerk |-> <<>>]
  BY <1>1 DEF Effects
<1> QED
  BY <1>1, <1>4, <1>5 DEF Atomic!Init

\* A step that changes neither the sequence nor a call is invisible.
LEMMA AtomicStutter ==
  ASSUME UNCHANGED <<chosen, call, result>>
  PROVE  UNCHANGED Atomic!vars
<1>1. Store' = Store /\ Effects' = Effects
  BY DEF Store, Effects
<1> QED
  BY <1>1 DEF Atomic!vars

\* A new call has had no effect.
LEMMA InvokeImplements ==
  ASSUME KVInv, NEW c \in Clerk, NEW type \in Type, NEW key \in Key, Invoke(c, type, key)
  PROVE  Atomic!Invoke(c)
<1>1. Types /\ RequestsOK
  BY DEF KVInv
<1>2. PICK o \in Op : /\ o.ClerkId = c /\ o.CommandId = comandId[c]
                      /\ call' = [call EXCEPT ![c] = o]
  BY <1>1, InvokedIs
<1>3. call[c] = NoOp /\ chosen' = chosen /\ result' = result
  BY DEF Invoke, raft
<1>4. call \in [Clerk -> Op \cup {NoOp}] /\ comandId[c] \in 0 .. MaxCalls
  BY <1>1 DEF Types
<1>5. ASSUME NEW n \in 1 .. Len(chosen) PROVE ~SameRequest(chosen[n], o)
  <2> SUFFICES ASSUME SameRequest(chosen[n], o) PROVE FALSE
    OBVIOUS
  <2>1. chosen[n] \in Requests
    BY DEF Requests
  <2>2. PICK x \in Requests : x = chosen[n]
    BY <2>1
  <2>3. x \in Op /\ (x.CommandId < comandId[x.ClerkId] \/ x = call[x.ClerkId])
    BY <1>1, RequestNumber
  <2>4. x.ClerkId = c /\ x.CommandId = comandId[c]
    BY <1>2, <2>2 DEF SameRequest
  <2>5. x # NoOp
    BY <2>3, KVAssumption
  <2>6. ~(comandId[c] < comandId[c])
    BY SMT, <1>4
  <2> QED
    BY <1>3, <2>3, <2>4, <2>5, <2>6
<1>6. Effect(chosen, o) = <<>>
  BY <1>5, NoEffect
<1>7. Effects' = Effects
  <2>1. \A d \in Clerk : (IF call'[d] = NoOp THEN <<>> ELSE Effect(chosen', call'[d]))
                         = (IF call[d] = NoOp THEN <<>> ELSE Effect(chosen, call[d]))
    <3> SUFFICES ASSUME NEW d \in Clerk
                 PROVE  (IF call'[d] = NoOp THEN <<>> ELSE Effect(chosen', call'[d]))
                         = (IF call[d] = NoOp THEN <<>> ELSE Effect(chosen, call[d]))
      OBVIOUS
    <3>1. CASE d = c
      <4>1. call'[d] = o
        BY <1>2, <1>4, <3>1
      <4> QED
        BY <1>3, <1>6, <3>1, <4>1
    <3>2. CASE d # c
      <4>1. call'[d] = call[d]
        BY <1>2, <1>4, <3>2
      <4> QED
        BY <1>3, <4>1
    <3> QED
      BY <3>1, <3>2
  <2> QED
    BY <2>1 DEF Effects
<1>8. Store' = Store
  BY <1>3 DEF Store
<1> QED
  BY <1>2, <1>3, <1>7, <1>8 DEF Atomic!Invoke

\* A call that returns has had its effect, and returns what it found.
LEMMA ReturnImplements ==
  ASSUME KVInv, NEW c \in Clerk, Return(c)
  PROVE  Atomic!Return(c)
<1>1. Types /\ AnswersOK
  BY DEF KVInv
<1>2. /\ call[c] # NoOp /\ done[c] /\ result' = [result EXCEPT ![c] = value[c]]
      /\ call' = [call EXCEPT ![c] = NoOp] /\ chosen' = chosen
  BY DEF Return, raft
<1>3. chosen \in Seq(Op) /\ call \in [Clerk -> Op \cup {NoOp}]
  BY <1>1 DEF Types
<1>4. Answered(chosen, call[c], value[c])
  BY <1>1, <1>2 DEF AnswersOK
<1>5. Effect(chosen, call[c]) = <<value[c]>>
  BY <1>3, <1>4, AnsweredIs
<1>6. Effects[c] = <<value[c]>>
  BY <1>2, <1>5 DEF Effects
<1>7. Effects[c] # <<>> /\ Effects[c][1] = value[c]
  BY SMT, <1>6
<1>8. Effects' = [Effects EXCEPT ![c] = <<>>]
  <2>1. call'[c] = NoOp /\ \A d \in Clerk : d # c => call'[d] = call[d]
    BY <1>2, <1>3
  <2>2. \A d \in Clerk : (IF call'[d] = NoOp THEN <<>> ELSE Effect(chosen', call'[d]))
                         = IF d = c THEN <<>> ELSE Effects[d]
    <3>1. \A d \in Clerk : Effects[d] = IF call[d] = NoOp THEN <<>> ELSE Effect(chosen, call[d])
      BY DEF Effects
    <3>2. ASSUME NEW d \in Clerk, d # c
          PROVE  (IF call'[d] = NoOp THEN <<>> ELSE Effect(chosen', call'[d])) = Effects[d]
      BY <1>2, <2>1, <3>1, <3>2
    <3> QED
      BY <2>1, <3>2
  <2>3. Effects' = [d \in Clerk |-> IF d = c THEN <<>> ELSE Effects[d]]
    BY <2>2 DEF Effects
  <2>4. Effects = [d \in Clerk |-> Effects[d]]
    BY DEF Effects
  <2> QED
    BY <2>3, <2>4
<1>9. Store' = Store
  BY <1>2 DEF Store
<1> QED
  BY <1>2, <1>7, <1>8, <1>9 DEF Atomic!Return

\* What a command at the end of the sequence does to the store.
LEMMA StoreNext ==
  ASSUME NEW l \in Seq(Op), NEW o \in Op, NEW l2, l2 = Append(l, o), Longer(l, l2), NEW k
  PROVE  Content(l2, k)[Len(l2)] = After(l2, Len(l) + 1, k, Content(l, k)[Len(l)])
<1>1. l2 \in Seq(Op) /\ Len(l2) = Len(l) + 1
  BY AppendIs
<1>2. PICK n : n = Len(l) + 1
  OBVIOUS
<1>3. Len(l) \in Nat /\ n \in 1 .. Len(l2) /\ n - 1 = Len(l) /\ Len(l) \in 0 .. Len(l)
  BY SMT, <1>1, <1>2
<1>4. Content(l2, k)[n] = After(l2, n, k, Content(l2, k)[n - 1])
  BY <1>1, <1>3, ContentIs
<1>5. Content(l2, k)[Len(l)] = Content(l, k)[Len(l)]
  BY SMT, <1>3, ContentAtLonger
<1> QED
  BY <1>1, <1>2, <1>3, <1>4, <1>5

\* A request that was not the one appended has the effect it had.
LEMMA OtherEffect ==
  ASSUME NEW l \in Seq(Op), NEW o \in Op, NEW l2, l2 = Append(l, o), Longer(l, l2), NEW x,
         First(l2, Len(l) + 1) => ~SameRequest(o, x)
  PROVE  Effect(l2, x) = Effect(l, x)
<1>1. l2 \in Seq(Op) /\ Len(l2) = Len(l) + 1 /\ l2[Len(l) + 1] = o /\ \A i \in 1 .. Len(l) : l2[i] = l[i]
  BY AppendIs
<1>2. Len(l) \in Nat
  BY SMT
<1>3. CASE \E n \in 1 .. Len(l) : SameRequest(l[n], x)
  BY <1>3, EffectLonger
<1>4. CASE \A n \in 1 .. Len(l) : ~SameRequest(l[n], x)
  <2>1. \A i \in 1 .. Len(l2) : i = Len(l) + 1 \/ i \in 1 .. Len(l)
    BY SMT, <1>1, <1>2
  <2>2. ~SameRequest(o, x)
    <3> SUFFICES ASSUME SameRequest(o, x) PROVE FALSE
      OBVIOUS
    <3>1. PICK n : n = Len(l) + 1
      OBVIOUS
    <3>2. \A i \in 1 .. n - 1 : i \in 1 .. Len(l)
      BY SMT, <1>2, <3>1
    <3>3. \A i \in 1 .. n - 1 : ~SameRequest(l2[i], l2[n])
      BY <1>1, <1>4, <3>1, <3>2 DEF SameRequest
    <3>4. First(l2, n)
      BY <3>3 DEF First
    <3> QED
      BY <3>1, <3>4
  <2>3. \A n \in 1 .. Len(l2) : ~SameRequest(l2[n], x)
    BY <1>1, <1>4, <2>1, <2>2
  <2>4. Effect(l2, x) = <<>> /\ Effect(l, x) = <<>>
    BY <1>4, <2>3, NoEffect
  <2> QED
    BY <2>4
<1> QED
  BY <1>3, <1>4

\* A request that is delivered for the first time is that of a running call,
\* which has had no effect.
LEMMA FirstIsRunning ==
  ASSUME KVInv, NEW o \in Requests, NEW l2, l2 = Append(chosen, o), First(l2, Len(chosen) + 1)
  PROVE  /\ o.ClerkId \in Clerk /\ call[o.ClerkId] = o /\ o # NoOp
         /\ Effect(chosen, o) = <<>>
<1>1. Types /\ RequestsOK /\ OrderOK
  BY DEF KVInv
<1>2. /\ o \in Op /\ o.ClerkId \in Clerk /\ o.CommandId \in Nat
      /\ o.CommandId < comandId[o.ClerkId] \/ o = call[o.ClerkId]
  BY <1>1, RequestNumber
<1>3. chosen \in Seq(Op)
  BY <1>1 DEF Types
<1>4. l2[Len(chosen) + 1] = o /\ \A i \in 1 .. Len(chosen) : l2[i] = chosen[i]
  BY <1>2, <1>3, AppendIs
<1>5. \A n \in 1 .. Len(chosen) : ~SameRequest(chosen[n], o)
  <2>1. PICK p : p = Len(chosen) + 1
    OBVIOUS
  <2>2. \A i \in 1 .. Len(chosen) : i \in 1 .. p - 1
    BY SMT, <1>3, <2>1
  <2>3. \A i \in 1 .. p - 1 : ~SameRequest(l2[i], l2[p])
    BY <2>1 DEF First
  <2> QED
    BY <1>4, <2>1, <2>2, <2>3
<1>6. ~(o.CommandId < comandId[o.ClerkId])
  <2> SUFFICES ASSUME o.CommandId < comandId[o.ClerkId] PROVE FALSE
    OBVIOUS
  <2>1. PICK k : k = comandId[o.ClerkId]
    OBVIOUS
  <2>2. PICK c \in Clerk : c = o.ClerkId /\ k = comandId[c]
    BY <1>2, <2>1
  <2>3. k \in 0 .. MaxCalls /\ o.CommandId < k
    BY <1>1, <2>2 DEF Types
  <2>4. o.CommandId \in 0 .. k - 1
    BY SMT, <1>2, <2>3
  <2>5. Present(chosen, Len(chosen), c, o.CommandId)
    BY <1>1, <2>2, <2>4 DEF OrderOK
  <2> QED
    BY <1>5, <2>2, <2>5 DEF Present, SameRequest
<1>7. o # NoOp
  BY <1>2, KVAssumption
<1> QED
  BY <1>2, <1>5, <1>6, <1>7, NoEffect

\* A repetition leaves the atomic store alone.
LEMMA RepeatedStutters ==
  ASSUME KVInv, NEW o \in Requests, chosen' = Append(chosen, o), Longer(chosen, chosen'),
         ~First(chosen', Len(chosen) + 1), UNCHANGED <<call, result>>
  PROVE  UNCHANGED Atomic!vars
<1>1. chosen \in Seq(Op) /\ o \in Op
  BY RequestNumber DEF KVInv, Types
<1>2. PICK l2 : l2 = chosen'
  OBVIOUS
<1>3. \A k : Content(l2, k)[Len(l2)] = Content(chosen, k)[Len(chosen)]
  <2> TAKE k
  <2>1. Content(l2, k)[Len(l2)] = After(l2, Len(chosen) + 1, k, Content(chosen, k)[Len(chosen)])
    BY <1>1, <1>2, StoreNext
  <2> QED
    BY <1>2, <2>1 DEF After
<1>4. Store' = Store
  BY <1>2, <1>3 DEF Store
<1>5. \A x : Effect(l2, x) = Effect(chosen, x)
  <2> TAKE x
  <2>1. l2 = Append(chosen, o) /\ Longer(chosen, l2) /\ ~First(l2, Len(chosen) + 1)
    BY <1>2
  <2>2. First(l2, Len(chosen) + 1) => ~SameRequest(o, x)
    BY <2>1
  <2> QED
    BY <1>1, <2>1, <2>2, OtherEffect
<1>6. Effects' = Effects
  BY <1>2, <1>5 DEF Effects
<1> QED
  BY <1>4, <1>6 DEF Atomic!vars

\* The store after the commands of l, and what taking effect does to a store.
StoreOf(l) == [k \in Key |-> Content(l, k)[Len(l)]]
Stored(store, o) ==
  [store EXCEPT ![o.CommandKey] =
     CASE o.CommandType = "Get" -> @
       [] o.CommandType = "Put" -> o.CommandValue
       [] o.CommandType = "Append" -> @ \o o.CommandValue]

\* The first delivery of a request makes its effect on the store ...
LEMMA FirstStores ==
  ASSUME NEW l \in Seq(Op), NEW o \in Op, NEW l2, l2 = Append(l, o), Longer(l, l2),
         First(l2, Len(l) + 1), NEW store, store = StoreOf(l)
  PROVE  StoreOf(l2) = Stored(store, o)
<1>1. store = [k \in Key |-> Content(l, k)[Len(l)]]
  BY DEF StoreOf
<1>2. o.CommandKey \in Key /\ o.CommandType \in {"Get", "Put", "Append"}
  BY OpFields, KVAssumption
<1>3. l2[Len(l) + 1] = o
  BY AppendIs
<1>4. PICK w : w = CASE o.CommandType = "Get" -> store[o.CommandKey]
                     [] o.CommandType = "Put" -> o.CommandValue
                     [] o.CommandType = "Append" -> store[o.CommandKey] \o o.CommandValue
  OBVIOUS
<1>5. /\ o.CommandType = "Get" => w = store[o.CommandKey]
      /\ o.CommandType = "Put" => w = o.CommandValue
      /\ o.CommandType = "Append" => w = store[o.CommandKey] \o o.CommandValue
  <2>1. PICK t, v, a : t = o.CommandType /\ v = store[o.CommandKey] /\ a = v \o o.CommandValue
    OBVIOUS
  <2>2. w = CASE t = "Get" -> v [] t = "Put" -> o.CommandValue [] t = "Append" -> a
    BY <1>4, <2>1
  <2>3. /\ t = "Get" => w = v
        /\ t = "Put" => w = o.CommandValue
        /\ t = "Append" => w = a
    <3> HIDE <1>4, <2>1
    <3> QED
      BY <2>2
  <2> QED
    BY <2>1, <2>3
<1>6. \A k \in Key : Content(l2, k)[Len(l2)] = After(l2, Len(l) + 1, k, store[k])
  <2>1. \A k : Content(l2, k)[Len(l2)] = After(l2, Len(l) + 1, k, Content(l, k)[Len(l)])
    BY StoreNext
  <2>2. \A k \in Key : store[k] = Content(l, k)[Len(l)]
    BY <1>1
  <2> QED
    BY <2>1, <2>2
<1>7. ASSUME NEW k \in Key, k # o.CommandKey
      PROVE  Content(l2, k)[Len(l2)] = store[k]
  BY <1>3, <1>6, <1>7 DEF After
<1>8. Content(l2, o.CommandKey)[Len(l2)] = w
  <2>1. PICK v : v = store[o.CommandKey]
    OBVIOUS
  <2>2. Content(l2, o.CommandKey)[Len(l2)] = After(l2, Len(l) + 1, o.CommandKey, v)
    BY <1>2, <1>6, <2>1
  <2>3. After(l2, Len(l) + 1, o.CommandKey, v) = IF o.CommandType = "Get" THEN v
          ELSE IF o.CommandType = "Put" THEN o.CommandValue ELSE v \o o.CommandValue
    BY <1>3 DEF After
  <2>4. CASE o.CommandType = "Get"
    BY <1>5, <2>1, <2>2, <2>3, <2>4
  <2>5. CASE o.CommandType = "Put"
    <3>1. o.CommandType # "Get"
      BY <2>5
    <3> QED
      BY <1>5, <2>1, <2>2, <2>3, <2>5, <3>1
  <2>6. CASE o.CommandType = "Append"
    <3>1. o.CommandType # "Get" /\ o.CommandType # "Put"
      BY <2>6
    <3> QED
      BY <1>5, <2>1, <2>2, <2>3, <2>6, <3>1
  <2> QED
    BY <1>2, <2>4, <2>5, <2>6
<1>9. [k \in Key |-> Content(l2, k)[Len(l2)]] = [store EXCEPT ![o.CommandKey] = w]
  <2>1. \A k \in Key : Content(l2, k)[Len(l2)] = IF k = o.CommandKey THEN w ELSE store[k]
    BY <1>7, <1>8
  <2>2. [store EXCEPT ![o.CommandKey] = w] = [k \in Key |-> IF k = o.CommandKey THEN w ELSE store[k]]
    BY <1>1
  <2> QED
    BY <2>1, <2>2
<1> QED
  BY <1>4, <1>9 DEF Stored, StoreOf

\* ... and gives it its answer.
LEMMA FirstAnswers ==
  ASSUME NEW l \in Seq(Op), NEW o \in Op, NEW l2, l2 = Append(l, o), Longer(l, l2),
         First(l2, Len(l) + 1)
  PROVE  Effect(l2, o)
           = <<IF o.CommandType = "Get" THEN Content(l, o.CommandKey)[Len(l)] ELSE <<>> >>
<1>1. l2 \in Seq(Op) /\ Len(l2) = Len(l) + 1 /\ l2[Len(l) + 1] = o
  BY AppendIs
<1>2. PICK n : n = Len(l) + 1
  OBVIOUS
<1>3. Len(l) \in Nat /\ n \in 1 .. Len(l2) /\ n - 1 = Len(l) /\ Len(l) \in 0 .. Len(l)
  BY SMT, <1>1, <1>2
<1>4. SameRequest(l2[n], o) /\ First(l2, n)
  BY <1>1, <1>2 DEF SameRequest
<1>5. Effect(l2, o) = <<IF o.CommandType = "Get" THEN Content(l2, o.CommandKey)[n - 1] ELSE <<>> >>
  BY <1>1, <1>3, <1>4, EffectIs
<1>6. PICK k : k = o.CommandKey
  OBVIOUS
<1>7. Content(l2, k)[Len(l)] = Content(l, k)[Len(l)]
  BY SMT, <1>3, ContentAtLonger
<1>8. Content(l2, o.CommandKey)[n - 1] = Content(l, o.CommandKey)[Len(l)]
  BY <1>3, <1>6, <1>7
<1> QED
  BY <1>5, <1>8

\* So the call whose request is delivered for the first time takes effect then.
LEMMA FirstTakesEffect ==
  ASSUME KVInv, NEW o \in Requests, chosen' = Append(chosen, o), Longer(chosen, chosen'),
         First(chosen', Len(chosen) + 1), UNCHANGED <<call, result>>
  PROVE  \E c \in Clerk : Atomic!TakeEffect(c)
<1>1. Types /\ RequestsOK
  BY DEF KVInv
<1>2. chosen \in Seq(Op) /\ o \in Op
  BY <1>1, RequestNumber DEF Types
<1>3. PICK l2 : l2 = chosen'
  OBVIOUS
<1>4. PICK c \in Clerk : c = o.ClerkId /\ call[c] = o /\ o # NoOp /\ Effect(chosen, o) = <<>>
  BY <1>3, FirstIsRunning
<1>5. Effects[c] = <<>>
  BY <1>4 DEF Effects
<1>6. Store' = Stored(Store, o)
  <2>1. PICK store : store = Store /\ store = StoreOf(chosen)
    BY DEF Store, StoreOf
  <2>2. StoreOf(l2) = Stored(store, o)
    BY <1>2, <1>3, <2>1, FirstStores
  <2>3. Store' = StoreOf(l2)
    BY <1>3 DEF Store, StoreOf
  <2> QED
    BY <2>1, <2>2, <2>3
<1>7. PICK a : a = <<IF o.CommandType = "Get" THEN Store[o.CommandKey] ELSE <<>> >>
  OBVIOUS
<1>8. Effect(l2, o) = a
  <2>1. Store[o.CommandKey] = Content(chosen, o.CommandKey)[Len(chosen)]
    BY <1>2, OpFields DEF Store
  <2>2. Effect(l2, o) = <<IF o.CommandType = "Get" THEN Content(chosen, o.CommandKey)[Len(chosen)] ELSE <<>> >>
    BY <1>2, <1>3, FirstAnswers
  <2> QED
    BY <1>7, <2>1, <2>2
<1>9. Effects' = [Effects EXCEPT ![c] = a]
  <2>1. \A d \in Clerk : Effects[d] = IF call[d] = NoOp THEN <<>> ELSE Effect(chosen, call[d])
    BY DEF Effects
  <2>2. Effects' = [d \in Clerk |-> IF call[d] = NoOp THEN <<>> ELSE Effect(l2, call[d])]
    BY <1>3 DEF Effects
  <2>3. ASSUME NEW d \in Clerk, d # c
        PROVE  (IF call[d] = NoOp THEN <<>> ELSE Effect(l2, call[d])) = Effects[d]
    <3>1. CASE call[d] = NoOp
      BY <2>1, <3>1
    <3>2. CASE call[d] # NoOp
      <4>1. call[d].ClerkId = d
        BY <1>1, <3>2 DEF RequestsOK
      <4>2. ~SameRequest(o, call[d])
        BY <1>4, <2>3, <4>1 DEF SameRequest
      <4>3. PICK x : x = call[d]
        OBVIOUS
      <4>4. First(l2, Len(chosen) + 1) => ~SameRequest(o, x)
        BY <4>2, <4>3
      <4>5. Effect(l2, x) = Effect(chosen, x)
        BY <1>2, <1>3, <4>4, OtherEffect
      <4> QED
        BY <2>1, <3>2, <4>3, <4>5
    <3> QED
      BY <3>1, <3>2
  <2>4. \A d \in Clerk : (IF call[d] = NoOp THEN <<>> ELSE Effect(l2, call[d]))
                         = IF d = c THEN a ELSE Effects[d]
    BY <1>4, <1>8, <2>3
  <2>5. [Effects EXCEPT ![c] = a] = [d \in Clerk |-> IF d = c THEN a ELSE Effects[d]]
    BY DEF Effects
  <2> QED
    BY <2>2, <2>4, <2>5
<1>10. Atomic!TakeEffect(c)
  BY <1>4, <1>5, <1>6, <1>7, <1>9 DEF Atomic!TakeEffect, Stored
<1> QED
  BY <1>10

\* Delivering a command is a step of the atomic service the first time it is
\* delivered anywhere, and invisible otherwise.
LEMMA DeliverImplements ==
  ASSUME KVInv, NEW s \in Server, Deliver(s)
  PROVE  (\E c \in Clerk : Atomic!TakeEffect(c)) \/ UNCHANGED Atomic!vars
<1>1. PICK o \in Op : Delivered(s, o)
  BY DeliverChooses
<1>2. UNCHANGED <<call, result>>
  BY DeliverChooses DEF clerks
<1>3. Longer(chosen, chosen')
  BY <1>1 DEF Delivered
<1>4. CASE chosen' = chosen
  BY <1>2, <1>4, AtomicStutter
<1>5. CASE o \in Requests /\ chosen' = Append(chosen, o)
  BY <1>2, <1>3, <1>5, FirstTakesEffect, RepeatedStutters
<1> QED
  BY <1>1, <1>4, <1>5 DEF Delivered

\* Goroutines, late requests and restarts do not touch what the clerks are
\* promised.
LEMMA OthersStutter ==
  ASSUME \/ \E c \in Clerk : StartGoroutine(c)
         \/ \E g \in calls : GoroutineStep(g)
         \/ \E m \in late : \E index \in Indexes(m[1]) : LateRequest(m, index)
         \/ \E s \in Server : Restart(s)
  PROVE  UNCHANGED Atomic!vars
<1>1. CASE \E c \in Clerk : StartGoroutine(c)
  BY <1>1, AtomicStutter DEF StartGoroutine, raft
<1>2. CASE \E g \in calls : GoroutineStep(g)
  <2>1. PICK g \in calls : GoroutineStep(g)
    BY <1>2
  <2>2. CASE \E i \in Server : ReadServer(g, i)
    BY <2>2, AtomicStutter DEF ReadServer, raft, clerks
  <2>3. CASE WrongLeader(g)
    BY <2>3, AtomicStutter DEF WrongLeader, raft, clerks
  <2>4. CASE \E index \in Indexes(g.i) : Accept(g, index)
    BY <2>4, AtomicStutter DEF Accept, raft, clerks
  <2>5. CASE Reply(g)
    BY <2>5, AtomicStutter DEF Reply, raft, clerks
  <2>6. CASE CallFails(g)
    BY <2>6, AtomicStutter DEF CallFails, raft, clerks
  <2>7. CASE CallReturns(g)
    BY <2>7, AtomicStutter DEF CallReturns, raft, clerks
  <2>8. CASE Finish(g)
    BY <2>8, AtomicStutter DEF Finish, raft
  <2> QED
    BY <2>1, <2>2, <2>3, <2>4, <2>5, <2>6, <2>7, <2>8 DEF GoroutineStep
<1>3. CASE \E m \in late : \E index \in Indexes(m[1]) : LateRequest(m, index)
  BY <1>3, AtomicStutter DEF LateRequest, clerks
<1>4. CASE \E s \in Server : Restart(s)
  BY <1>4, AtomicStutter DEF Restart, raft, clerks
<1> QED
  BY <1>1, <1>2, <1>3, <1>4

\* Every step maps to a step of the atomic service or to none.
LEMMA StepImplements ==
  ASSUME KVInv, [Next]_vars
  PROVE  [Atomic!Next]_(Atomic!vars)
<1>1. CASE UNCHANGED vars
  BY <1>1, AtomicStutter DEF vars, raft, clerks
<1>2. CASE \E c \in Clerk, type \in Type, key \in Key : Invoke(c, type, key)
  BY <1>2, InvokeImplements DEF Atomic!Next
<1>3. CASE \E c \in Clerk : Return(c)
  BY <1>3, ReturnImplements DEF Atomic!Next
<1>4. CASE \E s \in Server : Deliver(s)
  BY <1>4, DeliverImplements DEF Atomic!Next
<1>5. CASE \/ \E c \in Clerk : StartGoroutine(c)
           \/ \E g \in calls : GoroutineStep(g)
           \/ \E m \in late : \E index \in Indexes(m[1]) : LateRequest(m, index)
           \/ \E s \in Server : Restart(s)
  BY <1>5, OthersStutter
<1> QED
  BY <1>1, <1>2, <1>3, <1>4, <1>5 DEF Next, GoroutineStep

\* The key/value service implements the atomic store: every behaviour of clerks,
\* goroutines, handlers and applyCh is, towards the clerks, one in which each
\* call takes effect once between its start and its return.
THEOREM ServiceIsLinearizable == Spec => Linearizable
<1>1. Init => Atomic!Init
  BY AtomicInit
<1>2. KVInv /\ [Next]_vars => [Atomic!Next]_(Atomic!vars)
  BY StepImplements
<1> QED
  BY <1>1, <1>2, KVInvariantHolds, PTL DEF Spec, Linearizable, Atomic!Spec

=============================================================================
