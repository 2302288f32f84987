------------------------------ MODULE Porcupine ------------------------------
(***************************************************************************)
(* The linearizability checker of the kvraft tests: checkSingle of         *)
(* porcupine/checker.go on the history of one key (models/kv.go).  It is a *)
(* search with backtracking over a doubly linked list of call and return   *)
(* entries, from which an operation is lifted while it is taken to be      *)
(* linearized.  One iteration of its loop is one step.  CheckParallel runs *)
(* it, and sets kill; what it finds is shown by visualization.go.          *)
(*                                                                         *)
(* Entries are numbered by time; head is 0 and nil is beyond the last one. *)
(* The buckets of the cache only speed up its lookup, so it is a set.  A   *)
(* word of a bitset is the set of its ones.                                *)
(*                                                                         *)
(* A definition whose name ends in _Bug is the one after it with a mistake *)
(* in it, used only to show which mistake a property rules out.            *)
(***************************************************************************)
EXTENDS Integers, Sequences, FiniteSets, SequencesExt

CONSTANTS
  Operation,   \* inputs with outputs: [Op : {"get", "put", "append"}, Value]
  MaxOps,      \* bound: operations of a history
  WordSize     \* 64 in bitset.go

ASSUME PorcupineAssumption == MaxOps \in Nat /\ WordSize \in Nat \ {0}

VARIABLES
  ops,         \* the operations, by id
  computePartial,     \* argument: should longest be filled in on the way
  history,     \* the ids of the entries: the first of an id is its call
  nextOf, prevOf,     \* the list
  entry, state, linearized, cache,
  calls,       \* [entry, state]: the operations linearized so far
  longest,     \* by id: a longest linearization found that has the operation
  kill,
  result       \* "running", or what checkSingle returned

fixed == <<ops, history, computePartial>>
search == <<nextOf, prevOf, entry, state, linearized, cache, calls, longest>>
single == <<fixed, search, result>>

-----------------------------------------------------------------------------
(* bitset.go *)

newBitset(n) ==
  [major \in 0 .. (n \div WordSize) + (IF n % WordSize # 0 THEN 1 ELSE 0) - 1 |-> {}]
set(b, pos) == [b EXCEPT ![pos \div WordSize] = @ \cup {pos % WordSize}]
clear(b, pos) == [b EXCEPT ![pos \div WordSize] = @ \ {pos % WordSize}]

-----------------------------------------------------------------------------
(* models/kv.go *)

Legal(st, op) == op.Op = "get" => op.Value = st
NewState(st, op) ==
  CASE op.Op = "get" -> st
    [] op.Op = "put" -> op.Value
    [] op.Op = "append" -> st \o op.Value

-----------------------------------------------------------------------------
(* The list *)

n == Len(ops)
head == 0
nil == Len(history) + 1
IsCall(e) == \A d \in 1 .. e - 1 : history[d] # history[e]
Match(e) == CHOOSE r \in e + 1 .. Len(history) : history[r] = history[e]

\* lift: takes a call and its return out of the list.
lift(e) ==
  LET next == [nextOf EXCEPT ![prevOf[e]] = nextOf[e]]
      prev == [prevOf EXCEPT ![nextOf[e]] = prevOf[e]]
      m == Match(e)
  IN /\ nextOf' = [next EXCEPT ![prev[m]] = next[m]]
     /\ prevOf' = IF next[m] # nil THEN [prev EXCEPT ![next[m]] = prev[m]] ELSE prev

\* unlift: puts them back, the return first, so that the pointers they still
\* hold are right again; or forgets the pointer back to the call.
unlift_Bug(e) ==
  LET m == Match(e)
      next == [nextOf EXCEPT ![prevOf[m]] = m]
      prev == IF nextOf[m] # nil THEN [prevOf EXCEPT ![nextOf[m]] = m] ELSE prevOf
  IN nextOf' = [next EXCEPT ![prev[e]] = e] /\ prevOf' = prev
unlift(e) ==
  LET m == Match(e)
      next == [nextOf EXCEPT ![prevOf[m]] = m]
      prev == IF nextOf[m] # nil THEN [prevOf EXCEPT ![nextOf[m]] = m] ELSE prevOf
  IN /\ nextOf' = [next EXCEPT ![prev[e]] = e]
     /\ prevOf' = [prev EXCEPT ![next[e]] = e]

-----------------------------------------------------------------------------
(* checkSingle *)

\* The well-formed histories of k operations that are called in the order of
\* their ids; makeEntries sorts them by time.
Histories(k) ==
  {h \in [1 .. 2 * k -> 0 .. k - 1] :
     /\ \A id \in 0 .. k - 1 : Cardinality({e \in 1 .. 2 * k : h[e] = id}) = 2
     /\ \A e \in 1 .. 2 * k : h[e] > 0 => \E d \in 1 .. e - 1 : h[d] = h[e] - 1}

\* makeLinkedEntries, and the variables of checkSingle.
SingleInit ==
  \E k \in 0 .. MaxOps :
    /\ ops \in [1 .. k -> Operation]
    /\ history \in Histories(k)
    /\ computePartial \in BOOLEAN
    /\ nextOf = [e \in 0 .. 2 * k |-> e + 1]
    /\ prevOf = [e \in 0 .. 2 * k |-> e - 1]
    /\ entry = 1
    /\ state = <<>>
    /\ linearized = newBitset(k)
    /\ cache = {} /\ calls = <<>>
    /\ longest = [id \in 0 .. k - 1 |-> <<>>]
    /\ result = "running"

Op(e) == ops[history[e] + 1]
Searching == result = "running" /\ ~kill /\ nextOf[head] # nil

\* What the cache knows of the operation at entry, if it can come next.
Candidate == <<set(linearized, history[entry]), NewState(state, Op(entry))>>

\* Is it worth going on from here?  Looking at the operations only.
Cached_Bug == \E c \in cache : c[1] = Candidate[1]
Cached == Candidate \in cache

\* The operation at entry comes next in the linearization.
Linearize ==
  /\ Searching /\ IsCall(entry)
  /\ Legal(state, Op(entry)) /\ ~Cached
  /\ cache' = cache \cup {Candidate}
  /\ calls' = Append(calls, [entry |-> entry, state |-> state])
  /\ state' = NewState(state, Op(entry))
  /\ linearized' = set(linearized, history[entry])
  /\ lift(entry)
  /\ entry' = nextOf'[head]
  /\ UNCHANGED <<fixed, longest, kill, result>>

\* entry.next; back to the first.
After_Bug(e) == nextOf[head]
After(e) == nextOf[e]

\* It cannot come next, or that has been tried.
Skip ==
  /\ Searching /\ IsCall(entry)
  /\ ~Legal(state, Op(entry)) \/ Cached
  /\ entry' = After(entry)
  /\ UNCHANGED <<fixed, nextOf, prevOf, state, linearized, cache, calls, longest, kill, result>>

Ids(cs) == [i \in 1 .. Len(cs) |-> history[cs[i].entry]]

\* The linearization so far is the longest that has the operation; or is just
\* the longest.
IsLongest_Bug(id) == Len(calls) > Len(longest[id])
IsLongest(id) == id \in ToSet(Ids(calls)) /\ Len(calls) > Len(longest[id])

\* The return of an operation that is not linearized: undo the last choice.
Backtrack ==
  /\ Searching /\ ~IsCall(entry) /\ calls # <<>>
  /\ longest' = [id \in DOMAIN longest |->
       IF computePartial /\ IsLongest(id) THEN Ids(calls) ELSE longest[id]]
  /\ LET top == calls[Len(calls)] IN
       /\ state' = top.state
       /\ linearized' = clear(linearized, history[top.entry])
       /\ unlift(top.entry)
       /\ entry' = nextOf'[top.entry]
  /\ calls' = SubSeq(calls, 1, Len(calls) - 1)
  /\ UNCHANGED <<fixed, cache, kill, result>>

\* There is no choice left to undo.
GiveUp ==
  /\ Searching /\ ~IsCall(entry) /\ calls = <<>>
  /\ result' = "false"
  /\ UNCHANGED <<fixed, search, kill>>

\* All operations are linearized.
Succeed ==
  /\ result = "running" /\ nextOf[head] = nil
  /\ result' = "true"
  /\ longest' = [id \in DOMAIN longest |-> Ids(calls)]
  /\ UNCHANGED <<fixed, nextOf, prevOf, entry, state, linearized, cache, calls, kill>>

\* The loop finds kill set.
Killed ==
  /\ result = "running" /\ kill /\ nextOf[head] # nil
  /\ result' = "false"
  /\ UNCHANGED <<fixed, search, kill>>

CheckSingle == Linearize \/ Skip \/ Backtrack \/ GiveUp \/ Succeed \/ Killed

-----------------------------------------------------------------------------
(* computeVisualizationData *)

\* checkParallel turns longest into the set of the linearizations in it, and the
\* longer ones are put first.
Partials == {longest[id] : id \in DOMAIN longest} \ {<<>>}
SortedPartials ==
  {p \in [1 .. Cardinality(Partials) -> Partials] :
     IsInjective(p) /\ \A i, k \in DOMAIN p : i < k => Len(p[i]) >= Len(p[k])}

\* By operation that occurs: the index of the largest partial it is in, found as
\* the loop goes through them.
Largest(p) ==
  LET size(index, id) == IF index[id] = 0 THEN 0 ELSE Len(p[index[id]]) IN
  FoldLeft(LAMBDA index, i : [id \in DOMAIN index |->
             IF id \in ToSet(p[i]) /\ size(index, id) < Len(p[i]) THEN i ELSE index[id]],
           [id \in DOMAIN longest |-> 0], [i \in DOMAIN p |-> i])

-----------------------------------------------------------------------------
(* Properties *)

\* Before(a, b): operation a returned before b was called.
Before(a, b) ==
  \E d, e \in 1 .. Len(history) : history[d] = a /\ ~IsCall(d) /\ history[e] = b /\ IsCall(e) /\ d < e

\* The operations of sequence p, in its order, respect time and the model, and no
\* operation is left out that had returned before one of them was called.
IsLinearization(p) ==
  LET after[i \in 0 .. Len(p)] == IF i = 0 THEN <<>> ELSE NewState(after[i - 1], ops[p[i] + 1]) IN
  /\ \A i \in 1 .. Len(p) : Legal(after[i - 1], ops[p[i] + 1])
  /\ \A i \in 1 .. Len(p), a \in 0 .. n - 1 : Before(a, p[i]) => \E d \in 1 .. i - 1 : p[d] = a
  /\ IsInjective(p)

\* The definition of linearizability: some order of all operations will do.
IsLinearizable == \E p \in [1 .. n -> 0 .. n - 1] : IsLinearization(p)

\* checkSingle answers true exactly for the linearizable histories; only when it
\* was killed its false means nothing.  The cache cuts off nothing that could
\* still succeed.
VerdictIsRight ==
  /\ result = "true" => IsLinearizable
  /\ result = "false" /\ ~kill => ~IsLinearizable

\* The list holds exactly the entries of operations that are not linearized, in
\* order of time and linked both ways, after any number of lifts and unlifts;
\* and the bitset agrees with calls across its words.
ListIsRight ==
  LET gone == ToSet(Ids(calls))
      left == {e \in 1 .. Len(history) : history[e] \notin gone}
  IN /\ \A e \in left \cup {head} :
          /\ nextOf[e] \in (left \cup {nil}) \ {head} /\ nextOf[e] > e
          /\ \A d \in left : d > e => nextOf[e] <= d
          /\ nextOf[e] # nil => prevOf[nextOf[e]] = e
     /\ \A id \in 0 .. n - 1 : id \in gone <=> id % WordSize \in linearized[id \div WordSize]

\* What is reported for an operation is a linearization, as far as it goes, that
\* contains it, so replaying it never panics; and the visualization points from
\* the operation to a longest one of those that contain it, in whatever order a
\* map and an unstable sort leave them.
PartialsAreRight ==
  /\ \A id \in DOMAIN longest :
       longest[id] # <<>> => id \in ToSet(longest[id]) /\ IsLinearization(longest[id])
  /\ result # "running" =>
       \A p \in SortedPartials, id \in DOMAIN longest :
         LET having == {i \in DOMAIN p : id \in ToSet(p[i])} IN
         IF having = {} THEN Largest(p)[id] = 0
         ELSE Largest(p)[id] \in having /\ \A i \in having : Len(p[Largest(p)[id]]) >= Len(p[i])

=============================================================================
