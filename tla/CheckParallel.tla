---------------------------- MODULE CheckParallel ----------------------------
(***************************************************************************)
(* checkParallel of porcupine/checker.go: one goroutine runs checkSingle   *)
(* for each partition of a history, and the caller waits for their answers *)
(* or a timeout, and may kill them.  One of the goroutines is that of      *)
(* module Porcupine; of the Others only what is checked there is used:     *)
(* they end, and their answer is right unless kill was set.                *)
(*                                                                         *)
(* A definition whose name ends in _Bug is the one after it with a mistake *)
(* in it, used only to show which mistake a property rules out.            *)
(***************************************************************************)
EXTENDS Porcupine, Bags

CONSTANTS
  This,        \* the partition that Porcupine checks
  Others       \* bound: other partitions

ASSUME ParallelAssumption == IsFiniteSet(Others) /\ This \notin Others

VARIABLES
  parts,       \* the partitions of the history, none if it is empty
  good,        \* the others that are linearizable
  timeout,     \* argument: is it positive?
  running,     \* the goroutines that have not answered
  results,     \* the channel, which has room for all answers
  stored,      \* the partitions whose goroutine has stored longest[i]
  ok, timedOut, count,
  pc,          \* "select", "drain" (waiting for the rest), "returned"
  verdict      \* what checkParallel returned

args == <<parts, good, timeout>>
vars == <<args, single, kill, running, results, stored, ok, timedOut, count, pc, verdict>>

computeInfo == computePartial   \* the argument verbose, passed on

Init ==
  /\ SingleInit
  /\ parts \in {{}} \cup {{This} \cup S : S \in SUBSET Others}
  /\ This \notin parts => ops = <<>>
  /\ Len(ops) + Cardinality(parts) <= MaxOps + 1   \* bound: the more partitions, the shorter
  /\ good \in SUBSET (parts \ {This})
  /\ timeout \in BOOLEAN
  /\ running = parts
  /\ results = EmptyBag /\ stored = {}
  /\ kill = FALSE /\ ok = TRUE /\ timedOut = FALSE /\ count = 0
  /\ pc = "select" /\ verdict = ""

\* One iteration of the goroutine that checks This.
Search == This \in parts /\ CheckSingle /\ UNCHANGED <<args, running, results, stored, ok, timedOut, count, pc, verdict>>

\* What a goroutine may find; once kill is set it may be false whatever it checks.
Answers(i) ==
  IF i = This THEN {result = "true"} ELSE {i \in good} \cup (IF kill THEN {FALSE} ELSE {})

\* A goroutine stores longest[i], and then answers.
Answer(i) ==
  /\ i \in running /\ (i = This => result # "running")
  /\ running' = running \ {i}
  /\ stored' = stored \cup {i}
  /\ \E a \in Answers(i) : results' = results (+) SetToBag({a})
  /\ UNCHANGED <<args, single, kill, ok, timedOut, count, pc, verdict>>

\* After the loop: wait for the rest if longest is going to be read, or return;
\* or return at once.
AfterLoop_Bug(c) == "returned"
AfterLoop(c) == IF computeInfo /\ c < Cardinality(parts) THEN "drain" ELSE "returned"

Verdict(allOk, late) == IF ~allOk THEN "Illegal" ELSE IF late THEN "Unknown" ELSE "Ok"

Leave(c, allOk, late) ==
  /\ pc' = AfterLoop(c)
  /\ verdict' = IF AfterLoop(c) = "returned" THEN Verdict(allOk, late) ELSE verdict

\* The answers the loop waits for have come.
Enough(c) == c >= Cardinality(parts)

\* An answer is received in the loop.
Receive(a) ==
  /\ pc = "select" /\ BagIn(a, results)
  /\ results' = results (-) SetToBag({a})
  /\ count' = count + 1
  /\ ok' = (ok /\ a)
  /\ LET stop == ~ok' /\ ~computeInfo IN
       /\ kill' = (kill \/ stop)
       /\ IF stop \/ Enough(count') THEN Leave(count', ok', timedOut) ELSE UNCHANGED <<pc, verdict>>
  /\ UNCHANGED <<args, single, running, stored, timedOut>>

Timeout ==
  /\ pc = "select" /\ timeout
  /\ timedOut' = TRUE /\ kill' = TRUE
  /\ Leave(count, ok, TRUE)
  /\ UNCHANGED <<args, single, running, results, stored, ok, count>>

\* The answers that come after the loop are received, and do not count; or do.
Drained_Bug(a) == ok /\ a
Drained(a) == ok
Drain(a) ==
  /\ pc = "drain" /\ BagIn(a, results)
  /\ results' = results (-) SetToBag({a})
  /\ count' = count + 1
  /\ ok' = Drained(a)
  /\ Leave(count', ok', timedOut)
  /\ UNCHANGED <<args, single, kill, running, stored, timedOut>>

CheckParallel == Timeout \/ \E a \in BOOLEAN : Receive(a) \/ Drain(a)
Next == CheckParallel \/ Search \/ \E i \in parts : Answer(i)

\* The goroutines and the caller go on when they can.
Spec ==
  /\ Init /\ [][Next]_vars
  /\ WF_vars(CheckParallel) /\ WF_vars(Search) /\ \A i \in {This} \cup Others : WF_vars(Answer(i))

-----------------------------------------------------------------------------
(* Properties *)

\* "Illegal" is only said of a history with a partition that is not linearizable,
\* "Ok" only of one without, and "Unknown" only after the timeout: a goroutine
\* that was killed does not make a history illegal.
ResultIsRight ==
  LET legal == good = parts \ {This} /\ IsLinearizable IN
  /\ verdict = "Illegal" => ~legal
  /\ verdict = "Ok" => legal
  /\ verdict = "Unknown" => timedOut

\* With verbose every goroutine has stored its longest[i] before checkParallel
\* reads it ("otherwise we might race on access to longest[]").
NoRaceOnLongest == pc = "returned" /\ computeInfo => stored = parts

\* checkParallel returns and all goroutines end, killed or not, except that
\* without a timeout it waits forever for the answers of no partition at all.
Returns == timeout \/ parts # {} => <>(pc = "returned" /\ running = {})

=============================================================================
