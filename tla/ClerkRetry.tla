----------------------------- MODULE ClerkRetry -----------------------------
(***************************************************************************)
(* One call of a clerk of the key/value service (kvraft/client.go), and    *)
(* whether it ever returns.  Every half second the call starts a goroutine *)
(* that asks the servers in turn; the handler of a server that takes       *)
(* itself for the leader waits for an index (kvraft/server.go), and that   *)
(* of one that was deposed may wait forever.                               *)
(*                                                                         *)
(* Any number of goroutines may be at the same place, so only the places   *)
(* that some are at are kept.  Of Raft there is who leads and who believes *)
(* to; what the calls do to the store is in KVRaft.                        *)
(*                                                                         *)
(* A definition whose name ends in _Bug is the one after it with a mistake *)
(* in it, used only to show which mistake a property rules out.            *)
(***************************************************************************)
EXTENDS Integers, FiniteSets

CONSTANTS
  N,             \* len(ck.servers)
  MaxChanges,    \* bound: how often the leader changes
  MaxLost        \* bound: how many calls return false

ASSUME RetryAssumption == N \in Nat \ {0} /\ MaxChanges \in Nat /\ MaxLost \in Nat

Server == 0 .. N - 1

VARIABLES
  leader,        \* the server that commits what it starts
  believers,     \* the servers whose state is LEADER
  changes, lost,
  j, done,       \* the variables of the call
  places,        \* <<pc, i>>: where goroutines are, and the server they are at
  returned

raft == <<leader, believers, changes>>
vars == <<raft, lost, j, done, places, returned>>

\* "call": about to call; "wait": the leader has started the command; "stuck": so
\* has a server that does not lead any more; "finish": the answer is OK.
Place == {"call", "wait", "stuck", "finish"} \X Server

\* A call begins with some preLeaderId, and some servers were not told that they
\* have been deposed.
Init ==
  /\ leader \in Server
  /\ believers \in {S \in SUBSET Server : leader \in S}
  /\ changes = 0 /\ lost = 0
  /\ j \in Server /\ done = FALSE
  /\ places = {} /\ returned = FALSE

-----------------------------------------------------------------------------
(* The clerk *)

\* A goroutine goes from p to q, if it goes on; others may stay at p.
Go(p, q) == \E stay \in {{}, {p}} : places' = (places \ {p}) \cup stay \cup q

\* The half second is over; or the last goroutine has ended.
TimeForAnother_Bug == places = {}
TimeForAnother == TRUE

StartGoroutine ==
  /\ ~done /\ ~returned /\ TimeForAnother
  /\ places' = places \cup {<<"call", j>>}
  /\ UNCHANGED <<raft, lost, j, done, returned>>

\* Call has returned without an OK: the goroutine leaves, or tries the next one.
TryNext(p) == Go(p, IF done THEN {} ELSE {<<"call", (p[2] + 1) % N>>})

Finish(p) ==
  /\ p \in places /\ p[1] = "finish"
  /\ done' = TRUE /\ j' = p[2]
  /\ Go(p, {})
  /\ UNCHANGED <<raft, lost, returned>>

\* The loop sees done; preLeaderId gets j.
Return ==
  /\ done /\ ~returned
  /\ returned' = TRUE
  /\ UNCHANGED <<raft, lost, j, done, places>>

-----------------------------------------------------------------------------
(* The handlers Get and PutAppend *)

\* Start: an index, or ErrWrongLeader.
Ask(p) ==
  /\ p \in places /\ p[1] = "call"
  /\ IF p[2] \notin believers THEN TryNext(p)
     ELSE Go(p, {<<IF p[2] = leader THEN "wait" ELSE "stuck", p[2]>>})
  /\ UNCHANGED <<raft, lost, j, done, returned>>

OK(p) ==
  /\ Go(p, IF done THEN {} ELSE {<<"finish", p[2]>>})
  /\ UNCHANGED <<raft, lost, j, done, returned>>

\* The leader has committed and applied the command.
Answer(p) == p \in places /\ p[1] = "wait" /\ OK(p)

\* Another leader has committed the command, or something else, at the index.
LateAnswer(p) ==
  /\ p \in places /\ p[1] = "stuck"
  /\ OK(p) \/ (TryNext(p) /\ UNCHANGED <<raft, lost, j, done, returned>>)

\* The network loses the request or the answer, or the server restarts.
CallFails(p) ==
  /\ p \in places /\ p[1] # "finish" /\ lost < MaxLost
  /\ lost' = lost + 1
  /\ TryNext(p)
  /\ UNCHANGED <<raft, j, done, returned>>

-----------------------------------------------------------------------------
(* Raft *)

\* Another server is elected; the old leader has not heard of it.
ChangeLeader(s) ==
  /\ changes < MaxChanges /\ s # leader
  /\ changes' = changes + 1
  /\ leader' = s /\ believers' = believers \cup {s}
  /\ places' = {IF p[1] = "wait" THEN <<"stuck", p[2]>> ELSE p : p \in places}
  /\ UNCHANGED <<lost, j, done, returned>>

\* A deposed leader hears of the new term.
StepDown(s) ==
  /\ s \in believers /\ s # leader
  /\ believers' = believers \ {s}
  /\ UNCHANGED <<leader, changes, lost, j, done, places, returned>>

Next ==
  \/ StartGoroutine \/ Return
  \/ \E p \in Place : Ask(p) \/ Answer(p) \/ LateAnswer(p) \/ CallFails(p) \/ Finish(p)
  \/ \E s \in Server : ChangeLeader(s) \/ StepDown(s)

\* Goroutines run, the leader commits what it starts as long as it leads, and
\* every deposed leader hears of it in the end (partitions heal).  Nothing is
\* assumed of a handler that is stuck.
Fairness ==
  /\ WF_vars(StartGoroutine) /\ WF_vars(Return)
  /\ \A p \in Place : WF_vars(Ask(p)) /\ WF_vars(Answer(p)) /\ WF_vars(Finish(p))
  /\ \A s \in Server : WF_vars(StepDown(s))

Spec == Init /\ [][Next]_vars /\ Fairness

-----------------------------------------------------------------------------
(* Properties *)

\* The call returns once leaders stop changing and the network stops losing
\* calls, although goroutines before may be stuck forever at deposed leaders and
\* every new one starts at the same server j.
CallReturns == <>returned

=============================================================================
