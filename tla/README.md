# TLA+ models of the labs: Raft, the key/value service, labrpc, MapReduce, Porcupine

The repository holds the MIT 6.824 labs in Go. This directory models the parts
that run concurrently or survive crashes, checks them with TLC on small
instances and proves some of their properties with TLAPS.

## 1. Inventory

| Part | Source | Model |
|---|---|---|
| Raft peer | `raft/raft.go` | `Raft`; its goroutines and locks `ServerLocks` |
| Persister | `raft/persister.go` | `saved` in `Raft`, `persister` in `Labrpc` |
| Key/value server | `kvraft/server.go` | `KVRaft`, `ServerLocks` |
| Key/value clerk | `kvraft/client.go` | `KVRaft`, `ClerkRetry` |
| Simulated network | `labrpc/labrpc.go` | `Labrpc`; its ends in a test `TestNet` |
| Test harnesses | `raft/config.go`, `kvraft/config.go` | `RaftTester`, `KVTester` |
| MapReduce master and workers | `mr/`, `main/mrmaster.go`, `main/mrsequential.go`, `main/test-mr.sh` | `MapReduce` |
| Linearizability checker | `porcupine/checker.go`, `bitset.go`, `visualization.go`, `models/kv.go` | `Porcupine`, `CheckParallel` |
| labgob, rendering, other entry points | `labgob/`, `main/` | not modelled |
| Shard master, sharded store | `shardmaster/`, `shardkv/` | not modelled: the servers are empty |

How they interact: the clerks of kvraft call the servers through labrpc; a
server passes each request to `Start` of its Raft peer and waits until `applyCh`
delivers an entry at the index it was given; the peers talk through labrpc and
keep their state in a Persister that outlives them. The tests record the calls
of the clerks and give them to Porcupine; the harnesses start, crash and cut off
the servers and judge what Raft delivers. MapReduce is a separate program.

The models meet at their interfaces. `Raft` implements `ReplicatedLog`, which is
what `KVRaft` assumes of `applyCh`; `KVRaft` implements `AtomicKV`, which is the
model (`models/kv.go`) Porcupine checks histories against; `Labrpc` implements
`AtMostOnceRPC`, which is what `Raft` and `KVRaft` assume of `Call`: executed at
most once, perhaps after `Call` has returned false. `ServerLocks` puts the two
halves of one server, the key/value server and its Raft peer, together around the
locks and the channel they share.

## 2. Modules

### Raft

`Raft.tla` has one action per critical section of `rf.mu`. The goroutines that
`checkElection` and `sendHeartbeat` spawn are records in `voteCalls` and
`appendCalls`; `pc` tells whether a goroutine has yet to build its arguments
(`ready`), waits in `Call` for the handler (`sent`) or for the reply
(`replied`). What the goroutines of one heartbeat share (`replCount`,
`currentLogLen`, ...) is a record in `rounds`, and the numbers of rounds that are
over are used again. `grantedCnt` is the number of voters in `granted`.

| Code | Action or operator |
|---|---|
| `checkElection`, timer | `checkElection` |
| vote goroutine | `sendRequestVote`, `DeliverRequestVote`, `RequestVoteReturns` |
| `RequestVote` | `RequestVote`, `RequestVoteAnswer`, `GrantsVote`, `UpToDate` |
| `Start` | `Start` |
| `sendHeartbeat`, goroutine | `sendHeartbeat`, `sendAppendEntries`, `DeliverAppendEntries`, `AppendEntriesReturns`, `AppendEntriesFails` |
| `AppendEntries` | `AppendEntries`, `FollowerLog`, `AppendEntriesAnswer` |
| back-up after a rejection | `BackUp` |
| `checkApply` | `checkApply` |
| `persist`, `readPersist`, `Make` | `persist`, `Reboot` |
| crash and restart | `Restart`, `CrashInAppendEntries` |
| a handler that runs after its caller gave up | `DeliverLateVote`, `DeliverLateAppend` |

Left out: the clock (an election may start whenever the server does not lead),
the sentinel at index 0 (implicit), and `LeaderId`, which no handler reads except
to log. `LateVoteRequests` is the one assumption about time: may a vote goroutine
still wait for `rf.mu` when the next election timeout, 300 ms later, fires?

`ReplicatedLog.tla` is the promise to the service: one sequence of commands, a
prefix of which is delivered to each service, from the beginning after a restart.
`RaftInvariant.tla` and `RaftHistory.tla` hold the inductive invariants; the proofs
are in `RaftProofs`, `RaftHistoryProofs`, `RaftCommitProofs` and
`RaftSafetyProofs` (section 4). `MCRaft.tla` starts from fresh servers,
`MCRaftDiverged.tla` from three servers restarted with diverging logs of three
terms, a state whose history the module tells; from there conflicts, back-up and
the old-term rule happen within the bounds.

### The locks of a server

`ServerLocks.tla` has the four loops of a server (`checkElection`,
`sendHeartbeat`, the two `checkApply`), the goroutines of an election and of a
round, the handlers of RPCs from peers and from clerks, and what each of them
locks, in order: `rf.mu`, `kv.mu`, the `mu` of an election, the `mu` of a round. A
step takes one mutex, sends on `applyCh`, or is a critical section up to its
unlocks. `applyCh` has no buffer, so `applyCh` is a step of both sides. What the
goroutines compute is in `Raft` and `KVRaft`; here their decisions are open and
only `len(log)`, `commitIndex` and the two `lastApplied` are left.

### Key/value service

`KVRaft.tla` models a call of a clerk as the loop that starts a goroutine every
half second, and each goroutine as a record whose `pc` goes through `start`,
`call` (a request to server `i`), `wait` (the handler waits for `index`),
`returned` and `finish` (its two critical sections); `lost` is a handler on a
killed server. Raft is what `ReplicatedLog` offers: `Accept` starts a request at
an index beyond what the server has applied, several requests may be started at
one index by servers that all believe to lead, and `Deliver` chooses one. A
string is the sequence of pieces it was appended from, so every call is visible
in it. `AtomicKV.tla` is linearizability as a specification, with the moment of
effect mapped to the first delivery of the request at any server. `KVInvariant.tla`
is the inductive invariant and `KVRaftProofs.tla` the proof.

`ClerkRetry.tla` is about the end of a call. There is no bound on the goroutines
that a call starts, so the module keeps the set of places where some are (`places`);
that more than one may be at a place shows in `Go`, which leaves it or not. Raft is
who leads and which servers still believe to.

### labrpc

`Labrpc.tla` has one server that is deleted and added again as `crash1` and
`start1` do, with a fresh copy of the Persister each time. A call goes through
`Call` and `processReq`; its handler is a goroutine of its own that may run on a
dead instance. `Cleanup` closes `done`, after which the loop of `MakeNetwork` ends
and requests that nobody took are given up. `AtMostOnceRPC.tla` is the promise,
`LabrpcProofs.tla` the proof that it is kept.

### The testers

`TestNet.tla` has the ClientEnds between the servers of a test: the k-th start of
a server makes new ones, and an end calls the server it was connected to for ever.
`RaftTester.tla` is `raft/config.go`: `connect`, `disconnect`, `crash1`, `start1`,
the readers of `applyCh` (`Deliver`, `ApplyError`), and the checks of a test, one at
a time, with a step for each server that `nCommitted` and `checkOneLeader` look
at. The Raft under test is open, since a tester is there for wrong ones too;
`sound` says whether it elects one leader per term and applies one sequence.
`KVTester.tla` is `kvraft/config.go`: partitions made end by end in the code's
order, `make_partition` with its two slices, shutdowns, starts and the ends of
clerks. `MCTesters.tla` runs the two side by side, one in each behaviour.

### MapReduce

`MapReduce.tla` has the states and times of the master's tasks, the workers, and
the files. RPCs are answered under `MapLock` and are one step; each record
appended to `out-X-Y`, the creation of `mr-out-Y`, each file read or removed and
each line written is a step of its own. An output file remembers positions, so that two
workers that write the same file interfere as they would.

### Porcupine

`Porcupine.tla` is the search of `checkSingle`, one iteration per step, with the
linked list as two functions and the bitset with its words, followed by what
`checkParallel` and `computeVisualizationData` make of `longest`: the partial
linearizations (`Partials`, `SortedPartials`) and the largest one of each operation.
`longest` is kept only if `computePartial`, which either value is checked for.
`CheckParallel.tla` is the driver: one of its goroutines is the search itself, step
by step, of the others only the answers are left.

Definitions ending in `_Bug` repeat the one after them with a plausible mistake.
No specification uses them; replacing the right definition by one of them breaks
the property listed for it under `mutants` in `PROJECT.json`.

## 3. Runs

| Run | Checks | States | Result |
|---|---|---|---|
| `RaftElection` | `ElectionSafety`, `VoteIsFinal` | 198 k | hold |
| `RaftLeaderChange` | `LogMatching`, `StateMachineSafety`, `LeaderCompleteness`, `CommitWithinLog`, `ImplementsReplicatedLog` | 902 k | hold |
| `RaftReplication` | `IndexInvariant`, `IndexesInRange`, `LeaderCommitIsCovered`, `MatchIndexIsSound`, `EntriesGetApplied` | 184 k | hold |
| `KVRaft` | `TypeOK`, `ExactlyOnce`, `AnswersAgree`, `Linearizable` | 599 k | hold |
| `ClerkRetry` | `CallReturns` | 314 k | hold |
| `ServerLocks` | `NoDeadlock`, `CommandsReturn` | 129 k | hold |
| `Labrpc` | `ImplementsRPC`, `CallEnds` | 730 k | hold |
| `Testers` | `EndsFollowConnected`, `ReadersNotice`, `AgreementIsReal`, `NoFalseAlarm`, `LinksFollowPartition`, `MajorityWithoutLeader` | 2.1 M | hold |
| `MapReduce` | `TypeOK`, `OneWorkerPerTask`, `ReduceAfterMap`, `ExitOnlyWhenDone`, `OutputWhenExited`, `FinishedIsFinal`, `JobEnds` | 388 k | hold |
| `Checker` | `VerdictIsRight`, `ListIsRight`, `PartialsAreRight`, `ResultIsRight`, `NoRaceOnLongest`, `Returns` | 220 k | hold |
| `RaftLateVote` | `ElectionSafety` with `LateVoteRequests` | | violated |
| `MapReduceCrash` | `OutputAfterCrash` | | violated |

To run one: `tlc -config RaftReplication.cfg MCRaftDiverged` (the module of each run is
in `PROJECT.json`).

What the newer ones show:

* **ServerLocks.** `checkElection` locks `rf.mu` before `mu`, its goroutines `mu`
  before `rf.mu`. That is harmless because every pass makes a `mu` of its own
  (line 481); with the one of line 478, which is commented out, TLC finds the
  deadlock. `checkApply` sends with `rf.mu` held, which is harmless because the
  receiver takes only `kv.mu`, and nobody who holds `kv.mu` asks for `rf.mu`.
* **ClerkRetry.** A handler of a deposed leader may wait for ever for its index. A
  call returns because it starts another goroutine every half second; with one
  goroutine at a time it does not. All of them start at the same server `j`, so
  they help only once that server has heard that it was deposed: while a partition
  keeps a clerk and an old leader together the call waits.
* **Testers.** The checks look at one server after the other while the readers go
  on; `AgreementIsReal` and `NoFalseAlarm` say that this neither passes a test
  wrongly nor blames a right Raft.

The two violations:

* **RaftLateVote.** A vote goroutine takes the term from the server when it gets
  `rf.mu`, not from its election. If its server has started another election by
  then, it asks for votes in the newer term and counts them with those of its own
  election; two servers lead one term. It needs a goroutine that waits for the
  lock through a whole election timeout, 300 ms or more, because each election
  restarts the timer (line 493).
* **MapReduceCrash.** A reduce task removes its input before it computes; a crash
  in `reducef` loses the partition, and the job still ends as finished.

### Bounds

Three servers is the smallest number with a majority that leaves someone out.
`RaftElection` has three terms and elections, enough for a server to be voted
for, to be overtaken and to stand again, and a restart. The runs from diverged
logs start in term 3 with entries of terms 1 and 2. `RaftLeaderChange` allows one
more term, which is what committing an entry of an old term and losing it takes,
a failed call, after which the handler may still run, and one restart;
`RaftReplication` allows none of them, so s1 is the only leader there. A
log of two entries has one conflict and one entry behind it. `RaftReplication`
has two rounds of a leader at a time (their numbers are used again, so their
total is not bounded) and one command: entries are told apart by their terms.
`Bounded` limits `RaftLeaderChange` to one vote request and one `AppendEntries`
under way, to four goroutines and to one command in new entries; reordering is
the subject of `RaftReplication`, which has no such limit.

What these bounds keep apart is left to the proofs. `RaftLeaderChange` never has a
change of leader together with a failed call or a restart: `LogsMatch`,
`StateMachinesAgree`, `LeadersAreComplete`, `CommitsWithinLogs` and
`RaftImplementsReplicatedLog` are about any number of each. `RaftReplication` has
no election, failure or restart: `InvariantHolds`, `IndexesStayInRange`,
`LeaderCommitsCovered` and `MatchIndexesSound` cover them, and `EntriesGetApplied`
is claimed for a leader that stays only.

`KVRaft` explores two kinds of behaviour, and states of either. `OneCallEach`:
one call of each of two clerks with one goroutine, all types, two log positions,
one late request at a time, and a restart. `OneClerk`: two calls, `Get` or
`Append`, of one clerk with two goroutines each and three log positions, so that
a request of the first call can be chosen after the second began; at most two
goroutines and late requests together, and no restart. A repeated `Get` that is
answered with the value of now, after a request of another clerk has come between,
is in neither kind; `AnswersAreUnique` and `ServiceIsLinearizable` cover it.
`ClerkRetry` has three servers, any of which may believe to lead at first, one
change of leader and one lost call during the call; the number of goroutines is
not bounded. `ServerLocks` has one of each kind of goroutine beside the four loops,
and a log of two entries: every pair of lock orders meets.
`Labrpc` needs two instances of the server, the dead one and its successor.
`Testers` has three Raft servers, started twice, two commands, two indexes, two
terms and one check of a test; its `Bounded` lets the network take every shape while
nothing has been applied, and afterwards any in which one server is not as
`make_config` left it. The key/value tester has five servers, as in the tests that
call `make_partition`: with three, the leader alone fills the second slice and the
line that deals others into it never runs. `KVBounded` has at most two servers
down or started again, and clerks while the network is whole. The two properties
are stated for an odd number of servers where `make_partition` is concerned: with
an even one the two slices have one place more than there are servers, server 0
stays in it, and the sides may overlap.
MapReduce has two map and two reduce tasks, so that tasks of both phases share an
index of `TaskTime`, and more workers than tasks where that matters.
`Checker` has words of two bits, so that three operations need a second word; a
history of three operations has one partition, shorter ones have up to three, and
the empty one none.

Symmetry is used in runs without liveness properties only. `CHECK_DEADLOCK FALSE`
is set where behaviours end because a bound is reached (Raft, KVRaft, Testers) or
because the call, the goroutines or the search have ended (ClerkRetry,
ServerLocks, Checker); `Labrpc` and `MapReduce` are checked for deadlock.

### Fairness

* `RaftReplication`: the loops of `sendHeartbeat` and `checkApply` run again and
  again and each goroutine goes on when it can; a request that is not lost
  arrives. The property is about a leader that stays: there are no elections,
  failures or restarts in this run.
* `MapReduce`: `Done()` is called every second, workers run, ten seconds
  pass, and the shell loop of `test-mr.sh` starts new workers.
* `Labrpc`: the goroutines of the network go on, and handlers of the current
  server end; those of a killed server may hang.
* `Checker`: a goroutine that can go on does.
* `ClerkRetry`: goroutines run, the leader commits what it starts while it leads,
  and every deposed leader hears of it in the end, since partitions heal. Nothing
  is assumed of a handler at a deposed leader, or of lost calls but their number.
* `ServerLocks`: goroutines go on; those a command passes through get a mutex that
  is free again and again (strong fairness), which Go's mutexes guarantee: one
  that has waited for a millisecond is handed the mutex before newcomers.

## 4. Proofs

Proved for any finite set of servers, any commands and any values of the bounds:

* `InvariantHolds` (RaftProofs): `Spec => [](TypeOK /\ IndexInvariant)`.
* `IndexesStayInRange` (RaftProofs): `Spec => []IndexesInRange`, no slice
  expression of `sendHeartbeat` is out of range at a leader.
* `VotesAreFinal` (RaftProofs): `Spec => VoteIsFinal`.
* `OneLeaderPerTerm`, `LogsMatch`, `LeadersAreComplete`, `StateMachinesAgree`,
  `CommitsWithinLogs`, `LeaderCommitsCovered`, `MatchIndexesSound`
  (RaftSafetyProofs): `Spec` implies the invariants `ElectionSafety`,
  `LogMatching`, `LeaderCompleteness`, `StateMachineSafety`, `CommitWithinLog`,
  `LeaderCommitIsCovered` and `MatchIndexIsSound`, under `~LateVoteRequests`;
  `RaftLateVote` shows that the first is false without.
* `RaftImplementsReplicatedLog` (RaftSafetyProofs): `Spec => ImplementsReplicatedLog`,
  under the same assumption.
* `KVTypesOK`, `RequestsCountOnce`, `AnswersAreUnique`, `ServiceIsLinearizable`
  (KVRaftProofs): `Spec` of KVRaft implies the invariants `TypeOK`, `ExactlyOnce`
  and `AnswersAgree`, and the refinement `Linearizable`, for any number of clerks,
  servers, keys, calls and retries.
* `CallsAreAtMostOnce` (LabrpcProofs): `Spec => ImplementsRPC`, for any number of
  calls, ends and restarts.
* `EndsAreRight`, `ReadersAlwaysNotice`, `AgreementIsAlwaysReal`,
  `NeverAFalseAlarm` (RaftTesterProofs): `RaftSpec` implies the invariants
  `EndsFollowConnected`, `ReadersNotice`, `AgreementIsReal` and `NoFalseAlarm`.
* `ReduceAfterMapHolds`, `ExitOnlyWhenDoneHolds`, `FinishedIsFinalHolds`,
  `OneWorkerPerTaskHolds` (MapReduceProofs): `Spec` of MapReduce implies the
  properties of those names, for any number of tasks, workers and crashes.

`IndexesInRange` is not inductive. That `nextIndex` stays positive depends on
what a rejection says (`ReplyOK`), which depends on the terms of the follower's
log being in order (`LogOK`) and positive, and on the arguments being a slice of
such a log (`ArgsOK`); that a round finds the log it started with depends on its
server not having left and regained the same term (`RoundOK`), also by way of a
restart, hence `SavedIsCurrent`. `IndexInvariant` is the conjunction.
`RaftProofs` shows what the operators do (`FollowerLogOK`, `FirstOfTermOK`,
`AnswerOK`, `BackUpOK`, `BuildOK`) and that rounds and goroutines left in place
stay in order when a server moves (`RoundsKept`), and has one lemma per action.

`ElectionSafety` rests on `VoteInvariant`: a vote on record or in a reply binds
its voter and is unique in its term, a candidate has its own vote, a leader those
of a majority, and a goroutine whose request carries another term than its
election's carries one in which its server never stood. Two majorities of a finite
set have a member in common (`MajoritiesMeet`).

The safety of the log rests on the past, of which the code keeps no record: which
log the leader of an earlier term had, and who held an entry while in its term.
`RaftHistory` therefore takes a history as parameters, the leaders there were
(`led`), the log of each term (`llog`) and the entries held (`held`), and
`SafetyInvariant` says that some history fits the state. A step is proved by
naming the history after it.
* `HistoryOK` (RaftHistoryProofs): every log agrees, up to any entry, with the log
  of that entry's leader, and every request is a slice of it, which gives
  `LogMatching`. What a server held it keeps until a later leader without it comes
  (`Kept`), and who gets a vote has what the voter held (`Covers`), which is where
  the comparison of logs in `RequestVote` is used.
* `CommitsAreSafe` (RaftCommitProofs): an entry that a majority held in its term is
  in the log of every later leader, by taking the first leader without it; and
  what servers, rounds and requests take for committed is committed in this sense.
  That a round counts entries of its own term only is used here. It gives
  `LeaderCompleteness`, `StateMachineSafety`, `CommitWithinLog` and
  `LeaderCommitIsCovered`.
* `AcksAreSound` (RaftCommitProofs): who acknowledged entries has them or has moved
  to a later term, which gives `MatchIndexIsSound`.

For the refinement, what is applied is shown to be a sequence without gaps that
only `checkApply` lengthens, and no step changes a committed part of a log.

`KVInv` has five parts. The two numbers of a request identify it, and it is an old
one of its clerk or that of the running call (`RequestsOK`). A clerk goes on when
its request has been delivered, so requests are first chosen in the order of their
numbers (`OrderOK`); this is why comparing with the latest number of the clerk
recognises repetitions. Every server holds what a prefix of the chosen sequence
amounts to (`ServerOK`), and an answer is what its request found where it took
effect (`AnswersOK`); `Types` has the types. Facts about the recursive function
`Content` are proved from the least index at which they would fail.

`Inv` of `LabrpcProofs` says that an effect comes from a handler that has run and
is in the Persister of its instance, from which only copies take it further, and
that a call about to return true has its effect in the newest one (`EffectOK`);
this needs that `processReq` has not yet started a handler, or has an answer,
where its `pc` says so (`CallOK`).

In `RaftTesterProofs` the ends are inductive with their types: a new name is
larger than those in use, so that no end of an earlier start is among the newest.
`ReadersNotice` is inductive with the type of `logs`. The tester has one log per
server and keeps it over restarts, so the gaps it is about are those that no
instance of the server has filled. `AgreementIsReal` needs to
know what a count stands for while it is being taken (`CountIsReal`): as many of
the servers passed so far hold `cmd1`, and they keep it unless a reader finds an
error, because a reader compares with every server before it overwrites.
`NoFalseAlarm` needs, for a sound Raft, that every log holds what was chosen and
as far as its reader has come (`RightReaders`), that a count holds it too
(`RightCount`), and that the leaders seen so far are those of their terms
(`RightLeaders`).

In `MapReduceProofs` no step takes back a finished task (`Kept`), as `GetFile`
gives out one in state todo (`MinIsIn`, by the well-foundedness of finite sets)
and `Done()` takes back ones being done. So what a worker has been told stays
true, and `Order` is inductive: a worker in its second loop, or with a positive
answer at hand, knows that the phase is over, and so does a master that has
stopped. `OneWorkerPerTask` needs that the task of a worker is marked as being
done and not old (`Holds`); as `TaskTime` has one entry for map task i and reduce
task i, this takes `Order` as well: the two are never both being done.

Assumptions: `RaftAssumption` (finite `Server`, `NoVote` not a server, bounds are
numbers), `NetAssumption` (at least one server and one start),
`KVAssumption` (types of requests, at least one server, bounds are numbers, `NoOp`
is no request), `LabrpcAssumption` (at least one instance),
`TesterAssumption` (bounds are numbers, `None` is no command, number or message),
`MapReduceAssumption` (there are tasks of both types; a key has one partition).
TLC evaluates them in the runs, and `RaftReplication` checks `IndexInvariant`.
`~LateVoteRequests` is a hypothesis of the theorems of `RaftSafetyProofs` only.

Most leaves of the larger modules are proved by Zenon (`USE Zenon`), and those
that need arithmetic or records cite `SMT`. tlapm 1.4.5 gives its SMT solver an
axiom that is stronger than the definition of `Len`: that it is at least 0 for every
value, not only for sequences. All eight proof modules have also been checked with
that axiom removed, so no proof depends on it.

Only model-checked: all liveness properties, which are beyond the prover, and
`NoDeadlock`, which is about `ENABLED`; `LinksFollowPartition` and
`MajorityWithoutLeader` of KVTester; Porcupine and CheckParallel, for whose search no
inductive invariant has been worked out; and `TypeOK` and `OutputWhenExited` of
MapReduce, the second of which needs an invariant of the files out-X-Y.

## 5. Not modelled

* labgob and the HTML of the visualization: encoding and formatting.
* The shard master and the sharded store. The handlers of their servers are empty
  and their clerks only repeat calls whose replies mean nothing; their `config.go`
  is the harness of kvraft again.
* Snapshots, which the code does not have, and the snapshot half of the Persister.
* The clock of Raft's elections. Whether a leader is ever elected depends on random
  timeouts and cannot be stated under fairness.
* RPC counters and reflection in labrpc, `LongDelays` (a delay of a failure that the
  model leaves open); statistics of the testers; `checkTerms` and `checkNoLeader`,
  which only hold at moments that the tests choose by sleeping.
* Entries of equal time in Porcupine; `checkEvents`, which the tests do not use.

Behaviours that the models have and no property excludes: a refusal of a lower
term sets the state of a Raft server to -1 whatever it is by then (`raft.go:534`),
so a late refusal can end the leadership of a server that the other votes have
elected; a map task that is executed again after some of its records were written
appends them twice (`worker.go:109`), so `OutputWhenExited` is stated for jobs
that crash only inside `mapf`.

## 6. Plan

1. MapReduce: a proof of `OutputWhenExited`.
2. KVTester: proofs of its two invariants.
3. The clerks of the shard master and the sharded store, once their servers exist.
