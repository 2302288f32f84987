------------------------------ MODULE MapReduce ------------------------------
(***************************************************************************)
(* The MapReduce master (mr/master.go), its workers (mr/worker.go) and the *)
(* files they share.  The master hands out tasks and takes them back when  *)
(* Done() finds them older than ten seconds; a worker appends the records  *)
(* of a map task to out-X-Y, and a reduce task reads and removes them      *)
(* before it writes mr-out-Y.  A call is answered under MapLock, so it is  *)
(* one step; everything a worker does between two calls interleaves.       *)
(*                                                                         *)
(* A record of out-X-Y holds all values of one key, so it is known by X    *)
(* and the key; a line of the output holds a key and the number of times   *)
(* the values of each map task were counted.                               *)
(*                                                                         *)
(* A definition whose name ends in _Bug is the one after it with a mistake *)
(* in it, used only to show which mistake a property rules out.            *)
(***************************************************************************)
EXTENDS Integers, Sequences, FiniteSets, FiniteSetsExt, SequencesExt

CONSTANTS
  Worker,
  NMap,        \* len(m.Files)
  NReduce,
  Partition,   \* ihash(key) % NReduce
  Env          \* what may happen to a job: see env

mapTask == "map"
rdcTask == "reduce"
TaskType == {mapTask, rdcTask}
Ids(type) == IF type = mapTask THEN 0 .. NMap - 1 ELSE 0 .. NReduce - 1
Slots == Ids(mapTask) \cup Ids(rdcTask)   \* the indexes of TaskTime
Key == DOMAIN Partition
InPartition(r) == {k \in Key : Partition[k] = r}
Hole == <<>>   \* what a file holds below an offset that nobody wrote

ASSUME MapReduceAssumption ==
  /\ NMap \in Nat \ {0} /\ NReduce \in Nat \ {0}
  /\ Key \subseteq Nat /\ IsFiniteSet(Key) /\ Partition \in [Key -> Ids(rdcTask)]
  /\ \A e \in Env : e.workers \subseteq Worker /\ e.emits \in [Ids(mapTask) -> SUBSET Key]

VARIABLES
  env,        \* of this job: the workers that are started, the keys that mapf emits
              \* for each file, whether a task may take longer than ten seconds
              \* without a crash (slow), where a worker may crash (crashIn), and
              \* how often workers do (crashes, a bound)
  states,     \* MapStates and RdcStates
  old,        \* TaskTime[i] is more than ten seconds ago; one array for both types
  master,     \* "run", "done" (Done() has returned true), "gone"
  pc, type, id,   \* of a worker: where it is, which loop, getFileReply.Id
  reply,      \* of a worker: taskFinishedReply.TaskFinished
  todoKeys,   \* of a worker: the keys still to be written
  next,       \* of a worker: the next out-X-Y to be read
  kva,        \* of a worker: how often it has read the values of <<map task, key>>
  offset,     \* of a worker: the position of its ofile
  inter,      \* the records of <<X, key>> in out-X-Y
  output,     \* the lines of mr-out-Y
  crashes

masterVars == <<states, old, master>>
files == <<inter, output>>
task == <<todoKeys, next, kva, offset>>
vars == <<env, masterVars, pc, type, id, reply, task, files, crashes>>

Cell == Ids(mapTask) \X Key
Nothing == [c \in Cell |-> 0]
Line(k, count) == [key |-> k, count |-> [i \in Ids(mapTask) |-> count[<<i, k>>]]]

\* MakeMaster, and workers that have just been started.
Init ==
  /\ states = [t \in TaskType |-> [i \in Ids(t) |-> "todo"]]
  /\ old = [i \in Slots |-> FALSE]
  /\ master = "run"
  /\ env \in Env
  /\ pc = [w \in Worker |-> IF w \in env.workers THEN "start" ELSE "absent"]
  /\ type = [w \in Worker |-> mapTask]
  /\ id = [w \in Worker |-> 0]
  /\ reply = [w \in Worker |-> FALSE]
  /\ todoKeys = [w \in Worker |-> {}]
  /\ next = [w \in Worker |-> 0]
  /\ kva = [w \in Worker |-> Nothing]
  /\ offset = [w \in Worker |-> 0]
  /\ inter = Nothing
  /\ output = [r \in Ids(rdcTask) |-> <<>>]
  /\ crashes = 0

-----------------------------------------------------------------------------
(* The master *)

\* TaskFinished: all tasks of the type are finished; or merely given out.
TaskFinished_Bug(t) == \A i \in Ids(t) : states[t][i] # "todo"
TaskFinished(t) == \A i \in Ids(t) : states[t][i] = "finished"

Todo(t) == {i \in Ids(t) : states[t][i] = "todo"}

\* GetFile marks the task as being done and notes the time; or forgets the mark.
Assign_Bug(t, i) == UNCHANGED states /\ old' = [old EXCEPT ![i] = FALSE]
Assign(t, i) ==
  /\ states' = [states EXCEPT ![t][i] = "doing"]
  /\ old' = [old EXCEPT ![i] = FALSE]

\* What Done() takes back: tasks being done for too long; or finished ones too;
\* or nothing at all.
Expired_Bug(t) == {i \in Ids(t) : old[i]}
ExpiredNone_Bug(t) == {}
Expired(t) == {i \in Ids(t) : states[t][i] = "doing" /\ old[i]}

\* Done(), called every second: takes back expired tasks of the current phase.
Done ==
  /\ master = "run"
  /\ LET t == IF TaskFinished(mapTask) THEN rdcTask ELSE mapTask IN
       states' = [states EXCEPT ![t] = [i \in Ids(t) |-> IF i \in Expired(t) THEN "todo" ELSE @[i]]]
  /\ master' = IF TaskFinished(mapTask) /\ TaskFinished(rdcTask) THEN "done" ELSE "run"
  /\ UNCHANGED <<env, old, pc, type, id, reply, task, files, crashes>>

\* main of mrmaster.go returns a second after Done() has.
MasterExit ==
  /\ master = "done"
  /\ master' = "gone"
  /\ UNCHANGED <<env, states, old, pc, type, id, reply, task, files, crashes>>

Working == {"mapf", "emit", "create", "collect", "remove", "reducef", "set"}

\* Ten seconds pass for a task that is being done, or whose worker has died.
TimePasses(i) ==
  /\ master = "run" /\ ~old[i]
  /\ \E t \in TaskType :
       /\ i \in Ids(t) /\ states[t][i] = "doing"
       /\ env.slow \/ \A w \in Worker : ~(pc[w] \in Working /\ type[w] = t /\ id[w] = i)
  /\ old' = [old EXCEPT ![i] = TRUE]
  /\ UNCHANGED <<env, states, master, pc, type, id, reply, task, files, crashes>>

-----------------------------------------------------------------------------
(* A worker *)

\* The head of either loop, with the answer it has: stay, go on to the reduce
\* loop, or leave Worker().
LoopHead(w, finished) ==
  IF ~finished
    THEN pc' = [pc EXCEPT ![w] = "check"] /\ reply' = [reply EXCEPT ![w] = FALSE] /\ UNCHANGED type
  ELSE IF type[w] = mapTask
    THEN /\ pc' = [pc EXCEPT ![w] = "start"]
         /\ reply' = [reply EXCEPT ![w] = FALSE]
         /\ type' = [type EXCEPT ![w] = rdcTask]
  ELSE pc' = [pc EXCEPT ![w] = "exited"] /\ reply' = [reply EXCEPT ![w] = TRUE] /\ UNCHANGED type

\* The first TaskFinished call of a phase.
Start(w) ==
  /\ pc[w] = "start" /\ master # "gone"
  /\ LoopHead(w, TaskFinished(type[w]))
  /\ UNCHANGED <<env, masterVars, id, task, files, crashes>>

\* The TaskFinished call in the loop: its answer is looked at after GetFile.
Check(w) ==
  /\ pc[w] = "check" /\ master # "gone"
  /\ reply' = [reply EXCEPT ![w] = TaskFinished(type[w])]
  /\ pc' = [pc EXCEPT ![w] = "get"]
  /\ UNCHANGED <<env, masterVars, type, id, task, files, crashes>>

\* GetFile with no task to give: sleep, then the head of the loop.
GetNothing(w) ==
  /\ pc[w] = "get" /\ master # "gone"
  /\ Todo(type[w]) = {}
  /\ LoopHead(w, reply[w])
  /\ UNCHANGED <<env, masterVars, id, task, files, crashes>>

\* GetFile of a map task; the worker then runs mapf.
GetMap(w) ==
  /\ pc[w] = "get" /\ master # "gone" /\ type[w] = mapTask
  /\ Todo(mapTask) # {}
  /\ id' = [id EXCEPT ![w] = Min(Todo(mapTask))]
  /\ Assign(mapTask, Min(Todo(mapTask)))
  /\ pc' = [pc EXCEPT ![w] = "mapf"]
  /\ UNCHANGED <<env, master, type, reply, task, files, crashes>>

\* GetFile of a reduce task.
GetReduce(w) ==
  /\ pc[w] = "get" /\ master # "gone" /\ type[w] = rdcTask
  /\ Todo(rdcTask) # {}
  /\ LET r == Min(Todo(rdcTask)) IN
       /\ id' = [id EXCEPT ![w] = r]
       /\ Assign(rdcTask, r)
  /\ pc' = [pc EXCEPT ![w] = "create"]
  /\ UNCHANGED <<env, master, type, reply, task, files, crashes>>

\* os.Create truncates mr-out-Y, which a slower worker may be writing to.
Create(w) ==
  /\ pc[w] = "create"
  /\ output' = [output EXCEPT ![id[w]] = <<>>]
  /\ pc' = [pc EXCEPT ![w] = "collect"]
  /\ UNCHANGED <<env, masterVars, type, id, reply, task, inter, crashes>>

\* mapf returns; its pairs are sorted and grouped by key.
MapReturns(w) ==
  /\ pc[w] = "mapf"
  /\ todoKeys' = [todoKeys EXCEPT ![w] = env.emits[id[w]]]
  /\ pc' = [pc EXCEPT ![w] = IF env.emits[id[w]] = {} THEN "set" ELSE "emit"]
  /\ UNCHANGED <<env, masterVars, type, id, reply, next, kva, offset, files, crashes>>

\* One record is appended (O_APPEND) to the file of its key; or it is lost, and
\* with it what the file held of the key.
AppendRecord_Bug(i, k) == inter' = [inter EXCEPT ![<<i, k>>] = 0]
AppendRecord(i, k) == inter' = [inter EXCEPT ![<<i, k>>] = @ + 1]
Emit(w) ==
  /\ pc[w] = "emit"
  /\ LET k == Min(todoKeys[w]) IN
       /\ AppendRecord(id[w], k)
       /\ todoKeys' = [todoKeys EXCEPT ![w] = @ \ {k}]
       /\ pc' = [pc EXCEPT ![w] = IF todoKeys[w] = {k} THEN "set" ELSE @]
  /\ UNCHANGED <<env, masterVars, type, id, reply, next, kva, offset, output, crashes>>

\* All records of out-X-Y are read; a file that does not exist has none.
Collect(w) ==
  /\ pc[w] = "collect"
  /\ kva' = [kva EXCEPT ![w] =
       [c \in Cell |-> IF c[1] = next[w] /\ c[2] \in InPartition(id[w]) THEN inter[c] ELSE @[c]]]
  /\ pc' = [pc EXCEPT ![w] = "remove"]
  /\ UNCHANGED <<env, masterVars, type, id, reply, todoKeys, next, offset, files, crashes>>

\* The loop over X goes on; one too far.
MoreFiles_Bug(x) == x + 1 <= NMap
MoreFiles(x) == x + 1 < NMap

\* os.Remove of out-X-Y, at the end of the body of the loop over X.
RemoveFile(w) ==
  /\ pc[w] = "remove"
  /\ inter' = [c \in Cell |->
       IF c[1] = next[w] /\ c[2] \in InPartition(id[w]) THEN 0 ELSE inter[c]]
  /\ next' = [next EXCEPT ![w] = @ + 1]
  /\ LET keys == {c[2] : c \in {x \in Cell : kva[w][x] > 0}} IN
       /\ todoKeys' = [todoKeys EXCEPT ![w] = IF MoreFiles(next[w]) THEN @ ELSE keys]
       /\ pc' = [pc EXCEPT ![w] =
            IF MoreFiles(next[w]) THEN "collect" ELSE IF keys = {} THEN "set" ELSE "reducef"]
  /\ UNCHANGED <<env, masterVars, type, id, reply, kva, offset, output, crashes>>

\* A write at a position of a file, which another worker may have truncated.
WriteAt(f, n, line) ==
  [j \in 1 .. Max({Len(f), n + 1}) |->
     IF j = n + 1 THEN line ELSE IF j <= Len(f) THEN f[j] ELSE Hole]

\* reducef returns for the next key, and its line is written.
ReduceReturns(w) ==
  /\ pc[w] = "reducef"
  /\ LET k == Min(todoKeys[w]) IN
       /\ output' = [output EXCEPT ![id[w]] = WriteAt(@, offset[w], Line(k, kva[w]))]
       /\ todoKeys' = [todoKeys EXCEPT ![w] = @ \ {k}]
       /\ pc' = [pc EXCEPT ![w] = IF todoKeys[w] = {k} THEN "set" ELSE @]
  /\ offset' = [offset EXCEPT ![w] = @ + 1]
  /\ UNCHANGED <<env, masterVars, type, id, reply, next, kva, inter, crashes>>

\* The variables of the loop's body go out of scope.
EndOfBody(w) ==
  /\ id' = [id EXCEPT ![w] = 0]
  /\ todoKeys' = [todoKeys EXCEPT ![w] = {}]
  /\ next' = [next EXCEPT ![w] = 0]
  /\ kva' = [kva EXCEPT ![w] = Nothing]
  /\ offset' = [offset EXCEPT ![w] = 0]

\* SetState: the task is finished, whoever has it by now.
SetState(w) ==
  /\ pc[w] = "set" /\ master # "gone"
  /\ states' = [states EXCEPT ![type[w]][id[w]] = "finished"]
  /\ LoopHead(w, reply[w])
  /\ EndOfBody(w)
  /\ UNCHANGED <<env, old, master, files, crashes>>

\* call() to a master that is gone: log.Fatal.
MasterGone(w) ==
  /\ pc[w] \in {"start", "check", "get", "set"} /\ master = "gone"
  /\ pc' = [pc EXCEPT ![w] = "exited"]
  /\ UNCHANGED <<env, masterVars, type, id, reply, task, files, crashes>>

\* os.Exit in mapf or reducef (mrapps/crash.go), or the machine fails.
Crash(w) ==
  /\ pc[w] \in env.crashIn /\ crashes < env.crashes
  /\ pc' = [pc EXCEPT ![w] = "crashed"]
  /\ crashes' = crashes + 1
  /\ EndOfBody(w)
  /\ UNCHANGED <<env, masterVars, type, reply, files>>

\* test-mr.sh starts a new worker where one has died, until the master is gone.
NewWorker(w) ==
  /\ pc[w] = "crashed" /\ master # "gone"
  /\ pc' = [pc EXCEPT ![w] = "start"]
  /\ type' = [type EXCEPT ![w] = mapTask]
  /\ reply' = [reply EXCEPT ![w] = FALSE]
  /\ UNCHANGED <<env, masterVars, id, task, files, crashes>>

Step(w) ==
  \/ Start(w) \/ Check(w) \/ GetNothing(w) \/ GetMap(w) \/ GetReduce(w)
  \/ MapReturns(w) \/ Emit(w) \/ Create(w) \/ Collect(w) \/ RemoveFile(w) \/ ReduceReturns(w)
  \/ SetState(w) \/ MasterGone(w)

Stopped == master = "gone" /\ \A w \in Worker : pc[w] \in {"exited", "crashed", "absent"}

Next ==
  \/ Done \/ MasterExit
  \/ \E i \in Slots : TimePasses(i)
  \/ \E w \in Worker : Step(w) \/ Crash(w) \/ NewWorker(w)
  \/ Stopped /\ UNCHANGED vars

Spec == Init /\ [][Next]_vars

\* Every process runs, main calls Done() again and again, time passes, and the
\* shell starts new workers.
Fairness ==
  /\ WF_vars(Done) /\ WF_vars(MasterExit)
  /\ \A i \in Slots : WF_vars(TimePasses(i))
  /\ \A w \in Worker : WF_vars(Step(w)) /\ WF_vars(NewWorker(w))

FairSpec == Spec /\ Fairness

-----------------------------------------------------------------------------
(* Properties *)

\* Every variable has its type; in particular the loop of a reduce task stays
\* within the map tasks, and it writes no more lines than there are keys.
TypeOK ==
  /\ states \in [TaskType -> UNION {[Ids(t) -> {"todo", "doing", "finished"}] : t \in TaskType}]
  /\ \A t \in TaskType : DOMAIN states[t] = Ids(t)
  /\ old \in [Slots -> BOOLEAN]
  /\ master \in {"run", "done", "gone"}
  /\ pc \in [Worker -> Working \cup {"start", "check", "get", "exited", "crashed", "absent"}]
  /\ type \in [Worker -> TaskType]
  /\ id \in [Worker -> Slots]
  /\ reply \in [Worker -> BOOLEAN]
  /\ todoKeys \in [Worker -> SUBSET Key]
  /\ next \in [Worker -> 0 .. NMap]
  /\ kva \in [Worker -> [Cell -> Nat]]
  /\ offset \in [Worker -> 0 .. Cardinality(Key)]
  /\ inter \in [Cell -> Nat]
  /\ DOMAIN output = Ids(rdcTask)
  /\ crashes \in 0 .. env.crashes

AllFinished(t) == \A i \in Ids(t) : states[t][i] = "finished"

\* No reduce task is given out, and no intermediate file is removed, before all
\* map tasks are finished; GetFile itself does not look, it is the order of the
\* calls of each worker, old or newly started, that ensures it.
ReduceAfterMap ==
  (\E r \in Ids(rdcTask) : states[rdcTask][r] # "todo") => AllFinished(mapTask)

\* A task that has been reported finished stays finished: the timeout of Done()
\* and a second worker on the same task do not undo it.
FinishedIsFinal ==
  [][\A t \in TaskType : \A i \in Ids(t) :
       states[t][i] = "finished" => states'[t][i] = "finished"]_vars

\* "workers are required to exit when a job is completely finished, and not
\* before" (test-mr.sh, line 55): a worker leaves, by its own or because the
\* master is gone, only after the last reduce task.
ExitOnlyWhenDone ==
  (\E w \in Worker : pc[w] = "exited") => AllFinished(mapTask) /\ AllFinished(rdcTask)

\* Without a slow worker no two workers are ever at the same task.
OneWorkerPerTask ==
  ~env.slow => \A w, v \in Worker :
    pc[w] \in Working /\ pc[v] \in Working /\ type[w] = type[v] /\ id[w] = id[v] => w = v

\* The output of mrsequential: one line for each key that some file has.
Expected(r) ==
  LET found == {k \in InPartition(r) : \E i \in Ids(mapTask) : k \in env.emits[i]}
      all == [c \in Cell |-> IF c[2] \in env.emits[c[1]] THEN 1 ELSE 0]
      keys == SetToSortSeq(found, <)
  IN [j \in 1 .. Len(keys) |-> Line(keys[j], all)]

OutputIsExpected == \A r \in Ids(rdcTask) : output[r] = Expected(r)

\* No task is given out twice but after a crash in mapf.
Calm == ~env.slow /\ env.crashIn \subseteq {"mapf"}

\* In a calm job, when the first process exits, the mr-out-* are complete and
\* right: that is when test-mr.sh (lines 55-60, 87-90) compares them.
OutputWhenExited ==
  Calm /\ (master = "gone" \/ \E w \in Worker : pc[w] = "exited") => OutputIsExpected

\* The crash test (test-mr.sh, lines 190-200): when all processes have stopped,
\* the output is the one of a run without crashes.
OutputAfterCrash == Stopped => OutputIsExpected

\* The job ends and every process stops, whatever tasks time out or are done
\* twice, once workers stop crashing.
JobEnds == <>[]Stopped

=============================================================================
