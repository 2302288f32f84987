--------------------------- MODULE MapReduceProofs ---------------------------
(***************************************************************************)
(* Proofs about MapReduce, for any number of map tasks, reduce tasks and   *)
(* workers: finished tasks stay finished, the phases stay apart, nobody    *)
(* exits early, and without slow workers a task has one worker.            *)
(***************************************************************************)
EXTENDS MapReduce, FiniteSetTheorems, TLAPS

-----------------------------------------------------------------------------
(* Types *)

Mark == {"todo", "doing", "finished"}
Place == Working \cup {"start", "check", "get", "exited", "crashed", "absent"}

\* The part of TypeOK that the proofs need.
Types ==
  /\ states = [t \in TaskType |-> states[t]]
  /\ \A t \in TaskType : states[t] \in [Ids(t) -> Mark]
  /\ old \in [Slots -> BOOLEAN]
  /\ pc \in [Worker -> Place]
  /\ type \in [Worker -> TaskType]
  /\ id \in [Worker -> Slots]
  /\ reply \in [Worker -> BOOLEAN]

\* GetFile gives out the first task in state todo, and it is one of them.
LEMMA MinIsIn ==
  ASSUME NEW S \in SUBSET Nat, S # {}
  PROVE  Min(S) \in S
<1>. DEFINE below == {0 .. n : n \in S}
            R == StrictSubsetOrdering(Nat)
<1>1. IsWellFoundedOn(R, FiniteSubsetsOf(Nat))
  BY FS_StrictSubsetOrderingWellFounded
<1>2. \A n \in Nat : IsFiniteSet(0 .. n)
  <2>1. \A n \in Nat : 0 \in Int /\ n \in Int
    OBVIOUS
  <2>. QED
    BY <2>1, FS_Interval
<1>3. below \subseteq FiniteSubsetsOf(Nat) /\ below # {}
  <2>1. \A n \in S : n \in Nat /\ 0 .. n \subseteq Nat /\ IsFiniteSet(0 .. n)
    BY <1>2
  <2>2. \A n \in S : 0 .. n \in FiniteSubsetsOf(Nat)
    BY <2>1, Zenon DEF FiniteSubsetsOf
  <2>3. \A X \in below : X \in FiniteSubsetsOf(Nat)
    BY <2>2, Zenon
  <2>4. \E n \in S : 0 .. n \in below
    BY Zenon
  <2>. QED
    BY <2>3, <2>4, Zenon
<1>4. \E X \in below : \A Y \in below : ~ (<<Y, X>> \in R)
  <2>. HIDE DEF below, R
  <2>. QED
    BY <1>1, <1>3, WFMin
<1>5. PICK n \in S : \A y \in S : ~ (<<0 .. y, 0 .. n>> \in R)
  BY Zenon, <1>4
<1>6. ASSUME NEW y \in S, y < n
      PROVE  FALSE
  <2>1. 0 .. y \subseteq 0 .. n /\ n \in 0 .. n /\ n \notin 0 .. y
    BY <1>6
  <2>2. <<0 .. y, 0 .. n>> \in R
    BY <2>1 DEF StrictSubsetOrdering
  <2>. QED
    BY <1>5, <2>2
<1>7. \A y \in S : n =< y
  BY <1>6
<1>. QED
  BY Zenon, <1>7 DEF Min

\* What GetFile gives out is a task of the type and in state todo.
LEMMA MinOfTodo ==
  ASSUME NEW t \in TaskType, Todo(t) # {}
  PROVE  Min(Todo(t)) \in Ids(t) /\ states[t][Min(Todo(t))] = "todo"
<1>1. Todo(t) \in SUBSET Nat
  BY MapReduceAssumption DEF Todo, Ids
<1>2. Min(Todo(t)) \in Todo(t)
  BY <1>1, MinIsIn
<1>. QED
  BY <1>2 DEF Todo

\* One value of a function is changed, if it has the argument.
LEMMA OneChange ==
  ASSUME NEW S, NEW T, NEW f \in [S -> T], NEW i, NEW m \in T
  PROVE  /\ [f EXCEPT ![i] = m] \in [S -> T]
         /\ \A j \in S : [f EXCEPT ![i] = m][j] = IF j = i THEN m ELSE f[j]
  BY Zenon

\* A step marks tasks; the rest of a state is left alone.
LEMMA OneMark ==
  ASSUME Types, NEW t \in TaskType, NEW i, NEW m \in Mark,
         states' = [states EXCEPT ![t][i] = m]
  PROVE  /\ states' = [u \in TaskType |-> states'[u]]
         /\ \A u \in TaskType : states'[u] \in [Ids(u) -> Mark]
         /\ \A u \in TaskType : \A j \in Ids(u) :
              states'[u][j] = IF u = t /\ j = i THEN m ELSE states[u][j]
<1>1. states' = [u \in TaskType |-> IF u = t THEN [states[u] EXCEPT ![i] = m] ELSE states[u]]
  BY Zenon DEF Types
<1>2. \A u \in TaskType : states[u] \in [Ids(u) -> Mark]
  BY DEF Types
<1>3. \A u \in TaskType : states'[u] = IF u = t THEN [states[u] EXCEPT ![i] = m] ELSE states[u]
  BY Zenon, <1>1
<1>4. states' = [u \in TaskType |-> states'[u]]
  BY Zenon, <1>1
<1>5. ASSUME NEW u \in TaskType
      PROVE  /\ states'[u] \in [Ids(u) -> Mark]
             /\ \A j \in Ids(u) : states'[u][j] = IF u = t /\ j = i THEN m ELSE states[u][j]
  <2>1. CASE u = t
    <3>1. states'[u] = [states[u] EXCEPT ![i] = m] /\ states[u] \in [Ids(u) -> Mark]
      BY <1>2, <1>3, <2>1
    <3>. QED
      BY <2>1, <3>1, OneChange
  <2>2. CASE u # t
    BY <1>2, <1>3, <2>2
  <2>. QED
    BY <2>1, <2>2
<1>. QED
  BY <1>4, <1>5

-----------------------------------------------------------------------------
(* Types are kept *)

\* Done() takes back expired tasks of one type.
LEMMA DoneMarks ==
  ASSUME Types, Done
  PROVE  /\ states' = [u \in TaskType |-> states'[u]]
         /\ \A u \in TaskType : states'[u] \in [Ids(u) -> Mark]
         /\ \A u \in TaskType : \A j \in Ids(u) :
              \/ states'[u][j] = states[u][j]
              \/ j \in Expired(u) /\ states'[u][j] = "todo"
         /\ ~ TaskFinished(mapTask) => states'[rdcTask] = states[rdcTask]
<1>. DEFINE t == IF TaskFinished(mapTask) THEN rdcTask ELSE mapTask
            back == [i \in Ids(t) |-> IF i \in Expired(t) THEN "todo" ELSE states[t][i]]
<1>1. t \in TaskType
  BY DEF TaskType
<1>2. states' = [states EXCEPT ![t] = back]
  BY DEF Done
<1>3. back \in [Ids(t) -> Mark]
  BY <1>1 DEF Types, Mark
<1>4. states' = [u \in TaskType |-> IF u = t THEN back ELSE states[u]]
  BY Zenon, <1>2 DEF Types
<1>5. ~ TaskFinished(mapTask) => t # rdcTask
  BY DEF mapTask, rdcTask
<1>6. rdcTask \in TaskType
  BY DEF TaskType
<1>7. \A j \in Ids(t) : back[j] = states[t][j] \/ (j \in Expired(t) /\ back[j] = "todo")
  OBVIOUS
<1>. HIDE DEF t, back
<1>8. \A u \in TaskType : states'[u] = IF u = t THEN back ELSE states[u]
  BY <1>4
<1>9. states' = [u \in TaskType |-> states'[u]]
  BY <1>4
<1>10. \A u \in TaskType : states'[u] \in [Ids(u) -> Mark]
  BY <1>3, <1>8 DEF Types
<1>. QED
  BY <1>5, <1>6, <1>7, <1>8, <1>9, <1>10

\* There is a task 0: getFileReply.Id is one of the indexes of TaskTime.
LEMMA ZeroIsASlot == 0 \in Slots
  BY MapReduceAssumption DEF Slots, Ids, mapTask

\* The head of either loop of Worker() keeps the types.
LEMMA LoopHeadTypes ==
  ASSUME Types, NEW w \in Worker, NEW f \in BOOLEAN, LoopHead(w, f)
  PROVE  /\ pc' \in [Worker -> Place] /\ type' \in [Worker -> TaskType]
         /\ reply' \in [Worker -> BOOLEAN]
<1>1. CASE ~f
  BY Zenon, <1>1 DEF LoopHead, Types, Place
<1>2. CASE f /\ type[w] = mapTask
  BY Zenon, <1>2 DEF LoopHead, Types, Place, TaskType
<1>3. CASE f /\ type[w] # mapTask
  BY Zenon, <1>3 DEF LoopHead, Types, Place
<1>. QED
  BY <1>1, <1>2, <1>3

\* TaskFinished answers yes or no.
LEMMA FinishedIsBoolean == \A t : TaskFinished(t) \in BOOLEAN
  BY DEF TaskFinished

\* The steps of a task before SetState change nothing that the master has.
Computes(w) ==
  \/ MapReturns(w) \/ Emit(w) \/ Create(w) \/ Collect(w) \/ RemoveFile(w) \/ ReduceReturns(w)

\* Between GetFile and SetState a worker moves on within its task.
LEMMA ComputingKeeps ==
  ASSUME Types, NEW w \in Worker, Computes(w)
  PROVE  /\ pc[w] \in Working
         /\ \E p \in Working : pc' = [pc EXCEPT ![w] = p]
         /\ pc' \in [Worker -> Place]
         /\ UNCHANGED <<env, masterVars, type, id, reply>>
<1>1. pc[w] \in Working /\ UNCHANGED <<env, masterVars, type, id, reply>>
  BY DEF Computes, MapReturns, Emit, Create, Collect, RemoveFile, ReduceReturns, Working
<1>2. \E p \in Working : pc' = [pc EXCEPT ![w] = p]
  BY Zenon, <1>1 DEF Computes, MapReturns, Emit, Create, Collect, RemoveFile, ReduceReturns, Working
<1>. QED
  BY Zenon, <1>1, <1>2 DEF Types, Place

\* The types are inductive.
LEMMA TypesInductive ==
  ASSUME Types, [Next]_vars
  PROVE  Types'
<1>. USE DEF Types
<1>0. CASE UNCHANGED vars
  BY <1>0 DEF vars, masterVars
<1>1. CASE Done
  BY Zenon, <1>1, DoneMarks DEF Done
<1>2. CASE MasterExit
  BY <1>2 DEF MasterExit
<1>3. ASSUME NEW i \in Slots, TimePasses(i)
      PROVE  Types'
  BY <1>3 DEF TimePasses
<1>4. ASSUME NEW w \in Worker, Start(w)
      PROVE  Types'
  <2>1. LoopHead(w, TaskFinished(type[w]))
    BY <1>4 DEF Start
  <2>2. /\ pc' \in [Worker -> Place] /\ type' \in [Worker -> TaskType]
        /\ reply' \in [Worker -> BOOLEAN]
    BY <2>1, LoopHeadTypes, FinishedIsBoolean
  <2>. QED
    BY <1>4, <2>2 DEF Start, masterVars
<1>5. ASSUME NEW w \in Worker, Check(w)
      PROVE  Types'
  BY <1>5, FinishedIsBoolean DEF Check, masterVars, Place
<1>6. ASSUME NEW w \in Worker, GetNothing(w)
      PROVE  Types'
  <2>1. /\ pc' \in [Worker -> Place] /\ type' \in [Worker -> TaskType]
        /\ reply' \in [Worker -> BOOLEAN]
    BY <1>6, LoopHeadTypes DEF GetNothing
  <2>. QED
    BY <1>6, <2>1 DEF GetNothing, masterVars
<1>7. ASSUME NEW w \in Worker, GetMap(w)
      PROVE  Types'
  <2>1. mapTask \in TaskType /\ "doing" \in Mark
    BY DEF TaskType, Mark
  <2>2. Min(Todo(mapTask)) \in Ids(mapTask)
    BY <1>7, <2>1, MinOfTodo DEF GetMap
  <2>3. states' = [states EXCEPT ![mapTask][Min(Todo(mapTask))] = "doing"]
        /\ old' = [old EXCEPT ![Min(Todo(mapTask))] = FALSE]
    BY <1>7 DEF GetMap, Assign
  <2>4. /\ states' = [u \in TaskType |-> states'[u]]
        /\ \A u \in TaskType : states'[u] \in [Ids(u) -> Mark]
    BY Zenon, <2>1, <2>3, OneMark
  <2>5. id' \in [Worker -> Slots]
    BY <1>7, <2>2 DEF GetMap, Slots
  <2>6. old' \in [Slots -> BOOLEAN]
    BY Zenon, <2>3
  <2>7. pc' \in [Worker -> Place]
    BY <1>7 DEF GetMap, Place, Working
  <2>. QED
    BY <1>7, <2>4, <2>5, <2>6, <2>7 DEF GetMap
<1>8. ASSUME NEW w \in Worker, GetReduce(w)
      PROVE  Types'
  <2>1. rdcTask \in TaskType /\ "doing" \in Mark
    BY DEF TaskType, Mark
  <2>2. Min(Todo(rdcTask)) \in Ids(rdcTask)
    BY <1>8, <2>1, MinOfTodo DEF GetReduce
  <2>3. states' = [states EXCEPT ![rdcTask][Min(Todo(rdcTask))] = "doing"]
        /\ old' = [old EXCEPT ![Min(Todo(rdcTask))] = FALSE]
    BY <1>8 DEF GetReduce, Assign
  <2>4. /\ states' = [u \in TaskType |-> states'[u]]
        /\ \A u \in TaskType : states'[u] \in [Ids(u) -> Mark]
    BY Zenon, <2>1, <2>3, OneMark
  <2>5. id' \in [Worker -> Slots]
    BY <1>8, <2>2 DEF GetReduce, Slots
  <2>6. old' \in [Slots -> BOOLEAN]
    BY Zenon, <2>3
  <2>7. pc' \in [Worker -> Place]
    BY <1>8 DEF GetReduce, Place, Working
  <2>. QED
    BY <1>8, <2>4, <2>5, <2>6, <2>7 DEF GetReduce
<1>9. ASSUME NEW w \in Worker, Computes(w)
      PROVE  Types'
  <2>1. pc' \in [Worker -> Place] /\ UNCHANGED <<masterVars, type, id, reply>>
    BY <1>9, ComputingKeeps
  <2>. QED
    BY <2>1 DEF masterVars
<1>10. ASSUME NEW w \in Worker, SetState(w)
       PROVE  Types'
  <2>1. type[w] \in TaskType /\ "finished" \in Mark /\ reply[w] \in BOOLEAN
    BY DEF Mark
  <2>2. states' = [states EXCEPT ![type[w]][id[w]] = "finished"] /\ LoopHead(w, reply[w])
    BY <1>10 DEF SetState
  <2>3. /\ states' = [u \in TaskType |-> states'[u]]
        /\ \A u \in TaskType : states'[u] \in [Ids(u) -> Mark]
    BY Zenon, <2>1, <2>2, OneMark
  <2>4. /\ pc' \in [Worker -> Place] /\ type' \in [Worker -> TaskType]
        /\ reply' \in [Worker -> BOOLEAN]
    BY <2>1, <2>2, LoopHeadTypes
  <2>5. id' \in [Worker -> Slots]
    BY <1>10, ZeroIsASlot DEF SetState, EndOfBody
  <2>. QED
    BY <1>10, <2>3, <2>4, <2>5 DEF SetState
<1>11. ASSUME NEW w \in Worker, MasterGone(w)
       PROVE  Types'
  BY <1>11 DEF MasterGone, masterVars, Place
<1>12. ASSUME NEW w \in Worker, Crash(w)
       PROVE  Types'
  BY <1>12, ZeroIsASlot DEF Crash, EndOfBody, masterVars, Place
<1>13. ASSUME NEW w \in Worker, NewWorker(w)
       PROVE  Types'
  BY <1>13 DEF NewWorker, masterVars, Place, TaskType
<1>. QED
  BY <1>0, <1>1, <1>2, <1>3, <1>4, <1>5, <1>6, <1>7, <1>8, <1>9, <1>10, <1>11, <1>12, <1>13
     DEF Next, Step, Computes

-----------------------------------------------------------------------------
(* Finished tasks stay finished *)

Kept == \A t \in TaskType : \A i \in Ids(t) :
          states[t][i] = "finished" => states'[t][i] = "finished"

\* Four steps change the marks.
LEMMA Marking ==
  ASSUME [Next]_vars
  PROVE  \/ UNCHANGED states
         \/ Done
         \/ \E w \in Worker : GetMap(w) \/ GetReduce(w) \/ SetState(w)
  BY DEF Next, Step, vars, masterVars, MasterExit, TimePasses, Start, Check, GetNothing,
         MapReturns, Emit, Create, Collect, RemoveFile, ReduceReturns, MasterGone, Crash, NewWorker

\* No step takes back a finished task: GetFile takes one in state todo, Done()
\* takes back ones in state doing.
LEMMA KeptByNext ==
  ASSUME Types, [Next]_vars
  PROVE  Kept
<1>0. CASE UNCHANGED states
  BY <1>0 DEF Kept
<1>1. CASE Done
  BY <1>1, DoneMarks DEF Kept, Expired
<1>2. ASSUME NEW w \in Worker, GetMap(w)
      PROVE  Kept
  <2>1. mapTask \in TaskType /\ "doing" \in Mark /\ Todo(mapTask) # {}
    BY <1>2 DEF TaskType, Mark, GetMap
  <2>2. states' = [states EXCEPT ![mapTask][Min(Todo(mapTask))] = "doing"]
    BY <1>2 DEF GetMap, Assign
  <2>3. states[mapTask][Min(Todo(mapTask))] = "todo"
    BY <2>1, MinOfTodo
  <2>4. \A u \in TaskType : \A j \in Ids(u) :
          states'[u][j] = IF u = mapTask /\ j = Min(Todo(mapTask)) THEN "doing" ELSE states[u][j]
    BY Zenon, <2>1, <2>2, OneMark
  <2>. QED
    BY <2>3, <2>4 DEF Kept
<1>3. ASSUME NEW w \in Worker, GetReduce(w)
      PROVE  Kept
  <2>1. rdcTask \in TaskType /\ "doing" \in Mark /\ Todo(rdcTask) # {}
    BY <1>3 DEF TaskType, Mark, GetReduce
  <2>2. states' = [states EXCEPT ![rdcTask][Min(Todo(rdcTask))] = "doing"]
    BY <1>3 DEF GetReduce, Assign
  <2>3. states[rdcTask][Min(Todo(rdcTask))] = "todo"
    BY <2>1, MinOfTodo
  <2>4. \A u \in TaskType : \A j \in Ids(u) :
          states'[u][j] = IF u = rdcTask /\ j = Min(Todo(rdcTask)) THEN "doing" ELSE states[u][j]
    BY Zenon, <2>1, <2>2, OneMark
  <2>. QED
    BY <2>3, <2>4 DEF Kept
<1>4. ASSUME NEW w \in Worker, SetState(w)
      PROVE  Kept
  <2>1. type[w] \in TaskType /\ "finished" \in Mark
    BY DEF Types, Mark
  <2>2. states' = [states EXCEPT ![type[w]][id[w]] = "finished"]
    BY <1>4 DEF SetState
  <2>3. \A u \in TaskType : \A j \in Ids(u) :
          states'[u][j] = IF u = type[w] /\ j = id[w] THEN "finished" ELSE states[u][j]
    BY Zenon, <2>1, <2>2, OneMark
  <2>. QED
    BY <2>3 DEF Kept
<1>. QED
  BY <1>0, <1>1, <1>2, <1>3, <1>4, Marking

-----------------------------------------------------------------------------
(* The order of the phases *)

MapDone == TaskFinished(mapTask)
RdcDone == TaskFinished(rdcTask)

\* What a worker knows of the phases from where it is.
Knows(w) ==
  /\ type[w] = rdcTask => MapDone
  /\ reply[w] /\ type[w] = mapTask => MapDone
  /\ reply[w] /\ type[w] = rdcTask => RdcDone
  /\ pc[w] = "exited" => MapDone /\ RdcDone

\* The inductive form of ReduceAfterMap and ExitOnlyWhenDone.
Order ==
  /\ (\E r \in Ids(rdcTask) : states[rdcTask][r] # "todo") => MapDone
  /\ \A w \in Worker : Knows(w)
  /\ master # "run" => MapDone /\ RdcDone

\* What is finished in this state is finished in the next.
LEMMA DoneStays ==
  ASSUME Kept
  PROVE  (MapDone => MapDone') /\ (RdcDone => RdcDone')
  BY DEF Kept, MapDone, RdcDone, TaskFinished, TaskType

\* A worker knows no less after a step of somebody else.
LEMMA SameKnows ==
  ASSUME Kept, NEW v \in Worker, Knows(v),
         type'[v] = type[v], reply'[v] = reply[v], pc'[v] = pc[v]
  PROVE  Knows(v)'
  BY DoneStays DEF Knows

\* The head of a loop.
LEMMA LoopHeadKnows ==
  ASSUME Types, Kept, NEW w \in Worker, Knows(w), NEW f \in BOOLEAN, LoopHead(w, f),
         f => TaskFinished(type[w])
  PROVE  /\ Knows(w)'
         /\ pc'[w] \notin Working
         /\ \A v \in Worker \ {w} : type'[v] = type[v] /\ reply'[v] = reply[v] /\ pc'[v] = pc[v]
<1>. USE DoneStays DEF Types, LoopHead, Knows
<1>0. type[w] = mapTask \/ type[w] = rdcTask
  BY DEF TaskType
<1>1. CASE ~f
  BY <1>1 DEF Working
<1>2. CASE f /\ type[w] = mapTask
  <2>1. MapDone
    BY <1>2 DEF MapDone
  <2>. QED
    BY <1>2, <2>1 DEF Working, mapTask, rdcTask
<1>3. CASE f /\ type[w] = rdcTask
  <2>1. MapDone /\ RdcDone
    BY <1>3 DEF RdcDone
  <2>. QED
    BY <1>3, <2>1 DEF Working, mapTask, rdcTask
<1>. QED
  BY <1>0, <1>1, <1>2, <1>3

\* The order of the phases is inductive.
LEMMA OrderInductive ==
  ASSUME Types, Order, [Next]_vars
  PROVE  Order'
<1>1. Kept
  BY KeptByNext
<1>2. (MapDone => MapDone') /\ (RdcDone => RdcDone')
  BY <1>1, DoneStays
<1>3. \A w \in Worker : Knows(w)
  BY DEF Order
<1>4. mapTask \in TaskType /\ rdcTask \in TaskType /\ mapTask # rdcTask
  BY DEF TaskType, mapTask, rdcTask
<1>5. (\E r \in Ids(rdcTask) : states'[rdcTask][r] # "todo") => MapDone'
  <2>0. CASE UNCHANGED states
    BY <1>2, <2>0 DEF Order
  <2>1. CASE Done
    BY <1>2, <2>1, DoneMarks DEF Order, MapDone
  <2>2. ASSUME NEW w \in Worker, GetMap(w)
        PROVE  \A r \in Ids(rdcTask) : states'[rdcTask][r] = states[rdcTask][r]
    <3>1. states' = [states EXCEPT ![mapTask][Min(Todo(mapTask))] = "doing"] /\ "doing" \in Mark
      BY <2>2 DEF GetMap, Assign, Mark
    <3>. QED
      BY <1>4, <3>1, OneMark
  <2>3. ASSUME NEW w \in Worker, GetReduce(w)
        PROVE  MapDone
    BY <1>3, <2>3 DEF GetReduce, Knows
  <2>4. ASSUME NEW w \in Worker, SetState(w)
        PROVE  MapDone \/ \A r \in Ids(rdcTask) : states'[rdcTask][r] = states[rdcTask][r]
    <3>1. CASE type[w] = rdcTask
      BY <1>3, <3>1 DEF Knows
    <3>2. CASE type[w] = mapTask
      <4>1. states' = [states EXCEPT ![mapTask][id[w]] = "finished"] /\ "finished" \in Mark
        BY <2>4, <3>2 DEF SetState, Mark
      <4>. QED
        BY <1>4, <4>1, OneMark
    <3>. QED
      BY <3>1, <3>2 DEF Types, TaskType
  <2>. QED
    BY <1>2, <2>0, <2>1, <2>2, <2>3, <2>4, Marking DEF Order
<1>6. master' # "run" => MapDone' /\ RdcDone'
  <2>1. CASE Done
    BY <1>2, <2>1 DEF Done, MapDone, RdcDone
  <2>2. CASE MasterExit
    BY <1>2, <2>2 DEF MasterExit, Order
  <2>3. CASE UNCHANGED master
    BY <1>2, <2>3 DEF Order
  <2>4. Done \/ MasterExit \/ UNCHANGED master
    BY Zenon DEF Next, Step, vars, masterVars, TimePasses, Start, Check, GetNothing,
           GetMap, GetReduce, MapReturns, Emit, Create, Collect, RemoveFile, ReduceReturns,
           SetState, MasterGone, Crash, NewWorker
  <2>. QED
    BY <2>1, <2>2, <2>3, <2>4
<1>7. ASSUME NEW v \in Worker
      PROVE  Knows(v)'
  <2>0. Knows(v) /\ (type[v] = mapTask \/ type[v] = rdcTask) /\ reply[v] \in BOOLEAN
    BY <1>3 DEF Types, TaskType
  <2>1. CASE UNCHANGED <<type, reply, pc>>
    BY <1>1, <2>0, <2>1, SameKnows
  <2>2. ASSUME NEW w \in Worker, Start(w) \/ GetNothing(w) \/ SetState(w)
        PROVE  Knows(v)'
    <3>1. \E f \in BOOLEAN : LoopHead(w, f) /\ (f => TaskFinished(type[w]))
      <4>1. reply[w] \in BOOLEAN /\ (reply[w] => TaskFinished(type[w]))
        BY <1>3 DEF Types, TaskType, Knows, MapDone, RdcDone
      <4>. QED
        BY <2>2, <4>1, FinishedIsBoolean DEF Start, GetNothing, SetState
    <3>2. /\ Knows(w)'
          /\ \A u \in Worker \ {w} : type'[u] = type[u] /\ reply'[u] = reply[u] /\ pc'[u] = pc[u]
      BY <1>1, <1>3, <3>1, LoopHeadKnows
    <3>. QED
      BY <1>1, <2>0, <3>2, SameKnows
  <2>3. ASSUME NEW w \in Worker, Check(w)
        PROVE  Knows(v)'
    <3>1. CASE v = w
      BY <1>2, <2>0, <2>3, <3>1 DEF Check, Knows, Types, MapDone, RdcDone
    <3>2. CASE v # w
      BY <1>1, <2>0, <2>3, <3>2, SameKnows DEF Check, Types
    <3>. QED
      BY <3>1, <3>2
  <2>4. ASSUME NEW w \in Worker, GetMap(w) \/ GetReduce(w) \/ Computes(w) \/ Crash(w)
        PROVE  Knows(v)'
    <3>1. UNCHANGED <<type, reply>>
      BY <2>4, ComputingKeeps DEF GetMap, GetReduce, Crash
    <3>2. \E p \in Working \cup {"crashed"} : pc' = [pc EXCEPT ![w] = p]
      BY <2>4, ComputingKeeps DEF GetMap, GetReduce, Crash, Working
    <3>3. pc'[v] = pc[v] \/ pc'[v] # "exited"
      BY <3>2 DEF Types, Working
    <3>. QED
      BY <1>2, <2>0, <3>1, <3>3 DEF Knows
  <2>5. ASSUME NEW w \in Worker, MasterGone(w)
        PROVE  Knows(v)'
    BY <1>2, <2>0, <2>5 DEF MasterGone, Knows, Order
  <2>6. ASSUME NEW w \in Worker, NewWorker(w)
        PROVE  Knows(v)'
    <3>1. CASE v = w
      BY <1>4, <2>6, <3>1 DEF NewWorker, Knows, Types
    <3>2. CASE v # w
      BY Zenon, <1>1, <2>0, <2>6, <3>2, SameKnows DEF NewWorker, Types
    <3>. QED
      BY <3>1, <3>2
  <2>. QED
    BY <2>1, <2>2, <2>3, <2>4, <2>5, <2>6
       DEF Next, Step, Computes, vars, Done, MasterExit, TimePasses
<1>. QED
  BY <1>5, <1>6, <1>7 DEF Order

-----------------------------------------------------------------------------
(* One worker per task *)

\* A worker at a task has a mark for it that no timeout can take back.
Holds(w) ==
  /\ id[w] \in Ids(type[w])
  /\ states[type[w]][id[w]] = "doing"
  /\ ~old[id[w]]

\* The inductive form of OneWorkerPerTask.
Alone ==
  ~env.slow =>
    /\ \A w \in Worker : pc[w] \in Working => Holds(w)
    /\ \A w, v \in Worker :
         pc[w] \in Working /\ pc[v] \in Working /\ type[w] = type[v] /\ id[w] = id[v] => w = v

\* A step that puts nobody to work and leaves those at work their marks.
LEMMA AloneStays ==
  ASSUME Alone, env' = env,
         ~env.slow => \A v \in Worker : pc'[v] \in Working =>
           /\ pc[v] \in Working /\ type'[v] = type[v] /\ id'[v] = id[v]
           /\ Holds(v) => states'[type[v]][id[v]] = "doing" /\ ~old'[id[v]]
  PROVE  Alone'
<1>. SUFFICES ASSUME ~env.slow
             PROVE  Alone'
  BY DEF Alone
<1>1. ASSUME NEW w \in Worker, pc'[w] \in Working
      PROVE  Holds(w)'
  BY <1>1 DEF Alone, Holds
<1>2. ASSUME NEW w \in Worker, NEW v \in Worker, pc'[w] \in Working, pc'[v] \in Working,
             type'[w] = type'[v], id'[w] = id'[v]
      PROVE  w = v
  BY <1>2 DEF Alone
<1>. QED
  BY <1>1, <1>2 DEF Alone

\* GetFile puts one worker to work, at a task that was in state todo.
LEMMA AloneAfterGetFile ==
  ASSUME Types, Alone, env' = env, NEW t \in TaskType, NEW w \in Worker, type[w] = t,
         Todo(t) # {}, Assign(t, Min(Todo(t))), id' = [id EXCEPT ![w] = Min(Todo(t))],
         type' = type, NEW p \in Working, pc' = [pc EXCEPT ![w] = p]
  PROVE  Alone'
<1>. DEFINE i == Min(Todo(t))
<1>1. i \in Ids(t) /\ states[t][i] = "todo"
  BY MinOfTodo
<1>2. \A u \in TaskType : Ids(u) \subseteq Slots
  BY DEF Slots, TaskType
<1>3. \A u \in TaskType : \A j \in Ids(u) :
        states'[u][j] = IF u = t /\ j = i THEN "doing" ELSE states[u][j]
  <2>1. states' = [states EXCEPT ![t][i] = "doing"] /\ "doing" \in Mark
    BY DEF Assign, Mark
  <2>. QED
    BY Zenon, <2>1, OneMark
<1>4. \A j \in Slots : old'[j] = IF j = i THEN FALSE ELSE old[j]
  BY DEF Assign, Types
<1>. HIDE DEF i
<1>5. /\ \A v \in Worker : id'[v] = IF v = w THEN i ELSE id[v]
      /\ \A v \in Worker : pc'[v] = IF v = w THEN p ELSE pc[v]
      /\ \A v \in Worker : type[v] \in TaskType /\ id[v] \in Slots
  BY DEF Types, i
<1>. SUFFICES ASSUME ~env.slow
             PROVE  Alone'
  BY DEF Alone
<1>6. \A v \in Worker \ {w} : pc[v] \in Working => Holds(v) /\ ~(type[v] = t /\ id[v] = i)
  BY <1>1 DEF Alone, Holds
<1>7. ASSUME NEW v \in Worker, pc'[v] \in Working
      PROVE  Holds(v)'
  <2>1. CASE v = w
    <3>1. type'[v] = t /\ id'[v] = i /\ i \in Slots
      BY <1>1, <1>2, <1>5, <2>1
    <3>2. states'[t][i] = "doing" /\ ~old'[i]
      BY Zenon, <1>1, <1>3, <1>4, <3>1
    <3>. QED
      BY <1>1, <3>1, <3>2 DEF Holds
  <2>2. CASE v # w
    <3>1. type'[v] = type[v] /\ id'[v] = id[v] /\ pc[v] \in Working
      BY <1>5, <1>7, <2>2
    <3>2. Holds(v) /\ ~(type[v] = t /\ id[v] = i)
      BY <1>6, <2>2, <3>1
    <3>3. states'[type[v]][id[v]] = "doing"
      BY <1>3, <1>5, <3>2 DEF Holds
    <3>4. ~old'[id[v]]
      BY Zenon, <1>4, <1>5, <3>2 DEF Holds
    <3>. QED
      BY <3>1, <3>2, <3>3, <3>4 DEF Holds
  <2>. QED
    BY <2>1, <2>2
<1>8. ASSUME NEW u \in Worker, NEW v \in Worker, pc'[u] \in Working, pc'[v] \in Working,
             type'[u] = type'[v], id'[u] = id'[v]
      PROVE  u = v
  <2>1. CASE u = w \/ v = w
    BY <1>5, <1>6, <1>8, <2>1
  <2>2. CASE u # w /\ v # w
    BY <1>5, <1>8, <2>2 DEF Alone
  <2>. QED
    BY <2>1, <2>2
<1>. QED
  BY <1>7, <1>8 DEF Alone

\* That a task has one worker is inductive.  The phases matter: TaskTime[i] is
\* shared by map task i and reduce task i, which are never both being done.
LEMMA AloneInductive ==
  ASSUME Types, Order, Alone, [Next]_vars
  PROVE  Alone'
<1>0. CASE UNCHANGED vars
  BY <1>0, AloneStays DEF vars, masterVars, Holds
<1>1. CASE Done
  <2>1. env' = env /\ old' = old /\ pc' = pc /\ type' = type /\ id' = id
    BY <1>1 DEF Done
  <2>2. ASSUME NEW v \in Worker, Holds(v)
        PROVE  states'[type[v]][id[v]] = "doing"
    <3>1. type[v] \in TaskType /\ id[v] \in Ids(type[v]) /\ id[v] \notin Expired(type[v])
      BY <2>2 DEF Types, Holds, Expired
    <3>. QED
      BY <1>1, <2>2, <3>1, DoneMarks DEF Holds
  <2>. QED
    BY <2>1, <2>2, AloneStays DEF Holds
<1>2. CASE MasterExit
  BY <1>2, AloneStays DEF MasterExit, Holds
<1>3. ASSUME NEW i \in Slots, TimePasses(i)
      PROVE  Alone'
  <2>1. /\ env' = env /\ states' = states /\ pc' = pc /\ type' = type /\ id' = id
        /\ old' = [old EXCEPT ![i] = TRUE]
    BY <1>3 DEF TimePasses
  <2>2. ASSUME ~env.slow, NEW v \in Worker, pc[v] \in Working, Holds(v)
        PROVE  id[v] # i
    <3>1. PICK t \in TaskType :
            i \in Ids(t) /\ states[t][i] = "doing" /\ ~(type[v] = t /\ id[v] = i)
      BY <1>3, <2>2 DEF TimePasses
    <3>2. ASSUME type[v] # t, id[v] = i
          PROVE  FALSE
      <4>1. MapDone
        BY <3>1, <3>2, <2>2 DEF Types, TaskType, Order, Knows, Holds
      <4>2. states[mapTask][i] = "doing" /\ i \in Ids(mapTask)
        BY <3>1, <3>2, <2>2 DEF Types, TaskType, Holds
      <4>. QED
        BY <4>1, <4>2 DEF MapDone, TaskFinished
    <3>. QED
      BY <3>1, <3>2
  <2>. QED
    BY Zenon, <2>1, <2>2, AloneStays DEF Types, Holds, Alone
<1>4. ASSUME NEW w \in Worker, GetMap(w)
      PROVE  Alone'
  <2>1. mapTask \in TaskType /\ "mapf" \in Working
    BY DEF TaskType, Working
  <2>. QED
    BY Zenon, <1>4, <2>1, AloneAfterGetFile DEF GetMap
<1>5. ASSUME NEW w \in Worker, GetReduce(w)
      PROVE  Alone'
  <2>1. rdcTask \in TaskType /\ "create" \in Working
    BY DEF TaskType, Working
  <2>. QED
    BY Zenon, <1>5, <2>1, AloneAfterGetFile DEF GetReduce
<1>6. ASSUME NEW w \in Worker, Computes(w)
      PROVE  Alone'
  <2>1. /\ pc[w] \in Working /\ \A v \in Worker \ {w} : pc'[v] = pc[v]
        /\ env' = env /\ states' = states /\ old' = old /\ type' = type /\ id' = id
    BY <1>6, ComputingKeeps DEF Types, masterVars
  <2>. QED
    BY <2>1, AloneStays DEF Holds
<1>7. ASSUME NEW w \in Worker, Start(w) \/ GetNothing(w)
      PROVE  Alone'
  <2>1. \E f \in BOOLEAN : LoopHead(w, f)
    BY <1>7, FinishedIsBoolean DEF Start, GetNothing, Types
  <2>2. pc'[w] \notin Working /\ \A v \in Worker \ {w} : pc'[v] = pc[v] /\ type'[v] = type[v]
    BY <2>1 DEF LoopHead, Types, Working
  <2>3. env' = env /\ states' = states /\ old' = old /\ id' = id
    BY <1>7 DEF Start, GetNothing, masterVars
  <2>. QED
    BY <2>2, <2>3, AloneStays DEF Holds
<1>8. ASSUME NEW w \in Worker, SetState(w)
      PROVE  Alone'
  <2>1. LoopHead(w, reply[w]) /\ reply[w] \in BOOLEAN
    BY <1>8 DEF SetState, Types
  <2>2. pc'[w] \notin Working /\ \A v \in Worker \ {w} : pc'[v] = pc[v] /\ type'[v] = type[v]
    BY <2>1 DEF LoopHead, Types, Working
  <2>3. env' = env /\ old' = old /\ pc[w] \in Working /\ \A v \in Worker \ {w} : id'[v] = id[v]
    BY <1>8 DEF SetState, EndOfBody, Types, Working
  <2>4. \A u \in TaskType : \A j \in Ids(u) :
          states'[u][j] = IF u = type[w] /\ j = id[w] THEN "finished" ELSE states[u][j]
    <3>1. /\ states' = [states EXCEPT ![type[w]][id[w]] = "finished"]
          /\ "finished" \in Mark /\ type[w] \in TaskType
      BY <1>8 DEF SetState, Types, Mark
    <3>. QED
      BY Zenon, <3>1, OneMark
  <2>5. ASSUME ~env.slow, NEW v \in Worker \ {w}, pc[v] \in Working, Holds(v)
        PROVE  states'[type[v]][id[v]] = "doing"
    <3>1. ~(type[v] = type[w] /\ id[v] = id[w]) /\ type[v] \in TaskType
      BY <2>3, <2>5 DEF Alone, Types
    <3>. QED
      BY <2>4, <2>5, <3>1 DEF Holds
  <2>. QED
    BY <2>2, <2>3, <2>5, AloneStays DEF Holds
<1>9. ASSUME NEW w \in Worker, Check(w) \/ MasterGone(w) \/ NewWorker(w) \/ Crash(w)
      PROVE  Alone'
  <2>1. env' = env /\ states' = states /\ old' = old
    BY <1>9 DEF Check, MasterGone, NewWorker, Crash, masterVars
  <2>2. /\ pc'[w] \notin Working
        /\ \A v \in Worker \ {w} : pc'[v] = pc[v] /\ type'[v] = type[v] /\ id'[v] = id[v]
    BY <1>9 DEF Check, MasterGone, NewWorker, Crash, EndOfBody, Types, Working
  <2>. QED
    BY <2>1, <2>2, AloneStays DEF Holds
<1>. QED
  BY <1>0, <1>1, <1>2, <1>3, <1>4, <1>5, <1>6, <1>7, <1>8, <1>9 DEF Next, Step, Computes

-----------------------------------------------------------------------------
(* Theorems *)

Inv == Types /\ Order /\ Alone

\* MakeMaster and new workers satisfy the invariant.
LEMMA InitInv == Init => Inv
<1>. SUFFICES ASSUME Init
             PROVE  Inv
  OBVIOUS
<1>1. Types
  BY ZeroIsASlot DEF Init, Types, Mark, Place, TaskType
<1>2. Order
  BY DEF Init, Order, Knows, TaskType, mapTask, rdcTask
<1>3. \A w \in Worker : pc[w] \notin Working
  BY DEF Init, Working
<1>4. Alone
  BY <1>3 DEF Alone
<1>. QED
  BY <1>1, <1>2, <1>4 DEF Inv

\* Every step of master and workers preserves it.
LEMMA NextInv == Inv /\ [Next]_vars => Inv'
  BY TypesInductive, OrderInductive, AloneInductive DEF Inv

\* The invariant always holds.
LEMMA Invariance == Spec => []Inv
  BY InitInv, NextInv, PTL DEF Spec

\* No reduce task is given out before all map tasks are finished, for any number
\* of tasks and workers, of timeouts, crashes and restarts: GetFile does not look
\* at the phase, Worker() asks TaskFinished before its second loop.
THEOREM ReduceAfterMapHolds == Spec => []ReduceAfterMap
<1>1. Inv => ReduceAfterMap
  BY DEF Inv, Order, ReduceAfterMap, AllFinished, MapDone, TaskFinished
<1>. QED
  BY <1>1, Invariance, PTL

\* No worker exits before the last reduce task is finished, be it by the answer of
\* TaskFinished or because the master is gone.
THEOREM ExitOnlyWhenDoneHolds == Spec => []ExitOnlyWhenDone
<1>1. Inv => ExitOnlyWhenDone
  BY DEF Inv, Order, Knows, ExitOnlyWhenDone, AllFinished, MapDone, RdcDone, TaskFinished
<1>. QED
  BY <1>1, Invariance, PTL

\* A task that SetState has marked finished is never given out or taken back again.
THEOREM FinishedIsFinalHolds == Spec => FinishedIsFinal
<1>1. Inv /\ [Next]_vars => Kept
  BY KeptByNext DEF Inv
<1>2. Kept => [\A t \in TaskType : \A i \in Ids(t) :
                 states[t][i] = "finished" => states'[t][i] = "finished"]_vars
  BY DEF Kept
<1>. QED
  BY <1>1, <1>2, Invariance, PTL DEF Spec, FinishedIsFinal

\* Where only the tasks of dead workers time out in Done(), no two workers are ever
\* at the same task, although both phases share the array TaskTime.
THEOREM OneWorkerPerTaskHolds == Spec => []OneWorkerPerTask
<1>1. Inv => OneWorkerPerTask
  BY DEF Inv, Alone, OneWorkerPerTask
<1>. QED
  BY <1>1, Invariance, PTL

=============================================================================
