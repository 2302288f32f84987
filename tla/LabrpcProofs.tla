---------------------------- MODULE LabrpcProofs ----------------------------
(***************************************************************************)
(* labrpc implements AtMostOnceRPC, for any number of calls, ends and      *)
(* restarts of the server.                                                 *)
(***************************************************************************)
EXTENDS Labrpc, TLAPS

-----------------------------------------------------------------------------
(* The inductive invariant *)

Types ==
  /\ copied \in Instance /\ server \in {None, copied}
  /\ persister \in [Instance -> SUBSET Call]
  /\ pc \in [Call -> {"idle", "calling", "sent", "delivering", "waiting", "answered", "delayed",
                      "failed", "true", "false"}]
  /\ target \in [Call -> 0 .. copied]
  /\ handler \in [Call -> {"none", "ready", "done"}]

\* Before the handler is started nothing can be waited for; an answer comes from
\* a handler that has run.
CallOK(c) ==
  /\ pc[c] \in {"idle", "calling", "sent", "delivering"} => handler[c] = "none"
  /\ pc[c] = "delivering" \/ handler[c] # "none" => target[c] # None
  /\ pc[c] = "answered" => handler[c] = "done"

\* A handler has its effect once, in the Persister of its own instance, from
\* which only copies take it further; a call that returns true, at once or later,
\* has its effect in the newest one.
EffectOK(c) ==
  /\ \A n \in Instance : c \in persister[n] => handler[c] = "done"
  /\ handler[c] = "done" /\ target[c] = copied => c \in persister[copied]
  /\ pc[c] \in {"delayed", "true"} => c \in persister[copied]

Inv == Types /\ \A c \in Call : CallOK(c) /\ EffectOK(c)

\* The invariant holds initially.
LEMMA InitInv ==
  ASSUME Init
  PROVE  Inv
<1>1. 1 \in Instance
  BY LabrpcAssumption DEF Instance
<1> QED
  BY <1>1 DEF Init, Inv, Types, CallOK, EffectOK, None

\* The tester's steps other than a copy of the Persister, and Take, change no
\* Persister and start no handler.
LEMMA TesterKeeps ==
  ASSUME Inv, UNCHANGED <<persister, copied, pc, request, handler>>, server' \in {server, None, copied}
  PROVE  Inv'
  BY DEF Inv, Types, CallOK, EffectOK, request

\* A superseded Persister leaves its effects to its copy.
LEMMA CopyKeeps ==
  ASSUME Inv, CopyPersister
  PROVE  Inv'
<1> DEFINE k == copied + 1
<1>1. /\ server = None /\ copied < MaxInstances /\ copied' = k
      /\ persister' = [persister EXCEPT ![k] = persister[copied]]
      /\ UNCHANGED <<server, pc, target, handler>>
  BY DEF CopyPersister, request
<1>2. k \in Instance /\ copied \in Instance /\ 0 .. copied \subseteq 0 .. k /\ k \notin 0 .. copied
  BY <1>1, LabrpcAssumption DEF Inv, Types, Instance
<1> HIDE DEF k
<1>3. Types'
  BY <1>1, <1>2 DEF Inv, Types
<1>4. persister'[k] = persister[copied] /\ \A n \in Instance : persister'[n] \in {persister[n], persister[copied]}
  BY <1>1, <1>2 DEF Inv, Types
<1>5. ASSUME NEW c \in Call PROVE CallOK(c)' /\ EffectOK(c)'
  <2>1. CallOK(c)'
    BY <1>1 DEF Inv, CallOK
  <2>2. target'[c] # copied'
    BY <1>1, <1>2 DEF Inv, Types
  <2>3. \A n \in Instance : c \in persister'[n] => handler'[c] = "done"
    BY <1>1, <1>2, <1>4 DEF Inv, EffectOK
  <2>4. pc'[c] \in {"delayed", "true"} => c \in persister'[copied']
    BY <1>1, <1>4 DEF Inv, EffectOK
  <2> QED
    BY <2>1, <2>2, <2>3, <2>4 DEF EffectOK
<1> QED
  BY <1>3, <1>5 DEF Inv

\* Moving on keeps the invariant where the place it comes to allows it.
LEMMA MoveKeeps ==
  ASSUME Inv, NEW c \in Call, UNCHANGED <<server, persister, copied, target, handler>>,
         NEW place \in {"calling", "sent", "answered", "delayed", "failed", "true", "false"},
         Goto(c, place),
         place \in {"calling", "sent"} => handler[c] = "none",
         place = "answered" => handler[c] = "done",
         place \in {"delayed", "true"} => c \in persister[copied]
  PROVE  Inv'
<1>1. pc' = [pc EXCEPT ![c] = place]
  BY DEF Goto
<1>2. Types'
  BY <1>1 DEF Inv, Types
<1>3. ASSUME NEW d \in Call PROVE CallOK(d)' /\ EffectOK(d)'
  <2>1. CASE d = c
    BY <1>1, <2>1 DEF Inv, Types, CallOK, EffectOK
  <2>2. CASE d # c
    BY <1>1, <2>2 DEF Inv, Types, CallOK, EffectOK
  <2> QED
    BY <2>1, <2>2
<1> QED
  BY <1>2, <1>3 DEF Inv

\* An answer that is reported comes from the instance in the network, whose
\* Persister is the newest one.
LEMMA ReportedIsSaved ==
  ASSUME Inv, NEW c \in Call, pc[c] = "answered", Reports(c)
  PROVE  c \in persister[copied]
<1>1. handler[c] = "done" /\ target[c] # None /\ server = target[c]
  BY DEF Inv, CallOK, Reports, isServerDead
<1>2. server = copied
  BY <1>1 DEF Inv, Types
<1> QED
  BY Zenon, <1>1, <1>2 DEF Inv, EffectOK

\* processReq keeps the invariant.
LEMMA ProcessKeeps ==
  ASSUME Inv, NEW c \in Call, Process(c)
  PROVE  Inv'
<1>1. CASE readEndnameInfo(c)
  <2>1. CASE pc' = [pc EXCEPT ![c] = "failed"] /\ UNCHANGED target
    BY Zenon, <1>1, <2>1, MoveKeeps DEF readEndnameInfo, network, Goto
  <2>2. CASE server # None /\ pc' = [pc EXCEPT ![c] = "delivering"] /\ target' = [target EXCEPT ![c] = server]
    <3>1. pc[c] = "sent" /\ UNCHANGED <<server, persister, copied, handler>>
      BY <1>1 DEF readEndnameInfo, network
    <3>2. handler[c] = "none" /\ server = copied /\ copied \in 0 .. copied
      BY <2>2, <3>1 DEF Inv, Types, CallOK, Instance
    <3>3. Types'
      BY <2>2, <3>1, <3>2 DEF Inv, Types
    <3>4. ASSUME NEW d \in Call PROVE CallOK(d)' /\ EffectOK(d)'
      <4>1. CASE d = c
        BY <2>2, <3>1, <3>2, <4>1 DEF Inv, Types, CallOK, EffectOK
      <4>2. CASE d # c
        BY <2>2, <3>1, <4>2 DEF Inv, Types, CallOK, EffectOK
      <4> QED
        BY <4>1, <4>2
    <3> QED
      BY <3>3, <3>4 DEF Inv
  <2> QED
    BY <1>1, <2>1, <2>2 DEF readEndnameInfo, Goto
<1>2. CASE Dispatch(c)
  <2>1. /\ pc[c] = "delivering" /\ pc' = [pc EXCEPT ![c] = "waiting"]
        /\ handler' = [handler EXCEPT ![c] = "ready"] /\ UNCHANGED <<server, persister, copied, target>>
    BY <1>2 DEF Dispatch, network, request, Goto
  <2>2. handler[c] = "none" /\ target[c] # None
    BY <2>1 DEF Inv, CallOK
  <2>3. Types'
    BY <2>1 DEF Inv, Types
  <2>4. ASSUME NEW d \in Call PROVE CallOK(d)' /\ EffectOK(d)'
    <3>1. CASE d = c
      BY <2>1, <2>2, <3>1 DEF Inv, Types, CallOK, EffectOK
    <3>2. CASE d # c
      BY <2>1, <3>2 DEF Inv, Types, CallOK, EffectOK
    <3> QED
      BY <3>1, <3>2
  <2> QED
    BY <2>3, <2>4 DEF Inv
<1>3. CASE DropRequest(c) \/ StopWaiting(c)
  BY <1>3, MoveKeeps DEF DropRequest, StopWaiting, network, request
<1>4. CASE ReceiveAnswer(c)
  BY <1>4, MoveKeeps DEF ReceiveAnswer, network, request
<1>5. CASE Check(c)
  <2>1. UNCHANGED <<server, persister, copied, target, handler>> /\ pc[c] = "answered"
    BY <1>5 DEF Check, network, request
  <2>2. CASE Goto(c, "failed")
    BY <2>1, <2>2, MoveKeeps
  <2>3. CASE Reports(c) /\ (Goto(c, "delayed") \/ Goto(c, "true"))
    BY <2>1, <2>3, MoveKeeps, ReportedIsSaved
  <2> QED
    BY <1>5, <2>2, <2>3 DEF Check
<1>6. CASE DelayedAnswer(c)
  <2>1. c \in persister[copied]
    BY <1>6 DEF DelayedAnswer, Inv, EffectOK
  <2> QED
    BY <1>6, <2>1, MoveKeeps DEF DelayedAnswer, network, request
<1>7. CASE Fail(c) \/ Abort(c)
  BY <1>7, MoveKeeps DEF Fail, Abort, network, request
<1> QED
  BY <1>1, <1>2, <1>3, <1>4, <1>5, <1>6, <1>7 DEF Process

\* A handler has not had its effect before it runs, whether or not Call has
\* returned by then.
LEMMA HandleKeeps ==
  ASSUME Inv, NEW c \in Call, Handle(c)
  PROVE  Inv'
<1>1. /\ handler[c] = "ready" /\ handler' = [handler EXCEPT ![c] = "done"]
      /\ persister' = [persister EXCEPT ![target[c]] = @ \cup {c}]
      /\ UNCHANGED <<server, copied, pc, target>>
  BY DEF Handle, request
<1>2. target[c] \in Instance /\ copied \in Instance
  <2>1. copied \in Instance /\ target[c] \in 0 .. copied /\ target[c] # 0
    BY <1>1 DEF Inv, Types, CallOK, None
  <2> QED
    BY <2>1, LabrpcAssumption DEF Instance
<1>3. Types'
  BY <1>1, <1>2 DEF Inv, Types
<1>4. /\ c \in persister'[target[c]]
      /\ \A n \in Instance : persister[n] \subseteq persister'[n] /\ persister'[n] \subseteq persister[n] \cup {c}
  BY <1>1, <1>2 DEF Inv, Types
<1>5. ASSUME NEW d \in Call PROVE CallOK(d)' /\ EffectOK(d)'
  <2>1. CASE d = c
    BY <1>1, <1>2, <1>4, <2>1 DEF Inv, Types, CallOK, EffectOK
  <2>2. CASE d # c
    BY <1>1, <1>2, <1>4, <2>2 DEF Inv, Types, CallOK, EffectOK
  <2> QED
    BY <2>1, <2>2
<1> QED
  BY <1>3, <1>5 DEF Inv

\* Every step keeps the invariant.
LEMMA NextInv ==
  ASSUME Inv, [Next]_vars
  PROVE  Inv'
<1>1. CASE UNCHANGED vars
  BY <1>1, TesterKeeps DEF vars, network
<1>2. CASE \/ \E e \in End, on \in BOOLEAN : Enable(e, on)
           \/ \E yes \in BOOLEAN : Reliable(yes) \/ LongReordering(yes)
           \/ DeleteServer \/ AddServer \/ Cleanup
  BY <1>2, TesterKeeps DEF Enable, Reliable, LongReordering, DeleteServer, AddServer, Cleanup
<1>3. CASE CopyPersister
  BY <1>3, CopyKeeps
<1>4. CASE Take
  <2>1. CASE UNCHANGED <<network, request, handler>> /\ \E c \in Call : pc[c] = "calling" /\ Goto(c, "sent")
    <3>1. PICK c \in Call : pc[c] = "calling" /\ Goto(c, "sent")
      BY <2>1
    <3>2. handler[c] = "none"
      BY <3>1 DEF Inv, CallOK
    <3> QED
      BY <2>1, <3>1, <3>2, MoveKeeps DEF network, request
  <2>2. CASE UNCHANGED <<server, persister, copied, pc, request, handler>>
    BY <2>2, TesterKeeps
  <2> QED
    BY <1>4, <2>1, <2>2 DEF Take
<1>5. ASSUME NEW c \in Call, Begin(c) PROVE Inv'
  <2>1. handler[c] = "none"
    BY <1>5 DEF Begin, Inv, CallOK
  <2> QED
    BY <1>5, <2>1, MoveKeeps DEF Begin, network, request
<1> QED
  BY <1>1, <1>2, <1>3, <1>4, <1>5, ProcessKeeps, HandleKeeps DEF Next

\* The inductive invariant holds.
LEMMA Invariance == SafetySpec => []Inv
  BY InitInv, NextInv, PTL DEF SafetySpec

-----------------------------------------------------------------------------
(* The refinement *)

\* What AtMostOnceRPC sees of a call at a place.
StatusOf(place) == IF place \in {"idle", "true", "false"} THEN place ELSE "called"

\* The status of a call that moves is that of the place it comes to.
LEMMA StatusMoves ==
  ASSUME Inv, NEW c \in Call, NEW place, Goto(c, place)
  PROVE  /\ Status[c] = StatusOf(pc[c]) /\ Status' = [Status EXCEPT ![c] = StatusOf(place)]
         /\ StatusOf(place) = Status[c] => Status' = Status
<1>1. pc' = [pc EXCEPT ![c] = place] /\ DOMAIN pc = Call
  BY DEF Goto, Inv, Types
<1>2. Status[c] = StatusOf(pc[c])
  BY DEF Status, StatusOf
<1>3. \A d \in Call : pc'[d] = IF d = c THEN place ELSE pc[d]
  BY <1>1
<1>4. Status' = [d \in Call |-> IF d = c THEN StatusOf(place) ELSE Status[d]]
  BY <1>3 DEF Status, StatusOf
<1>5. Status = [d \in Call |-> Status[d]]
  BY DEF Status
<1> QED
  BY <1>2, <1>4, <1>5

\* A call that moves between its start and its return is not seen to move.
LEMMA MoveStutters ==
  ASSUME Inv, NEW c \in Call, NEW place, Goto(c, place), UNCHANGED <<persister, copied>>,
         StatusOf(pc[c]) = "called", StatusOf(place) = "called"
  PROVE  UNCHANGED RPC!vars
  BY StatusMoves DEF RPC!vars

\* A call that returns false may have had its effect or not.
LEMMA FalseReturns ==
  ASSUME Inv, NEW c \in Call, Goto(c, "false"), UNCHANGED <<persister, copied>>,
         StatusOf(pc[c]) = "called"
  PROVE  RPC!Return(c)
<1>1. StatusOf("false") = "false"
  BY DEF StatusOf
<1> QED
  BY <1>1, StatusMoves DEF RPC!Return

\* A call that returns true has its effect in the newest Persister.
LEMMA TrueReturns ==
  ASSUME Inv, NEW c \in Call, Goto(c, "true"), UNCHANGED <<persister, copied>>,
         StatusOf(pc[c]) = "called", c \in persister[copied]
  PROVE  RPC!Return(c)
<1>1. StatusOf("true") = "true"
  BY DEF StatusOf
<1> QED
  BY <1>1, StatusMoves DEF RPC!Return

\* The steps of processReq return from the call or are not seen.
LEMMA ProcessImplements ==
  ASSUME Inv, NEW c \in Call, Process(c)
  PROVE  RPC!Return(c) \/ UNCHANGED RPC!vars
<1>1. UNCHANGED <<persister, copied>>
  BY DEF Process, readEndnameInfo, DropRequest, Dispatch, ReceiveAnswer, StopWaiting, Check,
         DelayedAnswer, Fail, Abort, network
<1>2. CASE Fail(c) \/ Abort(c)
  <2>1. Goto(c, "false") /\ StatusOf(pc[c]) = "called"
    BY <1>2 DEF Fail, Abort, Destroyed, StatusOf
  <2> QED
    BY <1>1, <2>1, FalseReturns
<1>3. CASE Goto(c, "true")
  <2>1. StatusOf(pc[c]) = "called" /\ c \in persister[copied]
    <3>1. CASE DelayedAnswer(c)
      BY <3>1 DEF DelayedAnswer, StatusOf, Inv, EffectOK
    <3>2. CASE Check(c) /\ Reports(c)
      <4>1. pc[c] = "answered"
        BY <3>2 DEF Check
      <4> QED
        BY <3>2, <4>1, ReportedIsSaved DEF StatusOf
    <3>3. "true" \notin {"delivering", "failed", "waiting", "answered", "delayed", "false"}
      OBVIOUS
    <3>4. \A place : Goto(c, place) => place = "true"
      BY <1>3 DEF Goto, Inv, Types
    <3> QED
      BY <3>1, <3>2, <3>3, <3>4 DEF Process, readEndnameInfo, DropRequest, Dispatch, ReceiveAnswer,
         StopWaiting, Check, Fail, Abort
  <2> QED
    BY <1>1, <1>3, <2>1, TrueReturns
<1>4. CASE \E place \in {"delivering", "failed", "waiting", "answered", "delayed"} :
             Goto(c, place) /\ pc[c] \in {"sent", "delivering", "waiting", "answered"}
  BY <1>1, <1>4, MoveStutters DEF StatusOf
<1> QED
  BY <1>2, <1>3, <1>4 DEF Process, readEndnameInfo, DropRequest, Dispatch, ReceiveAnswer,
     StopWaiting, Check, DelayedAnswer

\* A handler of the newest instance has its effect now, one of a killed instance
\* has none that is seen.
LEMMA HandleImplements ==
  ASSUME Inv, NEW c \in Call, Handle(c)
  PROVE  RPC!Execute(c) \/ UNCHANGED RPC!vars
<1>1. /\ handler[c] = "ready" /\ persister' = [persister EXCEPT ![target[c]] = @ \cup {c}]
      /\ UNCHANGED <<copied, pc>>
  BY DEF Handle
<1>2. copied \in Instance /\ DOMAIN persister = Instance
  BY DEF Inv, Types
<1>3. Status' = Status
  BY <1>1 DEF Status
<1>4. CASE target[c] = copied
  <2>1. c \notin persister[copied]
    BY <1>1, <1>2 DEF Inv, EffectOK
  <2>2. pc[c] # "true" /\ pc[c] # "idle"
    BY <1>1, <2>1 DEF Inv, EffectOK, CallOK
  <2>3. Status[c] \in {"called", "false"}
    BY <2>2 DEF Status
  <2>4. persister'[copied'] = persister[copied] \cup {c}
    BY <1>1, <1>2, <1>4
  <2> QED
    BY <1>3, <2>1, <2>3, <2>4 DEF RPC!Execute
<1>5. CASE target[c] # copied
  <2>1. persister'[copied'] = persister[copied]
    BY <1>1, <1>2, <1>5
  <2> QED
    BY <1>3, <2>1 DEF RPC!vars
<1> QED
  BY <1>4, <1>5

\* A superseded Persister has had all its effects copied.
LEMMA CopyImplements ==
  ASSUME Inv, CopyPersister
  PROVE  UNCHANGED RPC!vars
<1>1. /\ copied < MaxInstances /\ copied' = copied + 1 /\ pc' = pc
      /\ persister' = [persister EXCEPT ![copied + 1] = persister[copied]]
  BY DEF CopyPersister
<1>2. copied + 1 \in Instance /\ DOMAIN persister = Instance
  BY <1>1, LabrpcAssumption DEF Inv, Types, Instance
<1>3. persister'[copied'] = persister[copied]
  BY <1>1, <1>2
<1>4. Status' = Status
  BY <1>1 DEF Status
<1> QED
  BY <1>3, <1>4 DEF RPC!vars

\* Every step maps to a step of AtMostOnceRPC or to none.
LEMMA StepImplements ==
  ASSUME Inv, [Next]_vars
  PROVE  [RPC!Next]_(RPC!vars)
<1>1. CASE UNCHANGED <<persister, copied, pc>>
  BY <1>1 DEF Status, RPC!vars
<1>2. CASE CopyPersister
  BY <1>2, CopyImplements
<1>3. ASSUME NEW c \in Call, pc[c] = "calling", Goto(c, "sent"), UNCHANGED network
      PROVE  UNCHANGED RPC!vars
  BY <1>3, MoveStutters DEF network, StatusOf
<1>4. ASSUME NEW c \in Call, Begin(c) PROVE RPC!Begin(c)
  <2>1. StatusOf("idle") = "idle" /\ StatusOf("calling") = "called"
    BY DEF StatusOf
  <2> QED
    BY <1>4, <2>1, StatusMoves DEF Begin, RPC!Begin, network
<1>5. CASE Take
  BY <1>1, <1>3, <1>5 DEF Take
<1>6. CASE \/ \E e \in End, on \in BOOLEAN : Enable(e, on)
           \/ \E yes \in BOOLEAN : Reliable(yes) \/ LongReordering(yes)
           \/ DeleteServer \/ AddServer \/ Cleanup
  BY <1>1, <1>6 DEF Enable, Reliable, LongReordering, DeleteServer, AddServer, Cleanup
<1>7. CASE UNCHANGED vars
  BY <1>1, <1>7 DEF vars, network
<1>8. ASSUME NEW c \in Call, Begin(c) \/ Process(c) \/ Handle(c) PROVE [RPC!Next]_(RPC!vars)
  BY <1>4, <1>8, ProcessImplements, HandleImplements DEF RPC!Next
<1> QED
  BY <1>2, <1>5, <1>6, <1>7, <1>8 DEF Next

\* labrpc implements the at-most-once RPC of AtMostOnceRPC, which Raft and the
\* key/value service rely on: Call executes its handler at most once, and returns
\* true only if the server, restarted or not, has the effect (processReq).
THEOREM CallsAreAtMostOnce == Spec => ImplementsRPC
<1>1. Init => RPC!Init
  <2>1. ASSUME Init PROVE RPC!Init
    <3>1. Status = [c \in Call |-> "idle"]
      BY <2>1 DEF Init, Status
    <3>2. persister[copied] = {}
      BY <2>1, LabrpcAssumption DEF Init, Instance
    <3> QED
      BY <3>1, <3>2 DEF RPC!Init
  <2> QED
    BY <2>1
<1>2. Inv /\ [Next]_vars => [RPC!Next]_(RPC!vars)
  BY StepImplements
<1>3. SafetySpec => ImplementsRPC
  BY <1>1, <1>2, Invariance, PTL DEF SafetySpec, ImplementsRPC, RPC!Spec
<1> QED
  BY <1>3, PTL DEF Spec

=============================================================================
