------------------------------- MODULE Labrpc -------------------------------
(***************************************************************************)
(* The simulated network (labrpc/labrpc.go) with one server behind it, as  *)
(* the testers use it (raft/config.go, crash1 and start1): a crash deletes *)
(* the server from the network and copies its Persister, a start adds a    *)
(* new instance with the copy.  What a handler does is to save the effect  *)
(* of its call in the Persister of its own instance.                       *)
(*                                                                         *)
(* A definition whose name ends in _Bug is the one after it with a mistake *)
(* in it, used only to show which mistake a property rules out.            *)
(***************************************************************************)
EXTENDS Integers, FiniteSets

CONSTANTS
  Call,
  End,            \* the ClientEnds connected to the server
  MaxInstances    \* bound: how often the server is started

ASSUME LabrpcAssumption == MaxInstances \in Nat \ {0}

Instance == 1 .. MaxInstances
None == 0

VARIABLES
  enabled,                       \* by end
  reliable, longReordering,      \* flags of the network
  done,         \* closed: the network was cleaned up
  loop,         \* the goroutine that takes the requests is running
  server,       \* the instance in rn.servers, or None
  persister,    \* by instance: the calls whose effects it has saved
  copied,       \* the newest Persister
  fresh,        \* it has been copied since the server was deleted
  pc, end, target, dropping, reordering,
                \* of a call: where Call and processReq are, its end, and what
                \* readEndnameInfo returned
  handler       \* of a call: "none", "ready", "done"

network == <<enabled, reliable, longReordering, done, loop, server, persister, copied, fresh>>
request == <<end, target, dropping, reordering>>
vars == <<network, pc, request, handler>>

\* MakeNetwork, and the first start of the server.
Init ==
  /\ enabled = [e \in End |-> TRUE]
  /\ reliable = TRUE /\ longReordering = FALSE /\ done = FALSE /\ loop = TRUE
  /\ server = 1 /\ copied = 1 /\ fresh = FALSE
  /\ persister = [n \in Instance |-> {}]
  /\ pc = [c \in Call |-> "idle"]
  /\ end \in [Call -> End]
  /\ target = [c \in Call |-> None]
  /\ dropping = [c \in Call |-> FALSE]
  /\ reordering = [c \in Call |-> FALSE]
  /\ handler = [c \in Call |-> "none"]

-----------------------------------------------------------------------------
(* The tester *)

Enable(e, on) ==
  /\ enabled[e] # on
  /\ enabled' = [enabled EXCEPT ![e] = on]
  /\ UNCHANGED <<reliable, longReordering, done, loop, server, persister, copied, fresh, pc, request, handler>>

Reliable(yes) ==
  /\ reliable # yes
  /\ reliable' = yes
  /\ UNCHANGED <<enabled, longReordering, done, loop, server, persister, copied, fresh, pc, request, handler>>

LongReordering(yes) ==
  /\ longReordering # yes
  /\ longReordering' = yes
  /\ UNCHANGED <<enabled, reliable, done, loop, server, persister, copied, fresh, pc, request, handler>>

\* crash1: DeleteServer comes first, then the Persister is superseded.
DeleteServer ==
  /\ server # None
  /\ server' = None
  /\ UNCHANGED <<enabled, reliable, longReordering, done, loop, persister, copied, fresh, pc, request, handler>>

CopyPersister ==
  /\ server = None /\ copied < MaxInstances
  /\ copied' = copied + 1 /\ fresh' = TRUE
  /\ persister' = [persister EXCEPT ![copied + 1] = persister[copied]]
  /\ UNCHANGED <<enabled, reliable, longReordering, done, loop, server, pc, request, handler>>

\* start1: AddServer, with an instance that reads the copy.
AddServer ==
  /\ server = None /\ fresh
  /\ server' = copied /\ fresh' = FALSE
  /\ UNCHANGED <<enabled, reliable, longReordering, done, loop, persister, copied, pc, request, handler>>

\* The test is over; calls may still be made.
Cleanup ==
  /\ ~done
  /\ done' = TRUE
  /\ UNCHANGED <<enabled, reliable, longReordering, loop, server, persister, copied, fresh, pc, request, handler>>

-----------------------------------------------------------------------------
(* Call and processReq *)

Goto(c, place) == pc' = [pc EXCEPT ![c] = place]

\* Call is at its select.
Begin(c) ==
  /\ pc[c] = "idle"
  /\ Goto(c, "calling")
  /\ UNCHANGED <<network, request, handler>>

\* The loop of MakeNetwork takes a request and starts processReq, or ends.
Take ==
  \/ /\ loop /\ \E c \in Call : pc[c] = "calling" /\ Goto(c, "sent")
     /\ UNCHANGED <<network, request, handler>>
  \/ /\ loop /\ done /\ loop' = FALSE
     /\ UNCHANGED <<enabled, reliable, longReordering, done, server, persister, copied, fresh, pc, request, handler>>

\* The other case of the select; or there is none.
Destroyed_Bug(c) == FALSE
Destroyed(c) == pc[c] = "calling" /\ done
Abort(c) ==
  /\ Destroyed(c)
  /\ Goto(c, "false")
  /\ UNCHANGED <<network, request, handler>>

\* processReq reads the state of the network.
readEndnameInfo(c) ==
  /\ pc[c] = "sent"
  /\ IF enabled[end[c]] /\ server # None
       THEN /\ Goto(c, "delivering")
            /\ target' = [target EXCEPT ![c] = server]
            /\ dropping' = [dropping EXCEPT ![c] = ~reliable]
            /\ reordering' = [reordering EXCEPT ![c] = longReordering]
       ELSE Goto(c, "failed") /\ UNCHANGED <<target, dropping, reordering>>
  /\ UNCHANGED <<network, end, handler>>

DropRequest(c) ==
  /\ pc[c] = "delivering" /\ dropping[c]
  /\ Goto(c, "failed")
  /\ UNCHANGED <<network, request, handler>>

\* The goroutine that runs the handler is started.
Dispatch(c) ==
  /\ pc[c] = "delivering"
  /\ Goto(c, "waiting")
  /\ handler' = [handler EXCEPT ![c] = "ready"]
  /\ UNCHANGED <<network, request>>

\* The handler runs, on an instance that may have been killed.
Handle(c) ==
  /\ handler[c] = "ready"
  /\ persister' = [persister EXCEPT ![target[c]] = @ \cup {c}]
  /\ handler' = [handler EXCEPT ![c] = "done"]
  /\ UNCHANGED <<enabled, reliable, longReordering, done, loop, server, copied, fresh, pc, request>>

\* Its connection is cut or its server is not the one in the network any more;
\* only the connection is looked at.
isServerDead_Bug(c) == ~enabled[end[c]]
isServerDead(c) == ~enabled[end[c]] \/ server # target[c]

\* The answer comes.
ReceiveAnswer(c) ==
  /\ pc[c] = "waiting" /\ handler[c] = "done"
  /\ Goto(c, "answered")
  /\ UNCHANGED <<network, request, handler>>

\* Every 100 ms: stop waiting for a server that is dead.  The handler goes on,
\* and its answer is drained.
StopWaiting(c) ==
  /\ pc[c] = "waiting" /\ isServerDead(c)
  /\ Goto(c, "failed")
  /\ UNCHANGED <<network, request, handler>>

\* After the wait: no answer from a server that has died since; look once more,
\* or do not.
Reports_Bug(c) == TRUE
Reports(c) == ~isServerDead(c)
Check(c) ==
  /\ pc[c] = "answered"
  /\ \/ ~Reports(c) /\ Goto(c, "failed")
     \/ Reports(c) /\ dropping[c] /\ Goto(c, "failed")
     \/ Reports(c) /\ reordering[c] /\ Goto(c, "delayed")
     \/ Reports(c) /\ Goto(c, "true")
  /\ UNCHANGED <<network, request, handler>>

\* time.AfterFunc of longReordering.
DelayedAnswer(c) ==
  /\ pc[c] = "delayed"
  /\ Goto(c, "true")
  /\ UNCHANGED <<network, request, handler>>

\* replyMsg{false, nil}, at once or after a while.
Fail(c) ==
  /\ pc[c] = "failed"
  /\ Goto(c, "false")
  /\ UNCHANGED <<network, request, handler>>

Process(c) ==
  \/ readEndnameInfo(c) \/ DropRequest(c) \/ Dispatch(c) \/ ReceiveAnswer(c)
  \/ StopWaiting(c) \/ Check(c) \/ DelayedAnswer(c) \/ Fail(c) \/ Abort(c)

Next ==
  \/ \E e \in End, on \in BOOLEAN : Enable(e, on)
  \/ \E yes \in BOOLEAN : Reliable(yes) \/ LongReordering(yes)
  \/ DeleteServer \/ CopyPersister \/ AddServer \/ Cleanup \/ Take
  \/ \E c \in Call : Begin(c) \/ Process(c) \/ Handle(c)

SafetySpec == Init /\ [][Next]_vars

\* The goroutines of the network go on, and a handler of a server that has not
\* been killed ends; one of a killed server may hang.
Spec ==
  /\ SafetySpec /\ WF_vars(Take)
  /\ \A c \in Call : WF_vars(Process(c)) /\ WF_vars(server = target[c] /\ Handle(c))

-----------------------------------------------------------------------------
(* Properties *)

\* What the callers and the server see of a call.
Status == [c \in Call |-> IF pc[c] \in {"idle", "true", "false"} THEN pc[c] ELSE "called"]
RPC == INSTANCE AtMostOnceRPC WITH status <- Status, effects <- persister[copied]

\* labrpc is an at-most-once RPC: in particular no Call returns true for an
\* effect that went to the old Persister after it had been superseded (the
\* comment in processReq, lines 262-267).
ImplementsRPC == RPC!Spec

\* A call does return, even when its handler hangs because the server was killed
\* or its connection was cut and stays so, and when it is made while the network is
\* being cleaned up and nobody takes its request any more.
CallEnds == \A c \in Call : pc[c] = "calling" ~> pc[c] \in {"true", "false"}

=============================================================================
