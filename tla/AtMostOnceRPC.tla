---------------------------- MODULE AtMostOnceRPC ----------------------------
(***************************************************************************)
(* What labrpc promises to Raft and to the key/value service: a call is    *)
(* executed at most once; Call returns true only if it was executed and    *)
(* the server, restarted or not, still has its effect; after Call returned *)
(* false the request may have been executed, or may be later.              *)
(***************************************************************************)
CONSTANT Call

VARIABLES
  status,   \* of a call: "idle", "called", "true", "false"
  effects   \* the calls whose effect the server has

vars == <<status, effects>>

Init ==
  /\ status = [c \in Call |-> "idle"]
  /\ effects = {}

Begin(c) ==
  /\ status[c] = "idle"
  /\ status' = [status EXCEPT ![c] = "called"]
  /\ UNCHANGED effects

Execute(c) ==
  /\ status[c] \in {"called", "false"} /\ c \notin effects
  /\ effects' = effects \cup {c}
  /\ UNCHANGED status

Return(c) ==
  /\ status[c] = "called"
  /\ \/ status' = [status EXCEPT ![c] = "false"]
     \/ c \in effects /\ status' = [status EXCEPT ![c] = "true"]
  /\ UNCHANGED effects

Next == \E c \in Call : Begin(c) \/ Execute(c) \/ Return(c)

Spec == Init /\ [][Next]_vars

=============================================================================
