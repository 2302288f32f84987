------------------------------ MODULE AtomicKV ------------------------------
(***************************************************************************)
(* What the key/value service promises to its clerks (linearizability, the *)
(* check of the kvraft tests): each call takes effect once, at one moment  *)
(* between its start and its return, and a Get returns what the key held   *)
(* at that moment.  A value is the sequence of the strings it was built of.*)
(***************************************************************************)
EXTENDS Sequences

CONSTANTS Clerk, Key, Op, NoOp

VARIABLES
  store,    \* the value of each key
  call,     \* the call of each clerk, NoOp between calls
  effect,   \* <<>> before the call takes effect, then <<the answer>>
  result    \* what the last call of each clerk returned

vars == <<store, call, effect, result>>

Init ==
  /\ store = [k \in Key |-> <<>>]
  /\ call = [c \in Clerk |-> NoOp]
  /\ effect = [c \in Clerk |-> <<>>]
  /\ result = [c \in Clerk |-> <<>>]

Invoke(c) ==
  /\ call[c] = NoOp
  /\ \E o \in Op : o.ClerkId = c /\ call' = [call EXCEPT ![c] = o]
  /\ UNCHANGED <<store, effect, result>>

TakeEffect(c) ==
  /\ call[c] # NoOp /\ effect[c] = <<>>
  /\ LET o == call[c] IN
       /\ store' = [store EXCEPT ![o.CommandKey] =
            CASE o.CommandType = "Get" -> @
              [] o.CommandType = "Put" -> o.CommandValue
              [] o.CommandType = "Append" -> @ \o o.CommandValue]
       /\ effect' = [effect EXCEPT ![c] =
            <<IF o.CommandType = "Get" THEN store[o.CommandKey] ELSE <<>> >>]
  /\ UNCHANGED <<call, result>>

Return(c) ==
  /\ effect[c] # <<>>
  /\ result' = [result EXCEPT ![c] = effect[c][1]]
  /\ call' = [call EXCEPT ![c] = NoOp]
  /\ effect' = [effect EXCEPT ![c] = <<>>]
  /\ UNCHANGED store

Next == \E c \in Clerk : Invoke(c) \/ TakeEffect(c) \/ Return(c)

Spec == Init /\ [][Next]_vars

=============================================================================
