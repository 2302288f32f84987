---------------------------- MODULE ReplicatedLog ----------------------------
(***************************************************************************)
(* What Raft promises to the service above it (comments of raft.go, lines  *)
(* 14-17 and 38-48, and the checks of config.go, start1): the applyCh of   *)
(* every server delivers a prefix of one growing sequence of commands, in  *)
(* order and without gaps; a server that restarts starts over.             *)
(***************************************************************************)
EXTENDS Integers, Sequences

CONSTANTS Server, Command

VARIABLES
  chosen,     \* the commands that have been delivered somewhere, in order
  delivered   \* what the applyCh of each server has delivered since it started

vars == <<chosen, delivered>>

Extends(l, k) == Len(k) <= Len(l) /\ SubSeq(l, 1, Len(k)) = k

Init ==
  /\ chosen = <<>>
  /\ delivered = [s \in Server |-> <<>>]

\* New commands reach the service of s, which may be the first to see them.
Deliver(s) ==
  /\ Extends(delivered'[s], delivered[s]) /\ delivered'[s] # delivered[s]
  /\ delivered' = [delivered EXCEPT ![s] = delivered'[s]]
  /\ IF Len(delivered'[s]) > Len(chosen)
       THEN /\ Extends(delivered'[s], chosen)
            /\ chosen' = delivered'[s]
       ELSE /\ Extends(chosen, delivered'[s])
            /\ chosen' = chosen

Restart(s) ==
  /\ delivered' = [delivered EXCEPT ![s] = <<>>]
  /\ chosen' = chosen

Next == delivered' # delivered /\ \E s \in Server : Deliver(s) \/ Restart(s)

Spec == Init /\ [][Next]_vars

=============================================================================
