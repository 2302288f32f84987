---------------------------- MODULE MCMapReduce ----------------------------
(* Instances of MapReduce for TLC. *)
EXTENDS MapReduce

\* Three keys, in two partitions.
MCPartition == [k \in 1 .. 3 |-> IF k = 2 THEN 1 ELSE 0]

\* Two files that share a key; or one key in each.
Shared == [i \in 0 .. 1 |-> IF i = 0 THEN {1, 2} ELSE {1, 3}]
Single == [i \in 0 .. 1 |-> {i + 1}]

CONSTANTS w1, w2, w3

\* All three workers, which crash in mapf at most; two that crash anywhere and may
\* be slow; and two that crash where mrapps/crash.go makes them.
CalmEnv == [workers |-> {w1, w2, w3}, emits |-> Shared, slow |-> FALSE, crashIn |-> {"mapf"}, crashes |-> 2]
FaultyEnv == [workers |-> {w1, w2}, emits |-> Single, slow |-> TRUE, crashIn |-> Working, crashes |-> 1]
CrashEnv == [workers |-> {w1, w2}, emits |-> Shared, slow |-> FALSE, crashIn |-> {"mapf", "reducef"}, crashes |-> 1]

MCEnv == {CalmEnv, FaultyEnv}
MCCrashEnv == {CrashEnv}

=============================================================================
