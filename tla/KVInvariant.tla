---------------------------- MODULE KVInvariant ----------------------------
(***************************************************************************)
(* The inductive invariant behind the theorems of KVRaftProofs.            *)
(***************************************************************************)
EXTENDS KVRaft

-----------------------------------------------------------------------------
(* Types *)

Id == 0 .. MaxCalls - 1
Value == Seq(Clerk \X Id)
Entry == [ClerkId : Clerk, CommandId : Id, IsDup : BOOLEAN, CommandValue : Value]
Goroutine == [op : Op, n : Nat, i : Server, pc : {"start", "call", "wait", "lost", "returned", "finish"},
              index : 0 .. MaxIndex, answer : Value]

\* What TypeOK says, and the types of the fields it leaves out.
Types ==
  /\ pending \subseteq (1 .. MaxIndex) \X Op /\ chosen \in Seq(Op)
  /\ kv \in [Server -> [Key -> Value]] /\ log \in [Server -> Seq(Entry)]
  /\ lastApplied \in [Server -> Nat] /\ clerkLatestCmd \in [Server -> [Clerk -> -1 .. MaxCalls - 1]]
  /\ \A s \in Server : lastApplied[s] = Len(log[s]) /\ lastApplied[s] <= Len(chosen)
  /\ comandId \in [Clerk -> 0 .. MaxCalls] /\ preLeaderId \in [Clerk -> Server]
  /\ call \in [Clerk -> Op \cup {NoOp}] /\ done \in [Clerk -> BOOLEAN]
  /\ value \in [Clerk -> Value] /\ j \in [Clerk -> Server] /\ tries \in [Clerk -> 0 .. MaxTries]
  /\ calls \subseteq Goroutine /\ late \subseteq Server \X Op
  /\ result \in [Clerk -> Value] /\ restarts \in 0 .. MaxRestarts

-----------------------------------------------------------------------------
(* Requests *)

\* Every request there still is a trace of.
Requests ==
  {g.op : g \in calls} \cup {m[2] : m \in late} \cup {e[2] : e \in pending}
    \cup {chosen[n] : n \in 1 .. Len(chosen)}

\* A request is an old one of its clerk or that of the call that is running;
\* the two numbers it carries tell which.
RequestsOK ==
  /\ \A c \in Clerk : call[c] # NoOp => call[c].ClerkId = c /\ call[c].CommandId = comandId[c]
  /\ \A o \in Requests : o.CommandId < comandId[o.ClerkId] \/ o = call[o.ClerkId]
  /\ \A a, b \in Requests : SameRequest(a, b) => a = b

\* Request i of clerk c is among the first n of l.
Present(l, n, c, i) == \E m \in 1 .. n : l[m].ClerkId = c /\ l[m].CommandId = i

\* A clerk goes on to its next request when the one before has been delivered,
\* so its requests stand in the sequence in the order of their numbers.
Ordered(l) ==
  \A n \in 1 .. Len(l) : \A i \in 0 .. l[n].CommandId - 1 : Present(l, n - 1, l[n].ClerkId, i)
OrderOK ==
  /\ \A c \in Clerk : \A i \in 0 .. comandId[c] - 1 : Present(chosen, Len(chosen), c, i)
  /\ Ordered(chosen)

-----------------------------------------------------------------------------
(* Servers *)

\* latest is the highest number of clerk c among the first n of l.
IsLatest(l, n, c, latest) ==
  /\ \A m \in 1 .. n : l[m].ClerkId = c => l[m].CommandId <= latest
  /\ latest = -1 \/ Present(l, n, c, latest)

\* What checkApply logs for entry n of l.
EntryOf(l, n) ==
  LET o == l[n] IN
  [ClerkId |-> o.ClerkId, CommandId |-> o.CommandId, IsDup |-> ~First(l, n),
   CommandValue |-> IF o.CommandType = "Get" /\ First(l, n) THEN Content(l, o.CommandKey)[n - 1]
                    ELSE o.CommandValue]

\* What a server holds that has applied the first m of l.
Applied(l, m, store, latest, entries) ==
  /\ \A k \in Key : store[k] = Content(l, k)[m]
  /\ \A c \in Clerk : IsLatest(l, m, c, latest[c])
  /\ \A n \in 1 .. m : entries[n] = EntryOf(l, n)

ServerOK(s) == Applied(chosen, lastApplied[s], kv[s], clerkLatestCmd[s], log[s])

-----------------------------------------------------------------------------
(* Answers *)

\* v is what request o found where it took effect.
Answered(l, o, v) ==
  \E n \in 1 .. Len(l) :
    /\ l[n] = o /\ First(l, n)
    /\ v = IF o.CommandType = "Get" THEN Content(l, o.CommandKey)[n - 1] ELSE <<>>

\* What goroutine g brings back is the answer to its request.
Answering(l, g) ==
  /\ g.pc \in {"returned", "finish"} => Answered(l, g.op, g.answer)
  /\ g.pc = "wait" => g.index > 0

AnswersOK ==
  /\ \A g \in calls : Answering(chosen, g)
  /\ \A c \in Clerk : call[c] # NoOp /\ done[c] => Answered(chosen, call[c], value[c])

KVInv == Types /\ RequestsOK /\ OrderOK /\ (\A s \in Server : ServerOK(s)) /\ AnswersOK

=============================================================================
