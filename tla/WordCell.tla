----------------------------- MODULE WordCell -----------------------------
(* The promise of the atomic calls of fio/port/arch/: between its call and *)
(* its return each acts on the word once, at once.                         *)
EXTENDS WordOperations

CONSTANTS Threads, Ops

VARIABLES word, busy, op, answer

vars == <<word, busy, op, answer>>

Init ==
  /\ word = 0
  /\ busy = [t \in Threads |-> FALSE]
  /\ op \in [Threads -> Ops]
  /\ answer = [t \in Threads |-> 0]

Call(t) ==
  /\ ~busy[t]
  /\ busy' = [busy EXCEPT ![t] = TRUE]
  /\ \E o \in Ops : op' = [op EXCEPT ![t] = o]
  /\ UNCHANGED <<word, answer>>

Act(t) ==
  /\ busy[t]
  /\ word' = NewValue(op[t], word)
  /\ answer' = [answer EXCEPT ![t] = Answer(op[t], word)]
  /\ busy' = [busy EXCEPT ![t] = FALSE]
  /\ op' = op

Next == \E t \in Threads : Call(t) \/ Act(t)

Spec == Init /\ [][Next]_vars
=============================================================================
