--------------------------- MODULE TakeAllStack ---------------------------
(* What fio/port/atomic_list.h promises: a stack that any thread adds to   *)
(* and takes all of, at once, without a lock.  Who has taken it meets each *)
(* entry once, last added first, and may add it again as soon as it has.   *)
EXTENDS Sequences, Functions

CONSTANTS Threads, Entries

VARIABLES
  stack,      \* what was added and not taken, last first
  batch,      \* what a thread took and has yet to meet
  mine        \* the entries a thread has met and may add

vars == <<stack, batch, mine>>

Init ==
  /\ stack = <<>>
  /\ batch = [t \in Threads |-> <<>>]
  /\ \E owner \in [Entries -> Threads] :
       mine = [t \in Threads |-> {e \in Entries : owner[e] = t}]

\* The entry is out of t's hands when its call begins, and on the stack
\* before it ends.
Give(t) ==
  /\ \E e \in mine[t] : mine' = [mine EXCEPT ![t] = @ \ {e}]
  /\ UNCHANGED <<stack, batch>>

Held == (UNION {mine[t] : t \in Threads}) \cup Range(stack) \cup
        (UNION {Range(batch[t]) : t \in Threads})

Add ==
  /\ \E e \in Entries \ Held : stack' = <<e>> \o stack
  /\ UNCHANGED <<batch, mine>>

TakeAll(t) ==
  /\ batch[t] = <<>>
  /\ batch' = [batch EXCEPT ![t] = stack]
  /\ stack' = <<>>
  /\ mine' = mine

Meet(t) ==
  /\ batch[t] # <<>>
  /\ mine' = [mine EXCEPT ![t] = @ \cup {Head(batch[t])}]
  /\ batch' = [batch EXCEPT ![t] = Tail(@)]
  /\ stack' = stack

Next == Add \/ \E t \in Threads : Give(t) \/ TakeAll(t) \/ Meet(t)

Spec == Init /\ [][Next]_vars
=============================================================================
