---------------------------- MODULE AtomicWord ----------------------------
(***************************************************************************)
(* The atomic integers and bit operations of fio/port/arch/ as they are    *)
(* built: by one locked instruction or compiler builtin (x86, PowerPC),    *)
(* by a plain load or store, or, where the processor has none              *)
(* (ia64), by a loop that loads the word, computes, and stores the result  *)
(* if the word is still what was loaded.  Which way a call is built        *)
(* depends on processor and compiler.  bitops.h takes the x86 headers for  *)
(* FreeBSD, whose calls are all AtOnce; the loops are those of the other   *)
(* builds of the porting layer, where a call may go either way.            *)
(***************************************************************************)
EXTENDS WordState

CONSTANT Loops  \* the kinds of call some build makes a loop

word_vars == <<word, pc, op, old, answer>>

Init ==
  /\ word = 0
  /\ pc = [t \in Threads |-> "idle"]
  /\ op \in [Threads -> Ops]
  /\ old = [t \in Threads |-> 0]
  /\ answer = [t \in Threads |-> 0]

Call(t) ==
  /\ pc[t] = "idle"
  /\ pc' = [pc EXCEPT ![t] = "called"]
  /\ \E o \in Ops : op' = [op EXCEPT ![t] = o]
  /\ UNCHANGED <<word, old, answer>>

\* t finds the word to be w and makes of it what its call says.
ActOn(t, w) ==
  /\ word' = NewValue(op[t], w)
  /\ answer' = [answer EXCEPT ![t] = Answer(op[t], w)]
  /\ pc' = [pc EXCEPT ![t] = "idle"]
  /\ UNCHANGED <<op, old>>

\* One instruction.
AtOnce(t) ==
  /\ pc[t] = "called"
  /\ ActOn(t, word)

\* The loop: old = *p.
Load(t) ==
  /\ pc[t] = "called"
  /\ op[t].kind \in Loops
  /\ old' = [old EXCEPT ![t] = word]
  /\ pc' = [pc EXCEPT ![t] = "swap"]
  /\ UNCHANGED <<word, op, answer>>

\* Mutation: the store does not look at the word.
StillOld_Always(t) == TRUE

\* Mutation: the old and the new value are passed to cmpxchg the wrong way round.
StillOld_Swapped(t) == word = NewValue(op[t], old[t])

\* What cmpxchg returns is old.
StillOld(t) == word = old[t]

Swap(t) ==
  /\ pc[t] = "swap"
  /\ StillOld(t)
  /\ ActOn(t, old[t])

SwapFails(t) ==
  /\ pc[t] = "swap"
  /\ ~StillOld(t)
  /\ pc' = [pc EXCEPT ![t] = "called"]
  /\ UNCHANGED <<word, op, old, answer>>

Work(t) == AtOnce(t) \/ Load(t) \/ Swap(t) \/ SwapFails(t)

Next == \E t \in Threads : Call(t) \/ Work(t)

Spec == Init /\ [][Next]_word_vars

\* A running thread gets on.
Fairness == \A t \in Threads : WF_word_vars(Work(t))

-----------------------------------------------------------------------------
(* Properties.                                                             *)

TypeOK ==
  /\ word \in Word
  /\ pc \in [Threads -> {"idle", "called", "swap"}]
  /\ op \in [Threads -> Ops]
  /\ old \in [Threads -> Word]
  /\ answer \in [Threads -> Word]

\* A loop goes round again only because another call got through, so threads
\* that all run the loops do not keep each other from ever returning.
SomeoneReturns == []<>(\E t \in Threads : pc[t] = "idle")
=============================================================================
