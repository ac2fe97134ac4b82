-------------------------- MODULE MCPortServices --------------------------
(***************************************************************************)
(* What the porting layer has of the processor, the kernel's clock and its *)
(* scheduler, for TLC: three components that do not interact, one of which *)
(* runs while the others stay as they began.                               *)
(***************************************************************************)
EXTENDS WordState, DeferredState

CONSTANTS
  Loops, Usecs, UsecPerSec, Hz, Kthreads

\* Words have bits, a call's operand fits the word, and a bit operation's
\* names a bit of it: fio_test_bit masks v with 31, to set and to clear only
\* bits of the word is the caller's duty.  The clock ticks.
ASSUME ServicesAssumption ==
  /\ Width \in Nat \ {0}
  /\ Ops \subseteq [kind : Kinds, val : Word]
  /\ \A o \in Ops :
       \/ o.kind \in {"set", "read", "add", "add_return", "exchange"}
       \/ o.val \in BitNumbers
  /\ Usecs \subseteq Nat /\ Hz \in Nat /\ UsecPerSec \in Nat \ {0}
  /\ NULL \notin Kthreads
  /\ NULL \notin {"read", "write"} /\ NULL \notin {0, 1, 35}

VARIABLES
  part,
  class, owner, sharers, cv, place, params, func, timed, ret, woken

\* Calls that between them make every kind of change to a word, from every
\* word: some that wrap, some that change nothing, some that change it back.
SomeOps ==
  [kind : {"add_return"}, val : {1, 3}]
    \cup {[kind |-> "exchange", val |-> 1], [kind |-> "test_and_set", val |-> 0],
          [kind |-> "test_and_clear", val |-> Width - 1], [kind |-> "read", val |-> 0]}

Atomic == INSTANCE AtomicWord
Later  == INSTANCE Deferred
Sync   == INSTANCE Synchronization WITH
           Threads <- Kthreads, pc <- place, answer <- woken

word_vars == <<word, pc, op, old, answer>>
deferred_vars == <<ftn, phase, callout, runs, delayed, queue, now, asked>>
sync_vars == <<class, owner, sharers, cv, place, params, func, timed, ret, woken>>

AtRest ==
  /\ word = 0
  /\ pc = [t \in Threads |-> "idle"] /\ old = [t \in Threads |-> 0]
  /\ answer = [t \in Threads |-> 0]
  /\ op = [t \in Threads |-> [kind |-> "read", val |-> 0]]

Init ==
  /\ part \in {"word", "later", "sync"}
  /\ IF part = "word" THEN Atomic!Init ELSE AtRest
  /\ Later!Init
  /\ Sync!Init /\ (part # "sync" => class = Sync!fusion_spin)

Next ==
  \/ part = "word" /\ Atomic!Next /\ UNCHANGED <<part, deferred_vars, sync_vars>>
  \/ part = "later" /\ Later!Next /\ UNCHANGED <<part, word_vars, sync_vars>>
  \/ part = "sync" /\ Sync!Next /\ UNCHANGED <<part, word_vars, deferred_vars>>

Spec == Init /\ [][Next]_<<part, word_vars, deferred_vars, sync_vars>>

\* Each component's fairness: what is not enabled asks for nothing.
FairSpec == Spec /\ Atomic!Fairness /\ Later!Fairness /\ Sync!Fairness

-----------------------------------------------------------------------------

\* The variables of the component that runs have their types.
ServiceTypes ==
  /\ part = "word"  => Atomic!TypeOK
  /\ part = "later" => Later!TypeOK
  /\ part = "sync"  => Sync!TypeOK

ImplementsMonitor == Sync!ImplementsMonitor

\* Calls do not keep each other from returning, and a timed wait returns.
CallsReturn == Atomic!SomeoneReturns /\ Sync!WaitsEnd
=============================================================================
