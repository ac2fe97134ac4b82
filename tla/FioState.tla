----------------------------- MODULE FioState -----------------------------
(***************************************************************************)
(* fio_state_t: a state, a lock and a condition variable, used by any      *)
(* number of threads through the functions of src/driver/state.c and       *)
(* src/driver/include/fio/port/state.h.  A step is the code between two    *)
(* points where another thread can see the state: the lock is taken, the   *)
(* state is read, the state is written, an arc's action has run.           *)
(*                                                                         *)
(* The operations are set (fio_set_state), move (fio_transition_state),    *)
(* up and down, in (fio_state_in_one_of), arc (fio_state_transition), wait *)
(* (fio_wait_on_state, fio_wait_on_states) and the two comparisons without *)
(* a lock: peek (fio_in_state and fio_state_in_one_of_2 to _5) and not_in  *)
(* (fio_state_not_in_one_of).                                              *)
(***************************************************************************)
EXTENDS StateOperations

CONSTANT NoThread

ASSUME ThreadAssumption == NoThread \notin Threads

VARIABLES
  state,
  lk,       \* the thread that holds s->lk
  pc, op,   \* where a thread stands, and in which operation
  old,      \* the state as its operation read it
  answer,   \* what its last operation returned; arc_num, while it runs
  effect    \* the state the actions of the arcs have caught up with

vars == <<state, lk, pc, op, old, answer, effect>>

Places == {"idle", "peek", "lock", "read", "write", "act", "asleep", "woken",
           "got"}

TypeOK ==
  /\ state \in States
  /\ lk \in Threads \cup {NoThread}
  /\ pc \in [Threads -> Places]
  /\ op \in [Threads -> Ops]
  /\ old \in [Threads -> States]
  /\ answer \in [Threads -> Answers]
  /\ effect \in States

Init ==
  /\ state \in States
  /\ lk = NoThread
  /\ pc = [t \in Threads |-> "idle"]
  /\ op \in [Threads -> Ops]
  /\ old = [t \in Threads |-> state]
  /\ answer = [t \in Threads |-> Value(0)]
  /\ effect = state

-----------------------------------------------------------------------------
Unlocked == {"peek", "not_in"}

Call(t) ==
  /\ pc[t] = "idle"
  /\ \E o \in Ops :
       /\ op' = [op EXCEPT ![t] = o]
       /\ pc' = [pc EXCEPT ![t] = IF o.kind \in Unlocked THEN "peek" ELSE "lock"]
  /\ UNCHANGED <<state, lk, old, answer, effect>>

\* Mutation: the operation goes on whether the lock is free or not.
Lock_Busy(t) ==
  /\ pc[t] = "lock"
  /\ lk' = t
  /\ pc' = [pc EXCEPT ![t] = "read"]
  /\ UNCHANGED <<state, op, old, answer, effect>>

\* fusion_cv_lock_irq(&s->lk)
Lock(t) ==
  /\ pc[t] = "lock"
  /\ lk = NoThread
  /\ lk' = t
  /\ pc' = [pc EXCEPT ![t] = "read"]
  /\ UNCHANGED <<state, op, old, answer, effect>>

\* The state is read once, whether to compare it or to replace it.
Read(t) ==
  /\ pc[t] = "read"
  /\ op[t].kind # "wait"
  /\ old' = [old EXCEPT ![t] = state]
  /\ pc' = [pc EXCEPT ![t] = "write"]
  /\ UNCHANGED <<state, lk, op, answer, effect>>

\* The function returns, and gives up the lock.
Leave(t, a) ==
  /\ answer' = [answer EXCEPT ![t] = a]
  /\ lk' = NoThread

Return(t, a) == Leave(t, Value(a))

\* Mutation: *old_state is what the transition has made of the state.
Tell_New(t, a) == Leave(t, [value |-> a, old_state |-> {state'}])

\* It returns a, and in *old_state, where that is given, what it has read.
Tell(t, a) == Leave(t, [value |-> a, old_state |-> {old[t]}])

\* Mutation: a state that goes down is nothing to wake anyone for.
Awoken_OnUp(t, v) == {u \in Threads : v > old[t] /\ pc[u] = "asleep"}

\* The broadcast of __fio_set_state_locked, sent only if the state changes.
Awoken(t, v) == {u \in Threads : v # old[t] /\ pc[u] = "asleep"}

\* __fio_set_state_locked(s, v), after which t stands at to.
SetLocked(t, v, to) ==
  /\ state' = v
  /\ pc' = [u \in Threads |-> IF u = t THEN to
                              ELSE IF u \in Awoken(t, v) THEN "woken" ELSE pc[u]]
  /\ UNCHANGED <<op, old>>

SetState(t) ==
  /\ pc[t] = "write"
  /\ op[t].kind = "set"
  /\ SetLocked(t, op[t].to, "idle")
  /\ effect' = state'
  /\ Return(t, old[t])

\* Mutation: with no old states given, any state will do, the new one too.
MayMove_Always(o, s) == o.from = {} \/ s \in o.from

MayMove(o, s) == (o.from = {} /\ s # o.to) \/ s \in o.from

TransitionState(t) ==
  /\ pc[t] = "write"
  /\ op[t].kind = "move"
  /\ IF MayMove(op[t], old[t])
       THEN SetLocked(t, op[t].to, "idle") /\ effect' = state' /\ Tell(t, 1)
       ELSE /\ pc' = [pc EXCEPT ![t] = "idle"]
            /\ UNCHANGED <<state, op, old, effect>>
            /\ Tell(t, 0)

StateUp(t) ==
  /\ pc[t] = "write"
  /\ op[t].kind = "up"
  /\ SetLocked(t, Up(old[t]), "idle")
  /\ effect' = state'
  /\ Return(t, 0)

StateDown(t) ==
  /\ pc[t] = "write"
  /\ op[t].kind = "down"
  /\ SetLocked(t, Down(old[t]), "idle")
  /\ effect' = state'
  /\ Return(t, 0)

\* fio_state_in_one_of
StateIn(t) ==
  /\ pc[t] = "write"
  /\ op[t].kind = "in"
  /\ pc' = [pc EXCEPT ![t] = "idle"]
  /\ Return(t, Flag(old[t] \in op[t].from))
  /\ UNCHANGED <<state, op, old, effect>>

\* fio_in_state, fio_state_in_one_of_2 to _5 and fio_state_not_in_one_of:
\* one read of s->state, and no lock.
Peek(t) ==
  /\ pc[t] = "peek"
  /\ LET in == state \in op[t].from
     IN answer' = [answer EXCEPT ![t] =
                     Value(Flag(IF op[t].kind = "peek" THEN in ELSE ~in))]
  /\ pc' = [pc EXCEPT ![t] = "idle"]
  /\ UNCHANGED <<state, lk, op, old, effect>>

-----------------------------------------------------------------------------
(* fio_state_transition.  The arc's action, where there is a handler, runs *)
(* under the lock, after the state was set, and also when no arc was       *)
(* found.  What it returns replaces the number of the arc.                 *)

\* Mutation: the lock is given up before the action runs.
AfterArc_Unlocked(t) == lk' = NoThread

AfterArc(t) == lk' = lk

TakeArc(t) ==
  /\ pc[t] = "write"
  /\ op[t].kind = "arc"
  /\ \E i \in Taken(op[t].arcs, old[t]) :
       /\ SetLocked(t, Target(op[t].arcs, i, old[t]), "act")
       /\ answer' = [answer EXCEPT ![t] = Value(Number(op[t].arcs, i))]
  /\ AfterArc(t)
  /\ effect' = IF op[t].handler THEN effect ELSE state'

\* Mutation: what the handler returns is dropped.
Result_Dropped(t) == {answer[t].value}

\* What fio_state_transition returns for the number of the arc.
Result(t) == IF op[t].handler THEN Handled[answer[t].value] ELSE {answer[t].value}

\* Whatever the action does for the new state is done now.
ArcAction(t) ==
  /\ pc[t] = "act"
  /\ effect' = state
  /\ pc' = [pc EXCEPT ![t] = "idle"]
  /\ \E r \in Result(t) : Return(t, r)
  /\ UNCHANGED <<state, op, old>>

-----------------------------------------------------------------------------
(* __fio_wait_on_state and __fio_wait_on_states return with the lock held; *)
(* the caller ends the wait with fio_unlock_state.                         *)

WaitReturns(t) ==
  /\ pc[t] = "read"
  /\ op[t].kind = "wait"
  /\ state \in op[t].from
  /\ pc' = [pc EXCEPT ![t] = "got"]
  /\ answer' = [answer EXCEPT ![t] = Value(0)]
  /\ UNCHANGED <<state, lk, op, old, effect>>

WaitSleeps(t) ==
  /\ pc[t] = "read"
  /\ op[t].kind = "wait"
  /\ state \notin op[t].from
  /\ pc' = [pc EXCEPT ![t] = "asleep"]
  /\ lk' = NoThread
  /\ UNCHANGED <<state, op, old, answer, effect>>

AfterWake == "read"

WaitWakes(t) ==
  /\ pc[t] = "woken"
  /\ lk = NoThread
  /\ lk' = t
  /\ pc' = [pc EXCEPT ![t] = AfterWake]
  /\ UNCHANGED <<state, op, old, answer, effect>>

UnlockState(t) ==
  /\ pc[t] = "got"
  /\ pc' = [pc EXCEPT ![t] = "idle"]
  /\ lk' = NoThread
  /\ UNCHANGED <<state, op, old, answer, effect>>

-----------------------------------------------------------------------------
Enter(t) == Lock(t) \/ WaitWakes(t)

Work(t) ==
  \/ Read(t)
  \/ SetState(t)
  \/ TransitionState(t)
  \/ StateUp(t)
  \/ StateDown(t)
  \/ StateIn(t)
  \/ Peek(t)
  \/ TakeArc(t)
  \/ ArcAction(t)
  \/ WaitReturns(t)
  \/ WaitSleeps(t)
  \/ UnlockState(t)

Next == \E t \in Threads : Call(t) \/ Enter(t) \/ Work(t)

Spec == Init /\ [][Next]_vars

\* A thread that runs gets on, and the lock is handed to whoever keeps
\* asking for it.  Nothing makes a thread call.
Fairness == \A t \in Threads : WF_vars(Work(t)) /\ SF_vars(Enter(t))

FairSpec == Spec /\ Fairness

-----------------------------------------------------------------------------
(* Properties.                                                             *)

\* The lock is held by the one thread that is between lock and unlock: in an
\* operation, in an arc's action, or back from a wait.
LockDiscipline ==
  \A t \in Threads : lk = t <=> pc[t] \in {"read", "write", "act", "got"}

\* What an operation read is still the state when it writes: no update of
\* another thread, set, move, up, down or arc, is lost between the two.
NoUpdateIsLost == \A t \in Threads : pc[t] = "write" => old[t] = state

\* No thread sleeps through its state: one is asleep only while the state is
\* not the one it waits for.
NoneOversleeps ==
  \A t \in Threads : pc[t] = "asleep" => state \notin op[t].from

\* From the return of a wait to fio_unlock_state the state is one that was
\* waited for, whatever other threads call meanwhile.
StateIsPinned == \A t \in Threads : pc[t] = "got" => state \in op[t].from

\* t compares in this step, in a function of one of these kinds.
Compares(t, kinds) ==
  /\ op[t].kind \in kinds
  /\ pc[t] \in {"peek", "write"}
  /\ pc'[t] = "idle"

\* "lock around so all flags are synchronized": a comparison under the lock
\* never sees a state whose arc's action is still to run.
LockedComparesInStep ==
  [][\A t \in Threads : Compares(t, {"in"}) => effect = state]_vars

\* The comments at fio_in_state and fio_state_not_in_one_of promise of them
\* what fio_state_in_one_of does: lock, compare, unlock.
ComparesInStep ==
  [][\A t \in Threads : Compares(t, {"peek", "not_in"}) => effect = state]_vars

Waiting(t) ==
  /\ op[t].kind = "wait"
  /\ pc[t] \in {"lock", "read", "asleep", "woken"}

\* A thread that waits for a state that has come to stay does not wait on.
WaitEnds == \A t \in Threads : []<>~(Waiting(t) /\ state \in op[t].from)

-----------------------------------------------------------------------------
(* Every operation acts on the state at once.                              *)

Phase(t) == IF pc[t] = "idle" THEN "idle"
            ELSE IF pc[t] \in {"act", "got"} THEN "holding" ELSE "called"

Cell == INSTANCE StateCell WITH phase <- [t \in Threads |-> Phase(t)]

ImplementsCell == Cell!Spec

\* What a thread's place says of its operation.
PlaceState ==
  \A t \in Threads :
    /\ pc[t] = "peek" => op[t].kind \in Unlocked
    /\ pc[t] \in {"lock", "read", "write"} => op[t].kind \notin Unlocked
    /\ pc[t] = "write" => op[t].kind # "wait"
    /\ pc[t] = "act" => /\ op[t].kind = "arc"
                        /\ answer[t] \in {Value(n) : n \in Numbers}
    /\ pc[t] \in {"asleep", "woken", "got"} => op[t].kind = "wait"

\* Only the arc whose action is running has got ahead of the actions.
EffectState ==
  effect # state => \E t \in Threads : pc[t] = "act" /\ op[t].handler

IInv ==
  /\ TypeOK
  /\ LockDiscipline
  /\ NoUpdateIsLost
  /\ NoneOversleeps
  /\ StateIsPinned
  /\ PlaceState
  /\ EffectState
=============================================================================
