----------------------------- MODULE Deferred -----------------------------
(***************************************************************************)
(* Timers (ktime.c) and deferred work (sched.c).  A timer is a callout; an *)
(* owner sets its function up, sets it, and deletes it, and the function   *)
(* may set it again.  Work is a task of the kernel's one queue thread,     *)
(* with a delay by way of a timeout whose handle is dropped, so that       *)
(* nothing takes it back.                                                  *)
(*                                                                         *)
(* Callouts, timeouts and the task queue are external: a callout that is   *)
(* being drained is not set again, a delay below one tick is one tick, a   *)
(* task that waits in the queue is not put there twice, and one that runs  *)
(* may be put there.                                                       *)
(***************************************************************************)
EXTENDS DeferredState, FiniteSets, Sequences, SequencesExt

CONSTANTS
  Usecs,        \* delays callers ask for
  UsecPerSec, Hz

timer_vars == <<ftn, phase, callout, runs>>
work_vars == <<delayed, queue, now, asked>>
deferred_vars == <<timer_vars, work_vars>>

\* fusion_init_timer; fusion_setup_dpc and fusion_setup_delayed_dpc.
Init ==
  /\ ftn = [c \in Timers |-> NULL]
  /\ phase = [c \in Timers |-> "new"]
  /\ callout = [c \in Timers |-> Off]
  /\ runs = [c \in Timers |-> NULL]
  /\ delayed = {}
  /\ queue = <<>>
  /\ now = NULL
  /\ asked = [w \in Works |-> FALSE]

fusion_usectohz(usec) == (usec * Hz) \div UsecPerSec

AtLeastOne(t) == IF t = 0 THEN 1 ELSE t
Delays == {AtLeastOne(fusion_usectohz(u)) : u \in Usecs}

-----------------------------------------------------------------------------
(* Timers.                                                                 *)

SetFunction(c, f) ==
  /\ phase[c] \in {"new", "set up", "deleted"}
  /\ ftn' = [ftn EXCEPT ![c] = f]
  /\ phase' = [phase EXCEPT ![c] = "set up"]
  /\ UNCHANGED <<callout, runs, work_vars>>

\* The owner's fusion_set_relative_timer.  callout_reset takes the ticks as an
\* int: a time is one that an int holds.
Set(c, t) ==
  /\ phase[c] \in {"set up", "in use", "deleted"} /\ ftn[c] # NULL
  /\ phase' = [phase EXCEPT ![c] = "in use"]
  /\ callout' = [callout EXCEPT ![c] = [left |-> t, f |-> ftn[c]]]
  /\ UNCHANGED <<ftn, runs, work_vars>>

\* That of the function, which sees the timer as it is.
SetAgain(c, t) ==
  /\ runs[c] # NULL
  /\ phase[c] # "draining"
  /\ callout' = [callout EXCEPT ![c] = [left |-> t, f |-> ftn[c]]]
  /\ UNCHANGED <<ftn, phase, runs, work_vars>>

Fire(c) ==
  /\ callout[c].f # NULL /\ callout[c].left = 0
  /\ runs[c] = NULL
  /\ runs' = [runs EXCEPT ![c] = callout[c].f]
  /\ callout' = [callout EXCEPT ![c] = Off]
  /\ UNCHANGED <<ftn, phase, work_vars>>

FunctionEnds(c) ==
  /\ runs[c] # NULL
  /\ runs' = [runs EXCEPT ![c] = NULL]
  /\ UNCHANGED <<ftn, phase, callout, work_vars>>

\* fusion_del_timer, up to where it waits for the function.
Delete(c) ==
  /\ phase[c] \in {"new", "set up", "in use"}
  /\ phase' = [phase EXCEPT ![c] = "draining"]
  /\ callout' = [callout EXCEPT ![c] = Off]
  /\ UNCHANGED <<ftn, runs, work_vars>>

\* Mutation: callout_stop for callout_drain.
Drained_Stopped(c) == TRUE

Drained(c) == runs[c] = NULL

DeleteReturns(c) ==
  /\ phase[c] = "draining"
  /\ Drained(c)
  /\ phase' = [phase EXCEPT ![c] = "deleted"]
  /\ UNCHANGED <<ftn, callout, runs, work_vars>>

-----------------------------------------------------------------------------
(* Work.                                                                   *)

\* Mutation: work whose function runs is not scheduled again.
Enqueued_IfIdle(w) == IF Contains(queue, w) \/ now = w THEN queue ELSE Append(queue, w)

\* taskqueue_enqueue.
Enqueued(w) == IF Contains(queue, w) THEN queue ELSE Append(queue, w)

\* fusion_schedule_work and fusion_schedule_dpc.
Schedule(w) ==
  /\ queue' = Enqueued(w)
  /\ asked' = [asked EXCEPT ![w] = TRUE]
  /\ UNCHANGED <<delayed, now, timer_vars>>

\* One timeout of each work at a time is enough to meet every other call.
ScheduleDelayed(w, t) ==
  /\ \A d \in delayed : d.w # w
  /\ delayed' = delayed \cup {[w |-> w, left |-> t]}
  /\ asked' = [asked EXCEPT ![w] = TRUE]
  /\ UNCHANGED <<queue, now, timer_vars>>

\* The timeout calls fusion_schedule_work.
Timeout(d) ==
  /\ d \in delayed /\ d.left = 0
  /\ delayed' = delayed \ {d}
  /\ queue' = Enqueued(d.w)
  /\ UNCHANGED <<now, asked, timer_vars>>

\* fusion_task_function: the queue thread calls func of the first task.
Begin ==
  /\ now = NULL /\ queue # <<>>
  /\ now' = Head(queue)
  /\ queue' = Tail(queue)
  /\ asked' = [asked EXCEPT ![now'] = \E d \in delayed : d.w = now']
  /\ UNCHANGED <<delayed, timer_vars>>

End ==
  /\ now # NULL
  /\ now' = NULL
  /\ UNCHANGED <<delayed, queue, asked, timer_vars>>

-----------------------------------------------------------------------------

\* A tick of the clock; what is due is fired before the next.
Tick ==
  LET set == {c \in Timers : callout[c].f # NULL}
  IN  /\ \A c \in set : callout[c].left > 0
      /\ \A d \in delayed : d.left > 0
      /\ set # {} \/ delayed # {}
      /\ callout' = [c \in Timers |-> IF c \in set THEN [callout[c] EXCEPT !.left = @ - 1]
                                      ELSE callout[c]]
      /\ delayed' = {[d EXCEPT !.left = @ - 1] : d \in delayed}
      /\ UNCHANGED <<ftn, phase, runs, queue, now, asked>>

Owner ==
  \/ \E c \in Timers :
       \/ \E f \in Functions : SetFunction(c, f)
       \/ \E t \in Delays : Set(c, t) \/ SetAgain(c, t)
       \/ Delete(c)
  \/ \E w \in Works : Schedule(w) \/ \E t \in Delays : ScheduleDelayed(w, t)

System ==
  \/ \E c \in Timers : Fire(c) \/ FunctionEnds(c) \/ DeleteReturns(c)
  \/ (\E d \in delayed : Timeout(d)) \/ Begin \/ End
  \/ Tick

Next == Owner \/ System

Spec == Init /\ [][Next]_deferred_vars

\* The clock and the kernel's threads go on, and functions end.
Fairness ==
  /\ WF_deferred_vars(Tick) /\ WF_deferred_vars(Begin) /\ WF_deferred_vars(End)
  /\ WF_deferred_vars(\E d \in delayed : Timeout(d))
  /\ \A c \in Timers : /\ WF_deferred_vars(Fire(c))
                       /\ WF_deferred_vars(FunctionEnds(c))
                       /\ WF_deferred_vars(DeleteReturns(c))

-----------------------------------------------------------------------------
(* Properties.                                                             *)

TypeOK ==
  /\ ftn \in [Timers -> Functions \cup {NULL}]
  /\ phase \in [Timers -> {"new", "set up", "in use", "draining", "deleted"}]
  /\ callout \in [Timers -> [left : Nat, f : Functions \cup {NULL}]]
  /\ runs \in [Timers -> Functions \cup {NULL}]
  /\ \A d \in delayed : d.w \in Works
  /\ ToSet(queue) \subseteq Works /\ now \in Works \cup {NULL}
  /\ asked \in [Works -> BOOLEAN]
=============================================================================
