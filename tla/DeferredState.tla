--------------------------- MODULE DeferredState ---------------------------
(* Timers and deferred work: where they stand, and what their owners are   *)
(* promised.                                                               *)
EXTENDS Naturals

CONSTANTS
  Timers, Functions, NULL,
  Works

VARIABLES
  ftn,          \* a timer's function
  phase,        \* "new", "set up", "in use", "draining" or "deleted"
  callout,      \* the ticks a timer is set for and its function then
  runs,         \* the function of a timer that runs
  delayed,      \* timeouts: their work and the ticks left
  queue,        \* tasks that wait
  now,          \* the work whose function runs
  asked         \* work scheduled since its function last began

Off == [left |-> 0, f |-> NULL]

\* When fusion_del_timer has returned the timer's function does not run and
\* will not, though it was just being called or set the timer again; a timer
\* that is then set up for something else never runs what it ran before.
DelIsFinal ==
  \A c \in Timers :
    /\ phase[c] = "deleted" => runs[c] = NULL /\ callout[c] = Off
    /\ {runs[c], callout[c].f} \subseteq {ftn[c], NULL}

\* Work that is scheduled, with or without a delay, also while it waits or
\* runs, has its function called after that.
WorkIsServed == \A w \in Works : asked[w] ~> now = w
=============================================================================
