-------------------------- MODULE Synchronization --------------------------
(***************************************************************************)
(* Locks and threads (kfio.c) and condition variables (kcondvar.c): each   *)
(* lock of the porting layer is a lock of the kernel, each of its calls    *)
(* one of the kernel's.  Threads are made, take a lock to read or to       *)
(* write, wait and wake each other under it, and leave.                    *)
(*                                                                         *)
(* What the kernel does with a lock, a sleep queue and a new thread is     *)
(* external.  Callers are: they give back what they took, by the call that *)
(* belongs to it, and wait and signal with the lock held.                  *)
(***************************************************************************)
EXTENDS Naturals

CONSTANTS
  Threads, NULL

VARIABLES
  class,        \* the wrapper of the lock they share
  owner,        \* who has the kernel's lock alone
  sharers,      \* who have it together
  cv,           \* who sleeps on the condition variable
  pc,
  params,       \* the function a new thread is given, in allocated memory
  func,         \* and on the thread's stack
  timed,        \* a wait has a timeout
  ret,          \* what the kernel's wait returned
  answer        \* what fusion_condvar_timedwait made of it, while inside

lock_vars == <<owner, sharers>>
wait_vars == <<cv, timed, ret, answer>>
sync_vars == <<class, lock_vars, pc, params, func, wait_vars>>

-----------------------------------------------------------------------------
(* The wrappers: the kernel's lock under each, how it is taken and given    *)
(* back by the calls to read and to write, whether there are calls that     *)
(* only try.                                                                *)

Alone == [write |-> "exclusive"]
ByMode == [read |-> "shared", write |-> "exclusive"]

fusion_spin == [kernel |-> "mtx", takes |-> Alone, gives |-> Alone, tries |-> TRUE]
fusion_mutex == [kernel |-> "sx", takes |-> Alone, gives |-> Alone, tries |-> TRUE]

\* Mutation: the call to write is a copy of the one to read.
fusion_rw_spin_Copied ==
  [kernel |-> "rwlock", takes |-> [ByMode EXCEPT !.write = "shared"],
   gives |-> ByMode, tries |-> FALSE]

fusion_rw_spin ==
  [kernel |-> "rwlock", takes |-> ByMode, gives |-> ByMode, tries |-> FALSE]
fusion_rwsem ==
  [kernel |-> "sx", takes |-> ByMode, gives |-> ByMode, tries |-> FALSE]

Classes == {fusion_spin, fusion_mutex, fusion_rw_spin, fusion_rwsem}

\* The lock of condition variables.
fusion_cv_lock == fusion_spin

\* The calls of a class to take its lock.
Modes == DOMAIN class.takes

Init ==
  /\ class \in Classes
  /\ owner = NULL /\ sharers = {} /\ cv = {}
  /\ pc = [t \in Threads |-> "none"]
  /\ params = [t \in Threads |-> NULL] /\ func = [t \in Threads |-> NULL]
  /\ timed = [t \in Threads |-> FALSE]
  /\ ret = [t \in Threads |-> NULL] /\ answer = [t \in Threads |-> NULL]

Goes(t, from, to) == pc[t] = from /\ pc' = [pc EXCEPT ![t] = to]

-----------------------------------------------------------------------------
(* Threads.                                                                *)

\* fusion_create_kthread.
Create(t, f) ==
  /\ Goes(t, "none", "made")
  /\ params' = [params EXCEPT ![t] = f]
  /\ UNCHANGED <<class, lock_vars, func, wait_vars>>

\* The kernel cannot make the thread, nobody looks, and what was allocated is lost.
NotMade(t) ==
  /\ Goes(t, "made", "none")
  /\ params' = [params EXCEPT ![t] = NULL]
  /\ UNCHANGED <<class, lock_vars, func, wait_vars>>

\* Mutation: the memory is freed before it is copied, and is somebody's.
Copied_AfterFree(t) == Modes

Copied(t) == {params[t]}

\* fusion_kthread_wrapper, up to the call of the function.
Starts(t) ==
  /\ Goes(t, "made", "runs")
  /\ \E f \in Copied(t) : func' = [func EXCEPT ![t] = f]
  /\ params' = [params EXCEPT ![t] = NULL]
  /\ UNCHANGED <<class, lock_vars, wait_vars>>

\* kthread_exit.
Exits(t) ==
  /\ Goes(t, "done", "none")
  /\ func' = [func EXCEPT ![t] = NULL]
  /\ UNCHANGED <<class, lock_vars, params, wait_vars>>

-----------------------------------------------------------------------------
(* Locks.                                                                  *)

Free(how) == owner = NULL /\ (how = "exclusive" => sharers = {})

Take(t, how) ==
  /\ Free(how)
  /\ owner' = IF how = "exclusive" THEN t ELSE owner
  /\ sharers' = IF how = "shared" THEN sharers \cup {t} ELSE sharers

Give(t, how) ==
  /\ owner' = IF how = "exclusive" THEN NULL ELSE owner
  /\ sharers' = IF how = "shared" THEN sharers \ {t} ELSE sharers

Lock(t) ==
  /\ Goes(t, "runs", "inside")
  /\ Take(t, class.takes[func[t]])
  /\ UNCHANGED <<class, params, func, wait_vars>>

\* A trylock that returns 0; one that returns 1 is a Lock.
TryFails(t) ==
  /\ class.tries
  /\ Goes(t, "runs", "done")
  /\ ~Free(class.takes[func[t]])
  /\ UNCHANGED <<class, lock_vars, params, func, wait_vars>>

Unlock(t) ==
  /\ Goes(t, "inside", "done")
  /\ Give(t, class.gives[func[t]])
  /\ answer' = [answer EXCEPT ![t] = NULL]
  /\ UNCHANGED <<class, params, func, cv, timed, ret>>

\* By the caller; other locks have no such call.
fusion_spin_is_locked(t) == owner = t

-----------------------------------------------------------------------------
(* Condition variables.                                                    *)

\* fusion_condvar_wait, or a timed wait, up to where it sleeps.
Wait(t, with_timeout) ==
  /\ class = fusion_cv_lock
  /\ Goes(t, "inside", "asleep")
  /\ Give(t, "exclusive")
  /\ cv' = cv \cup {t}
  /\ timed' = [timed EXCEPT ![t] = with_timeout]
  /\ UNCHANGED <<class, params, func, ret, answer>>

EWOULDBLOCK == 35

\* The kernel takes them from the sleep queue, so that neither a signal nor
\* their timeout finds them there.
Awake(woken, why) ==
  /\ cv' = cv \ woken
  /\ pc' = [s \in Threads |-> IF s \in woken THEN "awake" ELSE pc[s]]
  /\ ret' = [s \in Threads |-> IF s \in woken THEN why ELSE ret[s]]
  /\ UNCHANGED <<class, lock_vars, params, func, timed, answer>>

fusion_condvar_signal(t) ==
  /\ class = fusion_cv_lock /\ pc[t] = "inside"
  /\ \E s \in cv : Awake({s}, 0)

fusion_condvar_broadcast(t) ==
  /\ class = fusion_cv_lock /\ pc[t] = "inside"
  /\ cv # {}
  /\ Awake(cv, 0)

\* Mutation: a timed wait is made as one without a timeout.
HasTimeout_Dropped(t) == FALSE

HasTimeout(t) == timed[t]

\* However soon it comes: fusion_usectohz makes a short timeout none at all.
TimeOut(t) ==
  /\ t \in cv /\ HasTimeout(t)
  /\ Awake({t}, EWOULDBLOCK)

FUSION_WAIT_TIMEDOUT == 0
FUSION_WAIT_TRIGGERED == 1

\* FUSION_WAIT_INTERRUPTED is for other errors, of which cv_timedwait has none.
Answered(r) == IF r = EWOULDBLOCK THEN FUSION_WAIT_TIMEDOUT ELSE FUSION_WAIT_TRIGGERED

\* cv_wait and cv_timedwait take the lock again before they return.
WaitReturns(t) ==
  /\ Goes(t, "awake", "inside")
  /\ Take(t, "exclusive")
  /\ answer' = [answer EXCEPT ![t] = Answered(ret[t])]
  /\ timed' = [timed EXCEPT ![t] = FALSE]
  /\ ret' = [ret EXCEPT ![t] = NULL]
  /\ UNCHANGED <<class, params, func, cv>>

-----------------------------------------------------------------------------

Runs(t) ==
  \/ NotMade(t) \/ Starts(t) \/ Exits(t)
  \/ Lock(t) \/ TryFails(t) \/ Unlock(t)
  \/ TimeOut(t) \/ WaitReturns(t)

Next ==
  \E t \in Threads :
    \/ \E f \in Modes : Create(t, f)
    \/ Runs(t)
    \/ \E b \in BOOLEAN : Wait(t, b)
    \/ fusion_condvar_signal(t) \/ fusion_condvar_broadcast(t)

Spec == Init /\ [][Next]_sync_vars

\* Who is inside leaves, or waits; a timeout comes; and the kernel hands a lock
\* that is free again and again to those who wait for it.
Fairness ==
  \A t \in Threads :
    /\ WF_sync_vars(Unlock(t))
    /\ WF_sync_vars(TimeOut(t))
    /\ SF_sync_vars(WaitReturns(t))

-----------------------------------------------------------------------------
(* Properties.                                                             *)

Places ==
  {"none", "made", "runs", "inside", "asleep", "awake", "done"}

\* The sleep queue holds whoever sleeps, and is that of one lock.
TypeOK ==
  /\ class \in Classes
  /\ owner \in Threads \cup {NULL} /\ sharers \subseteq Threads
  /\ pc \in [Threads -> Places]
  /\ params \in [Threads -> Modes \cup {NULL}]
  /\ func \in [Threads -> Modes \cup {NULL}]
  /\ timed \in [Threads -> BOOLEAN]
  /\ ret \in [Threads -> {0, EWOULDBLOCK, NULL}]
  /\ answer \in [Threads -> {FUSION_WAIT_TIMEDOUT, FUSION_WAIT_TRIGGERED, NULL}]
  /\ cv = {t \in Threads : pc[t] = "asleep"}

\* By the calls' names, whatever kernel lock is under them, a writer is alone;
\* a thread does what it was made for though what it was given is freed before
\* it does it; and a wait returns with the lock, with a timeout told from a
\* signal, of which each is spent on one thread that says so.
Why(r) == IF r = EWOULDBLOCK THEN "timed out" ELSE "signalled"
WhyTold(a) ==
  CASE a = NULL -> NULL
    [] a = FUSION_WAIT_TIMEDOUT -> "timed out"
    [] OTHER -> "signalled"

Promise == INSTANCE Monitor WITH
  Errands <- {"read", "write"},
  errand <- [t \in Threads |->
               CASE pc[t] = "none" -> NULL
                 [] pc[t] = "made" -> params[t]
                 [] OTHER -> func[t]],
  holds <- [t \in Threads |-> IF pc[t] = "inside" THEN func[t] ELSE "no"],
  waits <- [t \in Threads |->
              CASE pc[t] = "asleep" -> "asleep"
                [] pc[t] = "awake" -> Why(ret[t])
                [] OTHER -> "no"],
  told <- [t \in Threads |-> WhyTold(answer[t])]

\* And the kernel's lock is left to no one but those who are inside.
ImplementsMonitor ==
  /\ Promise!Spec
  /\ [](\A t \in Threads :
          pc[t] = "inside" <=> t \in sharers \/ fusion_spin_is_locked(t))

\* A wait with a timeout ends, though nobody signals and others take the lock.
WaitsEnd ==
  \A t \in Threads : pc[t] = "asleep" /\ timed[t] ~> pc[t] = "inside"
=============================================================================
