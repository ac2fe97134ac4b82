---------------------------- MODULE BlockQueue ----------------------------
(***************************************************************************)
(* The block device of the FreeBSD porting layer (src/driver/kblock.c):    *)
(* GEOM threads hand bios to freebsd_disk_strategy, the core's submit      *)
(* thread takes them off the queue with kfio_block_dequeue_bio, the core   *)
(* answers them through freebsd_bio_completor, and an administrator        *)
(* creates, exposes and destroys the disk meanwhile.                       *)
(*                                                                         *)
(* One bio of the model is one request, handed in by a GEOM thread of its  *)
(* own.  A step of the model is the code between two points where another  *)
(* thread can see or change shared state: bio_lock taken or released, the  *)
(* queue touched, a call into the core.                                    *)
(*                                                                         *)
(* The core itself is a binary; StartSubmit, StopSubmit, SubmitLock,       *)
(* SubmitWait, DeviceFails and the choices in Complete are its behaviour   *)
(* as kblock.c, kblock.h and kcondvar.h rely on it.  Two calls of the      *)
(* code do nothing observable here and have no action: dequeueing from an  *)
(* empty queue, and waking a condition variable nobody waits on.           *)
(***************************************************************************)
EXTENDS Integers, Sequences

CONSTANTS
  Bios,          \* the requests, each with the GEOM thread that issues it
  Fbios,         \* the core's pool of kfio_bio_t
  Requests,      \* the shapes a request may have
  MapErrors,     \* negative errnos of kfio_sgl_map_bytes / kfio_sgl_dma_map
  DeviceErrors,  \* errors the core may hand to the completor, of either sign
  NoBio, NoFbio, \* "none" for cur and fbio
  NoThread,      \* bio_lock is free
  Submitter      \* the core's submit thread

EIO     == 5
ENXIO   == 6
ENOMEM  == 12
ENOTSUP == 45

Commands == {"READ", "WRITE", "DELETE", "OTHER"}

Request == [cmd : Commands, bcount : Nat, aligned : BOOLEAN]

ASSUME SentinelAssumption ==
  /\ NoBio \notin Bios
  /\ NoFbio \notin Fbios
  /\ NoThread \notin Bios
  /\ Submitter \notin Bios \cup {NoThread}

ASSUME RequestAssumption == Requests \subseteq Request

ASSUME ErrorAssumption ==
  /\ MapErrors \subseteq {e \in Int : e < 0}
  /\ DeviceErrors \subseteq Int \ {0}

VARIABLES
  req,          \* bio_cmd, bio_bcount and the alignment of bio_data
  where,        \* who is responsible for the bio now
  bio_error,    \* the answer, once where[b] = "done"
  bio_resid,
  bounce,       \* the temporary buffer behind bio_data, if any
  fbio,         \* the kfio_bio_t that carries the bio
  moved,        \* units moved between the device and the issuer's own buffer
  dev_state,    \* RUNNING or DEAD
  bio_lock,     \* owner of disk->bio_lock
  bio_queue,    \* pdev->bioq
  submit,       \* where the submit thread stands
  cur, error,   \* its bp and error inside kfio_block_dequeue_bio
  failing,      \* kfio_bio_should_fail_requests
  life          \* how far the disk's creation or destruction has come

data_vars == <<bounce, fbio, moved>>
answer_vars == <<bio_error, bio_resid>>
submit_vars == <<submit, cur, error>>
disk_vars == <<dev_state, life, failing>>
bio_vars == <<req, where, answer_vars, data_vars>>
vars == <<bio_vars, bio_lock, bio_queue, submit_vars, disk_vars>>

Places == {"new", "strategy", "check", "admit", "queued", "held", "device",
           "done", "wild"}
SubmitPlaces == {"off", "want", "loop", "waiting", "alloc", "map", "fail",
                 "relock"}
Lives == {"absent", "created", "live", "stopping", "marked", "flushing",
          "freeing"}

TypeOK ==
  /\ req \in [Bios -> Requests]
  /\ where \in [Bios -> Places]
  /\ bio_error \in [Bios -> Nat]
  /\ bio_resid \in [Bios -> Nat]
  /\ bounce \in [Bios -> {"none", "raw", "copy"}]
  /\ fbio \in [Bios -> Fbios \cup {NoFbio}]
  /\ moved \in [Bios -> Nat]
  /\ dev_state \in {"RUNNING", "DEAD"}
  /\ bio_lock \in Bios \cup {Submitter, NoThread}
  /\ bio_queue \in Seq(Bios)
  /\ submit \in SubmitPlaces
  /\ cur \in Bios \cup {NoBio}
  /\ error \in Int
  /\ failing \in BOOLEAN
  /\ life \in Lives

Init ==
  /\ req \in [Bios -> Requests]
  /\ where = [b \in Bios |-> "new"]
  /\ bio_error = [b \in Bios |-> 0]
  /\ bio_resid = [b \in Bios |-> 0]
  /\ bounce = [b \in Bios |-> "none"]
  /\ fbio = [b \in Bios |-> NoFbio]
  /\ moved = [b \in Bios |-> 0]
  /\ dev_state = "DEAD"
  /\ bio_lock = NoThread
  /\ bio_queue = <<>>
  /\ submit = "off"
  /\ cur = NoBio
  /\ error = 0
  /\ failing = FALSE
  /\ life = "absent"

-----------------------------------------------------------------------------
(* Helpers shared by the handlers.                                         *)

\* GEOM calls the strategy routine from disk_create to disk_destroy.
Visible == life \in {"live", "stopping", "marked", "flushing"}

\* (error < 0) ? -error : error
Positive(e) == IF e < 0 THEN -e ELSE e

Goto(b, from, to) ==
  /\ where[b] = from
  /\ where' = [where EXCEPT ![b] = to]

\* biofinish(bp, NULL, e): from here on the bio belongs to GEOM again.
Biofinish(b, e) ==
  /\ where' = [where EXCEPT ![b] = "done"]
  /\ bio_error' = [bio_error EXCEPT ![b] = e]

\* bioq_disksort: the elevator may put the bio anywhere in the queue.
Disksort(q, i, b) == [j \in 1 .. Len(q) + 1 |->
                        IF j < i THEN q[j] ELSE IF j = i THEN b ELSE q[j - 1]]

\* Mutation: the bio is queued and nobody is told.
Broadcast_Silent == submit' = submit

\* fusion_condvar_broadcast(&disk->bio_cv)
Broadcast == submit' = IF submit = "waiting" THEN "want" ELSE submit

FreeFbios == {f \in Fbios : \A b \in Bios : fbio[b] # f}

-----------------------------------------------------------------------------
(* freebsd_disk_strategy.  d_drv1 is set before disk_create and never      *)
(* cleared, so the routine's first test, for a NULL disk, never succeeds.  *)

\* bio_bcount == 0: answered without the lock, whatever the disk's state.
StrategyEmpty(b) ==
  /\ Visible
  /\ where[b] = "new"
  /\ req[b].bcount = 0
  /\ Biofinish(b, 0)
  /\ bio_resid' = [bio_resid EXCEPT ![b] = 0]
  /\ UNCHANGED <<req, data_vars, disk_vars, bio_lock, bio_queue, submit_vars>>

\* The disk pointer is read; the lock is not held yet.
StrategyEnter(b) ==
  /\ Visible
  /\ req[b].bcount > 0
  /\ Goto(b, "new", "strategy")
  /\ UNCHANGED <<req, answer_vars, data_vars, disk_vars, bio_lock, bio_queue,
                 submit_vars>>

StrategyLock(b) ==
  /\ bio_lock = NoThread
  /\ bio_lock' = b
  /\ Goto(b, "strategy", "check")
  /\ UNCHANGED <<req, answer_vars, data_vars, disk_vars, bio_queue,
                 submit_vars>>

StrategyRefuse(b) ==
  /\ where[b] = "check"
  /\ dev_state = "DEAD"
  /\ Biofinish(b, ENXIO)
  /\ bio_lock' = NoThread
  /\ UNCHANGED <<req, bio_resid, data_vars, disk_vars, bio_queue, submit_vars>>

StrategyAdmit(b) ==
  /\ dev_state = "RUNNING"
  /\ Goto(b, "check", "admit")
  /\ UNCHANGED <<req, answer_vars, data_vars, disk_vars, bio_lock, bio_queue,
                 submit_vars>>

\* Mutation: the bio is queued and the lock kept.
StrategyInsert_KeepsLock(b) ==
  /\ Goto(b, "admit", "queued")
  /\ \E i \in 1 .. Len(bio_queue) + 1 : bio_queue' = Disksort(bio_queue, i, b)
  /\ Broadcast
  /\ UNCHANGED <<req, answer_vars, data_vars, disk_vars, bio_lock, cur, error>>

StrategyInsert(b) ==
  /\ Goto(b, "admit", "queued")
  /\ \E i \in 1 .. Len(bio_queue) + 1 : bio_queue' = Disksort(bio_queue, i, b)
  /\ Broadcast
  /\ bio_lock' = NoThread
  /\ UNCHANGED <<req, answer_vars, data_vars, disk_vars, cur, error>>

-----------------------------------------------------------------------------
(* The submit thread and kfio_block_dequeue_bio.  The function is entered  *)
(* with bio_lock held; it returns NULL with the lock held ("loop") and an  *)
(* fbio with the lock released ("want").                                   *)

SubmitLock ==
  /\ submit = "want"
  /\ bio_lock = NoThread
  /\ bio_lock' = Submitter
  /\ submit' = "loop"
  /\ UNCHANGED <<bio_vars, disk_vars, bio_queue, cur, error>>

\* As kcondvar.h prescribes, the wait is entered only on an empty queue,
\* tested under the lock; waiting releases the lock.
SubmitWait ==
  /\ submit = "loop"
  /\ bio_queue = <<>>
  /\ bio_lock' = NoThread
  /\ submit' = "waiting"
  /\ UNCHANGED <<bio_vars, disk_vars, bio_queue, cur, error>>

\* Mutation: a WRITE's bounce buffer is never filled.
BounceFor_NoCopy(r) == IF r.aligned THEN "none" ELSE "raw"

\* The buffer a bio with this request gets: none, or a bounce buffer, which
\* a WRITE fills from the issuer's.
BounceFor(r) ==
  IF r.aligned THEN "none" ELSE IF r.cmd = "WRITE" THEN "copy" ELSE "raw"

\* Mutation: the first bio is looked at and not removed.
DequeueTake_First ==
  /\ submit = "loop"
  /\ bio_queue # <<>>
  /\ LET b == Head(bio_queue)
     IN /\ cur' = b
        /\ where' = [where EXCEPT ![b] = "held"]
        /\ bounce' = [bounce EXCEPT ![b] = BounceFor(req[b])]
  /\ bio_lock' = NoThread
  /\ submit' = "alloc"
  /\ UNCHANGED <<req, answer_vars, fbio, moved, disk_vars, error, bio_queue>>

DequeueTake ==
  /\ submit = "loop"
  /\ bio_queue # <<>>
  /\ LET b == Head(bio_queue)
     IN /\ cur' = b
        /\ where' = [where EXCEPT ![b] = "held"]
        /\ bounce' = [bounce EXCEPT ![b] = BounceFor(req[b])]
  /\ bio_queue' = Tail(bio_queue)
  /\ bio_lock' = NoThread
  /\ submit' = "alloc"
  /\ UNCHANGED <<req, answer_vars, fbio, moved, disk_vars, error>>

DequeueAlloc(f) ==
  /\ submit = "alloc"
  /\ ~failing
  /\ f \in FreeFbios
  /\ fbio' = [fbio EXCEPT ![cur] = f]
  /\ submit' = "map"
  /\ UNCHANGED <<req, where, answer_vars, bounce, moved, disk_vars, bio_lock,
                 bio_queue, cur, error>>

Fail(e) ==
  /\ error' = e
  /\ submit' = "fail"
  /\ UNCHANGED <<bio_vars, disk_vars, bio_lock, bio_queue, cur>>

\* kfio_bio_alloc returned NULL.
DequeueAllocFails ==
  /\ submit = "alloc"
  /\ failing \/ FreeFbios = {}
  /\ Fail(IF failing THEN EIO ELSE ENOMEM)

DequeueUnsupported ==
  /\ submit = "map"
  /\ req[cur].cmd = "OTHER"
  /\ Fail(ENOTSUP)

DequeueMapFails ==
  /\ submit = "map"
  /\ req[cur].cmd \in {"READ", "WRITE"}
  /\ \E e \in MapErrors : Fail(e)

\* The fbio is returned, and the core takes it to the device.
DequeueReturn ==
  /\ submit = "map"
  /\ req[cur].cmd \in {"READ", "WRITE", "DELETE"}
  /\ where' = [where EXCEPT ![cur] = "device"]
  /\ submit' = "want"
  /\ cur' = NoBio
  /\ UNCHANGED <<req, answer_vars, data_vars, disk_vars, bio_lock, bio_queue,
                 error>>

Retryable(e) == e = ENOMEM

\* error_exit, up to taking the lock again.
DequeueUndo ==
  /\ submit = "fail"
  /\ bounce' = [bounce EXCEPT ![cur] = "none"]
  /\ fbio' = [fbio EXCEPT ![cur] = NoFbio]
  /\ IF Retryable(error)
       THEN UNCHANGED <<where, answer_vars>>
       ELSE /\ bio_resid' = [bio_resid EXCEPT ![cur] = req[cur].bcount]
            /\ Biofinish(cur, Positive(error))
  /\ submit' = "relock"
  /\ UNCHANGED <<req, moved, disk_vars, bio_lock, bio_queue, cur, error>>

\* The lock is held again, a retryable bio is back at the head of the queue,
\* and NULL is returned.
DequeueRelock ==
  /\ submit = "relock"
  /\ bio_lock = NoThread
  /\ bio_lock' = Submitter
  /\ IF Retryable(error)
       THEN /\ bio_queue' = <<cur>> \o bio_queue
            /\ where' = [where EXCEPT ![cur] = "queued"]
       ELSE UNCHANGED <<bio_queue, where>>
  /\ submit' = "loop"
  /\ cur' = NoBio
  /\ error' = 0
  /\ UNCHANGED <<req, answer_vars, data_vars, disk_vars>>

-----------------------------------------------------------------------------
(* freebsd_bio_completor, called by the core once for every fbio it took,  *)
(* with the number n of bytes the device moved and an error e.             *)

\* Of the n units the device moved through bio_data, those that came from or
\* went to the issuer's own buffer.  A bounce buffer is copied back after a
\* READ; a WRITE's was filled when the bio was taken.
Reached(b, n) ==
  CASE bounce[b] = "raw" /\ req[b].cmd = "WRITE" -> 0
    [] OTHER                                     -> n

\* Mutation: the completor does not destroy the double buffer.
BounceAfter_Kept(b) == bounce[b]

\* The buffer bio_data names once the completor is through with it.
BounceAfter(b) == "none"

Complete(b, n, e) ==
  /\ where[b] = "device"
  /\ e = 0 => n = req[b].bcount
  /\ moved' = [moved EXCEPT ![b] = Reached(b, n)]
  /\ bounce' = [bounce EXCEPT ![b] = BounceAfter(b)]
  /\ bio_resid' = [bio_resid EXCEPT ![b] = req[b].bcount - n]
  /\ Biofinish(b, Positive(e))
  /\ fbio' = [fbio EXCEPT ![b] = NoFbio]
  /\ UNCHANGED <<req, disk_vars, bio_lock, bio_queue, submit_vars>>

-----------------------------------------------------------------------------
(* kfio_block_create_device, kfio_block_expose_device and                  *)
(* kfio_block_destroy_device, with the core's calls around them.           *)

CreateDevice ==
  /\ life = "absent"
  /\ life' = "created"
  /\ dev_state' = "DEAD"
  /\ failing' = FALSE
  /\ UNCHANGED <<bio_vars, bio_lock, bio_queue, submit_vars>>

ExposeDevice ==
  /\ life = "created"
  /\ life' = "live"
  /\ dev_state' = "RUNNING"
  /\ UNCHANGED <<bio_vars, bio_lock, bio_queue, submit_vars, failing>>

StartSubmit ==
  /\ life \in {"created", "live"}
  /\ submit = "off"
  /\ submit' = "want"
  /\ UNCHANGED <<bio_vars, disk_vars, bio_lock, bio_queue, cur, error>>

\* The submit thread ends between two bios, giving up the lock if it has it.
StopSubmit ==
  /\ life = "live"
  /\ submit \in {"off", "want", "loop", "waiting"}
  /\ submit' = "off"
  /\ bio_lock' = IF submit = "loop" THEN NoThread ELSE bio_lock
  /\ life' = "stopping"
  /\ UNCHANGED <<bio_vars, bio_queue, cur, error, dev_state, failing>>

\* The core's device may stop serving requests at any time.
DeviceFails ==
  /\ life = "live"
  /\ ~failing
  /\ failing' = TRUE
  /\ UNCHANGED <<bio_vars, bio_lock, bio_queue, submit_vars, dev_state, life>>

\* The core waits for what the device still carries, then destroys the disk.
DestroyBegin ==
  /\ life = "stopping"
  /\ \A b \in Bios : where[b] # "device"
  /\ life' = "marked"
  /\ UNCHANGED <<bio_vars, bio_lock, bio_queue, submit_vars, dev_state,
                 failing>>

\* Mutation: DEAD is written without the lock.
DestroyMark_Unlocked ==
  /\ life = "marked"
  /\ dev_state' = "DEAD"
  /\ life' = "flushing"
  /\ UNCHANGED <<bio_vars, bio_lock, bio_queue, submit_vars, failing>>

\* "Tell strategy routine not to accept any more IO": lock, DEAD, unlock.
DestroyMark ==
  /\ life = "marked"
  /\ bio_lock = NoThread
  /\ dev_state' = "DEAD"
  /\ life' = "flushing"
  /\ UNCHANGED <<bio_vars, bio_lock, bio_queue, submit_vars, failing>>

\* One turn of bioq_flush, which runs without the lock.
DestroyFlush ==
  /\ life = "flushing"
  /\ bio_queue # <<>>
  /\ Biofinish(Head(bio_queue), ENXIO)
  /\ bio_queue' = Tail(bio_queue)
  /\ UNCHANGED <<req, bio_resid, data_vars, disk_vars, bio_lock, submit_vars>>

\* Mutation: the disk goes without its incomplete requests being returned.
DestroyKill_NoFlush ==
  /\ life = "flushing"
  /\ life' = "freeing"
  /\ UNCHANGED <<bio_vars, bio_lock, bio_queue, submit_vars, dev_state,
                 failing>>

\* disk_destroy: GEOM enters the strategy routine no more.
DestroyKill ==
  /\ life = "flushing"
  /\ bio_queue = <<>>
  /\ life' = "freeing"
  /\ UNCHANGED <<bio_vars, bio_lock, bio_queue, submit_vars, dev_state,
                 failing>>

\* The lock and the disk are freed.  disk_destroy does not wait for strategy
\* calls in progress: one that is still inside now runs on freed memory, and
\* the model follows it no further.
DestroyFree ==
  /\ life = "freeing"
  /\ life' = "absent"
  /\ where' = [b \in Bios |-> IF where[b] \in {"strategy", "check"}
                                THEN "wild" ELSE where[b]]
  /\ bio_lock' = NoThread
  /\ UNCHANGED <<req, answer_vars, data_vars, bio_queue, submit_vars,
                 dev_state, failing>>

-----------------------------------------------------------------------------
Strategy(b) ==
  \/ StrategyEmpty(b)
  \/ StrategyEnter(b)
  \/ StrategyLock(b)
  \/ StrategyRefuse(b)
  \/ StrategyAdmit(b)
  \/ StrategyInsert(b)

Dequeue ==
  \/ DequeueTake
  \/ \E f \in Fbios : DequeueAlloc(f)
  \/ DequeueAllocFails
  \/ DequeueUnsupported
  \/ DequeueMapFails
  \/ DequeueReturn
  \/ DequeueUndo
  \/ DequeueRelock

Completor(b) == \E n \in 0 .. req[b].bcount, e \in DeviceErrors \cup {0} : Complete(b, n, e)

Administer ==
  \/ CreateDevice
  \/ ExposeDevice
  \/ StartSubmit
  \/ StopSubmit
  \/ DeviceFails
  \/ DestroyBegin
  \/ DestroyMark
  \/ DestroyFlush
  \/ DestroyKill
  \/ DestroyFree

Next ==
  \/ \E b \in Bios : Strategy(b) \/ Completor(b)
  \/ SubmitLock
  \/ SubmitWait
  \/ Dequeue
  \/ Administer

Spec == Init /\ [][Next]_vars

\* Every thread runs.  The three places where one waits for bio_lock need
\* strong fairness, for the lock is free only now and then; the mutex hands
\* it to whoever waits.  Nothing makes GEOM issue a bio, or the
\* administrator create or stop a disk.
Fairness ==
  /\ \A b \in Bios :
       /\ SF_vars(StrategyLock(b))
       /\ WF_vars(StrategyRefuse(b) \/ StrategyAdmit(b) \/ StrategyInsert(b))
       /\ WF_vars(Completor(b))
  /\ WF_vars(StartSubmit)
  /\ SF_vars(SubmitLock)
  /\ WF_vars(SubmitWait)
  /\ WF_vars(Dequeue)
  /\ SF_vars(DequeueRelock)
  /\ SF_vars(DestroyMark)
  /\ WF_vars(DestroyBegin \/ DestroyFlush \/ DestroyKill \/ DestroyFree)

FairSpec == Spec /\ Fairness

-----------------------------------------------------------------------------
(* Properties.                                                             *)

\* Inside(b): the thread of b holds bio_lock.
Inside(b) == where[b] \in {"check", "admit"}

\* The lock is owned by exactly the thread that believes it holds it: the
\* strategy routine between lock and unlock, the submit thread whenever
\* kfio_block_dequeue_bio is entered or has returned NULL.
LockDiscipline ==
  /\ \A b \in Bios : bio_lock = b <=> Inside(b)
  /\ bio_lock = Submitter <=> submit = "loop"

OnQueue(q, b) == \E i \in 1 .. Len(q) : q[i] = b
Distinct(q) == \A i, j \in 1 .. Len(q) : q[i] = q[j] => i = j

\* A bio has one owner.  It is on the queue exactly once while it waits
\* there and never once it is held, at the device or answered, and the
\* submit thread holds at most one.
OneOwner ==
  /\ \A b \in Bios : OnQueue(bio_queue, b) <=> where[b] = "queued"
  /\ Distinct(bio_queue)
  /\ \A b \in Bios : where[b] = "held" =>
       b = cur /\ submit \in {"alloc", "map", "fail", "relock"}

\* bioq_flush runs without bio_lock: nobody else may touch the queue then.
FlushIsAlone ==
  life = "flushing" =>
    /\ submit = "off"
    /\ dev_state = "DEAD"
    /\ \A b \in Bios : where[b] # "admit"

\* When the disk is freed, no accepted bio is left behind: none on the queue,
\* which outlives the disk in the softc, none held, none at the device.
NothingLeftBehind ==
  life \in {"freeing", "absent"} =>
    /\ bio_queue = <<>>
    /\ \A b \in Bios : where[b] \notin {"admit", "queued", "held", "device"}

\* The submit thread never sleeps while there is a bio for it to take.
NoLostWakeup == submit = "waiting" => bio_queue = <<>>

\* Outside the window between take and completion a bio has its own buffer
\* back and no fbio; no two bios share an fbio.
NothingLeaks ==
  /\ \A b \in Bios : where[b] \notin {"held", "device"} =>
       bounce[b] = "none" /\ fbio[b] = NoFbio
  /\ \A b, c \in Bios : fbio[b] = fbio[c] /\ fbio[b] # NoFbio => b = c

\* A bio answered with success moved all its data, through a bounce buffer
\* or not, and none of an unsupported kind is; bio_resid of any bio that was
\* neither refused nor flushed says what was not moved.
HonestAnswer ==
  \A b \in Bios : where[b] = "done" =>
    /\ bio_error[b] = 0 => moved[b] = req[b].bcount
    /\ bio_error[b] = 0 /\ req[b].bcount > 0 => req[b].cmd # "OTHER"
    /\ bio_error[b] # ENXIO => bio_resid[b] + moved[b] = req[b].bcount

\* An answer is final: no later step, of this disk or of the next one on
\* the same softc, touches the bio or its buffer again.
AnswerIsFinal ==
  [][\A b \in Bios : where[b] = "done" =>
       /\ where'[b] = "done"
       /\ bio_error'[b] = bio_error[b]
       /\ bio_resid'[b] = bio_resid[b]
       /\ moved'[b] = moved[b]]_vars

-----------------------------------------------------------------------------
(* The inductive invariant: the properties above and what they rest on.    *)

\* What the submit thread's place says of the bio in its hands.
SubmitState ==
  /\ submit \in {"alloc", "map", "fail", "relock"} => cur \in Bios
  /\ submit \in {"alloc", "map", "fail"} => where[cur] = "held"
  /\ submit = "relock" =>
       /\ where[cur] = "held" <=> Retryable(error)
       /\ bounce[cur] = "none" /\ fbio[cur] = NoFbio
  /\ submit \in {"alloc", "map"} => bounce[cur] = BounceFor(req[cur])
  /\ submit = "fail" => error # 0

\* What each stage of the disk's life excludes.
LifeState ==
  /\ life \notin {"created", "live"} => submit = "off"
  /\ life \in {"marked", "flushing", "freeing", "absent"} =>
       \A b \in Bios : where[b] # "device"
  /\ life \in {"absent", "created"} =>
       \A b \in Bios : where[b] \notin {"strategy", "check", "admit"}
  /\ life \in {"absent", "created", "flushing", "freeing"} => dev_state = "DEAD"
  /\ \A b \in Bios : where[b] = "admit" => dev_state = "RUNNING"

\* What is known of a bio's buffers before it is answered.
BufferState ==
  \A b \in Bios :
    /\ where[b] # "done" => moved[b] = 0
    /\ where[b] = "device" => bounce[b] = BounceFor(req[b]) /\ req[b].cmd # "OTHER"
    /\ where[b] \notin {"new", "done"} => req[b].bcount > 0

IInv ==
  /\ TypeOK
  /\ LockDiscipline
  /\ OneOwner
  /\ SubmitState
  /\ LifeState
  /\ FlushIsAlone
  /\ NothingLeftBehind
  /\ NoLostWakeup
  /\ NothingLeaks
  /\ BufferState
  /\ HonestAnswer

-----------------------------------------------------------------------------
\* The comment at error_exit: ENOMEM, and nothing else, is given back to the
\* caller for another try.  Then no bio is ever answered with ENOMEM.
ShortageIsRetried ==
  \A b \in Bios : where[b] = "done" => bio_error[b] # ENOMEM

\* A destruction that has begun comes to its end.
DestroyEnds == life = "marked" ~> life = "absent"

-----------------------------------------------------------------------------
(* The refinement of the abstract service.                                 *)

Phase(b) == CASE where[b] = "new"                               -> "idle"
              [] where[b] \in {"strategy", "check", "admit", "wild"} -> "issued"
              [] where[b] \in {"queued", "held", "device"}      -> "accepted"
              [] OTHER                                          -> "answered"

Verdict(b) == IF where[b] # "done" THEN "none"
              ELSE IF bio_error[b] = 0 THEN "success" ELSE "failure"

Service == INSTANCE BioService WITH
  phase   <- [b \in Bios |-> Phase(b)],
  verdict <- [b \in Bios |-> Verdict(b)],
  up      <- life # "absent"

ImplementsService == Service!SafeSpec
ImplementsFairService == Service!Spec
=============================================================================
