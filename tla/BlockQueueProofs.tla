------------------------- MODULE BlockQueueProofs -------------------------
(***************************************************************************)
(* Theorems about BlockQueue, for every set of bios, fbios, requests and   *)
(* errors the assumptions of that module allow.                            *)
(***************************************************************************)
EXTENDS BlockQueue, TLAPS, SequenceTheorems

-----------------------------------------------------------------------------
(* What the three operations on the queue do to its members.               *)

\* bioq_disksort adds its bio once, at any place.
LEMMA DisksortFacts ==
  ASSUME NEW q \in Seq(Bios), NEW b \in Bios, NEW i \in 1 .. Len(q) + 1
  PROVE  LET r == Disksort(q, i, b)
         IN /\ r \in Seq(Bios)
            /\ \A c \in Bios : OnQueue(r, c) <=> c = b \/ OnQueue(q, c)
            /\ Distinct(q) /\ ~OnQueue(q, b) => Distinct(r)
<1> DEFINE r == Disksort(q, i, b)
<1>1. Len(q) \in Nat /\ \A j \in 1 .. Len(q) : q[j] \in Bios
  OBVIOUS
<1>2. r \in [1 .. Len(q) + 1 -> Bios]
  BY <1>1 DEF Disksort
<1>3. r \in Seq(Bios) /\ Len(r) = Len(q) + 1
  BY <1>1, <1>2
<1>4. /\ \A j \in 1 .. i - 1 : r[j] = q[j]
      /\ r[i] = b
      /\ \A j \in i + 1 .. Len(q) + 1 : r[j] = q[j - 1]
  BY <1>1 DEF Disksort
<1> HIDE DEF r
<1>5. ASSUME NEW c \in Bios
      PROVE  OnQueue(r, c) <=> c = b \/ OnQueue(q, c)
  <2>1. ASSUME OnQueue(r, c), c # b
        PROVE  OnQueue(q, c)
    <3>1. PICK j \in 1 .. Len(q) + 1 : r[j] = c
      BY <2>1, <1>3 DEF OnQueue
    <3>2. CASE j < i
      BY <3>1, <3>2, <1>1, <1>4 DEF OnQueue
    <3>3. CASE j > i
      <4>1. j - 1 \in 1 .. Len(q) /\ q[j - 1] = c
        BY <3>1, <3>3, <1>1, <1>4
      <4>2. QED
        BY <4>1 DEF OnQueue
    <3>4. QED
      BY <3>1, <3>2, <3>3, <2>1, <1>4
  <2>2. OnQueue(r, b)
    BY <1>1, <1>3, <1>4 DEF OnQueue
  <2>3. ASSUME OnQueue(q, c)
        PROVE  OnQueue(r, c)
    <3>1. PICK j \in 1 .. Len(q) : q[j] = c
      BY <2>3 DEF OnQueue
    <3>2. CASE j < i
      BY <3>1, <3>2, <1>1, <1>3, <1>4 DEF OnQueue
    <3>3. CASE j >= i
      <4>1. j + 1 \in 1 .. Len(q) + 1 /\ r[j + 1] = c
        BY <3>1, <3>3, <1>1, <1>4
      <4>2. QED
        BY <4>1, <1>3 DEF OnQueue
    <3>4. QED
      BY <3>1, <3>2, <3>3, <1>1
  <2>4. QED
    BY <2>1, <2>2, <2>3
<1>6. ASSUME Distinct(q), ~OnQueue(q, b)
      PROVE  Distinct(r)
  <2> SUFFICES ASSUME NEW j \in 1 .. Len(q) + 1, NEW k \in 1 .. Len(q) + 1,
                      r[j] = r[k], j < k
               PROVE  FALSE
    BY <1>1, <1>3 DEF Distinct
  <2>1. CASE j = i
    <3>1. k - 1 \in 1 .. Len(q) /\ q[k - 1] = b
      BY <2>1, <1>1, <1>4
    <3>2. QED
      BY <3>1, <1>6 DEF OnQueue
  <2>2. CASE k = i
    BY <2>2, <1>1, <1>4, <1>6 DEF OnQueue
  <2>3. CASE j # i /\ k # i
    <3> DEFINE at(m) == IF m < i THEN m ELSE m - 1
    <3>1. ASSUME NEW m \in 1 .. Len(q) + 1, m # i
          PROVE  at(m) \in 1 .. Len(q) /\ r[m] = q[at(m)]
      BY <3>1, <1>1, <1>4
    <3>2. at(j) # at(k)
      BY <2>3, <1>1
    <3>3. q[at(j)] = q[at(k)]
      BY <2>3, <3>1
    <3>4. QED
      BY <2>3, <3>1, <3>2, <3>3, <1>6 DEF Distinct
  <2>4. QED
    BY <2>1, <2>2, <2>3
<1>7. QED
  BY <1>3, <1>5, <1>6 DEF r

\* bioq_takefirst removes the first bio and only that one.
LEMMA TakefirstFacts ==
  ASSUME NEW q \in Seq(Bios), q # <<>>, Distinct(q)
  PROVE  /\ Head(q) \in Bios
         /\ Tail(q) \in Seq(Bios)
         /\ OnQueue(q, Head(q))
         /\ \A c \in Bios : OnQueue(Tail(q), c) <=> c # Head(q) /\ OnQueue(q, c)
         /\ Distinct(Tail(q))
<1>1. /\ Len(q) \in Nat /\ Len(q) > 0 /\ Head(q) = q[1]
      /\ Tail(q) \in Seq(Bios) /\ Len(Tail(q)) = Len(q) - 1
      /\ \A j \in 1 .. Len(q) - 1 : Tail(q)[j] = q[j + 1]
      /\ \A j \in 1 .. Len(q) : q[j] \in Bios
  OBVIOUS
<1>2. OnQueue(q, Head(q))
  BY <1>1 DEF OnQueue
<1>3. ASSUME NEW c \in Bios
      PROVE  OnQueue(Tail(q), c) <=> c # Head(q) /\ OnQueue(q, c)
  <2>1. ASSUME OnQueue(Tail(q), c)
        PROVE  c # Head(q) /\ OnQueue(q, c)
    <3>1. PICK j \in 1 .. Len(q) - 1 : q[j + 1] = c
      BY <2>1, <1>1 DEF OnQueue
    <3>2. QED
      BY <3>1, <1>1 DEF OnQueue, Distinct
  <2>2. ASSUME c # Head(q), OnQueue(q, c)
        PROVE  OnQueue(Tail(q), c)
    <3>1. PICK j \in 1 .. Len(q) : q[j] = c
      BY <2>2 DEF OnQueue
    <3>2. j - 1 \in 1 .. Len(q) - 1 /\ Tail(q)[j - 1] = c
      BY <3>1, <2>2, <1>1
    <3>3. QED
      BY <3>2, <1>1 DEF OnQueue
  <2>3. QED
    BY <2>1, <2>2
<1>4. Distinct(Tail(q))
  BY <1>1 DEF Distinct
<1>5. QED
  BY <1>1, <1>2, <1>3, <1>4

\* bioq_insert_head adds its bio in front.
LEMMA InsertHeadFacts ==
  ASSUME NEW q \in Seq(Bios), NEW b \in Bios
  PROVE  /\ <<b>> \o q \in Seq(Bios)
         /\ \A c \in Bios : OnQueue(<<b>> \o q, c) <=> c = b \/ OnQueue(q, c)
         /\ Distinct(q) /\ ~OnQueue(q, b) => Distinct(<<b>> \o q)
<1> DEFINE r == <<b>> \o q
<1>1. /\ Len(q) \in Nat
      /\ r \in Seq(Bios) /\ Len(r) = Len(q) + 1 /\ r[1] = b
      /\ \A j \in 2 .. Len(q) + 1 : r[j] = q[j - 1]
  OBVIOUS
<1> HIDE DEF r
<1>2. ASSUME NEW c \in Bios
      PROVE  OnQueue(r, c) <=> c = b \/ OnQueue(q, c)
  <2>1. OnQueue(r, c) => c = b \/ OnQueue(q, c)
    BY <1>1 DEF OnQueue
  <2>2. OnQueue(r, b)
    BY <1>1 DEF OnQueue
  <2>3. ASSUME OnQueue(q, c)
        PROVE  OnQueue(r, c)
    <3>1. PICK j \in 1 .. Len(q) : q[j] = c
      BY <2>3 DEF OnQueue
    <3>2. j + 1 \in 1 .. Len(r) /\ r[j + 1] = c
      BY <3>1, <1>1
    <3>3. QED
      BY <3>2 DEF OnQueue
  <2>4. QED
    BY <2>1, <2>2, <2>3
<1>3. Distinct(q) /\ ~OnQueue(q, b) => Distinct(r)
  BY <1>1 DEF Distinct, OnQueue
<1>4. QED
  BY <1>1, <1>2, <1>3 DEF r

\* Nothing is on an empty queue.
LEMMA EmptyFacts ==
  /\ <<>> \in Seq(Bios)
  /\ Distinct(<<>>)
  /\ \A c \in Bios : ~OnQueue(<<>>, c)
BY DEF Distinct, OnQueue

\* What the shape of a request is.
LEMMA RequestFacts ==
  ASSUME TypeOK
  PROVE  \A b \in Bios : /\ req[b] \in Requests
                         /\ req[b].bcount \in Nat
                         /\ req[b].cmd \in {"READ", "WRITE", "DELETE", "OTHER"}
                         /\ req[b].aligned \in BOOLEAN
BY RequestAssumption DEF TypeOK, Request, Commands

-----------------------------------------------------------------------------
(* Every action preserves the invariant.                                   *)

\* An empty bio is answered on the spot.
LEMMA StrategyEmptyStep ==
  ASSUME IInv, NEW b \in Bios, StrategyEmpty(b)
  PROVE  IInv'
<1>1. TypeOK'
  BY DEF StrategyEmpty, Biofinish, IInv, TypeOK, Places, data_vars,
     submit_vars, disk_vars
<1>2. LockDiscipline'
  BY DEF StrategyEmpty, Biofinish, IInv, LockDiscipline, Inside, submit_vars
<1>3. OneOwner'
  BY DEF StrategyEmpty, Biofinish, IInv, OneOwner, submit_vars
<1>4. SubmitState'
  BY DEF StrategyEmpty, Biofinish, IInv, SubmitState, data_vars, submit_vars
<1>5. LifeState' /\ FlushIsAlone' /\ NothingLeftBehind' /\ NoLostWakeup'
  BY DEF StrategyEmpty, Biofinish, IInv, LifeState, FlushIsAlone,
     NothingLeftBehind, NoLostWakeup, submit_vars, disk_vars
<1>6. NothingLeaks'
  BY DEF StrategyEmpty, Biofinish, IInv, NothingLeaks, data_vars
<1>7. BufferState' /\ HonestAnswer'
  BY DEF StrategyEmpty, Biofinish, IInv, TypeOK, BufferState, HonestAnswer,
     data_vars
<1>8. QED
  BY <1>1, <1>2, <1>3, <1>4, <1>5, <1>6, <1>7 DEF IInv

\* A strategy call begins.
LEMMA StrategyEnterStep ==
  ASSUME IInv, NEW b \in Bios, StrategyEnter(b)
  PROVE  IInv'
<1>1. TypeOK'
  BY DEF StrategyEnter, Goto, IInv, TypeOK, Places, data_vars, answer_vars,
     submit_vars, disk_vars, Retryable
<1>2. LockDiscipline'
  BY DEF StrategyEnter, Goto, IInv, LockDiscipline, Inside, submit_vars
<1>3. OneOwner'
  BY DEF StrategyEnter, Goto, IInv, OneOwner, submit_vars
<1>4. SubmitState'
  BY DEF StrategyEnter, Goto, IInv, SubmitState, data_vars, submit_vars
<1>5. LifeState' /\ FlushIsAlone' /\ NothingLeftBehind' /\ NoLostWakeup'
  BY DEF StrategyEnter, Goto, IInv, LifeState, FlushIsAlone,
     NothingLeftBehind, NoLostWakeup, Visible, submit_vars, disk_vars
<1>6. NothingLeaks'
  BY DEF StrategyEnter, Goto, IInv, NothingLeaks, data_vars
<1>7. BufferState' /\ HonestAnswer'
  BY DEF StrategyEnter, Goto, IInv, BufferState, HonestAnswer, data_vars,
     answer_vars
<1>8. QED
  BY <1>1, <1>2, <1>3, <1>4, <1>5, <1>6, <1>7 DEF IInv

\* A strategy call takes bio_lock.
LEMMA StrategyLockStep ==
  ASSUME IInv, NEW b \in Bios, StrategyLock(b)
  PROVE  IInv'
<1>1. TypeOK'
  BY DEF StrategyLock, Goto, IInv, TypeOK, Places, data_vars, answer_vars,
     submit_vars, disk_vars
<1>2. LockDiscipline'
  BY SentinelAssumption DEF StrategyLock, Goto, IInv, TypeOK, LockDiscipline,
     Inside, submit_vars
<1>3. OneOwner'
  BY DEF StrategyLock, Goto, IInv, OneOwner, submit_vars
<1>4. SubmitState'
  BY DEF StrategyLock, Goto, IInv, SubmitState, data_vars, submit_vars
<1>5. LifeState' /\ FlushIsAlone' /\ NothingLeftBehind' /\ NoLostWakeup'
  BY DEF StrategyLock, Goto, IInv, LifeState, FlushIsAlone,
     NothingLeftBehind, NoLostWakeup, submit_vars, disk_vars
<1>6. NothingLeaks'
  BY DEF StrategyLock, Goto, IInv, NothingLeaks, data_vars
<1>7. BufferState' /\ HonestAnswer'
  BY DEF StrategyLock, Goto, IInv, BufferState, HonestAnswer, data_vars,
     answer_vars
<1>8. QED
  BY <1>1, <1>2, <1>3, <1>4, <1>5, <1>6, <1>7 DEF IInv

\* A dead disk refuses a bio, and the lock is given up.
LEMMA StrategyRefuseStep ==
  ASSUME IInv, NEW b \in Bios, StrategyRefuse(b)
  PROVE  IInv'
<1>1. TypeOK'
  BY DEF StrategyRefuse, Biofinish, IInv, TypeOK, Places, data_vars,
     submit_vars, disk_vars, ENXIO
<1>2. LockDiscipline'
  BY SentinelAssumption DEF StrategyRefuse, Biofinish, IInv, TypeOK,
     LockDiscipline, Inside, submit_vars
<1>3. OneOwner'
  BY DEF StrategyRefuse, Biofinish, IInv, OneOwner, submit_vars
<1>4. SubmitState'
  BY DEF StrategyRefuse, Biofinish, IInv, SubmitState, data_vars, submit_vars
<1>5. LifeState' /\ FlushIsAlone' /\ NothingLeftBehind' /\ NoLostWakeup'
  BY DEF StrategyRefuse, Biofinish, IInv, LifeState, FlushIsAlone,
     NothingLeftBehind, NoLostWakeup, submit_vars, disk_vars
<1>6. NothingLeaks'
  BY DEF StrategyRefuse, Biofinish, IInv, NothingLeaks, data_vars
<1>7. BufferState' /\ HonestAnswer'
  BY DEF StrategyRefuse, Biofinish, IInv, TypeOK, BufferState, HonestAnswer,
     data_vars, submit_vars, ENXIO
<1>8. QED
  BY <1>1, <1>2, <1>3, <1>4, <1>5, <1>6, <1>7 DEF IInv

\* A running disk lets a bio through; the lock stays held.
LEMMA StrategyAdmitStep ==
  ASSUME IInv, NEW b \in Bios, StrategyAdmit(b)
  PROVE  IInv'
<1>1. TypeOK'
  BY DEF StrategyAdmit, Goto, IInv, TypeOK, Places, data_vars, answer_vars,
     submit_vars, disk_vars
<1>2. LockDiscipline'
  BY DEF StrategyAdmit, Goto, IInv, LockDiscipline, Inside, submit_vars
<1>3. OneOwner'
  BY DEF StrategyAdmit, Goto, IInv, OneOwner, submit_vars
<1>4. SubmitState'
  BY DEF StrategyAdmit, Goto, IInv, SubmitState, data_vars, submit_vars
<1>5. LifeState' /\ FlushIsAlone' /\ NothingLeftBehind' /\ NoLostWakeup'
  BY DEF StrategyAdmit, Goto, IInv, LifeState, FlushIsAlone,
     NothingLeftBehind, NoLostWakeup, submit_vars, disk_vars
<1>6. NothingLeaks'
  BY DEF StrategyAdmit, Goto, IInv, NothingLeaks, data_vars
<1>7. BufferState' /\ HonestAnswer'
  BY DEF StrategyAdmit, Goto, IInv, BufferState, HonestAnswer, data_vars,
     answer_vars, disk_vars, Retryable
<1>8. QED
  BY <1>1, <1>2, <1>3, <1>4, <1>5, <1>6, <1>7 DEF IInv

\* A bio joins the queue once, wherever the elevator puts it.
LEMMA StrategyInsertStep ==
  ASSUME IInv, NEW b \in Bios, StrategyInsert(b)
  PROVE  IInv'
<1>q. /\ bio_queue' \in Seq(Bios)
      /\ \A c \in Bios : OnQueue(bio_queue', c) <=> c = b \/ OnQueue(bio_queue, c)
      /\ Distinct(bio_queue')
  BY DisksortFacts DEF IInv, StrategyInsert, Goto, Broadcast, TypeOK, OneOwner
<1>1. TypeOK'
  BY <1>q DEF StrategyInsert, Goto, Broadcast, IInv, TypeOK, Places,
     SubmitPlaces, data_vars, answer_vars, disk_vars
<1>2. LockDiscipline'
  BY SentinelAssumption DEF StrategyInsert, Goto, Broadcast, IInv, TypeOK,
     LockDiscipline, Inside
<1>3. OneOwner'
  BY <1>q DEF StrategyInsert, Goto, Broadcast, IInv, TypeOK, OneOwner
<1>4. SubmitState'
  BY DEF StrategyInsert, Goto, Broadcast, IInv, SubmitState, data_vars
<1>5. LifeState' /\ FlushIsAlone' /\ NothingLeftBehind' /\ NoLostWakeup'
  BY DEF StrategyInsert, Goto, Broadcast, IInv, LifeState, FlushIsAlone,
     NothingLeftBehind, NoLostWakeup, disk_vars
<1>6. NothingLeaks'
  BY DEF StrategyInsert, Goto, IInv, NothingLeaks, data_vars
<1>7. BufferState' /\ HonestAnswer'
  BY DEF StrategyInsert, Goto, IInv, BufferState, HonestAnswer, SubmitState,
     data_vars, answer_vars
<1>8. QED
  BY <1>1, <1>2, <1>3, <1>4, <1>5, <1>6, <1>7 DEF IInv

\* The submit thread takes bio_lock.
LEMMA SubmitLockStep ==
  ASSUME IInv, SubmitLock
  PROVE  IInv'
<1>1. TypeOK'
  BY DEF SubmitLock, IInv, TypeOK, SubmitPlaces, bio_vars, data_vars,
     answer_vars, disk_vars
<1>2. LockDiscipline'
  BY SentinelAssumption DEF SubmitLock, IInv, LockDiscipline, Inside,
     bio_vars
<1>3. OneOwner'
  BY DEF SubmitLock, IInv, OneOwner, bio_vars
<1>4. SubmitState'
  BY DEF SubmitLock, SubmitState
<1>5. LifeState' /\ FlushIsAlone' /\ NothingLeftBehind' /\ NoLostWakeup'
  BY DEF SubmitLock, IInv, LifeState, FlushIsAlone, NothingLeftBehind,
     NoLostWakeup, bio_vars, disk_vars
<1>6. NothingLeaks'
  BY DEF SubmitLock, IInv, NothingLeaks, bio_vars, data_vars
<1>7. BufferState' /\ HonestAnswer'
  BY DEF SubmitLock, IInv, BufferState, HonestAnswer, bio_vars, data_vars,
     answer_vars
<1>8. QED
  BY <1>1, <1>2, <1>3, <1>4, <1>5, <1>6, <1>7 DEF IInv

\* The submit thread goes to sleep on an empty queue.
LEMMA SubmitWaitStep ==
  ASSUME IInv, SubmitWait
  PROVE  IInv'
<1>1. TypeOK'
  BY DEF SubmitWait, IInv, TypeOK, SubmitPlaces, bio_vars, data_vars,
     answer_vars, disk_vars
<1>2. LockDiscipline'
  BY SentinelAssumption DEF SubmitWait, IInv, LockDiscipline, Inside,
     bio_vars
<1>3. OneOwner'
  BY DEF SubmitWait, IInv, OneOwner, bio_vars
<1>4. SubmitState'
  BY DEF SubmitWait, SubmitState
<1>5. LifeState' /\ FlushIsAlone' /\ NothingLeftBehind' /\ NoLostWakeup'
  BY DEF SubmitWait, IInv, LifeState, FlushIsAlone, NothingLeftBehind,
     NoLostWakeup, bio_vars, disk_vars
<1>6. NothingLeaks'
  BY DEF SubmitWait, IInv, NothingLeaks, bio_vars, data_vars
<1>7. BufferState' /\ HonestAnswer'
  BY DEF SubmitWait, IInv, BufferState, HonestAnswer, bio_vars, data_vars,
     answer_vars
<1>8. QED
  BY <1>1, <1>2, <1>3, <1>4, <1>5, <1>6, <1>7 DEF IInv

\* The head of the queue moves into the submit thread's hands.
LEMMA DequeueTakeStep ==
  ASSUME IInv, DequeueTake
  PROVE  IInv'
<1>q. /\ Head(bio_queue) \in Bios
      /\ where[Head(bio_queue)] = "queued"
      /\ bio_queue' \in Seq(Bios)
      /\ \A c \in Bios : OnQueue(bio_queue', c) <=> c # Head(bio_queue) /\ OnQueue(bio_queue, c)
      /\ Distinct(bio_queue')
  BY TakefirstFacts DEF IInv, DequeueTake, TypeOK, OneOwner
<1>1. TypeOK'
  BY DEF DequeueTake, IInv, TypeOK, Places, SubmitPlaces, answer_vars,
     disk_vars, BounceFor
<1>2. LockDiscipline'
  BY SentinelAssumption DEF DequeueTake, IInv, LockDiscipline, Inside
<1>3. OneOwner'
  BY <1>q DEF DequeueTake, IInv, TypeOK, OneOwner
<1>4. SubmitState'
  BY DEF DequeueTake, IInv, TypeOK, SubmitState
<1>5. LifeState' /\ FlushIsAlone' /\ NothingLeftBehind' /\ NoLostWakeup'
  BY DEF DequeueTake, IInv, LifeState, FlushIsAlone, NothingLeftBehind,
     NoLostWakeup, disk_vars
<1>6. NothingLeaks'
  BY DEF DequeueTake, IInv, TypeOK, NothingLeaks
<1>7. BufferState' /\ HonestAnswer'
  BY <1>q DEF DequeueTake, IInv, BufferState, HonestAnswer, answer_vars,
     BounceFor
<1>8. QED
  BY <1>1, <1>2, <1>3, <1>4, <1>5, <1>6, <1>7 DEF IInv

\* A bio gets an fbio no other bio has.
LEMMA DequeueAllocStep ==
  ASSUME IInv, NEW f \in Fbios, DequeueAlloc(f)
  PROVE  IInv'
<1>1. TypeOK'
  BY DEF DequeueAlloc, IInv, TypeOK, SubmitState, SubmitPlaces, answer_vars,
     disk_vars
<1>2. LockDiscipline'
  BY DEF DequeueAlloc, IInv, LockDiscipline, Inside
<1>3. OneOwner'
  BY DEF DequeueAlloc, IInv, OneOwner
<1>4. SubmitState'
  BY DEF DequeueAlloc, IInv, SubmitState
<1>5. LifeState' /\ FlushIsAlone' /\ NothingLeftBehind' /\ NoLostWakeup'
  BY DEF DequeueAlloc, IInv, LifeState, FlushIsAlone, NothingLeftBehind,
     NoLostWakeup, disk_vars
<1>6. NothingLeaks'
  BY DEF DequeueAlloc, FreeFbios, IInv, NothingLeaks, SubmitState
<1>7. BufferState' /\ HonestAnswer'
  BY DEF DequeueAlloc, IInv, BufferState, HonestAnswer, answer_vars
<1>8. QED
  BY <1>1, <1>2, <1>3, <1>4, <1>5, <1>6, <1>7 DEF IInv

\* No fbio: the error is EIO or ENOMEM.
LEMMA DequeueAllocFailsStep ==
  ASSUME IInv, DequeueAllocFails
  PROVE  IInv'
<1>1. TypeOK'
  BY DEF DequeueAllocFails, Fail, IInv, TypeOK, SubmitPlaces, bio_vars,
     data_vars, answer_vars, disk_vars, EIO
<1>2. LockDiscipline'
  BY DEF DequeueAllocFails, Fail, IInv, LockDiscipline, Inside, bio_vars
<1>3. OneOwner'
  BY DEF DequeueAllocFails, Fail, IInv, OneOwner, bio_vars
<1>4. SubmitState'
  BY DEF DequeueAllocFails, Fail, IInv, SubmitState, bio_vars, EIO, ENOMEM
<1>5. LifeState' /\ FlushIsAlone' /\ NothingLeftBehind' /\ NoLostWakeup'
  BY DEF DequeueAllocFails, Fail, IInv, LifeState, FlushIsAlone,
     NothingLeftBehind, NoLostWakeup, bio_vars, disk_vars
<1>6. NothingLeaks'
  BY DEF DequeueAllocFails, Fail, IInv, NothingLeaks, bio_vars, data_vars
<1>7. BufferState' /\ HonestAnswer'
  BY DEF DequeueAllocFails, Fail, IInv, BufferState, HonestAnswer, bio_vars,
     data_vars, answer_vars
<1>8. QED
  BY <1>1, <1>2, <1>3, <1>4, <1>5, <1>6, <1>7 DEF IInv

\* A bio of an unsupported kind fails with ENOTSUP.
LEMMA DequeueUnsupportedStep ==
  ASSUME IInv, DequeueUnsupported
  PROVE  IInv'
<1>1. TypeOK'
  BY DEF DequeueUnsupported, Fail, IInv, TypeOK, SubmitState, SubmitPlaces,
     bio_vars, data_vars, answer_vars, disk_vars, ENOTSUP
<1>2. LockDiscipline'
  BY DEF DequeueUnsupported, Fail, IInv, LockDiscipline, Inside, bio_vars
<1>3. OneOwner'
  BY DEF DequeueUnsupported, Fail, IInv, OneOwner, bio_vars
<1>4. SubmitState'
  BY DEF DequeueUnsupported, Fail, IInv, SubmitState, bio_vars, ENOTSUP
<1>5. LifeState' /\ FlushIsAlone' /\ NothingLeftBehind' /\ NoLostWakeup'
  BY DEF DequeueUnsupported, Fail, IInv, LifeState, FlushIsAlone,
     NothingLeftBehind, NoLostWakeup, bio_vars, disk_vars
<1>6. NothingLeaks'
  BY DEF DequeueUnsupported, Fail, IInv, NothingLeaks, bio_vars, data_vars
<1>7. BufferState' /\ HonestAnswer'
  BY DEF DequeueUnsupported, Fail, IInv, BufferState, HonestAnswer, bio_vars,
     data_vars, answer_vars
<1>8. QED
  BY <1>1, <1>2, <1>3, <1>4, <1>5, <1>6, <1>7 DEF IInv

\* Mapping fails with a negative error.
LEMMA DequeueMapFailsStep ==
  ASSUME IInv, DequeueMapFails
  PROVE  IInv'
<1>1. TypeOK'
  BY ErrorAssumption DEF DequeueMapFails, Fail, IInv, TypeOK, SubmitPlaces,
     bio_vars, data_vars, answer_vars, disk_vars
<1>2. LockDiscipline'
  BY DEF DequeueMapFails, Fail, IInv, LockDiscipline, Inside, bio_vars
<1>3. OneOwner'
  BY DEF DequeueMapFails, Fail, IInv, OneOwner, bio_vars
<1>4. SubmitState'
  BY ErrorAssumption DEF DequeueMapFails, Fail, IInv, SubmitState, bio_vars
<1>5. LifeState' /\ FlushIsAlone' /\ NothingLeftBehind' /\ NoLostWakeup'
  BY DEF DequeueMapFails, Fail, IInv, LifeState, FlushIsAlone,
     NothingLeftBehind, NoLostWakeup, bio_vars, disk_vars
<1>6. NothingLeaks'
  BY DEF DequeueMapFails, Fail, IInv, NothingLeaks, bio_vars, data_vars
<1>7. BufferState' /\ HonestAnswer'
  BY DEF DequeueMapFails, Fail, IInv, BufferState, HonestAnswer, bio_vars,
     data_vars, answer_vars
<1>8. QED
  BY <1>1, <1>2, <1>3, <1>4, <1>5, <1>6, <1>7 DEF IInv

\* A bio goes to the device.
LEMMA DequeueReturnStep ==
  ASSUME IInv, DequeueReturn
  PROVE  IInv'
<1>1. TypeOK'
  BY DEF DequeueReturn, IInv, TypeOK, SubmitState, Places, SubmitPlaces,
     data_vars, answer_vars, disk_vars
<1>2. LockDiscipline'
  BY DEF DequeueReturn, IInv, LockDiscipline, SubmitState, Inside
<1>3. OneOwner'
  BY DEF DequeueReturn, IInv, TypeOK, OneOwner, SubmitState
<1>4. SubmitState'
  BY DEF DequeueReturn, SubmitState
<1>5. LifeState' /\ FlushIsAlone' /\ NothingLeftBehind' /\ NoLostWakeup'
  BY DEF DequeueReturn, IInv, LifeState, FlushIsAlone, NothingLeftBehind,
     NoLostWakeup, disk_vars
<1>6. NothingLeaks'
  BY DEF DequeueReturn, IInv, NothingLeaks, data_vars
<1>7. BufferState' /\ HonestAnswer'
  BY DEF DequeueReturn, IInv, BufferState, HonestAnswer, SubmitState,
     OneOwner, data_vars, answer_vars, disk_vars
<1>8. QED
  BY <1>1, <1>2, <1>3, <1>4, <1>5, <1>6, <1>7 DEF IInv

\* A failure is undone, and answered unless it is retryable.
LEMMA DequeueUndoStep ==
  ASSUME IInv, DequeueUndo
  PROVE  IInv'
<1> USE SentinelAssumption, ErrorAssumption DEF IInv
<1> USE DEF data_vars, answer_vars, disk_vars
<1>1. /\ submit = "fail" /\ submit' = "relock" /\ cur \in Bios /\ where[cur] = "held"
      /\ bounce' = [bounce EXCEPT ![cur] = "none"]
      /\ fbio' = [fbio EXCEPT ![cur] = NoFbio]
      /\ UNCHANGED <<req, moved, disk_vars, bio_lock, bio_queue, cur, error>>
      /\ error \in Int \ {0} /\ Positive(error) \in Nat \ {0}
      /\ req[cur].bcount \in Nat
  BY RequestFacts DEF DequeueUndo, SubmitState, TypeOK, Positive
<1>2. \/ /\ Retryable(error)
         /\ UNCHANGED <<where, bio_error, bio_resid>>
      \/ /\ ~Retryable(error)
         /\ bio_resid' = [bio_resid EXCEPT ![cur] = req[cur].bcount]
         /\ where' = [where EXCEPT ![cur] = "done"]
         /\ bio_error' = [bio_error EXCEPT ![cur] = Positive(error)]
  BY DEF DequeueUndo, Biofinish
<1>3. TypeOK'
  <2>1. where' \in [Bios -> Places] /\ bio_error' \in [Bios -> Nat] /\ bio_resid' \in [Bios -> Nat]
    <3>1. CASE Retryable(error)
      BY <1>1, <1>2, <3>1 DEF TypeOK
    <3>2. CASE ~Retryable(error)
      <4>1. where' = [where EXCEPT ![cur] = "done"] /\ where' \in [Bios -> Places]
        BY <1>2, <3>2 DEF TypeOK, Places
      <4>2. Positive(error) \in Nat
        BY <1>1
      <4>3. bio_error' \in [Bios -> Nat]
        BY <4>2, <1>2, <3>2 DEF TypeOK
      <4>4. bio_resid' \in [Bios -> Nat]
        BY <1>1, <1>2, <3>2 DEF TypeOK
      <4>5. QED
        BY <4>1, <4>3, <4>4
    <3>3. QED
      BY <3>1, <3>2
  <2>2. QED
    BY <1>1, <2>1 DEF TypeOK, SubmitPlaces
<1>4. LockDiscipline'
  BY <1>1, <1>2 DEF TypeOK, LockDiscipline, Inside
<1>5. OneOwner'
  BY <1>1, <1>2 DEF TypeOK, OneOwner
<1>6. SubmitState'
  BY <1>1, <1>2 DEF TypeOK, SubmitState
<1>7. LifeState' /\ FlushIsAlone' /\ NothingLeftBehind' /\ NoLostWakeup'
  BY <1>1, <1>2
     DEF TypeOK, LifeState, FlushIsAlone, NothingLeftBehind, NoLostWakeup
<1>8. NothingLeaks'
  BY <1>1, <1>2 DEF TypeOK, NothingLeaks
<1>9. BufferState' /\ HonestAnswer'
  <2>1. BufferState'
    BY <1>1, <1>2 DEF TypeOK, BufferState
  <2>2. moved[cur] = 0
    BY <1>1 DEF BufferState
  <2>3. HonestAnswer'
    BY <1>1, <1>2, <2>2 DEF TypeOK, HonestAnswer
  <2>4. QED
    BY <2>1, <2>3
<1>10. QED
  BY <1>3, <1>4, <1>5, <1>6, <1>7, <1>8, <1>9

\* The lock is taken again, and a retryable bio goes back to the head.
LEMMA DequeueRelockStep ==
  ASSUME IInv, DequeueRelock
  PROVE  IInv'
<1> USE SentinelAssumption, ErrorAssumption DEF IInv
<1> USE DEF data_vars, answer_vars, disk_vars
<1>1. /\ submit = "relock" /\ bio_lock = NoThread /\ cur \in Bios /\ submit' = "loop"
      /\ bio_lock' = Submitter /\ cur' = NoBio /\ error' = 0
      /\ UNCHANGED <<req, answer_vars, data_vars, disk_vars>>
  BY DEF DequeueRelock, SubmitState
<1>2. CASE ~Retryable(error)
  <2>1. UNCHANGED <<bio_queue, where>>
    BY <1>2 DEF DequeueRelock
  <2>2. TypeOK' /\ LockDiscipline' /\ OneOwner' /\ SubmitState'
    BY <1>1, <2>1, <1>2
       DEF TypeOK, LockDiscipline, Inside, OneOwner, SubmitState,
           SubmitPlaces, Retryable
  <2>3. LifeState' /\ FlushIsAlone' /\ NothingLeftBehind' /\ NoLostWakeup'
    BY <1>1, <2>1 DEF LifeState, FlushIsAlone, NothingLeftBehind, NoLostWakeup
  <2>4. NothingLeaks' /\ BufferState' /\ HonestAnswer'
    BY <1>1, <2>1 DEF NothingLeaks, BufferState, HonestAnswer
  <2>5. QED
    BY <2>2, <2>3, <2>4
<1>3. CASE Retryable(error)
  <2>1. /\ bio_queue' = <<cur>> \o bio_queue
        /\ where' = [where EXCEPT ![cur] = "queued"]
        /\ where[cur] = "held"
    BY <1>1, <1>3 DEF DequeueRelock, SubmitState
  <2>2. /\ bio_queue' \in Seq(Bios)
        /\ Distinct(bio_queue')
        /\ \A c \in Bios : OnQueue(bio_queue', c) <=> c = cur \/ OnQueue(bio_queue, c)
    BY <1>1, <2>1, InsertHeadFacts DEF TypeOK, OneOwner
  <2>3. where' \in [Bios -> Places] /\ \A c \in Bios : where'[c] = IF c = cur THEN "queued" ELSE where[c]
    BY <2>1 DEF TypeOK, Places
  <2>4. TypeOK'
    BY <1>1, <2>2, <2>3 DEF TypeOK, SubmitPlaces
  <2>5. LockDiscipline' /\ SubmitState'
    BY <1>1, <2>1, <2>3 DEF TypeOK, LockDiscipline, Inside, SubmitState
  <2>6. OneOwner'
    BY <1>1, <2>1, <2>2, <2>3 DEF OneOwner
  <2>7. LifeState' /\ FlushIsAlone' /\ NothingLeftBehind' /\ NoLostWakeup'
    BY <1>1, <2>3 DEF LifeState, FlushIsAlone, NothingLeftBehind, NoLostWakeup
  <2>8. NothingLeaks'
    <3>1. fbio[cur] = NoFbio /\ bounce[cur] = "none"
      BY <1>1 DEF SubmitState
    <3>2. fbio' = fbio /\ bounce' = bounce
      BY <1>1
    <3>3. QED
      BY <1>1, <2>3, <3>1, <3>2 DEF NothingLeaks
  <2>9. BufferState' /\ HonestAnswer'
    BY <1>1, <2>1, <2>3 DEF BufferState, HonestAnswer
  <2>10. QED
    BY <2>4, <2>5, <2>6, <2>7, <2>8, <2>9
<1>4. QED
  BY <1>2, <1>3

\* The device's answer is passed on and the buffers returned.
LEMMA CompleteStep ==
  ASSUME IInv, NEW b \in Bios, NEW n \in 0 .. req[b].bcount,
         NEW e \in DeviceErrors \cup {0}, Complete(b, n, e)
  PROVE  IInv'
<1> USE SentinelAssumption, ErrorAssumption DEF IInv
<1> USE DEF data_vars, answer_vars, disk_vars, submit_vars
<1>1. /\ where[b] = "device"
      /\ where' = [where EXCEPT ![b] = "done"]
      /\ bounce' = [bounce EXCEPT ![b] = "none"]
      /\ fbio' = [fbio EXCEPT ![b] = NoFbio]
      /\ moved' = [moved EXCEPT ![b] = n]
      /\ bio_resid' = [bio_resid EXCEPT ![b] = req[b].bcount - n]
      /\ bio_error' = [bio_error EXCEPT ![b] = Positive(e)]
      /\ UNCHANGED <<req, disk_vars, bio_lock, bio_queue, submit_vars>>
      /\ req[b].cmd # "OTHER"
  BY RequestFacts
     DEF Complete, Biofinish, BounceAfter, BufferState, Reached, BounceFor
<1>2. /\ req[b].bcount \in Nat /\ n \in Nat /\ req[b].bcount - n \in Nat
      /\ req[b].bcount - n + n = req[b].bcount
      /\ e = 0 => n = req[b].bcount
  BY RequestFacts DEF Complete
<1>3. Positive(e) \in Nat /\ (Positive(e) = 0 => e = 0)
  <2>1. e \in Int
    OBVIOUS
  <2>2. QED
    BY <2>1 DEF Positive
<1>4. TypeOK'
  BY <1>1, <1>2, <1>3 DEF TypeOK, Places
<1>5. LockDiscipline'
  BY <1>1 DEF TypeOK, LockDiscipline, Inside
<1>6. OneOwner' /\ SubmitState'
  BY <1>1 DEF TypeOK, OneOwner, SubmitState
<1>7. LifeState' /\ FlushIsAlone' /\ NothingLeftBehind' /\ NoLostWakeup'
  BY <1>1 DEF TypeOK, LifeState, FlushIsAlone, NothingLeftBehind, NoLostWakeup
<1>8. NothingLeaks'
  BY <1>1 DEF TypeOK, NothingLeaks
<1>9. BufferState' /\ HonestAnswer'
  BY <1>1, <1>2, <1>3 DEF TypeOK, BufferState, HonestAnswer
<1>10. QED
  BY <1>4, <1>5, <1>6, <1>7, <1>8, <1>9

\* A disk is made.
LEMMA CreateDeviceStep ==
  ASSUME IInv, CreateDevice
  PROVE  IInv'
<1>1. TypeOK'
  BY DEF CreateDevice, IInv, TypeOK, Lives, bio_vars, data_vars, answer_vars,
     submit_vars
<1>2. LockDiscipline'
  BY DEF CreateDevice, IInv, LockDiscipline, Inside, bio_vars, submit_vars
<1>3. OneOwner'
  BY DEF CreateDevice, IInv, OneOwner, LifeState, bio_vars
<1>4. SubmitState'
  BY DEF CreateDevice, IInv, SubmitState, LifeState, submit_vars
<1>5. LifeState' /\ FlushIsAlone' /\ NothingLeftBehind' /\ NoLostWakeup'
  BY DEF CreateDevice, IInv, LifeState, FlushIsAlone, NothingLeftBehind,
     NoLostWakeup, bio_vars
<1>6. NothingLeaks'
  BY DEF CreateDevice, IInv, NothingLeaks, bio_vars, data_vars
<1>7. BufferState' /\ HonestAnswer'
  BY DEF CreateDevice, IInv, BufferState, HonestAnswer, bio_vars, data_vars,
     answer_vars
<1>8. QED
  BY <1>1, <1>2, <1>3, <1>4, <1>5, <1>6, <1>7 DEF IInv

\* A disk is shown to GEOM.
LEMMA ExposeDeviceStep ==
  ASSUME IInv, ExposeDevice
  PROVE  IInv'
<1>1. TypeOK'
  BY DEF ExposeDevice, IInv, TypeOK, Lives, bio_vars, data_vars, answer_vars,
     submit_vars
<1>2. LockDiscipline'
  BY DEF ExposeDevice, IInv, LockDiscipline, Inside, bio_vars, submit_vars
<1>3. OneOwner'
  BY DEF ExposeDevice, IInv, OneOwner, bio_vars, submit_vars
<1>4. SubmitState'
  BY DEF ExposeDevice, IInv, SubmitState, bio_vars, data_vars, submit_vars
<1>5. LifeState' /\ FlushIsAlone' /\ NothingLeftBehind' /\ NoLostWakeup'
  BY DEF ExposeDevice, IInv, LifeState, FlushIsAlone, NothingLeftBehind,
     NoLostWakeup, submit_vars
<1>6. NothingLeaks'
  BY DEF ExposeDevice, IInv, NothingLeaks, bio_vars, data_vars
<1>7. BufferState' /\ HonestAnswer'
  BY DEF ExposeDevice, IInv, BufferState, HonestAnswer, bio_vars, data_vars,
     answer_vars
<1>8. QED
  BY <1>1, <1>2, <1>3, <1>4, <1>5, <1>6, <1>7 DEF IInv

\* The submit thread starts.
LEMMA StartSubmitStep ==
  ASSUME IInv, StartSubmit
  PROVE  IInv'
<1>1. TypeOK'
  BY DEF StartSubmit, IInv, TypeOK, SubmitPlaces, bio_vars, data_vars,
     answer_vars, disk_vars
<1>2. LockDiscipline'
  BY DEF StartSubmit, IInv, LockDiscipline, Inside, bio_vars
<1>3. OneOwner'
  BY DEF StartSubmit, IInv, OneOwner, bio_vars
<1>4. SubmitState'
  BY DEF StartSubmit, SubmitState
<1>5. LifeState' /\ FlushIsAlone' /\ NothingLeftBehind' /\ NoLostWakeup'
  BY DEF StartSubmit, IInv, LifeState, FlushIsAlone, NothingLeftBehind,
     NoLostWakeup, bio_vars, disk_vars
<1>6. NothingLeaks'
  BY DEF StartSubmit, IInv, NothingLeaks, bio_vars, data_vars
<1>7. BufferState' /\ HonestAnswer'
  BY DEF StartSubmit, IInv, BufferState, HonestAnswer, bio_vars, data_vars,
     answer_vars
<1>8. QED
  BY <1>1, <1>2, <1>3, <1>4, <1>5, <1>6, <1>7 DEF IInv

\* The submit thread ends between two bios.
LEMMA StopSubmitStep ==
  ASSUME IInv, StopSubmit
  PROVE  IInv'
<1>1. TypeOK'
  BY DEF StopSubmit, IInv, TypeOK, SubmitPlaces, Lives, bio_vars, data_vars,
     answer_vars
<1>2. LockDiscipline'
  BY SentinelAssumption DEF StopSubmit, IInv, LockDiscipline, Inside,
     bio_vars
<1>3. OneOwner'
  BY DEF StopSubmit, IInv, OneOwner, bio_vars
<1>4. SubmitState'
  BY DEF StopSubmit, SubmitState
<1>5. LifeState' /\ FlushIsAlone' /\ NothingLeftBehind' /\ NoLostWakeup'
  BY DEF StopSubmit, IInv, LifeState, FlushIsAlone, NothingLeftBehind,
     NoLostWakeup, bio_vars
<1>6. NothingLeaks'
  BY DEF StopSubmit, IInv, NothingLeaks, bio_vars, data_vars
<1>7. BufferState' /\ HonestAnswer'
  BY DEF StopSubmit, IInv, BufferState, HonestAnswer, bio_vars, data_vars,
     answer_vars
<1>8. QED
  BY <1>1, <1>2, <1>3, <1>4, <1>5, <1>6, <1>7 DEF IInv

\* The device stops serving requests.
LEMMA DeviceFailsStep ==
  ASSUME IInv, DeviceFails
  PROVE  IInv'
<1>1. TypeOK'
  BY DEF DeviceFails, IInv, TypeOK, bio_vars, data_vars, answer_vars,
     submit_vars
<1>2. LockDiscipline'
  BY DEF DeviceFails, IInv, LockDiscipline, Inside, bio_vars, submit_vars
<1>3. OneOwner'
  BY DEF DeviceFails, IInv, OneOwner, bio_vars, submit_vars
<1>4. SubmitState'
  BY DEF DeviceFails, IInv, SubmitState, bio_vars, data_vars, submit_vars
<1>5. LifeState' /\ FlushIsAlone' /\ NothingLeftBehind' /\ NoLostWakeup'
  BY DEF DeviceFails, IInv, LifeState, FlushIsAlone, NothingLeftBehind,
     NoLostWakeup, bio_vars, submit_vars
<1>6. NothingLeaks'
  BY DEF DeviceFails, IInv, NothingLeaks, bio_vars, data_vars
<1>7. BufferState' /\ HonestAnswer'
  BY DEF DeviceFails, IInv, BufferState, HonestAnswer, bio_vars, data_vars,
     answer_vars
<1>8. QED
  BY <1>1, <1>2, <1>3, <1>4, <1>5, <1>6, <1>7 DEF IInv

\* Destruction begins with nothing at the device.
LEMMA DestroyBeginStep ==
  ASSUME IInv, DestroyBegin
  PROVE  IInv'
<1>1. TypeOK'
  BY DEF DestroyBegin, IInv, TypeOK, SubmitState, Lives, bio_vars, data_vars,
     answer_vars, submit_vars
<1>2. LockDiscipline'
  BY DEF DestroyBegin, IInv, LockDiscipline, Inside, bio_vars, submit_vars
<1>3. OneOwner'
  BY DEF DestroyBegin, IInv, OneOwner, LifeState, bio_vars
<1>4. SubmitState'
  BY DEF DestroyBegin, IInv, SubmitState, LifeState, submit_vars
<1>5. LifeState' /\ FlushIsAlone' /\ NothingLeftBehind' /\ NoLostWakeup'
  BY DEF DestroyBegin, IInv, LifeState, FlushIsAlone, NothingLeftBehind,
     NoLostWakeup, bio_vars, submit_vars
<1>6. NothingLeaks'
  BY DEF DestroyBegin, IInv, NothingLeaks, bio_vars, data_vars
<1>7. BufferState' /\ HonestAnswer'
  BY DEF DestroyBegin, IInv, BufferState, HonestAnswer, bio_vars, data_vars,
     answer_vars
<1>8. QED
  BY <1>1, <1>2, <1>3, <1>4, <1>5, <1>6, <1>7 DEF IInv

\* The disk is marked DEAD under the lock: nobody is being admitted.
LEMMA DestroyMarkStep ==
  ASSUME IInv, DestroyMark
  PROVE  IInv'
<1>1. TypeOK'
  BY DEF DestroyMark, IInv, TypeOK, Lives, bio_vars, data_vars, answer_vars,
     submit_vars
<1>2. LockDiscipline'
  BY DEF DestroyMark, IInv, LockDiscipline, Inside, bio_vars, submit_vars
<1>3. OneOwner'
  BY DEF DestroyMark, IInv, OneOwner, LifeState, bio_vars
<1>4. SubmitState'
  BY DEF DestroyMark, IInv, SubmitState, LifeState, submit_vars
<1>5. LifeState' /\ FlushIsAlone' /\ NothingLeftBehind' /\ NoLostWakeup'
  BY SentinelAssumption DEF DestroyMark, IInv, LifeState, LockDiscipline,
     Inside, FlushIsAlone, NothingLeftBehind, NoLostWakeup, bio_vars,
     submit_vars
<1>6. NothingLeaks'
  BY DEF DestroyMark, IInv, NothingLeaks, bio_vars, data_vars
<1>7. BufferState' /\ HonestAnswer'
  BY DEF DestroyMark, IInv, BufferState, HonestAnswer, bio_vars, data_vars,
     answer_vars
<1>8. QED
  BY <1>1, <1>2, <1>3, <1>4, <1>5, <1>6, <1>7 DEF IInv

\* The flush answers the head of the queue.
LEMMA DestroyFlushStep ==
  ASSUME IInv, DestroyFlush
  PROVE  IInv'
<1>q. /\ Head(bio_queue) \in Bios
      /\ where[Head(bio_queue)] = "queued"
      /\ bio_queue' \in Seq(Bios)
      /\ \A c \in Bios : OnQueue(bio_queue', c) <=> c # Head(bio_queue) /\ OnQueue(bio_queue, c)
      /\ Distinct(bio_queue')
  BY TakefirstFacts DEF IInv, DestroyFlush, Biofinish, TypeOK, OneOwner
<1>1. TypeOK'
  BY DEF DestroyFlush, Biofinish, IInv, TypeOK, Places, data_vars,
     submit_vars, disk_vars, ENXIO
<1>2. LockDiscipline'
  BY <1>q DEF DestroyFlush, Biofinish, IInv, LockDiscipline, Inside,
     submit_vars
<1>3. OneOwner'
  BY <1>q DEF DestroyFlush, Biofinish, IInv, TypeOK, OneOwner, LifeState
<1>4. SubmitState'
  BY DEF DestroyFlush, IInv, SubmitState, LifeState, submit_vars
<1>5. LifeState' /\ FlushIsAlone' /\ NothingLeftBehind' /\ NoLostWakeup'
  BY DEF DestroyFlush, Biofinish, IInv, LifeState, FlushIsAlone,
     NothingLeftBehind, NoLostWakeup, submit_vars, disk_vars
<1>6. NothingLeaks'
  BY <1>q DEF DestroyFlush, Biofinish, IInv, NothingLeaks, data_vars
<1>7. BufferState' /\ HonestAnswer'
  BY DEF DestroyFlush, Biofinish, IInv, TypeOK, BufferState, HonestAnswer,
     SubmitState, OneOwner, data_vars, BounceFor, ENXIO
<1>8. QED
  BY <1>1, <1>2, <1>3, <1>4, <1>5, <1>6, <1>7 DEF IInv

\* The disk leaves GEOM with its queue empty.
LEMMA DestroyKillStep ==
  ASSUME IInv, DestroyKill
  PROVE  IInv'
<1>1. TypeOK'
  BY DEF DestroyKill, IInv, TypeOK, Lives, bio_vars, data_vars, answer_vars,
     submit_vars
<1>2. LockDiscipline'
  BY DEF DestroyKill, IInv, LockDiscipline, Inside, bio_vars, submit_vars
<1>3. OneOwner'
  BY DEF DestroyKill, IInv, OneOwner, LifeState, bio_vars
<1>4. SubmitState'
  BY DEF DestroyKill, IInv, SubmitState, LifeState, submit_vars
<1>5. LifeState' /\ FlushIsAlone' /\ NothingLeftBehind' /\ NoLostWakeup'
  BY EmptyFacts DEF DestroyKill, IInv, LifeState, FlushIsAlone,
     NothingLeftBehind, NoLostWakeup, OneOwner, bio_vars, submit_vars
<1>6. NothingLeaks'
  BY DEF DestroyKill, IInv, NothingLeaks, bio_vars, data_vars
<1>7. BufferState' /\ HonestAnswer'
  BY DEF DestroyKill, IInv, BufferState, HonestAnswer, bio_vars, data_vars,
     answer_vars
<1>8. QED
  BY <1>1, <1>2, <1>3, <1>4, <1>5, <1>6, <1>7 DEF IInv

\* The disk is freed; calls still inside run wild.
LEMMA DestroyFreeStep ==
  ASSUME IInv, DestroyFree
  PROVE  IInv'
<1>1. TypeOK'
  BY DEF DestroyFree, IInv, TypeOK, Places, Lives, data_vars, answer_vars,
     submit_vars
<1>2. LockDiscipline'
  BY SentinelAssumption DEF DestroyFree, IInv, LockDiscipline, LifeState,
     Inside, submit_vars
<1>3. OneOwner'
  BY DEF DestroyFree, IInv, OneOwner, LifeState
<1>4. SubmitState'
  BY DEF DestroyFree, IInv, SubmitState, LifeState, submit_vars
<1>5. LifeState' /\ FlushIsAlone' /\ NothingLeftBehind' /\ NoLostWakeup'
  BY DEF DestroyFree, IInv, LifeState, FlushIsAlone, NothingLeftBehind,
     NoLostWakeup, submit_vars
<1>6. NothingLeaks'
  BY DEF DestroyFree, IInv, NothingLeaks, data_vars
<1>7. BufferState' /\ HonestAnswer'
  BY DEF DestroyFree, IInv, BufferState, HonestAnswer, data_vars, answer_vars
<1>8. QED
  BY <1>1, <1>2, <1>3, <1>4, <1>5, <1>6, <1>7 DEF IInv

-----------------------------------------------------------------------------
(* The invariant.                                                          *)

\* The invariant holds at first.
LEMMA InitIInv == Init => IInv
<1> SUFFICES ASSUME Init
             PROVE  IInv
  OBVIOUS
<1> USE DEF Init
<1>1. TypeOK
  <2>1. /\ req \in [Bios -> Requests] /\ where \in [Bios -> Places]
        /\ bio_error \in [Bios -> Nat] /\ bio_resid \in [Bios -> Nat]
        /\ moved \in [Bios -> Nat] /\ fbio \in [Bios -> Fbios \cup {NoFbio}]
        /\ bounce \in [Bios -> {"none", "raw", "copy"}]
    BY DEF Places
  <2>2. bio_queue \in Seq(Bios)
    BY EmptyFacts
  <2>3. /\ dev_state \in {"RUNNING", "DEAD"}
        /\ bio_lock \in Bios \cup {Submitter, NoThread}
        /\ cur \in Bios \cup {NoBio} /\ error \in Int
    OBVIOUS
  <2>4. submit \in SubmitPlaces /\ life \in Lives
    BY DEF SubmitPlaces, Lives
  <2>5. failing \in BOOLEAN
    OBVIOUS
  <2>6. QED
    BY <2>1, <2>2, <2>3, <2>4, <2>5 DEF TypeOK
<1>2. LockDiscipline /\ OneOwner /\ SubmitState
  BY SentinelAssumption, EmptyFacts
     DEF LockDiscipline, Inside, OneOwner, SubmitState
<1>3. LifeState /\ FlushIsAlone /\ NothingLeftBehind /\ NoLostWakeup
  BY DEF LifeState, FlushIsAlone, NothingLeftBehind, NoLostWakeup
<1>4. NothingLeaks /\ BufferState /\ HonestAnswer
  BY DEF NothingLeaks, BufferState, HonestAnswer
<1>5. QED
  BY <1>1, <1>2, <1>3, <1>4 DEF IInv

\* A stutter preserves the invariant.
LEMMA StutterStep ==
  ASSUME IInv, UNCHANGED vars
  PROVE  IInv'
BY DEF vars, bio_vars, data_vars, answer_vars, submit_vars, disk_vars, IInv,
       TypeOK,
       LockDiscipline, Inside, OneOwner, SubmitState, LifeState, FlushIsAlone,
       NothingLeftBehind, NoLostWakeup, NothingLeaks, BufferState, HonestAnswer

\* Every step preserves the invariant.
LEMMA NextIInv == IInv /\ [Next]_vars => IInv'
<1> SUFFICES ASSUME IInv, [Next]_vars
             PROVE  IInv'
  OBVIOUS
<1>1. ASSUME NEW b \in Bios, Strategy(b)
      PROVE  IInv'
  BY <1>1, StrategyEmptyStep, StrategyEnterStep, StrategyLockStep,
     StrategyRefuseStep,
     StrategyAdmitStep, StrategyInsertStep DEF Strategy
<1>2. ASSUME NEW b \in Bios, Completor(b)
      PROVE  IInv'
  BY <1>2, CompleteStep DEF Completor
<1>3. CASE Dequeue
  BY <1>3, DequeueTakeStep, DequeueAllocStep, DequeueAllocFailsStep,
     DequeueUnsupportedStep, DequeueMapFailsStep, DequeueReturnStep, DequeueUndoStep,
     DequeueRelockStep DEF Dequeue
<1>4. CASE Administer
  BY <1>4, CreateDeviceStep, ExposeDeviceStep, StartSubmitStep, StopSubmitStep,
     DeviceFailsStep, DestroyBeginStep, DestroyMarkStep, DestroyFlushStep,
     DestroyKillStep, DestroyFreeStep DEF Administer
<1>5. QED
  BY <1>1, <1>2, <1>3, <1>4, SubmitLockStep, SubmitWaitStep, StutterStep
     DEF Next

\* IInv holds in every reachable state.
THEOREM Invariance == Spec => []IInv
BY InitIInv, NextIInv, PTL DEF Spec

\* Every variable keeps its type.
THEOREM TypeCorrect == Spec => []TypeOK
BY Invariance, PTL DEF IInv

\* bio_lock is owned by the thread that believes it holds it, bioq_flush is
\* alone on the queue without it, and nobody sleeps on a queue with bios.
THEOREM Locking == Spec => [](LockDiscipline /\ FlushIsAlone /\ NoLostWakeup)
BY Invariance, PTL DEF IInv

\* A bio is in one place: queue, submit thread, device or issuer.
THEOREM Ownership == Spec => []OneOwner
BY Invariance, PTL DEF IInv

\* Its bounce buffer and fbio are with it only between take and completion, on
\* every error path, and no two bios share an fbio.
THEOREM NoBufferLeaks == Spec => []NothingLeaks
BY Invariance, PTL DEF IInv

\* When kfio_block_destroy_device frees a disk, no accepted bio is left.
THEOREM NoRequestIsLost == Spec => []NothingLeftBehind
BY Invariance, PTL DEF IInv

\* A success moved all the data, and bio_resid tells what was not moved.
THEOREM AnswersAreHonest == Spec => []HonestAnswer
BY Invariance, PTL DEF IInv

\* No step changes the answer of a bio that has one.
LEMMA FinalStep ==
  ASSUME IInv, [Next]_vars, NEW b \in Bios, where[b] = "done"
  PROVE  /\ where'[b] = "done"
         /\ bio_error'[b] = bio_error[b]
         /\ bio_resid'[b] = bio_resid[b]
         /\ moved'[b] = moved[b]
<1> USE DEF bio_vars, data_vars, answer_vars, submit_vars, disk_vars
<1>1. ASSUME NEW c \in Bios, Strategy(c)
      PROVE  /\ UNCHANGED moved /\ c # b
             /\ where' = [where EXCEPT ![c] = where'[c]]
             /\ bio_error' = [bio_error EXCEPT ![c] = bio_error'[c]]
             /\ bio_resid' = [bio_resid EXCEPT ![c] = bio_resid'[c]]
  BY <1>1
     DEF IInv, TypeOK, Strategy, StrategyEmpty, StrategyEnter, StrategyLock,
              StrategyRefuse, StrategyAdmit, StrategyInsert, Goto, Biofinish
<1>2. ASSUME NEW c \in Bios, Completor(c)
      PROVE  /\ c # b
             /\ where' = [where EXCEPT ![c] = where'[c]]
             /\ bio_error' = [bio_error EXCEPT ![c] = bio_error'[c]]
             /\ bio_resid' = [bio_resid EXCEPT ![c] = bio_resid'[c]]
             /\ moved' = [moved EXCEPT ![c] = moved'[c]]
  BY <1>2 DEF IInv, TypeOK, Completor, Complete, Biofinish
<1>3. CASE Dequeue
  <2>1. submit = "loop" /\ bio_queue # <<>> => where[Head(bio_queue)] = "queued"
    BY TakefirstFacts DEF IInv, TypeOK, OneOwner
  <2>2. submit \in {"alloc", "map", "fail"} => cur # b
    BY DEF IInv, SubmitState
  <2>3. submit = "relock" /\ Retryable(error) => cur # b
    BY DEF IInv, SubmitState
  <2>4. QED
    BY <1>3, <2>1, <2>2, <2>3
       DEF IInv, TypeOK, Dequeue, DequeueTake, DequeueAlloc, DequeueAllocFails, Fail,
           DequeueUnsupported, DequeueMapFails, DequeueReturn, DequeueUndo,
           DequeueRelock, Biofinish
<1>4. CASE Administer
  <2>1. CASE DestroyFlush
    <3>1. where[Head(bio_queue)] = "queued"
      BY <2>1, TakefirstFacts DEF DestroyFlush, IInv, TypeOK, OneOwner
    <3>2. QED
      BY <2>1, <3>1 DEF DestroyFlush, Biofinish, IInv, TypeOK
  <2>2. CASE DestroyFree
    BY <2>2 DEF DestroyFree, IInv, TypeOK
  <2>3. QED
    BY <1>4, <2>1, <2>2
       DEF Administer, CreateDevice, ExposeDevice, StartSubmit, StopSubmit,
           DeviceFails, DestroyBegin, DestroyMark, DestroyKill
<1>5. CASE SubmitLock \/ SubmitWait \/ UNCHANGED vars
  BY <1>5 DEF SubmitLock, SubmitWait, vars
<1>6. ASSUME NEW c \in Bios, Strategy(c) \/ Completor(c)
      PROVE  /\ where'[b] = "done"
             /\ bio_error'[b] = bio_error[b]
             /\ bio_resid'[b] = bio_resid[b]
             /\ moved'[b] = moved[b]
  BY <1>6, <1>1, <1>2 DEF IInv, TypeOK
<1>7. QED
  BY <1>3, <1>4, <1>5, <1>6 DEF Next

\* Once answered, a bio is not touched again by strategy, dequeue,
\* completor, flush or a later disk.
THEOREM AnswersAreFinal == Spec => AnswerIsFinal
<1>1. IInv /\ [Next]_vars =>
        [\A b \in Bios : where[b] = "done" =>
           /\ where'[b] = "done"
           /\ bio_error'[b] = bio_error[b]
           /\ bio_resid'[b] = bio_resid[b]
           /\ moved'[b] = moved[b]]_vars
  BY FinalStep
<1>2. QED
  BY <1>1, Invariance, PTL DEF Spec, AnswerIsFinal

-----------------------------------------------------------------------------
(* BlockQueue implements BioService.                                       *)

phaseOf == [b \in Bios |-> Phase(b)]
verdictOf == [b \in Bios |-> Verdict(b)]

\* The initial states are the service's.
LEMMA InitRefines == Init => Service!Init
BY DEF Init, Service!Init, Phase, Verdict

\* A step that changes where and bio_error at most at b changes the abstract
\* state at most at b.
LEMMA MoveOne ==
  ASSUME NEW b \in Bios,
         \A c \in Bios \ {b} : where'[c] = where[c] /\ bio_error'[c] = bio_error[c]
  PROVE  /\ phaseOf' = [phaseOf EXCEPT ![b] = Phase(b)']
         /\ verdictOf' = [verdictOf EXCEPT ![b] = Verdict(b)']
<1>1. \A c \in Bios \ {b} : Phase(c)' = Phase(c) /\ Verdict(c)' = Verdict(c)
  BY DEF Phase, Verdict
<1>2. QED
  BY <1>1 DEF phaseOf, verdictOf

\* A step that moves bios only within a phase is a stutter of the service.
LEMMA StutterRefines ==
  ASSUME \A c \in Bios : Phase(c)' = Phase(c) /\ Verdict(c)' = Verdict(c),
         (life # "absent")' = (life # "absent")
  PROVE  UNCHANGED Service!vars
BY DEF Service!vars

\* A step of a strategy call issues, accepts or answers its bio, or stutters.
LEMMA StrategyRefines ==
  ASSUME IInv, NEW b \in Bios, Strategy(b)
  PROVE  [Service!Next]_Service!vars
<1>1. /\ where' = [where EXCEPT ![b] = where'[b]]
      /\ bio_error' = [bio_error EXCEPT ![b] = bio_error'[b]]
      /\ life' = life
  BY DEF IInv, TypeOK, Strategy, StrategyEmpty, StrategyEnter, StrategyLock,
         StrategyRefuse, StrategyAdmit, StrategyInsert, Goto, Biofinish, disk_vars,
         answer_vars
<1>2. /\ phaseOf' = [phaseOf EXCEPT ![b] = Phase(b)']
      /\ verdictOf' = [verdictOf EXCEPT ![b] = Verdict(b)']
  BY <1>1, MoveOne DEF IInv, TypeOK
<1>3. CASE StrategyEmpty(b)
  <2>1. where[b] = "new" /\ where'[b] = "done" /\ bio_error'[b] = 0 /\ life # "absent"
    BY <1>3 DEF StrategyEmpty, Biofinish, Visible, IInv, TypeOK
  <2>2. Service!AnswerEarly(b)
    BY <1>1, <1>2, <2>1
       DEF Service!AnswerEarly, Service!Move, Phase, Verdict, phaseOf,
           verdictOf
  <2>3. QED
    BY <2>2 DEF Service!Next
<1>4. CASE StrategyEnter(b)
  <2>1. where[b] = "new" /\ where'[b] = "strategy" /\ life # "absent"
    BY <1>4 DEF StrategyEnter, Goto, Visible, IInv, TypeOK
  <2>2. Service!Issue(b)
    BY <1>1, <1>2, <2>1
       DEF Service!Issue, Service!Move, Phase, Verdict, phaseOf, verdictOf
  <2>3. QED
    BY <2>2 DEF Service!Next
<1>5. CASE StrategyRefuse(b)
  <2>1. where[b] = "check" /\ where'[b] = "done" /\ bio_error'[b] # 0 /\ life # "absent"
    BY <1>5 DEF StrategyRefuse, Biofinish, ENXIO, IInv, TypeOK, LifeState
  <2>2. Service!AnswerEarly(b)
    BY <1>1, <1>2, <2>1
       DEF Service!AnswerEarly, Service!Move, Phase, Verdict, phaseOf,
           verdictOf
  <2>3. QED
    BY <2>2 DEF Service!Next
<1>6. CASE StrategyInsert(b)
  <2>1. where[b] = "admit" /\ where'[b] = "queued" /\ life # "absent"
    BY <1>6 DEF StrategyInsert, Goto, IInv, TypeOK, LifeState
  <2>2. Service!Accept(b)
    BY <1>1, <1>2, <2>1
       DEF Service!Accept, Service!Move, Phase, Verdict, phaseOf, verdictOf
  <2>3. QED
    BY <2>2 DEF Service!Next
<1>7. CASE StrategyLock(b) \/ StrategyAdmit(b)
  <2>1. where[b] \in {"strategy", "check"} /\ where'[b] \in {"check", "admit"}
    BY <1>7 DEF StrategyLock, StrategyAdmit, Goto, IInv, TypeOK
  <2>2. \A c \in Bios : Phase(c)' = Phase(c) /\ Verdict(c)' = Verdict(c)
    BY <1>1, <2>1 DEF Phase, Verdict, IInv, TypeOK
  <2>3. QED
    BY <1>1, <2>2, StutterRefines
<1>8. QED
  BY <1>3, <1>4, <1>5, <1>6, <1>7 DEF Strategy

\* Every way an accepted bio is answered is the service's Answer.
LEMMA AnswerRefines ==
  ASSUME NEW b \in Bios, where \in [Bios -> Places],
         where[b] \in {"queued", "held", "device"}, life # "absent", life' = life,
         where' = [where EXCEPT ![b] = "done"],
         \A c \in Bios \ {b} : bio_error'[c] = bio_error[c]
  PROVE  Service!Next
<1>1. where'[b] = "done" /\ \A c \in Bios \ {b} : where'[c] = where[c]
  OBVIOUS
<1>2. /\ phaseOf' = [phaseOf EXCEPT ![b] = Phase(b)']
      /\ verdictOf' = [verdictOf EXCEPT ![b] = Verdict(b)']
  BY <1>1, MoveOne
<1>3. /\ Phase(b) = "accepted" /\ Phase(b)' = "answered"
      /\ Verdict(b)' \in {"success", "failure"}
  BY <1>1 DEF Phase, Verdict
<1>4. Service!Answer(b)
  BY <1>2, <1>3
     DEF Service!Answer, Service!Move, Service!Verdicts, phaseOf, verdictOf
<1>5. QED
  BY <1>4 DEF Service!Next

\* A step of the submit thread answers one accepted bio or stutters.
LEMMA DequeueRefines ==
  ASSUME IInv, Dequeue
  PROVE  [Service!Next]_Service!vars
<1> USE DEF IInv, TypeOK, disk_vars, answer_vars, data_vars, bio_vars
<1>1. CASE DequeueUndo /\ ~Retryable(error)
  <2>1. cur \in Bios /\ where[cur] = "held" /\ life # "absent"
    BY <1>1 DEF DequeueUndo, SubmitState, LifeState
  <2>2. QED
    BY <1>1, <2>1, AnswerRefines DEF DequeueUndo, Biofinish
<1>2. CASE DequeueTake
  <2>1. Head(bio_queue) \in Bios /\ where[Head(bio_queue)] = "queued"
    BY <1>2, TakefirstFacts DEF DequeueTake, OneOwner
  <2>2. \A c \in Bios : Phase(c)' = Phase(c) /\ Verdict(c)' = Verdict(c)
    BY <1>2, <2>1 DEF DequeueTake, Phase, Verdict
  <2>3. QED
    BY <1>2, <2>2, StutterRefines DEF DequeueTake
<1>3. CASE DequeueReturn \/ DequeueRelock
  <2>1. cur \in Bios /\ life' = life /\ UNCHANGED bio_error
    BY <1>3 DEF DequeueReturn, DequeueRelock, SubmitState
  <2>2. \/ UNCHANGED where
        \/ where[cur] = "held" /\ \E to \in {"device", "queued"} : where' = [where EXCEPT ![cur] = to]
    BY <1>3 DEF DequeueReturn, DequeueRelock, SubmitState
  <2>3. \A c \in Bios : Phase(c)' = Phase(c) /\ Verdict(c)' = Verdict(c)
    BY <2>1, <2>2 DEF Phase, Verdict
  <2>4. QED
    BY <2>1, <2>3, StutterRefines
<1>4. ASSUME ~(DequeueUndo /\ ~Retryable(error)), ~DequeueTake,
             ~(DequeueReturn \/ DequeueRelock)
      PROVE  [Service!Next]_Service!vars
  <2>1. UNCHANGED <<where, bio_error, life>>
    BY <1>4 DEF Dequeue, DequeueAlloc, DequeueAllocFails, DequeueUnsupported,
                DequeueMapFails, Fail, DequeueUndo
  <2>2. \A c \in Bios : Phase(c)' = Phase(c) /\ Verdict(c)' = Verdict(c)
    BY <2>1 DEF Phase, Verdict
  <2>3. QED
    BY <2>1, <2>2, StutterRefines
<1>5. QED
  BY <1>1, <1>2, <1>3, <1>4

\* Creation and destruction bring the service up and take it down; the flush
\* answers.
LEMMA AdministerRefines ==
  ASSUME IInv, Administer
  PROVE  [Service!Next]_Service!vars
<1> USE DEF IInv, TypeOK, disk_vars, answer_vars, data_vars, bio_vars
<1>1. CASE DestroyFlush
  <2>1. Head(bio_queue) \in Bios /\ where[Head(bio_queue)] = "queued" /\ life # "absent"
    BY <1>1, TakefirstFacts DEF DestroyFlush, OneOwner
  <2>2. QED
    BY <1>1, <2>1, AnswerRefines DEF DestroyFlush, Biofinish
<1>2. CASE DestroyFree
  <2>1. \A c \in Bios : Phase(c)' = Phase(c) /\ Verdict(c)' = Verdict(c)
    BY <1>2 DEF DestroyFree, Phase, Verdict
  <2>2. \A c \in Bios : Phase(c) # "accepted"
    BY <1>2 DEF DestroyFree, NothingLeftBehind, Phase
  <2>3. Service!TakeDown
    BY <1>2, <2>1, <2>2 DEF DestroyFree, Service!TakeDown
  <2>4. QED
    BY <2>3 DEF Service!Next
<1>3. CASE CreateDevice
  <2>1. \A c \in Bios : Phase(c)' = Phase(c) /\ Verdict(c)' = Verdict(c)
    BY <1>3 DEF CreateDevice, Phase, Verdict
  <2>2. Service!BringUp
    BY <1>3, <2>1 DEF CreateDevice, Service!BringUp
  <2>3. QED
    BY <2>2 DEF Service!Next
<1>4. ASSUME ~DestroyFlush, ~DestroyFree, ~CreateDevice
      PROVE  [Service!Next]_Service!vars
  <2>1. UNCHANGED <<where, bio_error>> /\ (life # "absent")' = (life # "absent")
    BY <1>4 DEF Administer, ExposeDevice, StartSubmit, StopSubmit, DeviceFails,
                DestroyBegin, DestroyMark, DestroyKill
  <2>2. \A c \in Bios : Phase(c)' = Phase(c) /\ Verdict(c)' = Verdict(c)
    BY <2>1 DEF Phase, Verdict
  <2>3. QED
    BY <2>1, <2>2, StutterRefines
<1>5. QED
  BY <1>1, <1>2, <1>3, <1>4

\* Every step is a step of the service or a stutter.
LEMMA NextRefines == IInv /\ [Next]_vars => [Service!Next]_Service!vars
<1> SUFFICES ASSUME IInv, [Next]_vars
             PROVE  [Service!Next]_Service!vars
  OBVIOUS
<1>1. ASSUME NEW b \in Bios, Completor(b)
      PROVE  [Service!Next]_Service!vars
  <2>1. /\ where[b] = "device" /\ life # "absent" /\ life' = life
        /\ where' = [where EXCEPT ![b] = "done"]
        /\ \A c \in Bios \ {b} : bio_error'[c] = bio_error[c]
    BY <1>1
       DEF Completor, Complete, Biofinish, disk_vars, IInv, TypeOK, LifeState
  <2>2. QED
    BY <2>1, AnswerRefines DEF IInv, TypeOK
<1>2. CASE SubmitLock \/ SubmitWait \/ UNCHANGED vars
  <2>1. UNCHANGED <<where, bio_error, life>>
    BY <1>2 DEF SubmitLock, SubmitWait, vars, bio_vars, answer_vars, disk_vars
  <2>2. \A c \in Bios : Phase(c)' = Phase(c) /\ Verdict(c)' = Verdict(c)
    BY <2>1 DEF Phase, Verdict
  <2>3. QED
    BY <2>1, <2>2, StutterRefines
<1>3. QED
  BY <1>1, <1>2, StrategyRefines, DequeueRefines, AdministerRefines DEF Next

\* The disk is a BioService: every bio is answered at most once, accepted
\* before that or refused, and none is accepted and dropped.
THEOREM Refinement == Spec => ImplementsService
BY InitRefines, NextRefines, Invariance, PTL
   DEF Spec, ImplementsService, Service!SafeSpec
=============================================================================
