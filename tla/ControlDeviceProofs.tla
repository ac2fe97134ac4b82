------------------------ MODULE ControlDeviceProofs ------------------------
(***************************************************************************)
(* Theorems about ControlDevice, for any number of threads and whatever    *)
(* the core answers to an ioctl.                                           *)
(***************************************************************************)
EXTENDS ControlDevice, TLAPS

USE DEF core_vars, alert_vars, poll_vars, Goto, Return, NodeOpen, Inside

LEMMA InitInv == Init => IInv
<1> SUFFICES ASSUME Init PROVE IInv
  OBVIOUS
<1>1. TypeOK
  BY DEF Init, TypeOK
<1>2. /\ LifeInv /\ CallsAreBacked
      /\ RecordInv /\ OnlyTheRaceIsMissed
  BY DEF Init, LifeInv, CallsAreBacked, RecordInv, OnlyTheRaceIsMissed
<1> QED
  BY <1>1, <1>2 DEF IInv

\* What fusion_control_ioctl returns leaves the driver as an errno value.
LEMMA ErrnoIsNat == \A result \in Results : Errno(result) \in Nat
BY ResultsAssumption DEF Errno

\* The core's steps.
LEMMA CoreInv ==
  ASSUME IInv, Core
  PROVE  IInv'
<1> USE DEF IInv, TypeOK, LifeInv, CallsAreBacked, RecordInv, OnlyTheRaceIsMissed
<1>1. CASE MakeDev
  BY <1>1 DEF MakeDev
<1>2. CASE SetDrv1
  BY <1>2 DEF SetDrv1
<1>3. CASE DestroyBegin
  BY <1>3 DEF DestroyBegin
<1>4. CASE DestroyEnd
  BY <1>4 DEF DestroyEnd
<1>5. CASE FreeNand
  BY <1>5 DEF FreeNand
<1>6. CASE SetAlert
  BY <1>6 DEF SetAlert
<1>7. CASE Wake
  BY <1>7 DEF Wake
<1> QED
  BY <1>1, <1>2, <1>3, <1>4, <1>5, <1>6, <1>7 DEF Core

\* The steps of a thread.
LEMMA ThreadInv ==
  ASSUME IInv, NEW t \in Threads, Proceed(t) \/ Call(t)
  PROVE  IInv'
<1> USE DEF IInv, TypeOK, LifeInv, CallsAreBacked, RecordInv, OnlyTheRaceIsMissed
<1>1. CASE IoctlReturn(t)
  <2>1. PICK result \in Results : Return(t, Errno(result))
    BY <1>1 DEF IoctlReturn
  <2>2. /\ Errno(result) \in Nat
        /\ pc[t] = "ioctl"
        /\ UNCHANGED <<life, cdev, si_drv1, waking, poll_vars, opened>>
    BY <1>1, ErrnoIsNat DEF IoctlReturn
  <2>3. /\ pc' = [pc EXCEPT ![t] = "user"]
        /\ answer' = [answer EXCEPT ![t] = Errno(result)]
    BY <2>1
  <2>4. alert' = alert \/ alert' = FALSE
    BY <1>1 DEF IoctlReturn
  <2>5. CASE alert' = alert
    BY <2>2, <2>3, <2>5
  <2>6. CASE alert' = FALSE
    BY <2>2, <2>3, <2>6
  <2> QED
    BY <2>4, <2>5, <2>6
<1>2. CASE PollNothing(t)
  BY <1>2 DEF PollNothing
<1>3. CASE PollReady(t)
  BY <1>3 DEF PollReady, POLLIN
<1>4. CASE PollNotReady(t)
  BY <1>4 DEF PollNotReady
<1>5. CASE Selrecord(t)
  BY <1>5 DEF Selrecord
<1>6. CASE Rescan(t)
  BY <1>6 DEF Rescan, ENXIO
<1>7. CASE Open(t)
  BY <1>7 DEF Open, Ready, ENXIO
<1>8. CASE Close(t)
  BY <1>8 DEF Close
<1>9. CASE Ioctl(t)
  BY <1>9 DEF Ioctl, ENXIO
<1>10. CASE Poll(t)
  BY <1>10 DEF Poll, ENXIO
<1>11. CASE Timeout(t)
  BY <1>11 DEF Timeout
<1> QED
  BY <1>1, <1>2, <1>3, <1>4, <1>5, <1>6, <1>7, <1>8, <1>9, <1>10, <1>11
     DEF Proceed, Call

LEMMA NextInv == IInv /\ [Next]_vars => IInv'
<1> SUFFICES ASSUME IInv, [Next]_vars PROVE IInv'
  OBVIOUS
<1>1. CASE Next
  BY <1>1, CoreInv, ThreadInv DEF Next
<1>2. CASE UNCHANGED vars
  BY <1>2 DEF vars, IInv, TypeOK, LifeInv, CallsAreBacked, RecordInv,
              OnlyTheRaceIsMissed
<1> QED
  BY <1>1, <1>2

\* IInv holds in every reachable state.
THEOREM Invariance == Spec => []IInv
BY InitInv, NextInv, PTL DEF Spec

\* Every variable keeps its type; no negative errno reaches an application.
THEOREM TypeCorrect == Spec => []TypeOK
<1>1. IInv => TypeOK
  BY DEF IInv
<1> QED
  BY <1>1, Invariance, PTL

\* A call on an open device has a device behind it from its begin to its end,
\* however creation, destruction and calls interleave.
THEOREM Backed == Spec => []CallsAreBacked
<1>1. IInv => CallsAreBacked
  BY DEF IInv
<1> QED
  BY <1>1, Invariance, PTL

\* No alert is missed but by the race freebsd_char_poll is commented with.
THEOREM RaceIsAll == Spec => []OnlyTheRaceIsMissed
<1>1. IInv => OnlyTheRaceIsMissed
  BY DEF IInv
<1> QED
  BY <1>1, Invariance, PTL
=============================================================================
