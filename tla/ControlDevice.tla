--------------------------- MODULE ControlDevice ---------------------------
(***************************************************************************)
(* The control device of a card (src/driver/cdev.c): the core creates and  *)
(* destroys it, threads of applications open it, send it ioctls and poll   *)
(* it for alerts.                                                          *)
(*                                                                         *)
(* External, and modelled as cdev.c uses them: the core, which sets an     *)
(* alert and then calls kfio_poll_wake, answers ioctls, and frees the      *)
(* fusion_nand_device after fusion_destroy_control_device; devfs, whose    *)
(* destroy_dev lets no new call in and waits for those inside; and         *)
(* poll(2), which sleeps after a method that reported no event, never      *)
(* misses a selwakeup between selrecord and its sleep, and calls the       *)
(* method again when woken.                                                *)
(***************************************************************************)
EXTENDS Integers

CONSTANTS
  Threads,    \* the threads of applications
  Results     \* what fusion_control_ioctl may return

ASSUME ResultsAssumption == Results \subseteq Int

VARIABLES
  life,       \* how far the core has come with the device
  cdev,       \* pdev->cdev # NULL
  si_drv1,    \* cdev->si_drv1 # NULL
  alert,      \* is_nand_device_event_set
  waking,     \* an alert was set and kfio_poll_wake not yet called
  recorded,   \* the threads on the device's selinfo
  opened,     \* does the thread have the device open?
  pc,         \* where the thread is
  wants,      \* did it poll for POLLIN or POLLPRI?
  missed,     \* an alert came between its check and its selrecord
  answer      \* what its last call returned

core_vars == <<life, cdev, si_drv1>>
alert_vars == <<alert, waking>>
poll_vars == <<recorded, wants, missed>>
vars == <<core_vars, alert_vars, poll_vars, opened, pc, answer>>

ENXIO == 6
POLLIN == 1

Goto(t, to) == pc' = [pc EXCEPT ![t] = to]
Return(t, a) == Goto(t, "user") /\ answer' = [answer EXCEPT ![t] = a]

\* devfs lets calls in from make_dev until destroy_dev.
NodeOpen == life \in {"made", "up"}

Inside(t) == pc[t] \in {"ioctl", "poll", "record"}

-----------------------------------------------------------------------------
Init ==
  /\ life = "off" /\ cdev = FALSE /\ si_drv1 = FALSE
  /\ alert = FALSE /\ waking = FALSE
  /\ recorded = {}
  /\ opened = [t \in Threads |-> FALSE]
  /\ pc = [t \in Threads |-> "user"]
  /\ wants = [t \in Threads |-> FALSE]
  /\ missed = [t \in Threads |-> FALSE]
  /\ answer = [t \in Threads |-> 0]

\* fusion_create_control_device: the device is there before it is ready.
MakeDev ==
  /\ life = "off"
  /\ \/ life' = "made" /\ cdev' = TRUE
     \/ life' = "failed" /\ cdev' = FALSE
  /\ UNCHANGED <<si_drv1, alert_vars, poll_vars, opened, pc, answer>>

SetDrv1 ==
  /\ life = "made"
  /\ si_drv1' = TRUE
  /\ life' = "up"
  /\ UNCHANGED <<cdev, alert_vars, poll_vars, opened, pc, answer>>

\* fusion_destroy_control_device, of a device that could not be made too.
DestroyBegin ==
  /\ life \in {"up", "failed"}
  /\ life' = IF cdev THEN "closing" ELSE "down"
  /\ opened' = [t \in Threads |-> FALSE]
  /\ UNCHANGED <<cdev, si_drv1, alert_vars, poll_vars, pc, answer>>

\* destroy_dev returns when no call is left.
DestroyEnd ==
  /\ life = "closing"
  /\ \A t \in Threads : ~Inside(t)
  /\ cdev' = FALSE /\ si_drv1' = FALSE
  /\ life' = "down"
  /\ UNCHANGED <<alert_vars, poll_vars, opened, pc, answer>>

\* The core's: the device's memory goes, and with it the selinfo, which
\* neither destruction nor destroy_dev has told the threads asleep on it.
FreeNand ==
  /\ life = "down"
  /\ life' = "off"
  /\ alert' = FALSE /\ waking' = FALSE /\ recorded' = {}
  /\ pc' = [t \in Threads |-> IF pc[t] = "asleep" THEN "stranded" ELSE pc[t]]
  /\ UNCHANGED <<cdev, si_drv1, wants, missed, opened, answer>>

\* The core's: something interesting happens.
SetAlert ==
  /\ life # "off"
  /\ alert' = TRUE /\ waking' = TRUE
  /\ missed' = [t \in Threads |-> missed[t] \/ pc[t] = "record"]
  /\ UNCHANGED <<core_vars, recorded, wants, opened, pc, answer>>

\* Mutation: one thread is woken.
Wake_One ==
  /\ waking
  /\ waking' = FALSE
  /\ IF recorded = {}
       THEN UNCHANGED <<recorded, pc>>
       ELSE \E t \in recorded : recorded' = recorded \ {t} /\ Goto(t, "woken")
  /\ UNCHANGED <<core_vars, alert, wants, missed, opened, answer>>

\* kfio_poll_wake.
Wake ==
  /\ waking
  /\ waking' = FALSE
  /\ recorded' = {}
  /\ pc' = [t \in Threads |-> IF t \in recorded THEN "woken" ELSE pc[t]]
  /\ UNCHANGED <<core_vars, alert, wants, missed, opened, answer>>

-----------------------------------------------------------------------------
\* Mutation: the device is taken to be ready.
Ready_Always == TRUE

\* What freebsd_char_open asks.
Ready == si_drv1

Open(t) ==
  /\ pc[t] = "user" /\ ~opened[t] /\ NodeOpen
  /\ opened' = [opened EXCEPT ![t] = Ready]
  /\ answer' = [answer EXCEPT ![t] = IF Ready THEN 0 ELSE ENXIO]
  /\ UNCHANGED <<core_vars, alert_vars, poll_vars, pc>>

Close(t) ==
  /\ pc[t] = "user" /\ opened[t]
  /\ opened' = [opened EXCEPT ![t] = FALSE]
  /\ UNCHANGED <<core_vars, alert_vars, poll_vars, pc, answer>>

Ioctl(t) ==
  /\ pc[t] = "user" /\ opened[t] /\ NodeOpen
  /\ IF si_drv1 THEN Goto(t, "ioctl") /\ UNCHANGED answer ELSE Return(t, ENXIO)
  /\ UNCHANGED <<core_vars, alert_vars, poll_vars, opened>>

Errno(result) == IF result < 0 THEN -result ELSE 0

\* The ioctl that fetches the alert is one of those the core answers.
IoctlReturn(t) ==
  /\ pc[t] = "ioctl"
  /\ \E result \in Results : Return(t, Errno(result))
  /\ alert' \in {alert, FALSE}
  /\ UNCHANGED <<core_vars, waking, poll_vars, opened>>

Poll(t) ==
  /\ pc[t] = "user" /\ opened[t] /\ NodeOpen
  /\ IF si_drv1 THEN Goto(t, "poll") /\ UNCHANGED answer ELSE Return(t, ENXIO)
  /\ \E w \in BOOLEAN : wants' = [wants EXCEPT ![t] = w]
  /\ missed' = [missed EXCEPT ![t] = FALSE]
  /\ UNCHANGED <<core_vars, alert_vars, recorded, opened>>

\* No event that could ever come was asked for.
PollNothing(t) ==
  /\ pc[t] = "poll" /\ ~wants[t]
  /\ Goto(t, "asleep")
  /\ UNCHANGED <<core_vars, alert_vars, poll_vars, opened, answer>>

PollReady(t) ==
  /\ pc[t] = "poll" /\ wants[t] /\ alert
  /\ Return(t, POLLIN)
  /\ UNCHANGED <<core_vars, alert_vars, poll_vars, opened>>

PollNotReady(t) ==
  /\ pc[t] = "poll" /\ wants[t] /\ ~alert
  /\ Goto(t, "record")
  /\ UNCHANGED <<core_vars, alert_vars, poll_vars, opened, answer>>

Selrecord(t) ==
  /\ pc[t] = "record"
  /\ recorded' = recorded \cup {t}
  /\ Goto(t, "asleep")
  /\ UNCHANGED <<core_vars, alert_vars, wants, missed, opened, answer>>

\* poll(2): a woken thread asks again, one whose time is up gives up.
Rescan(t) ==
  /\ pc[t] = "woken"
  /\ IF opened[t] THEN Goto(t, "poll") /\ UNCHANGED answer ELSE Return(t, ENXIO)
  /\ missed' = [missed EXCEPT ![t] = FALSE]
  /\ UNCHANGED <<core_vars, alert_vars, recorded, wants, opened>>

Timeout(t) ==
  /\ pc[t] \in {"asleep", "stranded"}
  /\ Return(t, 0)
  /\ recorded' = recorded \ {t}
  /\ missed' = [missed EXCEPT ![t] = FALSE]
  /\ UNCHANGED <<core_vars, alert_vars, wants, opened>>

-----------------------------------------------------------------------------
Core == MakeDev \/ SetDrv1 \/ DestroyBegin \/ DestroyEnd \/ FreeNand
        \/ SetAlert \/ Wake

\* What a thread does once it has called: it is running, or was woken.
Proceed(t) == IoctlReturn(t) \/ PollNothing(t) \/ PollReady(t) \/ PollNotReady(t)
              \/ Selrecord(t) \/ Rescan(t)

Call(t) == Open(t) \/ Close(t) \/ Ioctl(t) \/ Poll(t) \/ Timeout(t)

Next == Core \/ \E t \in Threads : Proceed(t) \/ Call(t)

Spec == Init /\ [][Next]_vars

\* A thread in the driver runs on, and the core calls kfio_poll_wake after an
\* alert; when alerts, calls and timeouts come is left open.
Fairness == WF_vars(Wake) /\ \A t \in Threads : WF_vars(Proceed(t))

FairSpec == Spec /\ Fairness

-----------------------------------------------------------------------------
(* Properties.                                                             *)

TypeOK ==
  /\ life \in {"off", "made", "up", "closing", "failed", "down"}
  /\ cdev \in BOOLEAN /\ si_drv1 \in BOOLEAN
  /\ alert \in BOOLEAN /\ waking \in BOOLEAN
  /\ recorded \subseteq Threads
  /\ opened \in [Threads -> BOOLEAN]
  /\ pc \in [Threads -> {"user", "ioctl", "poll", "record", "asleep", "woken",
                         "stranded"}]
  /\ wants \in [Threads -> BOOLEAN] /\ missed \in [Threads -> BOOLEAN]
  /\ answer \in [Threads -> Nat]

\* A call on an open device has a device to act on, from its first read of
\* si_drv1 to its end: no thread opens the device between make_dev and the
\* assignment of si_drv1, and none is inside when its memory goes.  So the
\* ENXIO of freebsd_char_poll, which poll(2) would take for POLLPRI and
\* POLLOUT, is never given.
CallsAreBacked ==
  /\ \A t \in Threads : opened[t] => si_drv1
  /\ \A t \in Threads : Inside(t) => si_drv1 /\ life \in {"up", "closing"}

\* "the user-land application that has called poll(), epoll(), or select()
\* will get notified when something interesting happens"
Notified ==
  \A t \in Threads : pc[t] = "asleep" /\ wants[t] /\ alert ~> pc[t] # "asleep"

\* The race the comment in freebsd_char_poll tells of is the only way to miss
\* an alert: a thread asleep on an alert whose wake-up is over had checked for
\* it before, and was recorded after, it was set.
OnlyTheRaceIsMissed ==
  \A t \in Threads :
    pc[t] = "asleep" /\ wants[t] /\ alert /\ ~waking => missed[t]

-----------------------------------------------------------------------------
(* The inductive invariant.                                                *)

\* The node is there from make_dev to destroy_dev, and ready but at first.
LifeInv ==
  /\ cdev <=> life \in {"made", "up", "closing"}
  /\ si_drv1 <=> life \in {"up", "closing"}
  /\ \A t \in Threads : opened[t] => life = "up"

\* A thread about to be recorded checked when there was no alert, and one
\* asleep is recorded.
RecordInv ==
  \A t \in Threads :
    /\ pc[t] = "record" /\ alert => missed[t]
    /\ pc[t] = "asleep" /\ wants[t] => t \in recorded

IInv == TypeOK /\ LifeInv /\ CallsAreBacked /\ RecordInv /\ OnlyTheRaceIsMissed
=============================================================================
