----------------------- MODULE DriverLifecycleProofs -----------------------
(***************************************************************************)
(* Theorems about DriverLifecycle, for any number of cards.                *)
(***************************************************************************)
EXTENDS DriverLifecycle, TLAPS

USE DEF load_vars, irq_vars, softc_vars, Set, Take, Give, Resources,
        Attaching, Leaving, Ending, Driven, Tagged, Mapped

LEMMA InitInv == Init => IInv
<1> SUFFICES ASSUME Init PROVE IInv
  OBVIOUS
<1>1. TypeOK
  <2>1. held \in [Devices -> [Resources -> 0 .. 1]]
    <3>1. [r \in Resources |-> 0] \in [Resources -> 0 .. 1]
      OBVIOUS
    <3> QED
      BY <3>1 DEF Init
  <2>2. pc \in [Devices -> Attaching \cup Leaving \cup Ending
                  \cup {"idle", "hooked", "startup", "attached", "off"}]
    BY DEF Init
  <2> QED
    BY <2>1, <2>2 DEF Init, TypeOK
<1>2. PointersTell /\ CoreOwnsIrq /\ LoadedIsUp
  BY DEF Init, PointersTell, CoreOwnsIrq, LoadedIsUp
<1> QED
  BY <1>1, <1>2 DEF IInv

\* Nothing else than an interrupt and a message is given back, of no other card.
LEMMA FreeIrqGivesBack ==
  ASSUME TypeOK, PointersTell, NEW d \in Devices, FreeIrq(d)
  PROVE  /\ held' \in [Devices -> [Resources -> 0 .. 1]]
         /\ \A e \in Devices \ {d} : held'[e] = held[e]
         /\ \A r \in {"bar", "tag", "hook"} : held'[d][r] = held[d][r]
         /\ held'[d]["irq"] = 0 /\ held'[d]["msi"] = 0
         /\ intr_cookie' = [intr_cookie EXCEPT ![d] = FALSE]
         /\ intr_resource' \in [Devices -> BOOLEAN]
<1> DEFINE msi == {r \in {"msi"} : held[d][r] > 0}
<1> USE DEF TypeOK, PointersTell, HasIrq
<1>1. CASE intr_cookie[d]
  <2>1. /\ Give(d, msi \cup {"irq"})
        /\ intr_cookie' = [intr_cookie EXCEPT ![d] = FALSE]
        /\ intr_resource' = [intr_resource EXCEPT ![d] = FALSE]
    BY <1>1 DEF FreeIrq
  <2>2. held[d]["irq"] = 1
    BY <1>1
  <2> QED
    BY <2>1, <2>2
<1>2. CASE ~intr_cookie[d]
  <2>1. Give(d, msi) /\ UNCHANGED irq_vars
    BY <1>2 DEF FreeIrq
  <2>2. held[d]["irq"] = 0
    BY <1>2
  <2> QED
    BY <1>2, <2>1, <2>2
<1> QED
  BY <1>1, <1>2

\* Attaching a card, with its failures.
LEMMA ProbeInv ==
  ASSUME IInv, NEW d \in Devices, PciProbe(d)
  PROVE  IInv'
<1> USE DEF IInv, TypeOK, PointersTell, CoreOwnsIrq, LoadedIsUp
<1>1. CASE Attach(d)
  BY <1>1 DEF Attach, Recognises
<1>2. CASE EnableBusmaster(d)
  BY <1>2 DEF EnableBusmaster
<1>3. CASE MapBar(d)
  BY <1>3 DEF MapBar
<1>4. CASE MapBarFails(d)
  BY <1>4 DEF MapBarFails
<1>5. CASE CreateTag(d)
  BY <1>5 DEF CreateTag
<1>6. CASE CreateTagFails(d)
  BY <1>6 DEF CreateTagFails
<1>7. CASE EstablishHook(d)
  BY <1>7 DEF EstablishHook
<1>8. CASE EstablishHookFails(d)
  BY <1>8 DEF EstablishHookFails
<1> QED
  BY <1>1, <1>2, <1>3, <1>4, <1>5, <1>6, <1>7, <1>8 DEF PciProbe

\* Start-up, interrupts, and the block device that comes and goes.
LEMMA StartupInv ==
  ASSUME IInv, NEW d \in Devices, PciStartup(d)
  PROVE  IInv'
<1> USE DEF IInv, TypeOK, PointersTell, CoreOwnsIrq, LoadedIsUp
<1>1. CASE Startup(d)
  BY <1>1 DEF Startup
<1>2. CASE EnableMsi(d)
  BY <1>2 DEF EnableMsi
<1>3. CASE RequestIrq(d)
  BY <1>3 DEF RequestIrq
<1>4. CASE RequestIrqFails(d)
  BY <1>4 DEF RequestIrqFails
<1>5. CASE StartupReady(d)
  BY <1>5 DEF StartupReady
<1>6. CASE StartupFails(d)
  <2>1. TypeOK'
    <3>1. FreeIrq(d)
      BY <1>6 DEF StartupFails
    <3>2. /\ held' \in [Devices -> [Resources -> 0 .. 1]]
          /\ intr_resource' \in [Devices -> BOOLEAN]
      BY <3>1, FreeIrqGivesBack
    <3>3. intr_cookie' = [intr_cookie EXCEPT ![d] = FALSE]
      BY <3>1, FreeIrqGivesBack
    <3> QED
      BY <1>6, <3>2, <3>3 DEF StartupFails
  <2>2. PointersTell'
    BY <1>6, FreeIrqGivesBack DEF StartupFails
  <2>3. CoreOwnsIrq'
    BY <1>6, FreeIrqGivesBack DEF StartupFails
  <2>4. LoadedIsUp'
    BY <1>6, FreeIrqGivesBack DEF StartupFails
  <2> QED
    BY <2>1, <2>2, <2>3, <2>4
<1>7. CASE AttachFio(d)
  BY <1>7 DEF AttachFio
<1>8. CASE DetachFio(d)
  BY <1>8 DEF DetachFio
<1> QED
  BY <1>1, <1>2, <1>3, <1>4, <1>5, <1>6, <1>7, <1>8 DEF PciStartup

\* Detach and shutdown.
LEMMA RemoveInv ==
  ASSUME IInv, NEW d \in Devices, PciRemove(d)
  PROVE  IInv'
<1> USE DEF IInv, TypeOK, PointersTell, CoreOwnsIrq, LoadedIsUp
<1>1. CASE Detach(d)
  BY <1>1 DEF Detach
<1>2. CASE FioDetaches(d)
  BY <1>2 DEF FioDetaches
<1>3. CASE FioDetachFails(d)
  BY <1>3 DEF FioDetachFails
<1>4. CASE Shutdown(d)
  BY <1>4 DEF Shutdown
<1>5. CASE ShutdownFio(d)
  BY <1>5 DEF ShutdownFio
<1>6. CASE DetachCore(d)
  <2>1. CASE prv[d]
    <3>1. /\ FreeIrq(d)
          /\ prv' = [prv EXCEPT ![d] = FALSE]
          /\ p_fio_device' = [p_fio_device EXCEPT ![d] = FALSE]
          /\ UNCHANGED <<load_vars, bar_resource, parent_dma_tag>>
      BY <1>6, <2>1 DEF DetachCore, CoreDrives
    <3>2. \/ pc[d] = "remove" /\ pc' = [pc EXCEPT ![d] = "unmap"]
          \/ pc[d] = "end_remove" /\ pc' = [pc EXCEPT ![d] = "end_unmap"]
      BY <1>6 DEF DetachCore
    <3>3. TypeOK'
      <4>1. /\ held' \in [Devices -> [Resources -> 0 .. 1]]
            /\ intr_resource' \in [Devices -> BOOLEAN]
        BY <3>1, FreeIrqGivesBack
      <4>2. intr_cookie' = [intr_cookie EXCEPT ![d] = FALSE]
        BY <3>1, FreeIrqGivesBack
      <4>3. pc' \in [Devices -> Attaching \cup Leaving \cup Ending
                       \cup {"idle", "hooked", "startup", "attached", "off"}]
        BY <3>2
      <4> QED
        BY <3>1, <4>1, <4>2, <4>3
    <3>4. PointersTell'
      BY <3>1, <3>2, FreeIrqGivesBack
    <3>5. CoreOwnsIrq'
      BY <3>1, <3>2, FreeIrqGivesBack
    <3>6. LoadedIsUp'
      BY <3>1, <3>2
    <3> QED
      BY <3>3, <3>4, <3>5, <3>6
  <2>2. CASE ~prv[d]
    BY <1>6, <2>2 DEF DetachCore, CoreDrives
  <2> QED
    BY <2>1, <2>2
<1>7. CASE UnmapBar(d)
  <2>1. TypeOK'
    <3>1. held' \in [Devices -> [Resources -> 0 .. 1]]
      <4>1. CASE bar_resource[d]
        BY <1>7, <4>1 DEF UnmapBar
      <4>2. CASE ~bar_resource[d]
        BY <1>7, <4>2 DEF UnmapBar
      <4> QED
        BY <4>1, <4>2
    <3> QED
      BY <1>7, <3>1 DEF UnmapBar
  <2>2. PointersTell'
    BY <1>7 DEF UnmapBar
  <2>3. CoreOwnsIrq'
    BY <1>7 DEF UnmapBar
  <2>4. LoadedIsUp'
    BY <1>7 DEF UnmapBar
  <2> QED
    BY <2>1, <2>2, <2>3, <2>4
<1>8. CASE DestroyTag(d)
  BY <1>8 DEF DestroyTag
<1> QED
  BY <1>1, <1>2, <1>3, <1>4, <1>5, <1>6, <1>7, <1>8 DEF PciRemove

\* Loading and unloading.
LEMMA LoadInv ==
  ASSUME IInv, UnloadBegin \/ UnloadEnd \/ \E n \in 0 .. Len(Parts) : Load(n)
  PROVE  IInv'
<1> USE DEF IInv, TypeOK, PointersTell, CoreOwnsIrq, LoadedIsUp
<1>1. CASE UnloadBegin
  BY <1>1 DEF UnloadBegin
<1>2. CASE UnloadEnd
  BY <1>2 DEF UnloadEnd
<1>3. ASSUME NEW n \in 0 .. Len(Parts), Load(n)
      PROVE  IInv'
  <2>1. Len(Parts) = 5
    BY DEF Parts
  <2>2. up' \subseteq AllParts
    BY <1>3, <2>1 DEF Load, AllParts
  <2>3. ~fusion_init_failed' => up' = AllParts
    <3>1. CASE n < Len(Parts)
      BY <1>3, <3>1 DEF Load
    <3>2. CASE n = Len(Parts)
      BY <1>3, <3>2 DEF Load, AllParts
    <3> QED
      BY <2>1, <3>1, <3>2
  <2>4. \A d \in Devices : pc[d] = "idle"
    BY <1>3 DEF Load
  <2> QED
    BY <1>3, <2>1, <2>2, <2>3, <2>4 DEF Load
<1> QED
  BY <1>1, <1>2, <1>3

-----------------------------------------------------------------------------
\* The pointers of the softc tell what is out for a card, the core owns its
\* interrupts, and a card is attached only to a driver that is up.
THEOREM Invariance == Spec => []IInv
<1>1. IInv /\ [Next]_vars => IInv'
  <2> SUFFICES ASSUME IInv, [Next]_vars PROVE IInv'
    OBVIOUS
  <2>1. CASE UNCHANGED vars
    <3> USE <2>1 DEF vars, IInv
    <3>1. TypeOK'
      BY DEF TypeOK
    <3>2. PointersTell'
      BY DEF PointersTell
    <3>3. CoreOwnsIrq' /\ LoadedIsUp'
      BY DEF CoreOwnsIrq, LoadedIsUp
    <3> QED
      BY <3>1, <3>2, <3>3
  <2>2. CASE Next
    BY <2>2, LoadInv, ProbeInv, StartupInv, RemoveInv DEF Next
  <2> QED
    BY <2>1, <2>2
<1> QED
  BY InitInv, <1>1, PTL DEF Spec

\* Type correctness, by which the bus has never more than one of each resource
\* out for a card: none is taken twice, none released twice.
THEOREM TypeCorrect == Spec => []TypeOK
BY Invariance, PTL DEF IInv

\* Whatever failed, and after detach and shutdown, nothing of a card is left.
THEOREM NothingIsLeft == Spec => []LeavesNothing
<1>1. IInv => LeavesNothing
  BY DEF IInv, TypeOK, PointersTell, CoreOwnsIrq, LeavesNothing
<1> QED
  BY <1>1, Invariance, PTL

\* Registers and DMA tag outlive the core's hold on the card.
THEOREM Backed == Spec => []CoreIsBacked
<1>1. IInv => CoreIsBacked
  BY DEF IInv, TypeOK, PointersTell, CoreOwnsIrq, CoreIsBacked
<1> QED
  BY <1>1, Invariance, PTL

\* A driver that is not loaded, or only in part, has no card.
THEOREM NoCardWithoutDriver == Spec => []DriverIsUp
<1>1. IInv => DriverIsUp
  BY DEF IInv, LoadedIsUp, DriverIsUp
<1> QED
  BY <1>1, Invariance, PTL
=============================================================================
