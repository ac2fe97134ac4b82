-------------------------- MODULE DriverLifecycle --------------------------
(***************************************************************************)
(* The life of the driver and of the cards it drives (src/driver/main.c,   *)
(* src/driver/pci.c): loading with its initialisations, probe and attach   *)
(* with every failure, the start-up hook, interrupts, detach, shutdown and *)
(* unloading.                                                              *)
(*                                                                         *)
(* For each card the model keeps what the softc says (the pointers) apart  *)
(* from what the bus has given out (held), so that a resource forgotten or *)
(* released twice shows.  newbus runs one method of a card at a time and   *)
(* is external, as are the core's iodrive_pci_attach and iodrive_pci_detach*)
(* (which call back for the interrupt), its attach and detach of the block *)
(* device in the background, and what its init functions do.               *)
(***************************************************************************)
EXTENDS Integers, Sequences

CONSTANT Devices

VARIABLES
  module,              \* "unloaded", "added" to the bus, or "leaving" it
  up,                  \* the parts of the core that are initialised
  fusion_init_failed,
  pc,                  \* where a method of the card is
  held,                \* what the bus has given out for the card
  bar_resource, parent_dma_tag, intr_resource, intr_cookie,  \* # NULL
  prv,                 \* # NULL: the core drives the card
  p_fio_device         \* # NULL: the card has a block device

load_vars == <<module, up, fusion_init_failed>>
irq_vars == <<intr_resource, intr_cookie>>
softc_vars == <<bar_resource, parent_dma_tag, irq_vars, prv, p_fio_device>>
vars == <<load_vars, pc, held, softc_vars>>

\* What initialisation brings up, in this order.
Parts == <<"dev", "iodrive", "obj", "blk", "debug">>
AllParts == {Parts[k] : k \in 1 .. Len(Parts)}

Resources == {"bar", "tag", "hook", "msi", "irq"}

\* Places: those of iodrive_pci_probe, of the start-up, and of the ways out.
Attaching == {"busmaster", "bar5", "bar0", "tag", "hook"}
Leaving == {"fio_detach", "remove", "unmap", "untag"}
Ending == {"fio_shutdown", "end_remove", "end_unmap", "end_untag"}

Set(f, d, v) == f' = [f EXCEPT ![d] = v]
Take(d, r) == held' = [held EXCEPT ![d][r] = @ + 1]
Give(d, rs) == held' = [held EXCEPT ![d] =
                 [r \in Resources |-> IF r \in rs THEN @[r] - 1 ELSE @[r]]]

-----------------------------------------------------------------------------
Init ==
  /\ module = "unloaded" /\ up = {} /\ fusion_init_failed = FALSE
  /\ pc = [d \in Devices |-> "idle"]
  /\ held = [d \in Devices |-> [r \in Resources |-> 0]]
  /\ bar_resource = [d \in Devices |-> FALSE]
  /\ parent_dma_tag = [d \in Devices |-> FALSE]
  /\ intr_resource = [d \in Devices |-> FALSE]
  /\ intr_cookie = [d \in Devices |-> FALSE]
  /\ prv = [d \in Devices |-> FALSE]
  /\ p_fio_device = [d \in Devices |-> FALSE]

\* MOD_LOAD: init_fio_driver comes as far as part n.  newbus adds the driver
\* to the bus even if that was not far enough.
Load(n) ==
  /\ module = "unloaded"
  /\ module' = "added"
  /\ up' = {Parts[k] : k \in 1 .. n}
  /\ fusion_init_failed' = (n < Len(Parts))
  /\ UNCHANGED <<pc, held, softc_vars>>

\* kldunload: every card is detached; MOD_UNLOAD follows if all could be.
UnloadBegin ==
  /\ module = "added"
  /\ \A d \in Devices : pc[d] \in {"idle", "attached"}
  /\ module' = "leaving"
  /\ UNCHANGED <<up, fusion_init_failed, pc, held, softc_vars>>

\* After a failed initialisation nothing is cleaned up; what it had brought
\* up stays behind, and the next load knows nothing of it.
UnloadEnd ==
  /\ module = "leaving"
  /\ \A d \in Devices : pc[d] = "idle"
  /\ module' = "unloaded"
  /\ up' = {}
  /\ fusion_init_failed' = FALSE
  /\ UNCHANGED <<pc, held, softc_vars>>

-----------------------------------------------------------------------------
(* freebsd_probe, freebsd_attach, iodrive_pci_probe.                       *)

\* Mutation: a driver that failed to initialise takes cards nonetheless.
Recognises_Always == TRUE

\* freebsd_probe, of a card of a known make that no hint disables.
Recognises == ~fusion_init_failed

Attach(d) ==
  /\ module = "added" /\ Recognises
  /\ pc[d] = "idle"
  /\ Set(pc, d, "busmaster")
  /\ UNCHANGED <<load_vars, held, softc_vars>>

EnableBusmaster(d) ==
  /\ pc[d] = "busmaster"
  /\ Set(pc, d, "bar5") \/ Set(pc, d, "idle")
  /\ UNCHANGED <<load_vars, held, softc_vars>>

MapBar(d) ==
  /\ pc[d] \in {"bar5", "bar0"}
  /\ Take(d, "bar")
  /\ Set(bar_resource, d, TRUE)
  /\ Set(pc, d, "tag")
  /\ UNCHANGED <<load_vars, parent_dma_tag, irq_vars, prv, p_fio_device>>

\* A card without BAR 5 has its registers at BAR 0, or is not attached.
MapBarFails(d) ==
  /\ \/ pc[d] = "bar5" /\ Set(pc, d, "bar0")
     \/ pc[d] = "bar0" /\ Set(pc, d, "idle")
  /\ UNCHANGED <<load_vars, held, softc_vars>>

CreateTag(d) ==
  /\ pc[d] = "tag"
  /\ Take(d, "tag")
  /\ Set(parent_dma_tag, d, TRUE)
  /\ Set(pc, d, "hook")
  /\ UNCHANGED <<load_vars, bar_resource, irq_vars, prv, p_fio_device>>

CreateTagFails(d) ==
  /\ pc[d] = "tag"
  /\ Give(d, {"bar"})
  /\ Set(bar_resource, d, FALSE)
  /\ Set(pc, d, "idle")
  /\ UNCHANGED <<load_vars, parent_dma_tag, irq_vars, prv, p_fio_device>>

\* While the system boots the hook waits for interrupts; later it is run
\* before config_intrhook_establish returns.  No detach comes in between.
EstablishHook(d) ==
  /\ pc[d] = "hook"
  /\ Take(d, "hook")
  /\ Set(pc, d, "hooked")
  /\ UNCHANGED <<load_vars, softc_vars>>

\* Mutation: the failure of the last step undoes that of the first only.
EstablishHookFails_KeepsTag(d) ==
  /\ pc[d] = "hook"
  /\ Give(d, {"bar"})
  /\ Set(bar_resource, d, FALSE)
  /\ Set(pc, d, "idle")
  /\ UNCHANGED <<load_vars, parent_dma_tag, irq_vars, prv, p_fio_device>>

EstablishHookFails(d) ==
  /\ pc[d] = "hook"
  /\ Give(d, {"tag", "bar"})
  /\ Set(parent_dma_tag, d, FALSE)
  /\ Set(bar_resource, d, FALSE)
  /\ Set(pc, d, "idle")
  /\ UNCHANGED <<load_vars, irq_vars, prv, p_fio_device>>

-----------------------------------------------------------------------------
(* iodrive_pci_startup, and what the core calls under iodrive_pci_attach.  *)

Startup(d) ==
  /\ pc[d] = "hooked"
  /\ Give(d, {"hook"})
  /\ Set(pc, d, "startup")
  /\ UNCHANGED <<load_vars, softc_vars>>

\* kfio_pci_enable_msi; when it fails nothing is held.
EnableMsi(d) ==
  /\ pc[d] = "startup" /\ held[d]["msi"] = 0
  /\ Take(d, "msi")
  /\ UNCHANGED <<load_vars, pc, softc_vars>>

RequestIrq(d) ==
  /\ pc[d] = "startup" /\ ~intr_cookie[d]
  /\ Take(d, "irq")
  /\ Set(intr_resource, d, TRUE)
  /\ Set(intr_cookie, d, TRUE)
  /\ UNCHANGED <<load_vars, pc, bar_resource, parent_dma_tag, prv, p_fio_device>>

\* No interrupt: there is none to allocate, and the pointer says so; or its
\* handler cannot be set up, and it is released but the pointer left.
RequestIrqFails(d) ==
  /\ pc[d] = "startup" /\ ~intr_cookie[d]
  /\ \E left \in BOOLEAN : Set(intr_resource, d, left)
  /\ UNCHANGED <<load_vars, pc, held, bar_resource, parent_dma_tag, intr_cookie,
                 prv, p_fio_device>>

\* Mutation: the resource tells whether there is an interrupt to free.
HasIrq_Resource(d) == intr_resource[d]

\* What kfio_free_irq goes by.
HasIrq(d) == intr_cookie[d]

\* kfio_free_irq and kfio_pci_disable_msi, as the core calls them in pairs.
FreeIrq(d) ==
  LET msi == {r \in {"msi"} : held[d][r] > 0}
  IN IF HasIrq(d)
       THEN /\ Give(d, msi \cup {"irq"})
            /\ Set(intr_cookie, d, FALSE) /\ Set(intr_resource, d, FALSE)
       ELSE Give(d, msi) /\ UNCHANGED irq_vars

StartupReady(d) ==
  /\ pc[d] = "startup" /\ intr_cookie[d]
  /\ Set(prv, d, TRUE)
  /\ Set(pc, d, "attached")
  /\ UNCHANGED <<load_vars, held, bar_resource, parent_dma_tag, irq_vars,
                 p_fio_device>>

\* The card stays attached, with nobody to drive it.
StartupFails(d) ==
  /\ pc[d] = "startup"
  /\ FreeIrq(d)
  /\ Set(pc, d, "attached")
  /\ UNCHANGED <<load_vars, bar_resource, parent_dma_tag, prv, p_fio_device>>

\* The core's, in the background: a block device is created or destroyed.
AttachFio(d) ==
  /\ prv[d] /\ ~p_fio_device[d]
  /\ Set(p_fio_device, d, TRUE)
  /\ UNCHANGED <<load_vars, pc, held, bar_resource, parent_dma_tag, irq_vars, prv>>

DetachFio(d) ==
  /\ p_fio_device[d] /\ pc[d] = "attached"
  /\ Set(p_fio_device, d, FALSE)
  /\ UNCHANGED <<load_vars, pc, held, bar_resource, parent_dma_tag, irq_vars, prv>>

-----------------------------------------------------------------------------
(* freebsd_detach, freebsd_shutdown, iodrive_pci_remove.                   *)

\* On its own, or for kldunload.
Detach(d) ==
  /\ pc[d] = "attached"
  /\ Set(pc, d, IF p_fio_device[d] THEN "fio_detach" ELSE "remove")
  /\ UNCHANGED <<load_vars, held, softc_vars>>

FioDetaches(d) ==
  /\ pc[d] = "fio_detach"
  /\ Set(p_fio_device, d, FALSE)
  /\ Set(pc, d, "remove")
  /\ UNCHANGED <<load_vars, held, bar_resource, parent_dma_tag, irq_vars, prv>>

\* The card stays, and the driver with it.
FioDetachFails(d) ==
  /\ pc[d] = "fio_detach"
  /\ Set(pc, d, "attached")
  /\ module' = "added"
  /\ UNCHANGED <<up, fusion_init_failed, held, softc_vars>>

Shutdown(d) ==
  /\ pc[d] = "attached" /\ module = "added"
  /\ Set(pc, d, IF p_fio_device[d] THEN "fio_shutdown" ELSE "end_remove")
  /\ UNCHANGED <<load_vars, held, softc_vars>>

ShutdownFio(d) ==
  /\ pc[d] = "fio_shutdown"
  /\ Set(p_fio_device, d, FALSE)
  /\ Set(pc, d, "end_remove")
  /\ UNCHANGED <<load_vars, held, bar_resource, parent_dma_tag, irq_vars, prv>>

\* Mutation: the block device tells whether the core drives the card.
CoreDrives_Block(d) == p_fio_device[d]

\* What iodrive_pci_remove goes by.
CoreDrives(d) == prv[d]

\* iodrive_pci_remove, step by step.  iodrive_pci_detach, of the core, ends
\* with no block device, no interrupt and no drvdata.
DetachCore(d) ==
  /\ \/ pc[d] = "remove" /\ Set(pc, d, "unmap")
     \/ pc[d] = "end_remove" /\ Set(pc, d, "end_unmap")
  /\ IF CoreDrives(d)
       THEN FreeIrq(d) /\ Set(prv, d, FALSE) /\ Set(p_fio_device, d, FALSE)
       ELSE UNCHANGED <<held, irq_vars, prv, p_fio_device>>
  /\ UNCHANGED <<load_vars, bar_resource, parent_dma_tag>>

UnmapBar(d) ==
  /\ \/ pc[d] = "unmap" /\ Set(pc, d, "untag")
     \/ pc[d] = "end_unmap" /\ Set(pc, d, "end_untag")
  /\ IF bar_resource[d] THEN Give(d, {"bar"}) ELSE UNCHANGED held
  /\ Set(bar_resource, d, FALSE)
  /\ UNCHANGED <<load_vars, parent_dma_tag, irq_vars, prv, p_fio_device>>

DestroyTag(d) ==
  /\ \/ pc[d] = "untag" /\ Set(pc, d, "idle")
     \/ pc[d] = "end_untag" /\ Set(pc, d, "off")
  /\ IF parent_dma_tag[d] THEN Give(d, {"tag"}) ELSE UNCHANGED held
  /\ Set(parent_dma_tag, d, FALSE)
  /\ UNCHANGED <<load_vars, bar_resource, irq_vars, prv, p_fio_device>>

-----------------------------------------------------------------------------
PciProbe(d) == Attach(d) \/ EnableBusmaster(d) \/ MapBar(d) \/ MapBarFails(d)
               \/ CreateTag(d) \/ CreateTagFails(d)
               \/ EstablishHook(d) \/ EstablishHookFails(d)

PciStartup(d) == Startup(d) \/ EnableMsi(d) \/ RequestIrq(d) \/ RequestIrqFails(d)
                 \/ StartupReady(d) \/ StartupFails(d)
                 \/ AttachFio(d) \/ DetachFio(d)

PciRemove(d) == Detach(d) \/ FioDetaches(d) \/ FioDetachFails(d)
                \/ Shutdown(d) \/ ShutdownFio(d)
                \/ DetachCore(d) \/ UnmapBar(d) \/ DestroyTag(d)

Next ==
  \/ UnloadBegin \/ UnloadEnd \/ \E n \in 0 .. Len(Parts) : Load(n)
  \/ \E d \in Devices : PciProbe(d) \/ PciStartup(d) \/ PciRemove(d)

Spec == Init /\ [][Next]_vars

-----------------------------------------------------------------------------
(* Properties.                                                             *)

\* The bus never has more than one of each resource out for a card, and gets
\* none back that is not out: no path through failure, retry, detach and
\* shutdown takes or releases twice.
TypeOK ==
  /\ module \in {"unloaded", "added", "leaving"}
  /\ up \subseteq AllParts
  /\ fusion_init_failed \in BOOLEAN
  /\ pc \in [Devices -> Attaching \cup Leaving \cup Ending
                        \cup {"idle", "hooked", "startup", "attached", "off"}]
  /\ held \in [Devices -> [Resources -> 0 .. 1]]
  /\ bar_resource \in [Devices -> BOOLEAN]
  /\ parent_dma_tag \in [Devices -> BOOLEAN]
  /\ intr_resource \in [Devices -> BOOLEAN]
  /\ intr_cookie \in [Devices -> BOOLEAN]
  /\ prv \in [Devices -> BOOLEAN] /\ p_fio_device \in [Devices -> BOOLEAN]

\* A card that is not attached, because some step of attaching failed or
\* because it was detached or shut down, leaves nothing out and nothing of
\* itself in the softc but, maybe, the pointer to an interrupt.
LeavesNothing ==
  \A d \in Devices : pc[d] \in {"idle", "off"} =>
    /\ \A r \in Resources : held[d][r] = 0
    /\ ~bar_resource[d] /\ ~parent_dma_tag[d] /\ ~intr_cookie[d]
    /\ ~prv[d] /\ ~p_fio_device[d]

\* While the core drives a card, or an interrupt may come for it, or it has a
\* block device, its registers are mapped and its DMA tag exists.
CoreIsBacked ==
  \A d \in Devices : prv[d] \/ p_fio_device[d] \/ held[d]["irq"] = 1 =>
    held[d]["bar"] = 1 /\ held[d]["tag"] = 1

\* No card is attached or being attached to a driver that is not loaded and
\* initialised in all its parts: "Work around this by not allowing device
\* probe to recognize any devices".
DriverIsUp ==
  \A d \in Devices : pc[d] # "idle" => module # "unloaded" /\ up = AllParts

-----------------------------------------------------------------------------
(* The inductive invariant.                                                *)

\* Where a card has its interrupt hook waiting, is driven or may be, has its
\* registers mapped, has its tag.
Driven == {"startup", "attached", "fio_detach", "remove",
           "fio_shutdown", "end_remove"}
Tagged == Driven \cup {"hook", "hooked", "unmap", "end_unmap", "untag", "end_untag"}
Mapped == (Tagged \ {"untag", "end_untag"}) \cup {"tag"}

\* The softc says of each resource whether it is out, and where the method of
\* the card stands says which can be.
PointersTell ==
  \A d \in Devices :
    /\ held[d]["bar"] = 1 <=> bar_resource[d]
    /\ held[d]["tag"] = 1 <=> parent_dma_tag[d]
    /\ held[d]["irq"] = 1 <=> intr_cookie[d]
    /\ held[d]["hook"] = 1 <=> pc[d] = "hooked"
    /\ bar_resource[d] <=> pc[d] \in Mapped
    /\ parent_dma_tag[d] <=> pc[d] \in Tagged

\* From start-up to iodrive_pci_remove, an interrupt is out only for a card
\* that the core drives, and so does iodrive_pci_detach give it back.
CoreOwnsIrq ==
  \A d \in Devices :
    /\ p_fio_device[d] => prv[d]
    /\ prv[d] => intr_cookie[d] /\ pc[d] \in Driven \ {"startup"}
    /\ intr_cookie[d] \/ held[d]["msi"] = 1 =>
         pc[d] = "startup" \/ (pc[d] \in Driven /\ prv[d])

\* Initialisation failed, or every part of the core is up.
LoadedIsUp ==
  /\ module # "unloaded" /\ ~fusion_init_failed => up = AllParts
  /\ \A d \in Devices : pc[d] # "idle" => module # "unloaded" /\ ~fusion_init_failed

\* The invariant that a step of the driver preserves: the types, with at most
\* one of each resource out, and the three facts above.
IInv == TypeOK /\ PointersTell /\ CoreOwnsIrq /\ LoadedIsUp
=============================================================================
