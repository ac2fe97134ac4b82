--------------------------- MODULE DeviceMemory ---------------------------
(***************************************************************************)
(* kmem.c: memory for DMA, of which a fusion_dma_t keeps the tag and the   *)
(* map, and the pages of a user's buffer, wired while the device uses      *)
(* them.  The kernel's calls are external: making a tag, allocating and    *)
(* loading may fail, loading only at once, for it is asked not to wait;    *)
(* vslock wires a range as a whole or not at all, and vsunlock takes from  *)
(* every page of a range what one vslock gave it.                          *)
(***************************************************************************)
EXTENDS Naturals, Sequences, FiniteSets

CONSTANTS
  Handles,      \* fusion_dma_t, each with one allocation in turn
  Pages,        \* pages of a user's memory, as numbers
  MaxArray,     \* bound on nr_pages
  MaxWired      \* bound on how often a page is wired

VARIABLES
  pc,           \* where the call on a handle is, "free" or "allocated"
  kernel,       \* what the kernel has made for a handle and not taken back
  phys_addr,    \* whether dma_handle->phys_addr is that of the memory
  wired,        \* how often the kernel has a page wired
  pinned        \* how often callers have a page in their arrays

memory_vars == <<pc, kernel, phys_addr, wired, pinned>>

Init ==
  /\ pc = [h \in Handles |-> "free"]
  /\ kernel = [h \in Handles |-> {}]
  /\ phys_addr = [h \in Handles |-> FALSE]
  /\ wired = [p \in Pages |-> 0]
  /\ pinned = [p \in Pages |-> 0]

-----------------------------------------------------------------------------
(* kfio_dma_alloc_coherent and kfio_dma_free_coherent.                     *)

\* h's call goes from one place to another when the kernel has done or undone
\* k for it.
Step(h, from, to, made, undone) ==
  /\ pc[h] = from
  /\ pc' = [pc EXCEPT ![h] = to]
  /\ kernel' = [kernel EXCEPT ![h] = (@ \cup made) \ undone]
  /\ UNCHANGED <<wired, pinned>>

Same == UNCHANGED phys_addr

\* bus_dma_tag_create, which may fail and leave all as it was.
TagCreate(h) == Step(h, "free", "mem_alloc", {"tag"}, {}) /\ Same

MemAlloc(h) ==
  \/ Step(h, "mem_alloc", "load", {"mem"}, {}) /\ Same
  \/ Step(h, "mem_alloc", "free_handle", {}, {}) /\ Same

\* Mutation: the memory is not given back when it cannot be loaded.
LoadError_Late == "free_handle"

\* Where ENOMEM, EINVAL, EINPROGRESS and every other error go.
LoadError == "free_mem"

\* kfio_map_dma_callback runs in bus_dmamap_load, which has set the address
\* when it returns.
Load(h) ==
  \/ /\ Step(h, "load", "allocated", {"load"}, {})
     /\ phys_addr' = [phys_addr EXCEPT ![h] = TRUE]
  \/ Step(h, "load", LoadError, {}, {}) /\ Same

FreeMem(h)    == Step(h, "free_mem", "free_handle", {}, {"mem"}) /\ Same
FreeHandle(h) == Step(h, "free_handle", "free", {}, {"tag"}) /\ Same

Unload(h)     == Step(h, "allocated", "unloaded", {}, {"load"}) /\ Same
MemFree(h)    == Step(h, "unloaded", "destroy", {}, {"mem"}) /\ Same
TagDestroy(h) ==
  /\ Step(h, "destroy", "free", {}, {"tag"})
  /\ phys_addr' = [phys_addr EXCEPT ![h] = FALSE]

-----------------------------------------------------------------------------
(* kfio_get_user_pages and kfio_put_user_pages.                            *)

\* n pages from the one at first.
Span(first, n) == {p \in Pages : first <= p /\ p < first + n}

\* A user's address is in some page, where the range then starts.
GetUserPages(start, nr_pages) ==
  LET r == Span(start, nr_pages)
  IN  /\ Cardinality(r) = nr_pages
      /\ \A p \in r : wired[p] < MaxWired
      /\ wired' = [p \in Pages |-> IF p \in r THEN wired[p] + 1 ELSE wired[p]]
      /\ pinned' = [p \in Pages |-> IF p \in r THEN pinned[p] + 1 ELSE pinned[p]]
      /\ UNCHANGED <<pc, kernel, phys_addr>>

\* Mutation: what is released is one range from the first page of the array.
Breaks_Never(pages, j) == FALSE

\* The page at j does not follow the one before it.
Breaks(pages, j) == pages[j - 1] + 1 # pages[j]

\* The outer loop: where each range starts, and one past where it ends.
Starts(pages) == {i \in 1 .. Len(pages) : i = 1 \/ Breaks(pages, i)}
End(pages, i) ==
  CHOOSE j \in i + 1 .. Len(pages) + 1 :
    /\ j = Len(pages) + 1 \/ Breaks(pages, j)
    /\ \A k \in i + 1 .. j - 1 : ~Breaks(pages, k)

\* How often vsunlock is called on page p.
Unlocked(pages, p) ==
  Cardinality({i \in Starts(pages) : p \in Span(pages[i], End(pages, i) - i)})

\* How often page p is in the array.
Count(pages, p) == Cardinality({i \in 1 .. Len(pages) : pages[i] = p})

\* The array may be of several calls, in part and in any order.
PutUserPages(pages) ==
  /\ \A p \in Pages : Count(pages, p) <= pinned[p]
  /\ pinned' = [p \in Pages |-> pinned[p] - Count(pages, p)]
  /\ wired' = [p \in Pages |-> wired[p] - Unlocked(pages, p)]
  /\ UNCHANGED <<pc, kernel, phys_addr>>

Next ==
  \/ \E h \in Handles :
       \/ TagCreate(h) \/ MemAlloc(h) \/ Load(h) \/ FreeMem(h) \/ FreeHandle(h)
       \/ Unload(h) \/ MemFree(h) \/ TagDestroy(h)
  \/ \E start \in Pages, nr_pages \in 1 .. MaxArray : GetUserPages(start, nr_pages)
  \/ \E pages \in UNION {[1 .. n -> Pages] : n \in 1 .. MaxArray} : PutUserPages(pages)

Spec == Init /\ [][Next]_memory_vars

-----------------------------------------------------------------------------
(* Properties.                                                             *)

TypeOK ==
  /\ pc \in [Handles -> {"free", "mem_alloc", "load", "free_mem", "free_handle",
                         "allocated", "unloaded", "destroy"}]
  /\ kernel \in [Handles -> SUBSET {"tag", "mem", "load"}]
  /\ phys_addr \in [Handles -> BOOLEAN]
  /\ pinned \in [Pages -> 0 .. MaxWired]

\* An allocation has all of its memory or, whichever step failed, nothing;
\* what the kernel made goes in the reverse order, the tag last; and pages are
\* wired as often as callers have them, however arrays are cut and joined.
NothingKept ==
  /\ \A h \in Handles :
       /\ pc[h] = "free" => kernel[h] = {} /\ ~phys_addr[h]
       /\ pc[h] = "allocated" => kernel[h] = {"tag", "mem", "load"} /\ phys_addr[h]
       /\ kernel[h] \in {{}, {"tag"}, {"tag", "mem"}, {"tag", "mem", "load"}}
  /\ wired = pinned
=============================================================================
