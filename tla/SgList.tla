------------------------------ MODULE SgList ------------------------------
(***************************************************************************)
(* A scatter-gather list and its bus_dma resources (the freebsd_sgl of     *)
(* src/driver/kscatter.c): allocation in steps that may each fail, buffers *)
(* of the kernel and pages of a user thread added to it, loading into the  *)
(* device's address space, reset and destruction.                          *)
(*                                                                         *)
(* A list has one caller at a time; a step of the model is a whole call,   *)
(* except where a loop or a failure half way leaves something to see.      *)
(* A call that only refuses changes nothing and has no action.  bus_dma is *)
(* external: how many tags and maps it has made for the list that were not *)
(* given back to it, and whether the map is loaded.  What a load looks     *)
(* like from the device's side is in DmaSlice.                             *)
(***************************************************************************)
EXTENDS ListState

uio_vars == <<uio_max, uio_vec, uio_size, uio_segflg, uio_td>>
bus_vars == <<dma_tag, tags, maps, loaded, seg_ptr>>
list_vars == <<sgl, uio_vars, bus_vars, pages>>

Spaces == {"SYSSPACE", "USERSPACE"}
NoCall == [on |-> FALSE]

\* An iovec, with the space and thread of the buffer it was made for; page is
\* its place in the caller's array of user pages.
Entry == [page : Nat, off : Nat, iov_len : Nat, space : Spaces,
          td : Threads \cup {NoThread}]

PagesCall == [on : {TRUE}, td : Threads, start : Nat, asked : Nat,
              first : 0 .. PageSize - 1, page : Nat, off : 0 .. PageSize - 1,
              left : Nat]

Ready == sgl = "ready" /\ ~pages.on

Smaller(a, b) == IF a <= b THEN a ELSE b

-----------------------------------------------------------------------------
\* What malloc hands out is not cleared: uio_segflg and uio_td hold anything.
Init ==
  /\ sgl = "none"
  /\ uio_max = 0 /\ uio_vec = <<>> /\ uio_size = 0
  /\ uio_segflg = "SYSSPACE" /\ uio_td = NoThread
  /\ dma_tag = FALSE /\ tags = 0 /\ maps = 0 /\ loaded = FALSE /\ seg_ptr = FALSE
  /\ pages = NoCall

AllocList(n) ==
  /\ sgl = "none"
  /\ sgl' = "tagless"
  /\ uio_max' = n /\ uio_vec' = <<>> /\ uio_size' = 0
  /\ uio_segflg' \in Spaces /\ uio_td' \in Threads \cup {NoThread}
  /\ dma_tag' = FALSE
  /\ tags' = 0 /\ maps' = 0    \* those of this list
  /\ UNCHANGED <<loaded, seg_ptr, pages>>

CreateTag ==
  /\ sgl = "tagless"
  /\ \/ dma_tag' = TRUE /\ tags' = tags + 1 /\ sgl' = "mapless"
     \/ UNCHANGED <<dma_tag, tags>> /\ sgl' = "bail"
  /\ UNCHANGED <<uio_vars, maps, loaded, seg_ptr, pages>>

CreateMap ==
  /\ sgl = "mapless"
  /\ \/ maps' = maps + 1 /\ sgl' = "ready"
     \/ maps' = maps /\ sgl' = "bail"
  /\ UNCHANGED <<uio_vars, dma_tag, tags, loaded, seg_ptr, pages>>

\* Mutation: the segments are forgotten, the bus is not told.
Unloaded_Kept == loaded' = loaded /\ seg_ptr' = FALSE

\* kfio_sgl_dma_unmap as other calls use it: the bus state after it.
Unloaded == loaded' = (loaded /\ ~seg_ptr) /\ seg_ptr' = FALSE

\* Mutation: the objects are given back whether there are any or not.
GiveBack_Always == Unloaded /\ maps' = maps - 1 /\ tags' = tags - 1

\* bus_dmamap_destroy and bus_dma_tag_destroy, the former also for a list that
\* has got a tag and no map.
GiveBack ==
  IF dma_tag THEN Unloaded /\ maps' = maps - 1 /\ tags' = tags - 1
  ELSE UNCHANGED <<loaded, seg_ptr, maps, tags>>

\* Called on a finished list, or by kfio_sgl_alloc_nvec on one it gives up.
Destroy ==
  /\ Ready \/ sgl = "bail"
  /\ sgl' = "none"
  /\ GiveBack
  /\ dma_tag' = FALSE
  /\ uio_max' = 0 /\ uio_vec' = <<>> /\ uio_size' = 0
  /\ uio_segflg' = "SYSSPACE" /\ uio_td' = NoThread
  /\ UNCHANGED pages

Reset ==
  /\ Ready
  /\ Unloaded
  /\ uio_vec' = <<>> /\ uio_size' = 0
  /\ UNCHANGED <<sgl, uio_max, uio_segflg, uio_td, dma_tag, tags, maps, pages>>

-----------------------------------------------------------------------------
AddEntry(e) ==
  /\ uio_vec' = Append(uio_vec, e)
  /\ uio_size' = (uio_size + e.iov_len) % WordSize

HasRoom == uio_num < uio_max

\* Mutation: kernel buffers are added to whatever is there.
KernelMayFollow_Always == TRUE

\* kfio_sgl_map_bytes refuses an entry among those of a user thread.
KernelMayFollow == uio_num = 0 \/ uio_segflg = "SYSSPACE"

\* kfio_sgl_map_bytes and kfio_sgl_map_page.
MapBytes(size) ==
  /\ Ready
  /\ HasRoom
  /\ KernelMayFollow
  /\ AddEntry([page |-> 0, off |-> 0, iov_len |-> size,
              space |-> "SYSSPACE", td |-> NoThread])
  /\ uio_segflg' = "SYSSPACE" /\ uio_td' = NoThread
  /\ UNCHANGED <<sgl, uio_max, bus_vars, pages>>

\* Mutation: the thread is not looked at.
UserMayFollow_Any(t) == uio_num = 0 \/ uio_segflg = "USERSPACE"

\* kfio_sgl_map_user_pages refuses pages among kernel buffers, and pages of
\* one thread among those of another.
UserMayFollow(t) ==
  uio_num = 0 \/ (uio_segflg = "USERSPACE" /\ uio_td = t)

UserPagesCall(t, size, offset) ==
  /\ Ready
  /\ UserMayFollow(t)
  /\ uio_segflg' = "USERSPACE" /\ uio_td' = t
  /\ pages' = [on |-> TRUE, td |-> t, start |-> uio_num, asked |-> size,
               first |-> offset, page |-> 0, off |-> offset, left |-> size]
  /\ UNCHANGED <<sgl, uio_max, uio_vec, uio_size, bus_vars>>

\* Mutation: the offset into the first page is not deducted.
Portion_WholePage(left, offset) == Smaller(left, PageSize)

\* MIN(size, FUSION_PAGE_SIZE - offset)
Portion(left, offset) == Smaller(left, PageSize - offset)

\* One turn of the loop.
UserPagesNext ==
  /\ pages.on
  /\ pages.left > 0
  /\ HasRoom
  /\ LET mapped_bytes == Portion(pages.left, pages.off)
     IN  /\ AddEntry([page |-> pages.page, off |-> pages.off,
                     iov_len |-> mapped_bytes,
                     space |-> "USERSPACE", td |-> pages.td])
         /\ pages' = [pages EXCEPT !.page = @ + 1, !.off = 0,
                                   !.left = @ - mapped_bytes]
  /\ UNCHANGED <<sgl, uio_max, uio_segflg, uio_td, bus_vars>>

\* Out of entries: the call fails and leaves in the list what it has added.
UserPagesFull ==
  /\ pages.on
  /\ pages.left > 0
  /\ ~HasRoom
  /\ pages' = NoCall
  /\ UNCHANGED <<sgl, uio_vars, bus_vars>>

UserPagesReturn ==
  /\ pages.on
  /\ pages.left = 0
  /\ pages' = NoCall
  /\ UNCHANGED <<sgl, uio_vars, bus_vars>>

-----------------------------------------------------------------------------
\* A loaded bus map may not be loaded again: the caller unmaps first.
DmaMapLoads ==
  /\ Ready /\ ~loaded
  /\ loaded' = TRUE /\ seg_ptr' = TRUE
  /\ UNCHANGED <<sgl, uio_vars, dma_tag, tags, maps, pages>>

\* The bus reports an error to _fusion_dmamap_callback.
DmaMapFails ==
  /\ Ready /\ ~loaded
  /\ seg_ptr' = FALSE
  /\ UNCHANGED <<sgl, uio_vars, dma_tag, tags, maps, loaded, pages>>

DmaUnmap ==
  /\ Ready
  /\ Unloaded
  /\ UNCHANGED <<sgl, uio_vars, dma_tag, tags, maps, pages>>

-----------------------------------------------------------------------------
Fill ==
  \/ \E size \in Sizes : MapBytes(size)
  \/ \E t \in Threads, size \in Sizes, offset \in 0 .. PageSize - 1 :
       UserPagesCall(t, size, offset)

Turn == UserPagesNext \/ UserPagesFull \/ UserPagesReturn

Setup == (\E n \in 1 .. MaxVecs : AllocList(n)) \/ CreateTag \/ CreateMap

Next == Setup \/ Fill \/ Turn \/ DmaMapLoads \/ DmaMapFails \/ DmaUnmap
        \/ Reset \/ Destroy

Spec == Init /\ [][Next]_list_vars

-----------------------------------------------------------------------------
(* Properties.                                                             *)

TypeOK ==
  /\ sgl \in {"none", "tagless", "mapless", "ready", "bail"}
  /\ uio_max \in 0 .. MaxVecs
  /\ uio_vec \in Seq(Entry)
  /\ uio_size \in 0 .. WordSize - 1
  /\ uio_segflg \in Spaces /\ uio_td \in Threads \cup {NoThread}
  /\ dma_tag \in BOOLEAN
  /\ tags \in {0, 1} /\ maps \in {-1, 0, 1}
  /\ loaded \in BOOLEAN /\ seg_ptr \in BOOLEAN
  /\ pages \in {NoCall} \cup PagesCall

\* The array behind uio_vec has uio_max entries: no call writes past it.
FitsItsArray == uio_num <= uio_max

\* How many bytes the first n entries are, for every n.
BytesOf(vec) ==
  LET first[n \in 0 .. Len(vec)] ==
        IF n = 0 THEN 0 ELSE first[n - 1] + vec[n].iov_len
  IN  first

ListBytes == BytesOf(uio_vec)[uio_num]

\* uio_size, the uio_resid of every load, is the length of the list modulo the
\* width of the C type, and a call on user pages has added just what it must.
SizeIsSum ==
  /\ uio_size = ListBytes % WordSize
  /\ pages.on =>
       pages.asked - pages.left = ListBytes - BytesOf(uio_vec)[pages.start]

-----------------------------------------------------------------------------
(* The inductive invariant.                                                *)

\* Which bus objects there are at which point of kfio_sgl_alloc_nvec.
PhaseInv ==
  /\ tags = IF dma_tag THEN 1 ELSE 0
  /\ sgl \in {"none", "tagless"} => ~dma_tag /\ ~loaded
  /\ sgl \in {"tagless", "mapless", "bail"} => maps = 0
  /\ sgl \in {"mapless", "ready"} => dma_tag
  /\ sgl = "ready" => maps = 1

\* Whose pages the call in progress adds.
CallInv ==
  pages.on => /\ sgl = "ready"
              /\ uio_segflg = "USERSPACE" /\ uio_td = pages.td

\* Only the first page of a call is entered behind its begin.
OffsetInv ==
  pages.on => pages.off = IF pages.page = 0 THEN pages.first ELSE 0

\* Every setter of uio_segflg sets uio_td with it.
KernelInv == uio_num > 0 /\ uio_segflg = "SYSSPACE" => uio_td = NoThread

IInv == TypeOK /\ FitsItsArray /\ OneSpace /\ NothingLeaks /\ PagesTile
        /\ PhaseInv /\ CallInv /\ OffsetInv /\ KernelInv
=============================================================================
