--------------------------- MODULE ScatterGather ---------------------------
(***************************************************************************)
(* All of src/driver/kscatter.c over one list and one DMA map: SgList      *)
(* holds the buffers and the bus objects, DmaSlice the segments of a load  *)
(* and what is enumerated of them, and the calls of kfio_sgl_dma_map,      *)
(* _unmap, _reset and _destroy are a step of both.  What ListState and     *)
(* SliceState state is to hold here as it does in each part alone.         *)
(***************************************************************************)
EXTENDS ListState, SliceState

List == INSTANCE SgList
Maps == INSTANCE DmaSlice

\* What each part has for itself.
list_only == <<sgl, uio_max, uio_vec, uio_size, uio_segflg, uio_td,
               dma_tag, tags, maps, loaded, pages>>
maps_only == <<segs, dmap, fresh, ask, pc, i, rest, cursor, pieces>>
vars == <<list_only, seg_ptr, maps_only>>

\* No call of kscatter.c is in progress: a list has one caller at a time.
Idle == pc = "idle"

Init == List!Init /\ Maps!Init

\* What unmapping means for the segments: nothing, if there are none.
Forget == IF seg_ptr THEN Maps!DmaUnmap ELSE UNCHANGED maps_only

\* The bus cuts the list into no more segments than its tag was made for.
DmaMap ==
  /\ Idle
  /\ List!DmaMapLoads
  /\ Maps!DmaMap(uio_size)
  /\ Len(segs') <= uio_max

DmaMapFails == Idle /\ List!DmaMapFails /\ UNCHANGED maps_only

DmaUnmap == Idle /\ List!DmaUnmap /\ Forget

\* Mutation: the list is emptied and stays mapped.
Reset_StaysMapped ==
  /\ Idle /\ List!Ready
  /\ uio_vec' = <<>> /\ uio_size' = 0
  /\ UNCHANGED <<sgl, uio_max, uio_segflg, uio_td, dma_tag, tags, maps, loaded,
                 pages, seg_ptr, maps_only>>

Reset    == Idle /\ List!Reset /\ Forget
Destroy  == Idle /\ List!Destroy /\ Forget

\* Calls that concern one part alone.
FillList == Idle /\ (List!Setup \/ List!Fill \/ List!Turn)
                 /\ UNCHANGED <<seg_ptr, maps_only>>
UseMap   == List!Ready /\ (Maps!Call \/ Maps!Turn)
                       /\ UNCHANGED <<seg_ptr, list_only>>

Next == FillList \/ DmaMap \/ DmaMapFails \/ DmaUnmap \/ Reset \/ Destroy
        \/ UseMap

Spec == Init /\ [][Next]_vars

-----------------------------------------------------------------------------
(* Properties.                                                             *)

\* Every byte the device can reach through the segments is a byte of a buffer
\* in the list: buffers may be added to a loaded list, uio_size, which is the
\* sum of the entries, may wrap, but none leaves the list under a mapping.
MappedIsListed ==
  /\ List!SizeIsSum
  /\ seg_ptr => Maps!Total <= List!ListBytes
=============================================================================
