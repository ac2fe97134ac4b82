----------------------------- MODULE ListState -----------------------------
(***************************************************************************)
(* A scatter-gather list of src/driver/kscatter.c: its variables, and what *)
(* is always true of them, whether it is filled and loaded by itself       *)
(* (SgList) or sliced and enumerated as well (ScatterGather).              *)
(***************************************************************************)
EXTENDS SgParameters, Sequences

VARIABLES
  sgl,          \* how far kfio_sgl_alloc_nvec or destruction has come
  uio_max,
  uio_vec,      \* the entries in use; uio_num is their number
  uio_size,
  uio_segflg, uio_td,
  dma_tag,      \* dma_tag # NULL
  tags, maps,   \* the bus objects made for the list, less those given back
  loaded,       \* the bus holds a mapping in the list's map
  pages         \* the locals of kfio_sgl_map_user_pages, while it runs

uio_num == Len(uio_vec)

-----------------------------------------------------------------------------
(* Properties.                                                             *)

\* kfio_sgl_dma_map gives the bus one uio_segflg and one uio_td for the whole
\* list: every entry must be of that space and that thread, however kernel
\* buffers, user pages, failures half way and resets were mixed before.
OneSpace ==
  \A k \in 1 .. uio_num : /\ uio_vec[k].space = uio_segflg
                          /\ uio_vec[k].td = uio_td

\* What the bus objects owe each other: a freed list has left none behind, a
\* map lives under its tag, a loaded mapping under its map, and the list knows
\* of every mapping there is.  It holds through the failures of
\* kfio_sgl_alloc_nvec and a destruction or reset of a loaded list.
NothingLeaks ==
  /\ sgl = "none" => tags <= 0 /\ maps <= 0
  /\ maps > 0 => tags > 0
  /\ loaded => maps > 0
  /\ loaded <=> seg_ptr

\* kfio_sgl_destroy gives back just the tag and the map that were made, for a
\* finished list and where kfio_sgl_alloc_nvec gives up.  In one case it does
\* not: when bus_dmamap_create has failed, the map that was not made is given
\* back all the same, as dma_tag alone is looked at.
GivenBackOnce ==
  [][sgl # "none" /\ sgl' = "none" =>
       /\ tags' = 0
       /\ maps' = 0 \/ (maps' = -1 /\ sgl = "bail" /\ dma_tag)]_<<sgl, tags, maps>>

\* kfio_sgl_map_user_pages cuts the asked range at page boundaries: each entry
\* takes one page from where the range enters it to the page's end, and only
\* the last may stop short of it.
PagesTile ==
  pages.on =>
    /\ pages.start + pages.page = uio_num
    /\ \A k \in 1 .. pages.page :
         LET e == uio_vec[pages.start + k]
         IN  /\ e.page = k - 1
             /\ e.off = IF k = 1 THEN pages.first ELSE 0
             /\ e.off + e.iov_len <= PageSize
             /\ k < pages.page \/ pages.left > 0 => e.off + e.iov_len = PageSize
=============================================================================
