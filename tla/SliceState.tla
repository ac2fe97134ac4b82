---------------------------- MODULE SliceState ----------------------------
(***************************************************************************)
(* The segments of a loaded list and a DMA map (src/driver/kscatter.c):    *)
(* their variables, with the locals of the calls that work on them, and    *)
(* what is always true of them, in DmaSlice and in ScatterGather.          *)
(***************************************************************************)
EXTENDS SgParameters, Sequences

VARIABLES
  segs,         \* the array seg_ptr points to; its memory outlives an unmap
  dmap,         \* the kfio_dma_map_t
  fresh,        \* dmap describes the present load
  ask,          \* the range dmap was filled for
  pc, i, rest,  \* a call in progress; the locals i and offset of the slice
  cursor,       \* the caller's iterator
  pieces        \* the caller's kfio_sgl_phys_t's, first to last

NULL == 0

seg_num == Len(segs)
End(seg) == seg.ds_addr + seg.ds_len

\* Bytes in the load.
Total == IF seg_num = 0 THEN 0 ELSE End(segs[seg_num])

\* The second loop of a slice has its length; mutation: a range that ends with
\* its segment is taken one further.
Reached_Beyond == dmap.map_length > ask.length

Reached == dmap.map_length >= ask.length

\* kfio_dma_map_next and kfio_sgl_phys_next do not return NULL.
MoreInMap == cursor >= dmap.seg_first /\ cursor < dmap.seg_last

MoreInList == cursor >= 1 /\ cursor < seg_num

-----------------------------------------------------------------------------
(* Properties.                                                             *)

\* The loops of kfio_sgl_dma_slice read each segment once, in order, and none
\* that is not there: the first loop finds its segment before the end of the
\* array, the second, which runs one turn past the end, has its length by then.
ReadsInside ==
  /\ pc = "seek" => i \in 1 .. seg_num
  /\ pc = "extend" => /\ i = dmap.seg_last + 1
                      /\ i <= seg_num + 1
                      /\ ~Reached => i <= seg_num

\* A map tells its range without a byte too many or too few, whatever map or
\* load it described before: seg_skip bytes into its first segment is the
\* first byte asked for, seg_trunc bytes before the end of its last is the
\* end, and what kfio_dma_map_nvecs and kfio_dma_map_size return agrees.
MapIsExact ==
  fresh /\ seg_num > 0 =>
    /\ 1 <= dmap.seg_first /\ dmap.seg_first <= dmap.seg_last
    /\ dmap.seg_last <= seg_num
    /\ segs[dmap.seg_first].ds_addr + dmap.seg_skip = ask.offset
    /\ dmap.seg_skip < segs[dmap.seg_first].ds_len
    /\ End(segs[dmap.seg_last]) - dmap.seg_trunc = ask.offset + ask.length
    /\ dmap.seg_trunc <= segs[dmap.seg_last].ds_len
    /\ dmap.map_offset = ask.offset /\ dmap.map_length = ask.length
    /\ dmap.seg_count = dmap.seg_last - dmap.seg_first + 1

\* The pieces follow each other without gap or overlap, from one byte of the
\* list to another.
Tile(ps, from, to) ==
  /\ ps # <<>>
  /\ ps[1].addr = from
  /\ \A k \in 1 .. Len(ps) - 1 : ps[k + 1].addr = ps[k].addr + ps[k].len
  /\ ps[Len(ps)].addr + ps[Len(ps)].len = to

\* Enumerating a map yields exactly the bytes of its range in order, in as
\* many pieces as kfio_dma_map_nvecs says; enumerating the list yields all.
WalkIsExact ==
  /\ pc = "map_walk" /\ ~MoreInMap =>
       /\ Tile(pieces, ask.offset, ask.offset + ask.length)
       /\ Len(pieces) = dmap.seg_count
  /\ pc = "phys_walk" /\ ~MoreInList =>
       Tile(pieces, 0, Total) /\ Len(pieces) = seg_num
=============================================================================
