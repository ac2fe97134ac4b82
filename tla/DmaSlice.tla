----------------------------- MODULE DmaSlice -----------------------------
(***************************************************************************)
(* A loaded scatter-gather list as the device sees it, and the DMA maps    *)
(* that describe a range of it (the second half of                         *)
(* src/driver/kscatter.c): kfio_sgl_dma_map fills a map for the whole      *)
(* list, kfio_sgl_dma_slice one for a range, kfio_dma_map_first and _next  *)
(* enumerate a map, kfio_sgl_phys_first and _next the list.                *)
(*                                                                         *)
(* The segments are the external bus_dma's: it cuts the list where it has  *)
(* to.  A device address is abstracted to the byte of the list it leads    *)
(* to, so that segments and enumerated pieces are ranges of one line of    *)
(* bytes.  A pointer into the segment array is its place in it, counted    *)
(* from 1, and 0 is NULL.  Two rules of the caller bound what is modelled, *)
(* those the code asserts and those no call could check: a slice lies      *)
(* inside the list and is not begun behind its last byte, and a map is not *)
(* enumerated once the list it came from was unmapped.                     *)
(***************************************************************************)
EXTENDS SliceState

seg_vars == <<seg_ptr, segs>>
map_vars == <<dmap, fresh, ask>>
walk_vars == <<cursor, pieces>>
slice_vars == <<seg_vars, map_vars, pc, i, rest, walk_vars>>

Segment == [ds_addr : Nat, ds_len : Nat \ {0}]
Piece == [addr : Nat, len : Nat]
Map == [map_offset : Nat, map_length : Nat, seg_count : Nat, seg_skip : Nat,
        seg_trunc : Nat, seg_first : Nat, seg_last : Nat]
Range == [offset : Nat, length : Nat]

\* The places where the bus may cut n bytes into s segments.
Cuts(n, s) == {c \in [0 .. s -> 0 .. n] :
                 /\ c[0] = 0 /\ c[s] = n
                 /\ \A k \in 1 .. s : c[k - 1] < c[k]}

Segments(s, c) ==
  [k \in 1 .. s |-> [ds_addr |-> c[k - 1], ds_len |-> c[k] - c[k - 1]]]

-----------------------------------------------------------------------------
\* kfio_dma_map_alloc clears the map.
Init ==
  /\ seg_ptr = FALSE /\ segs = <<>>
  /\ dmap = [map_offset |-> 0, map_length |-> 0, seg_count |-> 0,
             seg_skip |-> 0, seg_trunc |-> 0,
             seg_first |-> NULL, seg_last |-> NULL]
  /\ fresh = FALSE /\ ask = [offset |-> 0, length |-> 0]
  /\ pc = "idle" /\ i = 0 /\ rest = 0
  /\ cursor = NULL /\ pieces = <<>>

\* bus_dmamap_load_uio on n bytes.
Load(n) ==
  /\ pc = "idle" /\ ~seg_ptr
  /\ seg_ptr' = TRUE
  /\ \E s \in 0 .. MaxSegs : \E c \in Cuts(n, s) : segs' = Segments(s, c)
  /\ UNCHANGED <<pc, i, rest, walk_vars>>

\* Mutation: what the map was cut by before is not reset.
WholeMap_StaleTrunc(n) ==
  /\ dmap' = [map_offset |-> 0, map_length |-> n, seg_count |-> Len(segs'),
              seg_skip |-> 0, seg_trunc |-> dmap.seg_trunc,
              seg_first |-> 1, seg_last |-> Len(segs')]
  /\ fresh' = TRUE
  /\ ask' = [offset |-> 0, length |-> n]

\* What the caller, with a dmap, gets to know about the list just loaded.
WholeMap(n) ==
  /\ dmap' = [map_offset |-> 0, map_length |-> n, seg_count |-> Len(segs'),
              seg_skip |-> 0, seg_trunc |-> 0,
              seg_first |-> 1, seg_last |-> Len(segs')]
  /\ fresh' = TRUE
  /\ ask' = [offset |-> 0, length |-> n]

\* kfio_sgl_dma_map, with and without a map to fill.
DmaMap(n) == Load(n) /\ (WholeMap(n) \/ UNCHANGED map_vars)

\* kfio_sgl_dma_unmap, by whatever call.
DmaUnmap ==
  /\ pc = "idle" /\ seg_ptr
  /\ seg_ptr' = FALSE
  /\ fresh' = FALSE
  /\ UNCHANGED <<segs, dmap, ask, pc, i, rest, walk_vars>>

-----------------------------------------------------------------------------
(* kfio_sgl_dma_slice: the first loop looks for the segment offset is in,  *)
(* the second adds segments until the length is reached.                   *)

Slice(offset, length) ==
  /\ pc = "idle" /\ seg_ptr
  /\ offset < Total /\ offset + length <= Total
  /\ pc' = "seek"
  /\ dmap' = [dmap EXCEPT !.map_offset = offset]
  /\ i' = 1 /\ rest' = offset
  /\ fresh' = FALSE
  /\ ask' = [offset |-> offset, length |-> length]
  /\ UNCHANGED <<seg_vars, walk_vars>>

Holds(seg) == rest < seg.ds_len

Left(seg) == seg.ds_len - rest

SeekPast ==
  /\ pc = "seek"
  /\ i <= seg_num
  /\ ~Holds(segs[i])
  /\ rest' = rest - segs[i].ds_len
  /\ i' = i + 1
  /\ UNCHANGED <<seg_vars, map_vars, pc, walk_vars>>

SeekFound ==
  /\ pc = "seek"
  /\ i <= seg_num
  /\ Holds(segs[i])
  /\ dmap' = [dmap EXCEPT !.seg_first = i, !.seg_last = i, !.seg_count = 1,
                          !.seg_skip = rest, !.map_length = Left(segs[i])]
  /\ pc' = "extend"
  /\ i' = i + 1
  /\ UNCHANGED <<seg_vars, fresh, ask, rest, walk_vars>>

Extend ==
  /\ pc = "extend"
  /\ i <= seg_num + 1
  /\ ~Reached
  /\ dmap' = [dmap EXCEPT !.map_length = @ + segs[i].ds_len,
                          !.seg_last = i, !.seg_count = @ + 1]
  /\ i' = i + 1
  /\ UNCHANGED <<seg_vars, fresh, ask, pc, rest, walk_vars>>

\* The turn that finds the length reached, one after the last segment added.
Truncate ==
  /\ pc = "extend"
  /\ i <= seg_num + 1
  /\ Reached
  /\ dmap' = [dmap EXCEPT !.seg_trunc = dmap.map_length - ask.length,
                          !.map_length = ask.length]
  /\ fresh' = TRUE
  /\ pc' = "idle" /\ i' = 0 /\ rest' = 0
  /\ UNCHANGED <<seg_vars, ask, walk_vars>>

-----------------------------------------------------------------------------
(* Enumeration.                                                            *)

\* Mutation: the end of the map is not looked at.
CutAtEnd_Never(k, len) == len

\* A map's piece of segment k is cut at the map's end.
CutAtEnd(k, len) == IF k = dmap.seg_last THEN len - dmap.seg_trunc ELSE len

MapFirst ==
  /\ pc = "idle" /\ fresh /\ seg_num > 0
  /\ dmap.seg_first # NULL
  /\ LET seg == segs[dmap.seg_first]
     IN  pieces' = << [addr |-> seg.ds_addr + dmap.seg_skip,
                       len |-> CutAtEnd(dmap.seg_first,
                                        seg.ds_len - dmap.seg_skip)] >>
  /\ cursor' = dmap.seg_first
  /\ pc' = "map_walk"
  /\ UNCHANGED <<seg_vars, map_vars, i, rest>>

MapNext ==
  /\ pc = "map_walk"
  /\ MoreInMap
  /\ cursor' = cursor + 1
  /\ LET seg == segs[cursor + 1]
     IN  pieces' = Append(pieces, [addr |-> seg.ds_addr,
                                   len |-> CutAtEnd(cursor + 1, seg.ds_len)])
  /\ UNCHANGED <<seg_vars, map_vars, pc, i, rest>>

PhysFirst ==
  /\ pc = "idle" /\ seg_ptr /\ seg_num > 0
  /\ pieces' = << [addr |-> segs[1].ds_addr, len |-> segs[1].ds_len] >>
  /\ cursor' = 1
  /\ pc' = "phys_walk"
  /\ UNCHANGED <<seg_vars, map_vars, i, rest>>

PhysNext ==
  /\ pc = "phys_walk"
  /\ MoreInList
  /\ cursor' = cursor + 1
  /\ LET seg == segs[cursor + 1]
     IN  pieces' = Append(pieces, [addr |-> seg.ds_addr, len |-> seg.ds_len])
  /\ UNCHANGED <<seg_vars, map_vars, pc, i, rest>>

\* The call that returns NULL.
WalkEnd ==
  /\ \/ pc = "map_walk" /\ ~MoreInMap
     \/ pc = "phys_walk" /\ ~MoreInList
  /\ pc' = "idle"
  /\ cursor' = NULL /\ pieces' = <<>>
  /\ UNCHANGED <<seg_vars, map_vars, i, rest>>

-----------------------------------------------------------------------------
Turn == SeekPast \/ SeekFound \/ Extend \/ Truncate
        \/ MapNext \/ PhysNext \/ WalkEnd

Call == MapFirst \/ PhysFirst
        \/ \E offset, length \in 0 .. MaxBytes : Slice(offset, length)

Next == Turn \/ Call \/ DmaUnmap \/ \E n \in 0 .. MaxBytes : DmaMap(n)

Spec == Init /\ [][Next]_slice_vars

-----------------------------------------------------------------------------
(* Properties.                                                             *)

Calls == {"idle", "seek", "extend", "map_walk", "phys_walk"}

TypeOK ==
  /\ seg_ptr \in BOOLEAN
  /\ segs \in Seq(Segment)
  /\ dmap \in Map
  /\ fresh \in BOOLEAN
  /\ ask \in Range
  /\ pc \in Calls
  /\ i \in Nat /\ rest \in Nat
  /\ cursor \in Nat
  /\ pieces \in Seq(Piece)

-----------------------------------------------------------------------------
(* The inductive invariant.                                                *)

\* A map is only good for the load it was made from.
FreshInv == fresh => seg_ptr

\* The segments lie end to end from byte 0.
SegsTile ==
  /\ seg_num > 0 => segs[1].ds_addr = 0
  /\ \A k \in 1 .. seg_num - 1 : segs[k + 1].ds_addr = End(segs[k])

\* What a slice in progress was asked for lies inside the list.
AskInside == ask.offset < Total /\ ask.offset + ask.length <= Total

SeekInv ==
  pc = "seek" =>
    /\ seg_ptr /\ ~fresh /\ AskInside /\ dmap.map_offset = ask.offset
    /\ i \in 1 .. seg_num
    /\ segs[i].ds_addr + rest = ask.offset

ExtendInv ==
  pc = "extend" =>
    /\ seg_ptr /\ ~fresh /\ AskInside /\ dmap.map_offset = ask.offset
    /\ 1 <= dmap.seg_first /\ dmap.seg_first <= dmap.seg_last
    /\ dmap.seg_last <= seg_num /\ i = dmap.seg_last + 1
    /\ segs[dmap.seg_first].ds_addr + dmap.seg_skip = ask.offset
    /\ dmap.seg_skip < segs[dmap.seg_first].ds_len
    /\ End(segs[dmap.seg_last]) = ask.offset + dmap.map_length
    /\ segs[dmap.seg_last].ds_addr <= ask.offset + ask.length
    /\ dmap.seg_count = dmap.seg_last - dmap.seg_first + 1

\* Where the pieces of a map end, up to that of segment k.
PieceEnd(k) == IF k = dmap.seg_last THEN ask.offset + ask.length ELSE End(segs[k])

WalkInv ==
  /\ pc = "map_walk" =>
       /\ fresh /\ seg_num > 0
       /\ cursor \in dmap.seg_first .. dmap.seg_last
       /\ Len(pieces) = cursor - dmap.seg_first + 1
       /\ Tile(pieces, ask.offset, PieceEnd(cursor))
  /\ pc = "phys_walk" =>
       /\ cursor \in 1 .. seg_num
       /\ Len(pieces) = cursor
       /\ Tile(pieces, 0, End(segs[cursor]))

IInv == TypeOK /\ FreshInv /\ SegsTile /\ SeekInv /\ ExtendInv /\ MapIsExact
        /\ WalkInv
=============================================================================
