------------------------ MODULE ScatterGatherProofs ------------------------
(***************************************************************************)
(* Proofs about SgList, for any number of entries, any sizes, any page     *)
(* size and any width of uio_size; about DmaSlice, for loads of any length *)
(* in any number of segments, cut anywhere; and about ScatterGather: it    *)
(* keeps the specifications of its parts, and so has what is proved of     *)
(* them.  One lemma per action shows that it preserves the inductive       *)
(* invariant of its part; the theorems follow from it.                     *)
(***************************************************************************)
EXTENDS ScatterGather, WellFoundedInduction, TLAPS

-----------------------------------------------------------------------------
(* Induction over the natural numbers, by way of their order.              *)

Below == {p \in Nat \X Nat : p[1] < p[2]}

LEMMA BelowIsWellFounded == IsWellFoundedOn(Below, Nat)
<1>1. Below = OpToRel(<, Nat)
  BY DEF Below, OpToRel
<1> QED
  BY <1>1, NatLessThanWellFounded

\* A set of numbers that is not empty has a least one.
LEMMA LeastOf ==
  ASSUME NEW S \in SUBSET Nat, S # {}
  PROVE  \E x \in S : \A y \in S : x <= y
<1>1. PICK x \in S : \A y \in S : ~(<<y, x>> \in Below)
  BY BelowIsWellFounded, WFMin
<1>2. ASSUME NEW y \in S PROVE x <= y
  <2>1. x \in Nat /\ y \in Nat
    OBVIOUS
  <2>2. SUFFICES ASSUME y < x PROVE FALSE
    BY <2>1
  <2> DEFINE p == <<y, x>>
  <2>3. p \in Nat \X Nat /\ p[1] < p[2]
    BY <2>1, <2>2
  <2>4. p \in Below
    BY <2>3 DEF Below
  <2> QED
    BY <2>4, <1>1
<1> QED
  BY <1>2

\* A set that has 0 and the successor of each number it has, has them all.
LEMMA Induction ==
  ASSUME NEW S, 0 \in S, \A n \in Nat : n \in S => n + 1 \in S
  PROVE  Nat \subseteq S
<1> DEFINE missing == {n \in Nat : n \notin S}
<1>1. SUFFICES ASSUME missing # {} PROVE FALSE
  OBVIOUS
<1>2. PICK x \in missing : \A y \in missing : x <= y
  BY <1>1, LeastOf
<1>3. x \in Nat /\ x # 0 /\ x - 1 \in Nat /\ x - 1 \notin missing
  BY <1>2
<1>4. x - 1 \in S
  BY <1>3
<1>5. (x - 1) + 1 \in S
  BY <1>3, <1>4
<1> QED
  BY <1>2, <1>3, <1>5

-----------------------------------------------------------------------------
(* SgList.                                                                   *)

USE DEF List!uio_num, List!Ready

\* The remainder of a division is below the divisor.
LEMMA Remainder ==
  ASSUME NEW a \in Nat, NEW w \in Nat \ {0}
  PROVE  a % w \in 0 .. w - 1
OBVIOUS

\* An entry of the list's space and thread may be added where there is room.
LEMMA AddEntryKeeps ==
  ASSUME List!TypeOK, List!OneSpace, List!HasRoom, NEW e \in List!Entry,
  List!AddEntry(e),
         uio_max' = uio_max,
         uio_segflg' = e.space, uio_td' = e.td,
         List!uio_num = 0 \/ (uio_segflg = e.space /\ uio_td = e.td)
  PROVE  /\ uio_vec' \in Seq(List!Entry)
         /\ Len(uio_vec') = List!uio_num + 1
         /\ \A k \in 1 .. List!uio_num : uio_vec'[k] = uio_vec[k]
         /\ uio_vec'[List!uio_num + 1] = e
         /\ uio_size' \in 0 .. WordSize - 1
         /\ List!FitsItsArray'
         /\ List!OneSpace'
<1>1. /\ uio_vec \in Seq(List!Entry) /\ List!uio_num \in Nat /\ uio_max \in Nat
      /\ uio_vec' = Append(uio_vec, e)
      /\ uio_size' = (uio_size + e.iov_len) % WordSize
  BY ListAssumption DEF List!TypeOK, List!AddEntry
<1>2. /\ uio_vec' \in Seq(List!Entry)
      /\ Len(uio_vec') = List!uio_num + 1
      /\ \A k \in 1 .. List!uio_num : uio_vec'[k] = uio_vec[k]
      /\ uio_vec'[List!uio_num + 1] = e
  BY <1>1
<1>3. uio_size' \in 0 .. WordSize - 1
  <2>1. uio_size \in Nat /\ e.iov_len \in Nat /\ WordSize \in Nat \ {0}
    BY ListAssumption DEF List!TypeOK, List!Entry
  <2>2. uio_size + e.iov_len \in Nat
    BY <2>1
  <2> QED
    BY <2>1, <2>2, <1>1, Remainder
<1>4. List!FitsItsArray'
  BY <1>1, <1>2 DEF List!HasRoom, List!FitsItsArray
<1>5. List!OneSpace'
  <2> SUFFICES ASSUME NEW k \in 1 .. List!uio_num + 1
               PROVE  /\ uio_vec'[k].space = uio_segflg'
                      /\ uio_vec'[k].td = uio_td'
    BY <1>2 DEF List!OneSpace
  <2>1. CASE k = List!uio_num + 1
    BY <2>1, <1>2
  <2>2. CASE k # List!uio_num + 1
    <3>1. k \in 1 .. List!uio_num /\ List!uio_num # 0
      BY <2>2, <1>1
    <3>2. uio_vec[k].space = uio_segflg /\ uio_vec[k].td = uio_td
      BY <3>1 DEF List!OneSpace
    <3> QED
      BY <3>1, <3>2, <1>2
  <2> QED
    BY <2>1, <2>2
<1> QED
  BY <1>2, <1>3, <1>4, <1>5

\* Init.
LEMMA ListInitInv == List!Init => List!IInv
<1> SUFFICES ASSUME List!Init PROVE List!IInv
  OBVIOUS
<1>1. uio_vec \in Seq(List!Entry) /\ Len(uio_vec) = 0
  BY DEF List!Init
<1>2. uio_size \in 0 .. WordSize - 1 /\ uio_max \in 0 .. MaxVecs
  BY ListAssumption DEF List!Init
<1>3. ~pages.on
  BY DEF List!Init, List!NoCall
<1>4. List!TypeOK
  BY <1>1, <1>2 DEF List!Init, List!TypeOK, List!Spaces
<1>5. List!OneSpace /\ List!FitsItsArray
  BY <1>1, <1>2 DEF List!OneSpace, List!FitsItsArray
<1>6. List!PhaseInv
  BY DEF List!Init, List!PhaseInv
<1>7. List!NothingLeaks
  BY DEF List!Init, List!NothingLeaks
<1> QED
  BY <1>1, <1>3, <1>4, <1>5, <1>6, <1>7
     DEF List!IInv, List!PagesTile, List!CallInv, List!KernelInv, List!OffsetInv

\* kfio_sgl_alloc_nvec, up to the point where the list is ready or given up.
LEMMA SetupInv ==
  ASSUME List!IInv, List!Setup
  PROVE  List!IInv'
<1>1. CASE \E n \in 1 .. MaxVecs : List!AllocList(n)
  <2>1. PICK n \in 1 .. MaxVecs : List!AllocList(n)
    BY <1>1
  <2>2. /\ sgl = "none" /\ sgl' = "tagless" /\ uio_max' = n
        /\ uio_vec' = <<>> /\ uio_size' = 0
        /\ uio_segflg' \in List!Spaces /\ uio_td' \in Threads \cup {NoThread}
        /\ dma_tag' = FALSE /\ tags' = 0 /\ maps' = 0
        /\ UNCHANGED <<loaded, seg_ptr, pages>>
    BY <2>1 DEF List!AllocList
  <2>3. ~pages.on
    BY <2>2 DEF List!IInv, List!CallInv
  <2>4. List!TypeOK'
    <3>1. tags' \in {0, 1} /\ maps' \in {-1, 0, 1} /\ dma_tag' \in BOOLEAN
      BY <2>2
    <3> QED
      BY <2>2, <3>1, ListAssumption DEF List!IInv, List!TypeOK
  <2>5. ~loaded /\ ~seg_ptr
    BY <2>2 DEF List!IInv, List!TypeOK, List!NothingLeaks, List!PhaseInv
  <2>6. List!NothingLeaks' /\ List!PhaseInv'
    BY <2>2, <2>5 DEF List!NothingLeaks, List!PhaseInv
  <2> QED
    BY <2>2, <2>3, <2>4, <2>6, ListAssumption
       DEF List!IInv, List!FitsItsArray, List!OneSpace, List!PagesTile,
           List!CallInv, List!KernelInv, List!OffsetInv
<1>2. CASE List!CreateTag
  <2>1. /\ sgl = "tagless" /\ sgl' \in {"mapless", "bail"}
        /\ \/ dma_tag' = TRUE /\ tags' = tags + 1
           \/ sgl' = "bail" /\ UNCHANGED <<dma_tag, tags>>
        /\ UNCHANGED <<uio_max, uio_vec, uio_size, uio_segflg, uio_td,
                       maps, loaded, seg_ptr, pages>>
    BY <1>2 DEF List!CreateTag, List!uio_vars
  <2>2. ~pages.on /\ ~dma_tag /\ tags = 0 /\ maps = 0 /\ ~loaded
    BY <2>1 DEF List!IInv, List!CallInv, List!PhaseInv, List!TypeOK
  <2>3. List!TypeOK'
    <3>1. tags' \in {0, 1}
      BY <2>1, <2>2
    <3>2. dma_tag' \in BOOLEAN
      BY <2>1 DEF List!IInv, List!TypeOK
    <3> QED
      BY <2>1, <3>1, <3>2 DEF List!IInv, List!TypeOK
  <2> QED
    BY <2>1, <2>2, <2>3
       DEF List!IInv, List!FitsItsArray, List!OneSpace, List!NothingLeaks,
           List!PagesTile, List!PhaseInv, List!CallInv, List!KernelInv,
           List!OffsetInv
<1>3. CASE List!CreateMap
  <2>1. /\ sgl = "mapless" /\ sgl' \in {"ready", "bail"}
        /\ maps' = IF sgl' = "ready" THEN maps + 1 ELSE maps
        /\ UNCHANGED <<uio_max, uio_vec, uio_size, uio_segflg, uio_td,
                       dma_tag, tags, loaded, seg_ptr, pages>>
    BY <1>3 DEF List!CreateMap, List!uio_vars
  <2>2. ~pages.on /\ maps = 0 /\ ~loaded
    BY <2>1 DEF List!IInv, List!CallInv, List!PhaseInv, List!NothingLeaks
  <2>3. List!TypeOK'
    BY <2>1, <2>2 DEF List!IInv, List!TypeOK
  <2>4. dma_tag /\ tags = 1
    BY <2>1 DEF List!IInv, List!PhaseInv
  <2> QED
    BY <2>1, <2>2, <2>3, <2>4
       DEF List!IInv, List!FitsItsArray, List!OneSpace, List!NothingLeaks,
           List!PagesTile, List!PhaseInv, List!CallInv, List!KernelInv,
           List!OffsetInv
<1> QED
  BY <1>1, <1>2, <1>3 DEF List!Setup

\* What unmapping does to the bus: nothing stays loaded.
LEMMA UnloadedClean ==
  ASSUME List!TypeOK, List!NothingLeaks, List!Unloaded
  PROVE  loaded' = FALSE /\ seg_ptr' = FALSE
BY DEF List!TypeOK, List!NothingLeaks, List!Unloaded

\* kfio_sgl_destroy gives the tag back, and a map.
LEMMA DestroyGivesBack ==
  ASSUME List!IInv, List!Destroy
  PROVE  /\ tags' = 0
         /\ maps' = 0 \/ (maps' = -1 /\ sgl = "bail" /\ dma_tag)
<1>1. CASE dma_tag
  <2>1. tags' = tags - 1 /\ maps' = maps - 1 /\ sgl \in {"ready", "bail"}
    BY <1>1 DEF List!Destroy, List!GiveBack
  <2>2. tags = 1 /\ maps = IF sgl = "ready" THEN 1 ELSE 0
    BY <1>1, <2>1 DEF List!IInv, List!PhaseInv
  <2> QED
    BY <1>1, <2>1, <2>2
<1>2. CASE ~dma_tag
  <2>1. tags' = tags /\ maps' = maps
    BY <1>2 DEF List!Destroy, List!GiveBack
  <2>2. tags = 0 /\ maps = 0
    BY <1>2 DEF List!Destroy, List!IInv, List!PhaseInv, List!TypeOK
  <2> QED
    BY <2>1, <2>2
<1> QED
  BY <1>1, <1>2

\* kfio_sgl_destroy.
LEMMA DestroyInv ==
  ASSUME List!IInv, List!Destroy
  PROVE  List!IInv'
<1>1. /\ sgl' = "none" /\ dma_tag' = FALSE
      /\ uio_max' = 0 /\ uio_vec' = <<>> /\ uio_size' = 0
      /\ uio_segflg' = "SYSSPACE" /\ uio_td' = NoThread /\ pages' = pages
  BY DEF List!Destroy
<1>2. ~pages.on
  BY DEF List!Destroy, List!IInv, List!CallInv
<1>3. loaded' = FALSE /\ seg_ptr' = FALSE
  <2>1. CASE dma_tag
    BY <2>1, UnloadedClean DEF List!Destroy, List!GiveBack, List!IInv
  <2>2. CASE ~dma_tag
    BY <2>2 DEF List!Destroy, List!GiveBack, List!IInv, List!TypeOK,
                List!NothingLeaks, List!PhaseInv
  <2> QED
    BY <2>1, <2>2
<1>a. tags' = 0 /\ maps' \in {-1, 0}
  BY DestroyGivesBack
<1>4. uio_vec' \in Seq(List!Entry) /\ Len(uio_vec') = 0
  BY <1>1
<1>5. List!TypeOK'
  <2>1. uio_size' \in 0 .. WordSize - 1 /\ uio_max' \in 0 .. MaxVecs
    BY <1>1, ListAssumption
  <2> QED
    BY <2>1, <1>1, <1>3, <1>4, <1>a DEF List!IInv, List!TypeOK, List!Spaces
<1>6. List!OneSpace' /\ List!FitsItsArray'
  BY <1>1, <1>4 DEF List!OneSpace, List!FitsItsArray
<1>7. List!NothingLeaks' /\ List!PhaseInv'
  BY <1>1, <1>3, <1>a DEF List!NothingLeaks, List!PhaseInv
<1> QED
  BY <1>1, <1>2, <1>4, <1>5, <1>6, <1>7
     DEF List!IInv, List!PagesTile, List!CallInv, List!KernelInv, List!OffsetInv

\* kfio_sgl_reset.
LEMMA ResetInv ==
  ASSUME List!IInv, List!Reset
  PROVE  List!IInv'
<1>1. /\ sgl = "ready" /\ ~pages.on /\ uio_vec' = <<>> /\ uio_size' = 0
      /\ UNCHANGED <<sgl, uio_max, uio_segflg, uio_td, dma_tag, tags, maps,
                  pages>>
  BY DEF List!Reset
<1>2. loaded' = FALSE /\ seg_ptr' = FALSE
  BY UnloadedClean DEF List!Reset, List!IInv
<1>3. uio_vec' \in Seq(List!Entry) /\ Len(uio_vec') = 0
  BY <1>1
<1>4. List!TypeOK'
  <2>1. uio_size' \in 0 .. WordSize - 1
    BY <1>1, ListAssumption
  <2> QED
    BY <2>1, <1>1, <1>2, <1>3 DEF List!IInv, List!TypeOK
<1>5. List!OneSpace' /\ List!FitsItsArray'
  BY <1>1, <1>3 DEF List!IInv, List!TypeOK, List!OneSpace, List!FitsItsArray
<1>6. List!NothingLeaks' /\ List!PhaseInv'
  BY <1>1, <1>2 DEF List!IInv, List!NothingLeaks, List!PhaseInv
<1>7. List!PagesTile' /\ List!CallInv' /\ List!OffsetInv'
  BY <1>1 DEF List!PagesTile, List!CallInv, List!OffsetInv
<1>8. List!KernelInv'
  BY <1>3 DEF List!KernelInv
<1> QED
  BY <1>4, <1>5, <1>6, <1>7, <1>8 DEF List!IInv

\* kfio_sgl_map_bytes and kfio_sgl_map_page.
LEMMA MapBytesInv ==
  ASSUME List!IInv, NEW size \in Sizes, List!MapBytes(size)
  PROVE  List!IInv'
<1> DEFINE e == [page |-> 0, off |-> 0, iov_len |-> size,
                 space |-> "SYSSPACE", td |-> NoThread]
<1>1. /\ sgl = "ready" /\ ~pages.on /\ List!HasRoom /\ List!KernelMayFollow
      /\ List!AddEntry(e)
      /\ uio_segflg' = "SYSSPACE" /\ uio_td' = NoThread
      /\ UNCHANGED <<sgl, uio_max, dma_tag, tags, maps, loaded, seg_ptr, pages>>
  BY DEF List!MapBytes, List!bus_vars
<1>2. e \in List!Entry /\ e.space = "SYSSPACE" /\ e.td = NoThread
  BY ListAssumption DEF List!Entry, List!Spaces
<1>3. List!uio_num = 0 \/ (uio_segflg = "SYSSPACE" /\ uio_td = NoThread)
  BY <1>1 DEF List!IInv, List!KernelInv, List!KernelMayFollow
<1> HIDE DEF e
<1>4. /\ uio_vec' \in Seq(List!Entry) /\ uio_size' \in 0 .. WordSize - 1
      /\ List!FitsItsArray' /\ List!OneSpace'
      /\ Len(uio_vec') = List!uio_num + 1
  BY <1>1, <1>2, <1>3, AddEntryKeeps DEF List!IInv
<1>5. List!TypeOK'
  BY <1>1, <1>4 DEF List!IInv, List!TypeOK, List!Spaces
<1> QED
  BY <1>1, <1>4, <1>5
     DEF List!IInv, List!NothingLeaks, List!PagesTile, List!PhaseInv,
         List!CallInv, List!KernelInv, List!OffsetInv

\* The call of kfio_sgl_map_user_pages.
LEMMA UserPagesCallInv ==
  ASSUME List!IInv, NEW t \in Threads, NEW size \in Sizes,
         NEW offset \in 0 .. PageSize - 1, List!UserPagesCall(t, size, offset)
  PROVE  List!IInv'
<1> DEFINE p == [on |-> TRUE, td |-> t, start |-> List!uio_num, asked |-> size,
                 first |-> offset, page |-> 0, off |-> offset, left |-> size]
<1>1. /\ sgl = "ready" /\ ~pages.on /\ List!UserMayFollow(t)
      /\ uio_segflg' = "USERSPACE" /\ uio_td' = t /\ pages' = p
      /\ UNCHANGED <<sgl, uio_max, uio_vec, uio_size, dma_tag, tags, maps, loaded,
                     seg_ptr>>
  BY DEF List!UserPagesCall, List!bus_vars
<1>2. List!uio_num \in Nat /\ size \in Nat
  BY ListAssumption DEF List!IInv, List!TypeOK
<1>3. p \in List!PagesCall
  BY <1>2 DEF List!PagesCall
<1>4. p.on = TRUE /\ p.start = List!uio_num /\ p.page = 0 /\ p.td = t
      /\ p.off = p.first
  OBVIOUS
<1> HIDE DEF p
<1>5. List!TypeOK'
  BY <1>1, <1>3 DEF List!IInv, List!TypeOK, List!Spaces
<1>6. List!PagesTile' /\ List!CallInv' /\ List!OffsetInv' /\ List!KernelInv'
  BY <1>1, <1>2, <1>4
     DEF List!PagesTile, List!CallInv, List!OffsetInv, List!KernelInv
<1>7. List!OneSpace'
  BY <1>1 DEF List!IInv, List!OneSpace, List!UserMayFollow
<1> QED
  BY <1>1, <1>2, <1>5, <1>6, <1>7
     DEF List!IInv, List!FitsItsArray, List!NothingLeaks, List!PhaseInv

\* One turn of its loop: the new entry takes its page up to the page's end,
\* or up to the end of the range.
LEMMA UserPagesNextInv ==
  ASSUME List!IInv, List!UserPagesNext
  PROVE  List!IInv'
<1> DEFINE b == List!Portion(pages.left, pages.off)
           e == [page |-> pages.page, off |-> pages.off, iov_len |-> b,
                 space |-> "USERSPACE", td |-> pages.td]
<1>1. /\ pages.on /\ pages.left > 0 /\ List!HasRoom /\ List!AddEntry(e)
      /\ pages' = [pages EXCEPT !.page = pages.page + 1, !.off = 0,
                                !.left = pages.left - b]
      /\ UNCHANGED <<sgl, uio_max, uio_segflg, uio_td, dma_tag, tags, maps,
                     loaded, seg_ptr>>
  BY DEF List!UserPagesNext, List!bus_vars
<1>2. pages \in List!PagesCall
  BY <1>1 DEF List!IInv, List!TypeOK, List!NoCall
<1>3. /\ pages.left \in Nat /\ pages.page \in Nat /\ pages.start \in Nat
      /\ pages.off \in 0 .. PageSize - 1 /\ pages.first \in 0 .. PageSize - 1
      /\ pages.td \in Threads /\ PageSize \in Nat \ {0}
  BY <1>2, ListAssumption DEF List!PagesCall
<1>4. /\ b \in Nat /\ b <= pages.left /\ pages.off + b <= PageSize
      /\ pages.left - b > 0 => pages.off + b = PageSize
  BY <1>3 DEF List!Portion, List!Smaller
<1>5. /\ e.page = pages.page /\ e.off = pages.off /\ e.iov_len = b
      /\ e.space = "USERSPACE" /\ e.td = pages.td
  OBVIOUS
<1> HIDE DEF b
<1>6. e \in List!Entry
  BY <1>3, <1>4 DEF List!Entry, List!Spaces
<1> HIDE DEF e
<1>7. sgl = "ready" /\ uio_segflg = "USERSPACE" /\ uio_td = pages.td
  BY <1>1 DEF List!IInv, List!CallInv
<1>8. /\ uio_vec' \in Seq(List!Entry) /\ uio_size' \in 0 .. WordSize - 1
      /\ List!FitsItsArray' /\ List!OneSpace'
      /\ Len(uio_vec') = List!uio_num + 1
      /\ \A k \in 1 .. List!uio_num : uio_vec'[k] = uio_vec[k]
      /\ uio_vec'[List!uio_num + 1] = e
  BY <1>1, <1>5, <1>6, <1>7, AddEntryKeeps DEF List!IInv
<1>9. pages.left - b \in Nat /\ 0 \in 0 .. PageSize - 1
  BY <1>3, <1>4
<1>10. /\ pages' \in List!PagesCall
       /\ pages'.on = TRUE /\ pages'.start = pages.start
       /\ pages'.first = pages.first /\ pages'.page = pages.page + 1
       /\ pages'.left = pages.left - b /\ pages'.td = pages.td
  <2>1. pages.page + 1 \in Nat
    BY <1>3
  <2> QED
    BY <2>1, <1>1, <1>2, <1>9 DEF List!PagesCall
<1>11. List!TypeOK'
  BY <1>1, <1>8, <1>10 DEF List!IInv, List!TypeOK
<1>12. List!PagesTile'
  <2>1. /\ pages.start + pages.page = List!uio_num
        /\ \A k \in 1 .. pages.page :
             LET x == uio_vec[pages.start + k]
             IN  /\ x.page = k - 1
                 /\ x.off = IF k = 1 THEN pages.first ELSE 0
                 /\ x.off + x.iov_len <= PageSize
                 /\ k < pages.page \/ pages.left > 0
                      => x.off + x.iov_len = PageSize
    BY <1>1 DEF List!IInv, List!PagesTile
  <2>2. pages'.start + pages'.page = Len(uio_vec')
    <3>1. pages.start \in Nat /\ pages.page \in Nat /\ List!uio_num \in Nat
      BY <1>1, <1>2 DEF List!PagesCall, List!IInv, List!TypeOK
    <3> QED
      BY <2>1, <3>1, <1>8, <1>10
  <2>3. ASSUME NEW k \in 1 .. pages.page + 1
        PROVE  LET x == uio_vec'[pages.start + k]
               IN  /\ x.page = k - 1
                   /\ x.off = IF k = 1 THEN pages.first ELSE 0
                   /\ x.off + x.iov_len <= PageSize
                   /\ k < pages.page + 1 \/ pages.left - b > 0
                        => x.off + x.iov_len = PageSize
    <3>1. CASE k = pages.page + 1
      <4>1. pages.start + k = List!uio_num + 1
        BY <2>1, <3>1, <1>3
      <4>2. uio_vec'[pages.start + k] = e
        BY <4>1, <1>8
      <4>3. pages.off = IF k = 1 THEN pages.first ELSE 0
        BY <3>1, <1>1, <1>3 DEF List!IInv, List!OffsetInv
      <4> QED
        BY <4>2, <4>3, <3>1, <1>3, <1>4, <1>5
    <3>2. CASE k # pages.page + 1
      <4>1. k \in 1 .. pages.page /\ pages.start + k \in 1 .. List!uio_num
        BY <2>1, <3>2, <1>3
      <4>2. uio_vec'[pages.start + k] = uio_vec[pages.start + k]
        BY <4>1, <1>8
      <4> QED
        BY <2>1, <4>1, <4>2, <1>1
    <3> QED
      BY <3>1, <3>2
  <2> QED
    BY <2>2, <2>3, <1>10 DEF List!PagesTile
<1>13. List!CallInv' /\ List!OffsetInv' /\ List!KernelInv'
  <2>1. pages'.off = 0
    BY <1>1, <1>2 DEF List!PagesCall
  <2>2. pages'.page # 0
    BY <1>3, <1>10
  <2> QED
    BY <2>1, <2>2, <1>1, <1>7, <1>10
       DEF List!CallInv, List!OffsetInv, List!KernelInv
<1> QED
  BY <1>1, <1>8, <1>11, <1>12, <1>13
     DEF List!IInv, List!NothingLeaks, List!PhaseInv

\* A call on user pages returns, with or without success.
LEMMA UserPagesEndInv ==
  ASSUME List!IInv, List!UserPagesFull \/ List!UserPagesReturn
  PROVE  List!IInv'
<1>1. /\ pages' = List!NoCall
      /\ UNCHANGED <<sgl, uio_max, uio_vec, uio_size, uio_segflg, uio_td,
                     dma_tag, tags, maps, loaded, seg_ptr>>
  BY DEF List!UserPagesFull, List!UserPagesReturn, List!uio_vars, List!bus_vars
<1>2. ~pages'.on
  BY <1>1 DEF List!NoCall
<1>3. List!TypeOK'
  BY <1>1 DEF List!IInv, List!TypeOK
<1> QED
  BY <1>1, <1>2, <1>3
     DEF List!IInv, List!FitsItsArray, List!OneSpace, List!NothingLeaks,
         List!PagesTile, List!PhaseInv, List!CallInv, List!KernelInv,
         List!OffsetInv

\* kfio_sgl_dma_map and kfio_sgl_dma_unmap.
LEMMA BusInv ==
  ASSUME List!IInv, List!DmaMapLoads \/ List!DmaMapFails \/ List!DmaUnmap
  PROVE  List!IInv'
<1>1. /\ sgl = "ready" /\ ~pages.on
      /\ UNCHANGED <<sgl, uio_max, uio_vec, uio_size, uio_segflg, uio_td,
                     dma_tag, tags, maps, pages>>
  BY DEF List!DmaMapLoads, List!DmaMapFails, List!DmaUnmap, List!uio_vars
<1>2. maps = 1 /\ tags = 1
  BY <1>1 DEF List!IInv, List!PhaseInv
<1>3. loaded' \in BOOLEAN /\ seg_ptr' = loaded'
  <2>1. CASE List!DmaMapLoads
    BY <2>1 DEF List!DmaMapLoads
  <2>2. CASE List!DmaMapFails
    BY <2>2 DEF List!DmaMapFails, List!IInv, List!TypeOK
  <2>3. CASE List!DmaUnmap
    BY <2>3, UnloadedClean DEF List!DmaUnmap, List!IInv
  <2> QED
    BY <2>1, <2>2, <2>3
<1>4. List!TypeOK'
  BY <1>1, <1>3 DEF List!IInv, List!TypeOK
<1> QED
  BY <1>1, <1>2, <1>3, <1>4
     DEF List!IInv, List!FitsItsArray, List!OneSpace, List!NothingLeaks,
         List!PagesTile, List!PhaseInv, List!CallInv, List!KernelInv,
         List!OffsetInv

\* The inductive step.
LEMMA ListNextInv == List!IInv /\ [List!Next]_(List!list_vars) => List!IInv'
<1> SUFFICES ASSUME List!IInv, [List!Next]_(List!list_vars) PROVE List!IInv'
  OBVIOUS
<1>1. CASE UNCHANGED List!list_vars
  <2>1. UNCHANGED <<sgl, uio_max, uio_vec, uio_size, uio_segflg, uio_td,
                    dma_tag, tags, maps, loaded, seg_ptr, pages>>
    BY <1>1 DEF List!list_vars, List!uio_vars, List!bus_vars
  <2> QED
    BY <2>1
       DEF List!IInv, List!TypeOK, List!FitsItsArray, List!OneSpace,
           List!NothingLeaks, List!PagesTile, List!PhaseInv, List!CallInv,
           List!KernelInv, List!OffsetInv
<1>2. CASE List!Fill
  BY <1>2, MapBytesInv, UserPagesCallInv DEF List!Fill
<1>3. CASE List!Turn
  BY <1>3, UserPagesNextInv, UserPagesEndInv DEF List!Turn
<1> QED
  BY <1>1, <1>2, <1>3, SetupInv, BusInv, ResetInv, DestroyInv DEF List!Next

\* The inductive invariant holds of every sequence of calls.
THEOREM ListInvariance == List!Spec => []List!IInv
BY ListInitInv, ListNextInv, PTL DEF List!Spec

\* Type correctness, the wrapping of uio_size included.
THEOREM ListTypeCorrect == List!Spec => []List!TypeOK
<1>1. List!IInv => List!TypeOK
  BY DEF List!IInv
<1> QED
  BY ListInvariance, <1>1, PTL

\* No call writes past the entries a list was allocated with.
THEOREM Fits == List!Spec => []List!FitsItsArray
<1>1. List!IInv => List!FitsItsArray
  BY DEF List!IInv
<1> QED
  BY ListInvariance, <1>1, PTL

\* Kernel buffers and user pages, and those of two threads, never mix.
THEOREM NeverMixed == List!Spec => []List!OneSpace
<1>1. List!IInv => List!OneSpace
  BY DEF List!IInv
<1> QED
  BY ListInvariance, <1>1, PTL

\* Bus objects are given back in order and none is left behind.
THEOREM BusIsClean == List!Spec => []List!NothingLeaks
<1>1. List!IInv => List!NothingLeaks
  BY DEF List!IInv
<1> QED
  BY ListInvariance, <1>1, PTL

\* A range of user memory is cut at page boundaries and nowhere else.
THEOREM PagesAreTiled == List!Spec => []List!PagesTile
<1>1. List!IInv => List!PagesTile
  BY DEF List!IInv
<1> QED
  BY ListInvariance, <1>1, PTL

-----------------------------------------------------------------------------
(* The bytes of a list's first entries.                                    *)

\* f counts the bytes of v's first entries, up to m of them.
Counts(f, v, m) ==
  /\ f \in [0 .. m -> Nat]
  /\ f[0] = 0
  /\ \A k \in 1 .. m : f[k] = f[k - 1] + v[k].iov_len

LEMMA CountsExist ==
  ASSUME NEW v \in Seq(List!Entry)
  PROVE  \E f : Counts(f, v, Len(v))
<1> DEFINE S == {n \in Nat : n <= Len(v) => \E f : Counts(f, v, n)}
<1>1. 0 \in S
  <2> DEFINE f == [k \in 0 .. 0 |-> 0]
  <2>1. Counts(f, v, 0)
    BY DEF Counts
  <2> QED
    BY <2>1
<1>2. ASSUME NEW n \in Nat, n \in S PROVE n + 1 \in S
  <2>1. SUFFICES ASSUME n + 1 <= Len(v) PROVE \E g : Counts(g, v, n + 1)
    OBVIOUS
  <2>2. PICK f : Counts(f, v, n)
    BY <1>2, <2>1
  <2>3. v[n + 1].iov_len \in Nat
    <3>1. n + 1 \in 1 .. Len(v)
      BY <2>1
    <3>2. v[n + 1] \in List!Entry
      BY <3>1
    <3> QED
      BY <3>2 DEF List!Entry
  <2> DEFINE g == [k \in 0 .. n + 1 |->
                     IF k = n + 1 THEN f[n] + v[n + 1].iov_len ELSE f[k]]
  <2>4. g \in [0 .. n + 1 -> Nat]
    BY <2>2, <2>3 DEF Counts
  <2>5. g[0] = 0
    BY <2>2 DEF Counts
  <2>6. ASSUME NEW k \in 1 .. n + 1 PROVE g[k] = g[k - 1] + v[k].iov_len
    BY <2>2 DEF Counts
  <2>7. Counts(g, v, n + 1)
    BY <2>4, <2>5, <2>6 DEF Counts
  <2> QED
    BY <2>7
<1>3. Nat \subseteq S
  BY <1>1, <1>2, Induction
<1> QED
  BY <1>3

\* What BytesOf defines is what it says.
LEMMA BytesOfCounts ==
  ASSUME NEW v \in Seq(List!Entry)
  PROVE  Counts(List!BytesOf(v), v, Len(v))
<1> DEFINE Def(f) == f = [n \in 0 .. Len(v) |->
                            IF n = 0 THEN 0 ELSE f[n - 1] + v[n].iov_len]
<1>1. PICK f : Counts(f, v, Len(v))
  BY CountsExist
<1>2. Def(f)
  <2>1. ASSUME NEW n \in 0 .. Len(v)
        PROVE  f[n] = IF n = 0 THEN 0 ELSE f[n - 1] + v[n].iov_len
    BY <1>1 DEF Counts
  <2>2. f = [n \in 0 .. Len(v) |-> f[n]]
    BY <1>1 DEF Counts
  <2> QED
    BY <2>1, <2>2
<1>3. List!BytesOf(v) = CHOOSE g : Def(g)
  BY DEF List!BytesOf
<1> DEFINE g == List!BytesOf(v)
<1>4. Def(g)
  <2>1. Def(CHOOSE x : Def(x))
    BY <1>2
  <2> QED
    BY <2>1, <1>3
<1>5. /\ g = [n \in 0 .. Len(v) |->
                IF n = 0 THEN 0 ELSE g[n - 1] + v[n].iov_len]
  BY <1>4
<1> HIDE DEF Def, g
<1>6. g[0] = 0 /\ \A k \in 1 .. Len(v) : g[k] = g[k - 1] + v[k].iov_len
  BY <1>5
<1>7. \A n \in 0 .. Len(v) : g[n] = f[n]
  <2> DEFINE S == {n \in Nat : n <= Len(v) => g[n] = f[n]}
  <2>1. 0 \in S
    BY <1>1, <1>6 DEF Counts
  <2>2. ASSUME NEW n \in Nat, n \in S PROVE n + 1 \in S
    BY <2>2, <1>1, <1>6 DEF Counts
  <2>3. Nat \subseteq S
    BY <2>1, <2>2, Induction
  <2> QED
    BY <2>3
<1>8. g \in [0 .. Len(v) -> Nat]
  <2>1. \A n \in 0 .. Len(v) : g[n] \in Nat
    BY <1>7, <1>1 DEF Counts
  <2>2. DOMAIN g = 0 .. Len(v) /\ g = [n \in DOMAIN g |-> g[n]]
    BY <1>5
  <2> QED
    BY <2>1, <2>2
<1> QED
  BY <1>6, <1>8 DEF Counts, g

\* Appending an entry adds its bytes, and leaves what the first ones have.
LEMMA AppendCounts ==
  ASSUME NEW v \in Seq(List!Entry), NEW e \in List!Entry
  PROVE  /\ Append(v, e) \in Seq(List!Entry)
         /\ \A n \in 0 .. Len(v) :
              List!BytesOf(Append(v, e))[n] = List!BytesOf(v)[n]
         /\ List!BytesOf(Append(v, e))[Len(v) + 1]
              = List!BytesOf(v)[Len(v)] + e.iov_len
<1> DEFINE w == Append(v, e)
           f == List!BytesOf(v)
           g == List!BytesOf(w)
<1>1. /\ w \in Seq(List!Entry) /\ Len(w) = Len(v) + 1 /\ Len(v) \in Nat
      /\ \A x \in 1 .. Len(v) : v[x] = w[x]
      /\ w[Len(v) + 1] = e
  OBVIOUS
<1>2. Counts(f, v, Len(v)) /\ Counts(g, w, Len(v) + 1)
  BY <1>1, BytesOfCounts
<1> HIDE DEF w, f, g
<1>3. \A n \in 0 .. Len(v) : f[n] = g[n]
  <2> DEFINE S == {n \in Nat : n <= Len(v) => f[n] = g[n]}
  <2>1. 0 \in S
    BY <1>2 DEF Counts
  <2>2. ASSUME NEW n \in Nat, n \in S PROVE n + 1 \in S
    <3>1. SUFFICES ASSUME n + 1 <= Len(v) PROVE f[n + 1] = g[n + 1]
      OBVIOUS
    <3>2. f[n] = g[n] /\ v[n + 1] = w[n + 1]
      BY <1>1, <2>2, <3>1
    <3>3. (n + 1) - 1 = n /\ n + 1 \in 1 .. Len(v)
      BY <1>1, <3>1
    <3>4. f[n + 1] = f[n] + v[n + 1].iov_len
      BY <3>3, <1>2 DEF Counts
    <3>5. g[n + 1] = g[n] + w[n + 1].iov_len
      BY <3>3, <1>1, <1>2 DEF Counts
    <3> QED
      BY <3>2, <3>4, <3>5
  <2>3. Nat \subseteq S
    BY <2>1, <2>2, Induction
  <2> QED
    BY <2>3
<1>4. g[Len(v) + 1] = g[(Len(v) + 1) - 1] + w[Len(v) + 1].iov_len
  BY <1>1, <1>2 DEF Counts
<1>5. (Len(v) + 1) - 1 = Len(v) /\ f[Len(v)] = g[Len(v)]
  BY <1>1, <1>3
<1>6. g[Len(v) + 1] = f[Len(v)] + e.iov_len
  BY <1>1, <1>4, <1>5
<1> QED
  BY <1>1, <1>3, <1>6 DEF w, f, g

LEMMA NoBytes ==
  /\ <<>> \in Seq(List!Entry) /\ Len(<<>>) = 0
  /\ List!BytesOf(<<>>)[0] = 0
<1>1. <<>> \in Seq(List!Entry) /\ Len(<<>>) = 0
  OBVIOUS
<1> QED
  BY <1>1, BytesOfCounts DEF Counts

\* A number is a multiple of w and a remainder.
LEMMA Division ==
  ASSUME NEW a \in Nat, NEW w \in Nat \ {0}
  PROVE  \E q \in Nat, r \in 0 .. w - 1 : a = w * q + r /\ a % w = r
<1>1. /\ a = w * (a \div w) + (a % w)
      /\ a \div w \in Nat /\ a % w \in 0 .. w - 1
  OBVIOUS
<1> QED
  BY <1>1

LEMMA Multiple ==
  ASSUME NEW w \in Nat \ {0}, NEW d \in Int, d >= 1
  PROVE  w * d >= w
OBVIOUS

\* There is one such remainder.
LEMMA OneRemainder ==
  ASSUME NEW w \in Nat \ {0}, NEW q \in Int, NEW p \in Int,
         NEW r \in 0 .. w - 1, NEW s \in 0 .. w - 1, w * q + r = w * p + s
  PROVE  r = s
<1>1. w * (q - p) = s - r /\ w * (p - q) = r - s
  OBVIOUS
<1>2. CASE q - p >= 1
  <2>1. w * (q - p) >= w
    BY <1>2, Multiple
  <2> QED
    BY <2>1, <1>1
<1>3. CASE p - q >= 1
  <2>1. w * (p - q) >= w
    BY <1>3, Multiple
  <2> QED
    BY <2>1, <1>1
<1>4. CASE p = q
  BY <1>4
<1> QED
  BY <1>2, <1>3, <1>4

\* Adding to a number modulo w is, modulo w, adding to the number.
LEMMA AddModulo ==
  ASSUME NEW a \in Nat, NEW b \in Nat, NEW w \in Nat \ {0}
  PROVE  ((a % w) + b) % w = (a + b) % w
<1>1. PICK q \in Nat, r \in 0 .. w - 1 : a = w * q + r /\ a % w = r
  BY Division
<1>2. r + b \in Nat /\ a + b \in Nat
  OBVIOUS
<1>3. PICK p \in Nat, s \in 0 .. w - 1 : r + b = w * p + s /\ (r + b) % w = s
  BY <1>2, Division
<1>4. PICK m \in Nat, t \in 0 .. w - 1 : a + b = w * m + t /\ (a + b) % w = t
  BY <1>2, Division
<1>5. w * m + t = w * (q + p) + s
  BY <1>1, <1>3, <1>4
<1>6. q + p \in Int
  OBVIOUS
<1>7. t = s
  BY <1>5, <1>6, OneRemainder
<1> QED
  BY <1>1, <1>3, <1>4, <1>7

\* Both calls that add an entry count it.
LEMMA AddEntryCounts ==
  ASSUME List!TypeOK, NEW e \in List!Entry, List!AddEntry(e),
         uio_size = List!ListBytes % WordSize
  PROVE  /\ uio_size' = List!ListBytes' % WordSize
         /\ List!ListBytes' = List!ListBytes + e.iov_len
         /\ \A n \in 0 .. List!uio_num :
              List!BytesOf(uio_vec')[n] = List!BytesOf(uio_vec)[n]
         /\ List!ListBytes \in Nat /\ e.iov_len \in Nat
<1>1. /\ uio_vec \in Seq(List!Entry) /\ uio_vec' = Append(uio_vec, e)
      /\ uio_size' = (uio_size + e.iov_len) % WordSize
      /\ WordSize \in Nat \ {0}
  BY ListAssumption DEF List!TypeOK, List!AddEntry
<1>2. /\ List!ListBytes = List!BytesOf(uio_vec)[Len(uio_vec)]
      /\ List!ListBytes' = List!BytesOf(uio_vec')[Len(uio_vec')]
  BY DEF List!ListBytes
<1>3. Len(uio_vec') = Len(uio_vec) + 1 /\ Len(uio_vec) \in Nat
  BY <1>1
<1>4. /\ \A n \in 0 .. Len(uio_vec) :
           List!BytesOf(uio_vec')[n] = List!BytesOf(uio_vec)[n]
      /\ List!BytesOf(uio_vec')[Len(uio_vec) + 1]
           = List!BytesOf(uio_vec)[Len(uio_vec)] + e.iov_len
  BY <1>1, AppendCounts
<1>5. List!ListBytes' = List!ListBytes + e.iov_len
  BY <1>2, <1>3, <1>4
<1>6. List!ListBytes \in Nat /\ e.iov_len \in Nat
  <2>1. Counts(List!BytesOf(uio_vec), uio_vec, Len(uio_vec))
    BY <1>1, BytesOfCounts
  <2>2. List!ListBytes \in Nat
    BY <2>1, <1>2, <1>3 DEF Counts
  <2> QED
    BY <2>2 DEF List!Entry
<1>7. uio_size' = List!ListBytes' % WordSize
  BY <1>1, <1>5, <1>6, AddModulo
<1> QED
  BY <1>4, <1>5, <1>6, <1>7

\* One turn of the loop over user pages adds e and has that much less to do.
UserPagesAdd(e) ==
  /\ pages \in List!PagesCall /\ pages.on
  /\ List!AddEntry(e)
  /\ pages'.on /\ pages'.asked = pages.asked /\ pages'.start = pages.start
  /\ pages'.left = pages.left - e.iov_len

LEMMA UserPagesNextAdds ==
  ASSUME List!TypeOK, List!UserPagesNext
  PROVE  \E e \in List!Entry : UserPagesAdd(e)
<1> DEFINE b == List!Portion(pages.left, pages.off)
           e == [page |-> pages.page, off |-> pages.off, iov_len |-> b,
                 space |-> "USERSPACE", td |-> pages.td]
<1>1. /\ pages.on /\ pages.left > 0 /\ List!AddEntry(e)
      /\ pages' = [pages EXCEPT !.page = @ + 1, !.off = 0, !.left = @ - b]
  BY DEF List!UserPagesNext
<1>2. pages \in List!PagesCall
  BY <1>1 DEF List!TypeOK, List!NoCall
<1>3. /\ pages.left \in Nat /\ pages.off \in 0 .. PageSize - 1
      /\ pages.page \in Nat /\ pages.td \in Threads /\ PageSize \in Nat
  BY <1>2, ListAssumption DEF List!PagesCall
<1>4. b \in Nat
  BY <1>3 DEF List!Portion, List!Smaller
<1>5. e \in List!Entry /\ e.iov_len = b
  BY <1>3, <1>4 DEF List!Entry, List!Spaces
<1>6. /\ pages'.asked = pages.asked /\ pages'.start = pages.start
      /\ pages'.left = pages.left - b /\ pages'.on
  BY <1>1, <1>2 DEF List!PagesCall
<1> HIDE DEF b, e
<1>7. UserPagesAdd(e)
  BY <1>1, <1>2, <1>5, <1>6 DEF UserPagesAdd
<1> QED
  BY <1>5, <1>7

LEMMA SizeIsSumStep ==
  ASSUME List!IInv, List!SizeIsSum, [List!Next]_(List!list_vars)
  PROVE  List!SizeIsSum'
<1>1. ASSUME uio_vec' = <<>>, uio_size' = 0, pages' = pages, ~pages.on
      PROVE  List!SizeIsSum'
  BY <1>1, NoBytes, ListAssumption DEF List!SizeIsSum, List!ListBytes
<1>2. ASSUME UNCHANGED <<uio_vec, uio_size>>, pages'.on => pages' = pages
      PROVE  List!SizeIsSum'
  BY <1>2 DEF List!SizeIsSum, List!ListBytes
<1>3. ASSUME NEW n \in 1 .. MaxVecs, List!AllocList(n) PROVE List!SizeIsSum'
  BY <1>1, <1>3 DEF List!AllocList, List!IInv, List!CallInv
<1>4. CASE List!Reset
  BY <1>1, <1>4 DEF List!Reset
<1>5. CASE List!Destroy
  BY <1>1, <1>5 DEF List!Destroy, List!IInv, List!CallInv
<1>6. CASE List!CreateTag \/ List!CreateMap \/ List!DmaMapLoads
           \/ List!DmaMapFails \/ List!DmaUnmap \/ List!UserPagesFull
           \/ List!UserPagesReturn \/ UNCHANGED List!list_vars
  BY <1>2, <1>6 DEF List!CreateTag, List!CreateMap, List!DmaMapLoads,
     List!DmaMapFails, List!DmaUnmap, List!UserPagesFull,
     List!UserPagesReturn, List!list_vars, List!uio_vars, List!NoCall
<1>7. ASSUME NEW size \in Sizes, List!MapBytes(size) PROVE List!SizeIsSum'
  <2> DEFINE e == [page |-> 0, off |-> 0, iov_len |-> size,
                   space |-> "SYSSPACE", td |-> NoThread]
  <2>1. List!AddEntry(e) /\ ~pages.on /\ pages' = pages
    BY <1>7 DEF List!MapBytes
  <2>2. e \in List!Entry
    BY ListAssumption DEF List!Entry, List!Spaces
  <2> QED
    BY <2>1, <2>2, AddEntryCounts DEF List!SizeIsSum, List!IInv
<1>8. ASSUME NEW t \in Threads, NEW size \in Sizes,
             NEW offset \in 0 .. PageSize - 1,
             List!UserPagesCall(t, size, offset)
      PROVE  List!SizeIsSum'
  <2>1. /\ UNCHANGED <<uio_vec, uio_size>>
        /\ pages'.asked = size /\ pages'.left = size
        /\ pages'.start = Len(uio_vec)
    BY <1>8 DEF List!UserPagesCall
  <2>2. List!ListBytes' = List!ListBytes
    BY <2>1 DEF List!ListBytes
  <2>3. List!ListBytes = List!BytesOf(uio_vec)[Len(uio_vec)]
    BY DEF List!ListBytes
  <2>4. List!ListBytes \in Nat /\ size \in Nat
    BY <2>3, BytesOfCounts, ListAssumption DEF List!IInv, List!TypeOK, Counts
  <2>5. uio_size' = List!ListBytes' % WordSize
    BY <2>1, <2>2 DEF List!SizeIsSum
  <2>6. pages'.asked - pages'.left
          = List!ListBytes' - List!BytesOf(uio_vec')[pages'.start]
    BY <2>1, <2>2, <2>3, <2>4
  <2> QED
    BY <2>5, <2>6 DEF List!SizeIsSum
<1>9. CASE List!UserPagesNext
  <2>1. PICK e \in List!Entry : UserPagesAdd(e)
    BY <1>9, UserPagesNextAdds DEF List!IInv
  <2>2. uio_size' = List!ListBytes' % WordSize
    BY <2>1, AddEntryCounts DEF List!SizeIsSum, List!IInv, UserPagesAdd
  <2>3. /\ List!ListBytes' = List!ListBytes + e.iov_len
        /\ \A n \in 0 .. List!uio_num :
             List!BytesOf(uio_vec')[n] = List!BytesOf(uio_vec)[n]
        /\ List!ListBytes \in Nat /\ e.iov_len \in Nat
    BY <2>1, AddEntryCounts DEF List!SizeIsSum, List!IInv, UserPagesAdd
  <2>4. pages.start \in 0 .. List!uio_num
    BY <2>1 DEF List!IInv, List!PagesTile, List!TypeOK, UserPagesAdd,
                List!PagesCall
  <2>5. List!BytesOf(uio_vec)[pages.start] \in Nat
    BY <2>4, BytesOfCounts DEF List!IInv, List!TypeOK, Counts
  <2>6. /\ pages.asked \in Nat /\ pages.left \in Nat
        /\ pages.asked - pages.left
             = List!ListBytes - List!BytesOf(uio_vec)[pages.start]
    BY <2>1 DEF List!SizeIsSum, UserPagesAdd, List!PagesCall
  <2>7. pages.asked - (pages.left - e.iov_len)
          = (List!ListBytes + e.iov_len) - List!BytesOf(uio_vec)[pages.start]
    <3> DEFINE a == pages.asked
               l == pages.left
               b == List!ListBytes
               f == List!BytesOf(uio_vec)[pages.start]
               n == e.iov_len
    <3>1. /\ a \in Nat /\ l \in Nat /\ b \in Nat /\ f \in Nat /\ n \in Nat
          /\ a - l = b - f
      BY <2>3, <2>5, <2>6
    <3> HIDE DEF a, l, b, f, n
    <3>2. a - (l - n) = (b + n) - f
      BY <3>1
    <3> QED
      BY <3>2 DEF a, l, b, f, n
  <2>8. /\ pages'.asked = pages.asked /\ pages'.start = pages.start
        /\ pages'.left = pages.left - e.iov_len
    BY <2>1 DEF UserPagesAdd
  <2>9. List!BytesOf(uio_vec')[pages.start]
          = List!BytesOf(uio_vec)[pages.start]
    BY <2>3, <2>4
  <2>10. pages'.asked - pages'.left
           = List!ListBytes' - List!BytesOf(uio_vec')[pages'.start]
    BY <2>3, <2>7, <2>8, <2>9
  <2> QED
    BY <2>2, <2>10 DEF List!SizeIsSum
<1> QED
  BY <1>3, <1>4, <1>5, <1>6, <1>7, <1>8, <1>9
     DEF List!Next, List!Setup, List!Fill, List!Turn

\* uio_size counts the list's bytes, as far as its width goes, through every
\* call that adds, fails half way or empties the list.
THEOREM SizesAdd == List!Spec => []List!SizeIsSum
<1>1. List!Init => List!SizeIsSum
  BY NoBytes, ListAssumption
     DEF List!Init, List!SizeIsSum, List!ListBytes, List!NoCall
<1>2. List!IInv /\ List!SizeIsSum /\ [List!Next]_(List!list_vars)
        => List!SizeIsSum'
  BY SizeIsSumStep
<1> QED
  BY <1>1, <1>2, ListInvariance, PTL DEF List!Spec

-----------------------------------------------------------------------------
(* The maps.                                                               *)

USE DEF Maps!NULL, Maps!seg_num

\* The bounds on a load are numbers.
LEMMA SliceAssumption == Maps!MaxBytes \in Nat /\ Maps!MaxSegs \in Nat
BY ListAssumption DEF Maps!MaxBytes, Maps!MaxSegs

\* What the bus makes of a list of n bytes lies end to end and ends at n.
LEMMA SegmentsOfCuts ==
  ASSUME NEW n \in Nat, NEW s \in Nat, NEW c \in Maps!Cuts(n, s)
  PROVE  LET sg == Maps!Segments(s, c)
         IN  /\ sg \in Seq(Maps!Segment)
             /\ Len(sg) = s
             /\ s > 0 => sg[1].ds_addr = 0
             /\ s > 0 => Maps!End(sg[s]) = n
             /\ s = 0 => n = 0
             /\ \A k \in 1 .. s - 1 : sg[k + 1].ds_addr = Maps!End(sg[k])
<1> DEFINE sg == Maps!Segments(s, c)
<1>1. /\ c \in [0 .. s -> 0 .. n] /\ c[0] = 0 /\ c[s] = n
      /\ \A k \in 1 .. s : c[k - 1] < c[k]
  BY DEF Maps!Cuts
<1>2. \A k \in 1 .. s :
        sg[k] = [ds_addr |-> c[k - 1], ds_len |-> c[k] - c[k - 1]]
  BY DEF Maps!Segments
<1> HIDE DEF sg
<1>3. \A k \in 1 .. s :
        c[k - 1] \in Nat /\ c[k] \in Nat /\ c[k] - c[k - 1] \in Nat \ {0}
  BY <1>1
<1>4. \A k \in 1 .. s : sg[k] \in Maps!Segment
  <2> TAKE k \in 1 .. s
  <2>1. sg[k] = [ds_addr |-> c[k - 1], ds_len |-> c[k] - c[k - 1]]
    BY <1>2
  <2>2. c[k - 1] \in Nat /\ c[k] - c[k - 1] \in Nat \ {0}
    BY <1>3
  <2> QED
    BY <2>1, <2>2 DEF Maps!Segment
<1>5. sg \in Seq(Maps!Segment) /\ Len(sg) = s
  BY <1>4 DEF Maps!Segments, sg
<1>6. \A k \in 1 .. s : sg[k].ds_addr = c[k - 1] /\ Maps!End(sg[k]) = c[k]
  <2> TAKE k \in 1 .. s
  <2>1. sg[k] = [ds_addr |-> c[k - 1], ds_len |-> c[k] - c[k - 1]]
    BY <1>2
  <2>2. c[k - 1] \in Nat /\ c[k] \in Nat
    BY <1>3
  <2> QED
    BY <2>1, <2>2 DEF Maps!End
<1>7. \A k \in 1 .. s - 1 : sg[k + 1].ds_addr = Maps!End(sg[k])
  <2> TAKE k \in 1 .. s - 1
  <2>1. k \in 1 .. s /\ k + 1 \in 1 .. s /\ (k + 1) - 1 = k
    OBVIOUS
  <2> QED
    BY <2>1, <1>6
<1>8. s > 0 => sg[1].ds_addr = 0 /\ Maps!End(sg[s]) = n
  BY <1>1, <1>6
<1> QED
  BY <1>1, <1>5, <1>7, <1>8 DEF sg

\* The types of the parts of the state that arithmetic is done on.
LEMMA MapsTypes ==
  ASSUME Maps!TypeOK
  PROVE  /\ Maps!seg_num \in Nat
         /\ \A k \in 1 .. Maps!seg_num : /\ segs[k].ds_addr \in Nat
                                    /\ segs[k].ds_len \in Nat \ {0}
         /\ dmap.map_offset \in Nat /\ dmap.map_length \in Nat
         /\ dmap.seg_count \in Nat /\ dmap.seg_skip \in Nat
         /\ dmap.seg_trunc \in Nat
         /\ dmap.seg_first \in Nat /\ dmap.seg_last \in Nat
         /\ ask.offset \in Nat /\ ask.length \in Nat
         /\ Maps!Total \in Nat
<1>1. /\ Maps!seg_num \in Nat
      /\ \A k \in 1 .. Maps!seg_num : segs[k] \in Maps!Segment
  BY DEF Maps!TypeOK
<1>2. \A k \in 1 .. Maps!seg_num : /\ segs[k].ds_addr \in Nat
                              /\ segs[k].ds_len \in Nat \ {0}
  BY <1>1 DEF Maps!Segment
<1>3. Maps!Total \in Nat
  BY <1>1, <1>2 DEF Maps!Total, Maps!End
<1> QED
  BY <1>1, <1>2, <1>3 DEF Maps!TypeOK, Maps!Map, Maps!Range

\* Init.
LEMMA MapsInitInv == Maps!Init => Maps!IInv
<1> SUFFICES ASSUME Maps!Init PROVE Maps!IInv
  OBVIOUS
<1>1. dmap \in Maps!Map /\ ask \in Maps!Range
  BY DEF Maps!Init, Maps!Map, Maps!Range
<1>2. segs \in Seq(Maps!Segment)
  BY DEF Maps!Init
<1>3. pieces \in Seq(Maps!Piece)
  BY DEF Maps!Init
<1>4. Maps!TypeOK
  BY <1>1, <1>2, <1>3 DEF Maps!Init, Maps!TypeOK, Maps!Calls
<1> QED
  BY <1>4
     DEF Maps!Init, Maps!IInv, Maps!FreshInv, Maps!SegsTile, Maps!SeekInv,
         Maps!ExtendInv, Maps!MapIsExact, Maps!WalkInv

\* kfio_sgl_dma_map.
LEMMA DmaMapInv ==
  ASSUME Maps!IInv, NEW n \in 0 .. Maps!MaxBytes, Maps!DmaMap(n)
  PROVE  Maps!IInv'
<1>1. PICK s \in 0 .. Maps!MaxSegs :
        \E c \in Maps!Cuts(n, s) : segs' = Maps!Segments(s, c)
  BY DEF Maps!DmaMap, Maps!Load
<1>0. PICK c \in Maps!Cuts(n, s) : segs' = Maps!Segments(s, c)
  BY <1>1
<1>2. n \in Nat /\ s \in Nat
  BY SliceAssumption
<1>3. /\ segs' \in Seq(Maps!Segment) /\ Len(segs') = s
      /\ s > 0 => segs'[1].ds_addr = 0
      /\ s > 0 => Maps!End(segs'[s]) = n
      /\ s = 0 => n = 0
      /\ \A k \in 1 .. s - 1 : segs'[k + 1].ds_addr = Maps!End(segs'[k])
  BY ONLY <1>0, <1>2, SegmentsOfCuts
<1>4. \A k \in 1 .. s :
        segs'[k].ds_len \in Nat \ {0} /\ segs'[k].ds_addr \in Nat
  <2>1. \A k \in 1 .. s : segs'[k] \in Maps!Segment
    BY <1>3
  <2> QED
    BY <2>1 DEF Maps!Segment
<1>5. /\ pc = "idle" /\ ~seg_ptr /\ pc' = pc /\ seg_ptr' = TRUE
      /\ i' = i /\ rest' = rest /\ cursor' = cursor /\ pieces' = pieces
  BY DEF Maps!DmaMap, Maps!Load, Maps!walk_vars
<1>6. Maps!SegsTile'
  BY <1>2, <1>3 DEF Maps!SegsTile, Maps!End
<1>7. Maps!FreshInv' /\ Maps!SeekInv' /\ Maps!ExtendInv' /\ Maps!WalkInv'
  BY <1>5 DEF Maps!FreshInv, Maps!SeekInv, Maps!ExtendInv, Maps!WalkInv
<1>8. CASE Maps!WholeMap(n)
  <2>1. /\ dmap' = [map_offset |-> 0, map_length |-> n, seg_count |-> s,
                    seg_skip |-> 0, seg_trunc |-> 0,
                    seg_first |-> 1, seg_last |-> s]
        /\ fresh' = TRUE /\ ask' = [offset |-> 0, length |-> n]
    BY <1>3, <1>8 DEF Maps!WholeMap
  <2>2. Maps!TypeOK'
    BY <1>2, <1>3, <1>5, <2>1 DEF Maps!IInv, Maps!TypeOK, Maps!Map, Maps!Range
  <2>3. Maps!MapIsExact'
    BY <1>2, <1>3, <1>4, <2>1 DEF Maps!MapIsExact, Maps!End
  <2> QED
    BY <1>6, <1>7, <2>2, <2>3 DEF Maps!IInv
<1>9. CASE UNCHANGED Maps!map_vars
  <2>1. Maps!TypeOK'
    BY <1>3, <1>5, <1>9 DEF Maps!IInv, Maps!TypeOK, Maps!map_vars
  <2>2. ~fresh
    BY <1>5 DEF Maps!IInv, Maps!FreshInv
  <2>3. Maps!MapIsExact'
    BY <2>2, <1>9 DEF Maps!MapIsExact, Maps!map_vars
  <2> QED
    BY <1>6, <1>7, <2>1, <2>3 DEF Maps!IInv
<1> QED
  BY <1>8, <1>9 DEF Maps!DmaMap

\* kfio_sgl_dma_unmap: the segments stay where they are; nothing needs them.
LEMMA DmaUnmapInv ==
  ASSUME Maps!IInv, Maps!DmaUnmap
  PROVE  Maps!IInv'
<1>1. /\ pc = "idle" /\ pc' = pc /\ seg_ptr' = FALSE /\ fresh' = FALSE
      /\ segs' = segs /\ dmap' = dmap /\ ask' = ask /\ i' = i /\ rest' = rest
      /\ cursor' = cursor /\ pieces' = pieces
  BY DEF Maps!DmaUnmap, Maps!walk_vars
<1> QED
  BY <1>1
     DEF Maps!IInv, Maps!TypeOK, Maps!FreshInv, Maps!SegsTile, Maps!SeekInv,
         Maps!ExtendInv, Maps!MapIsExact, Maps!WalkInv

\* While the segments stay, so does the length of the load.
LEMMA SegsStay ==
  ASSUME segs' = segs
  PROVE  Maps!Total' = Maps!Total
BY DEF Maps!Total, Maps!End

\* The call of kfio_sgl_dma_slice.
LEMMA SliceInv ==
  ASSUME Maps!IInv, NEW offset \in 0 .. Maps!MaxBytes,
         NEW length \in 0 .. Maps!MaxBytes,
         Maps!Slice(offset, length)
  PROVE  Maps!IInv'
<1>1. offset \in Nat /\ length \in Nat
  BY SliceAssumption
<1>2. /\ pc = "idle" /\ pc' = "seek" /\ fresh' = FALSE /\ i' = 1
      /\ rest' = offset /\ ask' = [offset |-> offset, length |-> length]
      /\ dmap' = [dmap EXCEPT !.map_offset = offset]
      /\ segs' = segs /\ seg_ptr' = seg_ptr /\ seg_ptr
      /\ cursor' = cursor /\ pieces' = pieces
      /\ offset < Maps!Total /\ offset + length <= Maps!Total
  BY DEF Maps!Slice, Maps!seg_vars, Maps!walk_vars
<1>3. Maps!TypeOK'
  BY <1>1, <1>2 DEF Maps!IInv, Maps!TypeOK, Maps!Map, Maps!Range, Maps!Calls
<1>4. Maps!seg_num \in Nat \ {0} /\ segs[1].ds_addr = 0
  BY <1>1, <1>2, MapsTypes DEF Maps!IInv, Maps!Total, Maps!SegsTile
<1>5. dmap'.map_offset = offset
  BY <1>2 DEF Maps!IInv, Maps!TypeOK, Maps!Map
<1>6. Maps!SeekInv'
  <2>1. /\ ask'.offset = offset /\ ask'.length = length
        /\ Maps!Total' = Maps!Total
    BY <1>2, SegsStay
  <2>2. Maps!AskInside'
    BY <2>1, <1>2 DEF Maps!AskInside
  <2>3. i' \in 1 .. Maps!seg_num /\ segs'[i'].ds_addr + rest' = offset
    BY <1>1, <1>2, <1>4
  <2> QED
    BY <2>1, <2>2, <2>3, <1>2, <1>5 DEF Maps!SeekInv
<1> QED
  BY <1>2, <1>3, <1>6
     DEF Maps!IInv, Maps!FreshInv, Maps!SegsTile, Maps!ExtendInv,
         Maps!MapIsExact, Maps!WalkInv, Maps!End

\* The first loop has a segment to go on to: offset lies before the end.
LEMMA SeekPastInv ==
  ASSUME Maps!IInv, Maps!SeekPast
  PROVE  Maps!IInv'
<1>1. /\ pc = "seek" /\ pc' = pc /\ i' = i + 1
      /\ rest' = rest - segs[i].ds_len /\ ~(rest < segs[i].ds_len)
      /\ UNCHANGED <<seg_ptr, segs, dmap, fresh, ask, cursor, pieces>>
  BY DEF Maps!SeekPast, Maps!Holds, Maps!seg_vars, Maps!map_vars,
         Maps!walk_vars
<1>2. /\ seg_ptr /\ ~fresh /\ Maps!AskInside /\ dmap.map_offset = ask.offset
      /\ i \in 1 .. Maps!seg_num /\ segs[i].ds_addr + rest = ask.offset
  BY <1>1 DEF Maps!IInv, Maps!SeekInv
<1>3. Maps!TypeOK /\ rest \in Nat
  BY DEF Maps!IInv, Maps!TypeOK
<1>a. /\ segs[i].ds_addr \in Nat /\ segs[i].ds_len \in Nat \ {0}
      /\ ask.offset \in Nat
  BY <1>2, <1>3, MapsTypes
<1>4. i # Maps!seg_num
  BY <1>1, <1>2, <1>3, <1>a DEF Maps!AskInside, Maps!Total, Maps!End
<1>5. /\ i + 1 \in 1 .. Maps!seg_num
      /\ segs[i + 1].ds_addr = segs[i].ds_addr + segs[i].ds_len
  BY <1>2, <1>3, <1>4, MapsTypes DEF Maps!IInv, Maps!SegsTile, Maps!End
<1>6. rest' \in Nat /\ segs[i'].ds_addr + rest' = ask.offset
  BY <1>1, <1>2, <1>3, <1>5, <1>a
<1>7. Maps!TypeOK'
  BY <1>1, <1>2, <1>6 DEF Maps!IInv, Maps!TypeOK
<1>8. Maps!SeekInv'
  BY <1>1, <1>2, <1>5, <1>6
     DEF Maps!SeekInv, Maps!AskInside, Maps!Total, Maps!End
<1> QED
  BY <1>1, <1>2, <1>7, <1>8
     DEF Maps!IInv, Maps!FreshInv, Maps!SegsTile, Maps!ExtendInv,
         Maps!MapIsExact, Maps!WalkInv, Maps!End

\* The first loop leaves a map of one segment from offset to its end.
LEMMA SeekFoundInv ==
  ASSUME Maps!IInv, Maps!SeekFound
  PROVE  Maps!IInv'
<1>1. /\ pc = "seek" /\ pc' = "extend" /\ i' = i + 1 /\ rest < segs[i].ds_len
      /\ dmap' = [dmap EXCEPT !.seg_first = i, !.seg_last = i, !.seg_count = 1,
                              !.seg_skip = rest,
                              !.map_length = segs[i].ds_len - rest]
      /\ UNCHANGED <<seg_ptr, segs, fresh, ask, rest, cursor, pieces>>
  BY DEF Maps!SeekFound, Maps!Holds, Maps!Left, Maps!seg_vars, Maps!walk_vars
<1>2. /\ seg_ptr /\ ~fresh /\ Maps!AskInside /\ dmap.map_offset = ask.offset
      /\ i \in 1 .. Maps!seg_num /\ segs[i].ds_addr + rest = ask.offset
  BY <1>1 DEF Maps!IInv, Maps!SeekInv
<1>3. Maps!TypeOK /\ rest \in Nat /\ i \in Nat
  BY DEF Maps!IInv, Maps!TypeOK
<1>a. /\ segs[i].ds_addr \in Nat /\ segs[i].ds_len \in Nat \ {0}
      /\ ask.offset \in Nat /\ ask.length \in Nat /\ Maps!seg_num \in Nat
  BY <1>2, <1>3, MapsTypes
<1>4. segs[i].ds_len - rest \in Nat
  BY <1>1, <1>3, <1>a
<1>b. dmap' \in Maps!Map
  BY <1>1, <1>3, <1>4 DEF Maps!TypeOK, Maps!Map
<1>5. Maps!TypeOK'
  BY <1>1, <1>3, <1>b DEF Maps!TypeOK, Maps!Calls
<1>6. /\ dmap'.seg_first = i /\ dmap'.seg_last = i /\ dmap'.seg_count = 1
      /\ dmap'.seg_skip = rest /\ dmap'.map_length = segs[i].ds_len - rest
      /\ dmap'.map_offset = dmap.map_offset
  BY <1>1, <1>3 DEF Maps!TypeOK, Maps!Map
<1>7. Maps!ExtendInv'
  <2>1. Maps!AskInside'
    BY <1>1, <1>2, SegsStay DEF Maps!AskInside
  <2>2. Maps!End(segs[i]) = ask.offset + (segs[i].ds_len - rest)
    BY <1>2, <1>3, <1>a DEF Maps!End
  <2>3. segs[i].ds_addr <= ask.offset + ask.length
    BY <1>2, <1>3, <1>a
  <2>4. i - i + 1 = 1
    BY <1>3
  <2> QED
    BY <2>1, <2>2, <2>3, <2>4, <1>1, <1>2, <1>3, <1>6
       DEF Maps!ExtendInv, Maps!End
<1> QED
  BY <1>1, <1>2, <1>5, <1>7
     DEF Maps!IInv, Maps!FreshInv, Maps!SegsTile, Maps!SeekInv,
         Maps!MapIsExact, Maps!WalkInv, Maps!End

\* The second loop has a segment to add: the range ends before the list does.
LEMMA ExtendStepInv ==
  ASSUME Maps!IInv, Maps!Extend
  PROVE  Maps!IInv'
<1>1. /\ pc = "extend" /\ pc' = pc /\ i' = i + 1
      /\ dmap.map_length < ask.length
      /\ dmap' = [dmap EXCEPT !.map_length = dmap.map_length + segs[i].ds_len,
                              !.seg_last = i,
                              !.seg_count = dmap.seg_count + 1]
      /\ UNCHANGED <<seg_ptr, segs, fresh, ask, rest, cursor, pieces>>
  <2>1. ~(dmap.map_length >= ask.length) /\ Maps!TypeOK
    BY DEF Maps!Extend, Maps!Reached, Maps!IInv
  <2>2. dmap.map_length < ask.length
    BY <2>1, MapsTypes
  <2> QED
    BY <2>2 DEF Maps!Extend, Maps!seg_vars, Maps!walk_vars
<1>2. /\ seg_ptr /\ ~fresh /\ Maps!AskInside /\ dmap.map_offset = ask.offset
      /\ 1 <= dmap.seg_first /\ dmap.seg_first <= dmap.seg_last
      /\ dmap.seg_last <= Maps!seg_num /\ i = dmap.seg_last + 1
      /\ segs[dmap.seg_first].ds_addr + dmap.seg_skip = ask.offset
      /\ dmap.seg_skip < segs[dmap.seg_first].ds_len
      /\ Maps!End(segs[dmap.seg_last]) = ask.offset + dmap.map_length
      /\ segs[dmap.seg_last].ds_addr <= ask.offset + ask.length
      /\ dmap.seg_count = dmap.seg_last - dmap.seg_first + 1
  BY <1>1 DEF Maps!IInv, Maps!ExtendInv
<1>3. Maps!TypeOK
  BY DEF Maps!IInv
<1>a. /\ ask.offset \in Nat /\ ask.length \in Nat /\ Maps!seg_num \in Nat
      /\ dmap.map_length \in Nat /\ dmap.seg_count \in Nat
      /\ dmap.seg_first \in Nat /\ dmap.seg_last \in Nat
  BY <1>3, MapsTypes
<1>4. dmap.seg_last # Maps!seg_num
  BY <1>1, <1>2, <1>a DEF Maps!AskInside, Maps!Total
<1>5. /\ i \in 1 .. Maps!seg_num /\ i - 1 \in 1 .. Maps!seg_num - 1
      /\ segs[i].ds_addr = ask.offset + dmap.map_length
  <2>1. i \in 1 .. Maps!seg_num /\ dmap.seg_last \in 1 .. Maps!seg_num - 1
    BY <1>2, <1>4, <1>a
  <2>2. segs[dmap.seg_last + 1].ds_addr = Maps!End(segs[dmap.seg_last])
    BY <2>1 DEF Maps!IInv, Maps!SegsTile
  <2> QED
    BY <2>1, <2>2, <1>2, <1>a
<1>b. segs[i].ds_addr \in Nat /\ segs[i].ds_len \in Nat \ {0}
  BY <1>3, <1>5, MapsTypes
<1>c. dmap' \in Maps!Map
  <2>1. dmap.map_length + segs[i].ds_len \in Nat /\ i \in Nat
    BY <1>5, <1>a, <1>b
  <2>2. dmap.seg_count + 1 \in Nat
    BY <1>a
  <2> QED
    BY <2>1, <2>2, <1>1, <1>3 DEF Maps!TypeOK, Maps!Map
<1>6. Maps!TypeOK'
  BY <1>1, <1>3, <1>c DEF Maps!TypeOK
<1>7. /\ dmap'.seg_first = dmap.seg_first /\ dmap'.seg_last = i
      /\ dmap'.seg_count = dmap.seg_count + 1
      /\ dmap'.seg_skip = dmap.seg_skip /\ dmap'.map_offset = dmap.map_offset
      /\ dmap'.map_length = dmap.map_length + segs[i].ds_len
  BY <1>1, <1>3 DEF Maps!TypeOK, Maps!Map
<1>8. Maps!ExtendInv'
  <2>1. Maps!AskInside'
    BY <1>1, <1>2, SegsStay DEF Maps!AskInside
  <2>2. Maps!End(segs[i]) = ask.offset + (dmap.map_length + segs[i].ds_len)
    BY <1>5, <1>a, <1>b DEF Maps!End
  <2>3. segs[i].ds_addr <= ask.offset + ask.length
    BY <1>1, <1>5, <1>a
  <2>4. dmap.seg_count + 1 = i - dmap.seg_first + 1 /\ dmap.seg_first <= i
    BY <1>2, <1>a
  <2>5. i <= Maps!seg_num /\ i' = i + 1
    BY <1>1, <1>5
  <2> QED
    BY <2>1, <2>2, <2>3, <2>4, <2>5, <1>1, <1>2, <1>7
       DEF Maps!ExtendInv, Maps!End
<1> QED
  BY <1>1, <1>2, <1>6, <1>8
     DEF Maps!IInv, Maps!FreshInv, Maps!SegsTile, Maps!SeekInv,
         Maps!MapIsExact, Maps!WalkInv, Maps!End

\* The slice returns with a map of exactly the range.
LEMMA TruncateInv ==
  ASSUME Maps!IInv, Maps!Truncate
  PROVE  Maps!IInv'
<1>1. /\ pc = "extend" /\ pc' = "idle" /\ i' = 0 /\ rest' = 0 /\ fresh' = TRUE
      /\ dmap.map_length >= ask.length
      /\ dmap' = [dmap EXCEPT !.seg_trunc = dmap.map_length - ask.length,
                              !.map_length = ask.length]
      /\ UNCHANGED <<seg_ptr, segs, ask, cursor, pieces>>
  BY DEF Maps!Truncate, Maps!Reached, Maps!seg_vars, Maps!walk_vars
<1>2. /\ seg_ptr /\ Maps!AskInside /\ dmap.map_offset = ask.offset
      /\ 1 <= dmap.seg_first /\ dmap.seg_first <= dmap.seg_last
      /\ dmap.seg_last <= Maps!seg_num
      /\ segs[dmap.seg_first].ds_addr + dmap.seg_skip = ask.offset
      /\ dmap.seg_skip < segs[dmap.seg_first].ds_len
      /\ Maps!End(segs[dmap.seg_last]) = ask.offset + dmap.map_length
      /\ segs[dmap.seg_last].ds_addr <= ask.offset + ask.length
      /\ dmap.seg_count = dmap.seg_last - dmap.seg_first + 1
  BY <1>1 DEF Maps!IInv, Maps!ExtendInv
<1>3. Maps!TypeOK
  BY DEF Maps!IInv
<1>a. /\ ask.offset \in Nat /\ ask.length \in Nat /\ Maps!seg_num \in Nat
      /\ dmap.map_length \in Nat
      /\ dmap.seg_first \in Nat /\ dmap.seg_last \in Nat
  BY <1>3, MapsTypes
<1>b. /\ segs[dmap.seg_last].ds_addr \in Nat
      /\ segs[dmap.seg_last].ds_len \in Nat \ {0}
  <2>1. dmap.seg_last \in 1 .. Maps!seg_num
    BY <1>2, <1>a
  <2> QED
    BY <2>1, <1>3, MapsTypes
<1>4. dmap.map_length - ask.length \in Nat
  BY <1>1, <1>a
<1>c. dmap' \in Maps!Map
  BY <1>1, <1>3, <1>4, <1>a DEF Maps!TypeOK, Maps!Map
<1>5. Maps!TypeOK'
  BY <1>1, <1>3, <1>c DEF Maps!TypeOK, Maps!Calls
<1>6. /\ dmap'.seg_first = dmap.seg_first /\ dmap'.seg_last = dmap.seg_last
      /\ dmap'.seg_count = dmap.seg_count
      /\ dmap'.seg_skip = dmap.seg_skip /\ dmap'.map_offset = dmap.map_offset
      /\ dmap'.map_length = ask.length
      /\ dmap'.seg_trunc = dmap.map_length - ask.length
  BY <1>1, <1>3 DEF Maps!TypeOK, Maps!Map
<1>d. /\ Maps!End(segs[dmap.seg_last]) \in Nat
      /\ Maps!End(segs[dmap.seg_last]) - (dmap.map_length - ask.length)
           = ask.offset + ask.length
      /\ dmap.map_length - ask.length <= segs[dmap.seg_last].ds_len
  <2>1. /\ Maps!End(segs[dmap.seg_last]) = ask.offset + dmap.map_length
        /\ segs[dmap.seg_last].ds_addr <= ask.offset + ask.length
    BY <1>2
  <2>2. Maps!End(segs[dmap.seg_last])
          = segs[dmap.seg_last].ds_addr + segs[dmap.seg_last].ds_len
    BY DEF Maps!End
  <2> DEFINE e == Maps!End(segs[dmap.seg_last])
             a == segs[dmap.seg_last].ds_addr
             d == segs[dmap.seg_last].ds_len
             m == dmap.map_length
             o == ask.offset
             w == ask.length
  <2>3. /\ e = o + m /\ a <= o + w /\ e = a + d
        /\ a \in Nat /\ d \in Nat /\ m \in Nat /\ o \in Nat /\ w \in Nat
    BY <2>1, <2>2, <1>a, <1>b
  <2> HIDE DEF e, a, d, m, o, w
  <2>4. e \in Nat /\ e - (m - w) = o + w /\ m - w <= d
    BY <2>3
  <2> QED
    BY <2>4 DEF e, a, d, m, o, w
<1>7. Maps!MapIsExact'
  <2> DEFINE f == dmap'.seg_first
             l == dmap'.seg_last
  <2>1. /\ f = dmap.seg_first /\ l = dmap.seg_last /\ segs' = segs
        /\ ask' = ask
    BY <1>1, <1>6
  <2>2. Maps!End(segs'[l]) - dmap'.seg_trunc = ask'.offset + ask'.length
    BY <2>1, <1>6, <1>d DEF Maps!End
  <2>3. /\ 1 <= f /\ f <= l /\ l <= Len(segs')
        /\ segs'[f].ds_addr + dmap'.seg_skip = ask'.offset
        /\ dmap'.seg_skip < segs'[f].ds_len
        /\ dmap'.seg_trunc <= segs'[l].ds_len
    BY <2>1, <1>2, <1>6, <1>d
  <2>4. /\ dmap'.map_offset = ask'.offset /\ dmap'.map_length = ask'.length
        /\ dmap'.seg_count = l - f + 1
    BY <2>1, <1>2, <1>6
  <2> QED
    BY <2>2, <2>3, <2>4 DEF Maps!MapIsExact, Maps!End
<1> QED
  BY <1>1, <1>5, <1>7
     DEF Maps!IInv, Maps!FreshInv, Maps!SegsTile, Maps!SeekInv,
         Maps!ExtendInv, Maps!WalkInv

\* A sequence of one piece tiles what the piece does.
LEMMA TileOne ==
  ASSUME NEW from \in Nat, NEW to \in Nat, NEW q \in Maps!Piece,
         q.addr = from, q.addr + q.len = to
  PROVE  /\ <<q>> \in Seq(Maps!Piece) /\ Len(<<q>>) = 1
         /\ Maps!Tile(<<q>>, from, to)
<1>1. /\ <<q>> \in Seq(Maps!Piece) /\ Len(<<q>>) = 1 /\ <<q>>[1] = q
      /\ <<q>> # <<>>
  OBVIOUS
<1>2. 1 .. Len(<<q>>) - 1 = {}
  BY <1>1
<1> QED
  BY <1>1, <1>2 DEF Maps!Tile

\* One more piece at the end of a tiled sequence.
LEMMA TileGrows ==
  ASSUME NEW ps \in Seq(Maps!Piece), NEW from, NEW mid, NEW to,
         Maps!Tile(ps, from, mid), NEW q \in Maps!Piece,
         q.addr = mid, q.addr + q.len = to
  PROVE  /\ Append(ps, q) \in Seq(Maps!Piece)
         /\ Len(Append(ps, q)) = Len(ps) + 1
         /\ Maps!Tile(Append(ps, q), from, to)
<1> DEFINE n == Len(ps)
           r == Append(ps, q)
<1>1. /\ n \in Nat \ {0} /\ ps[1].addr = from
      /\ ps[n].addr + ps[n].len = mid
      /\ \A k \in 1 .. n - 1 : ps[k + 1].addr = ps[k].addr + ps[k].len
  BY DEF Maps!Tile
<1>2. /\ r \in Seq(Maps!Piece) /\ Len(r) = n + 1
      /\ \A k \in 1 .. n : r[k] = ps[k]
      /\ r[n + 1] = q
  BY <1>1
<1> HIDE DEF r
<1>3. \A k \in 1 .. n : r[k + 1].addr = r[k].addr + r[k].len
  <2> TAKE k \in 1 .. n
  <2>1. CASE k = n
    BY <2>1, <1>1, <1>2
  <2>2. CASE k # n
    <3>1. k \in 1 .. n - 1 /\ k + 1 \in 1 .. n
      BY <2>2, <1>1
    <3> QED
      BY <3>1, <1>1, <1>2
  <2> QED
    BY <2>1, <2>2
<1>4. 1 \in 1 .. n /\ (n + 1) - 1 = n
  BY <1>1
<1>5. r[1].addr = from /\ r # <<>>
  BY <1>1, <1>2, <1>4
<1>6. Maps!Tile(r, from, to)
  BY <1>2, <1>3, <1>4, <1>5 DEF Maps!Tile
<1> QED
  BY <1>2, <1>6 DEF r

\* kfio_dma_map_first: the first piece begins at the range's first byte.
LEMMA MapFirstInv ==
  ASSUME Maps!IInv, Maps!MapFirst
  PROVE  Maps!IInv'
<1> DEFINE f == dmap.seg_first
           l == dmap.seg_last
           len == Maps!CutAtEnd(f, segs[f].ds_len - dmap.seg_skip)
           q == [addr |-> segs[f].ds_addr + dmap.seg_skip, len |-> len]
<1>1. /\ pc = "idle" /\ pc' = "map_walk" /\ fresh /\ Maps!seg_num > 0
      /\ cursor' = f /\ pieces' = <<q>>
      /\ UNCHANGED <<seg_ptr, segs, dmap, fresh, ask, i, rest>>
  BY DEF Maps!MapFirst, Maps!seg_vars, Maps!map_vars
<1>2. /\ 1 <= f /\ f <= l /\ l <= Maps!seg_num
      /\ segs[f].ds_addr + dmap.seg_skip = ask.offset
      /\ dmap.seg_skip < segs[f].ds_len
      /\ Maps!End(segs[l]) - dmap.seg_trunc = ask.offset + ask.length
  BY <1>1 DEF Maps!IInv, Maps!MapIsExact
<1>3. /\ Maps!TypeOK /\ f \in Nat /\ l \in Nat /\ f \in 1 .. Maps!seg_num
      /\ dmap.seg_skip \in Nat /\ dmap.seg_trunc \in Nat
      /\ ask.offset \in Nat /\ ask.length \in Nat
  <2>1. Maps!TypeOK /\ f \in Nat /\ l \in Nat /\ Maps!seg_num \in Nat
    BY MapsTypes DEF Maps!IInv
  <2> QED
    BY <2>1, <1>2, MapsTypes
<1>4. segs[f].ds_addr \in Nat /\ segs[f].ds_len \in Nat
  BY <1>3, MapsTypes
<1>5. Maps!End(segs[f]) = segs[f].ds_addr + segs[f].ds_len
  BY DEF Maps!End
<1>6. len \in Nat /\ ask.offset + len = Maps!PieceEnd(f)
  <2>1. CASE f = l
    <3>1. /\ len = segs[f].ds_len - dmap.seg_skip - dmap.seg_trunc
          /\ Maps!PieceEnd(f) = ask.offset + ask.length
      BY <2>1 DEF Maps!CutAtEnd, Maps!PieceEnd
    <3>2. Maps!End(segs[f]) - dmap.seg_trunc = ask.offset + ask.length
      BY <2>1, <1>2
    <3>3. /\ segs[f].ds_addr + dmap.seg_skip = ask.offset
          /\ ask.offset \in Nat /\ ask.length \in Nat
          /\ dmap.seg_skip \in Nat /\ dmap.seg_trunc \in Nat
      BY <1>2, <1>3
    <3> HIDE DEF len, f
    <3> QED
      BY <3>1, <3>2, <3>3, <1>4, <1>5
  <2>2. CASE f # l
    <3>1. /\ len = segs[f].ds_len - dmap.seg_skip
          /\ Maps!PieceEnd(f) = Maps!End(segs[f])
      BY <2>2 DEF Maps!CutAtEnd, Maps!PieceEnd
    <3>2. /\ segs[f].ds_addr + dmap.seg_skip = ask.offset
          /\ dmap.seg_skip < segs[f].ds_len
          /\ ask.offset \in Nat /\ dmap.seg_skip \in Nat
      BY <1>2, <1>3
    <3> HIDE DEF len, f
    <3> QED
      BY <3>1, <3>2, <1>4, <1>5
  <2> QED
    BY <2>1, <2>2
<1>7. /\ q \in Maps!Piece /\ q.addr = ask.offset
      /\ q.addr + q.len = Maps!PieceEnd(f)
  <2> HIDE DEF len, f
  <2> QED
    BY <1>2, <1>3, <1>6 DEF Maps!Piece
<1>8. Maps!PieceEnd(f) \in Nat
  BY <1>3, <1>6
<1>9. /\ pieces' \in Seq(Maps!Piece) /\ Len(pieces') = 1
      /\ Maps!Tile(pieces', ask.offset, Maps!PieceEnd(f))
  <2> HIDE DEF q, f
  <2> QED
    BY <1>1, <1>3, <1>7, <1>8, TileOne
<1>10. Maps!PieceEnd(cursor)' = Maps!PieceEnd(f)
  BY <1>1 DEF Maps!PieceEnd, Maps!End
<1>11. Maps!WalkInv'
  <2>1. /\ Len(pieces') = cursor' - dmap'.seg_first + 1
        /\ cursor' \in dmap'.seg_first .. dmap'.seg_last
    BY <1>1, <1>2, <1>3, <1>9
  <2> QED
    BY <2>1, <1>1, <1>9, <1>10 DEF Maps!WalkInv
<1>12. Maps!TypeOK'
  BY <1>1, <1>3, <1>9 DEF Maps!TypeOK, Maps!Calls
<1> QED
  BY <1>1, <1>11, <1>12
     DEF Maps!IInv, Maps!FreshInv, Maps!SegsTile, Maps!SeekInv,
         Maps!ExtendInv, Maps!MapIsExact, Maps!End

\* kfio_dma_map_next: the next segment begins where the last piece ended.
LEMMA MapNextInv ==
  ASSUME Maps!IInv, Maps!MapNext
  PROVE  Maps!IInv'
<1> DEFINE c == cursor + 1
           len == Maps!CutAtEnd(c, segs[c].ds_len)
           q == [addr |-> segs[c].ds_addr, len |-> len]
<1>1. /\ pc = "map_walk" /\ pc' = pc /\ cursor' = c
      /\ cursor >= dmap.seg_first /\ cursor < dmap.seg_last
      /\ pieces' = Append(pieces, q)
      /\ UNCHANGED <<seg_ptr, segs, dmap, fresh, ask, i, rest>>
  BY DEF Maps!MapNext, Maps!MoreInMap, Maps!seg_vars, Maps!map_vars
<1>2. /\ fresh /\ Maps!seg_num > 0
      /\ Len(pieces) = cursor - dmap.seg_first + 1
      /\ Maps!Tile(pieces, ask.offset, Maps!PieceEnd(cursor))
  BY <1>1 DEF Maps!IInv, Maps!WalkInv
<1>3. /\ 1 <= dmap.seg_first /\ dmap.seg_last <= Maps!seg_num
      /\ Maps!End(segs[dmap.seg_last]) - dmap.seg_trunc
           = ask.offset + ask.length
      /\ dmap.seg_trunc <= segs[dmap.seg_last].ds_len
  BY <1>2 DEF Maps!IInv, Maps!MapIsExact
<1>4. /\ Maps!TypeOK /\ cursor \in Nat /\ Maps!seg_num \in Nat
      /\ dmap.seg_first \in Nat /\ dmap.seg_last \in Nat
      /\ dmap.seg_trunc \in Nat
      /\ ask.offset \in Nat /\ ask.length \in Nat
  BY MapsTypes DEF Maps!IInv, Maps!TypeOK
<1>5. cursor \in 1 .. Maps!seg_num - 1 /\ c \in 1 .. Maps!seg_num
      /\ cursor # dmap.seg_last
  BY <1>1, <1>3, <1>4
<1>6. segs[c].ds_addr = Maps!PieceEnd(cursor)
  BY <1>5 DEF Maps!IInv, Maps!SegsTile, Maps!PieceEnd
<1>7. segs[c].ds_addr \in Nat /\ segs[c].ds_len \in Nat
  BY <1>4, <1>5, MapsTypes
<1>8. Maps!End(segs[c]) = segs[c].ds_addr + segs[c].ds_len
  BY DEF Maps!End
<1>9. len \in Nat /\ segs[c].ds_addr + len = Maps!PieceEnd(c)
  <2>1. CASE c = dmap.seg_last
    <3>1. /\ len = segs[c].ds_len - dmap.seg_trunc
          /\ Maps!PieceEnd(c) = ask.offset + ask.length
      BY <2>1 DEF Maps!CutAtEnd, Maps!PieceEnd
    <3>2. /\ Maps!End(segs[c]) - dmap.seg_trunc = ask.offset + ask.length
          /\ dmap.seg_trunc <= segs[c].ds_len
      BY <2>1, <1>3
    <3> HIDE DEF len, c
    <3> QED
      BY <3>1, <3>2, <1>4, <1>7, <1>8
  <2>2. CASE c # dmap.seg_last
    BY <2>2, <1>7, <1>8 DEF Maps!CutAtEnd, Maps!PieceEnd
  <2> QED
    BY <2>1, <2>2
<1>10. /\ q \in Maps!Piece /\ q.addr = Maps!PieceEnd(cursor)
       /\ q.addr + q.len = Maps!PieceEnd(c)
  <2> HIDE DEF len, c
  <2> QED
    BY <1>6, <1>7, <1>9 DEF Maps!Piece
<1>11. /\ pieces' \in Seq(Maps!Piece) /\ Len(pieces') = Len(pieces) + 1
       /\ Maps!Tile(pieces', ask.offset, Maps!PieceEnd(c))
  <2>1. pieces \in Seq(Maps!Piece)
    BY <1>4 DEF Maps!TypeOK
  <2> HIDE DEF q, c
  <2> QED
    BY <2>1, <1>1, <1>2, <1>10, TileGrows
<1>12. Maps!PieceEnd(cursor)' = Maps!PieceEnd(c)
  BY <1>1 DEF Maps!PieceEnd, Maps!End
<1>13. Maps!WalkInv'
  <2>1. /\ Len(pieces') = cursor' - dmap'.seg_first + 1
        /\ cursor' \in dmap'.seg_first .. dmap'.seg_last
    BY <1>1, <1>2, <1>4, <1>11
  <2> QED
    BY <2>1, <1>1, <1>2, <1>11, <1>12 DEF Maps!WalkInv
<1>14. Maps!TypeOK'
  <2>1. cursor' \in Nat
    BY <1>1, <1>4
  <2> QED
    BY <2>1, <1>1, <1>4, <1>11 DEF Maps!TypeOK
<1> QED
  BY <1>1, <1>13, <1>14
     DEF Maps!IInv, Maps!FreshInv, Maps!SegsTile, Maps!SeekInv,
         Maps!ExtendInv, Maps!MapIsExact, Maps!End

\* kfio_sgl_phys_first.
LEMMA PhysFirstInv ==
  ASSUME Maps!IInv, Maps!PhysFirst
  PROVE  Maps!IInv'
<1> DEFINE q == [addr |-> segs[1].ds_addr, len |-> segs[1].ds_len]
<1>1. /\ pc = "idle" /\ pc' = "phys_walk" /\ Maps!seg_num > 0
      /\ cursor' = 1 /\ pieces' = <<q>>
      /\ UNCHANGED <<seg_ptr, segs, dmap, fresh, ask, i, rest>>
  BY DEF Maps!PhysFirst, Maps!seg_vars, Maps!map_vars
<1>2. Maps!TypeOK /\ Maps!seg_num \in Nat /\ 1 \in 1 .. Maps!seg_num
  BY <1>1, MapsTypes DEF Maps!IInv
<1>3. segs[1].ds_addr = 0 /\ segs[1].ds_len \in Nat
  BY <1>1, <1>2, MapsTypes DEF Maps!IInv, Maps!SegsTile
<1>4. Maps!End(segs[1]) = segs[1].ds_addr + segs[1].ds_len
  BY DEF Maps!End
<1>5. q \in Maps!Piece /\ q.addr = 0 /\ q.addr + q.len = Maps!End(segs[1])
      /\ Maps!End(segs[1]) \in Nat
  BY <1>3, <1>4 DEF Maps!Piece
<1>6. /\ pieces' \in Seq(Maps!Piece) /\ Len(pieces') = 1
      /\ Maps!Tile(pieces', 0, Maps!End(segs[1]))
  <2> HIDE DEF q
  <2> QED
    BY <1>1, <1>5, TileOne
<1>7. Maps!WalkInv'
  BY <1>1, <1>2, <1>6 DEF Maps!WalkInv, Maps!End
<1>8. Maps!TypeOK'
  BY <1>1, <1>2, <1>6 DEF Maps!TypeOK, Maps!Calls
<1> QED
  BY <1>1, <1>7, <1>8
     DEF Maps!IInv, Maps!FreshInv, Maps!SegsTile, Maps!SeekInv,
         Maps!ExtendInv, Maps!MapIsExact, Maps!End

\* kfio_sgl_phys_next.
LEMMA PhysNextInv ==
  ASSUME Maps!IInv, Maps!PhysNext
  PROVE  Maps!IInv'
<1> DEFINE c == cursor + 1
           q == [addr |-> segs[c].ds_addr, len |-> segs[c].ds_len]
<1>1. /\ pc = "phys_walk" /\ pc' = pc /\ cursor' = c /\ cursor < Maps!seg_num
      /\ pieces' = Append(pieces, q)
      /\ UNCHANGED <<seg_ptr, segs, dmap, fresh, ask, i, rest>>
  BY DEF Maps!PhysNext, Maps!MoreInList, Maps!seg_vars, Maps!map_vars
<1>2. /\ cursor \in 1 .. Maps!seg_num /\ Len(pieces) = cursor
      /\ Maps!Tile(pieces, 0, Maps!End(segs[cursor]))
  BY <1>1 DEF Maps!IInv, Maps!WalkInv
<1>3. Maps!TypeOK /\ Maps!seg_num \in Nat
  BY MapsTypes DEF Maps!IInv
<1>4. cursor \in 1 .. Maps!seg_num - 1 /\ c \in 1 .. Maps!seg_num
  BY <1>1, <1>2, <1>3
<1>5. segs[c].ds_addr = Maps!End(segs[cursor])
  BY <1>4 DEF Maps!IInv, Maps!SegsTile
<1>6. segs[c].ds_addr \in Nat /\ segs[c].ds_len \in Nat
  BY <1>3, <1>4, MapsTypes
<1>7. Maps!End(segs[c]) = segs[c].ds_addr + segs[c].ds_len
  BY DEF Maps!End
<1>8. /\ q \in Maps!Piece /\ q.addr = Maps!End(segs[cursor])
      /\ q.addr + q.len = Maps!End(segs[c])
  <2> HIDE DEF c
  <2> QED
    BY <1>5, <1>6, <1>7 DEF Maps!Piece
<1>9. /\ pieces' \in Seq(Maps!Piece) /\ Len(pieces') = Len(pieces) + 1
      /\ Maps!Tile(pieces', 0, Maps!End(segs[c]))
  <2>1. pieces \in Seq(Maps!Piece)
    BY <1>3 DEF Maps!TypeOK
  <2> HIDE DEF q, c
  <2> QED
    BY <2>1, <1>1, <1>2, <1>8, TileGrows
<1>10. Maps!WalkInv'
  BY <1>1, <1>2, <1>4, <1>9 DEF Maps!WalkInv, Maps!End
<1>11. Maps!TypeOK'
  <2>1. cursor' \in Nat
    BY <1>1, <1>4
  <2> QED
    BY <2>1, <1>1, <1>3, <1>9 DEF Maps!TypeOK
<1> QED
  BY <1>1, <1>10, <1>11
     DEF Maps!IInv, Maps!FreshInv, Maps!SegsTile, Maps!SeekInv,
         Maps!ExtendInv, Maps!MapIsExact, Maps!End

\* The call that ends an enumeration.
LEMMA WalkEndInv ==
  ASSUME Maps!IInv, Maps!WalkEnd
  PROVE  Maps!IInv'
<1>1. /\ pc' = "idle" /\ cursor' = Maps!NULL /\ pieces' = <<>>
      /\ UNCHANGED <<seg_ptr, segs, dmap, fresh, ask, i, rest>>
  BY DEF Maps!WalkEnd, Maps!seg_vars, Maps!map_vars
<1>2. pieces' \in Seq(Maps!Piece)
  BY <1>1
<1>3. Maps!TypeOK'
  BY <1>1, <1>2 DEF Maps!IInv, Maps!TypeOK, Maps!Calls
<1> QED
  BY <1>1, <1>3
     DEF Maps!IInv, Maps!FreshInv, Maps!SegsTile, Maps!SeekInv,
         Maps!ExtendInv, Maps!MapIsExact, Maps!WalkInv, Maps!End

\* The inductive step.
LEMMA MapsNextInv == Maps!IInv /\ [Maps!Next]_(Maps!slice_vars) => Maps!IInv'
<1> SUFFICES ASSUME Maps!IInv, [Maps!Next]_(Maps!slice_vars) PROVE Maps!IInv'
  OBVIOUS
<1>1. CASE UNCHANGED Maps!slice_vars
  BY <1>1
     DEF Maps!IInv, Maps!TypeOK, Maps!FreshInv, Maps!SegsTile, Maps!SeekInv,
         Maps!ExtendInv, Maps!MapIsExact, Maps!WalkInv, Maps!PieceEnd,
         Maps!AskInside, Maps!Total, Maps!End, Maps!slice_vars, Maps!seg_vars,
         Maps!map_vars, Maps!walk_vars
<1>2. CASE Maps!Turn
  BY <1>2, SeekPastInv, SeekFoundInv, ExtendStepInv, TruncateInv, MapNextInv,
     PhysNextInv, WalkEndInv DEF Maps!Turn
<1>3. CASE Maps!Call
  BY <1>3, MapFirstInv, PhysFirstInv, SliceInv DEF Maps!Call
<1>4. CASE Maps!DmaUnmap \/ \E n \in 0 .. Maps!MaxBytes : Maps!DmaMap(n)
  BY <1>4, DmaUnmapInv, DmaMapInv
<1> QED
  BY <1>1, <1>2, <1>3, <1>4 DEF Maps!Next

\* The inductive invariant holds of every load, slice and enumeration.
THEOREM MapsInvariance == Maps!Spec => []Maps!IInv
BY MapsInitInv, MapsNextInv, PTL DEF Maps!Spec

\* Type correctness.
THEOREM MapsTypeCorrect == Maps!Spec => []Maps!TypeOK
<1>1. Maps!IInv => Maps!TypeOK
  BY DEF Maps!IInv
<1> QED
  BY MapsInvariance, <1>1, PTL

\* The loops of kfio_sgl_dma_slice never read outside the segment array.
THEOREM SliceReadsInside == Maps!Spec => []Maps!ReadsInside
<1>1. Maps!IInv => Maps!ReadsInside
  <2> SUFFICES ASSUME Maps!IInv PROVE Maps!ReadsInside
    OBVIOUS
  <2>1. pc = "seek" => i \in 1 .. Maps!seg_num
    BY DEF Maps!IInv, Maps!SeekInv
  <2>2. ASSUME pc = "extend"
        PROVE  i = dmap.seg_last + 1 /\ i <= Maps!seg_num + 1
               /\ (~Maps!Reached => i <= Maps!seg_num)
    <3>1. /\ Maps!AskInside /\ dmap.seg_last <= Maps!seg_num
          /\ i = dmap.seg_last + 1
          /\ Maps!End(segs[dmap.seg_last]) = ask.offset + dmap.map_length
          /\ 1 <= dmap.seg_last
          /\ 1 <= dmap.seg_first /\ dmap.seg_first <= dmap.seg_last
      <4>1. Maps!TypeOK /\ dmap.seg_first \in Nat /\ dmap.seg_last \in Nat
        BY MapsTypes DEF Maps!IInv
      <4> QED
        BY <2>2, <4>1 DEF Maps!IInv, Maps!ExtendInv
    <3>2. /\ ask.offset \in Nat /\ ask.length \in Nat /\ Maps!seg_num \in Nat
          /\ dmap.map_length \in Nat /\ dmap.seg_last \in Nat
      BY MapsTypes DEF Maps!IInv
    <3>3. dmap.seg_last = Maps!seg_num => Maps!Reached
      BY <3>1, <3>2 DEF Maps!AskInside, Maps!Total, Maps!Reached
    <3> QED
      BY <3>1, <3>2, <3>3
  <2> QED
    BY <2>1, <2>2 DEF Maps!ReadsInside
<1> QED
  BY MapsInvariance, <1>1, PTL

\* A map tells exactly the range it was made for.
THEOREM MapsAreExact == Maps!Spec => []Maps!MapIsExact
<1>1. Maps!IInv => Maps!MapIsExact
  BY DEF Maps!IInv
<1> QED
  BY MapsInvariance, <1>1, PTL

\* Enumerating a map yields the bytes of its range and no others, in order.
THEOREM WalksAreExact == Maps!Spec => []Maps!WalkIsExact
<1>1. Maps!IInv => Maps!WalkIsExact
  <2> SUFFICES ASSUME Maps!IInv PROVE Maps!WalkIsExact
    OBVIOUS
  <2>1. /\ Maps!TypeOK /\ cursor \in Nat /\ Maps!seg_num \in Nat
        /\ dmap.seg_first \in Nat /\ dmap.seg_last \in Nat
    BY MapsTypes DEF Maps!IInv, Maps!TypeOK
  <2>2. ASSUME pc = "map_walk", ~Maps!MoreInMap
        PROVE  /\ Maps!Tile(pieces, ask.offset, ask.offset + ask.length)
               /\ Len(pieces) = dmap.seg_count
    <3>1. /\ fresh /\ Maps!seg_num > 0
          /\ cursor \in dmap.seg_first .. dmap.seg_last
          /\ Len(pieces) = cursor - dmap.seg_first + 1
          /\ Maps!Tile(pieces, ask.offset, Maps!PieceEnd(cursor))
      BY <2>2 DEF Maps!IInv, Maps!WalkInv
    <3>2. dmap.seg_count = dmap.seg_last - dmap.seg_first + 1
      BY <3>1 DEF Maps!IInv, Maps!MapIsExact
    <3>3. cursor = dmap.seg_last
      BY <2>1, <2>2, <3>1 DEF Maps!MoreInMap
    <3> QED
      BY <3>1, <3>2, <3>3 DEF Maps!PieceEnd
  <2>3. ASSUME pc = "phys_walk", ~Maps!MoreInList
        PROVE  Maps!Tile(pieces, 0, Maps!Total) /\ Len(pieces) = Maps!seg_num
    <3>1. /\ cursor \in 1 .. Maps!seg_num /\ Len(pieces) = cursor
          /\ Maps!Tile(pieces, 0, Maps!End(segs[cursor]))
      BY <2>3 DEF Maps!IInv, Maps!WalkInv
    <3>2. cursor = Maps!seg_num /\ Maps!seg_num # 0
      BY <2>1, <2>3, <3>1 DEF Maps!MoreInList
    <3> QED
      BY <3>1, <3>2 DEF Maps!Total
  <2> QED
    BY <2>2, <2>3 DEF Maps!WalkIsExact
<1> QED
  BY MapsInvariance, <1>1, PTL

-----------------------------------------------------------------------------
LEMMA ListStep == [Next]_vars => [List!Next]_(List!list_vars)
<1> SUFFICES ASSUME Next PROVE [List!Next]_(List!list_vars)
  BY DEF vars, list_only, List!list_vars, List!uio_vars, List!bus_vars
<1>1. CASE UseMap
  BY <1>1 DEF UseMap, list_only, List!list_vars, List!uio_vars, List!bus_vars
<1>2. CASE FillList
  BY <1>2 DEF FillList, List!Next
<1>3. CASE DmaMap \/ DmaMapFails \/ DmaUnmap \/ Reset \/ Destroy
  BY <1>3 DEF DmaMap, DmaMapFails, DmaUnmap, Reset, Destroy, List!Next
<1> QED
  BY <1>1, <1>2, <1>3 DEF Next

\* What the maps need of the list: a load is no longer than uio_size counts to,
\* and a failed load finds no segments.
ListInv == uio_size \in 0 .. MaxBytes /\ seg_ptr \in BOOLEAN
           /\ loaded = seg_ptr

LEMMA MapsStep == ListInv /\ [Next]_vars => [Maps!Next]_(Maps!slice_vars)
<1> SUFFICES ASSUME ListInv, Next PROVE [Maps!Next]_(Maps!slice_vars)
  BY DEF vars, maps_only, Maps!slice_vars, Maps!seg_vars, Maps!map_vars,
         Maps!walk_vars
<1> USE DEF maps_only, Maps!slice_vars, Maps!seg_vars, Maps!map_vars,
            Maps!walk_vars
<1>1. CASE UseMap
  BY <1>1 DEF UseMap, Maps!Next
<1>2. CASE FillList
  BY <1>2 DEF FillList
<1>3. CASE DmaMap
  BY <1>3 DEF DmaMap, Maps!Next, ListInv, MaxBytes, Maps!MaxBytes
<1>4. CASE DmaMapFails
  BY <1>4 DEF DmaMapFails, List!DmaMapFails, ListInv
<1>5. CASE DmaUnmap \/ Reset \/ Destroy
  <2>1. CASE seg_ptr
    BY <1>5, <2>1 DEF DmaUnmap, Reset, Destroy, Forget, Maps!Next
  <2>2. CASE ~seg_ptr
    BY <1>5, <2>2 DEF DmaUnmap, Reset, Destroy, Forget, List!DmaUnmap,
                      List!Reset, List!Destroy, List!GiveBack, List!Unloaded,
                      ListInv
  <2> QED
    BY <2>1, <2>2
<1> QED
  BY <1>1, <1>2, <1>3, <1>4, <1>5 DEF Next

\* The list's calls see no more of the maps than that no call is in progress,
\* and the maps' no more of the list than its load: each part behaves as it
\* does alone, for any entries, sizes and segments.
LEMMA PartsAreKept == Spec => List!Spec /\ Maps!Spec
<1>1. Spec => List!Spec
  <2>1. Init => List!Init
    BY DEF Init
  <2> QED
    BY <2>1, ListStep, PTL DEF Spec, List!Spec
<1>2. List!Spec => []ListInv
  <2>1. List!TypeOK /\ List!NothingLeaks => ListInv
    BY DEF List!TypeOK, List!NothingLeaks, ListInv, MaxBytes
  <2> QED
    BY <2>1, ListTypeCorrect, BusIsClean, PTL
<1>3. Init => Maps!Init
  BY DEF Init
<1> QED
  BY <1>1, <1>2, <1>3, MapsStep, PTL DEF Spec, Maps!Spec

\* What is proved of a list alone and of maps alone holds in the composition,
\* where lists fail, are reset and are destroyed under their maps.
LEMMA ListIsKept ==
  Spec => [](List!OneSpace /\ List!NothingLeaks /\ List!PagesTile)
BY PartsAreKept, NeverMixed, BusIsClean, PagesAreTiled, PTL

\* The same of maps, slices and enumerations.
LEMMA MapsAreKept ==
  Spec => [](Maps!ReadsInside /\ Maps!MapIsExact /\ Maps!WalkIsExact)
BY PartsAreKept, SliceReadsInside, MapsAreExact, WalksAreExact, PTL

\* Entries are of the space that the list is of, and the thread that the bus is
\* told of is the one whose memory it is: kfio_sgl_map_bytes, _user_bytes_td.
THEOREM OneSpaceHolds == Spec => []OneSpace
<1>1. List!OneSpace => OneSpace
  BY DEF List!OneSpace, List!uio_num, OneSpace, uio_num
<1> QED
  BY <1>1, ListIsKept, PTL

\* The bus is left with no tag and no map of a list that is gone, has a mapping
\* under a map and a map under a tag only, and the list knows of the mapping,
\* after a failed load as after kfio_sgl_destroy.
THEOREM NothingLeaksHolds == Spec => []NothingLeaks
<1>1. List!NothingLeaks => NothingLeaks
  BY DEF List!NothingLeaks, NothingLeaks
<1> QED
  BY <1>1, ListIsKept, PTL

\* kfio_sgl_destroy gives back the objects made for its list and no others,
\* but for the map of a list whose bus_dmamap_create has failed.
THEOREM GivenBackOnceHolds == Spec => GivenBackOnce
<1>1. ASSUME List!IInv, [Next]_vars, sgl # "none", sgl' = "none"
      PROVE  List!Destroy
  <2>1. CASE FillList
    BY <1>1, <2>1
       DEF FillList, List!Setup, List!AllocList, List!CreateTag, List!CreateMap,
           List!Fill, List!MapBytes, List!UserPagesCall, List!Turn,
           List!UserPagesNext, List!UserPagesFull, List!UserPagesReturn
  <2> QED
    BY <1>1, <2>1
       DEF Next, vars, list_only, UseMap, DmaMap, List!DmaMapLoads, DmaMapFails,
           List!DmaMapFails, DmaUnmap, List!DmaUnmap, Reset, List!Reset, Destroy
<1>2. List!IInv /\ [Next]_vars =>
        [sgl # "none" /\ sgl' = "none" =>
           /\ tags' = 0
           /\ maps' = 0 \/ (maps' = -1 /\ sgl = "bail" /\ dma_tag)
        ]_<<sgl, tags, maps>>
  BY <1>1, DestroyGivesBack
<1>3. Spec => []List!IInv
  BY PartsAreKept, ListInvariance, PTL
<1> QED
  BY <1>2, <1>3, PTL DEF Spec, GivenBackOnce

\* A user's range is cut at page boundaries, into pieces that are in their
\* pages and meet: the loop of kfio_sgl_map_user_bytes_td.
THEOREM PagesTileHolds == Spec => []PagesTile
<1>1. List!PagesTile => PagesTile
  BY DEF List!PagesTile, PagesTile, uio_num
<1> QED
  BY <1>1, ListIsKept, PTL

\* Slices and enumerations read inside the segments of whatever load there is.
THEOREM ReadsInsideHolds == Spec => []ReadsInside
<1>1. Maps!ReadsInside => ReadsInside
  BY DEF Maps!ReadsInside, Maps!seg_num, Maps!Reached, ReadsInside, seg_num, Reached
<1> QED
  BY <1>1, MapsAreKept, PTL

\* A map describes just the bytes that kfio_dma_map_create was asked for.
THEOREM MapIsExactHolds == Spec => []MapIsExact
<1>1. Maps!MapIsExact => MapIsExact
  BY DEF Maps!MapIsExact, Maps!seg_num, Maps!End, MapIsExact, seg_num, End
<1> QED
  BY <1>1, MapsAreKept, PTL

\* An enumeration yields just the bytes of its map, in order, each once.
THEOREM WalkIsExactHolds == Spec => []WalkIsExact
<1>1. Maps!WalkIsExact => WalkIsExact
  BY DEF Maps!WalkIsExact, Maps!End, Maps!Total, Maps!Tile, Maps!Reached,
         Maps!MoreInMap, Maps!MoreInList, WalkIsExact, seg_num, End, Total,
         Tile, Reached, MoreInMap, MoreInList
<1> QED
  BY <1>1, MapsAreKept, PTL

-----------------------------------------------------------------------------
(* What is mapped is listed.                                               *)

\* A load has as many bytes as were asked for.
LEMMA LoadedBytes ==
  ASSUME NEW n \in Nat, Maps!Load(n)
  PROVE  Maps!Total' = n
<1>1. PICK s \in 0 .. Maps!MaxSegs : \E c \in Maps!Cuts(n, s) :
        segs' = Maps!Segments(s, c)
  BY DEF Maps!Load
<1>2. PICK c \in Maps!Cuts(n, s) : segs' = Maps!Segments(s, c)
  BY <1>1
<1>3. s \in Nat
  BY ListAssumption DEF Maps!MaxSegs
<1>4. /\ c \in [0 .. s -> 0 .. n] /\ c[0] = 0 /\ c[s] = n
  BY <1>2 DEF Maps!Cuts
<1>5. segs' = [k \in 1 .. s |-> [ds_addr |-> c[k - 1],
                                 ds_len |-> c[k] - c[k - 1]]]
  BY <1>2 DEF Maps!Segments
<1>6. Len(segs') = s
  BY <1>3, <1>5
<1>7. CASE s = 0
  BY <1>4, <1>6, <1>7 DEF Maps!Total, Maps!seg_num
<1>8. CASE s # 0
  <2>1. segs'[s] = [ds_addr |-> c[s - 1], ds_len |-> c[s] - c[s - 1]]
    BY <1>3, <1>5, <1>8
  <2>2. segs'[s].ds_addr + segs'[s].ds_len = n
    BY <2>1, <1>3, <1>4, <1>8
  <2> QED
    BY <2>2, <1>6, <1>8 DEF Maps!Total, Maps!seg_num, Maps!End
<1> QED
  BY <1>7, <1>8

LEMMA TotalIsNumber ==
  ASSUME Maps!TypeOK
  PROVE  Maps!Total \in Nat
<1>1. CASE Len(segs) = 0
  BY <1>1 DEF Maps!Total, Maps!seg_num
<1>2. CASE Len(segs) # 0
  <2>1. segs[Len(segs)] \in Maps!Segment
    BY <1>2 DEF Maps!TypeOK
  <2> QED
    BY <2>1, <1>2 DEF Maps!Total, Maps!seg_num, Maps!End, Maps!Segment
<1> QED
  BY <1>1, <1>2

LEMMA RemainderBelow ==
  ASSUME NEW a \in Nat, NEW w \in Nat \ {0}
  PROVE  a % w <= a
OBVIOUS

LEMMA MappedStep ==
  ASSUME List!IInv, Maps!TypeOK, MappedIsListed, [Next]_vars, List!SizeIsSum'
  PROVE  MappedIsListed'
<1> SUFFICES ASSUME seg_ptr' PROVE Maps!Total' <= List!ListBytes'
  BY DEF MappedIsListed
<1>1. uio_vec \in Seq(List!Entry) /\ seg_ptr \in BOOLEAN /\ loaded = seg_ptr
  BY DEF List!IInv, List!TypeOK, List!NothingLeaks
<1>2. Maps!Total \in Nat
  BY TotalIsNumber
<1>3. List!ListBytes \in Nat
  BY <1>1, BytesOfCounts DEF Counts, List!ListBytes
<1>4. ASSUME seg_ptr, UNCHANGED <<segs, uio_vec>>
      PROVE  Maps!Total' <= List!ListBytes'
  BY <1>4 DEF MappedIsListed, Maps!Total, Maps!seg_num, List!ListBytes
<1>5. CASE UNCHANGED vars
  BY <1>4, <1>5 DEF vars, list_only, maps_only
<1>6. CASE UseMap
  <2>1. UNCHANGED <<seg_ptr, uio_vec>>
    BY <1>6 DEF UseMap, list_only
  <2>2. UNCHANGED segs
    BY <1>6 DEF UseMap, Maps!Call, Maps!Turn, Maps!Slice, Maps!SeekPast,
       Maps!SeekFound, Maps!Extend, Maps!Truncate, Maps!MapFirst,
       Maps!MapNext, Maps!PhysFirst, Maps!PhysNext, Maps!WalkEnd,
       Maps!seg_vars
  <2> QED
    BY <1>4, <2>1, <2>2
<1>7. CASE FillList
  <2>1. seg_ptr /\ UNCHANGED segs
    BY <1>7 DEF FillList, maps_only
  <2>2. ASSUME NEW e \in List!Entry, List!AddEntry(e)
        PROVE  Maps!Total' <= List!ListBytes'
    <3>1. List!ListBytes' = List!ListBytes + e.iov_len /\ e.iov_len \in Nat
      BY <2>2, AddEntryCounts DEF MappedIsListed, List!SizeIsSum, List!IInv
    <3>2. Maps!Total' = Maps!Total /\ Maps!Total <= List!ListBytes
      BY <2>1 DEF Maps!Total, Maps!seg_num, MappedIsListed
    <3>3. Maps!Total \in Int
      BY <1>2
    <3> QED
      BY <1>3, <3>1, <3>2, <3>3
  <2>3. ASSUME NEW n \in 1 .. MaxVecs, List!AllocList(n) PROVE FALSE
    BY <2>1, <2>3, <1>1
       DEF List!AllocList, List!IInv, List!PhaseInv, List!NothingLeaks
  <2>4. CASE UNCHANGED uio_vec
    BY <1>4, <2>1, <2>4
  <2>5. ASSUME NEW size \in Sizes, List!MapBytes(size)
        PROVE  \E e \in List!Entry : List!AddEntry(e)
    <3> DEFINE e == [page |-> 0, off |-> 0, iov_len |-> size,
                     space |-> "SYSSPACE", td |-> NoThread]
    <3>1. List!AddEntry(e)
      BY <2>5 DEF List!MapBytes
    <3>2. e \in List!Entry
      BY ListAssumption DEF List!Entry, List!Spaces
    <3> QED
      BY <3>1, <3>2
  <2>6. CASE List!UserPagesNext
    BY <2>2, <2>6, UserPagesNextAdds DEF List!IInv, UserPagesAdd
  <2> QED
    BY <1>7, <2>2, <2>3, <2>4, <2>5, <2>6
       DEF FillList, List!Setup, List!Fill, List!Turn, List!CreateTag,
           List!CreateMap, List!UserPagesCall, List!UserPagesFull,
           List!UserPagesReturn, List!uio_vars
<1>8. CASE DmaMap
  <2>1. Maps!Load(uio_size) /\ UNCHANGED <<uio_vec, uio_size>>
    BY <1>8 DEF DmaMap, Maps!DmaMap, List!DmaMapLoads, List!uio_vars
  <2>2. uio_size \in Nat
    BY ListAssumption DEF List!IInv, List!TypeOK
  <2>3. Maps!Total' = uio_size
    BY <2>1, <2>2, LoadedBytes
  <2>4. uio_size = List!ListBytes' % WordSize /\ List!ListBytes'
          = List!ListBytes
    BY <2>1 DEF List!SizeIsSum, List!ListBytes
  <2>5. Maps!Total' = List!ListBytes % WordSize /\ List!ListBytes'
          = List!ListBytes
    BY <2>3, <2>4
  <2>6. List!ListBytes % WordSize <= List!ListBytes
    BY <1>3, ListAssumption, RemainderBelow
  <2> QED
    BY <2>5, <2>6, Zenon
<1>9. CASE DmaMapFails \/ DmaUnmap \/ Reset
  BY <1>9 DEF DmaMapFails, DmaUnmap, Reset, List!DmaMapFails, List!DmaUnmap,
              List!Reset, List!Unloaded
<1>10. CASE Destroy
  <2>1. CASE dma_tag
    BY <1>10, <2>1 DEF Destroy, List!Destroy, List!GiveBack, List!Unloaded
  <2>2. CASE ~dma_tag
    <3>1. ~seg_ptr
      BY <1>1, <2>2 DEF List!IInv, List!NothingLeaks, List!PhaseInv, List!TypeOK
    <3>2. seg_ptr' = seg_ptr
      BY <1>10, <2>2 DEF Destroy, List!Destroy, List!GiveBack
    <3> QED
      BY <3>1, <3>2
  <2> QED
    BY <2>1, <2>2
<1> QED
  BY <1>5, <1>6, <1>7, <1>8, <1>9, <1>10 DEF Next

\* No byte is mapped that is not of a buffer on the list, for any sizes and
\* whatever width uio_size wraps at.
THEOREM MappedHolds == Spec => []MappedIsListed
<1>1. Init => MappedIsListed
  BY NoBytes, ListAssumption
     DEF Init, List!Init, MappedIsListed, List!SizeIsSum, List!ListBytes,
         List!NoCall
<1>2. List!IInv /\ Maps!TypeOK /\ MappedIsListed /\ [Next]_vars
        /\ List!SizeIsSum'
        => MappedIsListed'
  BY MappedStep
<1>3. Spec => []List!IInv /\ []List!SizeIsSum
  BY PartsAreKept, ListInvariance, SizesAdd, PTL
<1> QED
  BY <1>1, <1>2, <1>3, MapsTypeCorrect, PartsAreKept, PTL DEF Spec
=============================================================================
