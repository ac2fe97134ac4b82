--------------------------- MODULE SgParameters ---------------------------
(* What SgList, DmaSlice and their composition are told about the machine  *)
(* and about the callers of src/driver/kscatter.c.                         *)
EXTENDS Integers

CONSTANTS
  Threads,      \* the threads that may call kfio_sgl_map_user_pages
  NoThread,     \* the uio_td of a kernel buffer
  MaxVecs,      \* bound on nvecs
  Sizes,        \* byte counts callers pass
  PageSize,     \* FUSION_PAGE_SIZE
  WordSize      \* 2^32 of the C types

ASSUME ListAssumption ==
  /\ NoThread \notin Threads
  /\ MaxVecs \in Nat \ {0}
  /\ PageSize \in Nat \ {0}
  /\ WordSize \in Nat \ {0}
  /\ Sizes \subseteq 0 .. WordSize - 1

VARIABLE seg_ptr    \* seg_ptr # NULL: a list is loaded

\* A load is uio_size bytes long, so never more than uio_size can count.
MaxBytes == WordSize - 1

\* kfio_sgl_alloc_nvec makes a bus tag of as many segments as entries.
MaxSegs == MaxVecs
=============================================================================
