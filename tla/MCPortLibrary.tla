--------------------------- MODULE MCPortLibrary ---------------------------
(***************************************************************************)
(* The library of the porting layer for TLC: components that do not        *)
(* interact, each with variables of its own, one of which runs while the   *)
(* others stay as they began.                                              *)
(***************************************************************************)
EXTENDS Naturals, FiniteSets, TLC

CONSTANTS
  Threads, NoThread, NULL,
  Entries, Lists, Poison,
  Objects, Reserved_list, Data, MaxCall,
  Nodes, NoNode, Types, MaxText,
  Handles, Pages, MaxArray, MaxWired,
  Letter, MaxString, Devices, TimeWidth, ByteBase, HighBytes, FieldByte

\* Entries, lists, threads, objects and what stands for no one of them differ.
ASSUME LibraryAssumption ==
  /\ IsFiniteSet(Entries) /\ IsFiniteSet(Objects)
  /\ Lists \cap Entries = {} /\ {NULL, Poison} \cap (Lists \cup Entries) = {}
  /\ NULL # Poison
  /\ Threads \cap Objects = {} /\ Reserved_list \notin Threads \cup Objects
  /\ {NULL, Data} \cap (Threads \cup Objects \cup {Reserved_list}) = {}
  /\ NULL # Data /\ NoThread \notin Threads
  /\ MaxCall \in Nat /\ MaxText \in Nat /\ MaxArray \in Nat /\ MaxWired \in Nat
  /\ NoNode \notin Nodes /\ Pages \subseteq Nat

VARIABLES
  part,
  head, next, mine, pc, entry, cur, taken, pos, loop_n,
  h, linkage, ret, loop,
  field, pprev, hash_loop,
  alive, zone, cache_h, reserved_count, lk, held, cache_pc, call,
  node, os_private, removing, req,
  dma_pc, kernel, phys_addr, wired, pinned,
  input, val

Atomic == INSTANCE AtomicList WITH n <- loop_n
Linked == INSTANCE LinkedLists
Hash   == INSTANCE HashLists WITH loop <- hash_loop
Cache  == INSTANCE ObjectCache WITH h <- cache_h, pc <- cache_pc
Info   == INSTANCE InfoTree
Memory == INSTANCE DeviceMemory WITH pc <- dma_pc
Calls  == INSTANCE PortAlgorithms
Bits   == INSTANCE BitAlgorithms

Parts == {"atomic", "linked", "hash", "cache", "info", "memory", "calls", "bits"}

atomic_vars == <<head, next, mine, pc, entry, cur, taken, pos, loop_n>>
linked_vars == <<h, linkage, ret, loop>>
hash_vars   == <<field, pprev, hash_loop>>
cache_vars  == <<alive, zone, cache_h, reserved_count, lk, held, cache_pc, call>>
info_vars   == <<node, os_private, removing, req>>
memory_vars == <<dma_pc, kernel, phys_addr, wired, pinned>>

Others(p) ==
  /\ part = p /\ UNCHANGED part
  /\ p # "atomic" => UNCHANGED atomic_vars
  /\ p # "linked" => UNCHANGED linked_vars
  /\ p # "hash"   => UNCHANGED hash_vars
  /\ p # "cache"  => UNCHANGED cache_vars
  /\ p # "info"   => UNCHANGED info_vars
  /\ p # "memory" => UNCHANGED memory_vars
  /\ p # "calls"  => UNCHANGED input
  /\ p # "bits"   => UNCHANGED val

Init ==
  /\ part \in Parts
  /\ IF part = "atomic" THEN Atomic!Init
     ELSE Atomic!NothingAdded /\ mine = [t \in Threads |-> {}]
  /\ Linked!Init /\ Hash!Init /\ Cache!Init
  /\ Info!Init /\ Memory!Init /\ Calls!Init /\ Bits!Init

Next ==
  \/ Others("atomic") /\ Atomic!Next
  \/ Others("linked") /\ Linked!Next
  \/ Others("hash")   /\ Hash!Next
  \/ Others("cache")  /\ Cache!Next
  \/ Others("info")   /\ Info!Next
  \/ Others("memory") /\ Memory!Next
  \/ Others("calls")  /\ Calls!Choose
  \/ Others("bits")   /\ Bits!Choose

Spec ==
  /\ Init
  /\ [][Next]_<<part, atomic_vars, linked_vars, hash_vars, cache_vars,
                info_vars, memory_vars, input, val>>

\* Entries and objects are the same model values, as are threads, lists and
\* nodes, so that the permutations are few.
Symmetric == Permutations(Entries) \cup Permutations(Threads)

-----------------------------------------------------------------------------

\* The variables of the component that runs have their types.
LibraryTypes ==
  /\ part = "atomic" => Atomic!TypeOK
  /\ part = "linked" => Linked!TypeOK
  /\ part = "hash"   => Hash!TypeOK
  /\ part = "cache"  => Cache!TypeOK
  /\ part = "info"   => Info!TypeOK
  /\ part = "memory" => Memory!TypeOK

\* Those of one component, where it is the one that runs.
LinksAgree      == part = "linked" => Linked!LinksAgree
NoHandlerOnGone == part = "info"   => Info!NoHandlerOnGone
SizeTold        == part = "info"   => Info!SizeTold

\* A request on the information tree, an allocation for DMA and a cache keep
\* nothing they should have given back.
NothingKept ==
  /\ part = "cache"  => Cache!NothingLost
  /\ part = "info"   => Info!GivesBackAll
  /\ part = "memory" => Memory!NothingKept

AlgorithmsAgree ==
  /\ part = "calls" => Calls!CallsAgree
  /\ part = "bits"  => Bits!BitsAgree

\* The lock-free list is a stack and the lists are sequences.  That the steps
\* of another component change nothing abstract is seen at once.
ImplementsStack ==
  /\ part = "atomic" => Atomic!Stack!Init
  /\ [][part = "atomic" => [Atomic!Stack!Next]_(Atomic!Stack!vars)]_atomic_vars

ImplementsSequences ==
  /\ Linked!Promise!Init /\ Hash!Promise!Init
  /\ [][part = "linked" => [Linked!Promise!Next]_(Linked!Promise!vars)]_linked_vars
  /\ [][part = "hash" => [Hash!Promise!Next]_(Hash!Promise!vars)]_hash_vars
=============================================================================
