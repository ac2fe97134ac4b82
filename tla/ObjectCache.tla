--------------------------- MODULE ObjectCache ---------------------------
(***************************************************************************)
(* A fusion_mem_cache_t (fio/port/kcache.h, kcache.c): a zone of the       *)
(* kernel's allocator, and a list of reserved objects kept in front of it, *)
(* under a spin lock, for callers that must not fail.  An object that is   *)
(* on the list is linked through its own first bytes, which are the        *)
(* caller's when it has the object.  The zone is external: it gives out an *)
(* object, cleared, or, asked not to wait, none.                           *)
(***************************************************************************)
EXTENDS ListOperations

CONSTANTS
  Threads, NoThread,
  Objects,      \* what the zone has
  Reserved_list, \* &cache->reserved_list
  Data,         \* what a caller writes over the links of an object it has
  MaxCall       \* bound on n

VARIABLES
  alive,        \* cache->p # NULL
  zone,         \* the objects the zone has to give
  h,            \* the links of lists and objects
  reserved_count,
  lk,           \* who has cache->lock
  held,         \* the objects a thread has as its own
  pc,
  call          \* the parameters and locals of a call

cache_vars == <<alive, zone, h, reserved_count, lk, held, pc, call>>

\* alloc_list, on the stack of a fusion_cache_reserve, is named by its thread.
Alloc_list(t) == t
Heads == {Reserved_list} \cup Threads
Cells == Heads \cup Objects
Bound == Cardinality(Objects) + 1
NoCall == [n |-> 0, i |-> 0, le |-> NULL, next |-> NULL]

On(l) == ToSet(OnList(h, l, Bound))

Init ==
  /\ alive = TRUE
  /\ zone = Objects
  /\ h = [next |-> [x \in Cells |-> IF x \in Heads THEN x ELSE NULL],
          prev |-> [x \in Cells |-> IF x \in Heads THEN x ELSE NULL]]
  /\ reserved_count = 0
  /\ lk = NoThread
  /\ held = [t \in Threads |-> {}]
  /\ pc = [t \in Threads |-> "idle"]
  /\ call = [t \in Threads |-> NoCall]

Goto(t, place) == pc' = [pc EXCEPT ![t] = place]

Begin(t, place, c) ==
  /\ pc[t] = "idle" /\ alive
  /\ Goto(t, place)
  /\ call' = [call EXCEPT ![t] = c]

Return(t) ==
  /\ Goto(t, "idle")
  /\ call' = [call EXCEPT ![t] = NoCall]

\* Mutation: the lock is taken whoever has it.
MayLock_Always(t) == TRUE

MayLock(t) == lk = NoThread

\* _fusion_spin_lock and _fusion_spin_unlock.
Acquire(t) == MayLock(t) /\ lk' = t
Unlock == lk' = NoThread

\* t, which was at place from, has the lock and goes on at place to.
Enter(t, from, to) ==
  /\ pc[t] = from
  /\ Acquire(t)
  /\ Goto(t, to)
  /\ UNCHANGED <<alive, zone, h, reserved_count, held, call>>

-----------------------------------------------------------------------------
(* kfio_cache_alloc and kfio_cache_free, on an object of t's.              *)

Clear(g, o) == [g EXCEPT !.next[o] = NULL, !.prev[o] = NULL]

Written(g, o) == [g EXCEPT !.next[o] = Data, !.prev[o] = Data]

Alloc(t) ==
  /\ pc[t] = "idle" /\ alive
  /\ \E o \in zone : /\ zone' = zone \ {o}
                     /\ held' = [held EXCEPT ![t] = @ \cup {o}]
                     /\ h' = Written(h, o)
  /\ UNCHANGED <<alive, reserved_count, lk, pc, call>>

Free(t, o) ==
  /\ pc[t] = "idle" /\ alive
  /\ o \in held[t]
  /\ zone' = zone \cup {o}
  /\ held' = [held EXCEPT ![t] = @ \ {o}]
  /\ h' = Clear(h, o)
  /\ UNCHANGED <<alive, reserved_count, lk, pc, call>>

-----------------------------------------------------------------------------
(* fusion_cache_reserve.                                                   *)

Reserve(t, n) ==
  /\ Begin(t, "reserve", [NoCall EXCEPT !.n = n])
  /\ h' = InitEntry(h, Alloc_list(t))
  /\ UNCHANGED <<alive, zone, reserved_count, lk, held>>

ReserveTurn(t) ==
  /\ pc[t] = "reserve"
  /\ call[t].i < call[t].n
  /\ \E o \in zone :
       /\ zone' = zone \ {o}
       /\ h' = AddHead(Clear(h, o), o, Alloc_list(t))
  /\ call' = [call EXCEPT ![t].i = @ + 1]
  /\ UNCHANGED <<alive, reserved_count, lk, held, pc>>

\* Mutation: what was allocated is not given back.
ErrorExit_Leaks(t) == Return(t)

\* The first entry of fusion_list_for_each_safe over alloc_list.
ErrorExit(t) ==
  LET first == h.next[Alloc_list(t)]
  IN  IF first = Alloc_list(t) THEN Return(t)
      ELSE /\ Goto(t, "error_exit")
           /\ call' = [call EXCEPT ![t] = [@ EXCEPT !.le = first,
                                                    !.next = h.next[first]]]

ReserveFails(t) ==
  /\ pc[t] = "reserve"
  /\ call[t].i < call[t].n
  /\ ErrorExit(t)
  /\ UNCHANGED <<alive, zone, h, reserved_count, lk, held>>

\* One turn: le is freed, and its memory with the link to the next is gone.
ErrorExitTurn(t) ==
  /\ pc[t] = "error_exit"
  /\ zone' = zone \cup {call[t].le}
  /\ h' = Clear(h, call[t].le)
  /\ IF call[t].next = Alloc_list(t) THEN Return(t)
     ELSE /\ call' = [call EXCEPT ![t] = [@ EXCEPT !.le = call[t].next,
                                                   !.next = h.next[call[t].next]]]
          /\ UNCHANGED pc
  /\ UNCHANGED <<alive, reserved_count, lk, held>>

ReserveEnter(t) == call[t].i = call[t].n /\ Enter(t, "reserve", "add_list")

ReserveAdd(t) ==
  /\ pc[t] = "add_list"
  /\ h' = AddList(h, Alloc_list(t), Reserved_list)
  /\ Goto(t, "add_count")
  /\ UNCHANGED <<alive, zone, reserved_count, lk, held, call>>

ReserveCount(t) ==
  /\ pc[t] = "add_count"
  /\ reserved_count' = reserved_count + call[t].n
  /\ Unlock
  /\ Return(t)
  /\ UNCHANGED <<alive, zone, h, held>>

-----------------------------------------------------------------------------
(* fusion_cache_release.                                                   *)

ReleaseN(t, n) ==
  /\ Begin(t, "release", [NoCall EXCEPT !.n = n])
  /\ UNCHANGED <<alive, zone, h, reserved_count, lk, held>>

ReleaseEnter(t) == Enter(t, "release", "release_turn")

NothingReserved == reserved_count = 0

ReleasePop(t) ==
  /\ pc[t] = "release_turn"
  /\ call[t].i < call[t].n
  /\ ~NothingReserved
  /\ call' = [call EXCEPT ![t].le = Popped(h, Reserved_list)]
  /\ h' = PopHead(h, Reserved_list)
  /\ Goto(t, "release_free")
  /\ UNCHANGED <<alive, zone, reserved_count, lk, held>>

ReleaseFree(t) ==
  /\ pc[t] = "release_free"
  /\ reserved_count' = reserved_count - 1
  /\ zone' = zone \cup {call[t].le}
  /\ h' = Clear(h, call[t].le)
  /\ call' = [call EXCEPT ![t].i = @ + 1, ![t].le = NULL]
  /\ Goto(t, "release_turn")
  /\ UNCHANGED <<alive, lk, held>>

\* Those released before the list was empty stay released.
ReleaseExit(t) ==
  /\ pc[t] = "release_turn"
  /\ \/ call[t].i = call[t].n /\ Return(t)
     \/ call[t].i < call[t].n /\ NothingReserved /\ Return(t)
  /\ Unlock
  /\ UNCHANGED <<alive, zone, h, reserved_count, held>>

-----------------------------------------------------------------------------
(* fusion_cache_prealloc, and fusion_cache_free of a preallocated object.  *)

Prealloc(t) ==
  /\ Begin(t, "prealloc", NoCall)
  /\ UNCHANGED <<alive, zone, h, reserved_count, lk, held>>

PreallocEnter(t) == Enter(t, "prealloc", "prealloc_pop")

PreallocPop(t) ==
  /\ pc[t] = "prealloc_pop"
  /\ ~NothingReserved
  /\ call' = [call EXCEPT ![t].le = Popped(h, Reserved_list)]
  /\ h' = PopHead(h, Reserved_list)
  /\ Goto(t, "prealloc_count")
  /\ UNCHANGED <<alive, zone, reserved_count, lk, held>>

PreallocCount(t) ==
  /\ pc[t] = "prealloc_count"
  /\ reserved_count' = reserved_count - 1
  /\ held' = [held EXCEPT ![t] = @ \cup {call[t].le}]
  /\ h' = Written(h, call[t].le)
  /\ Unlock
  /\ Return(t)
  /\ UNCHANGED <<alive, zone>>

PreallocNone(t) ==
  /\ pc[t] = "prealloc_pop"
  /\ NothingReserved
  /\ Unlock
  /\ Return(t)
  /\ UNCHANGED <<alive, zone, h, reserved_count, held>>

FreeReserved(t, o) ==
  /\ o \in held[t]
  /\ Begin(t, "free", [NoCall EXCEPT !.le = o])
  /\ held' = [held EXCEPT ![t] = @ \ {o}]
  /\ UNCHANGED <<alive, zone, h, reserved_count, lk>>

FreeEnter(t) == Enter(t, "free", "free_add")

FreeAdd(t) ==
  /\ pc[t] = "free_add"
  /\ h' = AddHead(h, call[t].le, Reserved_list)
  /\ Goto(t, "free_count")
  /\ UNCHANGED <<alive, zone, reserved_count, lk, held, call>>

FreeCount(t) ==
  /\ pc[t] = "free_count"
  /\ reserved_count' = reserved_count + 1
  /\ Unlock
  /\ Return(t)
  /\ UNCHANGED <<alive, zone, h, held>>

-----------------------------------------------------------------------------
\* fusion_cache_destroy, when no call is in progress and callers have given
\* everything back.  It takes no lock and leaves reserved_count as it is.
Destroy ==
  /\ alive
  /\ \A t \in Threads : pc[t] = "idle" /\ held[t] = {}
  /\ LET gone == OnList(h, Reserved_list, Bound)
         After[k \in 0 .. Len(gone)] ==
           IF k = 0 THEN h ELSE Clear(Del(After[k - 1], gone[k]), gone[k])
     IN  /\ zone' = zone \cup ToSet(gone)
         /\ h' = After[Len(gone)]
  /\ alive' = FALSE
  /\ UNCHANGED <<reserved_count, lk, held, pc, call>>

Turn(t) ==
  \/ ReserveTurn(t) \/ ReserveFails(t) \/ ErrorExitTurn(t)
  \/ ReserveEnter(t) \/ ReserveAdd(t) \/ ReserveCount(t)
  \/ ReleaseEnter(t) \/ ReleasePop(t) \/ ReleaseFree(t) \/ ReleaseExit(t)
  \/ PreallocEnter(t) \/ PreallocPop(t) \/ PreallocCount(t) \/ PreallocNone(t)
  \/ FreeEnter(t) \/ FreeAdd(t) \/ FreeCount(t)

Next ==
  \/ \E t \in Threads :
       \/ \E n \in 0 .. MaxCall : Reserve(t, n) \/ ReleaseN(t, n)
       \/ \E o \in Objects : Free(t, o) \/ FreeReserved(t, o)
       \/ Alloc(t) \/ Prealloc(t) \/ Turn(t)
  \/ Destroy

Spec == Init /\ [][Next]_cache_vars

-----------------------------------------------------------------------------
(* Properties.                                                             *)

TypeOK ==
  /\ alive \in BOOLEAN /\ zone \subseteq Objects
  /\ h \in [next : [Cells -> Cells \cup {NULL, Data}],
            prev : [Cells -> Cells \cup {NULL, Data}]]
  /\ reserved_count \in 0 .. Cardinality(Objects)
  /\ lk \in Threads \cup {NoThread}
  /\ held \in [Threads -> SUBSET Objects]
  /\ call \in [Threads -> [n : 0 .. MaxCall, i : 0 .. MaxCall,
                           le : Objects \cup {NULL}, next : Cells \cup {NULL}]]

\* Where the objects are that a call in progress has in its hands.
Local(t) ==
  CASE pc[t] \in {"reserve", "add_list"} -> On(Alloc_list(t))
    [] pc[t] = "error_exit" -> {call[t].le} \cup
         ToSet(From(h.next, call[t].next, Alloc_list(t), Bound))
    [] pc[t] \in {"release_free", "prealloc_count", "free", "free_add"} ->
         {call[t].le}
    [] OTHER -> {}

Place ==
  [k \in {"zone", "list", "held", "local"} \X (Threads \cup {NoThread}) |->
     CASE k = <<"zone", NoThread>> -> zone
       [] k = <<"list", NoThread>> -> On(Reserved_list)
       [] k[1] = "held" /\ k[2] \in Threads -> held[k[2]]
       [] k[1] = "local" /\ k[2] \in Threads -> Local(k[2])
       [] OTHER -> {}]

\* Every object is in one place and none is lost or had by two: not when a
\* reservation fails half way, nor when reservations, releases and frees of
\* several threads meet, and no caller's bytes are followed as a link.
EachInOnePlace ==
  /\ \A o \in Objects : Cardinality({k \in DOMAIN Place : o \in Place[k]}) = 1
  /\ Backwards(h, Reserved_list, Bound) = Reverse(OnList(h, Reserved_list, Bound))

\* Who takes the lock finds as many objects on the list as were counted.
CountIsLength ==
  lk = NoThread /\ alive => reserved_count = Cardinality(On(Reserved_list))

NothingLost == EachInOnePlace /\ CountIsLength
=============================================================================
