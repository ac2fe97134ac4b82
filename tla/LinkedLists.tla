---------------------------- MODULE LinkedLists ----------------------------
(***************************************************************************)
(* Entries and lists of fio/port/list.h under any sequence of calls its    *)
(* comments allow: an entry is added when it is on no list, deleted or     *)
(* moved when it was initialised, spliced lists differ; the body of a loop *)
(* changes the list only under fusion_list_for_each_safe, and only where   *)
(* the entry it is at is.  Callers hold whatever lock protects the lists.  *)
(***************************************************************************)
EXTENDS ListOperations

CONSTANTS Lists, Entries

VARIABLES
  h,          \* the links of lists and entries
  linkage,    \* what is known of an entry: "raw" is uninitialised memory
  ret,        \* what the last fusion_list_pop_head gave
  loop        \* the variables of a loop: its list, entry, next and kind

list_vars == <<h, linkage, ret, loop>>

Cells == Lists \cup Entries
Bound == Cardinality(Entries) + 1
NoLoop == [on |-> FALSE]

Content(l) == OnList(h, l, Bound)
On(l) == ToSet(Content(l))

Init ==
  /\ h = [next |-> [x \in Cells |-> IF x \in Lists THEN x ELSE NULL],
          prev |-> [x \in Cells |-> IF x \in Lists THEN x ELSE NULL]]
  /\ linkage = [e \in Entries |-> "raw"]
  /\ ret = NULL
  /\ loop = NoLoop

\* The call is made outside of a loop, or by its body on the entry it is at.
MayTouch(e) == loop.on => loop.safe /\ loop.entry = e

\* The call leaves the memory as g and e known to be k.
Becomes(g, e, k) ==
  /\ h' = g
  /\ linkage' = [linkage EXCEPT ![e] = k]
  /\ UNCHANGED <<ret, loop>>

Initialise(e) ==
  /\ linkage[e] = "raw" /\ ~loop.on
  /\ Becomes(InitEntry(h, e), e, "alone")

Add(e, l) ==
  /\ linkage[e] # "in" /\ ~loop.on
  /\ Becomes(AddHead(h, e, l), e, "in") \/ Becomes(AddTail(h, e, l), e, "in")

Delete(e) ==
  /\ linkage[e] # "raw" /\ MayTouch(e)
  /\ Becomes(Del(h, e), e, "alone") \/ Becomes(Unlink(h, e), e, "raw")

Move(e, l) ==
  /\ linkage[e] # "raw" /\ MayTouch(e)
  /\ \/ Becomes(MoveHead(h, e, l), e, "in")
     \/ ~(loop.on /\ loop.list = l) /\ Becomes(MoveTail(h, e, l), e, "in")

MoveAll(src, dst) ==
  /\ src # dst /\ ~loop.on
  /\ h' \in {AddList(h, src, dst), Splice(h, src, dst), SpliceTail(h, src, dst)}
  /\ UNCHANGED <<linkage, ret, loop>>

Pop(l) ==
  /\ ~loop.on
  /\ h' = PopHead(h, l)
  /\ ret' = Popped(h, l)
  /\ linkage' = [e \in Entries |-> IF e = ret' THEN "alone" ELSE linkage[e]]
  /\ UNCHANGED loop

-----------------------------------------------------------------------------
(* The loops.                                                              *)

LoopBegins(l, safe) ==
  /\ ~loop.on
  /\ h.next[l] # l
  /\ loop' = [on |-> TRUE, list |-> l, safe |-> safe,
              entry |-> h.next[l], next_entry |-> h.next[h.next[l]]]
  /\ UNCHANGED <<h, linkage, ret>>

\* Mutation: the safe loop, too, follows the entry it is at.
Following_Entry == h.next[loop.entry]

Following == IF loop.safe THEN loop.next_entry ELSE h.next[loop.entry]

LoopGoesOn ==
  /\ loop.on
  /\ loop' = IF Following = loop.list THEN NoLoop
             ELSE [loop EXCEPT !.entry = Following,
                               !.next_entry = h.next[Following]]
  /\ UNCHANGED <<h, linkage, ret>>

Next ==
  \/ \E e \in Entries : Initialise(e) \/ Delete(e)
  \/ \E e \in Entries, l \in Lists : Add(e, l) \/ Move(e, l)
  \/ \E src, dst \in Lists : MoveAll(src, dst)
  \/ \E l \in Lists : Pop(l) \/ \E safe \in BOOLEAN : LoopBegins(l, safe)
  \/ LoopGoesOn

Spec == Init /\ [][Next]_list_vars

-----------------------------------------------------------------------------
(* Properties.                                                             *)

TypeOK ==
  /\ h \in [next : [Cells -> Cells \cup {NULL}], prev : [Cells -> Cells \cup {NULL}]]
  /\ linkage \in [Entries -> {"raw", "alone", "in"}]
  /\ ret \in Entries \cup {NULL}
  /\ loop.on => /\ loop.list \in Lists /\ loop.safe \in BOOLEAN
                /\ loop.entry \in Entries /\ loop.next_entry \in Cells

\* Both ways round every list meet the same entries, each entry that is on a
\* list is on one, and the tests of the ends and of emptiness tell the truth,
\* of an entry on no list too.
LinksAgree ==
  /\ \A l \in Lists :
       /\ Backwards(h, l, Bound) = Reverse(Content(l))
       /\ Empty(h, l) <=> On(l) = {}
       /\ \A e \in Entries :
            /\ IsHead(h, e, l) <=> On(l) # {} /\ Head(Content(l)) = e
            /\ IsTail(h, e, l) <=> On(l) # {} /\ Last(Content(l)) = e
  /\ \A e \in Entries :
       /\ linkage[e] = "in" <=> \E l \in Lists : e \in On(l)
       /\ linkage[e] = "alone" => Empty(h, e)

\* What a loop in progress has yet to meet.
Rest ==
  IF ~loop.on THEN <<>>
  ELSE From(h.next, Following, loop.list, Bound)

\* A list under these calls is a sequence under theirs, and a loop meets what
\* was on its list, though its body takes away the entry it is at.
Promise == INSTANCE SequenceLists WITH
  content <- [l \in Lists |-> Content(l)], rest <- Rest

ImplementsSequences == Promise!Spec
=============================================================================
