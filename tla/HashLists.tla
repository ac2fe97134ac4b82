---------------------------- MODULE HashLists ----------------------------
(***************************************************************************)
(* The fusion_hlist_t of fio/port/list.h: singly linked, each node knowing *)
(* the field that points to it, so that it can be deleted without its      *)
(* list.  A field is named by the list whose first, or the node whose next *)
(* it is.  A node is added when it is on no list and deleted when it is on *)
(* one; the body of a safe loop may delete the node it is at.              *)
(***************************************************************************)
EXTENDS ListOperations

CONSTANTS Lists, Entries, Poison

VARIABLES
  field,      \* what each first and each next holds
  pprev,      \* the field each node's pprev is the address of
  loop        \* the variables of a loop: its node, next and kind

hash_vars == <<field, pprev, loop>>

NoLoop == [on |-> FALSE]
Bound == Cardinality(Entries) + 1

\* fusion_init_hlist, fusion_init_hlist_entry.
Init ==
  /\ field = [x \in Lists \cup Entries |-> NULL]
  /\ pprev = [e \in Entries |-> NULL]
  /\ loop = NoLoop

IsOff(e) == pprev[e] \in {NULL, Poison}

\* Mutation: the node that was first does not learn what points to it now.
NewFirst_Untold(node, first) == pprev

NewFirst(node, first) ==
  IF first = NULL THEN pprev ELSE [pprev EXCEPT ![first] = node]

AddFirst(node, head) ==
  /\ IsOff(node) /\ ~loop.on
  /\ LET first == field[head]
     IN  /\ field' = [field EXCEPT ![node] = first, ![head] = node]
         /\ pprev' = [NewFirst(node, first) EXCEPT ![node] = head]
  /\ UNCHANGED loop

Delete(node) ==
  /\ ~IsOff(node)
  /\ loop.on => loop.safe /\ loop.node = node
  /\ LET next == field[node]
         told == IF next = NULL THEN pprev
                 ELSE [pprev EXCEPT ![next] = pprev[node]]
     IN  /\ field' = [field EXCEPT ![pprev[node]] = next, ![node] = Poison]
         /\ pprev' = [told EXCEPT ![node] = Poison]
  /\ UNCHANGED loop

LoopBegins(head, safe) ==
  /\ ~loop.on
  /\ field[head] # NULL
  /\ loop' = [on |-> TRUE, safe |-> safe, node |-> field[head],
              next |-> field[field[head]]]
  /\ UNCHANGED <<field, pprev>>

Following == IF loop.safe THEN loop.next ELSE field[loop.node]

LoopGoesOn ==
  /\ loop.on
  /\ loop' = IF Following = NULL THEN NoLoop
             ELSE [loop EXCEPT !.node = Following, !.next = field[Following]]
  /\ UNCHANGED <<field, pprev>>

Next ==
  \/ \E e \in Entries : Delete(e) \/ \E l \in Lists : AddFirst(e, l)
  \/ \E l \in Lists, safe \in BOOLEAN : LoopBegins(l, safe)
  \/ LoopGoesOn

Spec == Init /\ [][Next]_hash_vars

-----------------------------------------------------------------------------
(* Properties.                                                             *)

TypeOK ==
  /\ field \in [Lists \cup Entries -> Entries \cup {NULL, Poison}]
  /\ pprev \in [Entries -> Lists \cup Entries \cup {NULL, Poison}]
  /\ loop.on => /\ loop.node \in Entries /\ loop.safe \in BOOLEAN
                /\ loop.next \in Entries \cup {NULL}

\* Deleting a node wherever it is takes it, and no other, off its list; the
\* poison it is left with is met by no walk and no loop.
Promise == INSTANCE SequenceLists WITH
  ret <- NULL,
  content <- [l \in Lists |-> From(field, field[l], NULL, Bound)],
  rest <- IF ~loop.on THEN <<>> ELSE From(field, Following, NULL, Bound)

ImplementsSequences == Promise!Spec
=============================================================================
