---------------------------- MODULE AtomicList ----------------------------
(***************************************************************************)
(* The lock-free list of fio/port/atomic_list.h: threads add entries by    *)
(* compare and exchange, take the whole list by exchange, and run over     *)
(* what they took with fusion_atomic_list_for_each, whose body may add the *)
(* entry it is at again.  A variable of a call that has returned, and the  *)
(* head of a list that has been run over, are not read again and stand at  *)
(* NULL.                                                                   *)
(***************************************************************************)
EXTENDS Naturals, Sequences, FiniteSets

CONSTANTS Threads, Entries, NULL

VARIABLES
  head,       \* head->next of the shared list
  next,       \* the next of every entry
  mine,       \* the entries a thread may add
  pc,
  entry, cur, \* the parameter and the local of a call to add
  taken,      \* the next of the list a thread took the shared list into
  pos, n      \* the variables of its loop, NULL outside of one

list_vars == <<head, next, mine, pc, entry, cur, taken, pos, n>>

Link == Entries \cup {NULL}

\* fusion_atomic_list_init.  What is in memory that nobody set may be anything;
\* the code reads none.
NothingAdded ==
  /\ head = NULL
  /\ next = [e \in Entries |-> NULL]
  /\ pc = [t \in Threads |-> "idle"]
  /\ entry = [t \in Threads |-> NULL] /\ cur = [t \in Threads |-> NULL]
  /\ taken = [t \in Threads |-> NULL]
  /\ pos = [t \in Threads |-> NULL] /\ n = [t \in Threads |-> NULL]

Init ==
  /\ NothingAdded
  /\ \E owner \in [Entries -> Threads] :
       mine = [t \in Threads |-> {e \in Entries : owner[e] = t}]

-----------------------------------------------------------------------------
(* fusion_atomic_list_add.                                                 *)

Add(t, e) ==
  /\ pc[t] = "idle"
  /\ e \in mine[t]
  /\ entry' = [entry EXCEPT ![t] = e]
  /\ mine' = [mine EXCEPT ![t] = @ \ {e}]
  /\ pc' = [pc EXCEPT ![t] = "link"]
  /\ UNCHANGED <<head, next, cur, taken, pos, n>>

AddLink(t) ==
  /\ pc[t] = "link"
  /\ cur' = [cur EXCEPT ![t] = head]
  /\ next' = [next EXCEPT ![entry[t]] = head]
  /\ pc' = [pc EXCEPT ![t] = "swap"]
  /\ UNCHANGED <<head, mine, entry, taken, pos, n>>

\* Mutation: the list's head is stored to, whatever was added meanwhile.
StillFirst_Always(t) == TRUE

\* What kfio_cmpxchg returns is cur.
StillFirst(t) == head = cur[t]

AddSwap(t) ==
  /\ pc[t] = "swap"
  /\ IF StillFirst(t)
       THEN /\ head' = entry[t]
            /\ entry' = [entry EXCEPT ![t] = NULL]
            /\ pc' = [pc EXCEPT ![t] = "idle"]
       ELSE /\ pc' = [pc EXCEPT ![t] = "link"]
            /\ UNCHANGED <<head, entry>>
  /\ cur' = [cur EXCEPT ![t] = NULL]
  /\ UNCHANGED <<next, mine, taken, pos, n>>

-----------------------------------------------------------------------------
(* fusion_atomic_list_splice into a list of the thread's own, whose entries *)
(* it has done with: the call forgets what is there.                       *)

Splice(t) ==
  /\ pc[t] = "idle"
  /\ pos[t] = NULL
  /\ taken' = [taken EXCEPT ![t] = head]
  /\ head' = NULL
  /\ pc' = [pc EXCEPT ![t] = "taken"]
  /\ UNCHANGED <<next, mine, entry, cur, pos, n>>

After(e) == IF e = NULL THEN NULL ELSE next[e]

\* The loop comes to e, and its body has it.
ComeTo(t, e) ==
  /\ pos' = [pos EXCEPT ![t] = e]
  /\ n' = [n EXCEPT ![t] = After(e)]
  /\ mine' = [mine EXCEPT ![t] = @ \cup ({e} \ {NULL})]
  /\ UNCHANGED <<head, next, entry, cur>>

LoopBegins(t) ==
  /\ pc[t] = "taken"
  /\ ComeTo(t, taken[t])
  /\ taken' = [taken EXCEPT ![t] = NULL]
  /\ pc' = [pc EXCEPT ![t] = "idle"]

\* Mutation: where to go on is read after the body has run.
GoesOnAt_Late(t) == next[pos[t]]

GoesOnAt(t) == n[t]

LoopGoesOn(t) ==
  /\ pc[t] = "idle"
  /\ pos[t] # NULL
  /\ ComeTo(t, GoesOnAt(t))
  /\ UNCHANGED <<pc, taken>>

Next == \E t \in Threads :
  \/ \E e \in Entries : Add(t, e)
  \/ AddLink(t) \/ AddSwap(t)
  \/ Splice(t) \/ LoopBegins(t) \/ LoopGoesOn(t)

Spec == Init /\ [][Next]_list_vars

-----------------------------------------------------------------------------
(* Properties.                                                             *)

TypeOK ==
  /\ head \in Link /\ next \in [Entries -> Link]
  /\ mine \in [Threads -> SUBSET Entries]
  /\ pc \in [Threads -> {"idle", "link", "swap", "taken"}]
  /\ entry \in [Threads -> Link] /\ cur \in [Threads -> Link]
  /\ taken \in [Threads -> Link]
  /\ pos \in [Threads -> Link] /\ n \in [Threads -> Link]

Links == INSTANCE ListOperations

\* The entries from e on, for as long as there can be new ones.
Chain(e) == Links!From(next, e, NULL, Cardinality(Entries) + 1)

\* Adding, taking and running over a list are linearizable: whatever adds,
\* takes and adds again of the same entries come between, no entry is lost,
\* met twice, met by two threads or out of turn.
Stack == INSTANCE TakeAllStack WITH
  stack <- Chain(head),
  batch <- [t \in Threads |-> Chain(IF pc[t] = "taken" THEN taken[t] ELSE n[t])]

ImplementsStack == Stack!Spec
=============================================================================
