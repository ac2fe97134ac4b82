-------------------------- MODULE ListOperations --------------------------
(***************************************************************************)
(* The functions of fio/port/list.h on circular doubly linked lists.  The  *)
(* memory they work on is a record h of the functions next and prev; a     *)
(* list is an entry like those on it.  Each operator is the memory after   *)
(* a call, with the assignments in the order of the code.  The three       *)
(* helpers on sequences are written out: a community module would come     *)
(* into every proof once for each module of lists that is composed.        *)
(***************************************************************************)
EXTENDS Naturals, Sequences, FiniteSets

CONSTANT NULL

\* fusion_init_list and fusion_init_list_entry.
InitEntry(h, e) == [h EXCEPT !.next[e] = e, !.prev[e] = e]

ListAdd(h, e, p, n) ==
  [h EXCEPT !.prev[n] = e, !.next[e] = n, !.prev[e] = p, !.next[p] = e]

AddHead(h, e, l) == ListAdd(h, e, l, h.next[l])
AddTail(h, e, l) == ListAdd(h, e, h.prev[l], l)

\* __fusion_list_del: e's own links stay as they are.
Unlink(h, e) ==
  IF h.next[e] = NULL \/ h.prev[e] = NULL THEN h
  ELSE LET g == [h EXCEPT !.prev[h.next[e]] = h.prev[e]]
       IN  [g EXCEPT !.next[g.prev[e]] = g.next[e]]

\* Mutation: the entry keeps its links, as __fusion_list_del leaves them.
Del_KeepsLinks(h, e) == Unlink(h, e)

Del(h, e) == InitEntry(Unlink(h, e), e)

MoveHead(h, e, l) == AddHead(Unlink(h, e), e, l)
MoveTail(h, e, l) == AddTail(Unlink(h, e), e, l)

Empty(h, l) == h.next[l] = l
IsHead(h, e, l) == h.next[l] = e
IsTail(h, e, l) == h.prev[l] = e

\* Mutation: the entries do not learn of their new list.
AddList_OneWay(h, src, dst) ==
  IF Empty(h, src) THEN h
  ELSE LET new_head == h.next[src]
           old_head == h.next[dst]
           a == [h EXCEPT !.next[h.prev[src]] = old_head, !.next[dst] = new_head]
       IN  InitEntry([a EXCEPT !.prev[new_head] = dst], src)

\* fusion_list_add_list.
AddList(h, src, dst) ==
  IF Empty(h, src) THEN h
  ELSE LET new_head == h.next[src]
           old_head == h.next[dst]
           a == [h EXCEPT !.prev[old_head] = h.prev[src]]
           b == [a EXCEPT !.next[a.prev[src]] = old_head]
           c == [b EXCEPT !.prev[new_head] = dst, !.next[dst] = new_head]
       IN  [c EXCEPT !.prev[src] = src, !.next[src] = src]

PopHead(h, l) == IF Empty(h, l) THEN h ELSE Del(h, h.next[l])
Popped(h, l)  == IF Empty(h, l) THEN NULL ELSE h.next[l]

SpliceBetween(h, l, prv, nxt) ==
  LET first == h.next[l]
      last  == h.prev[l]
  IN  [h EXCEPT !.prev[first] = prv, !.next[prv] = first,
                !.next[last] = nxt, !.prev[nxt] = last]

Splice(h, l, head) ==
  IF Empty(h, l) THEN h
  ELSE InitEntry(SpliceBetween(h, l, head, h.next[head]), l)

SpliceTail(h, l, head) ==
  IF Empty(h, l) THEN h
  ELSE InitEntry(SpliceBetween(h, l, h.prev[head], head), l)

-----------------------------------------------------------------------------
(* What the links say.                                                     *)

Last(s)    == s[Len(s)]
ToSet(s)   == {s[i] : i \in DOMAIN s}
Reverse(s) == [i \in 1 .. Len(s) |-> s[Len(s) - i + 1]]

\* The entries met from e on, following f until l, or a first few of them.
From(f, e, l, bound) ==
  LET Met[k \in 0 .. bound] ==
        IF k = 0 THEN <<>>
        ELSE LET s == Met[k - 1]
                 x == IF s = <<>> THEN e ELSE f[Last(s)]
             IN  IF x = l \/ x = NULL THEN s ELSE Append(s, x)
  IN  Met[bound]

OnList(h, l, bound)   == From(h.next, h.next[l], l, bound)
Backwards(h, l, bound) == From(h.prev, h.prev[l], l, bound)
=============================================================================
