--------------------------- MODULE SequenceLists ---------------------------
(* What the lists of fio/port/list.h promise: each is a sequence, a call   *)
(* changes one or two of them, and a loop meets what was on its list when  *)
(* it began.                                                               *)
EXTENDS Naturals, Sequences

CONSTANTS Lists, Entries, NULL

VARIABLES
  content,    \* the sequence each list is
  ret,        \* the entry the last fusion_list_pop_head gave
  rest        \* what a loop in progress has yet to meet

vars == <<content, ret, rest>>

Init ==
  /\ content = [l \in Lists |-> <<>>]
  /\ ret = NULL
  /\ rest = <<>>

\* A sequence that no entry is twice in, without e.
Drop(s, e) ==
  IF \E i \in DOMAIN s : s[i] = e
    THEN LET i == CHOOSE j \in DOMAIN s : s[j] = e
         IN  SubSeq(s, 1, i - 1) \o SubSeq(s, i + 1, Len(s))
    ELSE s

\* What can become of lists c by one call.
TakeOff(c, e)    == [l \in Lists |-> Drop(c[l], e)]
PutHead(c, e, l) == [TakeOff(c, e) EXCEPT ![l] = <<e>> \o @]
PutTail(c, e, l) == [TakeOff(c, e) EXCEPT ![l] = Append(@, e)]
PrependAll(c, src, dst) == [c EXCEPT ![src] = <<>>, ![dst] = c[src] \o @]
AppendAll(c, src, dst)  == [c EXCEPT ![src] = <<>>, ![dst] = @ \o c[src]]

Results(c) ==
  {TakeOff(c, e) : e \in Entries} \cup
  {PutHead(c, e, l) : e \in Entries, l \in Lists} \cup
  {PutTail(c, e, l) : e \in Entries, l \in Lists} \cup
  {PrependAll(c, src, dst) : src \in Lists, dst \in Lists} \cup
  {AppendAll(c, src, dst) : src \in Lists, dst \in Lists}

Change ==
  /\ UNCHANGED <<ret, rest>>
  /\ content' \in Results(content)

Pop(l) ==
  /\ rest' = rest
  /\ content[l] # <<>>
  /\ ret' = Head(content[l])
  /\ content' = [content EXCEPT ![l] = Tail(@)]

PopNone(l) ==
  /\ rest' = rest
  /\ content[l] = <<>>
  /\ ret' = NULL
  /\ content' = content

LoopBegins(l) ==
  /\ rest = <<>>
  /\ content[l] # <<>>
  /\ rest' = Tail(content[l])
  /\ UNCHANGED <<content, ret>>

LoopGoesOn ==
  /\ rest # <<>>
  /\ rest' = Tail(rest)
  /\ UNCHANGED <<content, ret>>

Next == Change \/ LoopGoesOn
        \/ \E l \in Lists : Pop(l) \/ PopNone(l) \/ LoopBegins(l)

Spec == Init /\ [][Next]_vars
=============================================================================
