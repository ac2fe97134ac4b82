---------------------------- MODULE MCFioState ----------------------------
(* Instances of FioState for TLC.                                          *)
EXTENDS FioState, TLC

O(k, v, from, arcs) ==
  [kind |-> k, to |-> v, from |-> from, arcs |-> arcs, handler |-> FALSE]

Table == << [from |-> {1}, to |-> 0, num |-> 7],
            [from |-> {0, 1}, to |-> Same, num |-> 8] >>

SomeOps == {O("set", 1, {}, <<>>), O("move", 2, {}, <<>>),
            O("move", 1, {0}, <<>>), O("up", 0, {}, <<>>),
            O("down", 0, {}, <<>>), O("in", 0, {1}, <<>>),
            O("peek", 0, {1}, <<>>), O("not_in", 0, {1, 2}, <<>>),
            O("wait", 0, {0, 2}, <<>>), O("arc", 0, {}, Table),
            [O("arc", 0, {}, Table) EXCEPT !.handler = TRUE]}

SomeNumbers == {NotFound, 7, 8}

\* The handler turns arc 7 into 0, and arc 8 into itself or an error; no arc it
\* makes good.
SomeResults == 7 :> {0} @@ 8 :> {8, -5} @@ NotFound :> {1}
=============================================================================
