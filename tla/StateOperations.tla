-------------------------- MODULE StateOperations --------------------------
(***************************************************************************)
(* The operations of a state variable (src/driver/include/fio/port/state.h *)
(* and src/driver/state.c): what a thread may call, and the arc tables     *)
(* fio_state_transition works from.                                        *)
(***************************************************************************)
EXTENDS Integers, Sequences

CONSTANTS
  Threads,
  Ops,       \* the operations threads may call
  Top,       \* the largest value of a uint32_t
  Width,     \* the bits of states_from_mask
  Numbers,   \* the numbers of arcs, and NotFound
  Handled    \* what the handler may make of each

States == 0 .. Top
Same == -1      \* FIO_STATE_SAME
NotFound == -1  \* STATE_ARC_NOTFOUND

Kinds == {"set", "move", "up", "down", "in", "arc", "wait", "peek", "not_in"}
Arc == [from : SUBSET States, to : States \cup {Same}, num : Numbers]

\* handler: an arc_action was given; it is optional.
Operation == [kind : Kinds, to : States, from : SUBSET States, arcs : Seq(Arc),
              handler : BOOLEAN]

\* What an operation returns, and what it has written to *old_state, if it was
\* given one.
Answers == [value : Int, old_state : SUBSET States]

Value(a) == [value |-> a, old_state |-> {}]

ASSUME CellAssumption ==
  /\ Top \in Nat /\ Width \in Nat \ {0}
  /\ Ops \subseteq Operation
  /\ Numbers \subseteq Int /\ NotFound \in Numbers
  /\ Handled \in [Numbers -> SUBSET Int]

\* s + 1 and s - 1 in a uint32_t.
Up(s) == IF s = Top THEN 0 ELSE s + 1
Down(s) == IF s = 0 THEN Top ELSE s - 1

Flag(b) == IF b THEN 1 ELSE 0

\* The arcs that may be taken from s.  A shift by Width or more is undefined,
\* so that the mask may match any arc, or none.
Taken(arcs, s) ==
  LET fits == {i \in DOMAIN arcs : s \in arcs[i].from}
  IN IF s >= Width THEN 0 .. Len(arcs)
     ELSE IF fits = {} THEN {0}
     ELSE {i \in fits : \A j \in fits : i <= j}

\* Where arc i leads from s, and its number; 0 is no arc.
Target(arcs, i, s) == IF i = 0 THEN s
                      ELSE IF arcs[i].to = Same THEN s ELSE arcs[i].to
Number(arcs, i) == IF i = 0 THEN NotFound ELSE arcs[i].num
=============================================================================
