----------------------------- MODULE WordState -----------------------------
(* A word of memory and the calls threads have in progress on it, and what *)
(* the calls promise.                                                      *)
EXTENDS WordOperations

CONSTANTS
  Threads,
  Ops           \* the calls threads make, [kind : Kinds, val : Word]

VARIABLES
  word,         \* *p
  pc, op,
  old,          \* the loop's local
  answer        \* what the last call returned

\* A loop is as good as an instruction: whatever other threads do between its
\* load and its store, even change the word and change it back, it acts on the
\* word at once and returns what it found or made there.
Cell == INSTANCE WordCell WITH busy <- [t \in Threads |-> pc[t] # "idle"]

ImplementsCell == Cell!Spec
=============================================================================
