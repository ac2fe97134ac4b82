-------------------------- MODULE WordOperations --------------------------
(***************************************************************************)
(* What the calls of fio/port/arch/ on a word shared by threads promise:   *)
(* the word after a call, as a function of the word before it, and what    *)
(* the call returns.  A word counts modulo 2^Width; that callers see it as *)
(* signed is left out.  Subtracting, incrementing and decrementing are     *)
(* additions modulo 2^Width.                                               *)
(***************************************************************************)
EXTENDS Integers

CONSTANT Width          \* bits of a word, 32 in the code

PowerOf2[n \in Nat] == IF n = 0 THEN 1 ELSE 2 * PowerOf2[n - 1]

WordSize == PowerOf2[Width]
Word == 0 .. WordSize - 1
BitNumbers == 0 .. Width - 1

Bit(w, v) == (w \div PowerOf2[v]) % 2

WithBit(w, v)    == IF Bit(w, v) = 1 THEN w ELSE w + PowerOf2[v]
WithoutBit(w, v) == IF Bit(w, v) = 1 THEN w - PowerOf2[v] ELSE w

Kinds == {"set", "read", "add", "add_return", "exchange",
          "test_bit", "set_bit", "clear_bit", "test_and_set", "test_and_clear"}

\* Mutation: a sum is kept in more bits than the word has.
NewValue_Wide(o, w) ==
  IF o.kind \in {"add", "add_return"} THEN w + o.val ELSE w

NewValue(o, w) ==
  CASE o.kind \in {"set", "exchange"}              -> o.val
    [] o.kind \in {"add", "add_return"}            -> (w + o.val) % WordSize
    [] o.kind \in {"set_bit", "test_and_set"}      -> WithBit(w, o.val)
    [] o.kind \in {"clear_bit", "test_and_clear"}  -> WithoutBit(w, o.val)
    [] OTHER                                       -> w

\* 0 stands for void.
Answer(o, w) ==
  CASE o.kind \in {"read", "exchange"} -> w
    [] o.kind = "add_return"           -> NewValue(o, w)
    [] o.kind \in {"test_bit", "test_and_set", "test_and_clear"} -> Bit(w, o.val)
    [] OTHER                           -> 0
=============================================================================
