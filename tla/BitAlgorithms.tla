--------------------------- MODULE BitAlgorithms ---------------------------
(***************************************************************************)
(* The bit counts and searches of fio/port/bitops.h, the byte order of     *)
(* fio/port/byteswap.h with the bit fields laid over it, and the card's    *)
(* registers (kcsr.c), each against what it is for.  The counts of 32 and  *)
(* 64 bits are one method with masks of their width; here it has 16.  A    *)
(* byte is a value that moves as a whole, and a word is its bytes, the     *)
(* lowest first, but where bits are looked at: there a word is a number of *)
(* two bytes of FieldByte bits.                                            *)
(***************************************************************************)
EXTENDS Integers, FiniteSets, FiniteSetsExt, SequencesExt

CONSTANTS
  HighBytes,    \* the high bytes of the words counted
  FieldByte     \* bits of a byte with fields in it

VARIABLE val        \* a 16-bit word, -1 before one is chosen

Init == val = -1

Choose ==
  /\ val = -1
  /\ \E high \in HighBytes, low \in 0 .. 255 : val' = 256 * high + low

Spec == Init /\ [][Choose]_val

Bit(w, i) == (w \div 2 ^ i) % 2
Ones(w, width) == {i \in 0 .. width - 1 : Bit(w, i) = 1}

\* The word with the bits of S.
Word(S) == MapThenSumSet(LAMBDA i : 2 ^ i, S)

a & b == Word(Ones(a, 16) \cap Ones(b, 16))
a | b == Word(Ones(a, 16) \cup Ones(b, 16))
shiftR(w, n) == w \div 2 ^ n

-----------------------------------------------------------------------------
(* bitops.h.                                                               *)

\* The counts in the halves of each four bits.
Pairs(w, odd, pair) ==
  LET v == w - (shiftR(w, 1) & odd)
  IN  (v & pair) + (shiftR(v, 2) & pair)

fio_bitcount8(w) ==
  LET v == Pairs(w, 85, 51) IN (v + shiftR(v, 4)) & 15

\* Mutation: a carry of the high half's count is cut off.
fio_bitcount16_Narrow(w) ==
  LET v == Pairs(w, 21845, 13107)
  IN  shiftR((((v + shiftR(v, 4)) & 1799) * 257) % 65536, 8)

\* fio_bitcount32 and fio_bitcount64, at 16 bits.
fio_bitcount16(w) ==
  LET v == Pairs(w, 21845, 13107)
  IN  shiftR((((v + shiftR(v, 4)) & 3855) * 257) % 65536, 8)

\* The loop leaves index at the bit where found reaches n.
fio_get_nth_bit_set_index(w, n, width) ==
  LET Turn(s, index) ==
        IF s.found = n \/ Bit(w, index) = 0
          THEN IF s.found = n THEN s ELSE [s EXCEPT !.index = index + 1]
          ELSE [found |-> s.found + 1,
                index |-> IF s.found + 1 = n THEN index ELSE index + 1]
  IN  FoldLeft(Turn, [found |-> 0, index |-> 0], [i \in 1 .. width |-> i - 1]).index

fio_get_top_bit_set_index(w, width) ==
  LET Turn(index, unused) ==
        IF index >= 0 /\ Bit(w, index) = 0 THEN index - 1 ELSE index
  IN  FoldLeft(Turn, width - 1, [i \in 1 .. width |-> i])

CountsAgree(w) ==
  /\ fio_bitcount8(w % 256) = Cardinality(Ones(w % 256, 8))
  /\ fio_bitcount16(w) = Cardinality(Ones(w, 16))

SearchesAgree(w) ==
  LET ones == Ones(w, 16)
      Below(i) == Cardinality({j \in ones : j < i})
  IN  /\ \A n \in 1 .. 16 :
           LET i == fio_get_nth_bit_set_index(w, n, 16)
           IN  IF n > Cardinality(ones) THEN i = 16 ELSE i \in ones /\ Below(i) = n - 1
      /\ LET i == fio_get_top_bit_set_index(w, 16)
         IN  IF ones = {} THEN i = -1 ELSE i \in ones /\ \A j \in ones : j <= i

-----------------------------------------------------------------------------
(* byteswap.h: shifts by whole bytes, and masks of whole bytes.            *)

Zero == 0
Up(w, k)   == [i \in DOMAIN w |-> IF i > k THEN w[i - k] ELSE Zero]
Down(w, k) == [i \in DOMAIN w |-> IF i + k \in DOMAIN w THEN w[i + k] ELSE Zero]
Masked(w, S) == [i \in DOMAIN w |-> IF i \in S THEN w[i] ELSE Zero]
Either(a, b) == [i \in DOMAIN a |-> IF a[i] = Zero THEN b[i] ELSE a[i]]

\* Runs of k bytes change places with their neighbours.
Exchange(w, k) ==
  LET high == {i \in DOMAIN w : ((i - 1) \div k) % 2 = 1}
  IN  Either(Masked(Up(w, k), high), Masked(Down(w, k), DOMAIN w \ high))

fusion_bswap64(w) == Exchange(Exchange(Exchange(w, 1), 2), 4)
fusion_bswap32(w) == LET v == Exchange(w, 1) IN Either(Up(v, 2), Down(v, 2))
fusion_bswap16(w) == Either(Up(w, 1), Down(w, 1))

\* n bytes that are all different.
Bytes(n) == [i \in 1 .. n |-> i]

SwapsAgree ==
  /\ fusion_bswap64(Bytes(8)) = Reverse(Bytes(8))
  /\ fusion_bswap32(Bytes(4)) = Reverse(Bytes(4))
  /\ fusion_bswap16(Bytes(2)) = Reverse(Bytes(2))

\* host_to_fusion_card and fusion_card_to_host, on a host of either order.
CardOrder(w, big) == IF big THEN fusion_bswap32(w) ELSE w

\* What a store of w puts in memory, by address, and a load gets from there.
Stored(w, big) == IF big THEN Reverse(w) ELSE w

kfio_csr_write(w, big) == Stored(CardOrder(w, big), big)
kfio_csr_read_direct(m, big) == CardOrder(Stored(m, big), big)

RegistersAgree ==
  \A big \in BOOLEAN :
    /\ kfio_csr_write(Bytes(4), big) = Bytes(4)
    /\ kfio_csr_read_direct(Bytes(4), big) = Bytes(4)

-----------------------------------------------------------------------------
(* The fields of a word in the card's order.                               *)

ByteSize == 2 ^ FieldByte
CardWord(w, big) ==
  IF big THEN (w % ByteSize) * ByteSize + w \div ByteSize ELSE w

NMASK(n) == 2 ^ n - 1

\* ~m, of 64 bits in the code.
Complement(m) == 2 ^ (2 * FieldByte) - 1 - m

\* MD_SETTER_BF and MD_GETTER_BF on the field p.  That v is below 1ULL << len is
\* the caller's duty: the macro asserts it of bits, the width of the whole
\* field.  A len of all 64 bits, whose shift C leaves undefined, is a full mask.
WithField(p, v, off, len, big) ==
  LET w == CardWord(p, big)
  IN  CardWord((w & Complement(NMASK(len) * 2 ^ off)) | (v * 2 ^ off), big)

FieldOf(p, off, len, big) == shiftR(CardWord(p, big), off) & NMASK(len)

FieldsAgree(p) ==
  \A big \in BOOLEAN, off \in 0 .. 2 * FieldByte - 1 :
    \A len \in 1 .. 2 * FieldByte - off : \A v \in {0, 1, NMASK(len)} :
      LET q == WithField(p, v, off, len, big)
          a == CardWord(p, big)
          b == CardWord(q, big)
      IN  /\ FieldOf(q, off, len, big) = v
          /\ \A i \in 0 .. 2 * FieldByte - 1 :
               i < off \/ i >= off + len => Bit(a, i) = Bit(b, i)

-----------------------------------------------------------------------------

\* Counts count and searches find; a card's register or word is the same bytes
\* from hosts of either order, and setting a field sets that field alone.
BitsAgree ==
  val # -1 =>
    /\ CountsAgree(val)
    /\ val < 256 => SearchesAgree(val) /\ FieldsAgree(val % ByteSize ^ 2)
    /\ val = 0 => SwapsAgree /\ RegistersAgree
=============================================================================
