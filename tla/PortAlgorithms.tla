-------------------------- MODULE PortAlgorithms --------------------------
(***************************************************************************)
(* Small algorithms of the porting layer, each against what it is for:     *)
(* numbers and strings, the slot of a card in the BIOS's routing table,    *)
(* registers of configuration space, numbers for users (kfio.c), messages  *)
(* of error numbers (errno.c), and comparisons of times that wrap          *)
(* (ktime.h).  A string is the sequence of its characters, digits standing *)
(* for themselves, without the zero that ends it.                          *)
(***************************************************************************)
EXTENDS Integers, FiniteSets, SequencesExt

CONSTANTS
  Letter,       \* a character that is no digit, a number above 9
  MaxString,    \* bound on the length of strings
  Devices,      \* buses and device numbers of cards
  TimeWidth,    \* bits of a time, 64 in the code
  ByteBase      \* values of a byte, 256 in the code

VARIABLE input      \* what an algorithm is given, "none" before it is chosen

Strings == UNION {[1 .. n -> {0, 1, 9, Letter}] : n \in 0 .. MaxString}

-----------------------------------------------------------------------------
(* kfio_stoi and kfio_strncat.                                             *)

kfio_stoi(p) ==
  LET Turn(s, c) ==
        IF s.stop \/ c > 9 THEN [s EXCEPT !.stop = TRUE]
        ELSE [s EXCEPT !.n = @ * 10 + c, !.nchar = @ + 1]
  IN  FoldLeft(Turn, [n |-> 0, nchar |-> 0, stop |-> FALSE], p)

StoiAgrees(p) ==
  LET r == kfio_stoi(p)
      Digits(k) == \A i \in 1 .. k : p[i] <= 9
  IN  /\ Digits(r.nchar)
      /\ r.nchar < Len(p) => ~Digits(r.nchar + 1)
      /\ r.n = FoldLeft(LAMBDA a, i : a + p[i] * 10 ^ (r.nchar - i), 0,
                        [i \in 1 .. r.nchar |-> i])

\* The loop copies until it meets the zero or has counted size down to 0.
kfio_strncat(dst, src, size) ==
  LET Turn(s, c) ==
        IF s.size = 0 THEN s
        ELSE [d |-> Append(s.d, c), size |-> s.size - 1]
  IN  IF size = 0 THEN dst
      ELSE FoldLeft(Turn, [d |-> dst, size |-> size], src).d

StrncatAgrees(dst, src, size) ==
  LET n == IF size < 0 \/ size > Len(src) THEN Len(src) ELSE size
  IN  kfio_strncat(dst, src, size) = dst \o SubSeq(src, 1, n)

-----------------------------------------------------------------------------
(* kfio_pci_get_slot.  A BIOS has, under either signature, a table or NoTable; *)
(* the table has as many entries as memory goes on.                        *)

NoTable == [length |-> -1]
HeaderSize == 32
EntrySize == 16
RequiredVersion == 256

\* Mutation: the header is counted as entries.
Count_All(t) == t.length \div EntrySize

Count(t) == (t.length - HeaderSize) \div EntrySize

Matches(e, dev) == e.bus = dev.bus /\ e.device = dev.device

kfio_pci_get_slot(bios, dev) ==
  LET t == IF bios.dollar = NoTable THEN bios.under ELSE bios.dollar
      Turn(slot, e) ==
        IF slot = -1 /\ Matches(e, dev) THEN e.slot ELSE slot
  IN  IF t = NoTable \/ t.length <= HeaderSize \/ t.version # RequiredVersion THEN 0
      ELSE LET found == FoldLeft(Turn, -1, SubSeq(t.entries, 1, Count(t)))
           IN  IF found = -1 THEN 0 ELSE found

TableEntries == [bus : Devices, device : Devices, slot : {1, 2}]
Tables ==
  {NoTable} \cup
  [length : {0, 32, 47, 48, 64}, version : {256, 1},
   entries : {<<a, b, c>> : a \in TableEntries, b \in TableEntries, c \in {[bus |-> 1, device |-> 1, slot |-> 3]}}]

\* The entries that lie in the table, of which the first for the card counts.
SlotAgrees(bios, dev) ==
  LET t == IF bios.dollar # NoTable THEN bios.dollar ELSE bios.under
      own == IF t = NoTable \/ t.version # RequiredVersion THEN {}
             ELSE {i \in DOMAIN t.entries :
                     /\ HeaderSize + i * EntrySize <= t.length
                     /\ Matches(t.entries[i], dev)}
      slot == kfio_pci_get_slot(bios, dev)
  IN  IF own = {} THEN slot = 0
      ELSE \E i \in own : slot = t.entries[i].slot /\ \A j \in own : i <= j

-----------------------------------------------------------------------------
(* Memory in bytes, the lowest first: configuration space, in which a call  *)
(* reads or writes 1, 2 or 4 of them, and a user's memory, to which         *)
(* kfio_put_user_8 to 64 copy as many as their type has.                   *)

Bytes == 0 .. ByteBase - 1

pci_read_config(mem, off, n) ==
  FoldLeft(LAMBDA v, i : v * ByteBase + mem[off + n - i], 0, [i \in 1 .. n |-> i])

pci_write_config(mem, off, val, n) ==
  [o \in DOMAIN mem |->
     IF o \in off .. off + n - 1 THEN (val \div ByteBase ^ (o - off)) % ByteBase
     ELSE mem[o]]

kfio_pci_read_config_byte(mem, off) == pci_read_config(mem, off, 1)
kfio_pci_read_config_word(mem, off) == pci_read_config(mem, off, 2)
kfio_pci_read_config_dword(mem, off) == pci_read_config(mem, off, 4)
kfio_pci_write_config_byte(mem, off, val) == pci_write_config(mem, off, val, 1)
kfio_pci_write_config_word(mem, off, val) == pci_write_config(mem, off, val, 2)
kfio_pci_write_config_dword(mem, off, val) == pci_write_config(mem, off, val, 4)

Written(mem, off, val, n) ==
  CASE n = 1 -> kfio_pci_write_config_byte(mem, off, val)
    [] n = 2 -> kfio_pci_write_config_word(mem, off, val)
    [] n = 4 -> kfio_pci_write_config_dword(mem, off, val)

Got(mem, off, n) ==
  CASE n = 1 -> kfio_pci_read_config_byte(mem, off)
    [] n = 2 -> kfio_pci_read_config_word(mem, off)
    [] n = 4 -> kfio_pci_read_config_dword(mem, off)

ConfigAgrees(mem, off, val, n) ==
  LET after == Written(mem, off, val, n)
  IN  /\ Got(after, off, n) = val
      /\ \A o \in DOMAIN mem \ (off .. off + n - 1) :
           kfio_pci_read_config_byte(after, o) = kfio_pci_read_config_byte(mem, o)

PCIR_COMMAND == 4
PCIM_CMD_INTX_DISABLE == ByteBase * 2

Disabled(c) == (c \div PCIM_CMD_INTX_DISABLE) % 2 = 1

kfio_iodrive_intx(mem, enable) ==
  LET c == kfio_pci_read_config_word(mem, PCIR_COMMAND)
      n == CASE enable /\ Disabled(c)    -> c - PCIM_CMD_INTX_DISABLE
             [] ~enable /\ ~Disabled(c) -> c + PCIM_CMD_INTX_DISABLE
             [] OTHER                   -> c
  IN  IF n # c THEN kfio_pci_write_config_word(mem, PCIR_COMMAND, n) ELSE mem

\* One bit is as asked for; turned over and back, the rest is what it was.
IntxAgrees(mem, enable) ==
  LET after == kfio_iodrive_intx(mem, enable)
      Off(m) == Disabled(kfio_pci_read_config_word(m, PCIR_COMMAND))
  IN  /\ Off(after) <=> ~enable
      /\ kfio_iodrive_intx(after, ~Off(mem)) = mem

\* The cast to the type of n bytes: an int that is wider is cut, one that is
\* not has its sign extended.
kfio_put_user(mem, off, x, n) == pci_write_config(mem, off, x % ByteBase ^ n, n)

\* The user reads the number that was put there, if it fits a signed one.
PutAgrees(mem, x, n) ==
  LET got == pci_read_config(kfio_put_user(mem, PCIR_COMMAND, x, n), PCIR_COMMAND, n)
      half == ByteBase ^ n \div 2
  IN  x \in -half .. half - 1 => x = IF got < half THEN got ELSE got - 2 * half

Memory(len) == [PCIR_COMMAND .. PCIR_COMMAND + len - 1 -> {0, 1, ByteBase - 1}]
Ints == -(ByteBase ^ 4 \div 2) .. ByteBase ^ 4 \div 2 - 1

-----------------------------------------------------------------------------
(* get_strerror_entries_index, on FreeBSD's numbers.                       *)

Listed == ((0 .. 34) \ {11, 15, 26}) \cup {35, 1024, 1025, 1027}
EUNKNOWN == 1028

\* The initialisers leave gaps, which are zeros, and the last stands next to
\* the one before it.
errno_num(i) == IF i = EUNKNOWN THEN -1 ELSE IF i \in Listed THEN i ELSE 0

get_strerror_entries_index(errnum) ==
  LET e == IF -errnum <= 0 THEN 0 ELSE -errnum
  IN  CHOOSE idx \in 0 .. EUNKNOWN :
        /\ errno_num(idx) \in {-1, e}
        /\ \A i \in 0 .. idx - 1 : errno_num(i) \notin {-1, e}

StrerrorAgrees(errnum) ==
  get_strerror_entries_index(errnum) =
    IF errnum > 0 THEN 0 ELSE IF -errnum \in Listed THEN -errnum ELSE EUNKNOWN

-----------------------------------------------------------------------------
(* kfio_time_after64 and PERIOD_OVER, a period counted in the unit of time. *)

Times == 0 .. 2 ^ TimeWidth - 1
Half == 2 ^ (TimeWidth - 1)
Wrapped(t) == t % 2 ^ TimeWidth

\* As int64_t.
Signed(t) == IF Wrapped(t) < Half THEN Wrapped(t) ELSE Wrapped(t) - 2 ^ TimeWidth

\* (int64_t)(a) - (int64_t)(b), which wraps where it leaves the width.
Difference(a, b) == Signed(Signed(a) - Signed(b))

kfio_time_after64(a, b) == Difference(b, a) < 0
kfio_time_after_eq64(a, b) == Difference(a, b) >= 0
PERIOD_OVER(now, then, period) == kfio_time_after64(now, Wrapped(then + period))

\* However the clock wrapped since then, for what takes less than half a turn.
TimesAgree(then, period, elapsed) ==
  LET now == Wrapped(then + elapsed)
  IN  /\ PERIOD_OVER(now, then, period) <=> elapsed > period
      /\ kfio_time_after_eq64(now, Wrapped(then + period)) <=> elapsed >= period

-----------------------------------------------------------------------------

Inputs ==
  [of : {"stoi"}, p : Strings]
    \cup [of : {"strncat"}, dst : Strings, src : Strings, size : -1 .. MaxString + 1]
    \cup [of : {"slot"}, dollar : Tables, under : {NoTable}, bus : Devices, device : Devices]
    \cup [of : {"slot"}, dollar : {NoTable}, under : Tables, bus : Devices, device : Devices]
    \cup {c \in [of : {"config"}, mem : Memory(4), off : 4 .. 7, n : {1, 2, 4},
                  val : {0, 1, ByteBase + 2, ByteBase ^ 4 - 1}] :
             c.off + c.n <= 8 /\ c.val < ByteBase ^ c.n}
    \cup [of : {"intx"}, mem : [4 .. 5 -> Bytes], enable : BOOLEAN]
    \cup [of : {"put"}, mem : {[o \in 4 .. 11 |-> 1]}, x : Ints, n : {1, 2, 4, 8}]
    \cup [of : {"strerror"}, errnum : {1, -1026, -1027, -1028, -1029} \cup -36 .. 0]
    \cup [of : {"times"}, then : Times, period : 0 .. Half - 1, elapsed : 0 .. Half - 1]

None == [of |-> "none"]

Init == input = None

Choose == input = None /\ input' \in Inputs

Spec == Init /\ [][Choose]_input

\* A number is read to its last digit; a string is joined to as much of another
\* as was asked for; a card's slot is that of its first entry in the table; no
\* error number gets a message that is not there; a period is over when it is,
\* whatever the clock wraps to.
CallsAgree ==
  LET i == input
  IN  CASE i.of = "stoi"     -> StoiAgrees(i.p)
        [] i.of = "strncat"  -> StrncatAgrees(i.dst, i.src, i.size)
        [] i.of = "slot"     -> SlotAgrees(i, i)
        [] i.of = "config"   -> ConfigAgrees(i.mem, i.off, i.val, i.n)
        [] i.of = "intx"     -> IntxAgrees(i.mem, i.enable)
        [] i.of = "put"      -> PutAgrees(i.mem, i.x, i.n)
        [] i.of = "strerror" -> StrerrorAgrees(i.errnum)
        [] i.of = "times"    -> TimesAgree(i.then, i.period, i.elapsed)
        [] OTHER             -> TRUE
=============================================================================
