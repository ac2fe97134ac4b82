------------------------- MODULE ObjectCacheProofs -------------------------
(***************************************************************************)
(* Proofs about ObjectCache as it is in MCPortLibrary, for any objects,    *)
(* threads and sizes of reservations, and about the operations on lists    *)
(* that it is made from, on any memory: they do to the links of rings what *)
(* they promise to do to sequences.                                        *)
(***************************************************************************)
EXTENDS MCPortLibrary, Sequences, WellFoundedInduction, FiniteSetTheorems,
        TLAPS

(* Induction over the natural numbers, by way of their order.              *)

\* To be less, as a set of pairs.
Below == {p \in Nat \X Nat : p[1] < p[2]}

\* The naturals are well-founded, so that a set of them has a least one: what
\* stands in for an induction in the proofs about how far something reaches.
LEMMA BelowIsWellFounded == IsWellFoundedOn(Below, Nat)
<1>1. Below = OpToRel(<, Nat)
  BY DEF Below, OpToRel
<1> QED
  BY <1>1, NatLessThanWellFounded

\* A set of numbers that is not empty has a least one.
LEMMA LeastOf ==
  ASSUME NEW S \in SUBSET Nat, S # {}
  PROVE  \E x \in S : \A y \in S : x <= y
<1>1. PICK x \in S : \A y \in S : ~(<<y, x>> \in Below)
  BY BelowIsWellFounded, WFMin
<1>2. ASSUME NEW y \in S PROVE x <= y
  <2>1. x \in Nat /\ y \in Nat
    OBVIOUS
  <2>2. SUFFICES ASSUME y < x PROVE FALSE
    BY <2>1
  <2> DEFINE p == <<y, x>>
  <2>3. p \in Nat \X Nat /\ p[1] < p[2]
    BY <2>1, <2>2
  <2>4. p \in Below
    BY <2>3 DEF Below
  <2> QED
    BY <2>4, <1>1
<1> QED
  BY <1>2

\* A set that has 0 and the successor of each number it has, has them all.
LEMMA Induction ==
  ASSUME NEW S, 0 \in S, \A n \in Nat : n \in S => n + 1 \in S
  PROVE  Nat \subseteq S
<1> DEFINE missing == {n \in Nat : n \notin S}
<1>1. SUFFICES ASSUME missing # {} PROVE FALSE
  OBVIOUS
<1>2. PICK x \in missing : \A y \in missing : x <= y
  BY <1>1, LeastOf
<1>3. x \in Nat /\ x # 0 /\ x - 1 \in Nat /\ x - 1 \notin missing
  BY <1>2
<1>4. x - 1 \in S
  BY <1>3
<1>5. (x - 1) + 1 \in S
  BY <1>3, <1>4
<1> QED
  BY <1>2, <1>3, <1>5
\* The operations on lists, for lemmas of any memory.
Ops == INSTANCE ListOperations

-----------------------------------------------------------------------------
(* Lists as sequences.                                                     *)

\* The memory of cells C, whose links hold X.
Memories(C, X) == [next : [C -> X], prev : [C -> X]]

\* The cell at place i of the ring of list l and the entries s.
At(l, s, i) == IF i \in 1 .. Len(s) THEN s[i] ELSE l

\* Both ways round, the links of l and of the entries s are those of a ring.
Ring(g, l, s) ==
  \A i \in 0 .. Len(s) : /\ g.next[At(l, s, i)] = At(l, s, i + 1)
                         /\ g.prev[At(l, s, i + 1)] = At(l, s, i)

\* No entry is at two places of the lists H.
Once(c, H) ==
  \A l, m \in H : \A i \in 1 .. Len(c[l]), j \in 1 .. Len(c[m]) :
    c[l][i] = c[m][j] => l = m /\ i = j

\* Each of the lists H is a ring of the entries c says, and no entry is at two
\* places.
Rings(g, c, H, E) ==
  /\ c \in [H -> Seq(E)]
  /\ \A l \in H : Ring(g, l, c[l])
  /\ \A l, m \in H : \A i \in 1 .. Len(c[l]), j \in 1 .. Len(c[m]) :
       c[l][i] = c[m][j] => l = m /\ i = j

\* e is on no list.
Off(c, H, e) == \A l \in H : \A i \in 1 .. Len(c[l]) : c[l][i] # e

\* s with e after its first i elements, and s without the i-th.
InsertAt(s, i, e) ==
  [k \in 1 .. Len(s) + 1 |->
     IF k <= i THEN s[k] ELSE IF k = i + 1 THEN e ELSE s[k - 1]]

Without(s, i) ==
  [k \in 1 .. Len(s) - 1 |-> IF k < i THEN s[k] ELSE s[k + 1]]

\* What the lemmas are about: lists and entries are cells, no cell is both or
\* is NULL.
Kept(g, c, C, X, H, E) ==
  /\ g \in Memories(C, X)
  /\ H \subseteq C /\ E \subseteq C /\ H \cap E = {} /\ C \subseteq X /\ NULL \notin C
  /\ Rings(g, c, H, E)

\* A sequence with an element put in is one element longer.
LEMMA Inserted ==
  ASSUME NEW E, NEW s \in Seq(E), NEW i \in 0 .. Len(s), NEW e \in E
  PROVE  /\ InsertAt(s, i, e) \in Seq(E)
         /\ Len(InsertAt(s, i, e)) = Len(s) + 1
<1>1. \A k \in 1 .. Len(s) + 1 : InsertAt(s, i, e)[k] \in E
  BY DEF InsertAt
<1>2. DOMAIN InsertAt(s, i, e) = 1 .. Len(s) + 1 /\ Len(s) + 1 \in Nat
  BY DEF InsertAt
<1> QED
  BY <1>1, <1>2 DEF InsertAt

\* A sequence with an element taken out is one element shorter.
LEMMA Removed ==
  ASSUME NEW E, NEW s \in Seq(E), NEW i \in 1 .. Len(s)
  PROVE  Without(s, i) \in Seq(E) /\ Len(Without(s, i)) = Len(s) - 1
<1>1. \A k \in 1 .. Len(s) - 1 : Without(s, i)[k] \in E
  BY DEF Without
<1>2. DOMAIN Without(s, i) = 1 .. Len(s) - 1 /\ Len(s) - 1 \in Nat
  BY DEF Without
<1> QED
  BY <1>1, <1>2 DEF Without

\* fusion_list_add sets four links.
LEMMA AddLinks ==
  ASSUME NEW C, NEW X, NEW g \in Memories(C, X), C \subseteq X,
         NEW e \in C, NEW p \in C, NEW n \in C
  PROVE  LET k == Ops!ListAdd(g, e, p, n)
         IN  /\ k \in Memories(C, X)
             /\ k.next = [g.next EXCEPT ![e] = n, ![p] = e]
             /\ k.prev = [g.prev EXCEPT ![n] = e, ![e] = p]
BY DEF Memories, Ops!ListAdd

\* fusion_list_unlink sets two links, of the neighbours.
LEMMA CutLinks ==
  ASSUME NEW C, NEW X, NEW g \in Memories(C, X), C \subseteq X, NULL \notin C,
         NEW e \in C, g.next[e] \in C, g.prev[e] \in C
  PROVE  LET k == Ops!Unlink(g, e)
         IN  /\ k \in Memories(C, X)
             /\ k.next = [g.next EXCEPT ![g.prev[e]] = g.next[e]]
             /\ k.prev = [g.prev EXCEPT ![g.next[e]] = g.prev[e]]
BY DEF Memories, Ops!Unlink


\* The first entries of s, k of them.
Prefix(s, k) == [j \in 1 .. IF k <= Len(s) THEN k ELSE Len(s) |-> s[j]]

\* A prefix is a sequence of the elements it begins with, whole when it is as
\* long as the sequence.
LEMMA PrefixIs ==
  ASSUME NEW E, NEW s \in Seq(E), NEW k \in Nat
  PROVE  /\ Prefix(s, k) \in Seq(E)
         /\ Len(Prefix(s, k)) = IF k <= Len(s) THEN k ELSE Len(s)
         /\ \A j \in 1 .. Len(Prefix(s, k)) : Prefix(s, k)[j] = s[j]
         /\ k >= Len(s) => Prefix(s, k) = s
<1> DEFINE n == IF k <= Len(s) THEN k ELSE Len(s)
<1>1. n \in Nat /\ n <= Len(s) /\ Len(s) \in Nat
  OBVIOUS
<1>2. Prefix(s, k) = [j \in 1 .. n |-> s[j]]
  BY DEF Prefix
<1> HIDE DEF n
<1>3. \A j \in 1 .. n : s[j] \in E
  BY <1>1
<1>4. /\ Prefix(s, k) \in Seq(E) /\ Len(Prefix(s, k)) = n
      /\ \A j \in 1 .. n : Prefix(s, k)[j] = s[j]
  BY <1>1, <1>2, <1>3
<1>5. n = Len(s) => Prefix(s, k) = s
  BY <1>2, <1>4
<1> QED
  BY <1>1, <1>4, <1>5 DEF n

\* A walk that follows f meets the entries s, if f leads from each of them to
\* the next and from the last to where the walk ends.
LEMMA WalkMeets ==
  ASSUME NEW E, NULL \notin E, NEW s \in Seq(E), NEW l, l \notin E,
         NEW b \in Nat, Len(s) <= b,
         NEW f, \A i \in 1 .. Len(s) : f[s[i]] = At(l, s, i + 1),
         NEW e, e = At(l, s, 1)
  PROVE  Ops!From(f, e, l, b) = s
<1> DEFINE Longer(t, x) == IF x = l \/ x = NULL THEN t ELSE Append(t, x)
           After(t) == IF t = <<>> THEN e ELSE f[Ops!Last(t)]
           Def(m) == m = [k \in 0 .. b |-> IF k = 0 THEN <<>>
                                           ELSE Longer(m[k - 1], After(m[k - 1]))]
           P(k) == Prefix(s, k)
           n == Len(s)
<1>1. n \in Nat /\ \A j \in 1 .. n : s[j] \in E /\ s[j] # l /\ s[j] # NULL
  OBVIOUS
<1>2. P(0) = <<>>
  BY DEF Prefix
<1>3. ASSUME NEW k \in Nat PROVE P(k + 1) = Longer(P(k), After(P(k)))
  <2>1. CASE k < n
    <3>1. /\ P(k) \in Seq(E) /\ Len(P(k)) = k
          /\ P(k + 1) \in Seq(E) /\ Len(P(k + 1)) = k + 1
          /\ \A j \in 1 .. k : P(k)[j] = s[j]
          /\ \A j \in 1 .. k + 1 : P(k + 1)[j] = s[j]
      BY <1>1, <2>1, PrefixIs
    <3>2. After(P(k)) = s[k + 1]
      <4>1. CASE k = 0
        BY <1>1, <1>2, <2>1, <4>1 DEF At
      <4>2. CASE k # 0
        <5>1. P(k) # <<>> /\ Ops!Last(P(k)) = s[k] /\ k \in 1 .. n
          BY <1>1, <2>1, <3>1, <4>2 DEF Ops!Last
        <5>2. f[s[k]] = At(l, s, k + 1) /\ k + 1 \in 1 .. n
          BY <1>1, <2>1, <5>1
        <5> QED
          BY <5>1, <5>2 DEF At
      <4> QED
        BY <4>1, <4>2
    <3>3. s[k + 1] \in E /\ s[k + 1] # l /\ s[k + 1] # NULL
      BY <1>1, <2>1
    <3> HIDE DEF P
    <3>4. Append(P(k), s[k + 1]) = P(k + 1)
      BY <1>1, <2>1, <3>1, <3>3
    <3> QED
      BY <3>2, <3>3, <3>4
  <2>2. CASE k >= n
    <3>1. P(k) = s /\ P(k + 1) = s
      BY <1>1, <2>2, PrefixIs
    <3>2. After(s) = l
      <4>1. CASE n = 0
        BY <4>1 DEF At
      <4>2. CASE n # 0
        <5>1. s # <<>> /\ Ops!Last(s) = s[n] /\ n \in 1 .. n
          BY <1>1, <4>2 DEF Ops!Last
        <5>2. At(l, s, n + 1) = l
          BY <1>1 DEF At
        <5> QED
          BY <5>1, <5>2
      <4> QED
        BY <4>1, <4>2
    <3> QED
      BY <3>1, <3>2
  <2> QED
    BY <1>1, <2>1, <2>2
<1> HIDE DEF P, After, Longer
<1> DEFINE w == [k \in 0 .. b |-> P(k)]
<1>4. Def(w)
  <2>1. ASSUME NEW k \in 0 .. b
        PROVE  w[k] = IF k = 0 THEN <<>> ELSE Longer(w[k - 1], After(w[k - 1]))
    <3>1. CASE k = 0
      BY <1>2, <3>1
    <3>2. CASE k # 0
      <4>1. k - 1 \in Nat /\ k - 1 \in 0 .. b /\ (k - 1) + 1 = k
        BY <3>2
      <4>2. P((k - 1) + 1) = Longer(P(k - 1), After(P(k - 1)))
        BY <1>3, <4>1
      <4> QED
        BY <3>2, <4>1, <4>2
    <3> QED
      BY <3>1, <3>2
  <2>2. w = [k \in 0 .. b |-> w[k]]
    OBVIOUS
  <2> QED
    BY <2>1, <2>2
<1> DEFINE Met == CHOOSE m : Def(m)
<1>5. Ops!From(f, e, l, b) = Met[b]
  BY DEF Ops!From, Longer, After
<1>6. Def(Met)
  <2> HIDE DEF w
  <2>1. \E m : Def(m)
    BY <1>4
  <2> QED
    BY <2>1
<1>7. /\ Met[0] = <<>>
      /\ \A k \in Nat : k + 1 <= b => Met[k + 1] = Longer(Met[k], After(Met[k]))
  <2> DEFINE m == Met
  <2>1. m = [k \in 0 .. b |-> IF k = 0 THEN <<>>
                              ELSE Longer(m[k - 1], After(m[k - 1]))]
    BY <1>6
  <2> HIDE DEF m
  <2>2. m[0] = <<>>
    BY <2>1
  <2>3. ASSUME NEW k \in Nat, k + 1 <= b
        PROVE  m[k + 1] = Longer(m[k], After(m[k]))
    <3>1. k + 1 \in 0 .. b /\ k + 1 # 0 /\ (k + 1) - 1 = k
      BY <2>3
    <3> QED
      BY <2>1, <3>1
  <2> QED
    BY <2>2, <2>3 DEF m
<1> HIDE DEF Met
<1> DEFINE S == {k \in Nat : k <= b => Met[k] = P(k)}
<1>8. 0 \in S
  BY <1>2, <1>7
<1>9. ASSUME NEW k \in Nat, k \in S PROVE k + 1 \in S
  <2>1. ASSUME k + 1 <= b PROVE Met[k + 1] = P(k + 1)
    <3>1. k <= b
      BY <2>1
    <3>2. Met[k] = P(k)
      BY <1>9, <3>1
    <3> QED
      BY <1>3, <1>7, <2>1, <3>2
  <2> QED
    BY <2>1
<1>10. Nat \subseteq S
  BY <1>8, <1>9, Induction
<1>11. Met[b] = P(b)
  BY <1>10
<1>12. P(b) = s
  BY PrefixIs DEF P
<1> QED
  BY <1>5, <1>11, <1>12
\* What the ring of one list has in its cells.
LEMMA RingCells ==
  ASSUME NEW C, NEW X, NEW H, NEW E, NEW g, NEW c, Kept(g, c, C, X, H, E),
         NEW l \in H
  PROVE  /\ c[l] \in Seq(E) /\ Len(c[l]) \in Nat
         /\ \A i \in Nat : At(l, c[l], i) \in C
         /\ \A i \in 1 .. Len(c[l]) : At(l, c[l], i) \in E /\ At(l, c[l], i) = c[l][i]
         /\ At(l, c[l], 0) = l /\ At(l, c[l], Len(c[l]) + 1) = l
         /\ g.next[l] = At(l, c[l], 1) /\ g.prev[l] = At(l, c[l], Len(c[l]))
         /\ \A i, j \in 0 .. Len(c[l]) :
              At(l, c[l], i) = At(l, c[l], j) => i = j
<1>1. /\ c[l] \in Seq(E) /\ Len(c[l]) \in Nat /\ l \in C
      /\ E \subseteq C /\ l \notin E
  BY DEF Kept, Rings
<1>2. \A i \in 1 .. Len(c[l]) : c[l][i] \in E
  BY <1>1
<1>3. Ring(g, l, c[l])
  BY DEF Kept, Rings
<1>4. At(l, c[l], 0) = l /\ At(l, c[l], Len(c[l]) + 1) = l
  BY <1>1 DEF At
<1>5. g.next[l] = At(l, c[l], 1) /\ g.prev[l] = At(l, c[l], Len(c[l]))
  <2>1. 0 \in 0 .. Len(c[l]) /\ Len(c[l]) \in 0 .. Len(c[l]) /\ 0 + 1 = 1
    BY <1>1
  <2> QED
    BY <1>3, <1>4, <2>1 DEF Ring
<1>6. \A i, j \in 1 .. Len(c[l]) : c[l][i] = c[l][j] => i = j
  BY DEF Kept, Rings
<1>7. \A i, j \in 0 .. Len(c[l]) : At(l, c[l], i) = At(l, c[l], j) => i = j
  BY <1>1, <1>2, <1>6 DEF At
<1> QED
  BY <1>1, <1>2, <1>4, <1>5, <1>7 DEF At

\* A list whose cells' links are as they were is the ring it was.
LEMMA RingStays ==
  ASSUME NEW g, NEW k, NEW l, NEW s, Len(s) \in Nat, Ring(g, l, s),
         k.next[l] = g.next[l], k.prev[l] = g.prev[l],
         \A i \in 1 .. Len(s) : /\ k.next[s[i]] = g.next[s[i]]
                                /\ k.prev[s[i]] = g.prev[s[i]]
  PROVE  Ring(k, l, s)
<1> SUFFICES ASSUME NEW i \in 0 .. Len(s)
             PROVE  /\ k.next[At(l, s, i)] = At(l, s, i + 1)
                    /\ k.prev[At(l, s, i + 1)] = At(l, s, i)
  BY DEF Ring
<1>1. \A j \in Nat : /\ k.next[At(l, s, j)] = g.next[At(l, s, j)]
                     /\ k.prev[At(l, s, j)] = g.prev[At(l, s, j)]
  BY DEF At
<1>2. i \in Nat /\ i + 1 \in Nat
  OBVIOUS
<1> QED
  BY <1>1, <1>2 DEF Ring

\* Writing the links of an entry that is on no list changes none.
LEMMA OffStays ==
  ASSUME NEW C, NEW X, NEW H, NEW E, NEW g, NEW c, Kept(g, c, C, X, H, E),
         NEW e \in C, e \notin H, Off(c, H, e), NEW k \in Memories(C, X),
         \A x \in C \ {e} : k.next[x] = g.next[x] /\ k.prev[x] = g.prev[x]
  PROVE  Kept(k, c, C, X, H, E)
<1>1. ASSUME NEW l \in H PROVE Ring(k, l, c[l])
  <2>1. c[l] \in Seq(E) /\ Len(c[l]) \in Nat /\ Ring(g, l, c[l]) /\ l \in C
    BY DEF Kept, Rings
  <2>2. \A i \in 1 .. Len(c[l]) : c[l][i] \in C \ {e}
    BY <2>1 DEF Off, Kept
  <2>3. l \in C \ {e}
    BY <2>1
  <2> QED
    BY <2>1, <2>2, <2>3, RingStays
<1> QED
  BY <1>1 DEF Kept, Rings

\* An entry added to a list is at one place of it, one removed is at none.
LEMMA AddOnce ==
  ASSUME NEW H, NEW E, NEW c \in [H -> Seq(E)], Once(c, H),
         NEW l \in H, NEW i \in 0 .. Len(c[l]), NEW e \in E, Off(c, H, e)
  PROVE  Once([c EXCEPT ![l] = InsertAt(@, i, e)], H)
<1> DEFINE s == c[l]
           t == InsertAt(s, i, e)
           d == [c EXCEPT ![l] = t]
<1>1. /\ s \in Seq(E) /\ Len(s) \in Nat /\ i \in Nat /\ i + 1 \in Nat
      /\ i \in 0 .. Len(s)
  OBVIOUS
<1>3. t \in Seq(E) /\ Len(t) = Len(s) + 1
  BY <1>1, Inserted
<1>9. ASSUME NEW a \in H, NEW b \in H, NEW x \in 1 .. Len(d[a]),
             NEW y \in 1 .. Len(d[b]), d[a][x] = d[b][y]
      PROVE  a = b /\ x = y
  <2>1. \A m \in H : d[m] = IF m = l THEN t ELSE c[m]
    OBVIOUS
  <2>2. \A q \in 1 .. Len(t) :
          \/ q = i + 1 /\ t[q] = e
          \/ q <= i /\ q \in 1 .. Len(s) /\ t[q] = s[q]
          \/ q > i + 1 /\ q - 1 \in 1 .. Len(s) /\ t[q] = s[q - 1]
    BY <1>1, <1>3 DEF InsertAt
  <2>3. \A m \in H : \A q \in 1 .. Len(c[m]) : c[m][q] # e
    BY DEF Off
  <2>4. \A v, w \in H : \A q \in 1 .. Len(c[v]), r \in 1 .. Len(c[w]) :
          c[v][q] = c[w][r] => v = w /\ q = r
    BY DEF Once
  <2> HIDE DEF s, t, d
  <2>5. CASE a # l /\ b # l
    BY <1>9, <2>1, <2>4, <2>5
  <2>6. ASSUME NEW q \in 1 .. Len(t), NEW m \in H, m # l,
               NEW r \in 1 .. Len(c[m]), t[q] = c[m][r]
        PROVE  FALSE
    <3>1. t[q] # e
      BY <2>3, <2>6
    <3>2. PICK o \in 1 .. Len(s) : t[q] = s[o]
      BY <2>2, <3>1
    <3>3. o \in 1 .. Len(c[l]) /\ c[l][o] = c[m][r]
      BY <2>6, <3>2 DEF s
    <3>4. l = m
      BY <2>4, <2>6, <3>3
    <3> QED
      BY <2>6, <3>4
  <2>7. CASE a # l \/ b # l
    <3>1. \A m \in H : m # l => d[m] = c[m]
      BY <2>1
    <3>2. d[l] = t
      BY <2>1
    <3> QED
      BY <1>9, <2>5, <2>6, <2>7, <3>1, <3>2
  <2>8. CASE a = l /\ b = l
    <3>1. x \in 1 .. Len(t) /\ y \in 1 .. Len(t) /\ t[x] = t[y]
      BY <1>9, <2>1, <2>8
    <3>2. \A q, r \in 1 .. Len(s) : s[q] # e /\ (s[q] = s[r] => q = r)
      BY <2>3, <2>4 DEF s
    <3>3. CASE x = i + 1 \/ y = i + 1
      <4>1. \A q \in 1 .. Len(t) : t[q] = e <=> q = i + 1
        <5> SUFFICES ASSUME NEW q \in 1 .. Len(t) PROVE t[q] = e <=> q = i + 1
          OBVIOUS
        <5>1. q \in Nat
          BY <1>1, <1>3
        <5>2. q = i + 1 => t[q] = e
          BY <1>1, <2>2, <5>1
        <5>3. q # i + 1 => \E o \in 1 .. Len(s) : t[q] = s[o]
          BY <2>2
        <5> QED
          BY <3>2, <5>2, <5>3
      <4> QED
        BY <2>8, <3>1, <3>3, <4>1
    <3>4. CASE x # i + 1 /\ y # i + 1
      <4> DEFINE P(q) == IF q <= i THEN q ELSE q - 1
      <4>1. \A q \in 1 .. Len(t) :
              q # i + 1 => P(q) \in 1 .. Len(s) /\ t[q] = s[P(q)]
        BY <2>2, <1>1, <1>3
      <4>2. P(x) = P(y)
        <5>1. PICK q \in 1 .. Len(s) : q = P(x) /\ t[x] = s[q]
          BY <3>1, <3>4, <4>1
        <5>2. PICK r \in 1 .. Len(s) : r = P(y) /\ t[y] = s[r]
          BY <3>1, <3>4, <4>1
        <5>3. q = r
          BY <3>1, <3>2, <5>1, <5>2
        <5> QED
          BY <5>1, <5>2, <5>3
      <4>3. x \in Nat /\ y \in Nat
        BY <3>1, <1>3, <1>1
      <4> QED
        BY <1>1, <2>8, <3>4, <4>2, <4>3
    <3> QED
      BY <3>3, <3>4, <2>8
  <2> QED
    BY <2>7, <2>8
<1> QED
  BY <1>9 DEF Once

\* __fusion_list_add between two neighbours of a list.
LEMMA AddKeeps ==
  ASSUME NEW C, NEW X, NEW H, NEW E, NEW g, NEW c, Kept(g, c, C, X, H, E),
         NEW l \in H, NEW i \in 0 .. Len(c[l]), NEW e \in E, Off(c, H, e)
  PROVE  Kept(Ops!ListAdd(g, e, At(l, c[l], i), At(l, c[l], i + 1)),
              [c EXCEPT ![l] = InsertAt(@, i, e)], C, X, H, E)
<1> DEFINE s == c[l]
           t == InsertAt(s, i, e)
           p == At(l, s, i)
           n == At(l, s, i + 1)
           k == Ops!ListAdd(g, e, p, n)
           d == [c EXCEPT ![l] = t]
<1>1. /\ s \in Seq(E) /\ Len(s) \in Nat /\ i \in Nat /\ i + 1 \in Nat
      /\ i \in 0 .. Len(s)
      /\ p \in C /\ n \in C /\ e \in C /\ e # l /\ l \in C
  BY RingCells DEF Kept
<1>2. /\ k \in Memories(C, X)
      /\ k.next = [g.next EXCEPT ![e] = n, ![p] = e]
      /\ k.prev = [g.prev EXCEPT ![n] = e, ![e] = p]
  <2>1. g \in Memories(C, X) /\ C \subseteq X
    BY DEF Kept
  <2> HIDE DEF p, n
  <2> QED
    BY <1>1, <2>1, AddLinks
<1>3. t \in Seq(E) /\ Len(t) = Len(s) + 1
  BY <1>1, Inserted
<1>4. e # p /\ e # n /\ \A j \in Nat : At(l, s, j) # e
  BY <1>1 DEF At, Off
<1>5. \A j \in 0 .. Len(s) + 2 :
        At(l, t, j) = IF j <= i THEN At(l, s, j)
                      ELSE IF j = i + 1 THEN e ELSE At(l, s, j - 1)
  BY <1>1, <1>3 DEF At, InsertAt
<1>6. Ring(k, l, t)
  <2> SUFFICES ASSUME NEW j \in 0 .. Len(s) + 1
               PROVE  /\ k.next[At(l, t, j)] = At(l, t, j + 1)
                      /\ k.prev[At(l, t, j + 1)] = At(l, t, j)
    BY <1>3 DEF Ring
  <2>1. /\ DOMAIN g.next = C /\ DOMAIN g.prev = C
    BY DEF Kept, Memories
  <2>2. \A m \in 0 .. Len(s) : /\ g.next[At(l, s, m)] = At(l, s, m + 1)
                               /\ g.prev[At(l, s, m + 1)] = At(l, s, m)
    BY DEF Kept, Rings, Ring
  <2>3. \A m, o \in 0 .. Len(s) : At(l, s, m) = At(l, s, o) => m = o
    BY RingCells
  <2>4. \A m, o \in 1 .. Len(s) + 1 : At(l, s, m) = At(l, s, o) => m = o
    BY <2>3, <1>1 DEF At
  <2>5. \A m \in Nat : At(l, s, m) \in C
    BY RingCells
  <2> HIDE DEF s, t, k
  <2>6. CASE j < i
    <3>1. /\ j \in 0 .. Len(s) /\ i \in 0 .. Len(s)
          /\ j + 1 \in 1 .. Len(s) + 1
          /\ i + 1 \in 1 .. Len(s) + 1 /\ j # i /\ j + 1 # i + 1
          /\ j \in Nat /\ j + 1 \in Nat
      BY <1>1, <2>6
    <3>2. At(l, t, j) = At(l, s, j) /\ At(l, t, j + 1) = At(l, s, j + 1)
      BY <1>1, <1>5, <2>6
    <3>3. At(l, s, j) # p /\ At(l, s, j + 1) # n
      BY <2>3, <2>4, <3>1
    <3>4. /\ k.next[At(l, s, j)] = g.next[At(l, s, j)]
          /\ k.prev[At(l, s, j + 1)] = g.prev[At(l, s, j + 1)]
      BY <1>2, <1>4, <2>1, <2>5, <3>1, <3>3
    <3> QED
      BY <2>2, <3>1, <3>2, <3>4
  <2>7. CASE j = i
    <3>1. At(l, t, j) = p /\ At(l, t, j + 1) = e
      BY <1>1, <1>5, <2>7
    <3> QED
      BY <1>1, <1>2, <1>4, <2>1, <3>1
  <2>8. CASE j = i + 1
    <3>1. At(l, t, j) = e /\ At(l, t, j + 1) = n
      BY <1>1, <1>5, <2>8
    <3> QED
      BY <1>1, <1>2, <1>4, <2>1, <3>1
  <2>9. CASE j > i + 1
    <3>1. /\ j - 1 \in 0 .. Len(s) /\ i \in 0 .. Len(s)
          /\ j \in 1 .. Len(s) + 1
          /\ i + 1 \in 1 .. Len(s) + 1 /\ j - 1 # i /\ j # i + 1
          /\ j - 1 \in Nat /\ j \in Nat /\ (j - 1) + 1 = j
      BY <1>1, <2>9
    <3>2. At(l, t, j) = At(l, s, j - 1) /\ At(l, t, j + 1) = At(l, s, j)
      BY <1>1, <1>5, <2>9
    <3>3. At(l, s, j - 1) # p /\ At(l, s, j) # n
      BY <2>3, <2>4, <3>1
    <3>4. /\ k.next[At(l, s, j - 1)] = g.next[At(l, s, j - 1)]
          /\ k.prev[At(l, s, j)] = g.prev[At(l, s, j)]
      BY <1>2, <1>4, <2>1, <2>5, <3>1, <3>3
    <3> QED
      BY <2>2, <3>1, <3>2, <3>4
  <2> QED
    BY <1>1, <2>6, <2>7, <2>8, <2>9
<1>7. ASSUME NEW m \in H, m # l PROVE Ring(k, m, c[m])
  <2>1. c[m] \in Seq(E) /\ Len(c[m]) \in Nat /\ Ring(g, m, c[m]) /\ m \in C
    BY DEF Kept, Rings
  <2>2. \A x \in C \ {e, p, n} : k.next[x] = g.next[x] /\ k.prev[x] = g.prev[x]
    BY <1>1, <1>2 DEF Kept, Memories
  <2>3. m \notin {e, p, n}
    BY <1>1, <1>7 DEF Kept, At
  <2>4. \A j \in 1 .. Len(c[m]) : c[m][j] \in C \ {e, p, n}
    BY <1>1, <1>7, <2>1 DEF Kept, Rings, At, Off
  <2> QED
    BY <2>1, <2>2, <2>3, <2>4, RingStays
<1>8. d \in [H -> Seq(E)]
  BY <1>3 DEF Kept, Rings
<1>9. \A a, b \in H : \A x \in 1 .. Len(d[a]), y \in 1 .. Len(d[b]) :
        d[a][x] = d[b][y] => a = b /\ x = y
  <2>1. c \in [H -> Seq(E)] /\ Once(c, H)
    BY DEF Kept, Rings, Once
  <2>2. Once(d, H)
    BY <2>1, AddOnce
  <2> QED
    BY <2>2 DEF Once
<1> QED
  <2>1. \A m \in H : Ring(k, m, d[m])
    BY <1>6, <1>7 DEF Kept, Rings
  <2> QED
    BY <1>2, <1>8, <1>9, <2>1 DEF Kept, Rings

\* An element taken out is nowhere, and the others are where they were, once.
LEMMA CutOnce ==
  ASSUME NEW H, NEW E, NEW c \in [H -> Seq(E)], Once(c, H),
         NEW l \in H, NEW i \in 1 .. Len(c[l])
  PROVE  LET d == [c EXCEPT ![l] = Without(@, i)]
         IN  /\ Once(d, H)
             /\ Off(d, H, c[l][i])
<1> DEFINE s == c[l]
           t == Without(s, i)
           e == s[i]
           d == [c EXCEPT ![l] = t]
<1>1. s \in Seq(E) /\ Len(s) \in Nat /\ i \in Nat /\ i \in 1 .. Len(s)
  OBVIOUS
<1>5. t \in Seq(E) /\ Len(t) = Len(s) - 1
  BY <1>1, Removed
<1>9. d \in [H -> Seq(E)]
  BY <1>5
<1>10. \A m \in H : d[m] = IF m = l THEN t ELSE c[m]
  OBVIOUS
<1> DEFINE P(q) == IF q < i THEN q ELSE q + 1
<1>11. \A q \in 1 .. Len(t) : /\ P(q) \in 1 .. Len(s) /\ P(q) # i
                              /\ t[q] = s[P(q)]
  BY <1>1, <1>5 DEF Without
<1>12. \A v, w \in H : \A q \in 1 .. Len(c[v]), r \in 1 .. Len(c[w]) :
         c[v][q] = c[w][r] => v = w /\ q = r
  BY DEF Once
<1>13. ASSUME NEW a \in H, NEW x \in 1 .. Len(d[a])
       PROVE  \E q \in 1 .. Len(c[a]) :
                /\ d[a][x] = c[a][q]
                /\ q = IF a = l THEN P(x) ELSE x
  <2>1. CASE a = l
    <3>1. d[a] = t /\ c[a] = s /\ x \in 1 .. Len(t)
      BY <1>10, <1>13, <2>1
    <3>2. P(x) \in 1 .. Len(s) /\ t[x] = s[P(x)]
      BY <1>11, <3>1
    <3> HIDE DEF P, t, s, d
    <3> QED
      BY <2>1, <3>1, <3>2
  <2>2. CASE a # l
    BY <1>10, <2>2
  <2> QED
    BY <2>1, <2>2
<1>14. ASSUME NEW a \in H, NEW b \in H, NEW x \in 1 .. Len(d[a]),
              NEW y \in 1 .. Len(d[b]), d[a][x] = d[b][y]
       PROVE  a = b /\ x = y
  <2>1. PICK q \in 1 .. Len(c[a]) :
          d[a][x] = c[a][q] /\ q = IF a = l THEN P(x) ELSE x
    BY <1>13
  <2>2. PICK r \in 1 .. Len(c[b]) :
          d[b][y] = c[b][r] /\ r = IF b = l THEN P(y) ELSE y
    BY <1>13
  <2>3. a = b /\ q = r
    BY <1>12, <1>14, <2>1, <2>2
  <2>4. x \in Nat /\ y \in Nat
    BY <1>9
  <2> QED
    BY <1>1, <2>1, <2>2, <2>3, <2>4
<1>15. Off(d, H, e)
  <2> SUFFICES ASSUME NEW a \in H, NEW x \in 1 .. Len(d[a]), d[a][x] = e PROVE FALSE
    BY DEF Off
  <2>1. PICK q \in 1 .. Len(c[a]) :
          d[a][x] = c[a][q] /\ q = IF a = l THEN P(x) ELSE x
    BY <1>13
  <2>2. a = l /\ q = i
    BY <1>1, <1>12, <2>1
  <2>3. x \in 1 .. Len(t)
    BY <1>10, <2>2
  <2> QED
    BY <1>11, <2>1, <2>2, <2>3
<1> QED
  BY <1>14, <1>15 DEF Once

\* __fusion_list_del of an entry of a list.
LEMMA CutKeeps ==
  ASSUME NEW C, NEW X, NEW H, NEW E, NEW g, NEW c, Kept(g, c, C, X, H, E),
         NEW l \in H, NEW i \in 1 .. Len(c[l])
  PROVE  /\ Kept(Ops!Unlink(g, c[l][i]), [c EXCEPT ![l] = Without(@, i)],
                 C, X, H, E)
         /\ Off([c EXCEPT ![l] = Without(@, i)], H, c[l][i])
<1> DEFINE s == c[l]
           t == Without(s, i)
           e == s[i]
           p == At(l, s, i - 1)
           n == At(l, s, i + 1)
           k == Ops!Unlink(g, e)
           d == [c EXCEPT ![l] = t]
<1>1. /\ s \in Seq(E) /\ Len(s) \in Nat /\ i \in Nat /\ i + 1 \in Nat
      /\ i \in 1 .. Len(s) /\ i - 1 \in 0 .. Len(s) /\ i - 1 \in Nat
      /\ i \in 0 .. Len(s) /\ (i - 1) + 1 = i
      /\ p \in C /\ n \in C /\ e \in C /\ e = At(l, s, i) /\ l \in C
  BY RingCells DEF Kept
<1>2. \A m \in 0 .. Len(s) : /\ g.next[At(l, s, m)] = At(l, s, m + 1)
                             /\ g.prev[At(l, s, m + 1)] = At(l, s, m)
  BY DEF Kept, Rings, Ring
<1>3. g.next[e] = n /\ g.prev[e] = p
  BY <1>1, <1>2
<1>4. /\ k \in Memories(C, X)
      /\ k.next = [g.next EXCEPT ![p] = n]
      /\ k.prev = [g.prev EXCEPT ![n] = p]
  <2>1. g \in Memories(C, X) /\ C \subseteq X /\ NULL \notin C
    BY DEF Kept
  <2>2. e \in C /\ g.next[e] \in C /\ g.prev[e] \in C
    BY <1>1, <1>3
  <2> HIDE DEF p, n, e
  <2>3. /\ k \in Memories(C, X)
        /\ k.next = [g.next EXCEPT ![g.prev[e]] = g.next[e]]
        /\ k.prev = [g.prev EXCEPT ![g.next[e]] = g.prev[e]]
    BY <2>1, <2>2, CutLinks
  <2> QED
    BY <1>3, <2>3
<1>5. t \in Seq(E) /\ Len(t) = Len(s) - 1
  BY <1>1, Removed
<1>6. \A j \in 0 .. Len(s) :
        At(l, t, j) = IF j < i THEN At(l, s, j) ELSE At(l, s, j + 1)
  BY <1>1, <1>5 DEF At, Without
<1>7. Ring(k, l, t)
  <2> SUFFICES ASSUME NEW j \in 0 .. Len(s) - 1
               PROVE  /\ k.next[At(l, t, j)] = At(l, t, j + 1)
                      /\ k.prev[At(l, t, j + 1)] = At(l, t, j)
    BY <1>5 DEF Ring
  <2>1. /\ DOMAIN g.next = C /\ DOMAIN g.prev = C
    BY DEF Kept, Memories
  <2>2. \A m, o \in 0 .. Len(s) : At(l, s, m) = At(l, s, o) => m = o
    BY RingCells
  <2>3. \A m, o \in 1 .. Len(s) + 1 : At(l, s, m) = At(l, s, o) => m = o
    BY <2>2, <1>1 DEF At
  <2>4. \A m \in Nat : At(l, s, m) \in C
    BY RingCells
  <2> HIDE DEF s, t, k, e
  <2>5. /\ j \in 0 .. Len(s) /\ j \in Nat /\ j + 1 \in 0 .. Len(s)
        /\ j + 1 \in Nat
    BY <1>1
  <2>6. CASE j < i - 1
    <3>1. /\ j + 1 \in 1 .. Len(s) + 1 /\ i + 1 \in 1 .. Len(s) + 1
          /\ j # i - 1 /\ j + 1 # i + 1
      BY <1>1, <2>5, <2>6
    <3>2. At(l, t, j) = At(l, s, j) /\ At(l, t, j + 1) = At(l, s, j + 1)
      BY <1>1, <1>6, <2>5, <2>6
    <3>3. At(l, s, j) # p /\ At(l, s, j + 1) # n
      BY <1>1, <2>2, <2>3, <2>5, <3>1
    <3>4. /\ k.next[At(l, s, j)] = g.next[At(l, s, j)]
          /\ k.prev[At(l, s, j + 1)] = g.prev[At(l, s, j + 1)]
      BY <1>4, <2>1, <2>4, <2>5, <3>3
    <3> QED
      BY <1>2, <2>5, <3>2, <3>4
  <2>7. CASE j = i - 1
    <3>1. At(l, t, j) = p /\ At(l, t, j + 1) = n
      BY <1>1, <1>6, <2>5, <2>7
    <3> QED
      BY <1>1, <1>4, <2>1, <3>1
  <2>8. CASE j > i - 1
    <3>1. /\ j + 1 \in 0 .. Len(s) /\ j + 2 \in 1 .. Len(s) + 1
          /\ i + 1 \in 1 .. Len(s) + 1 /\ (j + 1) + 1 = j + 2
          /\ j + 1 # i - 1 /\ j + 2 # i + 1 /\ j + 2 \in Nat
      BY <1>1, <2>5, <2>8
    <3>2. At(l, t, j) = At(l, s, j + 1) /\ At(l, t, j + 1) = At(l, s, j + 2)
      BY <1>1, <1>6, <2>5, <2>8, <3>1
    <3>3. At(l, s, j + 1) # p /\ At(l, s, j + 2) # n
      BY <1>1, <2>2, <2>3, <3>1
    <3>4. /\ k.next[At(l, s, j + 1)] = g.next[At(l, s, j + 1)]
          /\ k.prev[At(l, s, j + 2)] = g.prev[At(l, s, j + 2)]
      BY <1>4, <2>1, <2>4, <2>5, <3>1, <3>3
    <3> QED
      BY <1>2, <3>1, <3>2, <3>4
  <2> QED
    BY <1>1, <2>5, <2>6, <2>7, <2>8
<1>8. ASSUME NEW m \in H, m # l PROVE Ring(k, m, c[m])
  <2>1. c[m] \in Seq(E) /\ Len(c[m]) \in Nat /\ Ring(g, m, c[m]) /\ m \in C
    BY DEF Kept, Rings
  <2>2. \A x \in C \ {p, n} : k.next[x] = g.next[x] /\ k.prev[x] = g.prev[x]
    BY <1>1, <1>4 DEF Kept, Memories
  <2>3. m \notin {p, n}
    BY <1>1, <1>8 DEF Kept, At
  <2>4. \A j \in 1 .. Len(c[m]) : c[m][j] \in C \ {p, n}
    BY <1>1, <1>8, <2>1 DEF Kept, Rings, At
  <2> QED
    BY <2>1, <2>2, <2>3, <2>4, RingStays
<1>9. d \in [H -> Seq(E)]
  BY <1>5 DEF Kept, Rings
<1>10. \A m \in H : d[m] = IF m = l THEN t ELSE c[m]
  BY DEF Kept, Rings
<1>14. /\ \A a, b \in H : \A x \in 1 .. Len(d[a]), y \in 1 .. Len(d[b]) :
            d[a][x] = d[b][y] => a = b /\ x = y
       /\ Off(d, H, e)
  <2>1. c \in [H -> Seq(E)] /\ Once(c, H)
    BY DEF Kept, Rings, Once
  <2>2. Once(d, H) /\ Off(d, H, e)
    BY <2>1, CutOnce
  <2> QED
    BY <2>2 DEF Once
<1> QED
  <2>1. \A m \in H : Ring(k, m, d[m])
    BY <1>7, <1>8, <1>10
  <2> QED
    BY <1>4, <1>9, <1>14, <2>1 DEF Kept, Rings

\* The entries s after the first i of t.
Spliced(t, i, s) ==
  [k \in 1 .. Len(t) + Len(s) |->
     IF k <= i THEN t[k] ELSE IF k <= i + Len(s) THEN s[k - i] ELSE t[k - Len(s)]]

\* A sequence with another put in is as long as both.
LEMMA SplicedIs ==
  ASSUME NEW E, NEW s \in Seq(E), NEW t \in Seq(E), NEW i \in 0 .. Len(t)
  PROVE  /\ Spliced(t, i, s) \in Seq(E)
         /\ Len(Spliced(t, i, s)) = Len(t) + Len(s)
<1>1. \A k \in 1 .. Len(t) + Len(s) : Spliced(t, i, s)[k] \in E
  BY DEF Spliced
<1>2. /\ DOMAIN Spliced(t, i, s) = 1 .. Len(t) + Len(s)
      /\ Len(t) + Len(s) \in Nat
  BY DEF Spliced
<1> QED
  BY <1>1, <1>2 DEF Spliced

\* All of one list, put between two neighbours of another.
LEMMA SpliceKeeps ==
  ASSUME NEW C, NEW X, NEW H, NEW E, NEW g, NEW c, Kept(g, c, C, X, H, E),
         NEW src \in H, NEW dst \in H, src # dst, c[src] # <<>>,
         NEW i \in 0 .. Len(c[dst]),
         NEW k \in Memories(C, X),
         k.next = [g.next EXCEPT ![g.prev[src]] = At(dst, c[dst], i + 1),
                                 ![At(dst, c[dst], i)] = g.next[src], ![src] = src],
         k.prev = [g.prev EXCEPT ![At(dst, c[dst], i + 1)] = g.prev[src],
                                 ![g.next[src]] = At(dst, c[dst], i), ![src] = src]
  PROVE  Kept(k, [c EXCEPT ![src] = <<>>, ![dst] = Spliced(@, i, c[src])],
              C, X, H, E)
<1> DEFINE s == c[src]
           t == c[dst]
           u == Spliced(t, i, s)
           n == Len(s)
           m == Len(t)
           p == At(dst, t, i)
           q == At(dst, t, i + 1)
           first == At(src, s, 1)
           last == At(src, s, n)
           d == [c EXCEPT ![src] = <<>>, ![dst] = u]
<1>1. /\ s \in Seq(E) /\ t \in Seq(E) /\ n \in Nat \ {0}
      /\ m \in Nat /\ i \in 0 .. m
      /\ g.next[src] = first /\ g.prev[src] = last
      /\ src \in C /\ dst \in C /\ E \subseteq C /\ src \notin E /\ dst \notin E
  <2>1. s \in Seq(E) /\ n \in Nat /\ t \in Seq(E) /\ m \in Nat
    BY RingCells
  <2>2. n # 0
    BY <2>1
  <2> QED
    BY <2>1, <2>2, RingCells DEF Kept
<1>2. /\ \A j \in 0 .. n : /\ g.next[At(src, s, j)] = At(src, s, j + 1)
                           /\ g.prev[At(src, s, j + 1)] = At(src, s, j)
      /\ \A j \in 0 .. m : /\ g.next[At(dst, t, j)] = At(dst, t, j + 1)
                           /\ g.prev[At(dst, t, j + 1)] = At(dst, t, j)
  BY DEF Kept, Rings, Ring
<1>3. \A v, w \in H : \A j \in 1 .. Len(c[v]), r \in 1 .. Len(c[w]) :
        c[v][j] = c[w][r] => v = w /\ j = r
  BY DEF Kept, Rings
<1>4. /\ \A j \in 1 .. n : s[j] \in E /\ At(src, s, j) = s[j]
      /\ \A j \in 1 .. m : t[j] \in E /\ At(dst, t, j) = t[j]
      /\ \A j, r \in 1 .. n : s[j] = s[r] => j = r
      /\ \A j \in 1 .. n, r \in 1 .. m : s[j] # t[r]
  BY <1>1, <1>3 DEF At
<1>5. /\ \A j \in Nat : At(dst, t, j) \in C \ {src}
      /\ \A j \in Nat, r \in 1 .. n : At(dst, t, j) # s[r]
      /\ first = s[1] /\ last = s[n]
  BY <1>1, <1>4 DEF At
<1>6. /\ \A a, b \in 0 .. m : At(dst, t, a) = At(dst, t, b) => a = b
      /\ \A a, b \in 1 .. m + 1 : At(dst, t, a) = At(dst, t, b) => a = b
  <2>1. \A a, b \in 0 .. m : At(dst, t, a) = At(dst, t, b) => a = b
    BY RingCells
  <2> QED
    BY <2>1, <1>1 DEF At
<1>7. /\ k.next = [g.next EXCEPT ![last] = q, ![p] = first, ![src] = src]
      /\ k.prev = [g.prev EXCEPT ![q] = last, ![first] = p, ![src] = src]
      /\ DOMAIN g.next = C /\ DOMAIN g.prev = C
  BY <1>1 DEF Kept, Memories
<1>8. u \in Seq(E) /\ Len(u) = m + n
  <2> HIDE DEF s, t
  <2> QED
    BY <1>1, SplicedIs
<1>9. \A j \in 0 .. m + n + 1 :
        At(dst, u, j) = IF j <= i THEN At(dst, t, j)
                        ELSE IF j <= i + n THEN s[j - i] ELSE At(dst, t, j - n)
  <2> SUFFICES ASSUME NEW j \in 0 .. m + n + 1
               PROVE  At(dst, u, j) = IF j <= i THEN At(dst, t, j)
                                      ELSE IF j <= i + n THEN s[j - i]
                                      ELSE At(dst, t, j - n)
    OBVIOUS
  <2>1. \A x \in 1 .. m + n :
          u[x] = IF x <= i THEN t[x] ELSE IF x <= i + n THEN s[x - i] ELSE t[x - n]
    BY DEF Spliced
  <2> HIDE DEF u, s, t, m, n
  <2>2. CASE j \in 1 .. m + n
    <3>1. At(dst, u, j) = u[j]
      BY <1>8, <2>2 DEF At
    <3>2. j <= i => At(dst, t, j) = t[j]
      BY <1>1, <2>2 DEF At, m
    <3>3. j > i + n => At(dst, t, j - n) = t[j - n]
      BY <1>1, <2>2 DEF At, m
    <3> QED
      BY <1>1, <2>1, <2>2, <3>1, <3>2, <3>3
  <2>3. CASE j = 0 \/ j = m + n + 1
    <3>1. At(dst, u, j) = dst
      BY <1>1, <1>8, <2>3 DEF At
    <3>2. CASE j = 0
      BY <1>1, <3>1, <3>2 DEF At
    <3>3. CASE j = m + n + 1
      <4>1. j - n = m + 1 /\ ~(j <= i) /\ ~(j <= i + n)
        BY <1>1, <3>3
      <4>2. At(dst, t, m + 1) = dst
        BY <1>1 DEF At, m
      <4> QED
        BY <3>1, <4>1, <4>2
    <3> QED
      BY <2>3, <3>2, <3>3
  <2> QED
    BY <1>1, <2>2, <2>3
<1>10. /\ p \in C \ {src} /\ q \in C \ {src} /\ first \in C /\ last \in C
       /\ first # src /\ last # src /\ p # last /\ q # first
       /\ \A r \in 1 .. n : s[r] # p /\ s[r] # q /\ s[r] # src
  BY <1>1, <1>4, <1>5
<1>11. \A x \in C : /\ x \notin {last, p, src} => k.next[x] = g.next[x]
                    /\ x \notin {first, q, src} => k.prev[x] = g.prev[x]
  BY <1>7
<1>12. /\ k.next[last] = q /\ k.next[p] = first /\ k.next[src] = src
       /\ k.prev[q] = last /\ k.prev[first] = p /\ k.prev[src] = src
  BY <1>1, <1>7, <1>10
<1>13. Ring(k, dst, u)
  <2> SUFFICES ASSUME NEW j \in 0 .. m + n
               PROVE  /\ k.next[At(dst, u, j)] = At(dst, u, j + 1)
                      /\ k.prev[At(dst, u, j + 1)] = At(dst, u, j)
    BY <1>8 DEF Ring
  <2> HIDE DEF s, t, u, n, m, p, q, first, last
  <2>1. CASE j < i
    <3>1. /\ j \in 0 .. m /\ j + 1 \in 1 .. m + 1 /\ i + 1 \in 1 .. m + 1
          /\ j # i /\ j + 1 # i + 1 /\ j \in Nat /\ j + 1 \in Nat
          /\ i \in 0 .. m
      BY <1>1, <2>1
    <3>2. /\ At(dst, u, j) = At(dst, t, j)
          /\ At(dst, u, j + 1) = At(dst, t, j + 1)
      BY <1>1, <1>9, <2>1
    <3>3. At(dst, t, j) # p /\ At(dst, t, j + 1) # q
      BY <1>6, <3>1 DEF p, q
    <3>4. /\ At(dst, t, j) \in C \ {last, p, src}
          /\ At(dst, t, j + 1) \in C \ {first, q, src}
      BY <1>1, <1>5, <3>1, <3>3
    <3>5. /\ k.next[At(dst, t, j)] = g.next[At(dst, t, j)]
          /\ k.prev[At(dst, t, j + 1)] = g.prev[At(dst, t, j + 1)]
      BY <1>11, <3>4
    <3> QED
      BY <1>2, <3>1, <3>2, <3>5
  <2>2. CASE j = i
    <3>1. At(dst, u, j) = p
      BY <1>1, <1>9, <2>2 DEF p
    <3>2. At(dst, u, j + 1) = first
      BY <1>1, <1>5, <1>9, <2>2
    <3> QED
      BY <1>12, <3>1, <3>2
  <2>3. CASE i < j /\ j < i + n
    <3>1. /\ j - i \in 1 .. n /\ (j - i) + 1 \in 1 .. n /\ j - i # n
          /\ (j - i) + 1 # 1 /\ j - i \in 0 .. n /\ n \in 1 .. n /\ 1 \in 1 .. n
          /\ (j + 1) - i = (j - i) + 1
      BY <1>1, <2>3
    <3>2. At(dst, u, j) = s[j - i] /\ At(dst, u, j + 1) = s[(j - i) + 1]
      BY <1>1, <1>9, <2>3, <3>1
    <3>3. s[j - i] # last /\ s[(j - i) + 1] # first
      BY <1>4, <1>5, <3>1
    <3>4. /\ k.next[s[j - i]] = g.next[s[j - i]]
          /\ k.prev[s[(j - i) + 1]] = g.prev[s[(j - i) + 1]]
      BY <1>1, <1>4, <1>10, <1>11, <3>1, <3>3
    <3> QED
      BY <1>2, <1>4, <3>1, <3>2, <3>4
  <2>4. CASE j = i + n
    <3>1. At(dst, u, j) = last
      BY <1>1, <1>5, <1>9, <2>4
    <3>2. At(dst, u, j + 1) = q
      BY <1>1, <1>9, <2>4 DEF q
    <3> QED
      BY <1>12, <3>1, <3>2
  <2>5. CASE j > i + n
    <3>1. /\ j - n \in 0 .. m /\ (j - n) + 1 \in 1 .. m + 1
          /\ i + 1 \in 1 .. m + 1 /\ i \in 0 .. m
          /\ j - n # i /\ (j - n) + 1 # i + 1 /\ j - n \in Nat
          /\ (j - n) + 1 \in Nat /\ (j + 1) - n = (j - n) + 1
      BY <1>1, <2>5
    <3>2. /\ At(dst, u, j) = At(dst, t, j - n)
          /\ At(dst, u, j + 1) = At(dst, t, (j - n) + 1)
      BY <1>1, <1>9, <2>5, <3>1
    <3>3. At(dst, t, j - n) # p /\ At(dst, t, (j - n) + 1) # q
      BY <1>6, <3>1 DEF p, q
    <3>4. /\ At(dst, t, j - n) \in C \ {last, p, src}
          /\ At(dst, t, (j - n) + 1) \in C \ {first, q, src}
      BY <1>1, <1>5, <3>1, <3>3
    <3>5. /\ k.next[At(dst, t, j - n)] = g.next[At(dst, t, j - n)]
          /\ k.prev[At(dst, t, (j - n) + 1)] = g.prev[At(dst, t, (j - n) + 1)]
      BY <1>11, <3>4
    <3> QED
      BY <1>2, <3>1, <3>2, <3>5
  <2>6. j < i \/ j = i \/ (i < j /\ j < i + n) \/ j = i + n \/ j > i + n
    BY <1>1
  <2> QED
    BY <2>1, <2>2, <2>3, <2>4, <2>5, <2>6
<1>14. Ring(k, src, <<>>)
  BY <1>12 DEF Ring, At
<1>15. ASSUME NEW a \in H, a # src, a # dst PROVE Ring(k, a, c[a])
  <2>1. /\ c[a] \in Seq(E) /\ Len(c[a]) \in Nat /\ Ring(g, a, c[a])
        /\ a \in C /\ a \notin E
    BY DEF Kept, Rings
  <2>2. a \notin {first, last, p, q, src}
    BY <1>1, <1>4, <1>5, <1>15, <2>1 DEF At
  <2>3. \A j \in 1 .. Len(c[a]) : c[a][j] \in C \ {first, last, p, q, src}
    <3> SUFFICES ASSUME NEW j \in 1 .. Len(c[a])
                 PROVE  c[a][j] \in C \ {first, last, p, q, src}
      OBVIOUS
    <3>1. c[a][j] \in E
      BY <2>1
    <3>2. /\ \A r \in 1 .. n : c[a][j] # s[r]
          /\ \A r \in 1 .. m : c[a][j] # t[r]
      BY <1>3, <1>15
    <3>3. \A r \in Nat : c[a][j] # At(dst, t, r)
      BY <1>1, <3>1, <3>2 DEF At
    <3>4. 1 \in 1 .. n /\ n \in 1 .. n /\ i \in Nat /\ i + 1 \in Nat
      BY <1>1
    <3> HIDE DEF s, t
    <3> QED
      BY <1>1, <1>5, <3>1, <3>2, <3>3, <3>4
  <2> HIDE DEF first, last, p, q
  <2> QED
    BY <1>11, <2>1, <2>2, <2>3, RingStays
<1>16. \A a \in H :
         d[a] = IF a = dst THEN u ELSE IF a = src THEN <<>> ELSE c[a]
  BY DEF Kept, Rings
<1>17. d \in [H -> Seq(E)]
  <2>1. <<>> \in Seq(E)
    OBVIOUS
  <2> HIDE DEF u
  <2> QED
    BY <1>8, <2>1 DEF Kept, Rings
<1>18. ASSUME NEW a \in H, NEW x \in 1 .. Len(d[a])
       PROVE  \E o \in H : \E r \in 1 .. Len(c[o]) :
                /\ d[a][x] = c[o][r]
                /\ a = IF o = src THEN dst ELSE o
                /\ x = IF o = src THEN r + i
                       ELSE IF o = dst /\ r > i THEN r + n ELSE r
  <2>1. CASE a = dst
    <3>1. d[a] = u /\ x \in 1 .. m + n
      BY <1>8, <1>16, <1>18, <2>1
    <3>2. u[x] = IF x <= i THEN t[x] ELSE IF x <= i + n THEN s[x - i] ELSE t[x - n]
      BY <3>1 DEF Spliced
    <3> HIDE DEF u, d
    <3>3. CASE x <= i
      <4>1. x \in 1 .. Len(c[dst]) /\ d[a][x] = c[dst][x]
        BY <1>1, <3>1, <3>2, <3>3
      <4> QED
        BY <1>1, <2>1, <3>3, <4>1
    <3>4. CASE i < x /\ x <= i + n
      <4>1. /\ x - i \in 1 .. Len(c[src]) /\ d[a][x] = c[src][x - i]
            /\ (x - i) + i = x
        BY <1>1, <3>1, <3>2, <3>4
      <4> QED
        BY <2>1, <4>1
    <3>5. CASE x > i + n
      <4>1. /\ x - n \in 1 .. Len(c[dst]) /\ d[a][x] = c[dst][x - n]
            /\ (x - n) + n = x /\ x - n > i
        <5>1. m = Len(c[dst]) /\ t = c[dst]
          OBVIOUS
        <5> HIDE DEF m, n, t
        <5>2. /\ x - n \in 1 .. m /\ d[a][x] = t[x - n]
              /\ (x - n) + n = x /\ x - n > i
          BY <1>1, <3>1, <3>2, <3>5
        <5> QED
          BY <5>1, <5>2
      <4> HIDE DEF n
      <4> QED
        BY <2>1, <4>1
    <3> QED
      BY <1>1, <3>1, <3>3, <3>4, <3>5
  <2>2. CASE a # dst
    <3>1. a # src
      <4>1. Len(<<>>) = 0
        OBVIOUS
      <4>2. a = src => d[a] = <<>>
        BY <1>16, <2>2
      <4> HIDE DEF d
      <4> QED
        BY <1>18, <4>1, <4>2
    <3>2. d[a] = c[a]
      BY <1>16, <2>2, <3>1
    <3> HIDE DEF d
    <3> QED
      BY <1>18, <2>2, <3>1, <3>2
  <2> QED
    BY <2>1, <2>2
<1>19. ASSUME NEW a \in H, NEW b \in H, NEW x \in 1 .. Len(d[a]),
              NEW y \in 1 .. Len(d[b]), d[a][x] = d[b][y]
       PROVE  a = b /\ x = y
  <2>1. PICK o \in H : \E r \in 1 .. Len(c[o]) :
          /\ d[a][x] = c[o][r]
          /\ a = IF o = src THEN dst ELSE o
          /\ x = IF o = src THEN r + i
                 ELSE IF o = dst /\ r > i THEN r + n ELSE r
    BY <1>18
  <2>2. PICK v \in H : \E r \in 1 .. Len(c[v]) :
          /\ d[b][y] = c[v][r]
          /\ b = IF v = src THEN dst ELSE v
          /\ y = IF v = src THEN r + i
                 ELSE IF v = dst /\ r > i THEN r + n ELSE r
    BY <1>18
  <2>3. n \in Nat /\ i \in Nat /\ src # dst
    BY <1>1
  <2> HIDE DEF d, u, s, t, n, m
  <2>4. PICK r \in 1 .. Len(c[o]) :
          /\ d[a][x] = c[o][r]
          /\ a = IF o = src THEN dst ELSE o
          /\ x = IF o = src THEN r + i
                 ELSE IF o = dst /\ r > i THEN r + n ELSE r
    BY <2>1
  <2>5. PICK z \in 1 .. Len(c[v]) :
          /\ d[b][y] = c[v][z]
          /\ b = IF v = src THEN dst ELSE v
          /\ y = IF v = src THEN z + i
                 ELSE IF v = dst /\ z > i THEN z + n ELSE z
    BY <2>2
  <2>6. o = v /\ r = z
    <3>1. c[o][r] = c[v][z]
      BY <1>19, <2>4, <2>5
    <3>2. \A j \in 1 .. Len(c[o]), w \in 1 .. Len(c[v]) :
            c[o][j] = c[v][w] => o = v /\ j = w
      BY <1>3
    <3> QED
      BY <3>1, <3>2
  <2> QED
    BY <2>4, <2>5, <2>6
<1> QED
  <2>1. \A a \in H : Ring(k, a, d[a])
    BY <1>13, <1>14, <1>15, <1>16
  <2> QED
    BY <1>17, <1>19, <2>1 DEF Kept, Rings

\* x is on list l.
OnList(c, l, x) == \E i \in 1 .. Len(c[l]) : c[l][i] = x

\* An entry is on no list when it is on none of them.
LEMMA OffIs ==
  ASSUME NEW c, NEW H, NEW x
  PROVE  Off(c, H, x) <=> \A l \in H : ~OnList(c, l, x)
BY DEF Off, OnList

\* The entries of an insertion, of a removal and of a splice.
LEMMA AddOn ==
  ASSUME NEW H, NEW E, NEW c \in [H -> Seq(E)], NEW l \in H,
         NEW i \in 0 .. Len(c[l]), NEW e, NEW m \in H, NEW x
  PROVE  OnList([c EXCEPT ![l] = InsertAt(@, i, e)], m, x)
           <=> OnList(c, m, x) \/ (m = l /\ x = e)
<1> DEFINE s == c[l]
           t == InsertAt(s, i, e)
<1>1. s \in Seq(E) /\ Len(s) \in Nat /\ i \in 0 .. Len(s)
  OBVIOUS
<1>2. Len(t) = Len(s) + 1
  BY <1>1 DEF InsertAt
<1>3. \A k \in 1 .. Len(s) + 1 :
        t[k] = IF k <= i THEN s[k] ELSE IF k = i + 1 THEN e ELSE s[k - 1]
  BY DEF InsertAt
<1> HIDE DEF t
<1>4. (\E k \in 1 .. Len(t) : t[k] = x)
        <=> (\E k \in 1 .. Len(s) : s[k] = x) \/ x = e
  <2> HIDE DEF s
  <2>1. ASSUME NEW k \in 1 .. Len(t), t[k] = x
        PROVE  (\E j \in 1 .. Len(s) : s[j] = x) \/ x = e
    <3>1. k <= i \/ k = i + 1 \/ k - 1 \in 1 .. Len(s)
      BY <1>1, <1>2
    <3>2. k <= i => k \in 1 .. Len(s)
      BY <1>1, <1>2
    <3> QED
      BY <1>1, <1>2, <1>3, <2>1, <3>1, <3>2
  <2>2. ASSUME NEW k \in 1 .. Len(s), s[k] = x
        PROVE  \E j \in 1 .. Len(t) : t[j] = x
    <3>1. CASE k <= i
      <4>1. k \in 1 .. Len(t) /\ t[k] = x
        BY <1>1, <1>2, <1>3, <2>2, <3>1
      <4> QED
        BY <4>1
    <3>2. CASE k > i
      <4>1. k + 1 \in 1 .. Len(t) /\ t[k + 1] = x
        BY <1>1, <1>2, <1>3, <2>2, <3>2
      <4> QED
        BY <4>1
    <3> QED
      BY <1>1, <3>1, <3>2
  <2>3. i + 1 \in 1 .. Len(t) /\ t[i + 1] = e
    BY <1>1, <1>2, <1>3
  <2> QED
    BY <2>1, <2>2, <2>3
<1> QED
  BY <1>4 DEF OnList, t

\* What is on the lists when one entry is taken off.
LEMMA CutOn ==
  ASSUME NEW C, NEW X, NEW H, NEW E, NEW g, NEW c, Kept(g, c, C, X, H, E),
         NEW l \in H, NEW i \in 1 .. Len(c[l]), NEW m \in H, NEW x
  PROVE  OnList([c EXCEPT ![l] = Without(@, i)], m, x)
           <=> OnList(c, m, x) /\ x # c[l][i]
<1> DEFINE s == c[l]
           t == Without(s, i)
<1>1. s \in Seq(E) /\ Len(s) \in Nat /\ i \in 1 .. Len(s)
  BY DEF Kept, Rings
<1>2. Len(t) = Len(s) - 1
  BY <1>1 DEF Without
<1>3. \A k \in 1 .. Len(s) - 1 : t[k] = IF k < i THEN s[k] ELSE s[k + 1]
  BY DEF Without
<1>4. \A v, w \in H : \A j \in 1 .. Len(c[v]), r \in 1 .. Len(c[w]) :
        c[v][j] = c[w][r] => v = w /\ j = r
  BY DEF Kept, Rings
<1>5. CASE m # l
  <2>1. [c EXCEPT ![l] = t][m] = c[m]
    BY <1>5 DEF Kept, Rings
  <2>2. OnList(c, m, x) => x # c[l][i]
    BY <1>4, <1>5 DEF OnList
  <2> QED
    BY <2>1, <2>2 DEF OnList
<1>6. CASE m = l
  <2>1. [c EXCEPT ![l] = t][m] = t
    BY <1>6 DEF Kept, Rings
  <2> HIDE DEF t
  <2>2. \A j, r \in 1 .. Len(s) : s[j] = s[r] => j = r
    BY <1>4
  <2> HIDE DEF s
  <2>3. ASSUME NEW k \in 1 .. Len(t), t[k] = x
        PROVE  (\E j \in 1 .. Len(s) : s[j] = x) /\ x # s[i]
    <3> DEFINE P == IF k < i THEN k ELSE k + 1
    <3>1. P \in 1 .. Len(s) /\ P # i /\ x = s[P]
      BY <1>1, <1>2, <1>3, <2>3
    <3> HIDE DEF P
    <3> QED
      BY <1>1, <2>2, <3>1
  <2>4. ASSUME NEW k \in 1 .. Len(s), s[k] = x, x # s[i]
        PROVE  \E j \in 1 .. Len(t) : t[j] = x
    <3>1. CASE k < i
      <4>1. k \in 1 .. Len(t) /\ t[k] = x
        BY <1>1, <1>2, <1>3, <2>4, <3>1
      <4> QED
        BY <4>1
    <3>2. CASE k > i
      <4>1. k - 1 \in 1 .. Len(t) /\ t[k - 1] = x
        BY <1>1, <1>2, <1>3, <2>4, <3>2
      <4> QED
        BY <4>1
    <3> QED
      BY <1>1, <2>4, <3>1, <3>2
  <2> QED
    BY <1>6, <2>1, <2>3, <2>4 DEF OnList, s, t
<1> QED
  BY <1>5, <1>6

\* What is on the lists when all of one is put on another.
LEMMA SpliceOn ==
  ASSUME NEW H, NEW E, NEW c \in [H -> Seq(E)], NEW src \in H, NEW dst \in H,
         src # dst, NEW i \in 0 .. Len(c[dst]), NEW m \in H, NEW x
  PROVE  OnList([c EXCEPT ![src] = <<>>, ![dst] = Spliced(@, i, c[src])], m, x)
           <=> m # src /\ (OnList(c, m, x) \/ (m = dst /\ OnList(c, src, x)))
<1> DEFINE s == c[src]
           t == c[dst]
           u == Spliced(t, i, s)
           d == [c EXCEPT ![src] = <<>>, ![dst] = u]
<1>1. /\ s \in Seq(E) /\ t \in Seq(E) /\ Len(s) \in Nat /\ Len(t) \in Nat
      /\ i \in 0 .. Len(t)
  OBVIOUS
<1>2. Len(u) = Len(t) + Len(s)
  <2> HIDE DEF s, t
  <2> QED
    BY <1>1, SplicedIs
<1>3. \A k \in 1 .. Len(t) + Len(s) :
        u[k] = IF k <= i THEN t[k]
               ELSE IF k <= i + Len(s) THEN s[k - i] ELSE t[k - Len(s)]
  BY DEF Spliced
<1>4. d[src] = <<>> /\ d[dst] = u /\ (m \notin {src, dst} => d[m] = c[m])
  OBVIOUS
<1>5. Len(<<>>) = 0
  OBVIOUS
<1> HIDE DEF d, u, s, t
<1>6. ASSUME NEW k \in 1 .. Len(u), u[k] = x
      PROVE  (\E j \in 1 .. Len(t) : t[j] = x) \/ (\E j \in 1 .. Len(s) : s[j] = x)
  <2>1. k <= i => k \in 1 .. Len(t)
    BY <1>1, <1>2
  <2>2. i < k /\ k <= i + Len(s) => k - i \in 1 .. Len(s)
    BY <1>1, <1>2
  <2>3. k > i + Len(s) => k - Len(s) \in 1 .. Len(t)
    BY <1>1, <1>2
  <2>4. k \in 1 .. Len(t) + Len(s) /\ k \in Nat
    BY <1>1, <1>2
  <2>5. k <= i \/ (i < k /\ k <= i + Len(s)) \/ k > i + Len(s)
    BY <1>1, <2>4
  <2>6. CASE k <= i
    BY <1>3, <1>6, <2>1, <2>4, <2>6
  <2>7. CASE i < k /\ k <= i + Len(s)
    <3>1. ~(k <= i)
      BY <1>1, <2>4, <2>7
    <3> QED
      BY <1>3, <1>6, <2>2, <2>4, <2>7, <3>1
  <2>8. CASE k > i + Len(s)
    <3>1. ~(k <= i) /\ ~(k <= i + Len(s))
      BY <1>1, <2>4, <2>8
    <3> QED
      BY <1>3, <1>6, <2>3, <2>4, <2>8, <3>1
  <2> QED
    BY <2>5, <2>6, <2>7, <2>8
<1>7. ASSUME NEW k \in 1 .. Len(t), t[k] = x
      PROVE  \E j \in 1 .. Len(u) : u[j] = x
  <2>1. CASE k <= i
    <3>1. k \in 1 .. Len(u) /\ u[k] = x
      BY <1>1, <1>2, <1>3, <1>7, <2>1
    <3> QED
      BY <3>1
  <2>2. CASE k > i
    <3> DEFINE j == k + Len(s)
    <3>2. /\ j \in 1 .. Len(t) + Len(s) /\ ~(j <= i) /\ ~(j <= i + Len(s))
          /\ j - Len(s) = k
      BY <1>1, <2>2
    <3> HIDE DEF j
    <3>1. j \in 1 .. Len(u) /\ u[j] = x
      BY <1>2, <1>3, <1>7, <3>2
    <3> QED
      BY <3>1
  <2> QED
    BY <1>1, <2>1, <2>2
<1>8. ASSUME NEW k \in 1 .. Len(s), s[k] = x
      PROVE  \E j \in 1 .. Len(u) : u[j] = x
  <2>1. k + i \in 1 .. Len(u) /\ u[k + i] = x
    BY <1>1, <1>2, <1>3, <1>8
  <2> QED
    BY <2>1
<1>9. OnList(d, src, x) <=> FALSE
  BY <1>4, <1>5 DEF OnList
<1>10. OnList(d, dst, x) <=> OnList(c, dst, x) \/ OnList(c, src, x)
  BY <1>4, <1>6, <1>7, <1>8 DEF OnList, s, t
<1>11. m \notin {src, dst} => (OnList(d, m, x) <=> OnList(c, m, x))
  BY <1>4 DEF OnList
<1> QED
  BY <1>9, <1>10, <1>11 DEF d, u, s, t

\* The cells such calls write are of the list and the entry they are about.
LEMMA AddTouches ==
  ASSUME NEW C, NEW X, NEW H, NEW E, NEW g, NEW c, Kept(g, c, C, X, H, E),
         NEW l \in H, NEW i \in 0 .. Len(c[l]), NEW e \in E, NEW x \in C,
         x \notin H, ~OnList(c, l, x), x # e
  PROVE  LET k == Ops!ListAdd(g, e, At(l, c[l], i), At(l, c[l], i + 1))
         IN  k.next[x] = g.next[x] /\ k.prev[x] = g.prev[x]
<1> DEFINE p == At(l, c[l], i)
           n == At(l, c[l], i + 1)
           k == Ops!ListAdd(g, e, p, n)
<1>1. /\ p \in C /\ n \in C /\ e \in C /\ Len(c[l]) \in Nat
      /\ g \in Memories(C, X) /\ C \subseteq X
  BY RingCells DEF Kept
<1>2. x # p /\ x # n
  BY <1>1 DEF OnList, At
<1> HIDE DEF p, n
<1>3. /\ k.next = [g.next EXCEPT ![e] = n, ![p] = e]
      /\ k.prev = [g.prev EXCEPT ![n] = e, ![e] = p]
  BY <1>1, AddLinks
<1>4. k.next[x] = g.next[x] /\ k.prev[x] = g.prev[x]
  BY <1>1, <1>2, <1>3 DEF Memories
<1> QED
  BY <1>4 DEF p, n

\* To unlink an entry touches no cell of another list.
LEMMA CutTouches ==
  ASSUME NEW C, NEW X, NEW H, NEW E, NEW g, NEW c, Kept(g, c, C, X, H, E),
         NEW l \in H, NEW i \in 1 .. Len(c[l]), NEW x \in C,
         x \notin H, ~OnList(c, l, x)
  PROVE  LET k == Ops!Unlink(g, c[l][i])
         IN  k.next[x] = g.next[x] /\ k.prev[x] = g.prev[x]
<1> DEFINE e == c[l][i]
           p == At(l, c[l], i - 1)
           n == At(l, c[l], i + 1)
           k == Ops!Unlink(g, e)
<1>1. /\ i \in Nat /\ i - 1 \in 0 .. Len(c[l]) /\ i - 1 \in Nat
      /\ i \in 0 .. Len(c[l]) /\ (i - 1) + 1 = i /\ i + 1 \in Nat
      /\ e = At(l, c[l], i)
  BY RingCells
<1>2. g.next[e] = n /\ g.prev[e] = p
  BY <1>1 DEF Kept, Rings, Ring
<1>3. /\ p \in C /\ n \in C /\ e \in C /\ Len(c[l]) \in Nat
      /\ g \in Memories(C, X) /\ C \subseteq X /\ NULL \notin C
  BY <1>1, RingCells DEF Kept
<1>4. x # p /\ x # n
  BY <1>1, <1>3 DEF OnList, At
<1> HIDE DEF p, n, e
<1>5. /\ k.next = [g.next EXCEPT ![p] = n]
      /\ k.prev = [g.prev EXCEPT ![n] = p]
  <2>1. g.next[e] \in C /\ g.prev[e] \in C
    BY <1>2, <1>3
  <2>2. /\ k.next = [g.next EXCEPT ![g.prev[e]] = g.next[e]]
        /\ k.prev = [g.prev EXCEPT ![g.next[e]] = g.prev[e]]
    BY <1>3, <2>1, CutLinks
  <2> QED
    BY <1>2, <2>2
<1>6. k.next[x] = g.next[x] /\ k.prev[x] = g.prev[x]
  BY <1>3, <1>4, <1>5 DEF Memories
<1> QED
  BY <1>6 DEF e

\* The links of an entry alone, and of one that is overwritten.
LEMMA InitLinks ==
  ASSUME NEW C, NEW X, NEW g \in Memories(C, X), C \subseteq X, NEW e \in C
  PROVE  LET k == Ops!InitEntry(g, e)
         IN  /\ k \in Memories(C, X) /\ k.next[e] = e /\ k.prev[e] = e
             /\ \A x \in C \ {e} : k.next[x] = g.next[x] /\ k.prev[x] = g.prev[x]
BY DEF Memories, Ops!InitEntry


\* A sequence without repetition is no longer than there are elements.
LEMMA DistinctIsShort ==
  ASSUME NEW S, IsFiniteSet(S), NEW s \in Seq(S),
         \A i, j \in 1 .. Len(s) : s[i] = s[j] => i = j
  PROVE  Len(s) <= Cardinality(S) /\ Cardinality(S) \in Nat
<1>1. Len(s) \in Nat /\ Cardinality(S) \in Nat
  BY FS_CardinalityType
<1>2. s \in Injection(1 .. Len(s), S)
  <2>1. s \in [1 .. Len(s) -> S]
    BY <1>1
  <2> QED
    BY <2>1 DEF Injection, IsInjective
<1>3. Cardinality(1 .. Len(s)) = Len(s)
  <2>1. Cardinality(1 .. Len(s)) = IF 1 > Len(s) THEN 0 ELSE (Len(s) - 1) + 1
    <3>1. 1 \in Int /\ Len(s) \in Int
      BY <1>1
    <3> QED
      BY <3>1, FS_Interval
  <2> QED
    BY <1>1, <2>1
<1>4. Cardinality(1 .. Len(s)) <= Cardinality(S)
  BY <1>2, FS_Injection DEF ExistsInjection
<1> QED
  BY <1>1, <1>3, <1>4

\* Walking a list from its head meets its entries, and from its tail the same
\* ones backwards.
LEMMA WalksMeet ==
  ASSUME NEW C, NEW X, NEW H, NEW E, NEW g, NEW c, Kept(g, c, C, X, H, E),
         NULL \notin E, NEW l \in H, NEW b \in Nat, Len(c[l]) <= b
  PROVE  /\ Ops!OnList(g, l, b) = c[l]
         /\ Ops!Backwards(g, l, b) = Ops!Reverse(c[l])
<1> DEFINE s == c[l]
           r == Ops!Reverse(s)
<1>1. /\ s \in Seq(E) /\ Len(s) \in Nat /\ l \notin E /\ Ring(g, l, s)
      /\ g.next[l] = At(l, s, 1) /\ g.prev[l] = At(l, s, Len(s))
  BY RingCells DEF Kept, Rings
<1>2. Ops!OnList(g, l, b) = s
  <2>1. \A i \in 1 .. Len(s) : g.next[s[i]] = At(l, s, i + 1)
    BY <1>1 DEF Ring, At
  <2> QED
    BY <1>1, <2>1, WalkMeets DEF Ops!OnList
<1> HIDE DEF s
<1>3. /\ r \in Seq(E) /\ Len(r) = Len(s)
      /\ \A i \in 1 .. Len(s) : r[i] = s[(Len(s) - i) + 1]
  <2>1. r = [i \in 1 .. Len(s) |-> s[(Len(s) - i) + 1]]
    BY DEF Ops!Reverse
  <2>2. \A i \in 1 .. Len(s) : s[(Len(s) - i) + 1] \in E
    <3> SUFFICES ASSUME NEW i \in 1 .. Len(s) PROVE s[(Len(s) - i) + 1] \in E
      OBVIOUS
    <3>1. (Len(s) - i) + 1 \in 1 .. Len(s)
      BY <1>1
    <3> QED
      BY <1>1, <3>1
  <2> QED
    BY <1>1, <2>1, <2>2
<1> HIDE DEF r
<1>4. g.prev[l] = At(l, r, 1)
  <2>1. CASE Len(s) = 0
    BY <1>1, <1>3, <2>1 DEF At
  <2>2. CASE Len(s) # 0
    <3>1. /\ 1 \in 1 .. Len(s) /\ (Len(s) - 1) + 1 = Len(s)
          /\ Len(s) \in 1 .. Len(s)
      BY <1>1, <2>2
    <3> QED
      BY <1>1, <1>3, <3>1 DEF At
  <2> QED
    BY <2>1, <2>2
<1>5. ASSUME NEW i \in 1 .. Len(r) PROVE g.prev[r[i]] = At(l, r, i + 1)
  <2> DEFINE j == Len(s) - i
  <2>1. /\ j \in 0 .. Len(s) /\ j + 1 \in 1 .. Len(s) /\ r[i] = s[j + 1]
        /\ At(l, s, j + 1) = s[j + 1]
    BY <1>1, <1>3 DEF At
  <2>2. g.prev[r[i]] = At(l, s, j)
    BY <1>1, <2>1 DEF Ring
  <2>3. CASE j = 0
    <3>1. i + 1 \notin 1 .. Len(r) /\ 0 \notin 1 .. Len(s)
      BY <1>1, <1>3, <2>3
    <3> QED
      BY <2>2, <2>3, <3>1 DEF At
  <2>4. CASE j # 0
    <3>1. /\ i + 1 \in 1 .. Len(r) /\ j \in 1 .. Len(s)
          /\ (Len(s) - (i + 1)) + 1 = j
      <4> DEFINE n == Len(s)
      <4>1. n \in Nat /\ i \in 1 .. n /\ n - i # 0 /\ Len(r) = n
        BY <1>1, <1>3, <2>4
      <4> HIDE DEF n
      <4>2. i + 1 \in 1 .. n /\ n - i \in 1 .. n /\ (n - (i + 1)) + 1 = n - i
        BY <4>1
      <4> QED
        BY <4>1, <4>2 DEF n
    <3>2. r[i + 1] = s[j]
      BY <1>3, <3>1
    <3> QED
      BY <2>2, <3>1, <3>2 DEF At
  <2> QED
    BY <2>3, <2>4
<1>6. Ops!Backwards(g, l, b) = r
  <2>1. \A i \in 1 .. Len(r) : g.prev[r[i]] = At(l, r, i + 1)
    BY <1>5
  <2>2. Len(r) <= b
    BY <1>3 DEF s
  <2>3. r \in Seq(E) /\ l \notin E /\ g.prev[l] = At(l, r, 1)
    BY <1>1, <1>3, <1>4
  <2>4. Ops!From(g.prev, g.prev[l], l, b) = r
    BY <2>1, <2>2, <2>3, WalkMeets
  <2> QED
    BY <2>4 DEF Ops!Backwards
<1> QED
  BY <1>2, <1>6 DEF s, r


-----------------------------------------------------------------------------
(* ObjectCache.                                                            *)

\* Where a thread may be in a call.
CachePlaces == {"idle", "reserve", "error_exit", "add_list", "add_count",
                "release", "release_turn", "release_free",
                "prealloc", "prealloc_pop", "prealloc_count",
                "free", "free_add", "free_count"}

\* The places where a thread has the lock, those where its local le is an
\* object it has, and those where its alloc_list is a list.
WithLock  == {"add_list", "add_count", "release_turn", "release_free",
              "prealloc_pop", "prealloc_count", "free_add", "free_count"}
WithEntry == {"release_free", "prealloc_count", "free", "free_add"}
WithList  == {"reserve", "add_list"}

\* The locals of a call.
CacheCall == [n : 0 .. MaxCall, i : 0 .. MaxCall,
              le : Objects \cup {NULL}, next : Cache!Cells \cup {NULL}]

\* What is known of a call x of thread t that is at place pl.
CallHolds(t, k, pl, x) ==
  /\ pl \in CachePlaces /\ x \in CacheCall
  /\ pl \in WithLock <=> k = t
  /\ pl \in WithEntry => x.le \in Objects
  /\ pl \in {"reserve", "release", "release_turn"} => x.i <= x.n
  /\ pl = "release_free" => x.i < x.n
  /\ pl \in {"add_list", "add_count"} => x.i = x.n

\* What is known of all calls; there is none when the cache is destroyed.
CallsHold(al, k, p, cl) ==
  /\ al \in BOOLEAN /\ k \in Threads \cup {NoThread}
  /\ p \in [Threads -> CachePlaces] /\ cl \in [Threads -> CacheCall]
  /\ \A t \in Threads : CallHolds(t, k, p[t], cl[t])
  /\ ~al => \A t \in Threads : p[t] = "idle"

\* What a link of the cache's memory may hold.
CacheX == Cache!Cells \cup {NULL, Data}

\* The lists are the reserved one and those of reservations going on.
CacheLists(p) == {Reserved_list} \cup {t \in Threads : p[t] \in WithList}

\* The memory g holds the lists c of the cache.
CacheKept(g, p, c) == Kept(g, c, Cache!Cells, CacheX, CacheLists(p), Objects)

\* What a failed reservation has yet to free, q: le is the first of them, next
\* the second, and the others are linked forward as they were on its list.
ChainHolds(g, t, x, q) ==
  /\ Len(q) >= 1 /\ x.le = q[1] /\ x.next = At(t, q, 2)
  /\ \A i, j \in 1 .. Len(q) : q[i] = q[j] => i = j
  /\ \A i \in 2 .. Len(q) : g.next[q[i]] = At(t, q, i + 1)

\* The objects of a sequence.
Of(s) == {s[i] : i \in 1 .. Len(s)}

\* The objects a call x has in its hands at place pl, if s is its alloc_list
\* and q what it has yet to free.
LocalOf(pl, x, s, q) ==
  IF pl \in WithList THEN Of(s)
  ELSE IF pl = "error_exit" THEN Of(q)
  ELSE IF pl \in WithEntry THEN {x.le}
  ELSE {}

\* The objects all calls have in their hands.
Locals(p, cl, c, r) == [t \in Threads |-> LocalOf(p[t], cl[t], c[t], r[t])]

\* An object is given to the zone, reserved, a caller's or a call's, and only
\* one of these, and one thread's.
Owned(z, l, hd, lo) ==
  /\ z \subseteq Objects /\ l \subseteq Objects
  /\ hd \in [Threads -> SUBSET Objects] /\ lo \in [Threads -> SUBSET Objects]
  /\ z \cap l = {}
  /\ \A t \in Threads : /\ z \cap hd[t] = {} /\ z \cap lo[t] = {}
                        /\ l \cap hd[t] = {} /\ l \cap lo[t] = {}
  /\ \A t, u \in Threads : /\ hd[t] \cap lo[u] = {}
                           /\ t # u => hd[t] \cap hd[u] = {}
                           /\ t # u => lo[t] \cap lo[u] = {}
  /\ \A o \in Objects : o \in z \/ o \in l \/ \E t \in Threads : o \in hd[t] \cup lo[t]

\* reserved_count is the length len of the list, but for what who has the lock
\* has added and not counted, or taken and not counted.
Counted(al, len, rc, k, p, cl) ==
  /\ rc \in 0 .. Cardinality(Objects)
  /\ al /\ k = NoThread => rc = len
  /\ \A t \in Threads : k = t =>
       CASE p[t] = "add_count" -> rc + cl[t].n = len
         [] p[t] = "free_count" -> rc + 1 = len
         [] p[t] \in {"release_free", "prealloc_count"} -> rc = len + 1
         [] OTHER -> rc = len

\* All that the invariant asks, of sequences c for the lists and r for what
\* failed reservations have yet to free.
CacheHolds(al, z, g, rc, k, hd, p, cl, c, r) ==
  /\ CallsHold(al, k, p, cl)
  /\ CacheKept(g, p, c)
  /\ r \in [Threads -> Seq(Objects)]
  /\ \A t \in Threads : p[t] \in WithList => Len(c[t]) = cl[t].i
  /\ \A t \in Threads : p[t] = "error_exit" => ChainHolds(g, t, cl[t], r[t])
  /\ Owned(z, Of(c[Reserved_list]), hd, Locals(p, cl, c, r))
  /\ Counted(al, Len(c[Reserved_list]), rc, k, p, cl)

\* The inductive invariant of the cache: such sequences exist.
CacheInv ==
  \E c, r : CacheHolds(alive, zone, cache_h, reserved_count, lk, held,
                       cache_pc, call, c, r)

\* The cache uses the operations on lists; its own names stand for theirs.
LEMMA CacheCalls ==
  /\ \A g, e : Cache!InitEntry(g, e) = Ops!InitEntry(g, e)
  /\ \A g, e, l : Cache!AddHead(g, e, l) = Ops!ListAdd(g, e, l, g.next[l])
  /\ \A g, l : Cache!Popped(g, l) = IF g.next[l] = l THEN NULL ELSE g.next[l]
  /\ \A g, e : Cache!Del(g, e) = Ops!InitEntry(Ops!Unlink(g, e), e)
  /\ \A g, l : Cache!PopHead(g, l) = IF g.next[l] = l THEN g
                                     ELSE Cache!Del(g, g.next[l])
  /\ \A g, s, l : Cache!AddList(g, s, l) = Ops!AddList(g, s, l)
  /\ \A g, l, b : Cache!OnList(g, l, b) = Ops!OnList(g, l, b)
  /\ \A g, l, b : Cache!Backwards(g, l, b) = Ops!Backwards(g, l, b)
  /\ \A f, e, l, b : Cache!From(f, e, l, b) = Ops!From(f, e, l, b)
<1>1. \A g, e : Cache!InitEntry(g, e) = Ops!InitEntry(g, e)
  BY DEF Cache!InitEntry, Ops!InitEntry
<1>2. \A g, e, l : Cache!AddHead(g, e, l) = Ops!ListAdd(g, e, l, g.next[l])
  BY DEF Cache!AddHead, Cache!ListAdd, Ops!ListAdd
<1>3. \A g, e : Cache!Unlink(g, e) = Ops!Unlink(g, e)
  BY DEF Cache!Unlink, Ops!Unlink
<1>4. \A g, e : Cache!Del(g, e) = Ops!InitEntry(Ops!Unlink(g, e), e)
  BY <1>1, <1>3 DEF Cache!Del
<1>5. \A f, e, l, b : Cache!From(f, e, l, b) = Ops!From(f, e, l, b)
  BY DEF Cache!From, Ops!From, Cache!Last, Ops!Last
<1>6. \A g, s, l : Cache!AddList(g, s, l) = Ops!AddList(g, s, l)
  BY <1>1 DEF Cache!AddList, Ops!AddList, Cache!Empty, Ops!Empty
<1>7. /\ \A g, l, b : Cache!OnList(g, l, b) = Ops!OnList(g, l, b)
      /\ \A g, l, b : Cache!Backwards(g, l, b) = Ops!Backwards(g, l, b)
  BY <1>5 DEF Cache!OnList, Cache!Backwards, Ops!OnList, Ops!Backwards
<1>8. /\ \A g, l : Cache!Popped(g, l) = IF g.next[l] = l THEN NULL ELSE g.next[l]
      /\ \A g, l : Cache!PopHead(g, l) = IF g.next[l] = l THEN g
                                         ELSE Cache!Del(g, g.next[l])
  BY DEF Cache!Popped, Cache!PopHead, Cache!Empty
<1> QED
  BY <1>1, <1>2, <1>4, <1>5, <1>6, <1>7, <1>8

\* Cells, and what is none.
LEMMA CacheCells ==
  /\ Cache!Cells = {Reserved_list} \cup Threads \cup Objects
  /\ Cache!Cells \subseteq CacheX /\ NULL \notin Cache!Cells
  /\ Objects \subseteq Cache!Cells /\ Threads \subseteq Cache!Cells
  /\ Reserved_list \in Cache!Cells
  /\ Reserved_list \notin Threads \cup Objects /\ Threads \cap Objects = {}
  /\ NoThread \notin Threads /\ NULL \notin Objects
BY LibraryAssumption DEF Cache!Cells, Cache!Heads, CacheX

\* What is in the four sets a, b, u and v is in the four sets a1, b1, u1 and v1,
\* and in one of them.
Shared(a, b, u, v, a1, b1, u1, v1) ==
  /\ a1 \cup b1 \cup u1 \cup v1 = a \cup b \cup u \cup v
  /\ a1 \cap b1 = {} /\ a1 \cap u1 = {} /\ a1 \cap v1 = {}
  /\ b1 \cap u1 = {} /\ b1 \cap v1 = {} /\ u1 \cap v1 = {}

\* Of thread t's objects, the zone's and those reserved, each is in one place
\* after a step of t as before, and others are as they were.
LEMMA OwnedStays ==
  ASSUME NEW z, NEW l, NEW hd, NEW lo, Owned(z, l, hd, lo), NEW t \in Threads,
         NEW z1, NEW l1, NEW hs, NEW ls,
         Shared(z, l, hd[t], lo[t], z1, l1, hs, ls)
  PROVE  Owned(z1, l1, [hd EXCEPT ![t] = hs], [lo EXCEPT ![t] = ls])
<1> USE DEF Shared
<1> DEFINE hd1 == [hd EXCEPT ![t] = hs]
           lo1 == [lo EXCEPT ![t] = ls]
<1>1. /\ z \subseteq Objects /\ l \subseteq Objects
      /\ hd \in [Threads -> SUBSET Objects] /\ lo \in [Threads -> SUBSET Objects]
      /\ hd[t] \subseteq Objects /\ lo[t] \subseteq Objects
  BY DEF Owned
<1>2. /\ z1 \subseteq Objects /\ l1 \subseteq Objects
      /\ hs \subseteq Objects /\ ls \subseteq Objects
  BY <1>1
<1>3. /\ hd1 \in [Threads -> SUBSET Objects]
      /\ lo1 \in [Threads -> SUBSET Objects]
      /\ hd1[t] = hs /\ lo1[t] = ls
      /\ \A u \in Threads \ {t} : hd1[u] = hd[u] /\ lo1[u] = lo[u]
  BY <1>1, <1>2
<1> HIDE DEF hd1, lo1
<1>4. ASSUME NEW u \in Threads \ {t}
      PROVE  (hd[u] \cup lo[u]) \cap (z1 \cup l1 \cup hs \cup ls) = {}
  BY DEF Owned
<1>5. \A u \in Threads : /\ z1 \cap hd1[u] = {} /\ z1 \cap lo1[u] = {}
                         /\ l1 \cap hd1[u] = {} /\ l1 \cap lo1[u] = {}
  BY <1>3, <1>4
<1>6. ASSUME NEW u \in Threads, NEW v \in Threads
      PROVE  /\ hd1[u] \cap lo1[v] = {}
             /\ u # v => hd1[u] \cap hd1[v] = {}
             /\ u # v => lo1[u] \cap lo1[v] = {}
  <2>1. CASE u # t /\ v # t
    BY <1>3, <2>1 DEF Owned
  <2>2. CASE u = t /\ v # t
    BY <1>3, <1>4, <2>2
  <2>3. CASE u # t /\ v = t
    BY <1>3, <1>4, <2>3
  <2>4. CASE u = t /\ v = t
    BY <1>3, <2>4
  <2> QED
    BY <2>1, <2>2, <2>3, <2>4
<1>7. ASSUME NEW o \in Objects
      PROVE  o \in z1 \/ o \in l1 \/ \E u \in Threads : o \in hd1[u] \cup lo1[u]
  <2>1. CASE o \in z1 \cup l1 \cup hs \cup ls
    BY <1>3, <2>1
  <2>2. CASE o \notin z1 \cup l1 \cup hs \cup ls
    <3>1. o \notin z /\ o \notin l /\ o \notin hd[t] \cup lo[t]
      BY <2>2
    <3>2. PICK u \in Threads : o \in hd[u] \cup lo[u]
      BY <3>1 DEF Owned
    <3> QED
      BY <1>3, <3>1, <3>2
  <2> QED
    BY <2>1, <2>2
<1>8. Owned(z1, l1, hd1, lo1)
  BY <1>2, <1>3, <1>5, <1>6, <1>7 DEF Owned
<1> QED
  BY <1>8 DEF hd1, lo1

\* The lock stays whose it is, or is taken or given back by t.
LockMoves(t, k, k1) ==
  k1 = k \/ (k = NoThread /\ k1 = t) \/ (k = t /\ k1 = NoThread)

\* A step of t, to place pl with the call x, keeps what is known of all calls:
\* a lock t takes or gives back was not another's.
LEMMA CallsStay ==
  ASSUME NEW al, NEW k, NEW p, NEW cl, CallsHold(al, k, p, cl), NEW t \in Threads,
         NEW k1, LockMoves(t, k, k1),
         NEW pl, NEW x, CallHolds(t, k1, pl, x), al
  PROVE  CallsHold(al, k1, [p EXCEPT ![t] = pl], [cl EXCEPT ![t] = x])
<1> DEFINE p1 == [p EXCEPT ![t] = pl]
           cl1 == [cl EXCEPT ![t] = x]
<1>1. /\ al \in BOOLEAN /\ k1 \in Threads \cup {NoThread}
      /\ NoThread \notin Threads
  BY CacheCells DEF CallsHold, LockMoves
<1>2. /\ p1 \in [Threads -> CachePlaces] /\ cl1 \in [Threads -> CacheCall]
      /\ p1[t] = pl /\ cl1[t] = x
      /\ \A u \in Threads \ {t} : p1[u] = p[u] /\ cl1[u] = cl[u]
  BY DEF CallsHold, CallHolds
<1> HIDE DEF p1, cl1
<1>3. ASSUME NEW u \in Threads \ {t} PROVE CallHolds(u, k1, p1[u], cl1[u])
  <2>1. CallHolds(u, k, p[u], cl[u])
    BY DEF CallsHold
  <2>2. k1 = u <=> k = u
    BY <1>1 DEF LockMoves
  <2>3. CallHolds(u, k1, p[u], cl[u])
    BY <2>1, <2>2 DEF CallHolds
  <2> QED
    BY <1>2, <2>3
<1>4. CallsHold(al, k1, p1, cl1)
  BY <1>1, <1>2, <1>3 DEF CallsHold
<1> QED
  BY <1>4 DEF p1, cl1

\* The lists of other threads than t stay.
ListsStay(t, p, c, d) ==
  \A u \in Threads \ {t} : p[u] \in WithList => d[u] = c[u]

\* Only objects of S are linked otherwise.
TouchesOnly(S, g, g1) == \A o \in Objects : o \notin S => g1.next[o] = g.next[o]

\* A call counts what it has put on its list; or has yet to free what s says.
PlaceHolds(t, pl, x, d, s, g) ==
  /\ pl \in WithList => Len(d[t]) = x.i
  /\ pl = "error_exit" => ChainHolds(g, t, x, s)

\* The lists of calls that are at the same places are the same.
LEMMA SameLists ==
  ASSUME NEW p \in [Threads -> CachePlaces], NEW t \in Threads, NEW pl \in CachePlaces,
         p[t] \in WithList <=> pl \in WithList
  PROVE  CacheLists([p EXCEPT ![t] = pl]) = CacheLists(p)
BY DEF CacheLists

\* What the zone, a caller or a call has apart from its list is on no list.
LEMMA OffTheLists ==
  ASSUME NEW p, NEW cl, NEW c, NEW r, NEW z, NEW hd,
         Owned(z, Of(c[Reserved_list]), hd, Locals(p, cl, c, r)),
         NEW t \in Threads, NEW o,
         o \in z \cup hd[t] \/ (p[t] \notin WithList /\ o \in Locals(p, cl, c, r)[t])
  PROVE  Off(c, CacheLists(p), o)
<1> DEFINE lo == Locals(p, cl, c, r)
<1>1. \A u \in Threads : p[u] \in WithList => lo[u] = Of(c[u])
  BY DEF Locals, LocalOf
<1> HIDE DEF lo
<1>2. o \notin Of(c[Reserved_list])
  BY DEF Owned, lo
<1>3. \A u \in Threads : p[u] \in WithList => o \notin lo[u]
  BY DEF Owned, lo
<1>4. \A l \in CacheLists(p) : o \notin Of(c[l])
  BY <1>1, <1>2, <1>3 DEF CacheLists
<1> QED
  BY <1>4 DEF Off, Of

\* Writing to an object that is on no list changes no list.
LEMMA WriteKeeps ==
  ASSUME NEW g, NEW p, NEW c, CacheKept(g, p, c), NEW o \in Objects,
         Off(c, CacheLists(p), o),
         NEW k, k = Cache!Clear(g, o) \/ k = Cache!Written(g, o)
  PROVE  CacheKept(k, p, c) /\ TouchesOnly({o}, g, k)
<1>1. /\ g \in Memories(Cache!Cells, CacheX) /\ o \in Cache!Cells
      /\ o \notin CacheLists(p)
  BY CacheCells DEF CacheKept, Kept, CacheLists
<1>2. NULL \in CacheX /\ Data \in CacheX
  BY DEF CacheX
<1>3. /\ k \in Memories(Cache!Cells, CacheX)
      /\ \A x \in Cache!Cells \ {o} : k.next[x] = g.next[x] /\ k.prev[x] = g.prev[x]
  <2>1. CASE k = Cache!Clear(g, o)
    BY <1>1, <1>2, <2>1 DEF Memories, Cache!Clear
  <2>2. CASE k = Cache!Written(g, o)
    BY <1>1, <1>2, <2>2 DEF Memories, Cache!Written
  <2> QED
    BY <2>1, <2>2
<1>4. CacheKept(k, p, c)
  BY <1>1, <1>3, OffStays DEF CacheKept
<1> QED
  BY <1>3, <1>4, CacheCells DEF TouchesOnly

\* The objects of a sequence are those on its list.
LEMMA OfIs == \A c, l, x : x \in Of(c[l]) <=> OnList(c, l, x)
BY DEF OnList, Of

\* The entries of the lists, with o put first on l, and without the first of l.
Pushed(c, l, o) == [c EXCEPT ![l] = InsertAt(@, 0, o)]
Popped(c, l)    == [c EXCEPT ![l] = Without(@, 1)]

\* What is true when o was added at the head of l: it is on l alone, and the
\* other lists are as they were.
PushDone(g, k, p, c, d, l, o) ==
  /\ CacheKept(k, p, d)
  /\ TouchesOnly({o} \cup Of(c[l]), g, k)
  /\ Of(d[l]) = Of(c[l]) \cup {o} /\ o \notin Of(c[l])
  /\ Len(d[l]) = Len(c[l]) + 1 /\ Len(c[l]) \in Nat
  /\ \A m \in CacheLists(p) \ {l} : d[m] = c[m]

\* An object that is on no list is added at the head of one.
LEMMA PushKeeps ==
  ASSUME NEW g, NEW p, NEW c, CacheKept(g, p, c), NEW o \in Objects,
         Off(c, CacheLists(p), o), NEW l \in CacheLists(p),
         NEW d, d = Pushed(c, l, o), NEW k, k = Cache!AddHead(g, o, l)
  PROVE  PushDone(g, k, p, c, d, l, o)
<1> USE DEF Pushed, Popped
<1> DEFINE H == CacheLists(p)
<1>1. /\ Kept(g, c, Cache!Cells, CacheX, H, Objects)
      /\ c \in [H -> Seq(Objects)]
      /\ c[l] \in Seq(Objects) /\ Len(c[l]) \in Nat
      /\ l \in Cache!Cells /\ H \cap Objects = {}
  BY DEF CacheKept, Kept, Rings
<1>2. k = Ops!ListAdd(g, o, At(l, c[l], 0), At(l, c[l], 0 + 1))
  <2>1. At(l, c[l], 0) = l /\ g.next[l] = At(l, c[l], 1) /\ 0 + 1 = 1
    BY <1>1, RingCells
  <2> QED
    BY <2>1, CacheCalls
<1>3. 0 \in 0 .. Len(c[l])
  BY <1>1
<1>4. CacheKept(k, p, d)
  <2>1. Off(c, H, o) /\ l \in H
    OBVIOUS
  <2> HIDE DEF H
  <2>2. Kept(Ops!ListAdd(g, o, At(l, c[l], 0), At(l, c[l], 0 + 1)),
             [c EXCEPT ![l] = InsertAt(@, 0, o)], Cache!Cells, CacheX, H, Objects)
    BY <1>1, <1>3, <2>1, AddKeeps
  <2> QED
    BY <1>2, <2>2 DEF CacheKept, H
<1>5. TouchesOnly({o} \cup Of(c[l]), g, k)
  <2> SUFFICES ASSUME NEW x \in Objects, x # o, x \notin Of(c[l])
               PROVE  k.next[x] = g.next[x]
    BY DEF TouchesOnly
  <2>1. ~OnList(c, l, x) /\ x \notin H /\ x \in Cache!Cells
    BY <1>1, CacheCells DEF OnList, Of
  <2>2. LET y == Ops!ListAdd(g, o, At(l, c[l], 0), At(l, c[l], 0 + 1))
        IN  y.next[x] = g.next[x] /\ y.prev[x] = g.prev[x]
    BY <1>1, <1>3, <2>1, AddTouches
  <2> QED
    BY <1>2, <2>2
<1> HIDE DEF H
<1>6. /\ d[l] = InsertAt(c[l], 0, o) /\ Len(d[l]) = Len(c[l]) + 1
      /\ \A m \in H \ {l} : d[m] = c[m]
  <2>1. l \in H
    BY DEF H
  <2>2. Len(InsertAt(c[l], 0, o)) = Len(c[l]) + 1
    BY <1>1, <1>3, Inserted
  <2> QED
    BY <1>1, <2>1, <2>2
<1>7. \A x : OnList(d, l, x) <=> OnList(c, l, x) \/ x = o
  <2> SUFFICES ASSUME NEW x PROVE OnList(d, l, x) <=> OnList(c, l, x) \/ x = o
    OBVIOUS
  <2>1. l \in H
    BY DEF H
  <2>2. \A m \in H : OnList([c EXCEPT ![l] = InsertAt(@, 0, o)], m, x)
                       <=> OnList(c, m, x) \/ (m = l /\ x = o)
    <3>1. c \in [H -> Seq(Objects)] /\ 0 \in 0 .. Len(c[l])
      BY <1>1, <1>3
    <3> QED
      BY <2>1, <3>1, AddOn
  <2> QED
    BY <2>1, <2>2
<1>8. Of(d[l]) = Of(c[l]) \cup {o}
  BY <1>7, OfIs
<1>9. o \notin Of(c[l])
  BY DEF Off, Of
<1> QED
  BY <1>1, <1>4, <1>5, <1>6, <1>8, <1>9 DEF H, PushDone

\* What is true when o was taken off l.
PopDone(g, k, p, c, d, l, o) ==
  /\ Cache!Popped(g, l) = o /\ o \in Objects
  /\ CacheKept(k, p, d)
  /\ TouchesOnly(Of(c[l]), g, k)
  /\ Of(d[l]) = Of(c[l]) \ {o} /\ o \in Of(c[l])
  /\ Len(d[l]) = Len(c[l]) - 1 /\ Len(c[l]) \in Nat
  /\ \A m \in CacheLists(p) \ {l} : d[m] = c[m]

\* The first object of a list is taken off it.
LEMMA PopKeeps ==
  ASSUME NEW g, NEW p, NEW c, CacheKept(g, p, c), NEW l \in CacheLists(p),
         Len(c[l]) > 0, NEW d, d = Popped(c, l),
         NEW o, o = c[l][1], NEW k, k = Cache!PopHead(g, l)
  PROVE  PopDone(g, k, p, c, d, l, o)
<1> USE DEF Pushed, Popped
<1> DEFINE H == CacheLists(p)
           f == Ops!Unlink(g, o)
<1>1. /\ Kept(g, c, Cache!Cells, CacheX, H, Objects)
      /\ c \in [H -> Seq(Objects)]
      /\ c[l] \in Seq(Objects) /\ Len(c[l]) \in Nat
      /\ l \in Cache!Cells /\ H \cap Objects = {} /\ o \in Objects
      /\ 1 \in 1 .. Len(c[l])
  BY DEF CacheKept, Kept, Rings
<1>2. g.next[l] = o /\ o # l
  <2>1. g.next[l] = At(l, c[l], 1)
    BY <1>1, RingCells
  <2> QED
    BY <1>1, <2>1 DEF At
<1>3. Cache!Popped(g, l) = o /\ k = Ops!InitEntry(f, o)
  BY <1>2, CacheCalls
<1>4. Kept(f, d, Cache!Cells, CacheX, H, Objects) /\ Off(d, H, o)
  BY <1>1, CutKeeps
<1>5. /\ f \in Memories(Cache!Cells, CacheX) /\ Cache!Cells \subseteq CacheX
      /\ o \in Cache!Cells /\ o \notin H
  BY <1>1, <1>4, CacheCells DEF Kept
<1>6. /\ k \in Memories(Cache!Cells, CacheX)
      /\ \A x \in Cache!Cells \ {o} : k.next[x] = f.next[x] /\ k.prev[x] = f.prev[x]
  <2>1. LET y == Ops!InitEntry(f, o)
        IN  /\ y \in Memories(Cache!Cells, CacheX) /\ y.next[o] = o /\ y.prev[o] = o
            /\ \A x \in Cache!Cells \ {o} : y.next[x] = f.next[x] /\ y.prev[x] = f.prev[x]
    BY <1>5, InitLinks
  <2> QED
    BY <1>3, <2>1
<1>7. CacheKept(k, p, d)
  BY <1>4, <1>5, <1>6, OffStays DEF CacheKept
<1>8. o \in Of(c[l])
  BY <1>1 DEF Of
<1>9. TouchesOnly(Of(c[l]), g, k)
  <2> SUFFICES ASSUME NEW x \in Objects, x \notin Of(c[l])
               PROVE  k.next[x] = g.next[x]
    BY DEF TouchesOnly
  <2>1. ~OnList(c, l, x) /\ x \notin H /\ x \in Cache!Cells /\ x # o
    BY <1>1, <1>8, CacheCells DEF OnList, Of
  <2>2. LET y == Ops!Unlink(g, c[l][1])
        IN  y.next[x] = g.next[x] /\ y.prev[x] = g.prev[x]
    BY <1>1, <2>1, CutTouches
  <2> QED
    BY <1>6, <2>1, <2>2
<1>10. /\ d[l] = Without(c[l], 1) /\ Len(d[l]) = Len(c[l]) - 1
       /\ \A m \in H \ {l} : d[m] = c[m]
  <2> HIDE DEF H
  <2>1. l \in H
    BY DEF H
  <2>2. Len(Without(c[l], 1)) = Len(c[l]) - 1
    BY <1>1, Removed
  <2> QED
    BY <1>1, <2>1, <2>2
<1>11. \A x : OnList(d, l, x) <=> OnList(c, l, x) /\ x # o
  <2> SUFFICES ASSUME NEW x PROVE OnList(d, l, x) <=> OnList(c, l, x) /\ x # o
    OBVIOUS
  <2> QED
    BY <1>1, CutOn
<1>12. Of(d[l]) = Of(c[l]) \ {o}
  BY <1>11, OfIs
<1> QED
  BY <1>1, <1>3, <1>7, <1>8, <1>9, <1>10, <1>12 DEF H, PopDone

\* t at place pl; one list more, t's, that is empty; and without t's.
Moved(p, t, pl) == [p EXCEPT ![t] = pl]
Begun(c, p, t) == [l \in CacheLists(p) |-> IF l = t THEN <<>> ELSE c[l]]
Dropped(c, p)  == [l \in CacheLists(p) |-> c[l]]

\* A reservation begins with a list of its own, empty.
BeginDone(g, k, p, p1, c, d, t) ==
  /\ CacheKept(k, p1, d)
  /\ TouchesOnly({}, g, k)
  /\ d[Reserved_list] = c[Reserved_list] /\ d[t] = <<>>
  /\ ListsStay(t, p, c, d)

\* A reservation that begins initialises a list on its stack.
LEMMA BeginKeeps ==
  ASSUME NEW g, NEW p \in [Threads -> CachePlaces], NEW c, CacheKept(g, p, c),
         NEW t \in Threads, p[t] \notin WithList, NEW pl \in WithList,
         NEW p1, p1 = Moved(p, t, pl), NEW d, d = Begun(c, p1, t),
         NEW k, k = Cache!InitEntry(g, t)
  PROVE  BeginDone(g, k, p, p1, c, d, t)
<1> USE DEF Begun, Dropped, Moved
<1> DEFINE H == CacheLists(p)
<1>1. /\ g \in Memories(Cache!Cells, CacheX) /\ c \in [H -> Seq(Objects)]
      /\ \A l \in H : Ring(g, l, c[l]) /\ c[l] \in Seq(Objects) /\ Len(c[l]) \in Nat
      /\ \A l, m \in H : \A i \in 1 .. Len(c[l]), j \in 1 .. Len(c[m]) :
           c[l][i] = c[m][j] => l = m /\ i = j
  BY DEF CacheKept, Kept, Rings
<1>2. /\ CacheLists(p1) = H \cup {t} /\ t \notin H /\ t \notin Objects
      /\ t \in Cache!Cells /\ Reserved_list \in H /\ Reserved_list # t
  BY CacheCells DEF CacheLists, WithList
<1>3. /\ k \in Memories(Cache!Cells, CacheX) /\ k.next[t] = t /\ k.prev[t] = t
      /\ \A x \in Cache!Cells \ {t} : k.next[x] = g.next[x] /\ k.prev[x] = g.prev[x]
  <2>1. LET y == Ops!InitEntry(g, t)
        IN  /\ y \in Memories(Cache!Cells, CacheX) /\ y.next[t] = t /\ y.prev[t] = t
            /\ \A x \in Cache!Cells \ {t} : y.next[x] = g.next[x] /\ y.prev[x] = g.prev[x]
    <3>1. /\ g \in Memories(Cache!Cells, CacheX)
          /\ Cache!Cells \subseteq CacheX
          /\ t \in Cache!Cells
      BY <1>1, <1>2, CacheCells
    <3> QED
      BY <3>1, InitLinks
  <2> QED
    BY <2>1, CacheCalls
<1>4. /\ d[t] = <<>> /\ \A l \in H : d[l] = c[l]
      /\ d \in [H \cup {t} -> Seq(Objects)]
  <2> HIDE DEF H
  <2>1. d = [l \in H \cup {t} |-> IF l = t THEN <<>> ELSE c[l]]
    BY <1>2
  <2>2. \A l \in H : c[l] \in Seq(Objects)
    BY <1>1
  <2>3. <<>> \in Seq(Objects)
    OBVIOUS
  <2> QED
    BY <1>2, <2>1, <2>2, <2>3
<1> HIDE DEF H
<1>5. ASSUME NEW l \in H \cup {t} PROVE Ring(k, l, d[l])
  <2>1. CASE l = t
    <3>1. Len(d[l]) = 0
      BY <1>4, <2>1
    <3> QED
      BY <1>3, <2>1, <3>1 DEF Ring, At
  <2>2. CASE l # t
    <3>1. l \in H /\ d[l] = c[l] /\ c[l] \in Seq(Objects)
      BY <1>1, <1>4, <2>2
    <3>2. l \in Cache!Cells \ {t}
      BY <2>2, <3>1 DEF CacheKept, Kept, H
    <3>3. \A i \in 1 .. Len(c[l]) : c[l][i] \in Cache!Cells \ {t}
      BY <1>2, <3>1, CacheCells
    <3> QED
      BY <1>1, <1>3, <3>1, <3>2, <3>3, RingStays
  <2> QED
    BY <2>1, <2>2
<1>6. ASSUME NEW l \in H \cup {t}, NEW m \in H \cup {t},
             NEW i \in 1 .. Len(d[l]), NEW j \in 1 .. Len(d[m]), d[l][i] = d[m][j]
      PROVE  l = m /\ i = j
  <2>1. Len(d[t]) = 0
    BY <1>4
  <2>2. l # t /\ m # t
    <3>1. \A x : x \notin 1 .. 0
      OBVIOUS
    <3> QED
      BY <2>1, <3>1
  <2>3. l \in H /\ m \in H /\ d[l] = c[l] /\ d[m] = c[m]
    BY <1>4, <2>2
  <2> QED
    BY <1>1, <1>6, <2>3
<1>7. CacheKept(k, p1, d)
  <2>1. /\ H \cup {t} \subseteq Cache!Cells /\ (H \cup {t}) \cap Objects = {}
    BY <1>2 DEF CacheKept, Kept, H
  <2>2. Rings(k, d, H \cup {t}, Objects)
    BY <1>4, <1>5, <1>6 DEF Rings
  <2> QED
    BY <1>2, <1>3, <2>1, <2>2, CacheCells DEF CacheKept, Kept
<1>8. TouchesOnly({}, g, k)
  BY <1>2, <1>3, CacheCells DEF TouchesOnly
<1>9. ListsStay(t, p, c, d)
  BY <1>4 DEF ListsStay, H, CacheLists
<1> QED
  BY <1>2, <1>4, <1>7, <1>8, <1>9 DEF BeginDone

\* What a call does not use any more is not a list any more.
DropDone(g, p, p1, c, d, t) ==
  /\ CacheKept(g, p1, d)
  /\ d[Reserved_list] = c[Reserved_list]
  /\ ListsStay(t, p, c, d)

\* A reservation that ends leaves its list, and the others as they were.
LEMMA DropKeeps ==
  ASSUME NEW g, NEW p \in [Threads -> CachePlaces], NEW c, CacheKept(g, p, c),
         NEW t \in Threads, p[t] \in WithList, NEW pl \in CachePlaces \ WithList,
         NEW p1, p1 = Moved(p, t, pl), NEW d, d = Dropped(c, p1)
  PROVE  DropDone(g, p, p1, c, d, t)
<1> USE DEF Begun, Dropped, Moved
<1> DEFINE H == CacheLists(p)
           G == CacheLists(p1)
<1>1. /\ c \in [H -> Seq(Objects)] /\ H \subseteq Cache!Cells
      /\ H \cap Objects = {}
      /\ \A l \in H : Ring(g, l, c[l]) /\ c[l] \in Seq(Objects)
      /\ \A l, m \in H : \A i \in 1 .. Len(c[l]), j \in 1 .. Len(c[m]) :
           c[l][i] = c[m][j] => l = m /\ i = j
  BY DEF CacheKept, Kept, Rings
<1>2. G \subseteq H /\ Reserved_list \in G
  BY DEF CacheLists
<1>3. \A u \in Threads \ {t} : p[u] \in WithList => u \in G
  BY DEF CacheLists
<1> HIDE DEF H, G
<1>4. \A l \in G : d[l] = c[l]
  BY DEF G
<1>5. d \in [G -> Seq(Objects)]
  BY <1>1, <1>2 DEF G
<1>6. Rings(g, d, G, Objects)
  <2>1. \A l \in G : Ring(g, l, d[l])
    BY <1>1, <1>2, <1>4
  <2>2. ASSUME NEW l \in G, NEW m \in G, NEW i \in 1 .. Len(d[l]),
               NEW j \in 1 .. Len(d[m]), d[l][i] = d[m][j]
        PROVE  l = m /\ i = j
    <3>1. l \in H /\ m \in H /\ d[l] = c[l] /\ d[m] = c[m]
      BY <1>2, <1>4
    <3> QED
      BY <1>1, <2>2, <3>1
  <2> QED
    BY <1>5, <2>1, <2>2 DEF Rings
<1>7. CacheKept(g, p1, d)
  BY <1>1, <1>2, <1>6 DEF CacheKept, Kept, G
<1> QED
  BY <1>2, <1>3, <1>4, <1>7 DEF ListsStay, DropDone

\* The objects of a reservation are added to those reserved.
LEMMA AddAllKeeps ==
  ASSUME NEW g, NEW p, NEW c, CacheKept(g, p, c), NEW t \in Threads,
         t \in CacheLists(p), NEW k, k = Cache!AddList(g, t, Reserved_list)
  PROVE  \E d : /\ CacheKept(k, p, d)
                /\ Of(d[Reserved_list]) = Of(c[Reserved_list]) \cup Of(c[t])
                /\ Of(c[Reserved_list]) \cap Of(c[t]) = {}
                /\ Len(d[Reserved_list]) = Len(c[Reserved_list]) + Len(c[t])
                /\ \A m \in CacheLists(p) \ {Reserved_list, t} : d[m] = c[m]
                /\ TouchesOnly(Of(c[Reserved_list]) \cup Of(c[t]), g, k)
<1> DEFINE R == Reserved_list
           C == Cache!Cells
           H == CacheLists(p)
           s == c[t]
           u == c[R]
           first == g.next[t]
           last == g.prev[t]
<1>1. /\ Kept(g, c, C, CacheX, H, Objects) /\ t \in H /\ R \in H /\ t # R
      /\ c \in [H -> Seq(Objects)] /\ s \in Seq(Objects) /\ u \in Seq(Objects)
      /\ Len(s) \in Nat /\ Len(u) \in Nat /\ g \in Memories(C, CacheX)
      /\ \A l, m \in H : \A i \in 1 .. Len(c[l]), j \in 1 .. Len(c[m]) :
           c[l][i] = c[m][j] => l = m /\ i = j
      /\ t \in C /\ R \in C /\ t \notin Objects /\ R \notin Objects
      /\ C \subseteq CacheX /\ Objects \subseteq C
  BY CacheCells DEF CacheKept, Kept, Rings, CacheLists
<1>2. Of(u) \cap Of(s) = {}
  BY <1>1 DEF Of
<1>3. first = At(t, s, 1) /\ last = At(t, s, Len(s))
  BY <1>1, RingCells
<1>4. CASE Len(s) = 0
  <2>1. first = t
    BY <1>3, <1>4 DEF At
  <2>2. k = g
    BY <2>1, CacheCalls DEF Ops!AddList, Ops!Empty
  <2>3. Of(s) = {} /\ Len(u) = Len(u) + Len(s)
    BY <1>1, <1>4 DEF Of
  <2> QED
    BY <1>2, <2>2, <2>3 DEF TouchesOnly
<1>5. CASE Len(s) # 0
  <2>1. /\ first = s[1] /\ 1 \in 1 .. Len(s) /\ last = s[Len(s)]
        /\ Len(s) \in 1 .. Len(s) /\ s # <<>> /\ first # t
        /\ first \in Objects /\ last \in Objects
    BY <1>1, <1>3, <1>5 DEF At
  <2> DEFINE n == g.next[R]
  <2>2. n = At(R, u, 1) /\ At(R, u, 0) = R /\ 0 + 1 = 1 /\ n \in C
    BY <1>1, RingCells
  <2>3. n # first /\ n # last /\ n # t /\ (n = R \/ n \in Of(u))
    <3>1. n = R \/ (1 \in 1 .. Len(u) /\ n = u[1])
      BY <2>2 DEF At
    <3>2. first \in Of(s) /\ last \in Of(s)
      BY <2>1 DEF Of
    <3>3. n = R \/ (n \in Of(u) /\ n \in Objects)
      BY <1>1, <3>1 DEF Of
    <3> QED
      BY <1>1, <1>2, <2>1, <3>2, <3>3
  <2> HIDE DEF s, u, C, H, R
  <2>4. /\ k \in Memories(C, CacheX)
        /\ k.next = [g.next EXCEPT ![last] = n, ![R] = first, ![t] = t]
        /\ k.prev = [g.prev EXCEPT ![n] = last, ![first] = R, ![t] = t]
    <3> DEFINE a == [next |-> [g.next EXCEPT ![last] = n, ![R] = first],
                     prev |-> [g.prev EXCEPT ![n] = last, ![first] = R]]
    <3>0. k = Ops!AddList(g, t, R) /\ first \in C /\ last \in C
      BY <1>1, <2>1, CacheCalls DEF R
    <3>1. k = [a EXCEPT !.prev[t] = t, !.next[t] = t]
      BY <1>1, <2>1, <2>2, <2>3, <3>0 DEF Memories, Ops!AddList, Ops!Empty
    <3>2. k = [next |-> [g.next EXCEPT ![last] = n, ![R] = first, ![t] = t],
               prev |-> [g.prev EXCEPT ![n] = last, ![first] = R, ![t] = t]]
      BY <3>1
    <3> HIDE DEF a
    <3>3. k \in Memories(C, CacheX)
      <4>1. /\ R \in C /\ t \in C /\ n \in C /\ first \in C /\ last \in C
            /\ C \subseteq CacheX /\ g \in Memories(C, CacheX)
        BY <1>1, <2>2, <3>0
      <4> HIDE DEF n, first, last
      <4> QED
        BY <3>2, <4>1 DEF Memories
    <3> QED
      BY <3>2, <3>3
  <2> DEFINE d == [c EXCEPT ![t] = <<>>, ![R] = Spliced(@, 0, c[t])]
  <2>5. Kept(k, d, C, CacheX, H, Objects)
    <3>1. 0 \in 0 .. Len(c[R]) /\ c[t] # <<>>
      BY <1>1, <2>1 DEF u, s
    <3>2. /\ k.next = [g.next EXCEPT ![g.prev[t]] = At(R, c[R], 0 + 1),
                                     ![At(R, c[R], 0)] = g.next[t], ![t] = t]
          /\ k.prev = [g.prev EXCEPT ![At(R, c[R], 0 + 1)] = g.prev[t],
                                     ![g.next[t]] = At(R, c[R], 0), ![t] = t]
      BY <2>2, <2>4 DEF u
    <3> QED
      BY <1>1, <2>4, <3>1, <3>2, SpliceKeeps
  <2>6. d[R] = Spliced(u, 0, s) /\ \A m \in H \ {R, t} : d[m] = c[m]
    BY <1>1 DEF u, s
  <2>7. Len(d[R]) = Len(u) + Len(s)
    <3>1. 0 \in 0 .. Len(u)
      BY <1>1
    <3> QED
      BY <1>1, <2>6, <3>1, SplicedIs
  <2>8. \A x : OnList(d, R, x) <=> OnList(c, R, x) \/ OnList(c, t, x)
    <3> SUFFICES ASSUME NEW x
                 PROVE  OnList(d, R, x) <=> OnList(c, R, x) \/ OnList(c, t, x)
      OBVIOUS
    <3>1. 0 \in 0 .. Len(c[R])
      BY <1>1 DEF u
    <3>2. OnList([c EXCEPT ![t] = <<>>, ![R] = Spliced(@, 0, c[t])], R, x)
            <=> R # t /\ (OnList(c, R, x) \/ (R = R /\ OnList(c, t, x)))
      <4>1. c \in [H -> Seq(Objects)] /\ t \in H /\ R \in H /\ t # R
        BY <1>1
      <4> QED
        BY <3>1, <4>1, SpliceOn
    <3> QED
      BY <1>1, <3>2
  <2> HIDE DEF d
  <2>9. Of(d[R]) = Of(u) \cup Of(s)
    BY <2>8, OfIs DEF u, s
  <2>10. TouchesOnly(Of(u) \cup Of(s), g, k)
    <3> SUFFICES ASSUME NEW x \in Objects, x \notin Of(u) \cup Of(s)
                 PROVE  k.next[x] = g.next[x]
      BY DEF TouchesOnly
    <3>1. x # last /\ x # R /\ x # t /\ x \in C
      BY <1>1, <2>1 DEF Of
    <3> QED
      BY <1>1, <2>4, <3>1 DEF Memories
  <2>11. CacheKept(k, p, d)
    BY <2>5 DEF CacheKept, C, H
  <2> QED
    BY <1>2, <2>6, <2>7, <2>9, <2>10, <2>11 DEF R, u, s, H
<1> QED
  BY <1>1, <1>4, <1>5

\* The objects thread t has in its hands.
Mine(t, r, c, lo) == lo = LocalOf(cache_pc[t], call[t], c[t], r[t])

\* The same of the variables as they are.
CacheNow(c, r) == CacheHolds(alive, zone, cache_h, reserved_count, lk, held,
                             cache_pc, call, c, r)

\* What the invariant says of thread t and of what it may touch.
LEMMA CacheFacts ==
  ASSUME NEW c, NEW r, CacheNow(c, r), NEW t \in Threads,
         NEW lo, Mine(t, r, c, lo)
  PROVE  /\ cache_pc \in [Threads -> CachePlaces] /\ call \in [Threads -> CacheCall]
         /\ held \in [Threads -> SUBSET Objects] /\ zone \subseteq Objects
         /\ lo \subseteq Objects /\ Of(c[Reserved_list]) \subseteq Objects
         /\ r \in [Threads -> Seq(Objects)]
         /\ CallHolds(t, lk, cache_pc[t], call[t])
         /\ lk \in Threads \cup {NoThread}
         /\ CacheKept(cache_h, cache_pc, c) /\ Reserved_list \in CacheLists(cache_pc)
         /\ c[Reserved_list] \in Seq(Objects) /\ Len(c[Reserved_list]) \in Nat
         /\ zone \cap Of(c[Reserved_list]) = {} /\ zone \cap held[t] = {}
         /\ zone \cap lo = {} /\ Of(c[Reserved_list]) \cap held[t] = {}
         /\ Of(c[Reserved_list]) \cap lo = {} /\ held[t] \cap lo = {}
         /\ Locals(cache_pc, call, c, r)[t] = lo
         /\ reserved_count \in 0 .. Cardinality(Objects)
<1>1. /\ CallsHold(alive, lk, cache_pc, call)
      /\ CacheKept(cache_h, cache_pc, c)
      /\ r \in [Threads -> Seq(Objects)]
      /\ Owned(zone, Of(c[Reserved_list]), held, Locals(cache_pc, call, c, r))
      /\ reserved_count \in 0 .. Cardinality(Objects)
  BY DEF CacheNow, CacheHolds, Counted
<1>2. Locals(cache_pc, call, c, r)[t] = lo
  BY DEF Locals, Mine
<1>3. Reserved_list \in CacheLists(cache_pc)
  BY DEF CacheLists
<1>4. c[Reserved_list] \in Seq(Objects)
  BY <1>1, <1>3 DEF CacheKept, Kept, Rings
<1> DEFINE ll == Locals(cache_pc, call, c, r)
<1>5. ll[t] = lo
  BY <1>2
<1> HIDE DEF ll
<1>6. /\ held \in [Threads -> SUBSET Objects] /\ zone \subseteq Objects
      /\ ll \in [Threads -> SUBSET Objects] /\ Of(c[Reserved_list]) \subseteq Objects
      /\ zone \cap Of(c[Reserved_list]) = {} /\ zone \cap held[t] = {}
      /\ zone \cap ll[t] = {} /\ Of(c[Reserved_list]) \cap held[t] = {}
      /\ Of(c[Reserved_list]) \cap ll[t] = {} /\ held[t] \cap ll[t] = {}
  BY <1>1 DEF Owned, ll
<1>7. /\ cache_pc \in [Threads -> CachePlaces]
      /\ call \in [Threads -> CacheCall]
      /\ CallHolds(t, lk, cache_pc[t], call[t])
      /\ lk \in Threads \cup {NoThread}
  BY <1>1 DEF CallsHold
<1>8. Len(c[Reserved_list]) \in Nat
  BY <1>4
<1>9. ll[t] \subseteq Objects
  BY <1>6
<1> QED
  BY <1>1, <1>2, <1>3, <1>4, <1>5, <1>6, <1>7, <1>8, <1>9

\* A step of t, to place pl with the call x and the objects hs.
TurnTo(t, pl, x, hs) ==
  /\ alive /\ alive' = alive
  /\ cache_pc' = [cache_pc EXCEPT ![t] = pl]
  /\ call' = [call EXCEPT ![t] = x]
  /\ held' = [held EXCEPT ![t] = hs]
  /\ LockMoves(t, lk, lk') /\ CallHolds(t, lk', pl, x)

\* A step of t that moves objects between its own, the zone and the list, and
\* touches no other's, keeps the invariant when it keeps what is asked of t.
LEMMA CacheTurn ==
  ASSUME NEW c, NEW r, CacheNow(c, r), NEW t \in Threads,
         NEW pl, NEW x, NEW hs, TurnTo(t, pl, x, hs), NEW s \in Seq(Objects), NEW d,
         CacheKept(cache_h', cache_pc', d), ListsStay(t, cache_pc, c, d),
         PlaceHolds(t, pl, x, d, s, cache_h'),
         NEW lo, Mine(t, r, c, lo),
         TouchesOnly(zone \cup Of(c[Reserved_list]) \cup held[t] \cup lo,
                     cache_h, cache_h'),
         Shared(zone, Of(c[Reserved_list]), held[t], lo,
                zone', Of(d[Reserved_list]), hs, LocalOf(pl, x, d[t], s)),
         Counted(TRUE, Len(d[Reserved_list]), reserved_count', lk', cache_pc', call')
  PROVE  CacheInv'
<1> DEFINE l == Of(c[Reserved_list])
           l1 == Of(d[Reserved_list])
           ls == LocalOf(pl, x, d[t], s)
           q == [r EXCEPT ![t] = s]
           ll == Locals(cache_pc, call, c, r)
<1>1. /\ alive /\ alive' = alive
      /\ cache_pc' = [cache_pc EXCEPT ![t] = pl] /\ call' = [call EXCEPT ![t] = x]
      /\ held' = [held EXCEPT ![t] = hs]
      /\ LockMoves(t, lk, lk') /\ CallHolds(t, lk', pl, x)
  BY DEF TurnTo
<1>2. /\ CallsHold(alive, lk, cache_pc, call)
      /\ r \in [Threads -> Seq(Objects)]
      /\ \A u \in Threads : cache_pc[u] \in WithList => Len(c[u]) = call[u].i
      /\ \A u \in Threads :
           cache_pc[u] = "error_exit" => ChainHolds(cache_h, u, call[u], r[u])
      /\ Owned(zone, l, held, ll)
  BY DEF CacheNow, CacheHolds
<1>3. alive = TRUE /\ alive' = TRUE
  BY <1>1, <1>2 DEF CallsHold
<1>4. CallsHold(alive', lk', cache_pc', call')
  BY <1>1, <1>2, <1>3, CallsStay
<1>5. /\ cache_pc'[t] = pl /\ call'[t] = x /\ q[t] = s
      /\ \A u \in Threads \ {t} :
           cache_pc'[u] = cache_pc[u] /\ call'[u] = call[u] /\ q[u] = r[u]
      /\ q \in [Threads -> Seq(Objects)]
  BY <1>1, <1>2 DEF CallsHold
<1> HIDE DEF q, l, l1, ls
<1>6. \A u \in Threads : cache_pc'[u] \in WithList => Len(d[u]) = call'[u].i
  BY <1>2, <1>5 DEF ListsStay, PlaceHolds
<1>7. ll[t] = lo
  BY DEF Locals, Mine
<1>8. Owned(zone', l1, held', [ll EXCEPT ![t] = ls])
  <2> HIDE DEF ll
  <2>1. /\ Owned(zone, l, held, ll)
        /\ Shared(zone, l, held[t], ll[t], zone', l1, hs, ls)
    BY <1>2, <1>7 DEF l, l1, ls
  <2>2. Owned(zone', l1, [held EXCEPT ![t] = hs], [ll EXCEPT ![t] = ls])
    BY <2>1, OwnedStays
  <2> QED
    BY <1>1, <2>2
<1>9. Locals(cache_pc', call', d, q) = [ll EXCEPT ![t] = ls]
  <2>1. ASSUME NEW u \in Threads \ {t}
        PROVE  LocalOf(cache_pc'[u], call'[u], d[u], q[u]) = ll[u]
    <3>1. cache_pc'[u] = cache_pc[u] /\ call'[u] = call[u] /\ q[u] = r[u]
      BY <1>5
    <3>2. cache_pc[u] \in WithList => d[u] = c[u]
      BY DEF ListsStay
    <3> QED
      BY <3>1, <3>2 DEF LocalOf, Locals
  <2>2. LocalOf(cache_pc'[t], call'[t], d[t], q[t]) = ls
    BY <1>5 DEF ls
  <2>3. ll = [u \in Threads |-> ll[u]]
    BY DEF Locals
  <2> HIDE DEF ll
  <2> QED
    BY <2>1, <2>2, <2>3 DEF Locals
<1>10. ASSUME NEW u \in Threads, cache_pc'[u] = "error_exit"
       PROVE  ChainHolds(cache_h', u, call'[u], q[u])
  <2>1. CASE u = t
    BY <1>5, <1>10, <2>1 DEF PlaceHolds
  <2>2. CASE u # t
    <3>1. /\ ChainHolds(cache_h, u, call[u], r[u])
          /\ cache_pc[u] = "error_exit"
          /\ r[u] \in Seq(Objects)
      BY <1>2, <1>5, <1>10, <2>2
    <3>2. \A i \in 1 .. Len(r[u]) : r[u][i] \in ll[u] /\ r[u][i] \in Objects
      BY <3>1 DEF Locals, LocalOf, WithList, Of
    <3>3. ll[u] \cap (zone \cup l \cup held[t] \cup lo) = {}
      <4> HIDE DEF ll
      <4>1. /\ ll[u] \cap zone = {} /\ ll[u] \cap l = {}
            /\ ll[u] \cap held[t] = {} /\ ll[u] \cap ll[t] = {}
        BY <1>2, <2>2 DEF Owned
      <4> QED
        BY <1>7, <4>1
    <3>4. \A i \in 1 .. Len(r[u]) :
            cache_h'.next[r[u][i]] = cache_h.next[r[u][i]]
      <4> HIDE DEF ll
      <4> QED
        BY <3>2, <3>3 DEF TouchesOnly, l
    <3>5. ChainHolds(cache_h', u, call[u], r[u])
      <4>1. 2 .. Len(r[u]) \subseteq 1 .. Len(r[u])
        BY <3>1
      <4> QED
        BY <3>1, <3>4, <4>1 DEF ChainHolds
    <3> QED
      BY <1>5, <2>2, <3>5
  <2> QED
    BY <2>1, <2>2
<1> HIDE DEF ll
<1>11. Counted(alive', Len(d[Reserved_list]), reserved_count', lk', cache_pc', call')
  BY <1>3
<1>12. Owned(zone', Of(d[Reserved_list]), held', Locals(cache_pc', call', d, q))
  BY <1>8, <1>9 DEF l1
<1>13. CacheHolds(alive', zone', cache_h', reserved_count', lk', held', cache_pc',
                  call', d, q)
  BY <1>4, <1>5, <1>6, <1>10, <1>11, <1>12 DEF CacheHolds
<1> QED
  BY <1>13 DEF CacheInv

\* A step that moves no object and changes no list.
LEMMA QuietTurn ==
  ASSUME NEW c, NEW r, CacheNow(c, r), NEW t \in Threads, NEW pl, NEW x,
         TurnTo(t, pl, x, held[t]), zone' = zone, cache_h' = cache_h,
         cache_pc[t] \in WithList <=> pl \in WithList,
         pl \in WithList => x.i = call[t].i,
         pl # "error_exit",
         LocalOf(pl, x, c[t], r[t]) = LocalOf(cache_pc[t], call[t], c[t], r[t]),
         Counted(TRUE, Len(c[Reserved_list]), reserved_count', lk', cache_pc', call')
  PROVE  CacheInv'
<1> DEFINE lo == LocalOf(cache_pc[t], call[t], c[t], r[t])
           ls == LocalOf(pl, x, c[t], r[t])
           l == Of(c[Reserved_list])
<1>1. Mine(t, r, c, lo)
  BY DEF Mine
<1>2. lo = ls
  OBVIOUS
<1> HIDE DEF lo
<1>3. /\ cache_pc \in [Threads -> CachePlaces] /\ r[t] \in Seq(Objects)
      /\ CacheKept(cache_h, cache_pc, c)
      /\ zone \cap l = {} /\ zone \cap held[t] = {} /\ zone \cap lo = {}
      /\ l \cap held[t] = {} /\ l \cap lo = {} /\ held[t] \cap lo = {}
  BY <1>1, CacheFacts
<1>4. CacheKept(cache_h', cache_pc', c)
  <2>1. pl \in CachePlaces /\ cache_pc' = [cache_pc EXCEPT ![t] = pl]
    BY DEF TurnTo, CallHolds
  <2>2. CacheLists(cache_pc') = CacheLists(cache_pc)
    BY <1>3, <2>1, SameLists
  <2> QED
    BY <1>3, <2>2 DEF CacheKept
<1>5. PlaceHolds(t, pl, x, c, r[t], cache_h')
  BY DEF CacheNow, CacheHolds, PlaceHolds
<1>6. /\ ListsStay(t, cache_pc, c, c)
      /\ TouchesOnly(zone \cup l \cup held[t] \cup lo, cache_h, cache_h')
  BY DEF ListsStay, TouchesOnly
<1>7. Shared(zone, l, held[t], lo, zone', l, held[t], ls)
  BY <1>2, <1>3 DEF Shared
<1> QED
  BY <1>1, <1>3, <1>4, <1>5, <1>6, <1>7, CacheTurn

\* A step that writes to an object t or the zone has, and changes no list.
LEMMA WriteTurn ==
  ASSUME NEW c, NEW r, CacheNow(c, r), NEW t \in Threads, NEW pl, NEW x, NEW hs,
         TurnTo(t, pl, x, hs), NEW s \in Seq(Objects),
         cache_pc[t] \notin WithList, pl \notin WithList,
         NEW o \in Objects,
         NEW lo, Mine(t, r, c, lo), o \in zone \cup held[t] \cup lo,
         cache_h' = Cache!Clear(cache_h, o) \/ cache_h' = Cache!Written(cache_h, o),
         TouchesOnly({o}, cache_h, cache_h') => PlaceHolds(t, pl, x, c, s, cache_h'),
         Shared(zone, Of(c[Reserved_list]), held[t], lo,
                zone', Of(c[Reserved_list]), hs, LocalOf(pl, x, c[t], s)),
         Counted(TRUE, Len(c[Reserved_list]), reserved_count', lk', cache_pc', call')
  PROVE  CacheInv'
<1> DEFINE g1 == cache_h'
           l == Of(c[Reserved_list])
<1>1. /\ cache_pc \in [Threads -> CachePlaces]
      /\ CacheKept(cache_h, cache_pc, c)
      /\ Locals(cache_pc, call, c, r)[t] = lo
  BY CacheFacts
<1>2. Off(c, CacheLists(cache_pc), o)
  <2>1. Owned(zone, Of(c[Reserved_list]), held, Locals(cache_pc, call, c, r))
    BY DEF CacheNow, CacheHolds
  <2>2. o \in zone \cup held[t]
          \/ (cache_pc[t] \notin WithList /\ o \in Locals(cache_pc, call, c, r)[t])
    BY <1>1
  <2> QED
    BY <2>1, <2>2, OffTheLists
<1>3. CacheKept(g1, cache_pc, c) /\ TouchesOnly({o}, cache_h, g1)
  <2>1. g1 = Cache!Clear(cache_h, o) \/ g1 = Cache!Written(cache_h, o)
    OBVIOUS
  <2> HIDE DEF g1
  <2> QED
    BY <1>1, <1>2, <2>1, WriteKeeps
<1>4. CacheKept(cache_h', cache_pc', c)
  <2>1. pl \in CachePlaces /\ cache_pc' = [cache_pc EXCEPT ![t] = pl]
    BY DEF TurnTo, CallHolds
  <2>2. CacheLists(cache_pc') = CacheLists(cache_pc)
    BY <1>1, <2>1, SameLists
  <2> QED
    BY <1>3, <2>2 DEF CacheKept
<1>5. ListsStay(t, cache_pc, c, c)
  BY DEF ListsStay
<1>6. TouchesOnly(zone \cup l \cup held[t] \cup lo, cache_h, cache_h')
  <2>1. o \in zone \cup l \cup held[t] \cup lo
    OBVIOUS
  <2> HIDE DEF l
  <2> QED
    BY <1>3, <2>1 DEF TouchesOnly
<1>7. PlaceHolds(t, pl, x, c, s, cache_h')
  BY <1>3
<1> QED
  BY <1>4, <1>5, <1>6, <1>7, CacheTurn

\* There are at most as many objects on the list as there are.
LEMMA ReservedIsShort ==
  ASSUME NEW c, NEW r, CacheNow(c, r)
  PROVE  Len(c[Reserved_list]) <= Cardinality(Objects)
<1>1. CacheKept(cache_h, cache_pc, c)
  BY DEF CacheNow, CacheHolds
<1>2. c[Reserved_list] \in Seq(Objects)
  BY <1>1 DEF CacheKept, Kept, Rings, CacheLists
<1>3. \A i, j \in 1 .. Len(c[Reserved_list]) :
        c[Reserved_list][i] = c[Reserved_list][j] => i = j
  BY <1>1 DEF CacheKept, Kept, Rings, CacheLists
<1> QED
  BY <1>2, <1>3, DistinctIsShort, LibraryAssumption

\* What who has the lock must know of the count, and who has not.
LEMMA CountOfHolder ==
  ASSUME NEW len, NEW rc \in 0 .. Cardinality(Objects), NEW t \in Threads,
         NEW p, NEW cl,
         CASE p[t] = "add_count" -> rc + cl[t].n = len
           [] p[t] = "free_count" -> rc + 1 = len
           [] p[t] \in {"release_free", "prealloc_count"} -> rc = len + 1
           [] OTHER -> rc = len
  PROVE  Counted(TRUE, len, rc, t, p, cl)
BY CacheCells DEF Counted

\* When the lock is nobody's the count is the length of the list.
LEMMA CountUnlocked ==
  ASSUME NEW len, NEW rc \in 0 .. Cardinality(Objects), rc = len, NEW p, NEW cl
  PROVE  Counted(TRUE, len, rc, NoThread, p, cl)
BY CacheCells DEF Counted

\* What is known of the count, by who has the lock and where.
LEMMA CountIs ==
  ASSUME NEW c, NEW r, CacheNow(c, r), NEW t \in Threads, alive
  PROVE  LET len == Len(c[Reserved_list])
         IN  /\ alive = TRUE
             /\ reserved_count \in 0 .. Cardinality(Objects)
             /\ Cardinality(Objects) \in Nat
             /\ Counted(TRUE, len, reserved_count, lk, cache_pc, call)
             /\ lk = NoThread => reserved_count = len
             /\ lk = t =>
                  CASE cache_pc[t] = "add_count" -> reserved_count + call[t].n = len
                    [] cache_pc[t] = "free_count" -> reserved_count + 1 = len
                    [] cache_pc[t] \in {"release_free", "prealloc_count"}
                         -> reserved_count = len + 1
                    [] OTHER -> reserved_count = len
<1>1. alive = TRUE
  BY DEF CacheNow, CacheHolds, CallsHold
<1>2. Counted(TRUE, Len(c[Reserved_list]), reserved_count, lk, cache_pc, call)
  BY <1>1 DEF CacheNow, CacheHolds
<1>3. Cardinality(Objects) \in Nat
  BY LibraryAssumption, FS_CardinalityType
<1> QED
  BY <1>1, <1>2, <1>3 DEF Counted

\* A call of a thread that is idle can be made while the cache is there, and
\* one that goes on, too.
LEMMA CacheIsThere ==
  ASSUME NEW c, NEW r, CacheNow(c, r), NEW t \in Threads, cache_pc[t] # "idle"
  PROVE  alive
BY DEF CacheNow, CacheHolds, CallsHold

\* A thread that is in no call and has no lock.
LEMMA NoCallHolds ==
  ASSUME NEW t \in Threads, NEW k, k # t
  PROVE  CallHolds(t, k, "idle", Cache!NoCall)
<1>1. 0 \in 0 .. MaxCall
  BY LibraryAssumption
<1> QED
  BY <1>1
     DEF CallHolds, Cache!NoCall, CacheCall, CachePlaces, WithLock, WithEntry

\* To take the lock is to find the count right.
LEMMA EnterKeeps ==
  ASSUME CacheInv, NEW t \in Threads, NEW from, NEW to, Cache!Enter(t, from, to),
         \/ from = "reserve" /\ to = "add_list" /\ call[t].i = call[t].n
         \/ from = "release" /\ to = "release_turn"
         \/ from = "prealloc" /\ to = "prealloc_pop"
         \/ from = "free" /\ to = "free_add"
  PROVE  CacheInv'
<1>1. PICK c, r : CacheNow(c, r)
  BY DEF CacheInv, CacheNow
<1> DEFINE lo == LocalOf(cache_pc[t], call[t], c[t], r[t])
           x == call[t]
<1>2. /\ cache_pc[t] = from /\ lk = NoThread /\ lk' = t /\ alive' = alive
      /\ cache_pc' = [cache_pc EXCEPT ![t] = to]
      /\ zone' = zone /\ cache_h' = cache_h /\ reserved_count' = reserved_count
      /\ held' = held /\ call' = call
  BY DEF Cache!Enter, Cache!Acquire, Cache!MayLock, Cache!Goto
<1>3. /\ cache_pc \in [Threads -> CachePlaces]
      /\ call \in [Threads -> CacheCall]
      /\ held \in [Threads -> SUBSET Objects] /\ x \in CacheCall
      /\ CallHolds(t, lk, from, x)
      /\ alive
  BY <1>1, <1>2, CacheFacts, CacheIsThere DEF Mine
<1>4. CallHolds(t, lk', to, x)
  BY <1>2, <1>3 DEF CallHolds, CachePlaces, WithLock, WithEntry
<1>5. TurnTo(t, to, x, held[t])
  BY <1>2, <1>3, <1>4 DEF TurnTo, LockMoves
<1>6. /\ cache_pc[t] \in WithList <=> to \in WithList
      /\ to # "error_exit"
      /\ LocalOf(to, x, c[t], r[t]) = LocalOf(cache_pc[t], call[t], c[t], r[t])
  BY <1>2 DEF WithList, WithEntry, LocalOf
<1>7. Counted(TRUE, Len(c[Reserved_list]), reserved_count', lk', cache_pc', call')
  <2>1. /\ reserved_count \in 0 .. Cardinality(Objects)
        /\ reserved_count = Len(c[Reserved_list])
    BY <1>1, <1>2, <1>3, CountIs
  <2>2. /\ cache_pc'[t] = to
        /\ to \notin {"add_count", "free_count", "release_free", "prealloc_count"}
    BY <1>2, <1>3
  <2>3. Counted(TRUE, Len(c[Reserved_list]), reserved_count, t, cache_pc', call')
    BY <2>1, <2>2, CountOfHolder
  <2> QED
    BY <1>2, <2>3
<1> QED
  BY <1>1, <1>2, <1>5, <1>6, <1>7, QuietTurn

\* The lock is given back when the count is the length again.
LEMMA LeaveKeeps ==
  ASSUME CacheInv, NEW t \in Threads,
         cache_pc[t] \in {"add_count", "release_turn", "prealloc_pop", "free_count"},
         reserved_count' = IF cache_pc[t] = "add_count" THEN reserved_count + call[t].n
                           ELSE IF cache_pc[t] = "free_count" THEN reserved_count + 1
                           ELSE reserved_count,
         Cache!Unlock, Cache!Return(t),
         alive' = alive, zone' = zone, cache_h' = cache_h, held' = held
  PROVE  CacheInv'
<1>1. PICK c, r : CacheNow(c, r)
  BY DEF CacheInv, CacheNow
<1> DEFINE x == Cache!NoCall
           len == Len(c[Reserved_list])
<1>2. /\ lk' = NoThread
      /\ cache_pc' = [cache_pc EXCEPT ![t] = "idle"] /\ call' = [call EXCEPT ![t] = x]
  BY DEF Cache!Unlock, Cache!Return, Cache!Goto
<1>3. /\ cache_pc \in [Threads -> CachePlaces]
      /\ call \in [Threads -> CacheCall]
      /\ held \in [Threads -> SUBSET Objects]
      /\ CallHolds(t, lk, cache_pc[t], call[t]) /\ alive /\ len \in Nat
  BY <1>1, CacheFacts, CacheIsThere DEF Mine
<1>4. lk = t /\ CallHolds(t, lk', "idle", x)
  BY <1>2, <1>3, NoCallHolds, CacheCells DEF CallHolds, WithLock
<1>5. TurnTo(t, "idle", x, held[t])
  BY <1>2, <1>3, <1>4 DEF TurnTo, LockMoves
<1>6. /\ cache_pc[t] \notin WithList /\ "idle" \notin WithList
      /\ LocalOf("idle", x, c[t], r[t]) = LocalOf(cache_pc[t], call[t], c[t], r[t])
  BY DEF WithList, WithEntry, LocalOf
<1>7. Counted(TRUE, len, reserved_count', lk', cache_pc', call')
  <2>1. reserved_count' = len
    BY <1>1, <1>3, <1>4, CountIs
  <2>2. len <= Cardinality(Objects) /\ Cardinality(Objects) \in Nat
    BY <1>1, ReservedIsShort, LibraryAssumption, FS_CardinalityType
  <2>3. reserved_count' \in 0 .. Cardinality(Objects)
    BY <1>3, <2>1, <2>2
  <2>4. Counted(TRUE, len, reserved_count', NoThread, cache_pc', call')
    BY <2>1, <2>3, CountUnlocked
  <2> QED
    BY <1>2, <2>4
<1> QED
  BY <1>1, <1>2, <1>5, <1>6, <1>7, QuietTurn

\* A call that begins with reading its arguments.
LEMMA BeginQuietly ==
  ASSUME CacheInv, NEW t \in Threads, NEW pl \in {"release", "prealloc"},
         NEW n \in 0 .. MaxCall, Cache!Begin(t, pl, [Cache!NoCall EXCEPT !.n = n]),
         alive' = alive, zone' = zone, cache_h' = cache_h,
         reserved_count' = reserved_count, lk' = lk, held' = held
  PROVE  CacheInv'
<1>1. PICK c, r : CacheNow(c, r)
  BY DEF CacheInv, CacheNow
<1> DEFINE x == [Cache!NoCall EXCEPT !.n = n]
           len == Len(c[Reserved_list])
<1>2. /\ cache_pc[t] = "idle" /\ alive
      /\ cache_pc' = [cache_pc EXCEPT ![t] = pl] /\ call' = [call EXCEPT ![t] = x]
  BY DEF Cache!Begin, Cache!Goto
<1>3. /\ cache_pc \in [Threads -> CachePlaces]
      /\ call \in [Threads -> CacheCall]
      /\ held \in [Threads -> SUBSET Objects]
      /\ CallHolds(t, lk, cache_pc[t], call[t])
  BY <1>1, CacheFacts DEF Mine
<1>4. lk # t /\ CallHolds(t, lk', pl, x)
  <2>1. lk # t
    BY <1>2, <1>3 DEF CallHolds, WithLock
  <2>2. /\ x.i = 0 /\ x.n = n /\ x \in CacheCall
    <3>1. 0 \in 0 .. MaxCall
      BY LibraryAssumption
    <3> QED
      BY <3>1 DEF Cache!NoCall, CacheCall
  <2> QED
    BY <2>1, <2>2 DEF CallHolds, WithLock, WithEntry, CachePlaces
<1>5. TurnTo(t, pl, x, held[t])
  BY <1>2, <1>3, <1>4 DEF TurnTo, LockMoves
<1>6. /\ cache_pc[t] \notin WithList /\ pl \notin WithList /\ pl # "error_exit"
      /\ LocalOf(pl, x, c[t], r[t]) = LocalOf(cache_pc[t], call[t], c[t], r[t])
  BY <1>2 DEF WithList, WithEntry, LocalOf
<1>7. Counted(TRUE, len, reserved_count', lk', cache_pc', call')
  <2>1. Counted(TRUE, len, reserved_count, lk, cache_pc, call)
    BY <1>1, <1>2, CountIs
  <2>2. \A u \in Threads \ {t} :
          cache_pc'[u] = cache_pc[u] /\ call'[u] = call[u]
    BY <1>2, <1>3
  <2>3. Counted(TRUE, len, reserved_count, lk, cache_pc', call')
    BY <1>4, <2>1, <2>2 DEF Counted
  <2> QED
    BY <2>3
<1> QED
  BY <1>1, <1>2, <1>5, <1>6, <1>7, QuietTurn

\* An object that t has or gets from the zone, and writes to.
LEMMA AllocKeeps ==
  ASSUME CacheInv, NEW t \in Threads, Cache!Alloc(t)
  PROVE  CacheInv'
<1>1. PICK c, r : CacheNow(c, r)
  BY DEF CacheInv, CacheNow
<1> DEFINE lo == LocalOf(cache_pc[t], call[t], c[t], r[t])
           l == Of(c[Reserved_list])
           x == call[t]
<1>2. PICK o \in zone : /\ zone' = zone \ {o}
                        /\ held' = [held EXCEPT ![t] = @ \cup {o}]
                        /\ cache_h' = Cache!Written(cache_h, o)
  BY DEF Cache!Alloc
<1>3. /\ cache_pc[t] = "idle" /\ alive /\ alive' = alive
      /\ reserved_count' = reserved_count /\ lk' = lk
      /\ cache_pc' = cache_pc /\ call' = call
  BY DEF Cache!Alloc
<1>4. Mine(t, r, c, lo) /\ lo = {} /\ "idle" \notin WithList
  BY <1>3 DEF Mine, LocalOf, WithList, WithEntry
<1>5. /\ cache_pc \in [Threads -> CachePlaces]
      /\ call \in [Threads -> CacheCall]
      /\ CallHolds(t, lk, "idle", x)
      /\ zone \subseteq Objects /\ r[t] \in Seq(Objects)
      /\ zone \cap l = {} /\ zone \cap held[t] = {} /\ l \cap held[t] = {}
  BY <1>1, <1>3, <1>4, CacheFacts
<1>6. TurnTo(t, "idle", x, held[t] \cup {o})
  BY <1>2, <1>3, <1>5 DEF TurnTo, LockMoves
<1>7. /\ LocalOf("idle", x, c[t], r[t]) = {}
      /\ PlaceHolds(t, "idle", x, c, r[t], cache_h')
  BY DEF LocalOf, WithList, WithEntry, PlaceHolds
<1>8. Counted(TRUE, Len(c[Reserved_list]), reserved_count', lk', cache_pc', call')
  BY <1>1, <1>3, CountIs
<1> HIDE DEF lo, l
<1>9. Shared(zone, l, held[t], lo, zone', l, held[t] \cup {o},
             LocalOf("idle", x, c[t], r[t]))
  BY <1>2, <1>4, <1>5, <1>7 DEF Shared
<1>10. o \in Objects /\ o \in zone \cup held[t] \cup lo
  BY <1>5
<1> QED
  BY <1>1, <1>2, <1>3, <1>4, <1>5, <1>6, <1>7, <1>8, <1>9, <1>10, WriteTurn
     DEF l

\* kfio_cache_free gives a caller's object back, to the zone or to the list.
LEMMA FreeKeeps ==
  ASSUME CacheInv, NEW t \in Threads, NEW o \in Objects, Cache!Free(t, o)
  PROVE  CacheInv'
<1>1. PICK c, r : CacheNow(c, r)
  BY DEF CacheInv, CacheNow
<1> DEFINE lo == LocalOf(cache_pc[t], call[t], c[t], r[t])
           l == Of(c[Reserved_list])
           x == call[t]
<1>2. /\ cache_pc[t] = "idle" /\ alive /\ alive' = alive /\ o \in held[t]
      /\ reserved_count' = reserved_count /\ lk' = lk
      /\ cache_pc' = cache_pc /\ call' = call
      /\ zone' = zone \cup {o}
      /\ held' = [held EXCEPT ![t] = @ \ {o}]
      /\ cache_h' = Cache!Clear(cache_h, o)
  BY DEF Cache!Free
<1>4. Mine(t, r, c, lo) /\ lo = {} /\ "idle" \notin WithList
  BY <1>2 DEF Mine, LocalOf, WithList, WithEntry
<1>5. /\ cache_pc \in [Threads -> CachePlaces]
      /\ call \in [Threads -> CacheCall]
      /\ CallHolds(t, lk, "idle", x) /\ r[t] \in Seq(Objects)
      /\ zone \cap l = {} /\ zone \cap held[t] = {} /\ l \cap held[t] = {}
  BY <1>1, <1>2, <1>4, CacheFacts
<1>6. TurnTo(t, "idle", x, held[t] \ {o})
  BY <1>2, <1>5 DEF TurnTo, LockMoves
<1>7. /\ LocalOf("idle", x, c[t], r[t]) = {}
      /\ PlaceHolds(t, "idle", x, c, r[t], cache_h')
  BY DEF LocalOf, WithList, WithEntry, PlaceHolds
<1>8. Counted(TRUE, Len(c[Reserved_list]), reserved_count', lk', cache_pc', call')
  BY <1>1, <1>2, CountIs
<1> HIDE DEF lo, l
<1>9. Shared(zone, l, held[t], lo, zone', l, held[t] \ {o},
             LocalOf("idle", x, c[t], r[t]))
  BY <1>2, <1>4, <1>5, <1>7 DEF Shared
<1>10. o \in zone \cup held[t] \cup lo
  BY <1>2
<1> QED
  BY <1>1, <1>2, <1>4, <1>5, <1>6, <1>7, <1>8, <1>9, <1>10, WriteTurn DEF l

\* fusion_cache_release frees what it took off the list, and counts it.
LEMMA ReleaseFreeKeeps ==
  ASSUME CacheInv, NEW t \in Threads, Cache!ReleaseFree(t)
  PROVE  CacheInv'
<1>1. PICK c, r : CacheNow(c, r)
  BY DEF CacheInv, CacheNow
<1> DEFINE lo == LocalOf(cache_pc[t], call[t], c[t], r[t])
           l == Of(c[Reserved_list])
           o == call[t].le
           x == [call[t] EXCEPT !.i = call[t].i + 1, !.le = NULL]
           pl == "release_turn"
<1>2. /\ cache_pc[t] = "release_free" /\ alive' = alive /\ lk' = lk
      /\ reserved_count' = reserved_count - 1
      /\ zone' = zone \cup {o} /\ held' = held
      /\ cache_h' = Cache!Clear(cache_h, o)
      /\ call' = [call EXCEPT ![t] = x]
      /\ cache_pc' = [cache_pc EXCEPT ![t] = pl]
  <2>1. /\ cache_pc[t] = "release_free" /\ alive' = alive /\ lk' = lk
        /\ reserved_count' = reserved_count - 1
        /\ zone' = zone \cup {o} /\ held' = held
        /\ cache_h' = Cache!Clear(cache_h, o)
        /\ cache_pc' = [cache_pc EXCEPT ![t] = pl]
    BY DEF Cache!ReleaseFree, Cache!Goto
  <2>3. call \in [Threads -> CacheCall]
    BY <1>1, CacheFacts DEF Mine
  <2>2. call' = [call EXCEPT ![t] = x]
    BY <2>3 DEF Cache!ReleaseFree
  <2> QED
    BY <2>1, <2>2
<1>3. /\ cache_pc \in [Threads -> CachePlaces]
      /\ call \in [Threads -> CacheCall]
      /\ CallHolds(t, lk, cache_pc[t], call[t]) /\ r[t] \in Seq(Objects)
      /\ held \in [Threads -> SUBSET Objects]
      /\ Len(c[Reserved_list]) \in Nat
  BY <1>1, CacheFacts DEF Mine
<1>4. /\ Mine(t, r, c, lo) /\ lo = {o} /\ pl \notin WithList
      /\ cache_pc[t] \notin WithList /\ lk = t /\ o \in Objects /\ alive
  BY <1>1, <1>2, <1>3, CacheIsThere
     DEF Mine, LocalOf, WithList, WithEntry, WithLock, CallHolds
<1> HIDE DEF lo, l
<1>5. /\ zone \cap l = {} /\ zone \cap held[t] = {} /\ l \cap held[t] = {}
      /\ zone \cap lo = {} /\ l \cap lo = {} /\ held[t] \cap lo = {}
  <2>1. CacheNow(c, r) /\ Mine(t, r, c, lo)
    BY <1>1, <1>4
  <2> QED
    BY <2>1, CacheFacts DEF l
<1>6. TurnTo(t, pl, x, held[t])
  <2>1. call[t] \in CacheCall /\ call[t].i < call[t].n
    BY <1>2, <1>3 DEF CallHolds
  <2>2. x \in CacheCall /\ x.i <= x.n
    <3>1. x = [n |-> call[t].n, i |-> call[t].i + 1, le |-> NULL,
               next |-> call[t].next]
      <4> DEFINE y == [call[t] EXCEPT !.i = call[t].i + 1]
      <4>1. y = [n |-> call[t].n, i |-> call[t].i + 1, le |-> call[t].le,
                 next |-> call[t].next]
        BY <2>1 DEF CacheCall
      <4>2. x = [y EXCEPT !.le = NULL]
        OBVIOUS
      <4> HIDE DEF x, y
      <4> QED
        BY <4>1, <4>2
    <3>2. /\ call[t].n \in 0 .. MaxCall /\ call[t].i \in 0 .. MaxCall
          /\ call[t].next \in Cache!Cells \cup {NULL}
      BY <2>1 DEF CacheCall
    <3>3. call[t].i + 1 \in 0 .. MaxCall /\ call[t].i + 1 <= call[t].n
      BY <2>1, <3>2, LibraryAssumption
    <3> HIDE DEF x
    <3> QED
      BY <3>1, <3>2, <3>3 DEF CacheCall
  <2>3. CallHolds(t, lk', pl, x)
    BY <1>2, <1>4, <2>2 DEF CallHolds, WithLock, WithEntry, CachePlaces
  <2> QED
    BY <1>2, <1>3, <1>4, <2>3 DEF TurnTo, LockMoves
<1>7. /\ LocalOf(pl, x, c[t], r[t]) = {}
      /\ PlaceHolds(t, pl, x, c, r[t], cache_h')
  BY DEF LocalOf, WithList, WithEntry, PlaceHolds
<1>8. Counted(TRUE, Len(c[Reserved_list]), reserved_count', lk', cache_pc', call')
  <2>1. /\ reserved_count = Len(c[Reserved_list]) + 1
        /\ reserved_count \in 0 .. Cardinality(Objects)
        /\ Cardinality(Objects) \in Nat
    BY <1>1, <1>2, <1>4, CountIs
  <2>2. cache_pc'[t] = pl
    BY <1>2, <1>3
  <2>3. /\ reserved_count' = Len(c[Reserved_list])
        /\ reserved_count' \in 0 .. Cardinality(Objects)
    BY <1>2, <1>3, <2>1
  <2>4. Counted(TRUE, Len(c[Reserved_list]), reserved_count', t, cache_pc', call')
    BY <2>2, <2>3, CountOfHolder
  <2> QED
    BY <1>2, <1>4, <2>4
<1> HIDE DEF x
<1>9. Shared(zone, l, held[t], lo, zone', l, held[t], LocalOf(pl, x, c[t], r[t]))
  BY <1>2, <1>4, <1>5, <1>7 DEF Shared
<1>10. o \in zone \cup held[t] \cup lo
  BY <1>4
<1> QED
  BY <1>1, <1>2, <1>3, <1>4, <1>6, <1>7, <1>8, <1>9, <1>10, WriteTurn DEF l

\* An allocation takes one reserved object for its caller, and counts it.
LEMMA PreallocCountKeeps ==
  ASSUME CacheInv, NEW t \in Threads, Cache!PreallocCount(t)
  PROVE  CacheInv'
<1>1. PICK c, r : CacheNow(c, r)
  BY DEF CacheInv, CacheNow
<1> DEFINE lo == LocalOf(cache_pc[t], call[t], c[t], r[t])
           l == Of(c[Reserved_list])
           o == call[t].le
           x == Cache!NoCall
           pl == "idle"
<1>2. /\ cache_pc[t] = "prealloc_count" /\ alive' = alive /\ lk' = NoThread
      /\ reserved_count' = reserved_count - 1 /\ zone' = zone
      /\ held' = [held EXCEPT ![t] = @ \cup {o}]
      /\ cache_h' = Cache!Written(cache_h, o)
      /\ call' = [call EXCEPT ![t] = x]
      /\ cache_pc' = [cache_pc EXCEPT ![t] = pl]
  BY DEF Cache!PreallocCount, Cache!Goto, Cache!Return, Cache!Unlock
<1>3. /\ cache_pc \in [Threads -> CachePlaces]
      /\ call \in [Threads -> CacheCall]
      /\ CallHolds(t, lk, cache_pc[t], call[t]) /\ r[t] \in Seq(Objects)
      /\ held \in [Threads -> SUBSET Objects]
      /\ Len(c[Reserved_list]) \in Nat
  BY <1>1, CacheFacts DEF Mine
<1>4. /\ Mine(t, r, c, lo) /\ lo = {o} /\ pl \notin WithList
      /\ cache_pc[t] \notin WithList /\ lk = t /\ o \in Objects /\ alive
  BY <1>1, <1>2, <1>3, CacheIsThere
     DEF Mine, LocalOf, WithList, WithEntry, WithLock, CallHolds
<1> HIDE DEF lo, l
<1>5. /\ zone \cap l = {} /\ zone \cap held[t] = {} /\ l \cap held[t] = {}
      /\ zone \cap lo = {} /\ l \cap lo = {} /\ held[t] \cap lo = {}
  <2>1. CacheNow(c, r) /\ Mine(t, r, c, lo)
    BY <1>1, <1>4
  <2> QED
    BY <2>1, CacheFacts DEF l
<1>6. TurnTo(t, pl, x, held[t] \cup {o})
  <2>1. CallHolds(t, lk', pl, x)
    BY <1>2, NoCallHolds, CacheCells
  <2> QED
    BY <1>2, <1>3, <1>4, <2>1 DEF TurnTo, LockMoves
<1>7. /\ LocalOf(pl, x, c[t], r[t]) = {}
      /\ PlaceHolds(t, pl, x, c, r[t], cache_h')
  BY DEF LocalOf, WithList, WithEntry, PlaceHolds
<1>8. Counted(TRUE, Len(c[Reserved_list]), reserved_count', lk', cache_pc', call')
  <2>1. /\ reserved_count = Len(c[Reserved_list]) + 1
        /\ reserved_count \in 0 .. Cardinality(Objects)
        /\ Cardinality(Objects) \in Nat
    BY <1>1, <1>2, <1>4, CountIs
  <2>2. /\ reserved_count' = Len(c[Reserved_list])
        /\ reserved_count' \in 0 .. Cardinality(Objects)
    BY <1>2, <1>3, <2>1
  <2>3. Counted(TRUE, Len(c[Reserved_list]), reserved_count', NoThread, cache_pc', call')
    BY <2>2, CountUnlocked
  <2> QED
    BY <1>2, <2>3
<1> HIDE DEF x
<1>9. Shared(zone, l, held[t], lo, zone', l, held[t] \cup {o},
             LocalOf(pl, x, c[t], r[t]))
  BY <1>2, <1>4, <1>5, <1>7 DEF Shared
<1>10. o \in zone \cup held[t] \cup lo
  BY <1>4
<1> QED
  BY <1>1, <1>2, <1>3, <1>4, <1>6, <1>7, <1>8, <1>9, <1>10, WriteTurn DEF l

\* A step of a thread that has not the lock leaves the count as it was.
LEMMA CountOfOther ==
  ASSUME NEW c, NEW r, CacheNow(c, r), NEW t \in Threads, alive, lk # t,
         NEW pl, cache_pc' = [cache_pc EXCEPT ![t] = pl],
         NEW x, call' = [call EXCEPT ![t] = x]
  PROVE  Counted(TRUE, Len(c[Reserved_list]), reserved_count, lk, cache_pc', call')
<1>1. Counted(TRUE, Len(c[Reserved_list]), reserved_count, lk, cache_pc, call)
  BY CountIs
<1>2. cache_pc \in [Threads -> CachePlaces] /\ call \in [Threads -> CacheCall]
  BY CacheFacts DEF Mine
<1>3. \A u \in Threads \ {t} : cache_pc'[u] = cache_pc[u] /\ call'[u] = call[u]
  BY <1>2
<1> QED
  BY <1>1, <1>3 DEF Counted

\* When the first of those yet to free is freed, the others are.
LEMMA ChainTail ==
  ASSUME NEW t \in Threads, NEW q \in Seq(Objects), NEW g, NEW x,
         ChainHolds(g, t, x, q), x.next # t
  PROVE  LET s == Without(q, 1)
         IN  /\ s \in Seq(Objects) /\ Of(s) = Of(q) \ {x.le} /\ x.le \in Of(q)
             /\ x.next \in Objects /\ g.next[x.next] \in Objects \cup {t}
             /\ \A g1, y : /\ TouchesOnly({x.le}, g, g1)
                           /\ y.le = x.next /\ y.next = g.next[x.next]
                           => ChainHolds(g1, t, y, s)
<1> DEFINE s == Without(q, 1)
           n == Len(q)
<1>1. /\ n \in Nat /\ n >= 1 /\ x.le = q[1] /\ x.next = At(t, q, 2)
      /\ \A i, j \in 1 .. n : q[i] = q[j] => i = j
      /\ \A i \in 2 .. n : g.next[q[i]] = At(t, q, i + 1)
      /\ \A i \in 1 .. n : q[i] \in Objects
  BY DEF ChainHolds
<1>2. n > 1 /\ 2 \in 1 .. n /\ x.next = q[2]
  BY <1>1 DEF At
<1>3. /\ s \in Seq(Objects) /\ Len(s) = n - 1
      /\ \A i \in 1 .. Len(s) : s[i] = q[i + 1] /\ i + 1 \in 2 .. n
  <2>1. s \in Seq(Objects) /\ Len(s) = n - 1
    BY <1>1, Removed
  <2>2. \A i \in 1 .. n - 1 : s[i] = q[i + 1] /\ i + 1 \in 2 .. n
    BY <1>1 DEF Without
  <2> HIDE DEF s
  <2> QED
    BY <2>1, <2>2
<1>4. Of(s) = Of(q) \ {x.le} /\ x.le \in Of(q)
  <2> HIDE DEF s
  <2>1. x.le \in Of(q) /\ x.le = q[1]
    BY <1>1 DEF Of
  <2>2. ASSUME NEW i \in 1 .. Len(s) PROVE s[i] \in Of(q) \ {x.le}
    <3>1. i + 1 \in 1 .. n /\ i + 1 # 1
      BY <1>3, <1>1
    <3> QED
      BY <1>1, <1>3, <3>1 DEF Of
  <2>3. ASSUME NEW i \in 1 .. n, i # 1 PROVE q[i] \in Of(s)
    <3>1. i - 1 \in 1 .. Len(s) /\ (i - 1) + 1 = i
      BY <1>1, <1>3, <2>3
    <3> QED
      BY <1>3, <3>1 DEF Of
  <2>4. \A y \in Of(s) : y \in Of(q) \ {x.le}
    BY <2>2 DEF Of
  <2>5. ASSUME NEW y \in Of(q), y # x.le PROVE y \in Of(s)
    <3>1. PICK i \in 1 .. n : q[i] = y
      BY DEF Of
    <3> QED
      BY <2>1, <2>3, <2>5, <3>1
  <2> QED
    BY <2>1, <2>4, <2>5
<1>5. \A i \in 1 .. n : At(t, q, i + 1) = At(t, s, i)
  <2> SUFFICES ASSUME NEW i \in 1 .. n PROVE At(t, q, i + 1) = At(t, s, i)
    OBVIOUS
  <2> HIDE DEF s
  <2>1. i \in 1 .. Len(s) <=> i + 1 \in 1 .. n
    BY <1>1, <1>3
  <2> QED
    BY <1>3, <2>1 DEF At
<1>6. /\ x.next \in Objects /\ g.next[x.next] = At(t, q, 3)
      /\ At(t, q, 3) \in Objects \cup {t}
  BY <1>1, <1>2 DEF At
<1> HIDE DEF s
<1>7. ASSUME NEW g1, NEW y, TouchesOnly({x.le}, g, g1),
             y.le = x.next, y.next = g.next[x.next]
      PROVE  ChainHolds(g1, t, y, s)
  <2>1. Len(s) >= 1 /\ y.le = s[1]
    BY <1>1, <1>2, <1>3, <1>7
  <2>2. y.next = At(t, s, 2)
    BY <1>2, <1>5, <1>6, <1>7
  <2>3. \A i, j \in 1 .. Len(s) : s[i] = s[j] => i = j
    <3>1. \A i \in 1 .. Len(s) : i + 1 \in 1 .. n
      BY <1>1, <1>3
    <3> QED
      BY <1>1, <1>3, <3>1
  <2>4. ASSUME NEW i \in 2 .. Len(s) PROVE g1.next[s[i]] = At(t, s, i + 1)
    <3>1. /\ i \in 1 .. Len(s) /\ i + 1 \in 2 .. n /\ i + 1 \in 1 .. n
          /\ i + 1 # 1
      BY <1>1, <1>3
    <3>2. s[i] = q[i + 1] /\ q[i + 1] # x.le /\ q[i + 1] \in Objects
      BY <1>1, <1>3, <3>1
    <3>3. g1.next[s[i]] = g.next[q[i + 1]]
      BY <1>7, <3>2 DEF TouchesOnly
    <3>4. g.next[q[i + 1]] = At(t, q, (i + 1) + 1)
      BY <1>1, <3>1
    <3> QED
      BY <1>5, <3>1, <3>3, <3>4
  <2> QED
    BY <2>1, <2>2, <2>3, <2>4 DEF ChainHolds
<1> QED
  BY <1>3, <1>4, <1>6, <1>7 DEF s

\* A failed reservation frees one object, and has the next at hand.
LEMMA ErrorExitTurnKeeps ==
  ASSUME CacheInv, NEW t \in Threads, Cache!ErrorExitTurn(t)
  PROVE  CacheInv'
<1>1. PICK c, r : CacheNow(c, r)
  BY DEF CacheInv, CacheNow
<1> DEFINE lo == LocalOf(cache_pc[t], call[t], c[t], r[t])
           l == Of(c[Reserved_list])
           o == call[t].le
           q == r[t]
<1>2. /\ cache_pc[t] = "error_exit" /\ alive' = alive /\ lk' = lk
      /\ reserved_count' = reserved_count /\ held' = held
      /\ zone' = zone \cup {o} /\ cache_h' = Cache!Clear(cache_h, o)
  BY DEF Cache!ErrorExitTurn
<1>3. /\ cache_pc \in [Threads -> CachePlaces]
      /\ call \in [Threads -> CacheCall]
      /\ CallHolds(t, lk, cache_pc[t], call[t]) /\ q \in Seq(Objects)
      /\ held \in [Threads -> SUBSET Objects] /\ alive
  BY <1>1, <1>2, CacheFacts, CacheIsThere DEF Mine
<1>4. /\ Mine(t, r, c, lo) /\ lo = Of(q)
      /\ cache_pc[t] \notin WithList /\ lk # t
      /\ ChainHolds(cache_h, t, call[t], q) /\ call[t] \in CacheCall
  BY <1>1, <1>2, <1>3
     DEF Mine, LocalOf, WithList, WithLock, CallHolds, CacheNow, CacheHolds
<1>5. o \in Of(q) /\ o \in Objects
  <2>1. 1 \in 1 .. Len(q) /\ o = q[1] /\ Len(q) \in Nat
    BY <1>3, <1>4 DEF ChainHolds
  <2> QED
    BY <1>3, <2>1 DEF Of
<1> HIDE DEF lo, l, q
<1>6. /\ zone \cap l = {} /\ zone \cap held[t] = {} /\ l \cap held[t] = {}
      /\ zone \cap lo = {} /\ l \cap lo = {} /\ held[t] \cap lo = {}
  <2>1. CacheNow(c, r) /\ Mine(t, r, c, lo)
    BY <1>1, <1>4
  <2> QED
    BY <2>1, CacheFacts DEF l
<1>7. o \in zone \cup held[t] \cup lo
  BY <1>4, <1>5
<1>8. CASE call[t].next = t
  <2> DEFINE pl == "idle"
             x == Cache!NoCall
  <2>1. /\ call' = [call EXCEPT ![t] = x]
        /\ cache_pc' = [cache_pc EXCEPT ![t] = pl]
    BY <1>8 DEF Cache!ErrorExitTurn, Cache!Return, Cache!Goto, Cache!Alloc_list
  <2>2. CallHolds(t, lk', pl, x)
    BY <1>2, <1>4, NoCallHolds
  <2>3. TurnTo(t, pl, x, held[t])
    BY <1>2, <1>3, <2>1, <2>2 DEF TurnTo, LockMoves
  <2>4. lo = {o}
    <3>1. Len(q) = 1
      <4>1. 2 \notin 1 .. Len(q)
        <5>1. At(t, q, 2) = t
          BY <1>4, <1>8 DEF ChainHolds
        <5> QED
          BY <1>3, <5>1, CacheCells DEF At
      <4>2. Len(q) \in Nat /\ Len(q) >= 1
        BY <1>3, <1>4 DEF ChainHolds
      <4>3. \A n \in Nat : n >= 1 /\ 2 \notin 1 .. n => n = 1
        OBVIOUS
      <4> QED
        BY <4>1, <4>2, <4>3
    <3> QED
      BY <1>4, <3>1 DEF ChainHolds, Of
  <2>5. /\ LocalOf(pl, x, c[t], q) = {} /\ pl \notin WithList
        /\ PlaceHolds(t, pl, x, c, q, cache_h')
    BY DEF LocalOf, WithList, WithEntry, PlaceHolds
  <2>6. Shared(zone, l, held[t], lo, zone', l, held[t], LocalOf(pl, x, c[t], q))
    BY <1>2, <1>6, <2>4, <2>5 DEF Shared
  <2>7. Counted(TRUE, Len(c[Reserved_list]), reserved_count', lk', cache_pc', call')
    BY <1>1, <1>2, <1>3, <1>4, <2>1, CountOfOther
  <2> QED
    BY <1>1, <1>2, <1>3, <1>4, <1>5, <1>7, <2>3, <2>5, <2>6, <2>7, WriteTurn
       DEF l
<1>9. CASE call[t].next # t
  <2> DEFINE pl == "error_exit"
             x == [call[t] EXCEPT !.le = call[t].next,
                                  !.next = cache_h.next[call[t].next]]
             s == Without(q, 1)
  <2>1. /\ call' = [call EXCEPT ![t] = x]
        /\ cache_pc' = [cache_pc EXCEPT ![t] = pl]
    <3>1. call' = [call EXCEPT ![t] = x] /\ cache_pc' = cache_pc
      BY <1>9 DEF Cache!ErrorExitTurn, Cache!Alloc_list
    <3> QED
      BY <1>2, <1>3, <3>1
  <2>2. /\ s \in Seq(Objects) /\ Of(s) = Of(q) \ {o}
        /\ call[t].next \in Objects /\ cache_h.next[call[t].next] \in Objects \cup {t}
        /\ \A g1, y : /\ TouchesOnly({o}, cache_h, g1)
                      /\ y.le = call[t].next
                      /\ y.next = cache_h.next[call[t].next]
                      => ChainHolds(g1, t, y, s)
    BY <1>3, <1>4, <1>9, ChainTail
  <2>3. /\ x.le = call[t].next /\ x.next = cache_h.next[call[t].next]
        /\ x \in CacheCall
    BY <1>4, <2>2, CacheCells DEF CacheCall
  <2> HIDE DEF x, s
  <2>4. CallHolds(t, lk', pl, x)
    BY <1>2, <1>4, <2>3 DEF CallHolds, WithLock, WithEntry, CachePlaces
  <2>5. TurnTo(t, pl, x, held[t])
    BY <1>2, <1>3, <2>1, <2>4 DEF TurnTo, LockMoves
  <2>6. LocalOf(pl, x, c[t], s) = Of(s) /\ pl \notin WithList
    BY DEF LocalOf, WithList, WithEntry
  <2>7. TouchesOnly({o}, cache_h, cache_h')
          => PlaceHolds(t, pl, x, c, s, cache_h')
    BY <2>2, <2>3, <2>6 DEF PlaceHolds
  <2>8. Shared(zone, l, held[t], lo, zone', l, held[t], LocalOf(pl, x, c[t], s))
    BY <1>2, <1>4, <1>5, <1>6, <2>2, <2>6 DEF Shared
  <2>9. Counted(TRUE, Len(c[Reserved_list]), reserved_count', lk', cache_pc', call')
    BY <1>1, <1>2, <1>3, <1>4, <2>1, CountOfOther
  <2> QED
    BY <1>1, <1>2, <1>3, <1>4, <1>5, <1>7, <2>2, <2>5, <2>6, <2>7, <2>8, <2>9,
       WriteTurn DEF l
<1> QED
  BY <1>8, <1>9

\* An object is put back on the reserved list.
LEMMA FreeReservedKeeps ==
  ASSUME CacheInv, NEW t \in Threads, NEW o \in Objects, Cache!FreeReserved(t, o)
  PROVE  CacheInv'
<1>1. PICK c, r : CacheNow(c, r)
  BY DEF CacheInv, CacheNow
<1> DEFINE lo == LocalOf(cache_pc[t], call[t], c[t], r[t])
           l == Of(c[Reserved_list])
           x == [Cache!NoCall EXCEPT !.le = o]
           pl == "free"
<1>2. /\ cache_pc[t] = "idle" /\ alive /\ alive' = alive /\ o \in held[t]
      /\ reserved_count' = reserved_count /\ lk' = lk
      /\ zone' = zone /\ cache_h' = cache_h
      /\ held' = [held EXCEPT ![t] = @ \ {o}]
      /\ cache_pc' = [cache_pc EXCEPT ![t] = pl]
      /\ call' = [call EXCEPT ![t] = x]
  BY DEF Cache!FreeReserved, Cache!Begin, Cache!Goto
<1>3. /\ Mine(t, r, c, lo) /\ lo = {} /\ "idle" \notin WithList
      /\ pl \notin WithList
  BY <1>2 DEF Mine, LocalOf, WithList, WithEntry
<1>4. /\ cache_pc \in [Threads -> CachePlaces]
      /\ call \in [Threads -> CacheCall]
      /\ CallHolds(t, lk, "idle", call[t]) /\ r[t] \in Seq(Objects)
      /\ CacheKept(cache_h, cache_pc, c)
      /\ zone \cap l = {} /\ zone \cap held[t] = {} /\ l \cap held[t] = {}
  BY <1>1, <1>2, <1>3, CacheFacts
<1>5. lk # t
  BY <1>4 DEF CallHolds, WithLock
<1>6. x.le = o /\ x \in CacheCall
  <2>1. 0 \in 0 .. MaxCall
    BY LibraryAssumption
  <2> QED
    BY <2>1 DEF Cache!NoCall, CacheCall
<1> HIDE DEF x
<1>7. CallHolds(t, lk', pl, x)
  BY <1>2, <1>5, <1>6 DEF CallHolds, WithLock, WithEntry, CachePlaces
<1>8. TurnTo(t, pl, x, held[t] \ {o})
  BY <1>2, <1>7 DEF TurnTo, LockMoves
<1>9. /\ LocalOf(pl, x, c[t], r[t]) = {o}
      /\ PlaceHolds(t, pl, x, c, r[t], cache_h')
  BY <1>6 DEF LocalOf, WithList, WithEntry, PlaceHolds
<1>10. Counted(TRUE, Len(c[Reserved_list]), reserved_count', lk', cache_pc', call')
  BY <1>1, <1>2, <1>5, CountOfOther
<1> HIDE DEF lo, l
<1>11. Shared(zone, l, held[t], lo, zone', l, held[t] \ {o},
             LocalOf(pl, x, c[t], r[t]))
  BY <1>2, <1>3, <1>4, <1>9 DEF Shared
<1>12. CacheKept(cache_h', cache_pc', c)
  <2>1. cache_pc[t] \in WithList <=> pl \in WithList
    BY <1>2, <1>3
  <2>2. CacheLists(cache_pc') = CacheLists(cache_pc)
    <3>1. pl \in CachePlaces
      BY DEF CachePlaces
    <3> QED
      BY <1>2, <1>4, <2>1, <3>1, SameLists
  <2> QED
    BY <1>2, <1>4, <2>2 DEF CacheKept
<1>13. /\ ListsStay(t, cache_pc, c, c)
       /\ TouchesOnly(zone \cup l \cup held[t] \cup lo, cache_h, cache_h')
  BY <1>2 DEF ListsStay, TouchesOnly
<1> QED
  BY <1>1, <1>3, <1>4, <1>8, <1>9, <1>10, <1>11, <1>12, <1>13, CacheTurn DEF l

\* A reservation begins, takes objects of the zone, gives them back or adds
\* them to those reserved.
LEMMA ReserveKeeps ==
  ASSUME CacheInv, NEW t \in Threads, NEW n \in 0 .. MaxCall, Cache!Reserve(t, n)
  PROVE  CacheInv'
<1>1. PICK c, r : CacheNow(c, r)
  BY DEF CacheInv, CacheNow
<1> DEFINE lo == LocalOf(cache_pc[t], call[t], c[t], r[t])
           l == Of(c[Reserved_list])
           x == [Cache!NoCall EXCEPT !.n = n]
           pl == "reserve"
           d == Begun(c, cache_pc', t)
<1>2. /\ cache_pc[t] = "idle" /\ alive /\ alive' = alive
      /\ reserved_count' = reserved_count /\ lk' = lk
      /\ zone' = zone /\ held' = held
      /\ cache_pc' = [cache_pc EXCEPT ![t] = pl]
      /\ call' = [call EXCEPT ![t] = x]
      /\ cache_h' = Cache!InitEntry(cache_h, t)
  BY DEF Cache!Reserve, Cache!Begin, Cache!Goto, Cache!Alloc_list
<1>3. /\ Mine(t, r, c, lo) /\ lo = {} /\ cache_pc[t] \notin WithList
      /\ pl \in WithList
  BY <1>2 DEF Mine, LocalOf, WithList, WithEntry
<1>4. /\ cache_pc \in [Threads -> CachePlaces]
      /\ call \in [Threads -> CacheCall]
      /\ CallHolds(t, lk, "idle", call[t]) /\ r[t] \in Seq(Objects)
      /\ held \in [Threads -> SUBSET Objects]
      /\ CacheKept(cache_h, cache_pc, c)
      /\ zone \cap l = {} /\ zone \cap held[t] = {} /\ l \cap held[t] = {}
  BY <1>1, <1>2, <1>3, CacheFacts
<1>5. lk # t
  BY <1>4 DEF CallHolds, WithLock
<1>6. x.i = 0 /\ x.n = n /\ x \in CacheCall
  <2>1. 0 \in 0 .. MaxCall
    BY LibraryAssumption
  <2> QED
    BY <2>1 DEF Cache!NoCall, CacheCall
<1>7. CallHolds(t, lk', pl, x)
  <2> HIDE DEF x
  <2>1. n >= 0
    OBVIOUS
  <2> QED
    BY <1>2, <1>5, <1>6, <2>1 DEF CallHolds, WithLock, WithEntry, CachePlaces
<1> HIDE DEF x
<1>8. TurnTo(t, pl, x, held[t])
  BY <1>2, <1>4, <1>7 DEF TurnTo, LockMoves
<1> DEFINE k == Cache!InitEntry(cache_h, t)
<1>17. d = Begun(c, cache_pc', t)
  OBVIOUS
<1> HIDE DEF d
<1>9. /\ CacheKept(k, cache_pc', d)
      /\ TouchesOnly({}, cache_h, k)
      /\ d[Reserved_list] = c[Reserved_list] /\ d[t] = <<>>
      /\ ListsStay(t, cache_pc, c, d)
  <2>1. /\ cache_pc \in [Threads -> CachePlaces]
        /\ CacheKept(cache_h, cache_pc, c)
        /\ cache_pc[t] \notin WithList /\ pl \in WithList
        /\ cache_pc' = Moved(cache_pc, t, pl) /\ d = Begun(c, cache_pc', t)
    BY <1>2, <1>3, <1>4, <1>17 DEF Moved
  <2>2. BeginDone(cache_h, k, cache_pc, cache_pc', c, d, t)
    BY <2>1, BeginKeeps
  <2> QED
    BY <2>2 DEF BeginDone
<1> HIDE DEF k
<1>10. k = cache_h'
  BY <1>2 DEF k
<1>11. /\ LocalOf(pl, x, d[t], r[t]) = {}
       /\ PlaceHolds(t, pl, x, d, r[t], cache_h')
  BY <1>3, <1>6, <1>9 DEF LocalOf, PlaceHolds, Of
<1>12. TouchesOnly(zone \cup Of(c[Reserved_list]) \cup held[t] \cup lo,
                   cache_h, cache_h')
  BY <1>9, <1>10 DEF TouchesOnly
<1>13. Counted(TRUE, Len(d[Reserved_list]), reserved_count', lk', cache_pc', call')
  <2>1. Counted(TRUE, Len(c[Reserved_list]), reserved_count, lk, cache_pc', call')
    BY <1>1, <1>2, <1>5, CountOfOther
  <2> QED
    BY <1>2, <1>9, <2>1
<1> HIDE DEF lo, l
<1>14. Shared(zone, l, held[t], lo, zone', l, held[t], LocalOf(pl, x, d[t], r[t]))
  BY <1>2, <1>3, <1>4, <1>11 DEF Shared
<1>15. Of(d[Reserved_list]) = l
  BY <1>9 DEF l
<1>16. /\ CacheKept(cache_h', cache_pc', d) /\ ListsStay(t, cache_pc, c, d)
       /\ r[t] \in Seq(Objects)
  BY <1>4, <1>9, <1>10
<1>18. Shared(zone, Of(c[Reserved_list]), held[t], lo, zone', Of(d[Reserved_list]),
              held[t], LocalOf(pl, x, d[t], r[t]))
  BY <1>14, <1>15 DEF l
<1> QED
  BY <1>1, <1>3, <1>8, <1>11, <1>12, <1>13, <1>16, <1>18, CacheTurn

\* A reservation has one object more on its own list.
LEMMA ReserveTurnKeeps ==
  ASSUME CacheInv, NEW t \in Threads, Cache!ReserveTurn(t)
  PROVE  CacheInv'
<1>1. PICK c, r : CacheNow(c, r)
  BY DEF CacheInv, CacheNow
<1> DEFINE lo == LocalOf(cache_pc[t], call[t], c[t], r[t])
           l == Of(c[Reserved_list])
           x == [call[t] EXCEPT !.i = call[t].i + 1]
           pl == "reserve"
<1>2. PICK o \in zone :
        /\ zone' = zone \ {o}
        /\ cache_h' = Cache!AddHead(Cache!Clear(cache_h, o), o, t)
  BY DEF Cache!ReserveTurn, Cache!Alloc_list
<1>3. /\ cache_pc[t] = pl /\ alive' = alive /\ call[t].i < call[t].n
      /\ reserved_count' = reserved_count /\ lk' = lk /\ held' = held
      /\ cache_pc' = cache_pc
      /\ call' = [call EXCEPT ![t] = x]
  BY DEF Cache!ReserveTurn
<1>4. /\ Mine(t, r, c, lo) /\ lo = Of(c[t]) /\ pl \in WithList
  BY <1>3 DEF Mine, LocalOf, WithList
<1> HIDE DEF lo
<1>5. /\ cache_pc \in [Threads -> CachePlaces]
      /\ call \in [Threads -> CacheCall]
      /\ CallHolds(t, lk, cache_pc[t], call[t]) /\ r[t] \in Seq(Objects)
      /\ held \in [Threads -> SUBSET Objects]
      /\ CacheKept(cache_h, cache_pc, c) /\ zone \subseteq Objects
      /\ zone \cap l = {} /\ zone \cap held[t] = {} /\ l \cap held[t] = {}
      /\ zone \cap lo = {} /\ l \cap lo = {} /\ held[t] \cap lo = {}
      /\ Reserved_list \in CacheLists(cache_pc)
  BY <1>1, <1>4, CacheFacts
<1>6. /\ lk # t /\ alive /\ call[t] \in CacheCall /\ t # Reserved_list
      /\ t \in CacheLists(cache_pc) /\ Len(c[t]) = call[t].i
  BY <1>1, <1>3, <1>4, <1>5, CacheIsThere, CacheCells
     DEF CallHolds, WithLock, CacheLists, CacheNow, CacheHolds
<1>7. x.i = call[t].i + 1 /\ x \in CacheCall /\ x.i <= x.n
  <2>1. /\ x = [n |-> call[t].n, i |-> call[t].i + 1, le |-> call[t].le,
                next |-> call[t].next]
    BY <1>6 DEF CacheCall
  <2>2. call[t].i + 1 \in 0 .. MaxCall /\ call[t].i + 1 <= call[t].n
    BY <1>3, <1>6, LibraryAssumption DEF CacheCall
  <2> HIDE DEF x
  <2> QED
    BY <1>6, <2>1, <2>2 DEF CacheCall
<1> HIDE DEF x
<1>8. CallHolds(t, lk', pl, x)
  BY <1>3, <1>6, <1>7 DEF CallHolds, WithLock, WithEntry, CachePlaces
<1>9. TurnTo(t, pl, x, held[t])
  BY <1>3, <1>5, <1>6, <1>8 DEF TurnTo, LockMoves
<1> DEFINE g == Cache!Clear(cache_h, o)
           k == Cache!AddHead(g, o, t)
           d == Pushed(c, t, o)
<1>10. k = cache_h'
  BY <1>2
<1>11. Off(c, CacheLists(cache_pc), o)
  <2>1. Owned(zone, Of(c[Reserved_list]), held, Locals(cache_pc, call, c, r))
    BY <1>1 DEF CacheNow, CacheHolds
  <2> QED
    BY <2>1, OffTheLists
<1>12. o \in Objects
  BY <1>5
<1>13. CacheKept(g, cache_pc, c) /\ TouchesOnly({o}, cache_h, g)
  BY <1>5, <1>11, <1>12, WriteKeeps
<1>23. d = Pushed(c, t, o)
  OBVIOUS
<1> HIDE DEF g, d
<1>14. /\ CacheKept(k, cache_pc, d)
       /\ TouchesOnly({o} \cup Of(c[t]), g, k)
       /\ Of(d[t]) = Of(c[t]) \cup {o} /\ o \notin Of(c[t])
       /\ Len(d[t]) = Len(c[t]) + 1 /\ Len(c[t]) \in Nat
       /\ \A m \in CacheLists(cache_pc) \ {t} : d[m] = c[m]
  <2>1. /\ CacheKept(g, cache_pc, c) /\ Off(c, CacheLists(cache_pc), o)
        /\ t \in CacheLists(cache_pc) /\ d = Pushed(c, t, o) /\ o \in Objects
    BY <1>6, <1>11, <1>12, <1>13, <1>23
  <2>2. PushDone(g, k, cache_pc, c, d, t, o)
    BY <2>1, PushKeeps
  <2> QED
    BY <2>2 DEF PushDone
<1> HIDE DEF k
<1>15. CacheKept(cache_h', cache_pc', d)
  BY <1>3, <1>10, <1>14
<1>16. ListsStay(t, cache_pc, c, d)
  BY <1>14 DEF ListsStay, CacheLists
<1>17. d[Reserved_list] = c[Reserved_list]
  BY <1>5, <1>6, <1>14
<1>18. /\ LocalOf(pl, x, d[t], r[t]) = lo \cup {o}
       /\ PlaceHolds(t, pl, x, d, r[t], cache_h')
  BY <1>4, <1>6, <1>7, <1>14 DEF LocalOf, PlaceHolds
<1>19. TouchesOnly(zone \cup Of(c[Reserved_list]) \cup held[t] \cup lo,
                   cache_h, cache_h')
  BY <1>4, <1>10, <1>13, <1>14 DEF TouchesOnly
<1>20. Counted(TRUE, Len(d[Reserved_list]), reserved_count', lk', cache_pc', call')
  <2>1. cache_pc' = [cache_pc EXCEPT ![t] = pl]
    BY <1>3, <1>5
  <2>2. Counted(TRUE, Len(c[Reserved_list]), reserved_count, lk, cache_pc', call')
    BY <1>1, <1>3, <1>6, <2>1, CountOfOther
  <2> QED
    BY <1>3, <1>17, <2>2
<1> HIDE DEF l
<1>21. Shared(zone, l, held[t], lo, zone', l, held[t], LocalOf(pl, x, d[t], r[t]))
  BY <1>2, <1>5, <1>18 DEF Shared
<1>22. Shared(zone, Of(c[Reserved_list]), held[t], lo, zone', Of(d[Reserved_list]),
              held[t], LocalOf(pl, x, d[t], r[t]))
  BY <1>17, <1>21 DEF l
<1>24. Mine(t, r, c, lo) /\ r[t] \in Seq(Objects)
  BY <1>4, <1>5
<1> QED
  BY <1>1, <1>9, <1>15, <1>16, <1>18, <1>19, <1>20, <1>22, <1>24, CacheTurn

\* A reservation that gets no object frees those it has.
LEMMA ReserveFailsKeeps ==
  ASSUME CacheInv, NEW t \in Threads, Cache!ReserveFails(t)
  PROVE  CacheInv'
<1>1. PICK c, r : CacheNow(c, r)
  BY DEF CacheInv, CacheNow
<1> DEFINE lo == LocalOf(cache_pc[t], call[t], c[t], r[t])
           l == Of(c[Reserved_list])
           s == c[t]
           first == cache_h.next[t]
           d == Dropped(c, cache_pc')
<1>2. /\ cache_pc[t] = "reserve" /\ alive' = alive
      /\ reserved_count' = reserved_count /\ lk' = lk /\ held' = held
      /\ zone' = zone /\ cache_h' = cache_h
  BY DEF Cache!ReserveFails
<1>3. Mine(t, r, c, lo) /\ lo = Of(s) /\ cache_pc[t] \in WithList
  BY <1>2 DEF Mine, LocalOf, WithList
<1> HIDE DEF lo
<1>4. /\ cache_pc \in [Threads -> CachePlaces]
      /\ call \in [Threads -> CacheCall]
      /\ CallHolds(t, lk, cache_pc[t], call[t])
      /\ held \in [Threads -> SUBSET Objects]
      /\ CacheKept(cache_h, cache_pc, c)
      /\ zone \cap l = {} /\ zone \cap held[t] = {} /\ l \cap held[t] = {}
      /\ zone \cap lo = {} /\ l \cap lo = {} /\ held[t] \cap lo = {}
  BY <1>1, <1>3, CacheFacts
<1>5. lk # t /\ alive /\ call[t] \in CacheCall /\ t \in CacheLists(cache_pc)
  BY <1>1, <1>2, <1>3, <1>4, CacheIsThere DEF CallHolds, WithLock, CacheLists
<1>6. /\ s \in Seq(Objects) /\ Len(s) \in Nat /\ first = At(t, s, 1)
      /\ \A i \in 1 .. Len(s) : cache_h.next[s[i]] = At(t, s, i + 1)
      /\ \A i, j \in 1 .. Len(s) : s[i] = s[j] => i = j
  <2>1. Kept(cache_h, c, Cache!Cells, CacheX, CacheLists(cache_pc), Objects)
    BY <1>4 DEF CacheKept
  <2>2. s \in Seq(Objects) /\ Len(s) \in Nat /\ first = At(t, s, 1)
    BY <1>5, <2>1, RingCells
  <2>3. Ring(cache_h, t, s) /\ \A i, j \in 1 .. Len(s) : s[i] = s[j] => i = j
    BY <1>5, <2>1 DEF Kept, Rings
  <2>4. ASSUME NEW i \in 1 .. Len(s) PROVE cache_h.next[s[i]] = At(t, s, i + 1)
    <3>1. i \in 0 .. Len(s) /\ At(t, s, i) = s[i]
      BY <2>2 DEF At
    <3> QED
      BY <2>3, <3>1 DEF Ring
  <2> QED
    BY <2>2, <2>3, <2>4
<1>10. d = Dropped(c, cache_pc')
  OBVIOUS
<1> HIDE DEF s, l, first, d
<1>7. ASSUME NEW pl \in {"idle", "error_exit"}, NEW x, NEW q \in Seq(Objects),
             CallHolds(t, lk', pl, x),
             pl = "error_exit" => ChainHolds(cache_h, t, x, q),
             LocalOf(pl, x, d[t], q) = lo,
             cache_pc' = [cache_pc EXCEPT ![t] = pl], call' = [call EXCEPT ![t] = x]
      PROVE  CacheInv'
  <2>1. TurnTo(t, pl, x, held[t])
    BY <1>2, <1>4, <1>5, <1>7 DEF TurnTo, LockMoves
  <2>2. pl \in CachePlaces \ WithList
    BY DEF WithList, CachePlaces
  <2>3. /\ CacheKept(cache_h, cache_pc', d)
        /\ d[Reserved_list] = c[Reserved_list] /\ ListsStay(t, cache_pc, c, d)
    <3>1. /\ cache_pc \in [Threads -> CachePlaces]
          /\ CacheKept(cache_h, cache_pc, c)
          /\ cache_pc[t] \in WithList /\ pl \in CachePlaces \ WithList
          /\ cache_pc' = Moved(cache_pc, t, pl) /\ d = Dropped(c, cache_pc')
      BY <1>3, <1>4, <1>7, <1>10, <2>2 DEF Moved
    <3>2. DropDone(cache_h, cache_pc, cache_pc', c, d, t)
      BY <3>1, DropKeeps
    <3> QED
      BY <3>2 DEF DropDone
  <2>4. PlaceHolds(t, pl, x, d, q, cache_h')
    BY <1>2, <1>7, <2>2 DEF PlaceHolds
  <2>5. TouchesOnly(zone \cup Of(c[Reserved_list]) \cup held[t] \cup lo,
                    cache_h, cache_h')
    BY <1>2 DEF TouchesOnly
  <2>6. Counted(TRUE, Len(d[Reserved_list]), reserved_count', lk', cache_pc', call')
    <3>1. Counted(TRUE, Len(c[Reserved_list]), reserved_count, lk, cache_pc', call')
      BY <1>1, <1>5, <1>7, CountOfOther
    <3> QED
      BY <1>2, <2>3, <3>1
  <2>7. Of(d[Reserved_list]) = l /\ Of(c[Reserved_list]) = l
    BY <2>3 DEF l
  <2>8. Shared(zone, l, held[t], lo, zone', l, held[t], LocalOf(pl, x, d[t], q))
    BY <1>2, <1>4, <1>7 DEF Shared
  <2>9. CacheKept(cache_h', cache_pc', d)
    BY <1>2, <2>3
  <2> QED
    BY <1>1, <1>3, <2>1, <2>3, <2>4, <2>5, <2>6, <2>7, <2>8, <2>9, CacheTurn
<1>8. CASE first = t
  <2>1. /\ cache_pc' = [cache_pc EXCEPT ![t] = "idle"]
        /\ call' = [call EXCEPT ![t] = Cache!NoCall]
    BY <1>8 DEF Cache!ReserveFails, Cache!ErrorExit, Cache!Return, Cache!Goto,
                Cache!Alloc_list, first
  <2>2. lo = {}
    <3>1. 1 \notin 1 .. Len(s)
      BY <1>6, <1>8, CacheCells DEF At
    <3>2. 1 .. Len(s) = {}
      BY <1>6, <3>1
    <3> QED
      BY <1>3, <3>2 DEF Of
  <2>3. LocalOf("idle", Cache!NoCall, d[t], s) = lo
    BY <2>2 DEF LocalOf, WithList, WithEntry
  <2>4. CallHolds(t, lk', "idle", Cache!NoCall)
    BY <1>2, <1>5, NoCallHolds
  <2> QED
    BY <1>6, <1>7, <2>1, <2>3, <2>4
<1>9. CASE first # t
  <2> DEFINE x == [call[t] EXCEPT !.le = first, !.next = cache_h.next[first]]
             pl == "error_exit"
  <2>1. /\ cache_pc' = [cache_pc EXCEPT ![t] = pl]
        /\ call' = [call EXCEPT ![t] = x]
    BY <1>9 DEF Cache!ReserveFails, Cache!ErrorExit, Cache!Goto,
                Cache!Alloc_list, first
  <2>2. /\ Len(s) >= 1 /\ first = s[1] /\ first \in Objects
        /\ cache_h.next[first] = At(t, s, 2) /\ At(t, s, 2) \in Cache!Cells
    <3>1. 1 \in 1 .. Len(s) /\ first = s[1]
      BY <1>6, <1>9 DEF At
    <3>2. first \in Objects /\ Len(s) >= 1 /\ cache_h.next[first] = At(t, s, 2)
      BY <1>6, <3>1
    <3>3. At(t, s, 2) \in Cache!Cells
      BY <1>6, CacheCells DEF At
    <3> QED
      BY <3>1, <3>2, <3>3
  <2>3. x.le = first /\ x.next = cache_h.next[first] /\ x \in CacheCall
    BY <1>5, <2>2 DEF CacheCall
  <2> HIDE DEF x
  <2>4. CallHolds(t, lk', pl, x)
    BY <1>2, <1>5, <2>3 DEF CallHolds, WithLock, WithEntry, CachePlaces
  <2>5. ChainHolds(cache_h, t, x, s)
    <3>1. 2 .. Len(s) \subseteq 1 .. Len(s)
      BY <1>6
    <3> QED
      BY <1>6, <2>2, <2>3, <3>1 DEF ChainHolds
  <2>6. LocalOf(pl, x, d[t], s) = lo
    BY <1>3 DEF LocalOf, WithList, WithEntry
  <2> QED
    BY <1>6, <1>7, <2>1, <2>4, <2>5, <2>6
<1> QED
  BY <1>8, <1>9

\* A reservation splices its list into the reserved one.
LEMMA ReserveAddKeeps ==
  ASSUME CacheInv, NEW t \in Threads, Cache!ReserveAdd(t)
  PROVE  CacheInv'
<1>1. PICK c, r : CacheNow(c, r)
  BY DEF CacheInv, CacheNow
<1> DEFINE lo == LocalOf(cache_pc[t], call[t], c[t], r[t])
           l == Of(c[Reserved_list])
           x == call[t]
           pl == "add_count"
           R == Reserved_list
<1>2. /\ cache_pc[t] = "add_list" /\ alive' = alive
      /\ reserved_count' = reserved_count /\ lk' = lk /\ held' = held
      /\ zone' = zone /\ call' = call
      /\ cache_h' = Cache!AddList(cache_h, t, R)
      /\ cache_pc' = [cache_pc EXCEPT ![t] = pl]
  BY DEF Cache!ReserveAdd, Cache!Alloc_list, Cache!Goto
<1>3. /\ Mine(t, r, c, lo) /\ lo = Of(c[t]) /\ cache_pc[t] \in WithList
      /\ pl \in CachePlaces \ WithList
  BY <1>2 DEF Mine, LocalOf, WithList, CachePlaces
<1> HIDE DEF lo
<1>4. /\ cache_pc \in [Threads -> CachePlaces]
      /\ call \in [Threads -> CacheCall]
      /\ CallHolds(t, lk, cache_pc[t], call[t]) /\ r[t] \in Seq(Objects)
      /\ held \in [Threads -> SUBSET Objects]
      /\ CacheKept(cache_h, cache_pc, c)
      /\ zone \cap l = {} /\ zone \cap held[t] = {} /\ l \cap held[t] = {}
      /\ zone \cap lo = {} /\ l \cap lo = {} /\ held[t] \cap lo = {}
      /\ R \in CacheLists(cache_pc)
  BY <1>1, <1>3, CacheFacts
<1>5. /\ lk = t /\ alive /\ x \in CacheCall /\ t \in CacheLists(cache_pc)
      /\ t # R /\ Len(c[t]) = x.i /\ x.i = x.n
  BY <1>1, <1>2, <1>3, <1>4, CacheIsThere, CacheCells
     DEF CallHolds, WithLock, CacheLists, CacheNow, CacheHolds
<1>6. TurnTo(t, pl, x, held[t])
  <2>1. CallHolds(t, lk', pl, x)
    BY <1>2, <1>5 DEF CallHolds, WithLock, WithEntry, CachePlaces
  <2> QED
    BY <1>2, <1>4, <1>5, <2>1 DEF TurnTo, LockMoves
<1> DEFINE k == Cache!AddList(cache_h, t, Reserved_list)
<1>7. \E d : /\ CacheKept(k, cache_pc, d)
             /\ Of(d[R]) = Of(c[R]) \cup Of(c[t])
             /\ Of(c[R]) \cap Of(c[t]) = {}
             /\ Len(d[R]) = Len(c[R]) + Len(c[t])
             /\ \A m \in CacheLists(cache_pc) \ {R, t} : d[m] = c[m]
             /\ TouchesOnly(Of(c[R]) \cup Of(c[t]), cache_h, k)
  BY <1>4, <1>5, AddAllKeeps
<1> HIDE DEF k
<1>8. PICK d : /\ CacheKept(k, cache_pc, d)
               /\ Of(d[R]) = Of(c[R]) \cup Of(c[t])
               /\ Of(c[R]) \cap Of(c[t]) = {}
               /\ Len(d[R]) = Len(c[R]) + Len(c[t])
               /\ \A m \in CacheLists(cache_pc) \ {R, t} : d[m] = c[m]
               /\ TouchesOnly(Of(c[R]) \cup Of(c[t]), cache_h, k)
  BY <1>7
<1>9. k = cache_h'
  BY <1>2 DEF k
<1> DEFINE e == Dropped(d, cache_pc')
<1>18. e = Dropped(d, cache_pc')
  OBVIOUS
<1> HIDE DEF e
<1>10. /\ CacheKept(k, cache_pc', e) /\ e[R] = d[R]
       /\ ListsStay(t, cache_pc, d, e)
  <2>1. /\ cache_pc \in [Threads -> CachePlaces] /\ CacheKept(k, cache_pc, d)
        /\ cache_pc[t] \in WithList /\ pl \in CachePlaces \ WithList
        /\ cache_pc' = Moved(cache_pc, t, pl) /\ e = Dropped(d, cache_pc')
    BY <1>2, <1>3, <1>4, <1>8, <1>18 DEF Moved
  <2>2. DropDone(k, cache_pc, cache_pc', d, e, t)
    BY <2>1, DropKeeps
  <2> QED
    BY <2>2 DEF DropDone
<1>11. ListsStay(t, cache_pc, c, e)
  <2>1. ASSUME NEW u \in Threads \ {t}, cache_pc[u] \in WithList
        PROVE  e[u] = c[u]
    <3>1. u \in CacheLists(cache_pc) \ {R, t}
      BY <2>1, CacheCells DEF CacheLists
    <3> QED
      BY <1>8, <1>10, <2>1, <3>1 DEF ListsStay
  <2> QED
    BY <2>1 DEF ListsStay
<1>12. /\ LocalOf(pl, x, e[t], r[t]) = {}
       /\ PlaceHolds(t, pl, x, e, r[t], cache_h')
  BY <1>3 DEF LocalOf, PlaceHolds, WithEntry
<1>13. TouchesOnly(zone \cup Of(c[R]) \cup held[t] \cup lo, cache_h, cache_h')
  BY <1>3, <1>8, <1>9 DEF TouchesOnly
<1>14. Counted(TRUE, Len(e[R]), reserved_count', lk', cache_pc', call')
  <2>1. /\ reserved_count \in 0 .. Cardinality(Objects)
        /\ reserved_count = Len(c[R])
    BY <1>1, <1>2, <1>5, CountIs
  <2>2. reserved_count + call'[t].n = Len(e[R]) /\ cache_pc'[t] = "add_count"
    BY <1>2, <1>4, <1>5, <1>8, <1>10, <2>1
  <2>3. Counted(TRUE, Len(e[R]), reserved_count, t, cache_pc', call')
    BY <2>1, <2>2, CountOfHolder
  <2> QED
    BY <1>2, <1>5, <2>3
<1>15. Of(e[R]) = l \cup lo
  BY <1>3, <1>8, <1>10
<1> HIDE DEF l
<1>16. Shared(zone, l, held[t], lo, zone', Of(e[R]), held[t],
              LocalOf(pl, x, e[t], r[t]))
  BY <1>2, <1>4, <1>12, <1>15 DEF Shared
<1>17. CacheKept(cache_h', cache_pc', e) /\ call' = [call EXCEPT ![t] = x]
  BY <1>2, <1>4, <1>9, <1>10
<1> QED
  BY <1>1, <1>3, <1>4, <1>6, <1>11, <1>12, <1>13, <1>14, <1>16, <1>17,
     CacheTurn
     DEF l

\* An object is taken off those reserved, or put back, before it is counted.
LEMMA TakeKeeps ==
  ASSUME CacheInv, NEW t \in Threads, NEW from, NEW to,
         \/ from = "release_turn" /\ to = "release_free" /\ call[t].i < call[t].n
         \/ from = "prealloc_pop" /\ to = "prealloc_count",
         cache_pc[t] = from, ~Cache!NothingReserved,
         call' = [call EXCEPT ![t].le = Cache!Popped(cache_h, Reserved_list)],
         cache_h' = Cache!PopHead(cache_h, Reserved_list), Cache!Goto(t, to),
         alive' = alive, zone' = zone, reserved_count' = reserved_count,
         lk' = lk, held' = held
  PROVE  CacheInv'
<1>1. PICK c, r : CacheNow(c, r)
  BY DEF CacheInv, CacheNow
<1> DEFINE lo == LocalOf(cache_pc[t], call[t], c[t], r[t])
           R == Reserved_list
           l == Of(c[Reserved_list])
           o == c[Reserved_list][1]
           x == [call[t] EXCEPT !.le = o]
           d == Popped(c, Reserved_list)
<1>2. /\ from \notin WithList /\ from \notin WithEntry /\ from # "error_exit"
      /\ from # "idle" /\ to \notin WithList /\ to # "error_exit"
      /\ from \in WithLock /\ to \in WithLock /\ to \in WithEntry /\ to \in CachePlaces
  BY DEF WithList, WithEntry, WithLock, CachePlaces
<1>3. Mine(t, r, c, lo) /\ lo = {}
  BY <1>2 DEF Mine, LocalOf
<1> HIDE DEF lo
<1>4. /\ cache_pc \in [Threads -> CachePlaces]
      /\ call \in [Threads -> CacheCall]
      /\ CallHolds(t, lk, cache_pc[t], call[t]) /\ r[t] \in Seq(Objects)
      /\ held \in [Threads -> SUBSET Objects]
      /\ CacheKept(cache_h, cache_pc, c) /\ R \in CacheLists(cache_pc)
      /\ Len(c[R]) \in Nat
      /\ zone \cap l = {} /\ zone \cap held[t] = {} /\ l \cap held[t] = {}
  BY <1>1, <1>3, CacheFacts
<1>5. lk = t /\ alive /\ call[t] \in CacheCall
  BY <1>1, <1>2, <1>4, CacheIsThere DEF CallHolds
<1>6. /\ reserved_count = Len(c[R]) /\ Len(c[R]) > 0
      /\ reserved_count \in 0 .. Cardinality(Objects)
  <2>1. /\ reserved_count = Len(c[R])
        /\ reserved_count \in 0 .. Cardinality(Objects)
    BY <1>1, <1>5, CountIs
  <2> QED
    BY <1>4, <2>1 DEF Cache!NothingReserved
<1>7. d = Popped(c, R) /\ o = c[R][1]
  OBVIOUS
<1> HIDE DEF d, o
<1>8. PopDone(cache_h, cache_h', cache_pc, c, d, R, o)
  BY <1>4, <1>6, <1>7, PopKeeps
<1>9. call' = [call EXCEPT ![t] = x] /\ o \in Objects
  BY <1>4, <1>8 DEF PopDone
<1>10. x.le = o /\ x \in CacheCall /\ x.i = call[t].i /\ x.n = call[t].n
  BY <1>5, <1>9 DEF CacheCall
<1> HIDE DEF x
<1>11. TurnTo(t, to, x, held[t])
  <2>1. CallHolds(t, lk', to, x)
    BY <1>2, <1>4, <1>5, <1>9, <1>10 DEF CallHolds
  <2> QED
    BY <1>4, <1>5, <1>9, <2>1 DEF TurnTo, LockMoves, Cache!Goto
<1>12. cache_pc' = [cache_pc EXCEPT ![t] = to]
  BY DEF Cache!Goto
<1>13. CacheKept(cache_h', cache_pc', d)
  <2>1. CacheLists(cache_pc') = CacheLists(cache_pc)
    <3>1. cache_pc[t] \in WithList <=> to \in WithList
      BY <1>2
    <3> QED
      BY <1>2, <1>4, <1>12, <3>1, SameLists
  <2> QED
    BY <1>8, <2>1 DEF CacheKept, PopDone
<1>14. ListsStay(t, cache_pc, c, d)
  <2>1. \A m \in CacheLists(cache_pc) \ {R} : d[m] = c[m]
    BY <1>8 DEF PopDone
  <2> QED
    BY <2>1, CacheCells DEF ListsStay, CacheLists
<1>15. /\ LocalOf(to, x, d[t], r[t]) = {o}
       /\ PlaceHolds(t, to, x, d, r[t], cache_h')
  BY <1>2, <1>10 DEF LocalOf, PlaceHolds
<1>16. TouchesOnly(zone \cup Of(c[R]) \cup held[t] \cup lo, cache_h, cache_h')
  BY <1>8 DEF TouchesOnly, PopDone
<1>17. Counted(TRUE, Len(d[R]), reserved_count', lk', cache_pc', call')
  <2>1. reserved_count = Len(d[R]) + 1
    BY <1>4, <1>6, <1>8 DEF PopDone
  <2>2. cache_pc'[t] = to
    BY <1>4, <1>12
  <2>3. Counted(TRUE, Len(d[R]), reserved_count, t, cache_pc', call')
    BY <1>6, <2>1, <2>2, CountOfHolder
  <2> QED
    BY <1>5, <2>3
<1>18. Of(d[R]) = l \ {o} /\ o \in l
  BY <1>8 DEF PopDone
<1> HIDE DEF l
<1>19. Shared(zone, l, held[t], lo, zone', Of(d[R]), held[t],
              LocalOf(to, x, d[t], r[t]))
  BY <1>3, <1>4, <1>15, <1>18 DEF Shared
<1>20. /\ Mine(t, r, c, lo) /\ r[t] \in Seq(Objects)
       /\ Shared(zone, Of(c[R]), held[t], lo, zone', Of(d[R]), held[t],
                 LocalOf(to, x, d[t], r[t]))
  BY <1>3, <1>4, <1>19 DEF l
<1> QED
  BY <1>1, <1>11, <1>13, <1>14, <1>15, <1>16, <1>17, <1>20, CacheTurn

\* A caller's object is put on the reserved list, under the lock.
LEMMA FreeAddKeeps ==
  ASSUME CacheInv, NEW t \in Threads, Cache!FreeAdd(t)
  PROVE  CacheInv'
<1>1. PICK c, r : CacheNow(c, r)
  BY DEF CacheInv, CacheNow
<1> DEFINE lo == LocalOf(cache_pc[t], call[t], c[t], r[t])
           R == Reserved_list
           l == Of(c[Reserved_list])
           o == call[t].le
           x == call[t]
           pl == "free_count"
           d == Pushed(c, Reserved_list, o)
<1>2. /\ cache_pc[t] = "free_add" /\ alive' = alive /\ zone' = zone
      /\ reserved_count' = reserved_count /\ lk' = lk /\ held' = held
      /\ call' = call /\ cache_pc' = [cache_pc EXCEPT ![t] = pl]
      /\ cache_h' = Cache!AddHead(cache_h, o, R)
  BY DEF Cache!FreeAdd, Cache!Goto
<1>3. Mine(t, r, c, lo) /\ lo = {o}
  BY <1>2 DEF Mine, LocalOf, WithList, WithEntry
<1> HIDE DEF lo
<1>4. /\ cache_pc \in [Threads -> CachePlaces]
      /\ call \in [Threads -> CacheCall]
      /\ CallHolds(t, lk, cache_pc[t], call[t]) /\ r[t] \in Seq(Objects)
      /\ held \in [Threads -> SUBSET Objects]
      /\ CacheKept(cache_h, cache_pc, c) /\ R \in CacheLists(cache_pc)
      /\ Len(c[R]) \in Nat
      /\ zone \cap l = {} /\ zone \cap held[t] = {} /\ l \cap held[t] = {}
      /\ zone \cap lo = {} /\ l \cap lo = {} /\ held[t] \cap lo = {}
      /\ Locals(cache_pc, call, c, r)[t] = lo
  <2>1. CacheNow(c, r) /\ Mine(t, r, c, lo)
    BY <1>1, <1>3
  <2> QED
    BY <2>1, CacheFacts
<1>5. /\ lk = t /\ alive /\ x \in CacheCall /\ o \in Objects
      /\ cache_pc[t] \notin WithList
  BY <1>1, <1>2, <1>4, CacheIsThere
     DEF CallHolds, WithLock, WithEntry, WithList
<1>6. TurnTo(t, pl, x, held[t])
  <2>1. CallHolds(t, lk', pl, x)
    BY <1>2, <1>5 DEF CallHolds, WithLock, WithEntry, CachePlaces
  <2> QED
    BY <1>2, <1>4, <1>5, <2>1 DEF TurnTo, LockMoves
<1>7. Off(c, CacheLists(cache_pc), o)
  <2>1. Owned(zone, Of(c[Reserved_list]), held, Locals(cache_pc, call, c, r))
    BY <1>1 DEF CacheNow, CacheHolds
  <2>2. o \in Locals(cache_pc, call, c, r)[t]
    BY <1>3, <1>4
  <2> QED
    BY <1>5, <2>1, <2>2, OffTheLists
<1>8. d = Pushed(c, R, o)
  OBVIOUS
<1> HIDE DEF d, o
<1>9. PushDone(cache_h, cache_h', cache_pc, c, d, R, o)
  BY <1>2, <1>4, <1>5, <1>7, <1>8, PushKeeps
<1>10. CacheKept(cache_h', cache_pc', d)
  <2>1. CacheLists(cache_pc') = CacheLists(cache_pc)
    <3>1. (cache_pc[t] \in WithList <=> pl \in WithList) /\ pl \in CachePlaces
      BY <1>5 DEF WithList, CachePlaces
    <3> QED
      BY <1>2, <1>4, <3>1, SameLists
  <2> QED
    BY <1>9, <2>1 DEF CacheKept, PushDone
<1>11. ListsStay(t, cache_pc, c, d)
  <2>1. \A m \in CacheLists(cache_pc) \ {R} : d[m] = c[m]
    BY <1>9 DEF PushDone
  <2> QED
    BY <2>1, CacheCells DEF ListsStay, CacheLists
<1>12. /\ LocalOf(pl, x, d[t], r[t]) = {}
       /\ PlaceHolds(t, pl, x, d, r[t], cache_h')
  BY DEF LocalOf, PlaceHolds, WithList, WithEntry
<1>13. TouchesOnly(zone \cup Of(c[R]) \cup held[t] \cup lo, cache_h, cache_h')
  BY <1>3, <1>9 DEF TouchesOnly, PushDone, o
<1>14. Counted(TRUE, Len(d[R]), reserved_count', lk', cache_pc', call')
  <2>1. /\ reserved_count = Len(c[R])
        /\ reserved_count \in 0 .. Cardinality(Objects)
    BY <1>1, <1>2, <1>5, CountIs
  <2>2. reserved_count + 1 = Len(d[R]) /\ cache_pc'[t] = pl
    BY <1>2, <1>4, <1>9, <2>1 DEF PushDone
  <2>3. Counted(TRUE, Len(d[R]), reserved_count, t, cache_pc', call')
    BY <2>1, <2>2, CountOfHolder
  <2> QED
    BY <1>2, <1>5, <2>3
<1>15. Of(d[R]) = l \cup {o} /\ o \notin l
  BY <1>9 DEF PushDone
<1> HIDE DEF l
<1>16. Shared(zone, l, held[t], lo, zone', Of(d[R]), held[t],
              LocalOf(pl, x, d[t], r[t]))
  BY <1>2, <1>3, <1>4, <1>12, <1>15 DEF Shared, o
<1>17. /\ Mine(t, r, c, lo) /\ r[t] \in Seq(Objects)
       /\ Shared(zone, Of(c[R]), held[t], lo, zone', Of(d[R]), held[t],
                 LocalOf(pl, x, d[t], r[t]))
  BY <1>3, <1>4, <1>16 DEF l
<1> QED
  BY <1>1, <1>6, <1>10, <1>11, <1>12, <1>13, <1>14, <1>17, CacheTurn

\* The lists of the cache are what a walk over them finds.
LEMMA CacheWalks ==
  ASSUME NEW c, NEW r, CacheNow(c, r), NEW l \in CacheLists(cache_pc)
  PROVE  /\ Cache!OnList(cache_h, l, Cache!Bound) = c[l]
         /\ Cache!Backwards(cache_h, l, Cache!Bound) = Ops!Reverse(c[l])
         /\ Cache!On(l) = Of(c[l]) /\ c[l] \in Seq(Objects)
         /\ Len(c[l]) <= Cardinality(Objects)
         /\ \A i, j \in 1 .. Len(c[l]) : c[l][i] = c[l][j] => i = j
<1> DEFINE b == Cache!Bound
           H == CacheLists(cache_pc)
<1>1. Kept(cache_h, c, Cache!Cells, CacheX, H, Objects)
  BY DEF CacheNow, CacheHolds, CacheKept
<1>2. /\ c[l] \in Seq(Objects) /\ Len(c[l]) \in Nat
      /\ \A i, j \in 1 .. Len(c[l]) : c[l][i] = c[l][j] => i = j
  BY <1>1 DEF Kept, Rings
<1>3. Len(c[l]) <= Cardinality(Objects) /\ Cardinality(Objects) \in Nat
  BY <1>2, DistinctIsShort, LibraryAssumption
<1>4. b = Cardinality(Objects) + 1
  BY DEF Cache!Bound, Cache!Cardinality, Cardinality
<1>5. b \in Nat /\ Len(c[l]) <= b
  BY <1>2, <1>3, <1>4
<1> HIDE DEF b, H
<1>6. NULL \notin Objects /\ l \in H
  BY CacheCells DEF H
<1>7. /\ Ops!OnList(cache_h, l, b) = c[l]
      /\ Ops!Backwards(cache_h, l, b) = Ops!Reverse(c[l])
  BY <1>1, <1>5, <1>6, WalksMeet
<1>8. /\ Cache!OnList(cache_h, l, b) = c[l]
      /\ Cache!Backwards(cache_h, l, b) = Ops!Reverse(c[l])
  BY <1>7, CacheCalls
<1>9. Cache!On(l) = Of(c[l])
  <2> DEFINE u == c[l]
  <2>1. Cache!On(l) = {u[i] : i \in DOMAIN u}
    BY <1>8 DEF Cache!On, Cache!ToSet, b
  <2>2. DOMAIN u = 1 .. Len(u)
    BY <1>2
  <2> HIDE DEF u
  <2>3. Cache!On(l) = {u[i] : i \in 1 .. Len(u)}
    BY <2>1, <2>2
  <2> QED
    BY <2>3 DEF Of, u
<1> QED
  BY <1>2, <1>3, <1>8, <1>9 DEF b

\* The links when the first k of s are taken off their list and given back.
GivenBack(g, s, k, m) ==
  m = [j \in 0 .. k |-> IF j = 0 THEN g
                        ELSE Cache!Clear(Cache!Del(m[j - 1], s[j]), s[j])]

\* The cache's destruction frees the objects of the list one by one.
LEMMA GivenBackIs ==
  ASSUME NEW g, NEW s, NEW n \in Nat
  PROVE  \E m : GivenBack(g, s, n, m)
<1> DEFINE S == {k \in Nat : \E m : GivenBack(g, s, k, m)}
<1>1. 0 \in S
  <2> DEFINE m == [j \in 0 .. 0 |-> g]
  <2>1. GivenBack(g, s, 0, m)
    BY DEF GivenBack
  <2> QED
    BY <2>1
<1>2. ASSUME NEW k \in Nat, k \in S PROVE k + 1 \in S
  <2>1. PICK m : GivenBack(g, s, k, m)
    BY <1>2
  <2> DEFINE Next1(j, y) == Cache!Clear(Cache!Del(y, s[j]), s[j])
             w == [j \in 0 .. k + 1 |-> IF j <= k THEN m[j] ELSE Next1(j, m[k])]
  <2>2. \A j \in 0 .. k : m[j] = IF j = 0 THEN g ELSE Next1(j, m[j - 1])
    BY <2>1 DEF GivenBack
  <2> HIDE DEF Next1
  <2>3. ASSUME NEW j \in 0 .. k + 1
        PROVE  w[j] = IF j = 0 THEN g ELSE Next1(j, w[j - 1])
    <3>1. CASE j = 0
      <4>1. 0 \in 0 .. k /\ 0 <= k /\ 0 \in 0 .. k + 1
        OBVIOUS
      <4> QED
        BY <2>2, <3>1, <4>1
    <3>2. CASE j # 0 /\ j <= k
      <4>1. j \in 0 .. k /\ j - 1 \in 0 .. k + 1 /\ j - 1 <= k
        BY <3>2
      <4> QED
        BY <2>2, <3>2, <4>1
    <3>3. CASE j = k + 1
      <4>1. j - 1 = k /\ k \in 0 .. k + 1 /\ k <= k /\ ~(j <= k) /\ j # 0
        BY <3>3
      <4> QED
        BY <4>1
    <3>4. j = 0 \/ (j # 0 /\ j <= k) \/ j = k + 1
      OBVIOUS
    <3> QED
      BY <3>1, <3>2, <3>3, <3>4
  <2>4. w = [j \in 0 .. k + 1 |-> w[j]]
    OBVIOUS
  <2> HIDE DEF w
  <2>5. w = [j \in 0 .. k + 1 |-> IF j = 0 THEN g ELSE Next1(j, w[j - 1])]
    BY <2>3, <2>4
  <2>6. GivenBack(g, s, k + 1, w)
    BY <2>5 DEF GivenBack, Next1
  <2> QED
    BY <2>6
<1> HIDE DEF S
<1>3. Nat \subseteq S
  BY <1>1, <1>2, Induction
<1> QED
  BY <1>3 DEF S

\* What is left of s when k of them are given back, on the only list.
Left(s, k) == [l \in {Reserved_list} |-> [i \in 1 .. Len(s) - k |-> s[k + i]]]

\* One object less is left with each that is given back.
LEMMA LeftIs ==
  ASSUME NEW s \in Seq(Objects), NEW k \in Nat, k < Len(s)
  PROVE  /\ Popped(Left(s, k), Reserved_list) = Left(s, k + 1)
         /\ Len(Left(s, k)[Reserved_list]) > 0
         /\ Left(s, k)[Reserved_list][1] = s[k + 1]
<1> DEFINE R == Reserved_list
           u == [i \in 1 .. Len(s) - k |-> s[k + i]]
           n == Len(s)
<1>1. n \in Nat /\ n - k \in Nat /\ n - k > 0 /\ 1 \in 1 .. n - k
      /\ \A i \in 1 .. n - k : s[k + i] \in Objects
  OBVIOUS
<1>2. u \in Seq(Objects) /\ Len(u) = n - k /\ u[1] = s[k + 1]
  BY <1>1
<1>3. Left(s, k) = [l \in {R} |-> u]
  BY DEF Left
<1>4. Left(s, k)[R] = u
  BY <1>3
<1>5. Without(u, 1) = [i \in 1 .. n - (k + 1) |-> s[(k + 1) + i]]
  <2>1. Without(u, 1) = [i \in 1 .. (n - k) - 1 |-> u[i + 1]]
    <3>1. \A i \in 1 .. (n - k) - 1 : ~(i < 1)
      OBVIOUS
    <3> HIDE DEF u
    <3> QED
      BY <1>2, <3>1 DEF Without
  <2>2. (n - k) - 1 = n - (k + 1)
    BY <1>1
  <2>3. ASSUME NEW i \in 1 .. n - (k + 1) PROVE u[i + 1] = s[(k + 1) + i]
    <3>1. i + 1 \in 1 .. n - k /\ k + (i + 1) = (k + 1) + i
      BY <1>1
    <3> QED
      BY <3>1
  <2> HIDE DEF u, n
  <2> QED
    BY <2>1, <2>2, <2>3
<1> HIDE DEF u
<1>6. Popped(Left(s, k), R) = [l \in {R} |-> Without(u, 1)]
  BY <1>3, <1>4 DEF Popped
<1>7. Left(s, k + 1) = [l \in {R} |-> [i \in 1 .. n - (k + 1) |-> s[(k + 1) + i]]]
  BY DEF Left
<1> QED
  BY <1>1, <1>2, <1>4, <1>5, <1>6, <1>7

\* What is left on the list is linked as it was.
LEMMA GiveBackOne ==
  ASSUME NEW g, NEW p, NEW c, CacheKept(g, p, c), CacheLists(p) = {Reserved_list},
         Len(c[Reserved_list]) > 0, NEW o, o = c[Reserved_list][1],
         NEW d, d = Popped(c, Reserved_list)
  PROVE  CacheKept(Cache!Clear(Cache!Del(g, o), o), p, d)
<1> DEFINE R == Reserved_list
           k == Cache!PopHead(g, R)
<1>1. R \in CacheLists(p)
  OBVIOUS
<1>2. k = Cache!PopHead(g, R)
  OBVIOUS
<1> HIDE DEF k
<1>3. PopDone(g, k, p, c, d, R, o)
  BY <1>1, <1>2, PopKeeps
<1>4. Cache!Popped(g, R) = o /\ o \in Objects
  BY <1>3 DEF PopDone
<1>5. k = Cache!Del(g, o)
  <2>1. o # NULL
    BY <1>4, CacheCells
  <2>2. g.next[R] # R /\ g.next[R] = o
    BY <1>4, <2>1, CacheCalls
  <2> QED
    BY <1>2, <2>2, CacheCalls
<1>6. Off(d, CacheLists(p), o)
  <2>1. o \notin Of(d[R])
    BY <1>3 DEF PopDone
  <2> QED
    BY <2>1 DEF Off, Of
<1>7. CacheKept(k, p, d)
  BY <1>3 DEF PopDone
<1> DEFINE f == Cache!Clear(k, o)
<1>8. f = Cache!Clear(k, o) \/ f = Cache!Written(k, o)
  OBVIOUS
<1> HIDE DEF f
<1>9. CacheKept(f, p, d)
  BY <1>4, <1>6, <1>7, <1>8, WriteKeeps
<1> QED
  BY <1>5, <1>9 DEF f

\* Destruction gives all reserved objects back to the zone.
LEMMA DestroyKeeps ==
  ASSUME CacheInv, Cache!Destroy
  PROVE  CacheInv'
<1>1. PICK c, r : CacheNow(c, r)
  BY DEF CacheInv, CacheNow
<1> DEFINE R == Reserved_list
           s == c[Reserved_list]
           n == Len(s)
           m == CHOOSE y : GivenBack(cache_h, s, n, y)
<1>2. /\ alive /\ alive' = FALSE
      /\ \A t \in Threads : cache_pc[t] = "idle" /\ held[t] = {}
      /\ reserved_count' = reserved_count /\ lk' = lk /\ held' = held
      /\ cache_pc' = cache_pc /\ call' = call
  BY DEF Cache!Destroy
<1>3. CacheLists(cache_pc) = {R}
  BY <1>2 DEF CacheLists, WithList
<1>4. /\ Cache!OnList(cache_h, R, Cache!Bound) = s
      /\ s \in Seq(Objects) /\ n \in Nat
  BY <1>1, <1>3, CacheWalks
<1>5. zone' = zone \cup Of(s)
  BY <1>4 DEF Cache!Destroy, Cache!ToSet, Of
<1>6. cache_h' = m[n]
  <2> HIDE DEF s
  <2>1. cache_h' = (CHOOSE y : y = [j \in 0 .. Len(s) |->
                      IF j = 0 THEN cache_h
                      ELSE Cache!Clear(Cache!Del(y[j - 1], s[j]), s[j])])[Len(s)]
    BY <1>4 DEF Cache!Destroy
  <2> QED
    BY <2>1 DEF GivenBack
<1>7. GivenBack(cache_h, s, n, m)
  <2>1. \E y : GivenBack(cache_h, s, n, y)
    BY <1>4, GivenBackIs
  <2> QED
    BY <2>1
<1> HIDE DEF m, s
<1>8. \A j \in 0 .. n : m[j] = IF j = 0 THEN cache_h
                               ELSE Cache!Clear(Cache!Del(m[j - 1], s[j]), s[j])
  BY <1>7 DEF GivenBack
<1> DEFINE K == {k \in Nat : k <= n => CacheKept(m[k], cache_pc, Left(s, k))}
<1>9. 0 \in K
  <2>1. m[0] = cache_h
    BY <1>4, <1>8
  <2>2. CacheKept(cache_h, cache_pc, c)
    BY <1>1 DEF CacheNow, CacheHolds
  <2>3. c = Left(s, 0)
    <3>1. c = [l \in {R} |-> c[l]]
      BY <1>3, <2>2 DEF CacheKept, Kept, Rings
    <3>2. s = [i \in 1 .. Len(s) - 0 |-> s[0 + i]]
      BY <1>4
    <3> QED
      BY <3>1, <3>2 DEF Left, s
  <2> QED
    BY <2>1, <2>2, <2>3
<1>10. ASSUME NEW k \in Nat, k \in K PROVE k + 1 \in K
  <2> SUFFICES ASSUME k + 1 <= n
               PROVE  CacheKept(m[k + 1], cache_pc, Left(s, k + 1))
    OBVIOUS
  <2>1. k < n /\ k <= n /\ k + 1 \in 0 .. n /\ k + 1 # 0 /\ (k + 1) - 1 = k
    BY <1>4
  <2>2. CacheKept(m[k], cache_pc, Left(s, k))
    BY <1>10, <2>1
  <2>3. m[k + 1] = Cache!Clear(Cache!Del(m[k], s[k + 1]), s[k + 1])
    BY <1>8, <2>1
  <2> DEFINE u == Left(s, k)
             d == Left(s, k + 1)
             o == s[k + 1]
  <2>4. d = Popped(u, R) /\ Len(u[R]) > 0 /\ o = u[R][1]
    BY <1>4, <2>1, LeftIs
  <2> HIDE DEF u, d, o
  <2>5. CacheKept(Cache!Clear(Cache!Del(m[k], o), o), cache_pc, d)
    BY <1>3, <2>2, <2>4, GiveBackOne DEF u
  <2> QED
    BY <2>3, <2>5 DEF d, o
<1> HIDE DEF K
<1>11. Nat \subseteq K
  BY <1>9, <1>10, Induction
<1> DEFINE d == Left(s, n)
<1>12. CacheKept(cache_h', cache_pc', d)
  BY <1>2, <1>4, <1>6, <1>11 DEF K
<1>13. Of(d[R]) = {} /\ Len(d[R]) = 0
  <2>1. d[R] = [i \in 1 .. n - n |-> s[n + i]]
    BY DEF Left
  <2>2. 1 .. n - n = {}
    BY <1>4
  <2>3. d[R] = <<>>
    BY <2>1, <2>2
  <2> QED
    BY <2>3 DEF Of
<1> HIDE DEF d
<1>14. /\ CallsHold(alive, lk, cache_pc, call)
       /\ r \in [Threads -> Seq(Objects)]
       /\ Owned(zone, Of(s), held, Locals(cache_pc, call, c, r))
       /\ Counted(alive, Len(s), reserved_count, lk, cache_pc, call)
  BY <1>1 DEF CacheNow, CacheHolds, s
<1>15. lk = NoThread
  <2>1. \A t \in Threads : lk # t
    BY <1>2, <1>14 DEF CallsHold, CallHolds, WithLock
  <2> QED
    BY <1>14, <2>1 DEF CallsHold
<1>16. CallsHold(alive', lk', cache_pc', call')
  BY <1>2, <1>14 DEF CallsHold
<1>17. Locals(cache_pc', call', d, r) = [t \in Threads |-> {}]
  BY <1>2 DEF Locals, LocalOf, WithList, WithEntry
<1>18. Owned(zone', Of(d[R]), held', Locals(cache_pc', call', d, r))
  <2> DEFINE lo == Locals(cache_pc, call, c, r)
             lo1 == Locals(cache_pc', call', d, r)
  <2>1. \A t \in Threads : lo[t] = {} /\ held[t] = {} /\ lo1[t] = {}
    BY <1>2, <1>17 DEF Locals, LocalOf, WithList, WithEntry
  <2>2. lo1 \in [Threads -> SUBSET Objects]
    BY <1>17
  <2> HIDE DEF lo, lo1
  <2>3. Owned(zone, Of(s), held, lo)
    BY <1>14 DEF lo
  <2>4. Owned(zone \cup Of(s), {}, held, lo1)
    <3>1. /\ zone \subseteq Objects /\ Of(s) \subseteq Objects
          /\ held \in [Threads -> SUBSET Objects]
          /\ \A o \in Objects : o \in zone \/ o \in Of(s)
      BY <2>1, <2>3 DEF Owned
    <3> QED
      BY <2>1, <2>2, <3>1 DEF Owned
  <2> QED
    BY <1>2, <1>5, <1>13, <2>4 DEF lo1
<1>19. Counted(alive', Len(d[R]), reserved_count', lk', cache_pc', call')
  <2>1. \A t \in Threads : lk' # t
    BY <1>2, <1>15, CacheCells
  <2> QED
    BY <1>2, <1>14, <2>1 DEF Counted
<1>20. \A t \in Threads :
         cache_pc'[t] \notin WithList /\ cache_pc'[t] # "error_exit"
  BY <1>2 DEF WithList
<1>21. CacheHolds(alive', zone', cache_h', reserved_count', lk', held', cache_pc',
                  call', d, r)
  BY <1>12, <1>14, <1>16, <1>18, <1>19, <1>20 DEF CacheHolds
<1> QED
  BY <1>21 DEF CacheInv

\* All objects are the zone's to begin with.
LEMMA CacheInit == Cache!Init => CacheInv
<1> SUFFICES ASSUME Cache!Init PROVE CacheInv
  OBVIOUS
<1> DEFINE R == Reserved_list
           c == [l \in {R} |-> <<>>]
           r == [t \in Threads |-> <<>>]
<1>1. /\ alive = TRUE /\ zone = Objects /\ reserved_count = 0 /\ lk = NoThread
      /\ held = [t \in Threads |-> {}] /\ cache_pc = [t \in Threads |-> "idle"]
      /\ call = [t \in Threads |-> Cache!NoCall]
      /\ cache_h = [next |-> [x \in Cache!Cells |-> IF x \in Cache!Heads THEN x ELSE NULL],
                    prev |-> [x \in Cache!Cells |-> IF x \in Cache!Heads THEN x ELSE NULL]]
  BY DEF Cache!Init
<1>2. CallsHold(alive, lk, cache_pc, call)
  <2>1. \A t \in Threads : CallHolds(t, lk, "idle", Cache!NoCall)
    BY <1>1, NoCallHolds, CacheCells
  <2>2. Cache!NoCall \in CacheCall
    <3>1. 0 \in 0 .. MaxCall
      BY LibraryAssumption
    <3> QED
      BY <3>1 DEF CacheCall, Cache!NoCall
  <2> QED
    BY <1>1, <2>1, <2>2 DEF CallsHold, CachePlaces
<1>3. CacheLists(cache_pc) = {R}
  BY <1>1 DEF CacheLists, WithList
<1>4. CacheKept(cache_h, cache_pc, c)
  <2>1. c[R] = <<>> /\ c \in [{R} -> Seq(Objects)]
    OBVIOUS
  <2> HIDE DEF c
  <2>2. cache_h \in Memories(Cache!Cells, CacheX)
    BY <1>1, CacheCells DEF Memories, CacheX
  <2>3. cache_h.next[R] = R /\ cache_h.prev[R] = R
    BY <1>1, CacheCells DEF Cache!Heads
  <2>4. Ring(cache_h, R, c[R])
    <3>1. Len(c[R]) = 0
      BY <2>1
    <3> QED
      BY <2>3, <3>1 DEF Ring, At
  <2>5. ASSUME NEW l \in {R}, NEW k \in {R}, NEW i \in 1 .. Len(c[l]),
               NEW j \in 1 .. Len(c[k]), c[l][i] = c[k][j]
        PROVE  l = k /\ i = j
    <3>1. Len(c[l]) = 0
      BY <2>1
    <3>2. \A y : y \notin 1 .. 0
      OBVIOUS
    <3> QED
      BY <3>1, <3>2
  <2>6. Rings(cache_h, c, {R}, Objects)
    BY <2>1, <2>4, <2>5 DEF Rings
  <2> QED
    BY <1>3, <2>2, <2>6, CacheCells DEF CacheKept, Kept
<1>5. r \in [Threads -> Seq(Objects)]
  OBVIOUS
<1>6. Of(c[R]) = {} /\ Len(c[R]) = 0
  BY DEF Of
<1>7. Locals(cache_pc, call, c, r) = [t \in Threads |-> {}]
  BY <1>1 DEF Locals, LocalOf, WithList, WithEntry
<1> HIDE DEF c, r
<1>8. Owned(zone, Of(c[R]), held, Locals(cache_pc, call, c, r))
  BY <1>1, <1>6, <1>7 DEF Owned
<1>9. Counted(alive, Len(c[R]), reserved_count, lk, cache_pc, call)
  <2>1. reserved_count \in 0 .. Cardinality(Objects)
    BY <1>1, LibraryAssumption, FS_CardinalityType
  <2> QED
    BY <1>1, <1>6, <2>1, CacheCells DEF Counted
<1>10. \A t \in Threads :
         cache_pc[t] \notin WithList /\ cache_pc[t] # "error_exit"
  BY <1>1 DEF WithList
<1>11. CacheHolds(alive, zone, cache_h, reserved_count, lk, held, cache_pc, call, c, r)
  BY <1>2, <1>4, <1>5, <1>8, <1>9, <1>10 DEF CacheHolds
<1> QED
  BY <1>11 DEF CacheInv

\* Every step within a call keeps the invariant.
LEMMA TurnKeeps ==
  ASSUME CacheInv, NEW t \in Threads, Cache!Turn(t)
  PROVE  CacheInv'
<1>1. CASE Cache!ReserveTurn(t)
  BY <1>1, ReserveTurnKeeps
<1>2. CASE Cache!ReserveFails(t)
  BY <1>2, ReserveFailsKeeps
<1>3. CASE Cache!ErrorExitTurn(t)
  BY <1>3, ErrorExitTurnKeeps
<1>4. CASE Cache!ReserveEnter(t)
  BY <1>4, EnterKeeps DEF Cache!ReserveEnter
<1>5. CASE Cache!ReserveAdd(t)
  BY <1>5, ReserveAddKeeps
<1>6. CASE Cache!ReserveCount(t)
  <2>1. /\ cache_pc[t] = "add_count"
        /\ reserved_count' = reserved_count + call[t].n
        /\ Cache!Unlock /\ Cache!Return(t)
        /\ alive' = alive /\ zone' = zone /\ cache_h' = cache_h /\ held' = held
    BY <1>6 DEF Cache!ReserveCount
  <2> QED
    BY <2>1, LeaveKeeps
<1>7. CASE Cache!ReleaseEnter(t)
  BY <1>7, EnterKeeps DEF Cache!ReleaseEnter
<1>8. CASE Cache!ReleasePop(t)
  BY <1>8, TakeKeeps DEF Cache!ReleasePop
<1>9. CASE Cache!ReleaseFree(t)
  BY <1>9, ReleaseFreeKeeps
<1>10. CASE Cache!ReleaseExit(t)
  <2>1. /\ cache_pc[t] = "release_turn"
        /\ reserved_count' = reserved_count
        /\ Cache!Unlock /\ Cache!Return(t)
        /\ alive' = alive /\ zone' = zone /\ cache_h' = cache_h /\ held' = held
    BY <1>10 DEF Cache!ReleaseExit
  <2> QED
    BY <2>1, LeaveKeeps
<1>11. CASE Cache!PreallocEnter(t)
  BY <1>11, EnterKeeps DEF Cache!PreallocEnter
<1>12. CASE Cache!PreallocPop(t)
  BY <1>12, TakeKeeps DEF Cache!PreallocPop
<1>13. CASE Cache!PreallocCount(t)
  BY <1>13, PreallocCountKeeps
<1>14. CASE Cache!PreallocNone(t)
  <2>1. /\ cache_pc[t] = "prealloc_pop"
        /\ reserved_count' = reserved_count
        /\ Cache!Unlock /\ Cache!Return(t)
        /\ alive' = alive /\ zone' = zone /\ cache_h' = cache_h /\ held' = held
    BY <1>14 DEF Cache!PreallocNone
  <2> QED
    BY <2>1, LeaveKeeps
<1>15. CASE Cache!FreeEnter(t)
  BY <1>15, EnterKeeps DEF Cache!FreeEnter
<1>16. CASE Cache!FreeAdd(t)
  BY <1>16, FreeAddKeeps
<1>17. CASE Cache!FreeCount(t)
  <2>1. /\ cache_pc[t] = "free_count"
        /\ reserved_count' = reserved_count + 1
        /\ Cache!Unlock /\ Cache!Return(t)
        /\ alive' = alive /\ zone' = zone /\ cache_h' = cache_h /\ held' = held
    BY <1>17 DEF Cache!FreeCount
  <2> QED
    BY <2>1, LeaveKeeps
<1> QED
  BY <1>1, <1>2, <1>3, <1>4, <1>5, <1>6, <1>7, <1>8, <1>9, <1>10, <1>11, <1>12,
     <1>13, <1>14, <1>15, <1>16, <1>17 DEF Cache!Turn

\* Every step of the cache keeps the invariant.
LEMMA CacheStep == CacheInv /\ [Cache!Next]_cache_vars => CacheInv'
<1> SUFFICES ASSUME CacheInv, [Cache!Next]_cache_vars PROVE CacheInv'
  OBVIOUS
<1>1. CASE UNCHANGED cache_vars
  BY <1>1 DEF cache_vars, CacheInv
<1>2. CASE Cache!Destroy
  BY <1>2, DestroyKeeps
<1>3. ASSUME NEW t \in Threads, NEW n \in 0 .. MaxCall,
             Cache!Reserve(t, n) \/ Cache!ReleaseN(t, n)
      PROVE  CacheInv'
  <2>1. CASE Cache!Reserve(t, n)
    BY <2>1, ReserveKeeps
  <2>2. CASE Cache!ReleaseN(t, n)
    <3>1. /\ Cache!Begin(t, "release", [Cache!NoCall EXCEPT !.n = n])
          /\ alive' = alive /\ zone' = zone /\ cache_h' = cache_h
          /\ reserved_count' = reserved_count /\ lk' = lk /\ held' = held
      BY <2>2 DEF Cache!ReleaseN
    <3> DEFINE pl == "release"
    <3>2. pl \in {"release", "prealloc"}
      OBVIOUS
    <3> HIDE DEF pl
    <3> QED
      BY <3>1, <3>2, BeginQuietly DEF pl
  <2> QED
    BY <1>3, <2>1, <2>2
<1>4. ASSUME NEW t \in Threads, NEW o \in Objects,
             Cache!Free(t, o) \/ Cache!FreeReserved(t, o)
      PROVE  CacheInv'
  BY <1>4, FreeKeeps, FreeReservedKeeps
<1>5. ASSUME NEW t \in Threads, Cache!Alloc(t) PROVE CacheInv'
  BY <1>5, AllocKeeps
<1>6. ASSUME NEW t \in Threads, Cache!Prealloc(t) PROVE CacheInv'
  <2>1. 0 \in 0 .. MaxCall /\ [Cache!NoCall EXCEPT !.n = 0] = Cache!NoCall
    BY LibraryAssumption DEF Cache!NoCall
  <2>2. /\ Cache!Begin(t, "prealloc", [Cache!NoCall EXCEPT !.n = 0])
        /\ alive' = alive /\ zone' = zone /\ cache_h' = cache_h
        /\ reserved_count' = reserved_count /\ lk' = lk /\ held' = held
    BY <1>6, <2>1 DEF Cache!Prealloc
  <2> QED
    BY <2>1, <2>2, BeginQuietly
<1>7. ASSUME NEW t \in Threads, Cache!Turn(t) PROVE CacheInv'
  BY <1>7, TurnKeeps
<1> QED
  BY <1>1, <1>2, <1>3, <1>4, <1>5, <1>6, <1>7 DEF Cache!Next

\* Type correctness of the cache, its lists and its calls.
LEMMA CacheInvTypes == CacheInv => Cache!TypeOK
<1> SUFFICES ASSUME CacheInv PROVE Cache!TypeOK
  OBVIOUS
<1>1. PICK c, r : CacheNow(c, r)
  BY DEF CacheInv, CacheNow
<1>2. /\ CallsHold(alive, lk, cache_pc, call)
      /\ CacheKept(cache_h, cache_pc, c)
      /\ Owned(zone, Of(c[Reserved_list]), held, Locals(cache_pc, call, c, r))
      /\ reserved_count \in 0 .. Cardinality(Objects)
  BY <1>1 DEF CacheNow, CacheHolds, Counted
<1>3. /\ alive \in BOOLEAN /\ lk \in Threads \cup {NoThread}
      /\ call \in [Threads -> CacheCall]
  BY <1>2 DEF CallsHold
<1>4. zone \subseteq Objects /\ held \in [Threads -> SUBSET Objects]
  BY <1>2 DEF Owned
<1>5. cache_h \in [next : [Cache!Cells -> Cache!Cells \cup {NULL, Data}],
                   prev : [Cache!Cells -> Cache!Cells \cup {NULL, Data}]]
  BY <1>2 DEF CacheKept, Kept, Memories, CacheX
<1>6. Cache!Cardinality(Objects) = Cardinality(Objects)
  BY DEF Cache!Cardinality, Cardinality
<1> QED
  BY <1>2, <1>3, <1>4, <1>5, <1>6 DEF Cache!TypeOK, CacheCall

\* The entries of a sequence without repetition are as many as it is long.
LEMMA DistinctAreCounted ==
  ASSUME NEW S, IsFiniteSet(S), NEW s \in Seq(S),
         \A i, j \in 1 .. Len(s) : s[i] = s[j] => i = j
  PROVE  Cardinality(Of(s)) = Len(s)
<1>1. Len(s) \in Nat
  OBVIOUS
<1>2. /\ s \in Surjection(1 .. Len(s), Of(s))
      /\ s \in Injection(1 .. Len(s), Of(s))
  <2>1. s \in [1 .. Len(s) -> Of(s)]
    BY DEF Of
  <2>2. \A y \in Of(s) : \E i \in 1 .. Len(s) : s[i] = y
    BY DEF Of
  <2> QED
    BY <2>1, <2>2 DEF Injection, IsInjective, Surjection
<1>3. Cardinality(1 .. Len(s)) = Len(s) /\ IsFiniteSet(1 .. Len(s))
  <2>1. /\ IsFiniteSet(1 .. Len(s))
        /\ Cardinality(1 .. Len(s)) = IF 1 > Len(s) THEN 0 ELSE (Len(s) - 1) + 1
    <3>1. 1 \in Int /\ Len(s) \in Int
      BY <1>1
    <3> QED
      BY <3>1, FS_Interval
  <2> QED
    BY <1>1, <2>1
<1>4. Cardinality(Of(s)) = Cardinality(1 .. Len(s))
  BY <1>2, <1>3, FS_Surjection
<1> QED
  BY <1>3, <1>4

\* What a failed reservation has yet to free is what a walk from next finds,
\* and le.
LEMMA ChainWalk ==
  ASSUME NEW t \in Threads, NEW q \in Seq(Objects), NEW g, NEW x,
         ChainHolds(g, t, x, q), NEW b \in Nat, Len(q) <= b
  PROVE  {x.le} \cup Cache!ToSet(Cache!From(g.next, x.next, t, b)) = Of(q)
<1> DEFINE s == Without(q, 1)
           n == Len(q)
<1>1. /\ n \in Nat /\ n >= 1 /\ x.le = q[1] /\ x.next = At(t, q, 2)
      /\ \A i \in 2 .. n : g.next[q[i]] = At(t, q, i + 1)
      /\ 1 \in 1 .. n
  BY DEF ChainHolds
<1>2. /\ s \in Seq(Objects) /\ Len(s) = n - 1
      /\ \A i \in 1 .. Len(s) : s[i] = q[i + 1] /\ i + 1 \in 2 .. n
  <2>1. s \in Seq(Objects) /\ Len(s) = n - 1
    BY <1>1, Removed
  <2>2. \A i \in 1 .. n - 1 : s[i] = q[i + 1] /\ i + 1 \in 2 .. n
    BY <1>1 DEF Without
  <2> HIDE DEF s
  <2> QED
    BY <2>1, <2>2
<1> HIDE DEF s
<1>3. ASSUME NEW i \in 1 .. n PROVE At(t, q, i + 1) = At(t, s, i)
  <2>1. i \in 1 .. Len(s) <=> i + 1 \in 1 .. n
    BY <1>1, <1>2
  <2> QED
    BY <1>2, <2>1 DEF At
<1>4. x.next = At(t, s, 1)
  <2>1. At(t, q, 1 + 1) = At(t, s, 1)
    BY <1>1, <1>3
  <2>2. 1 + 1 = 2
    OBVIOUS
  <2> QED
    BY <1>1, <2>1, <2>2
<1>5. ASSUME NEW i \in 1 .. Len(s) PROVE g.next[s[i]] = At(t, s, i + 1)
  <2>1. i + 1 \in 2 .. n /\ i + 1 \in 1 .. n /\ s[i] = q[i + 1]
    BY <1>1, <1>2
  <2>2. g.next[q[i + 1]] = At(t, q, (i + 1) + 1)
    BY <1>1, <2>1
  <2> QED
    BY <1>3, <2>1, <2>2
<1>6. Ops!From(g.next, x.next, t, b) = s
  <2>1. t \notin Objects /\ NULL \notin Objects
    BY CacheCells
  <2>2. Len(s) <= b
    BY <1>1, <1>2
  <2> DEFINE f == g.next
             e == x.next
  <2>3. e = At(t, s, 1) /\ \A i \in 1 .. Len(s) : f[s[i]] = At(t, s, i + 1)
    BY <1>4, <1>5
  <2> HIDE DEF e, f
  <2>4. Ops!From(f, e, t, b) = s
    <3>1. /\ s \in Seq(Objects) /\ t \notin Objects /\ NULL \notin Objects
          /\ e = At(t, s, 1) /\ \A i \in 1 .. Len(s) : f[s[i]] = At(t, s, i + 1)
          /\ b \in Nat /\ Len(s) <= b
      BY <1>2, <2>1, <2>2, <2>3
    <3> QED
      BY <3>1, WalkMeets, SMTT(30)
  <2> QED
    BY <2>4 DEF e, f
<1>7. Cache!ToSet(Cache!From(g.next, x.next, t, b)) = Of(s)
  <2>1. Cache!From(g.next, x.next, t, b) = s
    BY <1>6, CacheCalls
  <2>2. Cache!ToSet(s) = {s[i] : i \in DOMAIN s} /\ DOMAIN s = 1 .. Len(s)
    BY <1>2 DEF Cache!ToSet
  <2> QED
    BY <2>1, <2>2 DEF Of
<1>8. Of(q) = {x.le} \cup Of(s)
  <2>1. ASSUME NEW y \in Of(q), y # x.le PROVE y \in Of(s)
    <3>1. PICK i \in 1 .. n : q[i] = y
      BY DEF Of
    <3>2. i # 1
      BY <1>1, <2>1, <3>1
    <3>3. i - 1 \in 1 .. Len(s) /\ (i - 1) + 1 = i
      BY <1>1, <1>2, <3>2
    <3>4. s[i - 1] = y
      BY <1>2, <3>1, <3>3
    <3> QED
      BY <3>3, <3>4 DEF Of
  <2>2. \A y \in Of(s) : y \in Of(q)
    <3> SUFFICES ASSUME NEW i \in 1 .. Len(s) PROVE s[i] \in Of(q)
      BY DEF Of
    <3>1. s[i] = q[i + 1] /\ i + 1 \in 1 .. n
      BY <1>1, <1>2
    <3> QED
      BY <3>1 DEF Of
  <2>3. x.le \in Of(q)
    BY <1>1 DEF Of
  <2> QED
    BY <2>1, <2>2, <2>3
<1> QED
  BY <1>7, <1>8

\* A failed reservation has no more to free than there are objects.
LEMMA ChainIsShort ==
  ASSUME NEW t, NEW q \in Seq(Objects), NEW g, NEW x, ChainHolds(g, t, x, q)
  PROVE  Len(q) <= Cardinality(Objects)
<1>1. \A i, j \in 1 .. Len(q) : q[i] = q[j] => i = j
  BY DEF ChainHolds
<1> QED
  BY <1>1, DistinctIsShort, LibraryAssumption

\* A walk is cut after as many steps as there are objects, and one.
LEMMA BoundIs == Cache!Bound \in Nat /\ Cache!Bound = Cardinality(Objects) + 1
<1>1. Cache!Bound = Cardinality(Objects) + 1
  BY DEF Cache!Bound, Cache!Cardinality, Cardinality
<1>2. Cardinality(Objects) \in Nat
  BY LibraryAssumption, FS_CardinalityType
<1> QED
  BY <1>1, <1>2

\* The objects a call has in its hands are the ones the walks of its list find.
LEMMA LocalIs ==
  ASSUME NEW c, NEW r, CacheNow(c, r), NEW t \in Threads
  PROVE  Cache!Local(t) = Locals(cache_pc, call, c, r)[t]
<1>1. Locals(cache_pc, call, c, r)[t] = LocalOf(cache_pc[t], call[t], c[t], r[t])
  BY DEF Locals
<1>2. CASE cache_pc[t] \in WithList
  <2>1. t \in CacheLists(cache_pc)
    BY <1>2 DEF CacheLists
  <2>2. Cache!On(t) = Of(c[t])
    BY <2>1, CacheWalks
  <2>3. Cache!Local(t) = Cache!On(t)
    BY <1>2 DEF Cache!Local, Cache!Alloc_list, WithList
  <2> QED
    BY <1>1, <1>2, <2>2, <2>3 DEF LocalOf
<1>3. CASE cache_pc[t] = "error_exit"
  <2>1. r[t] \in Seq(Objects) /\ ChainHolds(cache_h, t, call[t], r[t])
    BY <1>3 DEF CacheNow, CacheHolds
  <2>2. Len(r[t]) <= Cache!Bound /\ Cache!Bound \in Nat
    <3>1. Len(r[t]) <= Cardinality(Objects) /\ Len(r[t]) \in Nat
      BY <2>1, ChainIsShort
    <3>2. Cardinality(Objects) \in Nat
      BY LibraryAssumption, FS_CardinalityType
    <3> QED
      BY <3>1, <3>2, BoundIs
  <2> DEFINE b == Cache!Bound
             x == call[t]
  <2>3. Cache!Local(t) = {x.le} \cup Cache!ToSet(Cache!From(cache_h.next, x.next, t, b))
    BY <1>3 DEF Cache!Local, Cache!Alloc_list
  <2> HIDE DEF b, x
  <2>4. {x.le} \cup Cache!ToSet(Cache!From(cache_h.next, x.next, t, b)) = Of(r[t])
    BY <2>1, <2>2, ChainWalk DEF b, x
  <2> QED
    BY <1>1, <1>3, <2>3, <2>4 DEF LocalOf, WithList
<1>4. CASE cache_pc[t] \in WithEntry
  BY <1>1, <1>4 DEF LocalOf, WithList, WithEntry, Cache!Local
<1>5. CASE cache_pc[t] \notin WithList \cup WithEntry \cup {"error_exit"}
  BY <1>1, <1>5 DEF LocalOf, WithList, WithEntry, Cache!Local
<1> QED
  BY <1>2, <1>3, <1>4, <1>5

\* The names of the places of NothingLost.
Keys == {"zone", "list", "held", "local"} \X (Threads \cup {NoThread})

\* The places of NothingLost are those of Owned.
LEMMA PlacesAre ==
  ASSUME NEW c, NEW r, CacheNow(c, r)
  PROVE  LET lo == Locals(cache_pc, call, c, r)
             P  == Cache!Place
         IN  /\ DOMAIN P = Keys
             /\ <<"zone", NoThread>> \in Keys /\ P[<<"zone", NoThread>>] = zone
             /\ <<"list", NoThread>> \in Keys
             /\ P[<<"list", NoThread>>] = Of(c[Reserved_list])
             /\ \A t \in Threads :
                  /\ <<"held", t>> \in Keys /\ P[<<"held", t>>] = held[t]
                  /\ <<"local", t>> \in Keys /\ P[<<"local", t>>] = lo[t]
             /\ \A k \in Keys :
                  \/ k = <<"zone", NoThread>> \/ k = <<"list", NoThread>>
                  \/ \E t \in Threads : k = <<"held", t>> \/ k = <<"local", t>>
                  \/ P[k] = {}
<1> DEFINE lo == Locals(cache_pc, call, c, r)
           P == Cache!Place
<1>1. Cache!On(Reserved_list) = Of(c[Reserved_list])
  BY CacheWalks DEF CacheLists
<1>2. \A t \in Threads : Cache!Local(t) = lo[t]
  BY LocalIs
<1> HIDE DEF lo
<1>3. NoThread \notin Threads
  BY CacheCells
<1>4. P = [k \in Keys |->
             CASE k = <<"zone", NoThread>> -> zone
               [] k = <<"list", NoThread>> -> Cache!On(Reserved_list)
               [] k[1] = "held" /\ k[2] \in Threads -> held[k[2]]
               [] k[1] = "local" /\ k[2] \in Threads -> Cache!Local(k[2])
               [] OTHER -> {}]
  BY DEF Cache!Place, Keys
<1> HIDE DEF P
<1>5. DOMAIN P = Keys
  BY <1>4
<1>6. <<"zone", NoThread>> \in Keys /\ P[<<"zone", NoThread>>] = zone
  <2>1. <<"zone", NoThread>> \in Keys
    BY DEF Keys
  <2> QED
    BY <1>4, <2>1
<1>7. /\ <<"list", NoThread>> \in Keys
      /\ P[<<"list", NoThread>>] = Of(c[Reserved_list])
  <2>1. <<"list", NoThread>> \in Keys
    BY DEF Keys
  <2> QED
    BY <1>1, <1>4, <2>1
<1>8. ASSUME NEW t \in Threads
      PROVE  /\ <<"held", t>> \in Keys /\ P[<<"held", t>>] = held[t]
             /\ <<"local", t>> \in Keys /\ P[<<"local", t>>] = lo[t]
  <2>1. <<"held", t>> \in Keys /\ <<"local", t>> \in Keys
    BY DEF Keys
  <2>2. P[<<"held", t>>] = held[t]
    BY <1>4, <2>1
  <2>3. P[<<"local", t>>] = Cache!Local(t)
    BY <1>4, <2>1
  <2> QED
    BY <1>2, <2>1, <2>2, <2>3
<1>9. ASSUME NEW k \in Keys
      PROVE  \/ k = <<"zone", NoThread>> \/ k = <<"list", NoThread>>
             \/ \E t \in Threads : k = <<"held", t>> \/ k = <<"local", t>>
             \/ P[k] = {}
  <2>1. CASE k[1] = "held" /\ k[2] \in Threads
    <3>1. k = <<"held", k[2]>>
      BY <2>1 DEF Keys
    <3> QED
      BY <2>1, <3>1
  <2>2. CASE k[1] = "local" /\ k[2] \in Threads
    <3>1. k = <<"local", k[2]>>
      BY <2>2 DEF Keys
    <3> QED
      BY <2>2, <3>1
  <2>3. CASE /\ k # <<"zone", NoThread>> /\ k # <<"list", NoThread>>
             /\ ~(k[1] = "held" /\ k[2] \in Threads)
             /\ ~(k[1] = "local" /\ k[2] \in Threads)
    <3>1. P[k] = {}
      BY <1>4, <2>3
    <3> QED
      BY <3>1
  <2> QED
    BY <2>1, <2>2, <2>3
<1> QED
  BY <1>5, <1>6, <1>7, <1>8, <1>9 DEF P, lo

\* An object is in one place only, and in one.
LEMMA OnePlace ==
  ASSUME NEW c, NEW r, CacheNow(c, r), NEW o \in Objects
  PROVE  Cache!Cardinality({k \in DOMAIN Cache!Place : o \in Cache!Place[k]}) = 1
<1> DEFINE lo == Locals(cache_pc, call, c, r)
           l == Of(c[Reserved_list])
           P == Cache!Place
           Z == <<"zone", NoThread>>
           L == <<"list", NoThread>>
           Hd(t) == <<"held", t>>
           Lc(t) == <<"local", t>>
           S == {k \in DOMAIN P : o \in P[k]}
<1>1. Owned(zone, l, held, lo)
  BY DEF CacheNow, CacheHolds
<1>2. /\ DOMAIN P = Keys /\ Z \in Keys /\ P[Z] = zone /\ L \in Keys /\ P[L] = l
      /\ \A t \in Threads : /\ Hd(t) \in Keys /\ P[Hd(t)] = held[t]
                            /\ Lc(t) \in Keys /\ P[Lc(t)] = lo[t]
      /\ \A k \in Keys : \/ k = Z \/ k = L
                         \/ \E t \in Threads : k = Hd(t) \/ k = Lc(t)
                         \/ P[k] = {}
  BY PlacesAre
<1> HIDE DEF lo, l, P, Z, L, Hd, Lc
<1>3. \E k \in Keys : S = {k}
  <2>1. CASE o \in zone
    <3>1. o \notin l /\ \A t \in Threads : o \notin held[t] /\ o \notin lo[t]
      BY <1>1, <2>1 DEF Owned
    <3>2. \A k \in Keys : o \in P[k] => k = Z
      BY <1>2, <3>1
    <3> QED
      BY <1>2, <2>1, <3>2
  <2>2. CASE o \in l
    <3>1. o \notin zone /\ \A t \in Threads : o \notin held[t] /\ o \notin lo[t]
      BY <1>1, <2>2 DEF Owned
    <3>2. \A k \in Keys : o \in P[k] => k = L
      BY <1>2, <3>1
    <3> QED
      BY <1>2, <2>2, <3>2
  <2>3. ASSUME NEW t \in Threads, o \in held[t] PROVE \E k \in Keys : S = {k}
    <3>1. /\ o \notin zone /\ o \notin l
          /\ \A u \in Threads : o \notin lo[u] /\ (o \in held[u] => u = t)
      BY <1>1, <2>3 DEF Owned
    <3>2. \A k \in Keys : o \in P[k] => k = Hd(t)
      BY <1>2, <3>1
    <3> QED
      BY <1>2, <2>3, <3>2
  <2>4. ASSUME NEW t \in Threads, o \in lo[t] PROVE \E k \in Keys : S = {k}
    <3>1. /\ o \notin zone /\ o \notin l
          /\ \A u \in Threads : o \notin held[u] /\ (o \in lo[u] => u = t)
      BY <1>1, <2>4 DEF Owned
    <3>2. \A k \in Keys : o \in P[k] => k = Lc(t)
      BY <1>2, <3>1
    <3> QED
      BY <1>2, <2>4, <3>2
  <2>5. o \in zone \/ o \in l \/ \E t \in Threads : o \in held[t] \cup lo[t]
    BY <1>1 DEF Owned
  <2> QED
    BY <2>1, <2>2, <2>3, <2>4, <2>5
<1> HIDE DEF S
<1>4. Cardinality(S) = 1
  BY <1>3, FS_Singleton
<1>5. Cache!Cardinality(S) = Cardinality(S)
  BY DEF Cache!Cardinality, Cardinality
<1> QED
  BY <1>4, <1>5 DEF S, P

\* From who owns an object follows that none is lost and none is had twice; from
\* the count of who has the lock, that it is right when nobody has.
LEMMA CacheLosesNothing == CacheInv => Cache!NothingLost
<1> SUFFICES ASSUME CacheInv PROVE Cache!NothingLost
  OBVIOUS
<1>1. PICK c, r : CacheNow(c, r)
  BY DEF CacheInv, CacheNow
<1> DEFINE R == Reserved_list
           s == c[Reserved_list]
<1>2. /\ Cache!OnList(cache_h, R, Cache!Bound) = s
      /\ Cache!Backwards(cache_h, R, Cache!Bound) = Ops!Reverse(s)
      /\ Cache!On(R) = Of(s) /\ s \in Seq(Objects)
      /\ \A i, j \in 1 .. Len(s) : s[i] = s[j] => i = j
  BY <1>1, CacheWalks DEF CacheLists
<1> HIDE DEF s
<1>3. Cache!Reverse(s) = Ops!Reverse(s)
  BY DEF Cache!Reverse, Ops!Reverse
<1>4. Cache!EachInOnePlace
  BY <1>1, <1>2, <1>3, OnePlace DEF Cache!EachInOnePlace
<1>5. ASSUME lk = NoThread, alive
      PROVE  reserved_count = Cache!Cardinality(Cache!On(R))
  <2>1. reserved_count = Len(s)
    BY <1>1, <1>5 DEF CacheNow, CacheHolds, Counted, s
  <2>2. Cardinality(Of(s)) = Len(s)
    BY <1>2, DistinctAreCounted, LibraryAssumption
  <2>3. Cache!Cardinality(Of(s)) = Cardinality(Of(s))
    BY DEF Cache!Cardinality, Cardinality
  <2> QED
    BY <1>2, <2>1, <2>2, <2>3
<1>6. Cache!CountIsLength
  BY <1>5 DEF Cache!CountIsLength
<1> QED
  BY <1>4, <1>6 DEF Cache!NothingLost
=============================================================================
