------------------------- MODULE PortServicesProofs -------------------------
(***************************************************************************)
(* Proofs about the words, the timers and deferred work, and the locks,    *)
(* condition variables and threads of the porting layer: for words of any  *)
(* size, any threads, calls and choice of those that loop, any timers,     *)
(* functions, works, delays and clock.                                     *)
(***************************************************************************)
EXTENDS MCPortServices, Sequences, WellFoundedInduction, TLAPS

-----------------------------------------------------------------------------
(* Induction over the natural numbers, by way of their order.              *)

Below == {p \in Nat \X Nat : p[1] < p[2]}

LEMMA BelowIsWellFounded == IsWellFoundedOn(Below, Nat)
<1>1. Below = OpToRel(<, Nat)
  BY DEF Below, OpToRel
<1> QED
  BY <1>1, NatLessThanWellFounded

\* A set of numbers that is not empty has a least one.
LEMMA LeastOf ==
  ASSUME NEW S \in SUBSET Nat, S # {}
  PROVE  \E x \in S : \A y \in S : x <= y
<1>1. PICK x \in S : \A y \in S : ~(<<y, x>> \in Below)
  BY BelowIsWellFounded, WFMin
<1>2. ASSUME NEW y \in S PROVE x <= y
  <2>1. x \in Nat /\ y \in Nat
    OBVIOUS
  <2>2. SUFFICES ASSUME y < x PROVE FALSE
    BY <2>1
  <2> DEFINE p == <<y, x>>
  <2>3. p \in Nat \X Nat /\ p[1] < p[2]
    BY <2>1, <2>2
  <2>4. p \in Below
    BY <2>3 DEF Below
  <2> QED
    BY <2>4, <1>1
<1> QED
  BY <1>2

\* A set that has 0 and the successor of each number it has, has them all.
LEMMA Induction ==
  ASSUME NEW S, 0 \in S, \A n \in Nat : n \in S => n + 1 \in S
  PROVE  Nat \subseteq S
<1> DEFINE missing == {n \in Nat : n \notin S}
<1>1. SUFFICES ASSUME missing # {} PROVE FALSE
  OBVIOUS
<1>2. PICK x \in missing : \A y \in missing : x <= y
  BY <1>1, LeastOf
<1>3. x \in Nat /\ x # 0 /\ x - 1 \in Nat /\ x - 1 \notin missing
  BY <1>2
<1>4. x - 1 \in S
  BY <1>3
<1>5. (x - 1) + 1 \in S
  BY <1>3, <1>4
<1> QED
  BY <1>2, <1>3, <1>5

-----------------------------------------------------------------------------
(* AtomicWord.                                                             *)

\* The inductive invariant of the refinement: each thread is at a place.
Places == pc \in [Threads -> {"idle", "called", "swap"}]

\* Every thread is always at one of its places.
THEOREM PlacesAlways == Atomic!Spec => []Places
<1>1. Atomic!Init => Places
  BY DEF Atomic!Init, Places
<1>2. Places /\ [Atomic!Next]_(Atomic!word_vars) => Places'
  <2> SUFFICES ASSUME Places, [Atomic!Next]_(Atomic!word_vars) PROVE Places'
    OBVIOUS
  <2>1. ASSUME NEW t \in Threads, Atomic!Call(t) PROVE Places'
    BY <2>1 DEF Places, Atomic!Call
  <2>2. ASSUME NEW t \in Threads, Atomic!Work(t) PROVE Places'
    BY <2>2 DEF Places, Atomic!Work, Atomic!AtOnce, Atomic!Load, Atomic!Swap,
                Atomic!SwapFails, Atomic!ActOn
  <2>3. CASE UNCHANGED Atomic!word_vars
    BY <2>3 DEF Places, Atomic!word_vars
  <2> QED
    BY <2>1, <2>2, <2>3 DEF Atomic!Next
<1> QED
  BY <1>1, <1>2, PTL DEF Atomic!Spec

\* A call that acts on the word it finds acts as the cell does.
LEMMA ActRefines ==
  ASSUME Places, NEW t \in Threads, pc[t] # "idle", Atomic!ActOn(t, word)
  PROVE  Cell!Act(t)
<1>1. pc' = [pc EXCEPT ![t] = "idle"]
  BY DEF Atomic!ActOn
<1>2. [u \in Threads |-> pc'[u] # "idle"]
        = [[u \in Threads |-> pc[u] # "idle"] EXCEPT ![t] = FALSE]
  BY <1>1 DEF Places
<1>3. ASSUME NEW o, NEW w
      PROVE  /\ Cell!NewValue(o, w) = Atomic!NewValue(o, w)
             /\ Cell!Answer(o, w) = Atomic!Answer(o, w)
  BY DEF Atomic!NewValue, Atomic!Answer, Atomic!WithBit, Atomic!WithoutBit,
         Atomic!Bit, Atomic!WordSize, Cell!NewValue, Cell!Answer, Cell!WithBit,
         Cell!WithoutBit, Cell!Bit, Cell!WordSize
<1>4. [u \in Threads |-> pc[u] # "idle"][t]
  OBVIOUS
<1> QED
  BY <1>2, <1>3, <1>4 DEF Atomic!ActOn, Cell!Act

\* A step that leaves word and answer alone and no thread idle that was not,
\* or the other way round, is none of the cell's.
LEMMA StutterRefines ==
  ASSUME Places, NEW t \in Threads, pc[t] # "idle",
         NEW to \in {"called", "swap"}, pc' = [pc EXCEPT ![t] = to],
         UNCHANGED <<word, op, answer>>
  PROVE  UNCHANGED Cell!vars
<1>1. [u \in Threads |-> pc'[u] # "idle"] = [u \in Threads |-> pc[u] # "idle"]
  BY DEF Places
<1> QED
  BY <1>1 DEF Cell!vars

\* The loops of arch/ are linearizable: with its calls in loops, for any number
\* of threads, the word behaves as one whose calls act at once.
THEOREM Refinement == Atomic!Spec => ImplementsCell
<1>1. Atomic!Init => Cell!Init
  <2> SUFFICES ASSUME Atomic!Init PROVE Cell!Init
    OBVIOUS
  <2>1. [t \in Threads |-> pc[t] # "idle"] = [t \in Threads |-> FALSE]
    BY DEF Atomic!Init
  <2> QED
    BY <2>1 DEF Atomic!Init, Cell!Init
<1>2. Places /\ [Atomic!Next]_(Atomic!word_vars) => [Cell!Next]_(Cell!vars)
  <2> SUFFICES ASSUME Places, [Atomic!Next]_(Atomic!word_vars)
               PROVE  [Cell!Next]_(Cell!vars)
    OBVIOUS
  <2>1. ASSUME NEW t \in Threads, Atomic!Call(t) PROVE Cell!Call(t)
    <3>1. [u \in Threads |-> pc'[u] # "idle"]
            = [[u \in Threads |-> pc[u] # "idle"] EXCEPT ![t] = TRUE]
      BY <2>1 DEF Atomic!Call, Places
    <3> QED
      BY <2>1, <3>1 DEF Atomic!Call, Cell!Call
  <2>2. ASSUME NEW t \in Threads, Atomic!AtOnce(t) PROVE Cell!Act(t)
    BY <2>2, ActRefines DEF Atomic!AtOnce
  <2>3. ASSUME NEW t \in Threads, Atomic!Swap(t) PROVE Cell!Act(t)
    <3>1. Atomic!ActOn(t, word) /\ pc[t] # "idle"
      BY <2>3 DEF Atomic!Swap, Atomic!StillOld
    <3> QED
      BY <3>1, ActRefines
  <2>4. ASSUME NEW t \in Threads, Atomic!Load(t) PROVE UNCHANGED Cell!vars
    <3>1. /\ pc[t] # "idle"
          /\ pc' = [pc EXCEPT ![t] = "swap"]
          /\ UNCHANGED <<word, op, answer>>
      BY <2>4 DEF Atomic!Load
    <3> QED
      BY <3>1, StutterRefines
  <2>5. ASSUME NEW t \in Threads, Atomic!SwapFails(t) PROVE UNCHANGED Cell!vars
    <3>1. /\ pc[t] # "idle"
          /\ pc' = [pc EXCEPT ![t] = "called"]
          /\ UNCHANGED <<word, op, answer>>
      BY <2>5 DEF Atomic!SwapFails
    <3> QED
      BY <3>1, StutterRefines
  <2>6. CASE UNCHANGED Atomic!word_vars
    BY <2>6 DEF Atomic!word_vars, Cell!vars
  <2> QED
    BY <2>1, <2>2, <2>3, <2>4, <2>5, <2>6
       DEF Atomic!Next, Atomic!Work, Cell!Next
<1> QED
  BY <1>1, <1>2, PlacesAlways, PTL DEF Atomic!Spec, ImplementsCell, Cell!Spec

-----------------------------------------------------------------------------
(* Deferred.                                                               *)

\* The state's functions are functions of the timers, and what a timer is set
\* for is a record; no more of the types is needed.
TimerShapes ==
  /\ ftn = [c \in Timers |-> ftn[c]]
  /\ phase \in [Timers -> {"new", "set up", "in use", "draining", "deleted"}]
  /\ callout = [c \in Timers |-> callout[c]]
  /\ \A c \in Timers : callout[c] = [left |-> callout[c].left, f |-> callout[c].f]
  /\ runs = [c \in Timers |-> runs[c]]

\* A timer is set only while it is in use, and its function runs only then or
\* while it is being drained: not before it is first set, not once deleted.
OnlyInUse ==
  \A c \in Timers :
    /\ phase[c] # "in use" => callout[c] = Off
    /\ phase[c] \notin {"in use", "draining"} => runs[c] = NULL

\* The function that is set or runs is the one the timer has.
OwnFunction == \A c \in Timers : {runs[c], callout[c].f} \subseteq {ftn[c], NULL}

TimersInv == TimerShapes /\ OnlyInUse /\ OwnFunction

-----------------------------------------------------------------------------

LEMMA TimersInit == Later!Init => TimersInv
BY DEF Later!Init, Off, Later!Off, TimersInv, TimerShapes, OnlyInUse,
       OwnFunction

\* What the owner, the function, the callout thread and fusion_del_timer do to
\* one timer.
LEMMA TimerStep ==
  ASSUME TimersInv, NEW c \in Timers,
         \/ \E f \in Functions : Later!SetFunction(c, f)
         \/ \E t \in Later!Delays : Later!Set(c, t) \/ Later!SetAgain(c, t)
         \/ Later!Fire(c) \/ Later!FunctionEnds(c)
         \/ Later!Delete(c) \/ Later!DeleteReturns(c)
  PROVE  TimersInv'
<1> USE DEF TimersInv, TimerShapes, OnlyInUse, OwnFunction, Later!timer_vars,
            Later!work_vars
<1>1. ASSUME NEW f \in Functions, Later!SetFunction(c, f) PROVE TimersInv'
  <2>1. phase[c] \notin {"in use", "draining"}
    BY <1>1 DEF Later!SetFunction
  <2>2. /\ ftn' = [ftn EXCEPT ![c] = f] /\ phase' = [phase EXCEPT ![c] = "set up"]
        /\ callout' = callout /\ runs' = runs
    BY <1>1 DEF Later!SetFunction
  <2>3. TimerShapes'
    BY <2>2
  <2>4. callout[c] = Off /\ Off.f = NULL /\ runs[c] = NULL
    BY <2>1 DEF Off, Later!Off
  <2> QED
    BY <2>2, <2>3, <2>4
<1>2. ASSUME NEW t \in Later!Delays, Later!Set(c, t) PROVE TimersInv'
  BY <1>2 DEF Later!Set, Off, Later!Off
<1>3. ASSUME NEW t \in Later!Delays, Later!SetAgain(c, t) PROVE TimersInv'
  <2>1. phase[c] = "in use"
    BY <1>3 DEF Later!SetAgain
  <2> QED
    BY <1>3, <2>1 DEF Later!SetAgain, Off, Later!Off
<1>4. CASE Later!Fire(c)
  <2>1. phase[c] = "in use"
    <3>1. Off.f = NULL /\ callout[c].f # NULL
      BY <1>4 DEF Later!Fire, Off, Later!Off
    <3> QED
      BY <3>1
  <2> QED
    BY <1>4, <2>1 DEF Later!Fire, Off, Later!Off
<1>5. CASE Later!FunctionEnds(c)
  BY <1>5 DEF Later!FunctionEnds
<1>6. CASE Later!Delete(c)
  BY <1>6 DEF Later!Delete, Off, Later!Off
<1>7. CASE Later!DeleteReturns(c)
  BY <1>7 DEF Later!DeleteReturns, Later!Drained
<1> QED
  BY <1>1, <1>2, <1>3, <1>4, <1>5, <1>6, <1>7

\* A record of the two fields is made of them.
LEMMA Setting ==
  ASSUME NEW r, NEW a, NEW b, r = [left |-> a, f |-> b]
  PROVE  r = [left |-> r.left, f |-> r.f] /\ r.f = b
OBVIOUS

LEMMA TickStep == TimersInv /\ Later!Tick => TimersInv'
<1> SUFFICES ASSUME TimersInv, Later!Tick PROVE TimersInv'
  OBVIOUS
<1> USE DEF TimersInv, TimerShapes, OnlyInUse, OwnFunction, Later!timer_vars,
            Later!work_vars
<1>1. UNCHANGED <<ftn, phase, runs>>
  BY DEF Later!Tick
<1>2. callout' = [c \in Timers |-> callout'[c]]
  BY DEF Later!Tick
<1>3. ASSUME NEW c \in Timers
      PROVE  callout[c].f = NULL => callout'[c] = callout[c]
  BY <1>3 DEF Later!Tick
<1>4. ASSUME NEW c \in Timers, phase[c] # "in use"
      PROVE  callout'[c] = Off
  <2>1. callout[c] = Off /\ Off.f = NULL
    BY <1>4 DEF Off, Later!Off
  <2> QED
    BY <1>3, <2>1
<1>5. ASSUME NEW c \in Timers
      PROVE  /\ callout'[c] = [left |-> callout'[c].left, f |-> callout'[c].f]
             /\ callout'[c].f = callout[c].f
  <2>1. PICK n : callout'[c] = [left |-> n, f |-> callout[c].f]
    <3>1. CASE callout[c].f # NULL
      <4> DEFINE m == callout[c].left - 1
      <4>1. callout'[c] = [callout[c] EXCEPT !.left = m]
        BY <3>1 DEF Later!Tick
      <4>2. callout[c] = [left |-> callout[c].left, f |-> callout[c].f]
        OBVIOUS
      <4> HIDE DEF m
      <4>3. callout'[c] = [left |-> m, f |-> callout[c].f]
        BY <4>1, <4>2
      <4> QED
        BY <4>3
    <3>2. CASE callout[c].f = NULL
      BY <1>3, <3>2
    <3> QED
      BY <3>1, <3>2
  <2> QED
    BY ONLY <2>1, Setting, Zenon
<1>6. TimerShapes'
  BY <1>1, <1>2, <1>5
<1>7. OnlyInUse'
  BY <1>1, <1>4
<1>8. OwnFunction'
  BY <1>1, <1>5
<1> QED
  BY <1>6, <1>7, <1>8

LEMMA TimersNext == TimersInv /\ [Later!Next]_(Later!deferred_vars) => TimersInv'
<1> SUFFICES ASSUME TimersInv, [Later!Next]_(Later!deferred_vars)
             PROVE  TimersInv'
  OBVIOUS
<1>1. CASE UNCHANGED Later!timer_vars
  BY <1>1 DEF Later!timer_vars, TimersInv, TimerShapes, OnlyInUse, OwnFunction
<1>2. CASE Later!Owner
  BY <1>1, <1>2, TimerStep
     DEF Later!Owner, Later!Schedule, Later!ScheduleDelayed
<1>3. CASE Later!System
  BY <1>1, <1>3, TimerStep, TickStep
     DEF Later!System, Later!Timeout, Later!Begin, Later!End
<1> QED
  BY <1>1, <1>2, <1>3 DEF Later!Next, Later!deferred_vars

\* When fusion_del_timer has returned, the function of the timer neither runs
\* nor will, and a timer set up anew runs only its new function: for any
\* number of timers and any delays.
THEOREM DelIsFinalAlways == Later!Spec => []DelIsFinal
<1>1. TimersInv => DelIsFinal
  BY DEF TimersInv, OnlyInUse, OwnFunction, DelIsFinal
<1> QED
  BY <1>1, TimersInit, TimersNext, PTL DEF Later!Spec

-----------------------------------------------------------------------------
(* The values a word has.                                                  *)

\* f is 2 to the power of n, up to m.
Powers(f, m) ==
  /\ f \in [0 .. m -> Nat \ {0}]
  /\ f[0] = 1
  /\ \A n \in 1 .. m : f[n] = 2 * f[n - 1]

\* The recursive definition of PowerOf2 defines what it says.
LEMMA PowersAre ==
  /\ PowerOf2 \in [Nat -> Nat \ {0}]
  /\ PowerOf2[0] = 1
  /\ \A n \in Nat : PowerOf2[n + 1] = 2 * PowerOf2[n]
<1> DEFINE Def(f) == f = [n \in Nat |-> IF n = 0 THEN 1 ELSE 2 * f[n - 1]]
           S == {m \in Nat : \E f : Powers(f, m)}
<1>1. 0 \in S
  <2> DEFINE f == [n \in 0 .. 0 |-> 1]
  <2>1. Powers(f, 0)
    BY DEF Powers
  <2> QED
    BY <2>1
<1>2. ASSUME NEW m \in Nat, m \in S PROVE m + 1 \in S
  <2>1. PICK f : Powers(f, m)
    BY <1>2
  <2> DEFINE g == [n \in 0 .. m + 1 |-> IF n = m + 1 THEN 2 * f[m] ELSE f[n]]
  <2>2. Powers(g, m + 1)
    BY <2>1 DEF Powers
  <2> QED
    BY <2>2
<1>3. \A m \in Nat : \E f : Powers(f, m)
  <2>1. Nat \subseteq S
    BY <1>1, <1>2, Induction
  <2> QED
    BY <2>1
<1> DEFINE table == [m \in Nat |-> CHOOSE f : Powers(f, m)]
<1>4. \A m \in Nat : Powers(table[m], m)
  BY <1>3
<1> HIDE DEF table
<1>5. \A m \in Nat : \A n \in 0 .. m : table[m][n] = table[n][n]
  <2> DEFINE U == {n \in Nat : \A m \in Nat : n <= m => table[m][n] = table[n][n]}
  <2>1. 0 \in U
    BY <1>4 DEF Powers
  <2>2. ASSUME NEW n \in Nat, n \in U PROVE n + 1 \in U
    <3> SUFFICES ASSUME NEW m \in Nat, n + 1 <= m
                 PROVE  table[m][n + 1] = table[n + 1][n + 1]
      OBVIOUS
    <3>1. table[m][n] = table[n][n] /\ table[n + 1][n] = table[n][n]
      BY <2>2
    <3>2. /\ n + 1 \in 1 .. m /\ n + 1 \in 1 .. n + 1 /\ (n + 1) - 1 = n
      OBVIOUS
    <3>3. table[m][n + 1] = 2 * table[m][n]
      BY <1>4, <3>2 DEF Powers
    <3>4. table[n + 1][n + 1] = 2 * table[n + 1][n]
      BY <1>4, <3>2 DEF Powers
    <3> QED
      BY <3>1, <3>3, <3>4
  <2>3. Nat \subseteq U
    BY <2>1, <2>2, Induction
  <2> QED
    BY <2>3
<1> DEFINE p == [n \in Nat |-> table[n][n]]
<1>6. /\ p \in [Nat -> Nat \ {0}] /\ p[0] = 1
      /\ \A n \in Nat : n # 0 => p[n] = 2 * p[n - 1]
  <2>1. ASSUME NEW n \in Nat PROVE p[n] \in Nat \ {0}
    <3>1. n \in 0 .. n
      OBVIOUS
    <3> QED
      BY <1>4, <3>1 DEF Powers
  <2>2. p[0] = 1
    BY <1>4 DEF Powers
  <2>3. ASSUME NEW n \in Nat, n # 0 PROVE p[n] = 2 * p[n - 1]
    <3>1. /\ n \in 1 .. n /\ n - 1 \in 0 .. n /\ n - 1 \in Nat
      BY <2>3
    <3>2. table[n][n] = 2 * table[n][n - 1]
      BY <1>4, <3>1 DEF Powers
    <3>3. table[n][n - 1] = table[n - 1][n - 1]
      BY <1>5, <3>1
    <3> QED
      BY <3>1, <3>2, <3>3
  <2> QED
    BY <2>1, <2>2, <2>3
<1> HIDE DEF p
<1>7. Def(p)
  <2>1. p = [n \in Nat |-> p[n]]
    BY <1>6
  <2>2. ASSUME NEW n \in Nat PROVE p[n] = IF n = 0 THEN 1 ELSE 2 * p[n - 1]
    BY <1>6
  <2> QED
    BY <2>1, <2>2
<1>8. PowerOf2 = CHOOSE f : Def(f)
  BY DEF PowerOf2
<1> DEFINE q == PowerOf2
<1>9. Def(q)
  BY <1>7, <1>8
<1>10. q = [n \in Nat |-> IF n = 0 THEN 1 ELSE 2 * q[n - 1]]
  BY <1>9
<1> HIDE DEF Def, q
<1>11. q[0] = 1 /\ \A n \in Nat : q[n + 1] = 2 * q[n]
  <2>1. ASSUME NEW n \in Nat PROVE q[n + 1] = 2 * q[n]
    <3>1. n + 1 \in Nat /\ n + 1 # 0 /\ (n + 1) - 1 = n
      OBVIOUS
    <3> QED
      BY <1>10, <3>1
  <2> QED
    BY <1>10, <2>1
<1>12. \A n \in Nat : q[n] \in Nat \ {0}
  <2> DEFINE V == {n \in Nat : q[n] \in Nat \ {0}}
  <2>1. 0 \in V
    BY <1>11
  <2>2. ASSUME NEW n \in Nat, n \in V PROVE n + 1 \in V
    BY <2>2, <1>11
  <2>3. Nat \subseteq V
    BY <2>1, <2>2, Induction
  <2> QED
    BY <2>3
<1>13. q \in [Nat -> Nat \ {0}]
  BY <1>10, <1>12
<1> QED
  BY <1>11, <1>13 DEF q

\* A word is made of pairs of the halves that a bit of it tells apart.
LEMMA PairsOfHalves ==
  ASSUME NEW v \in BitNumbers
  PROVE  \E m \in Nat \ {0} : WordSize = (2 * m) * PowerOf2[v]
<1>1. v \in Nat /\ Width \in Nat /\ v < Width
  BY ServicesAssumption DEF BitNumbers
<1> DEFINE S == {n \in Nat : \E m \in Nat \ {0} :
                   PowerOf2[v + 1 + n] = (2 * m) * PowerOf2[v]}
<1>2. 0 \in S
  <2>1. PowerOf2[v + 1 + 0] = (2 * 1) * PowerOf2[v]
    BY <1>1, PowersAre
  <2> QED
    BY <2>1
<1>3. ASSUME NEW n \in Nat, n \in S PROVE n + 1 \in S
  <2>1. PICK m \in Nat \ {0} : PowerOf2[v + 1 + n] = (2 * m) * PowerOf2[v]
    BY <1>3
  <2>2. /\ v + 1 + n \in Nat /\ v + 1 + (n + 1) = (v + 1 + n) + 1
        /\ PowerOf2[v] \in Nat
    BY <1>1, PowersAre
  <2>3. PowerOf2[v + 1 + (n + 1)] = 2 * PowerOf2[v + 1 + n]
    BY <2>2, PowersAre
  <2>4. 2 * ((2 * m) * PowerOf2[v]) = (2 * (2 * m)) * PowerOf2[v]
    BY <2>2
  <2>5. 2 * m \in Nat \ {0} /\ n + 1 \in Nat
    OBVIOUS
  <2> QED
    BY <2>1, <2>3, <2>4, <2>5
<1>4. Nat \subseteq S
  BY <1>2, <1>3, Induction
<1>5. Width - v - 1 \in S
  BY <1>1, <1>4
<1>6. v + 1 + (Width - v - 1) = Width
  BY <1>1
<1> QED
  BY <1>5, <1>6 DEF WordSize

LEMMA Products ==
  ASSUME NEW a \in Nat, NEW b \in Nat, NEW p \in Nat, a <= b
  PROVE  a * p \in Nat /\ a * p <= b * p
OBVIOUS

\* A bit that is not set can be added, one that is can be taken away.
LEMMA BitsFit ==
  ASSUME NEW w \in Word, NEW v \in BitNumbers
  PROVE  /\ Bit(w, v) \in {0, 1}
         /\ WithBit(w, v) \in Word /\ WithoutBit(w, v) \in Word
<1> DEFINE p == PowerOf2[v]
           q == w \div p
           k == q \div 2
<1>1. PICK m \in Nat \ {0} : WordSize = (2 * m) * p
  BY PairsOfHalves
<1>2. v \in Nat /\ p \in Nat \ {0}
  BY PowersAre, ServicesAssumption DEF BitNumbers
<1>3. WordSize \in Nat
  BY PowersAre, ServicesAssumption DEF WordSize
<1>4. w \in Nat /\ w < WordSize
  BY <1>3 DEF Word
<1> HIDE DEF p
<1>5. q \in Nat /\ q * p <= w /\ w < q * p + p
  BY <1>2, <1>4
<1> HIDE DEF q
<1>6. k \in Nat /\ (q = 2 * k \/ q = 2 * k + 1) /\ (q % 2 = 0 <=> q = 2 * k)
      /\ q % 2 \in {0, 1}
  BY <1>5
<1>7. Bit(w, v) = q % 2
  BY DEF Bit, p, q
<1> HIDE DEF k
<1>8. CASE q % 2 = 0
  <2>1. q = 2 * k
    BY <1>6, <1>8
  <2>2. k < m
    <3>1. SUFFICES ASSUME m <= k PROVE FALSE
      BY <1>6
    <3>2. 2 * m <= 2 * k /\ 2 * m \in Nat /\ 2 * k \in Nat
      BY <1>6, <3>1
    <3>3. (2 * m) * p <= (2 * k) * p
      BY <3>2, <1>2, Products
    <3>4. WordSize <= q * p
      BY <1>1, <2>1, <3>3
    <3>5. q * p \in Int /\ w \in Int /\ WordSize \in Int
      BY <1>2, <1>3, <1>4, <1>5
    <3> QED
      BY <1>4, <1>5, <3>4, <3>5
  <2>3. (2 * k + 2) * p <= (2 * m) * p
    <3>1. 2 * k + 2 <= 2 * m /\ 2 * m \in Nat /\ 2 * k + 2 \in Nat
      BY <1>6, <2>2
    <3> QED
      BY <3>1, <1>2, Products
  <2>4. (2 * k + 2) * p = (2 * k) * p + 2 * p
    BY <1>6, <1>2
  <2>5. w + p < WordSize
    BY <1>1, <1>2, <1>3, <1>4, <1>5, <1>6, <2>1, <2>3, <2>4
  <2>6. w + p \in Word
    BY <1>2, <1>3, <1>4, <2>5 DEF Word
  <2>7. Bit(w, v) = 0
    BY <1>7, <1>8
  <2> QED
    BY <2>6, <2>7 DEF WithBit, WithoutBit, p
<1>9. CASE q % 2 = 1
  <2>1. 1 <= q
    BY <1>5, <1>9
  <2>2. 1 * p <= q * p
    BY <2>1, <1>2, <1>5, Products
  <2>3. w - p \in Word
    BY <1>2, <1>3, <1>4, <1>5, <2>2 DEF Word
  <2>4. Bit(w, v) = 1
    BY <1>7, <1>9
  <2> QED
    BY <2>3, <2>4 DEF WithBit, WithoutBit, p
<1> QED
  BY <1>6, <1>8, <1>9

\* Every call leaves a word and returns one.
LEMMA CallsFit ==
  ASSUME NEW o \in Ops, NEW w \in Word
  PROVE  NewValue(o, w) \in Word /\ Answer(o, w) \in Word
<1>1. o.kind \in Kinds /\ o.val \in Word
  BY ServicesAssumption
<1>2. WordSize \in Nat \ {0, 1}
  <2>1. 0 \in BitNumbers
    BY ServicesAssumption DEF BitNumbers
  <2>2. PICK m \in Nat \ {0} : WordSize = (2 * m) * PowerOf2[0]
    BY <2>1, PairsOfHalves
  <2> QED
    BY <2>2, PowersAre
<1>3. 0 \in Word /\ 1 \in Word
  BY <1>2 DEF Word
<1>4. (w + o.val) % WordSize \in Word
  <2>1. w \in Nat /\ o.val \in Nat
    BY <1>1, <1>2 DEF Word
  <2> QED
    BY <2>1, <1>2 DEF Word
<1>5. CASE o.kind \in {"set", "read", "add", "add_return", "exchange"}
  BY <1>1, <1>3, <1>4, <1>5 DEF NewValue, Answer
<1>6. CASE o.kind \notin {"set", "read", "add", "add_return", "exchange"}
  <2>1. o.val \in BitNumbers
    BY <1>6, ServicesAssumption
  <2>2. /\ Bit(w, o.val) \in {0, 1}
        /\ WithBit(w, o.val) \in Word /\ WithoutBit(w, o.val) \in Word
    BY <2>1, BitsFit
  <2>3. Bit(w, o.val) \in Word
    BY <2>2, <1>3
  <2> QED
    BY <1>6, <1>3, <2>2, <2>3 DEF NewValue, Answer
<1> QED
  BY <1>5, <1>6

-----------------------------------------------------------------------------
(* Synchronization.                                                        *)

LEMMA NullIsNone == NULL \notin Kthreads \cup {"read", "write"} \cup {0, 1, 35}
BY ServicesAssumption

-----------------------------------------------------------------------------
(* Locks, condition variables and threads.                                 *)

\* What is known of each lock of the porting layer: its calls to take it and
\* to give it back agree, a call to write takes the kernel's lock alone, and
\* one to read, where there is one, does not.
ClassInv ==
  /\ class \in Sync!Classes
  /\ Sync!Modes \subseteq {"read", "write"} /\ "write" \in Sync!Modes
  /\ \A f \in Sync!Modes :
       /\ class.gives[f] = class.takes[f]
       /\ class.takes[f] = IF f = "write" THEN "exclusive" ELSE "shared"
  /\ class = Sync!fusion_cv_lock => Sync!Modes = {"write"}

SyncShape ==
  /\ place \in [Kthreads -> Sync!Places]
  /\ params \in [Kthreads -> Sync!Modes \cup {NULL}]
  /\ func \in [Kthreads -> Sync!Modes \cup {NULL}]
  /\ timed \in [Kthreads -> BOOLEAN]
  /\ ret \in [Kthreads -> {0, Sync!EWOULDBLOCK, NULL}]
  /\ woken \in [Kthreads -> {Sync!FUSION_WAIT_TIMEDOUT,
                             Sync!FUSION_WAIT_TRIGGERED, NULL}]
  /\ cv = {t \in Kthreads : place[t] = "asleep"}

\* What a thread was made for is with its parameters first, on its stack then.
ErrandKept ==
  \A t \in Kthreads :
    /\ place[t] = "made" => params[t] \in Sync!Modes
    /\ place[t] # "made" => params[t] = NULL
    /\ place[t] \notin {"none", "made"} => func[t] \in Sync!Modes

\* Who is inside has the kernel's lock, in the way its call takes it.
LockKept ==
  /\ owner \in Kthreads \cup {NULL} /\ sharers \subseteq Kthreads
  /\ owner # NULL => sharers = {}
  /\ \A t \in Kthreads :
       /\ owner = t <=> place[t] = "inside" /\ func[t] = "write"
       /\ t \in sharers <=> place[t] = "inside" /\ func[t] = "read"

\* Who is woken knows why.
WakersTold ==
  \A t \in Kthreads :
    /\ place[t] \in {"asleep", "awake"} => class = Sync!fusion_cv_lock
    /\ place[t] = "awake" => ret[t] \in {0, Sync!EWOULDBLOCK}

SyncInv == ClassInv /\ SyncShape /\ ErrandKept /\ LockKept /\ WakersTold

LEMMA SyncInit == Sync!Init => SyncInv
<1>1. SUFFICES ASSUME Sync!Init PROVE SyncInv
  OBVIOUS
<1>2. ClassInv
  <2>1. class \in {Sync!fusion_spin, Sync!fusion_mutex, Sync!fusion_rw_spin,
                   Sync!fusion_rwsem}
    BY <1>1 DEF Sync!Init, Sync!Classes
  <2>2. CASE class = Sync!fusion_spin
    BY <2>1, <2>2
       DEF ClassInv, Sync!Modes, Sync!Classes, Sync!fusion_spin, Sync!Alone
  <2>3. CASE class = Sync!fusion_mutex
    BY <2>1, <2>3
       DEF ClassInv, Sync!Modes, Sync!Classes, Sync!fusion_mutex, Sync!Alone
  <2>4. CASE class \in {Sync!fusion_rw_spin, Sync!fusion_rwsem}
    <3>1. /\ class.takes = Sync!ByMode /\ class.gives = Sync!ByMode
          /\ class # Sync!fusion_spin
      BY <2>4 DEF Sync!fusion_rw_spin, Sync!fusion_rwsem, Sync!fusion_spin,
                  Sync!ByMode, Sync!Alone
    <3> QED
      BY <2>1, <3>1
         DEF ClassInv, Sync!Modes, Sync!Classes, Sync!ByMode,
             Sync!fusion_cv_lock
  <2> QED
    BY <2>1, <2>2, <2>3, <2>4
<1>3. SyncShape
  BY <1>1 DEF Sync!Init, SyncShape, Sync!Places
<1>4. LockKept
  BY <1>1, NullIsNone DEF Sync!Init, LockKept
<1> QED
  BY <1>1, <1>2, <1>3, <1>4 DEF SyncInv, Sync!Init, ErrandKept, WakersTold

\* The kernel's calls, as the threads' calls use them.
LEMMA ModesAgree ==
  ASSUME SyncInv, NEW t \in Kthreads, func[t] \in Sync!Modes
  PROVE  /\ func[t] \in {"read", "write"}
         /\ class.takes[func[t]]
              = IF func[t] = "write" THEN "exclusive" ELSE "shared"
         /\ class.gives[func[t]] = class.takes[func[t]]
BY DEF SyncInv, ClassInv

\* Each step of a thread but a wakening moves that thread alone.
LEMMA GoesInv ==
  ASSUME SyncInv, NEW t \in Kthreads, NEW from, NEW to \in Sync!Places,
         Sync!Goes(t, from, to), from # "asleep", to # "asleep"
  PROVE  /\ place' \in [Kthreads -> Sync!Places]
         /\ \A u \in Kthreads : place'[u] = IF u = t THEN to ELSE place[u]
         /\ place[t] = from
         /\ UNCHANGED cv => cv' = {u \in Kthreads : place'[u] = "asleep"}
<1>1. place' = [place EXCEPT ![t] = to] /\ place[t] = from
  BY DEF Sync!Goes
<1>2. /\ place \in [Kthreads -> Sync!Places]
      /\ cv = {u \in Kthreads : place[u] = "asleep"}
  BY DEF SyncInv, SyncShape
<1>3. \A u \in Kthreads : place'[u] = IF u = t THEN to ELSE place[u]
  BY <1>1, <1>2
<1>4. \A u \in Kthreads : place'[u] = "asleep" <=> place[u] = "asleep"
  BY <1>1, <1>3
<1> QED
  BY <1>1, <1>2, <1>3, <1>4

\* A thread is made, starts, or is gone.
LEMMA ThreadInv ==
  ASSUME SyncInv, NEW t \in Kthreads,
         \/ \E f \in Sync!Modes : Sync!Create(t, f)
         \/ Sync!NotMade(t) \/ Sync!Starts(t) \/ Sync!Exits(t)
  PROVE  SyncInv'
<1>1. /\ UNCHANGED <<class, owner, sharers, cv, timed, ret, woken>>
      /\ Sync!Modes' = Sync!Modes
  BY DEF Sync!Create, Sync!NotMade, Sync!Starts, Sync!Exits, Sync!lock_vars,
         Sync!wait_vars, Sync!Modes
<1>2. ClassInv' /\ ClassInv
  BY <1>1 DEF SyncInv, ClassInv
<1> SUFFICES SyncShape' /\ ErrandKept' /\ LockKept' /\ WakersTold'
  BY <1>2 DEF SyncInv
<1>3. ASSUME NEW f \in Sync!Modes, Sync!Create(t, f)
      PROVE  SyncShape' /\ ErrandKept' /\ LockKept' /\ WakersTold'
  <2>1. /\ Sync!Goes(t, "none", "made") /\ params' = [params EXCEPT ![t] = f]
        /\ func' = func
    BY <1>3 DEF Sync!Create
  <2>2. /\ place' \in [Kthreads -> Sync!Places] /\ place[t] = "none"
        /\ \A u \in Kthreads : place'[u] = IF u = t THEN "made" ELSE place[u]
        /\ cv' = {u \in Kthreads : place'[u] = "asleep"}
    BY <1>1, <2>1, GoesInv DEF Sync!Places
  <2>3. SyncShape'
    BY <1>1, <2>1, <2>2 DEF SyncInv, SyncShape
  <2>4. ErrandKept'
    BY <1>1, <2>1, <2>2 DEF SyncInv, SyncShape, ErrandKept
  <2>5. LockKept'
    BY <1>1, <2>1, <2>2 DEF SyncInv, LockKept
  <2>6. WakersTold'
    BY <1>1, <2>1, <2>2 DEF SyncInv, WakersTold
  <2> QED
    BY <2>3, <2>4, <2>5, <2>6
<1>4. ASSUME Sync!NotMade(t)
      PROVE  SyncShape' /\ ErrandKept' /\ LockKept' /\ WakersTold'
  <2>1. /\ Sync!Goes(t, "made", "none") /\ params' = [params EXCEPT ![t] = NULL]
        /\ func' = func
    BY <1>4 DEF Sync!NotMade
  <2>2. /\ place' \in [Kthreads -> Sync!Places] /\ place[t] = "made"
        /\ \A u \in Kthreads : place'[u] = IF u = t THEN "none" ELSE place[u]
        /\ cv' = {u \in Kthreads : place'[u] = "asleep"}
    BY <1>1, <2>1, GoesInv DEF Sync!Places
  <2>3. SyncShape'
    BY <1>1, <2>1, <2>2 DEF SyncInv, SyncShape
  <2>4. ErrandKept'
    BY <1>1, <2>1, <2>2 DEF SyncInv, SyncShape, ErrandKept
  <2>5. LockKept'
    BY <1>1, <2>1, <2>2 DEF SyncInv, LockKept
  <2>6. WakersTold'
    BY <1>1, <2>1, <2>2 DEF SyncInv, WakersTold
  <2> QED
    BY <2>3, <2>4, <2>5, <2>6
<1>5. ASSUME Sync!Starts(t)
      PROVE  SyncShape' /\ ErrandKept' /\ LockKept' /\ WakersTold'
  <2>1. /\ Sync!Goes(t, "made", "runs") /\ params' = [params EXCEPT ![t] = NULL]
        /\ func' = [func EXCEPT ![t] = params[t]]
    BY <1>5 DEF Sync!Starts, Sync!Copied
  <2>2. /\ place' \in [Kthreads -> Sync!Places] /\ place[t] = "made"
        /\ \A u \in Kthreads : place'[u] = IF u = t THEN "runs" ELSE place[u]
        /\ cv' = {u \in Kthreads : place'[u] = "asleep"}
    BY <1>1, <2>1, GoesInv DEF Sync!Places
  <2>3. SyncShape'
    BY <1>1, <2>1, <2>2 DEF SyncInv, SyncShape
  <2>4. ErrandKept'
    BY <1>1, <2>1, <2>2 DEF SyncInv, SyncShape, ErrandKept
  <2>5. LockKept'
    BY <1>1, <2>1, <2>2 DEF SyncInv, SyncShape, LockKept
  <2>6. WakersTold'
    BY <1>1, <2>1, <2>2 DEF SyncInv, WakersTold
  <2> QED
    BY <2>3, <2>4, <2>5, <2>6
<1>6. ASSUME Sync!Exits(t)
      PROVE  SyncShape' /\ ErrandKept' /\ LockKept' /\ WakersTold'
  <2>1. /\ Sync!Goes(t, "done", "none") /\ params' = params
        /\ func' = [func EXCEPT ![t] = NULL]
    BY <1>6 DEF Sync!Exits
  <2>2. /\ place' \in [Kthreads -> Sync!Places] /\ place[t] = "done"
        /\ \A u \in Kthreads : place'[u] = IF u = t THEN "none" ELSE place[u]
        /\ cv' = {u \in Kthreads : place'[u] = "asleep"}
    BY <1>1, <2>1, GoesInv DEF Sync!Places
  <2>3. SyncShape'
    BY <1>1, <2>1, <2>2 DEF SyncInv, SyncShape
  <2>4. ErrandKept'
    BY <1>1, <2>1, <2>2 DEF SyncInv, SyncShape, ErrandKept
  <2>5. LockKept'
    BY <1>1, <2>1, <2>2 DEF SyncInv, SyncShape, LockKept
  <2>6. WakersTold'
    BY <1>1, <2>1, <2>2 DEF SyncInv, WakersTold
  <2> QED
    BY <2>3, <2>4, <2>5, <2>6
<1> QED
  BY <1>3, <1>4, <1>5, <1>6

\* A thread takes the lock, is told that it cannot, or gives it back.
LEMMA LockInv ==
  ASSUME SyncInv, NEW t \in Kthreads,
         Sync!Lock(t) \/ Sync!TryFails(t) \/ Sync!Unlock(t)
  PROVE  SyncInv'
<1>1. /\ UNCHANGED <<class, cv, params, func, timed, ret>>
      /\ Sync!Modes' = Sync!Modes
  BY DEF Sync!Lock, Sync!TryFails, Sync!Unlock, Sync!wait_vars, Sync!Modes
<1>2. ClassInv' /\ ClassInv
  BY <1>1 DEF SyncInv, ClassInv
<1> SUFFICES SyncShape' /\ ErrandKept' /\ LockKept' /\ WakersTold'
  BY <1>2 DEF SyncInv
<1>3. ASSUME Sync!Lock(t)
      PROVE  SyncShape' /\ ErrandKept' /\ LockKept' /\ WakersTold'
  <2> DEFINE how == class.takes[func[t]]
  <2>1. /\ Sync!Goes(t, "runs", "inside") /\ owner = NULL
        /\ how = "exclusive" => sharers = {}
        /\ owner' = IF how = "exclusive" THEN t ELSE owner
        /\ sharers' = IF how = "shared" THEN sharers \cup {t} ELSE sharers
        /\ woken' = woken
    BY <1>3 DEF Sync!Lock, Sync!Take, Sync!Free, Sync!wait_vars
  <2>2. /\ place' \in [Kthreads -> Sync!Places] /\ place[t] = "runs"
        /\ \A u \in Kthreads : place'[u] = IF u = t THEN "inside" ELSE place[u]
        /\ cv' = {u \in Kthreads : place'[u] = "asleep"}
    BY <1>1, <2>1, GoesInv DEF Sync!Places
  <2>3. func[t] \in Sync!Modes
    BY <2>2 DEF SyncInv, ErrandKept
  <2>4. /\ func[t] \in {"read", "write"}
        /\ how = IF func[t] = "write" THEN "exclusive" ELSE "shared"
    BY <2>3, ModesAgree
  <2>5. SyncShape'
    BY <1>1, <2>1, <2>2 DEF SyncInv, SyncShape
  <2>6. ErrandKept'
    BY <1>1, <2>2, <2>3 DEF SyncInv, ErrandKept
  <2>7. LockKept'
    BY <1>1, <2>1, <2>2, <2>4, NullIsNone DEF SyncInv, LockKept
  <2>8. WakersTold'
    BY <1>1, <2>1, <2>2 DEF SyncInv, WakersTold
  <2> QED
    BY <2>5, <2>6, <2>7, <2>8
<1>4. ASSUME Sync!TryFails(t)
      PROVE  SyncShape' /\ ErrandKept' /\ LockKept' /\ WakersTold'
  <2>1. /\ Sync!Goes(t, "runs", "done") /\ UNCHANGED <<owner, sharers, woken>>
    BY <1>4 DEF Sync!TryFails, Sync!lock_vars, Sync!wait_vars
  <2>2. /\ place' \in [Kthreads -> Sync!Places] /\ place[t] = "runs"
        /\ \A u \in Kthreads : place'[u] = IF u = t THEN "done" ELSE place[u]
        /\ cv' = {u \in Kthreads : place'[u] = "asleep"}
    BY <1>1, <2>1, GoesInv DEF Sync!Places
  <2>3. SyncShape'
    BY <1>1, <2>1, <2>2 DEF SyncInv, SyncShape
  <2>4. ErrandKept' /\ LockKept' /\ WakersTold'
    BY <1>1, <2>1, <2>2 DEF SyncInv, ErrandKept, LockKept, WakersTold
  <2> QED
    BY <2>3, <2>4
<1>5. ASSUME Sync!Unlock(t)
      PROVE  SyncShape' /\ ErrandKept' /\ LockKept' /\ WakersTold'
  <2> DEFINE how == class.gives[func[t]]
  <2>1. /\ Sync!Goes(t, "inside", "done")
        /\ owner' = IF how = "exclusive" THEN NULL ELSE owner
        /\ sharers' = IF how = "shared" THEN sharers \ {t} ELSE sharers
        /\ woken' = [woken EXCEPT ![t] = NULL]
    BY <1>5 DEF Sync!Unlock, Sync!Give
  <2>2. /\ place' \in [Kthreads -> Sync!Places] /\ place[t] = "inside"
        /\ \A u \in Kthreads : place'[u] = IF u = t THEN "done" ELSE place[u]
        /\ cv' = {u \in Kthreads : place'[u] = "asleep"}
    BY <1>1, <2>1, GoesInv DEF Sync!Places
  <2>3. func[t] \in Sync!Modes
    BY <2>2 DEF SyncInv, ErrandKept
  <2>4. /\ func[t] \in {"read", "write"}
        /\ how = IF func[t] = "write" THEN "exclusive" ELSE "shared"
    BY <2>3, ModesAgree
  <2>5. SyncShape'
    BY <1>1, <2>1, <2>2 DEF SyncInv, SyncShape
  <2>6. ErrandKept'
    BY <1>1, <2>2, <2>3 DEF SyncInv, ErrandKept
  <2>7. LockKept'
    BY <1>1, <2>1, <2>2, <2>4, NullIsNone DEF SyncInv, LockKept
  <2>8. WakersTold'
    BY <1>1, <2>1, <2>2 DEF SyncInv, WakersTold
  <2> QED
    BY <2>5, <2>6, <2>7, <2>8
<1> QED
  BY <1>3, <1>4, <1>5

\* Who waits with the lock has the spin lock, alone.
LEMMA WaiterWrites ==
  ASSUME SyncInv, NEW t \in Kthreads, class = Sync!fusion_cv_lock,
         place[t] \in {"inside", "asleep", "awake"}
  PROVE  func[t] = "write" /\ func[t] \in Sync!Modes
BY DEF SyncInv, ClassInv, ErrandKept

LEMMA WaitInv ==
  ASSUME SyncInv, NEW t \in Kthreads, NEW b \in BOOLEAN, Sync!Wait(t, b)
  PROVE  SyncInv'
<1>1. /\ UNCHANGED <<class, params, func, ret, woken>> /\ Sync!Modes' = Sync!Modes
      /\ class = Sync!fusion_cv_lock /\ place[t] = "inside"
      /\ place' = [place EXCEPT ![t] = "asleep"]
      /\ owner' = NULL /\ sharers' = sharers
      /\ cv' = cv \cup {t} /\ timed' = [timed EXCEPT ![t] = b]
  BY DEF Sync!Wait, Sync!Goes, Sync!Give, Sync!Modes
<1>2. ClassInv'
  BY <1>1 DEF SyncInv, ClassInv
<1>3. \A u \in Kthreads : place'[u] = IF u = t THEN "asleep" ELSE place[u]
  BY <1>1 DEF SyncInv, SyncShape
<1>4. func[t] = "write" /\ func[t] \in Sync!Modes
  BY <1>1, WaiterWrites
<1>5. cv' = {u \in Kthreads : place'[u] = "asleep"}
  BY <1>1, <1>3 DEF SyncInv, SyncShape
<1>6. place' \in [Kthreads -> Sync!Places] /\ timed' \in [Kthreads -> BOOLEAN]
  BY <1>1 DEF SyncInv, SyncShape, Sync!Places
<1>7. SyncShape'
  BY <1>1, <1>5, <1>6 DEF SyncInv, SyncShape
<1>8. ErrandKept'
  BY <1>1, <1>3, <1>4 DEF SyncInv, ErrandKept
<1>9. LockKept'
  BY <1>1, <1>3, <1>4, NullIsNone DEF SyncInv, LockKept
<1>10. WakersTold'
  BY <1>1, <1>3 DEF SyncInv, WakersTold
<1> QED
  BY <1>2, <1>7, <1>8, <1>9, <1>10 DEF SyncInv

\* A signal, a broadcast and a timeout take threads from the sleep queue.
LEMMA AwakeInv ==
  ASSUME SyncInv, NEW some \in SUBSET cv, NEW why \in {0, Sync!EWOULDBLOCK},
         Sync!Awake(some, why)
  PROVE  SyncInv'
<1>1. /\ cv' = cv \ some
      /\ place' = [s \in Kthreads |-> IF s \in some THEN "awake" ELSE place[s]]
      /\ ret' = [s \in Kthreads |-> IF s \in some THEN why ELSE ret[s]]
      /\ UNCHANGED <<class, owner, sharers, params, func, timed, woken>>
      /\ Sync!Modes' = Sync!Modes
  BY DEF Sync!Awake, Sync!lock_vars, Sync!Modes
<1>2. \A s \in some : s \in Kthreads /\ place[s] = "asleep"
  BY DEF SyncInv, SyncShape
<1>3. ClassInv'
  BY <1>1 DEF SyncInv, ClassInv
<1>4. cv' = {u \in Kthreads : place'[u] = "asleep"}
  BY <1>1, <1>2 DEF SyncInv, SyncShape
<1>5. place' \in [Kthreads -> Sync!Places]
  BY <1>1 DEF SyncInv, SyncShape, Sync!Places
<1>6. ret' \in [Kthreads -> {0, Sync!EWOULDBLOCK, NULL}]
  BY <1>1 DEF SyncInv, SyncShape
<1>7. SyncShape'
  BY <1>1, <1>4, <1>5, <1>6 DEF SyncInv, SyncShape
<1>8. ErrandKept'
  BY <1>1, <1>2 DEF SyncInv, ErrandKept
<1>9. LockKept'
  BY <1>1, <1>2 DEF SyncInv, LockKept
<1>10. WakersTold'
  BY <1>1, <1>2 DEF SyncInv, WakersTold
<1> QED
  BY <1>3, <1>7, <1>8, <1>9, <1>10 DEF SyncInv

LEMMA WakeInv ==
  ASSUME SyncInv, NEW t \in Kthreads,
         \/ Sync!fusion_condvar_signal(t) \/ Sync!fusion_condvar_broadcast(t)
         \/ Sync!TimeOut(t)
  PROVE  SyncInv'
BY AwakeInv DEF Sync!fusion_condvar_signal, Sync!fusion_condvar_broadcast,
                Sync!TimeOut

LEMMA WaitReturnsInv ==
  ASSUME SyncInv, NEW t \in Kthreads, Sync!WaitReturns(t)
  PROVE  SyncInv'
<1>1. /\ UNCHANGED <<class, params, func, cv>> /\ Sync!Modes' = Sync!Modes
      /\ Sync!Goes(t, "awake", "inside")
      /\ owner = NULL /\ sharers = {} /\ owner' = t /\ sharers' = sharers
      /\ woken' = [woken EXCEPT ![t] = Sync!Answered(ret[t])]
      /\ timed' = [timed EXCEPT ![t] = FALSE]
      /\ ret' = [ret EXCEPT ![t] = NULL]
  BY DEF Sync!WaitReturns, Sync!Take, Sync!Free, Sync!Modes
<1>2. /\ place' \in [Kthreads -> Sync!Places] /\ place[t] = "awake"
      /\ \A u \in Kthreads : place'[u] = IF u = t THEN "inside" ELSE place[u]
      /\ cv' = {u \in Kthreads : place'[u] = "asleep"}
  BY <1>1, GoesInv DEF Sync!Places
<1>3. func[t] = "write" /\ func[t] \in Sync!Modes
  BY <1>2, WaiterWrites DEF SyncInv, WakersTold
<1>4. ClassInv'
  BY <1>1 DEF SyncInv, ClassInv
<1>5. Sync!Answered(ret[t])
        \in {Sync!FUSION_WAIT_TIMEDOUT, Sync!FUSION_WAIT_TRIGGERED}
  BY DEF Sync!Answered
<1>6. /\ woken' \in [Kthreads -> {Sync!FUSION_WAIT_TIMEDOUT,
                                  Sync!FUSION_WAIT_TRIGGERED, NULL}]
      /\ timed' \in [Kthreads -> BOOLEAN]
      /\ ret' \in [Kthreads -> {0, Sync!EWOULDBLOCK, NULL}]
  BY <1>1, <1>5 DEF SyncInv, SyncShape
<1>7. SyncShape'
  BY <1>1, <1>2, <1>6 DEF SyncInv, SyncShape
<1>8. ErrandKept'
  BY <1>1, <1>2, <1>3 DEF SyncInv, ErrandKept
<1>9. LockKept'
  BY <1>1, <1>2, <1>3, NullIsNone DEF SyncInv, LockKept
<1>10. WakersTold'
  BY <1>1, <1>2 DEF SyncInv, SyncShape, WakersTold
<1> QED
  BY <1>4, <1>7, <1>8, <1>9, <1>10 DEF SyncInv

LEMMA SyncStep == SyncInv /\ [Sync!Next]_(Sync!sync_vars) => SyncInv'
<1>1. SUFFICES ASSUME SyncInv, [Sync!Next]_(Sync!sync_vars) PROVE SyncInv'
  OBVIOUS
<1>2. CASE UNCHANGED Sync!sync_vars
  BY <1>1, <1>2
     DEF SyncInv, ClassInv, SyncShape, ErrandKept, LockKept, WakersTold,
         Sync!sync_vars, Sync!lock_vars, Sync!wait_vars, Sync!Modes
<1>3. ASSUME NEW t \in Kthreads,
             \/ \E f \in Sync!Modes : Sync!Create(t, f)
             \/ Sync!Runs(t)
             \/ \E b \in BOOLEAN : Sync!Wait(t, b)
             \/ Sync!fusion_condvar_signal(t) \/ Sync!fusion_condvar_broadcast(t)
      PROVE  SyncInv'
  BY <1>1, <1>3, ThreadInv, LockInv, WaitInv, WakeInv, WaitReturnsInv
     DEF Sync!Runs
<1> QED
  BY <1>1, <1>2, <1>3 DEF Sync!Next

\* SyncInv always holds: threads are where their errands say, and the kernel's
\* lock is had by those inside, as their calls take it.
THEOREM SyncInvariance == Sync!Spec => []SyncInv
BY SyncInit, SyncStep, PTL DEF Sync!Spec

LEMMA SyncTypes == SyncInv => Sync!TypeOK
BY DEF SyncInv, ClassInv, SyncShape, LockKept, Sync!TypeOK

-----------------------------------------------------------------------------
(* They are a monitor.                                                     *)

\* What Monitor's variables stand for.
Errand ==
  [t \in Kthreads |-> CASE place[t] = "none" -> NULL
                        [] place[t] = "made" -> params[t]
                        [] OTHER -> func[t]]
Holds == [t \in Kthreads |-> IF place[t] = "inside" THEN func[t] ELSE "no"]
Waits ==
  [t \in Kthreads |-> CASE place[t] = "asleep" -> "asleep"
                        [] place[t] = "awake" -> Sync!Why(ret[t])
                        [] OTHER -> "no"]
Told == [t \in Kthreads |-> Sync!WhyTold(woken[t])]

LEMMA NothingTold == Sync!WhyTold(NULL) = NULL
BY NullIsNone DEF Sync!WhyTold, Sync!FUSION_WAIT_TIMEDOUT

LEMMA MonitorInit == Sync!Init => Sync!Promise!Init
<1>1. SUFFICES ASSUME Sync!Init PROVE Sync!Promise!Init
  OBVIOUS
<1>2. Errand = [t \in Kthreads |-> NULL]
  BY <1>1 DEF Sync!Init, Errand
<1>3. Holds = [t \in Kthreads |-> "no"]
  BY <1>1 DEF Sync!Init, Holds
<1>4. Waits = [t \in Kthreads |-> "no"]
  BY <1>1 DEF Sync!Init, Waits
<1>5. Told = [t \in Kthreads |-> NULL]
  BY <1>1, NothingTold DEF Sync!Init, Told
<1> QED
  BY <1>2, <1>3, <1>4, <1>5 DEF Errand, Holds, Waits, Told, Sync!Promise!Init

\* A step of one thread changes what its own place stands for.
LEMMA MappedStep ==
  ASSUME NEW t \in Kthreads,
         \A u \in Kthreads \ {t} :
           /\ place'[u] = place[u] /\ params'[u] = params[u]
           /\ func'[u] = func[u] /\ ret'[u] = ret[u] /\ woken'[u] = woken[u]
  PROVE  /\ Errand' = [Errand EXCEPT ![t] = Errand'[t]]
         /\ Holds' = [Holds EXCEPT ![t] = Holds'[t]]
         /\ Waits' = [Waits EXCEPT ![t] = Waits'[t]]
         /\ Told' = [Told EXCEPT ![t] = Told'[t]]
         /\ Errand'[t] = Errand[t] => Errand' = Errand
         /\ Holds'[t] = Holds[t] => Holds' = Holds
         /\ Waits'[t] = Waits[t] => Waits' = Waits
         /\ Told'[t] = Told[t] => Told' = Told
<1>1. \A u \in Kthreads \ {t} :
        /\ Errand'[u] = Errand[u] /\ Holds'[u] = Holds[u]
        /\ Waits'[u] = Waits[u] /\ Told'[u] = Told[u]
  BY DEF Errand, Holds, Waits, Told
<1>2. /\ Errand' = [u \in Kthreads |-> Errand'[u]]
      /\ Holds' = [u \in Kthreads |-> Holds'[u]]
      /\ Waits' = [u \in Kthreads |-> Waits'[u]]
      /\ Told' = [u \in Kthreads |-> Told'[u]]
      /\ Errand = [u \in Kthreads |-> Errand[u]]
      /\ Holds = [u \in Kthreads |-> Holds[u]]
      /\ Waits = [u \in Kthreads |-> Waits[u]]
      /\ Told = [u \in Kthreads |-> Told[u]]
  BY DEF Errand, Holds, Waits, Told
<1> QED
  BY <1>1, <1>2

\* Whoever may take the kernel's lock is compatible with those inside.
LEMMA FreeIsCompatible ==
  ASSUME SyncInv, NEW t \in Kthreads, NEW mode \in {"read", "write"},
         Sync!Free(IF mode = "write" THEN "exclusive" ELSE "shared")
  PROVE  \A u \in Kthreads \ {t} :
           Holds[u] # "no" => mode = "read" /\ Holds[u] = "read"
<1>1. SUFFICES ASSUME NEW u \in Kthreads \ {t}, Holds[u] # "no"
               PROVE  mode = "read" /\ Holds[u] = "read"
  OBVIOUS
<1>2. place[u] = "inside" /\ Holds[u] = func[u]
  BY <1>1 DEF Holds
<1>3. func[u] \in {"read", "write"}
  BY <1>2 DEF SyncInv, ErrandKept, ClassInv
<1>4. owner # u
  BY NullIsNone DEF Sync!Free
<1>5. func[u] = "read" /\ u \in sharers
  BY <1>2, <1>3, <1>4 DEF SyncInv, LockKept
<1> QED
  BY <1>2, <1>5 DEF Sync!Free

\* A thread that is made, starts or goes.
LEMMA ThreadRefines ==
  ASSUME SyncInv, NEW t \in Kthreads,
         \/ \E f \in Sync!Modes : Sync!Create(t, f)
         \/ Sync!NotMade(t) \/ Sync!Starts(t) \/ Sync!Exits(t)
  PROVE  \/ \E f \in {"read", "write"} : Sync!Promise!Ask(t, f)
         \/ Sync!Promise!Gone(t)
         \/ UNCHANGED Sync!Promise!monitor_vars
<1>1. /\ place \in [Kthreads -> Sync!Places]
      /\ params \in [Kthreads -> Sync!Modes \cup {NULL}]
      /\ func \in [Kthreads -> Sync!Modes \cup {NULL}]
  BY DEF SyncInv, SyncShape
<1>2. UNCHANGED <<ret, woken>>
  BY DEF Sync!Create, Sync!NotMade, Sync!Starts, Sync!Exits, Sync!wait_vars
<1>3. ASSUME NEW f \in Sync!Modes, Sync!Create(t, f)
      PROVE  \E g \in {"read", "write"} : Sync!Promise!Ask(t, g)
  <2>1. /\ place[t] = "none" /\ place' = [place EXCEPT ![t] = "made"]
        /\ params' = [params EXCEPT ![t] = f] /\ func' = func
    BY <1>3 DEF Sync!Create, Sync!Goes
  <2>2. /\ Errand'[t] = f /\ Errand[t] = NULL /\ Holds'[t] = Holds[t]
        /\ Waits'[t] = Waits[t] /\ Told'[t] = Told[t]
    BY <1>1, <1>2, <2>1 DEF Errand, Holds, Waits, Told
  <2>3. /\ Errand' = [Errand EXCEPT ![t] = f]
        /\ Holds' = Holds /\ Waits' = Waits /\ Told' = Told
    BY <1>1, <1>2, <2>1, <2>2, MappedStep
  <2>4. f \in {"read", "write"}
    BY DEF SyncInv, ClassInv
  <2> QED
    BY <2>2, <2>3, <2>4 DEF Errand, Holds, Waits, Told, Sync!Promise!Ask
<1>4. ASSUME Sync!NotMade(t) \/ Sync!Exits(t)
      PROVE  Sync!Promise!Gone(t)
  <2>1. /\ place[t] \in {"made", "done"} /\ place' = [place EXCEPT ![t] = "none"]
        /\ \A u \in Kthreads \ {t} : params'[u] = params[u] /\ func'[u] = func[u]
    BY <1>1, <1>4 DEF Sync!NotMade, Sync!Exits, Sync!Goes
  <2>2. /\ Errand'[t] = NULL /\ Holds'[t] = "no" /\ Holds[t] = "no"
        /\ Waits'[t] = "no" /\ Waits[t] = "no" /\ Told'[t] = Told[t]
    BY <1>1, <1>2, <2>1 DEF Errand, Holds, Waits, Told
  <2>3. /\ Errand' = [Errand EXCEPT ![t] = NULL]
        /\ Holds' = Holds /\ Waits' = Waits /\ Told' = Told
    BY <1>1, <1>2, <2>1, <2>2, MappedStep
  <2> QED
    BY <2>2, <2>3 DEF Errand, Holds, Waits, Told, Sync!Promise!Gone
<1>5. ASSUME Sync!Starts(t) PROVE UNCHANGED Sync!Promise!monitor_vars
  <2>1. /\ place[t] = "made" /\ place' = [place EXCEPT ![t] = "runs"]
        /\ params' = [params EXCEPT ![t] = NULL]
        /\ func' = [func EXCEPT ![t] = params[t]]
    BY <1>5 DEF Sync!Starts, Sync!Goes, Sync!Copied
  <2>2. /\ Errand'[t] = Errand[t] /\ Holds'[t] = Holds[t]
        /\ Waits'[t] = Waits[t] /\ Told'[t] = Told[t]
    BY <1>1, <1>2, <2>1 DEF Errand, Holds, Waits, Told
  <2>3. Errand' = Errand /\ Holds' = Holds /\ Waits' = Waits /\ Told' = Told
    BY <1>1, <1>2, <2>1, <2>2, MappedStep
  <2> QED
    BY <2>3 DEF Errand, Holds, Waits, Told, Sync!Promise!monitor_vars
<1> QED
  BY <1>3, <1>4, <1>5

\* A thread that takes the lock, cannot, or gives it back.
LEMMA LockRefines ==
  ASSUME SyncInv, NEW t \in Kthreads,
         Sync!Lock(t) \/ Sync!TryFails(t) \/ Sync!Unlock(t)
  PROVE  \/ Sync!Promise!Enter(t) \/ Sync!Promise!Leave(t)
         \/ UNCHANGED Sync!Promise!monitor_vars
<1>1. /\ place \in [Kthreads -> Sync!Places]
      /\ woken = [u \in Kthreads |-> woken[u]]
      /\ func \in [Kthreads -> Sync!Modes \cup {NULL}]
  BY DEF SyncInv, SyncShape
<1>2. UNCHANGED <<params, func, ret>>
  BY DEF Sync!Lock, Sync!TryFails, Sync!Unlock, Sync!wait_vars
<1>3. ASSUME Sync!Lock(t) PROVE Sync!Promise!Enter(t)
  <2>1. /\ place[t] = "runs" /\ place' = [place EXCEPT ![t] = "inside"]
        /\ Sync!Free(class.takes[func[t]]) /\ woken' = woken
    BY <1>3 DEF Sync!Lock, Sync!Goes, Sync!Take, Sync!wait_vars
  <2>2. /\ func[t] \in {"read", "write"} /\ NULL \notin {"read", "write"}
        /\ Sync!Free(IF func[t] = "write" THEN "exclusive" ELSE "shared")
    BY <2>1, ModesAgree, NullIsNone DEF SyncInv, ErrandKept
  <2>3. /\ Errand'[t] = Errand[t] /\ Errand[t] = func[t] /\ Holds[t] = "no"
        /\ Holds'[t] = func[t] /\ Waits[t] = "no" /\ Waits'[t] = "no"
        /\ Told'[t] = Told[t]
    BY <1>1, <1>2, <2>1 DEF Errand, Holds, Waits, Told
  <2>4. /\ Errand' = Errand /\ Holds' = [Holds EXCEPT ![t] = Errand[t]]
        /\ Waits' = Waits /\ Told' = Told
    BY <1>1, <1>2, <2>1, <2>3, MappedStep
  <2>5. \A u \in Kthreads \ {t} :
          Holds[u] # "no" => Errand[t] = "read" /\ Holds[u] = "read"
    BY <2>2, <2>3, FreeIsCompatible
  <2>6. Errand[t] # NULL
    BY <2>2, <2>3
  <2> QED
    BY <2>3, <2>4, <2>5, <2>6
       DEF Errand, Holds, Waits, Told, Sync!Promise!Enter,
           Sync!Promise!Compatible
<1>4. ASSUME Sync!TryFails(t) PROVE UNCHANGED Sync!Promise!monitor_vars
  <2>1. /\ place[t] = "runs" /\ place' = [place EXCEPT ![t] = "done"]
        /\ woken' = woken
    BY <1>4 DEF Sync!TryFails, Sync!Goes, Sync!wait_vars
  <2>2. /\ Errand'[t] = Errand[t] /\ Holds'[t] = Holds[t]
        /\ Waits'[t] = Waits[t] /\ Told'[t] = Told[t]
    BY <1>1, <1>2, <2>1 DEF Errand, Holds, Waits, Told
  <2>3. Errand' = Errand /\ Holds' = Holds /\ Waits' = Waits /\ Told' = Told
    BY <1>1, <1>2, <2>1, <2>2, MappedStep
  <2> QED
    BY <2>3 DEF Errand, Holds, Waits, Told, Sync!Promise!monitor_vars
<1>5. ASSUME Sync!Unlock(t) PROVE Sync!Promise!Leave(t)
  <2>1. /\ place[t] = "inside" /\ place' = [place EXCEPT ![t] = "done"]
        /\ woken' = [woken EXCEPT ![t] = NULL]
    BY <1>5 DEF Sync!Unlock, Sync!Goes
  <2>2. /\ Errand'[t] = Errand[t] /\ Holds'[t] = "no"
        /\ Waits'[t] = Waits[t] /\ Told'[t] = NULL
    BY <1>1, <1>2, <2>1, NothingTold DEF Errand, Holds, Waits, Told
  <2>3. /\ Errand' = Errand /\ Holds' = [Holds EXCEPT ![t] = "no"]
        /\ Waits' = Waits /\ Told' = [Told EXCEPT ![t] = NULL]
    BY <1>1, <1>2, <2>1, <2>2, MappedStep
  <2> QED
    BY <2>3 DEF Errand, Holds, Waits, Told, Sync!Promise!Leave
<1> QED
  BY <1>3, <1>4, <1>5

\* A thread that waits.
LEMMA WaitRefines ==
  ASSUME SyncInv, NEW t \in Kthreads, NEW b \in BOOLEAN, Sync!Wait(t, b)
  PROVE  Sync!Promise!Sleep(t)
<1>1. /\ place \in [Kthreads -> Sync!Places]
      /\ class = Sync!fusion_cv_lock /\ place[t] = "inside"
      /\ place' = [place EXCEPT ![t] = "asleep"]
      /\ UNCHANGED <<params, func, ret, woken>>
  BY DEF SyncInv, SyncShape, Sync!Wait, Sync!Goes
<1>2. func[t] = "write"
  BY <1>1, WaiterWrites
<1>3. /\ Errand'[t] = Errand[t] /\ Holds[t] = "write" /\ Holds'[t] = "no"
      /\ Waits'[t] = "asleep" /\ Told'[t] = Told[t]
  BY <1>1, <1>2 DEF Errand, Holds, Waits, Told
<1>4. /\ Errand' = Errand /\ Holds' = [Holds EXCEPT ![t] = "no"]
      /\ Waits' = [Waits EXCEPT ![t] = "asleep"] /\ Told' = Told
  BY <1>1, <1>3, MappedStep
<1> QED
  BY <1>3, <1>4 DEF Errand, Holds, Waits, Told, Sync!Promise!Sleep

\* Threads that are woken, and only they, wait no more.
LEMMA MappedAwake ==
  ASSUME SyncInv, NEW some \in SUBSET cv, NEW why \in {0, Sync!EWOULDBLOCK},
         Sync!Awake(some, why)
  PROVE  /\ Errand' = Errand /\ Holds' = Holds /\ Told' = Told
         /\ Waits' =
              [s \in Kthreads |-> IF s \in some THEN Sync!Why(why) ELSE Waits[s]]
         /\ \A s \in Kthreads : s \in cv <=> Waits[s] = "asleep"
<1>1. /\ place' = [s \in Kthreads |-> IF s \in some THEN "awake" ELSE place[s]]
      /\ ret' = [s \in Kthreads |-> IF s \in some THEN why ELSE ret[s]]
      /\ UNCHANGED <<params, func, woken>>
  BY DEF Sync!Awake
<1>2. /\ \A s \in some : s \in Kthreads /\ place[s] = "asleep"
      /\ cv = {s \in Kthreads : place[s] = "asleep"}
  BY DEF SyncInv, SyncShape
<1>3. ASSUME NEW s \in Kthreads
      PROVE  /\ Errand'[s] = Errand[s] /\ Holds'[s] = Holds[s]
             /\ Waits'[s] = IF s \in some THEN Sync!Why(why) ELSE Waits[s]
  BY <1>1, <1>2 DEF Errand, Holds, Waits
<1>4. Errand' = Errand
  BY <1>3 DEF Errand
<1>5. Holds' = Holds
  BY <1>3 DEF Holds
<1>6. Told' = Told
  BY <1>1 DEF Told
<1>7. Waits' =
        [s \in Kthreads |-> IF s \in some THEN Sync!Why(why) ELSE Waits[s]]
  <2>1. Waits' = [s \in Kthreads |-> Waits'[s]]
    BY DEF Waits
  <2> QED
    BY <1>3, <2>1
<1>8. \A s \in Kthreads : s \in cv <=> Waits[s] = "asleep"
  BY <1>2 DEF Waits, Sync!Why
<1> QED
  BY <1>4, <1>5, <1>6, <1>7, <1>8

\* A signal, a broadcast, a timeout.
LEMMA WakeRefines ==
  ASSUME SyncInv, NEW t \in Kthreads,
         \/ Sync!fusion_condvar_signal(t) \/ Sync!fusion_condvar_broadcast(t)
         \/ Sync!TimeOut(t)
  PROVE  Sync!Promise!Wake(t) \/ Sync!Promise!TimeUp(t)
<1> DEFINE asleep == {s \in Kthreads : Waits[s] = "asleep"}
<1>1. ASSUME NEW some \in SUBSET cv, Sync!Awake(some, 0),
             class = Sync!fusion_cv_lock, place[t] = "inside",
             some = cv \/ \E s \in cv : some = {s}
      PROVE  Sync!Promise!Wake(t)
  <2>1. /\ Errand' = Errand /\ Holds' = Holds /\ Told' = Told
        /\ Waits' =
             [s \in Kthreads |-> IF s \in some THEN "signalled" ELSE Waits[s]]
        /\ \A s \in Kthreads : s \in cv <=> Waits[s] = "asleep"
    <3>1. Sync!Why(0) = "signalled"
      BY DEF Sync!Why, Sync!EWOULDBLOCK
    <3> QED
      BY <1>1, <3>1, MappedAwake
  <2>2. cv \subseteq Kthreads
    BY DEF SyncInv, SyncShape
  <2>3. some \in {{s} : s \in asleep} \cup {asleep}
    BY <1>1, <2>1, <2>2
  <2>4. Holds[t] = "write"
    BY <1>1, WaiterWrites DEF Holds
  <2> QED
    BY <2>1, <2>3, <2>4
       DEF Errand, Holds, Waits, Told, Sync!Promise!Wake, Sync!Promise!Asleep
<1>2. CASE Sync!fusion_condvar_signal(t)
  BY <1>1, <1>2 DEF Sync!fusion_condvar_signal
<1>3. CASE Sync!fusion_condvar_broadcast(t)
  BY <1>1, <1>3 DEF Sync!fusion_condvar_broadcast
<1>4. CASE Sync!TimeOut(t)
  <2>1. t \in cv /\ {t} \in SUBSET cv /\ Sync!Awake({t}, Sync!EWOULDBLOCK)
    BY <1>4 DEF Sync!TimeOut
  <2>2. /\ Errand' = Errand /\ Holds' = Holds /\ Told' = Told
        /\ Waits' =
             [s \in Kthreads |-> IF s \in {t} THEN "timed out" ELSE Waits[s]]
        /\ Waits[t] = "asleep"
    BY <2>1, MappedAwake DEF Sync!Why
  <2>3. Waits' = [Waits EXCEPT ![t] = "timed out"]
    <3>1. Waits = [s \in Kthreads |-> Waits[s]]
      BY DEF Waits
    <3> QED
      BY <2>2, <3>1
  <2>4. Sync!Promise!TimeUp(t)
    BY <2>2, <2>3 DEF Errand, Holds, Waits, Told, Sync!Promise!TimeUp
  <2> QED
    BY <2>4
<1> QED
  BY <1>2, <1>3, <1>4

\* A wait that returns has the lock, and says why.
LEMMA WaitReturnsRefines ==
  ASSUME SyncInv, NEW t \in Kthreads, Sync!WaitReturns(t)
  PROVE  Sync!Promise!Return(t)
<1>1. /\ place \in [Kthreads -> Sync!Places]
      /\ woken = [u \in Kthreads |-> woken[u]]
      /\ ret = [u \in Kthreads |-> ret[u]]
      /\ place[t] = "awake" /\ place' = [place EXCEPT ![t] = "inside"]
      /\ Sync!Free("exclusive")
      /\ woken' = [woken EXCEPT ![t] = Sync!Answered(ret[t])]
      /\ ret' = [ret EXCEPT ![t] = NULL]
      /\ UNCHANGED <<params, func>>
  BY DEF SyncInv, SyncShape, Sync!WaitReturns, Sync!Goes, Sync!Take
<1>2. func[t] = "write" /\ ret[t] \in {0, Sync!EWOULDBLOCK}
  BY <1>1, WaiterWrites DEF SyncInv, WakersTold
<1>3. Sync!WhyTold(Sync!Answered(ret[t])) = Sync!Why(ret[t])
  BY <1>2, NullIsNone
     DEF Sync!WhyTold, Sync!Answered, Sync!Why, Sync!EWOULDBLOCK,
         Sync!FUSION_WAIT_TIMEDOUT, Sync!FUSION_WAIT_TRIGGERED
<1>4. /\ Errand'[t] = Errand[t] /\ Holds'[t] = "write" /\ Waits'[t] = "no"
      /\ Waits[t] = Sync!Why(ret[t]) /\ Told'[t] = Waits[t]
  BY <1>1, <1>2, <1>3 DEF Errand, Holds, Waits, Told
<1>5. /\ Errand' = Errand /\ Holds' = [Holds EXCEPT ![t] = "write"]
      /\ Waits' = [Waits EXCEPT ![t] = "no"]
      /\ Told' = [Told EXCEPT ![t] = Waits[t]]
  BY <1>1, <1>4, MappedStep
<1>6. Waits[t] \in {"signalled", "timed out"}
  BY <1>4 DEF Sync!Why
<1>7. \A u \in Kthreads \ {t} :
        Holds[u] # "no" => "write" = "read" /\ Holds[u] = "read"
  BY <1>1, FreeIsCompatible
<1> QED
  BY <1>5, <1>6, <1>7
     DEF Errand, Holds, Waits, Told, Sync!Promise!Return,
         Sync!Promise!Compatible

\* What every lock of the porting layer promises its callers, whatever lock of
\* the kernel is under it, and what condition variables promise those who wait;
\* and the kernel's lock is left to no one but those who are inside.
THEOREM SyncIsMonitor == Sync!Spec => Sync!ImplementsMonitor
<1>1. SyncInv /\ [Sync!Next]_(Sync!sync_vars)
        => [Sync!Promise!Next]_(Sync!Promise!monitor_vars)
  <2>1. SUFFICES ASSUME SyncInv, [Sync!Next]_(Sync!sync_vars)
                 PROVE  [Sync!Promise!Next]_(Sync!Promise!monitor_vars)
    OBVIOUS
  <2>2. CASE UNCHANGED Sync!sync_vars
    BY <2>2 DEF Sync!sync_vars, Sync!lock_vars, Sync!wait_vars,
                Sync!Promise!monitor_vars, Sync!WhyTold, Sync!Why
  <2>3. ASSUME NEW t \in Kthreads,
               \/ \E f \in Sync!Modes : Sync!Create(t, f)
               \/ Sync!Runs(t)
               \/ \E b \in BOOLEAN : Sync!Wait(t, b)
               \/ Sync!fusion_condvar_signal(t) \/ Sync!fusion_condvar_broadcast(t)
        PROVE  [Sync!Promise!Next]_(Sync!Promise!monitor_vars)
    BY <2>1, <2>3, ThreadRefines, LockRefines, WaitRefines, WakeRefines,
       WaitReturnsRefines
       DEF Sync!Runs, Sync!Promise!Next
  <2> QED
    BY <2>1, <2>2, <2>3 DEF Sync!Next
<1>2. SyncInv => \A t \in Kthreads :
                   place[t] = "inside"
                      <=> t \in sharers \/ Sync!fusion_spin_is_locked(t)
  BY DEF SyncInv, LockKept, ErrandKept, ClassInv, Sync!fusion_spin_is_locked
<1>3. Sync!Spec => Sync!Promise!Spec
  BY <1>1, MonitorInit, SyncInvariance, PTL DEF Sync!Spec, Sync!Promise!Spec
<1>4. Sync!Spec => [](\A t \in Kthreads :
                       place[t] = "inside"
                         <=> t \in sharers \/ Sync!fusion_spin_is_locked(t))
  BY <1>2, SyncInvariance, PTL
<1> QED
  BY <1>3, <1>4 DEF Sync!ImplementsMonitor

-----------------------------------------------------------------------------
(* The types of the variables.                                             *)

\* The operations are those of AtomicWord's instance.
LEMMA SameOperations ==
  /\ Atomic!Word = Word
  /\ \A o, w : /\ Atomic!NewValue(o, w) = NewValue(o, w)
               /\ Atomic!Answer(o, w) = Answer(o, w)
<1>1. Atomic!PowerOf2 = PowerOf2
  BY DEF Atomic!PowerOf2, PowerOf2
<1>2. Atomic!WordSize = WordSize /\ Atomic!Word = Word
  BY <1>1 DEF Atomic!WordSize, WordSize, Atomic!Word, Word
<1>3. ASSUME NEW w, NEW v
      PROVE  /\ Atomic!Bit(w, v) = Bit(w, v)
             /\ Atomic!WithBit(w, v) = WithBit(w, v)
             /\ Atomic!WithoutBit(w, v) = WithoutBit(w, v)
  BY <1>1 DEF Atomic!Bit, Bit, Atomic!WithBit, WithBit, Atomic!WithoutBit,
              WithoutBit
<1>4. ASSUME NEW o, NEW w
      PROVE  /\ Atomic!NewValue(o, w) = NewValue(o, w)
             /\ Atomic!Answer(o, w) = Answer(o, w)
  BY <1>2, <1>3 DEF Atomic!NewValue, NewValue, Atomic!Answer, Answer
<1> QED
  BY <1>2, <1>4

LEMMA WordTypesInit == Atomic!Init => Atomic!TypeOK
<1>1. 0 \in Word
  <2>1. WordSize \in Nat \ {0}
    BY PowersAre, ServicesAssumption DEF WordSize
  <2> QED
    BY <2>1 DEF Word
<1> QED
  BY <1>1, SameOperations DEF Atomic!Init, Atomic!TypeOK

LEMMA WordTypesStep ==
  Atomic!TypeOK /\ [Atomic!Next]_(Atomic!word_vars) => Atomic!TypeOK'
<1> SUFFICES ASSUME Atomic!TypeOK, [Atomic!Next]_(Atomic!word_vars)
             PROVE  Atomic!TypeOK'
  OBVIOUS
<1>1. ASSUME NEW t \in Threads, Atomic!Call(t) PROVE Atomic!TypeOK'
  BY <1>1 DEF Atomic!Call, Atomic!TypeOK
<1>2. ASSUME NEW t \in Threads, NEW w \in Word, Atomic!ActOn(t, w)
      PROVE  Atomic!TypeOK'
  <2>1. op[t] \in Ops
    BY DEF Atomic!TypeOK
  <2>2. NewValue(op[t], w) \in Word /\ Answer(op[t], w) \in Word
    BY <2>1, CallsFit
  <2> QED
    BY <1>2, <2>2, SameOperations DEF Atomic!ActOn, Atomic!TypeOK
<1>3. ASSUME NEW t \in Threads, Atomic!AtOnce(t) PROVE Atomic!TypeOK'
  BY <1>2, <1>3, SameOperations DEF Atomic!AtOnce, Atomic!TypeOK
<1>4. ASSUME NEW t \in Threads, Atomic!Load(t) PROVE Atomic!TypeOK'
  BY <1>4 DEF Atomic!Load, Atomic!TypeOK
<1>5. ASSUME NEW t \in Threads, Atomic!Swap(t) PROVE Atomic!TypeOK'
  <2>1. old[t] \in Word
    BY SameOperations DEF Atomic!TypeOK
  <2> QED
    BY <1>2, <1>5, <2>1 DEF Atomic!Swap
<1>6. ASSUME NEW t \in Threads, Atomic!SwapFails(t) PROVE Atomic!TypeOK'
  BY <1>6 DEF Atomic!SwapFails, Atomic!TypeOK
<1>7. CASE UNCHANGED Atomic!word_vars
  BY <1>7 DEF Atomic!word_vars, Atomic!TypeOK
<1> QED
  BY <1>1, <1>3, <1>4, <1>5, <1>6, <1>7 DEF Atomic!Next, Atomic!Work

LEMMA DelaysAreTicks == Later!Delays \subseteq Nat
<1>1. ASSUME NEW u \in Usecs PROVE Later!fusion_usectohz(u) \in Nat
  <2>1. u * Hz \in Nat /\ UsecPerSec \in Nat \ {0}
    BY ServicesAssumption
  <2> QED
    BY <2>1 DEF Later!fusion_usectohz
<1> QED
  BY <1>1 DEF Later!Delays, Later!AtLeastOne

\* What is known of timers and of work, and of the queue as a sequence.
TimerTypes ==
  /\ ftn \in [Timers -> Functions \cup {NULL}]
  /\ phase \in [Timers -> {"new", "set up", "in use", "draining", "deleted"}]
  /\ callout \in [Timers -> [left : Nat, f : Functions \cup {NULL}]]
  /\ runs \in [Timers -> Functions \cup {NULL}]

WorkTypes ==
  /\ delayed \subseteq [w : Works, left : Nat]
  /\ queue \in Seq(Works) /\ now \in Works \cup {NULL}
  /\ asked \in [Works -> BOOLEAN]

LEMMA DeferredTypes == TimerTypes /\ WorkTypes => Later!TypeOK
<1> SUFFICES ASSUME TimerTypes, WorkTypes PROVE Later!TypeOK
  OBVIOUS
<1>1. Later!ToSet(queue) \subseteq Works
  BY DEF WorkTypes, Later!ToSet
<1>2. \A d \in delayed : d.w \in Works
  BY DEF WorkTypes
<1> QED
  BY <1>1, <1>2 DEF TimerTypes, WorkTypes, Later!TypeOK

LEMMA DeferredTypesInit == Later!Init => TimerTypes /\ WorkTypes
BY DEF Later!Init, Off, Later!Off, TimerTypes, WorkTypes

LEMMA OneLess == \A n \in Nat : n > 0 => n - 1 \in Nat
OBVIOUS

LEMMA TimerTypesStep ==
  TimerTypes /\ [Later!Next]_(Later!deferred_vars) => TimerTypes'
<1> SUFFICES ASSUME TimerTypes, [Later!Next]_(Later!deferred_vars)
             PROVE  TimerTypes'
  OBVIOUS
<1> USE DEF TimerTypes, Later!timer_vars, Later!work_vars
<1>1. ASSUME NEW c \in Timers, NEW f \in Functions, Later!SetFunction(c, f)
      PROVE  TimerTypes'
  BY <1>1 DEF Later!SetFunction
<1>2. ASSUME NEW c \in Timers, NEW t \in Later!Delays,
             Later!Set(c, t) \/ Later!SetAgain(c, t)
      PROVE  TimerTypes'
  <2>1. t \in Nat
    BY DelaysAreTicks
  <2>2. [left |-> t, f |-> ftn[c]] \in [left : Nat, f : Functions \cup {NULL}]
    BY <2>1
  <2>3. CASE Later!Set(c, t)
    BY <2>2, <2>3 DEF Later!Set
  <2>4. CASE Later!SetAgain(c, t)
    BY <2>2, <2>4 DEF Later!SetAgain
  <2> QED
    BY <1>2, <2>3, <2>4
<1>3. ASSUME NEW c \in Timers, Later!Fire(c) PROVE TimerTypes'
  <2> HIDE DEF Later!timer_vars, Later!work_vars
  <2>1. callout[c].f \in Functions \cup {NULL}
    OBVIOUS
  <2>2. Later!Off \in [left : Nat, f : Functions \cup {NULL}]
    BY DEF Later!Off
  <2>3. /\ UNCHANGED <<ftn, phase>>
        /\ runs' = [runs EXCEPT ![c] = callout[c].f]
        /\ callout' = [callout EXCEPT ![c] = Later!Off]
    BY <1>3 DEF Later!Fire
  <2>4. runs' \in [Timers -> Functions \cup {NULL}]
    BY <2>1, <2>3
  <2>5. callout' \in [Timers -> [left : Nat, f : Functions \cup {NULL}]]
    BY <2>2, <2>3
  <2> QED
    BY <2>3, <2>4, <2>5
<1>4. ASSUME NEW c \in Timers, Later!FunctionEnds(c) PROVE TimerTypes'
  BY <1>4 DEF Later!FunctionEnds
<1>5. ASSUME NEW c \in Timers, Later!Delete(c) PROVE TimerTypes'
  BY <1>5 DEF Later!Delete, Off, Later!Off
<1>6. ASSUME NEW c \in Timers, Later!DeleteReturns(c) PROVE TimerTypes'
  BY <1>6 DEF Later!DeleteReturns
<1>7. CASE Later!Tick
  <2>1. ASSUME NEW c \in Timers
        PROVE  callout'[c] \in [left : Nat, f : Functions \cup {NULL}]
    <3>1. callout[c] \in [left : Nat, f : Functions \cup {NULL}]
      OBVIOUS
    <3>2. CASE callout[c].f = NULL
      BY <1>7, <3>1, <3>2 DEF Later!Tick
    <3>3. CASE callout[c].f # NULL
      <4>1. callout'[c] = [callout[c] EXCEPT !.left = callout[c].left - 1]
        BY <1>7, <3>3 DEF Later!Tick
      <4>2. callout[c].left - 1 \in Nat
        <5>1. callout[c].left > 0
          BY <1>7, <3>3 DEF Later!Tick
        <5>2. callout[c].left \in Nat
          BY <3>1
        <5> QED
          BY <5>1, <5>2, OneLess
      <4> QED
        BY <3>1, <4>1, <4>2
    <3> QED
      BY <3>2, <3>3
  <2>2. UNCHANGED <<ftn, phase, runs>> /\ callout' = [c \in Timers |-> callout'[c]]
    BY <1>7 DEF Later!Tick
  <2> QED
    BY <2>1, <2>2
<1>8. CASE UNCHANGED Later!timer_vars
  BY <1>8
<1> QED
  BY <1>1, <1>2, <1>3, <1>4, <1>5, <1>6, <1>7, <1>8
     DEF Later!Next, Later!Owner, Later!System, Later!Schedule,
         Later!ScheduleDelayed, Later!Timeout, Later!Begin, Later!End,
         Later!deferred_vars

LEMMA EnqueuedIsSequence ==
  ASSUME WorkTypes, NEW w \in Works
  PROVE  Later!Enqueued(w) \in Seq(Works)
BY DEF WorkTypes, Later!Enqueued

LEMMA WorkTypesStep ==
  WorkTypes /\ [Later!Next]_(Later!deferred_vars) => WorkTypes'
<1> SUFFICES ASSUME WorkTypes, [Later!Next]_(Later!deferred_vars)
             PROVE  WorkTypes'
  OBVIOUS
<1>1. ASSUME NEW w \in Works, Later!Schedule(w) PROVE WorkTypes'
  BY <1>1, EnqueuedIsSequence DEF Later!Schedule, WorkTypes
<1>2. ASSUME NEW w \in Works, NEW t \in Later!Delays,
             Later!ScheduleDelayed(w, t)
      PROVE  WorkTypes'
  <2>1. [w |-> w, left |-> t] \in [w : Works, left : Nat]
    BY DelaysAreTicks
  <2> QED
    BY <1>2, <2>1 DEF Later!ScheduleDelayed, WorkTypes
<1>3. ASSUME NEW d \in delayed, Later!Timeout(d) PROVE WorkTypes'
  <2>1. d.w \in Works
    BY DEF WorkTypes
  <2> QED
    BY <1>3, <2>1, EnqueuedIsSequence DEF Later!Timeout, WorkTypes
<1>4. CASE Later!Begin
  <2>1. Head(queue) \in Works /\ Tail(queue) \in Seq(Works)
    BY <1>4 DEF Later!Begin, WorkTypes
  <2>2. (\E d \in delayed : d.w = now') \in BOOLEAN
    OBVIOUS
  <2> QED
    BY <1>4, <2>1, <2>2 DEF Later!Begin, WorkTypes
<1>5. CASE Later!End
  BY <1>5 DEF Later!End, WorkTypes
<1>6. CASE Later!Tick
  <2>1. ASSUME NEW d \in delayed
        PROVE  [d EXCEPT !.left = @ - 1] \in [w : Works, left : Nat]
    BY <1>6 DEF Later!Tick, WorkTypes
  <2> QED
    BY <1>6, <2>1 DEF Later!Tick, WorkTypes
<1>7. CASE UNCHANGED Later!work_vars
  BY <1>7 DEF Later!work_vars, WorkTypes
<1> QED
  BY <1>1, <1>2, <1>3, <1>4, <1>5, <1>6, <1>7
     DEF Later!Next, Later!Owner, Later!System, Later!SetFunction, Later!Set,
         Later!SetAgain, Later!Delete, Later!Fire, Later!FunctionEnds,
         Later!DeleteReturns, Later!deferred_vars

-----------------------------------------------------------------------------
(* The components together.                                                *)

\* One component runs, and the others stay as they began.
LEMMA StepsOfParts ==
  ASSUME [Next]_<<part, word_vars, deferred_vars, sync_vars>>
  PROVE  /\ part' = part
         /\ [part = "word" /\ Atomic!Next]_(Atomic!word_vars)
         /\ [Later!Next]_(Later!deferred_vars)
         /\ [Sync!Next]_(Sync!sync_vars)
BY DEF Next, word_vars, deferred_vars, sync_vars, Atomic!word_vars,
       Later!deferred_vars, Later!timer_vars, Later!work_vars,
       Sync!sync_vars, Sync!lock_vars, Sync!wait_vars

\* The variables of a word, of timers and work, and of locks and threads have
\* their types, for words of any size and any calls, timers, works and threads.
THEOREM ServicesTypeCorrect == Spec => []ServiceTypes
<1> DEFINE IInv == /\ part = "word" => Atomic!TypeOK
                   /\ TimerTypes /\ WorkTypes
                   /\ SyncInv
<1>1. Init => IInv
  BY WordTypesInit, DeferredTypesInit, SyncInit DEF Init
<1>2. IInv /\ [Next]_<<part, word_vars, deferred_vars, sync_vars>> => IInv'
  <2> SUFFICES ASSUME IInv, [Next]_<<part, word_vars, deferred_vars, sync_vars>>
               PROVE  IInv'
    OBVIOUS
  <2>1. /\ part' = part
        /\ [part = "word" /\ Atomic!Next]_(Atomic!word_vars)
        /\ [Later!Next]_(Later!deferred_vars)
        /\ [Sync!Next]_(Sync!sync_vars)
    BY StepsOfParts
  <2>2. (part = "word" => Atomic!TypeOK)'
    BY <2>1, WordTypesStep
  <2>3. TimerTypes' /\ WorkTypes'
    BY <2>1, TimerTypesStep, WorkTypesStep
  <2>4. SyncInv'
    BY <2>1, SyncStep
  <2> QED
    BY <2>2, <2>3, <2>4
<1>3. IInv => ServiceTypes
  BY DeferredTypes, SyncTypes DEF ServiceTypes
<1> QED
  BY <1>1, <1>2, <1>3, PTL DEF Spec

\* Locks, condition variables and threads are the monitor's, whatever the other
\* components are.
THEOREM MonitorIsImplemented == Spec => ImplementsMonitor
<1>1. Init => Sync!Init
  BY DEF Init
<1>2. [Next]_<<part, word_vars, deferred_vars, sync_vars>>
        => [Sync!Next]_(Sync!sync_vars)
  BY StepsOfParts
<1>3. Sync!Spec => Sync!ImplementsMonitor
  BY SyncIsMonitor
<1> QED
  BY <1>1, <1>2, <1>3, PTL DEF Spec, Sync!Spec, ImplementsMonitor
=============================================================================
