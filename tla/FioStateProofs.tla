-------------------------- MODULE FioStateProofs --------------------------
(***************************************************************************)
(* Theorems about FioState, for every number of threads, every width of    *)
(* the state and of an arc's mask, and all operations.                     *)
(***************************************************************************)
EXTENDS FioState, TLAPS

\* The parts of an operation have the types the code gives them.
LEMMA OperationFacts ==
  ASSUME NEW o \in Ops
  PROVE  /\ o.kind \in Kinds
         /\ o.to \in States
         /\ o.from \subseteq States
         /\ o.arcs \in Seq(Arc)
BY CellAssumption DEF Operation

\* An arc leads from a state to a state, and has a number.
LEMMA ArcFacts ==
  ASSUME NEW o \in Ops, NEW s \in States, NEW i \in Taken(o.arcs, s)
  PROVE  /\ Target(o.arcs, i, s) \in States
         /\ Number(o.arcs, i) \in Numbers
<1>1. o.arcs \in Seq(Arc)
  BY OperationFacts
<1>2. i \in 0 .. Len(o.arcs)
  BY <1>1 DEF Taken
<1>3. i # 0 => o.arcs[i] \in Arc
  BY <1>1, <1>2
<1>4. QED
  BY <1>3, CellAssumption DEF Arc, Target, Number

\* A number is an answer, alone or with the state that was found.
LEMMA ValueFacts ==
  ASSUME NEW a \in Int
  PROVE  Value(a) \in Answers /\ Value(a).value = a
BY DEF Answers, Value

LEMMA AnswerFacts ==
  ASSUME NEW a \in Int, NEW s \in States
  PROVE  [value |-> a, old_state |-> {s}] \in Answers
BY DEF Answers

\* A flag is an answer.
LEMMA FlagFacts == Value(0) \in Answers /\ Value(1) \in Answers
BY ValueFacts

\* Every state is an integer, and so is the number of an arc.
LEMMA NumberFacts == States \subseteq Int /\ Numbers \subseteq Int
BY CellAssumption DEF States

\* The successor and the predecessor of a state are states.
LEMMA StepFacts ==
  ASSUME NEW s \in States
  PROVE  Up(s) \in States /\ Down(s) \in States
BY CellAssumption DEF Up, Down, States

\* __fio_set_state_locked moves its own thread to where the caller says, wakes
\* the sleepers if the state changes, and moves nobody else.
LEMMA SetLockedFacts ==
  ASSUME IInv, NEW t \in Threads, NEW v \in States, NEW to \in {"idle", "act"},
         pc[t] = "write", SetLocked(t, v, to)
  PROVE  /\ state' = v /\ UNCHANGED <<op, old>>
         /\ pc' \in [Threads -> Places]
         /\ pc'[t] = to
         /\ \A u \in Threads \ {t} :
              pc'[u] = IF v # state /\ pc[u] = "asleep" THEN "woken" ELSE pc[u]
<1>1. old[t] = state
  BY DEF IInv, NoUpdateIsLost
<1>2. QED
  BY <1>1 DEF IInv, TypeOK, Places, SetLocked, Awoken

\* An operation that sets the state and then returns, or goes on to its arc's
\* action, preserves the invariant.
LEMMA SetLockedStep ==
  ASSUME IInv, NEW t \in Threads, NEW v \in States, NEW to \in {"idle", "act"},
         pc[t] = "write", SetLocked(t, v, to),
         \/ to = "idle" /\ lk' = NoThread /\ effect' = v
         \/ /\ to = "act" /\ op[t].kind = "arc" /\ lk' = lk
            /\ effect' = IF op[t].handler THEN effect ELSE v
            /\ answer'[t] \in {Value(n) : n \in Numbers},
         NEW a \in Answers, answer' = [answer EXCEPT ![t] = a]
  PROVE  IInv'
<1>1. /\ state' = v /\ UNCHANGED <<op, old>>
      /\ pc' \in [Threads -> Places]
      /\ pc'[t] = to
      /\ \A u \in Threads \ {t} :
           pc'[u] = IF v # state /\ pc[u] = "asleep" THEN "woken" ELSE pc[u]
  BY SetLockedFacts
<1>2. lk = t /\ \A u \in Threads \ {t} : pc[u] \notin {"read", "write", "act", "got"}
  BY DEF IInv, LockDiscipline
<1>3. TypeOK'
  BY <1>1 DEF IInv, TypeOK
<1>a. \A u \in Threads \ {t} : answer'[u] = answer[u]
  BY DEF IInv, TypeOK
<1>4. LockDiscipline'
  BY <1>1, <1>2, ThreadAssumption DEF LockDiscipline
<1>5. NoUpdateIsLost' /\ StateIsPinned'
  BY <1>1, <1>2 DEF NoUpdateIsLost, StateIsPinned
<1>6. NoneOversleeps'
  BY <1>1 DEF IInv, NoneOversleeps
<1>7. PlaceState'
  BY <1>1, <1>a DEF IInv, PlaceState, Unlocked
<1>8. EffectState'
  BY <1>1 DEF EffectState
<1>9. QED
  BY <1>3, <1>4, <1>5, <1>6, <1>7, <1>8 DEF IInv

\* A step that moves one thread, to a place where it holds the lock exactly if
\* it has it then, and leaves the state alone, preserves the lock's discipline.
LEMMA MoveStep ==
  ASSUME IInv, NEW t \in Threads, NEW to \in Places,
         pc' = [pc EXCEPT ![t] = to],
         lk \in {t, NoThread} \/ lk' = lk,
         lk' = t <=> to \in {"read", "write", "act", "got"},
         lk' \in {t, NoThread} \/ lk' = lk,
         UNCHANGED state
  PROVE  LockDiscipline'
BY ThreadAssumption DEF IInv, TypeOK, LockDiscipline

\* The invariant holds at first.
LEMMA InitIInv == Init => IInv
<1> SUFFICES ASSUME Init
             PROVE  IInv
  OBVIOUS
<1>1. TypeOK
  BY CellAssumption, ValueFacts DEF Init, TypeOK, Places, States
<1>2. QED
  BY <1>1, ThreadAssumption
     DEF Init, IInv, LockDiscipline, NoUpdateIsLost, NoneOversleeps,
         StateIsPinned, PlaceState, EffectState

\* Every step of a thread's work preserves the invariant.
LEMMA WorkStep ==
  ASSUME IInv, NEW t \in Threads, Work(t)
  PROVE  IInv'
<1> USE DEF IInv
<1>1. /\ op[t] \in Ops /\ op[t].to \in States /\ op[t].arcs \in Seq(Arc)
      /\ old[t] \in States
  BY OperationFacts DEF TypeOK
<1>2. CASE Read(t)
  <2>1. TypeOK'
    BY <1>2 DEF Read, TypeOK, Places
  <2>2. LockDiscipline'
    BY <1>2, MoveStep DEF Read, LockDiscipline, Places
  <2>3. QED
    BY <1>2, <2>1, <2>2
       DEF Read, TypeOK, NoUpdateIsLost, NoneOversleeps, StateIsPinned,
           PlaceState, EffectState
<1>3. CASE SetState(t)
  BY <1>1, <1>3, ValueFacts, NumberFacts, SetLockedStep
     DEF SetState, SetLocked, Return, Leave
<1>4. CASE TransitionState(t)
  <2>1. CASE MayMove(op[t], old[t])
    <3> DEFINE a == [value |-> 1, old_state |-> {old[t]}]
    <3>1. a \in Answers
      BY <1>1, AnswerFacts
    <3>2. /\ SetLocked(t, op[t].to, "idle") /\ effect' = state'
          /\ answer' = [answer EXCEPT ![t] = a] /\ lk' = NoThread
      BY <1>4, <2>1 DEF TransitionState, Tell, Leave
    <3> HIDE DEF a
    <3>3. QED
      BY <1>1, <1>4, <3>1, <3>2, SetLockedStep DEF TransitionState, SetLocked
  <2>2. CASE ~MayMove(op[t], old[t])
    <3>1. TypeOK'
      BY <1>1, <1>4, <2>2, AnswerFacts
         DEF TransitionState, Tell, Leave, TypeOK, Places
    <3>2. LockDiscipline'
      BY <1>4, <2>2, MoveStep, ThreadAssumption
         DEF TransitionState, Tell, Leave, LockDiscipline, Places
    <3>3. QED
      BY <1>4, <2>2, <3>1, <3>2
         DEF TransitionState, Tell, Leave, TypeOK, NoUpdateIsLost,
             NoneOversleeps, StateIsPinned, PlaceState, EffectState
  <2>3. QED
    BY <2>1, <2>2
<1>5. CASE StateUp(t)
  <2>1. Up(old[t]) \in States /\ Value(0) \in Answers
    BY <1>1, StepFacts, ValueFacts
  <2>2. QED
    BY <2>1, <1>5, SetLockedStep DEF StateUp, SetLocked, Return, Leave
<1>6. CASE StateDown(t)
  <2>1. Down(old[t]) \in States /\ Value(0) \in Answers
    BY <1>1, StepFacts, ValueFacts
  <2>2. QED
    BY <2>1, <1>6, SetLockedStep DEF StateDown, SetLocked, Return, Leave
<1>7. CASE StateIn(t)
  <2>1. TypeOK'
    <3>1. Value(Flag(old[t] \in op[t].from)) \in Answers
      BY FlagFacts DEF Flag
    <3>2. QED
      BY <1>7, <3>1 DEF StateIn, Return, Leave, TypeOK, Places
  <2>2. LockDiscipline'
    BY <1>7, MoveStep, ThreadAssumption
       DEF StateIn, Return, Leave, LockDiscipline, Places
  <2>3. QED
    BY <1>7, <2>1, <2>2
       DEF StateIn, Return, Leave, TypeOK, NoUpdateIsLost, NoneOversleeps, StateIsPinned,
           PlaceState, EffectState
<1>8. CASE Peek(t)
  <2>1. TypeOK'
    BY <1>8, FlagFacts DEF Peek, Flag, TypeOK, Places
  <2>2. LockDiscipline'
    BY <1>8, MoveStep DEF Peek, LockDiscipline, Places
  <2>3. QED
    BY <1>8, <2>1, <2>2
       DEF Peek, TypeOK, NoUpdateIsLost, NoneOversleeps, StateIsPinned,
           PlaceState, EffectState
<1>9. CASE TakeArc(t)
  <2>1. PICK i \in Taken(op[t].arcs, old[t]) :
          /\ SetLocked(t, Target(op[t].arcs, i, old[t]), "act")
          /\ answer' = [answer EXCEPT ![t] = Value(Number(op[t].arcs, i))]
    BY <1>9 DEF TakeArc
  <2>2. /\ Target(op[t].arcs, i, old[t]) \in States
        /\ Number(op[t].arcs, i) \in Numbers
    BY <1>1, ArcFacts
  <2>3. /\ Value(Number(op[t].arcs, i)) \in Answers
        /\ answer'[t] \in {Value(n) : n \in Numbers}
    BY <2>1, <2>2, ValueFacts, NumberFacts DEF TypeOK
  <2>4. state' = Target(op[t].arcs, i, old[t])
    BY <2>1 DEF SetLocked
  <2>5. QED
    BY <1>9, <2>1, <2>2, <2>3, <2>4, SetLockedStep DEF TakeArc, AfterArc
<1>10. CASE ArcAction(t)
  <2>a. PICK r \in Result(t) : Return(t, r)
    BY <1>10 DEF ArcAction
  <2>b. r \in Int
    <3>1. answer[t].value \in Numbers
      BY <1>10, ValueFacts, NumberFacts DEF ArcAction, PlaceState
    <3>2. Handled[answer[t].value] \subseteq Int
      BY <3>1, CellAssumption
    <3>3. QED
      BY <2>a, <3>1, <3>2, NumberFacts DEF Result
  <2>1. TypeOK'
    BY <1>10, <2>a, <2>b, ValueFacts DEF ArcAction, Return, Leave, TypeOK, Places
  <2>2. LockDiscipline'
    BY <1>10, <2>a, MoveStep, ThreadAssumption
       DEF ArcAction, Return, Leave, LockDiscipline, Places
  <2>3. QED
    BY <1>10, <2>1, <2>2
       DEF ArcAction, Return, Leave, TypeOK, NoUpdateIsLost, NoneOversleeps, StateIsPinned,
           PlaceState, EffectState
<1>11. CASE WaitReturns(t)
  <2>1. TypeOK'
    BY <1>11, ValueFacts DEF WaitReturns, TypeOK, Places
  <2>2. LockDiscipline'
    BY <1>11, MoveStep DEF WaitReturns, LockDiscipline, Places
  <2>3. QED
    BY <1>11, <2>1, <2>2
       DEF WaitReturns, TypeOK, NoUpdateIsLost, NoneOversleeps, StateIsPinned,
           PlaceState, EffectState
<1>12. CASE WaitSleeps(t)
  <2>1. TypeOK'
    BY <1>12 DEF WaitSleeps, TypeOK, Places
  <2>2. LockDiscipline'
    BY <1>12, MoveStep, ThreadAssumption DEF WaitSleeps, LockDiscipline, Places
  <2>3. QED
    BY <1>12, <2>1, <2>2
       DEF WaitSleeps, TypeOK, NoUpdateIsLost, NoneOversleeps, StateIsPinned,
           PlaceState, EffectState
<1>13. CASE UnlockState(t)
  <2>1. TypeOK'
    BY <1>13 DEF UnlockState, TypeOK, Places
  <2>2. LockDiscipline'
    BY <1>13, MoveStep, ThreadAssumption DEF UnlockState, LockDiscipline, Places
  <2>3. QED
    BY <1>13, <2>1, <2>2
       DEF UnlockState, TypeOK, NoUpdateIsLost, NoneOversleeps, StateIsPinned,
           PlaceState, EffectState
<1>14. QED
  BY <1>2, <1>3, <1>4, <1>5, <1>6, <1>7, <1>8, <1>9, <1>10, <1>11, <1>12, <1>13
     DEF Work

\* So does taking the lock, for the first time or after a sleep.
LEMMA EnterStep ==
  ASSUME IInv, NEW t \in Threads, Enter(t)
  PROVE  IInv'
<1>1. /\ pc[t] \in {"lock", "woken"} /\ lk = NoThread /\ lk' = t
      /\ pc' = [pc EXCEPT ![t] = "read"]
      /\ UNCHANGED <<state, op, old, answer, effect>>
  BY DEF Enter, Lock, WaitWakes, AfterWake
<1>2. TypeOK'
  BY <1>1 DEF IInv, TypeOK, Places
<1>3. LockDiscipline'
  BY <1>1, MoveStep DEF Places
<1>4. QED
  BY <1>1, <1>2, <1>3
     DEF IInv, TypeOK, NoUpdateIsLost, NoneOversleeps, StateIsPinned,
         PlaceState, EffectState, Unlocked

\* So does a call.
LEMMA CallStep ==
  ASSUME IInv, NEW t \in Threads, Call(t)
  PROVE  IInv'
<1>1. PICK o \in Ops :
        /\ op' = [op EXCEPT ![t] = o]
        /\ pc' = [pc EXCEPT ![t] = IF o.kind \in Unlocked THEN "peek" ELSE "lock"]
  BY DEF Call
<1>2. TypeOK'
  BY <1>1 DEF Call, IInv, TypeOK, Places
<1>3. LockDiscipline'
  BY <1>1 DEF Call, IInv, TypeOK, LockDiscipline
<1>4. QED
  BY <1>1, <1>2, <1>3
     DEF Call, IInv, TypeOK, NoUpdateIsLost, NoneOversleeps, StateIsPinned,
         PlaceState, EffectState

\* The invariant is inductive.
LEMMA NextIInv == IInv /\ [Next]_vars => IInv'
<1>1. ASSUME IInv, UNCHANGED vars
      PROVE  IInv'
  BY <1>1 DEF vars, IInv, TypeOK, LockDiscipline, NoUpdateIsLost, NoneOversleeps,
              StateIsPinned, PlaceState, EffectState
<1>2. QED
  BY <1>1, CallStep, EnterStep, WorkStep DEF Next

\* IInv holds in every reachable state.
THEOREM Invariance == Spec => []IInv
BY InitIInv, NextIInv, PTL DEF Spec

\* Every variable keeps its type.
THEOREM TypeCorrect == Spec => []TypeOK
BY Invariance, PTL DEF IInv

\* The lock has one owner, and what it read is the state when it writes.
THEOREM Atomicity == Spec => [](LockDiscipline /\ NoUpdateIsLost)
BY Invariance, PTL DEF IInv

\* No waiter sleeps through its state, and it finds it when it wakes up.
THEOREM Waits == Spec => [](NoneOversleeps /\ StateIsPinned)
BY Invariance, PTL DEF IInv

\* fio_state_in_one_of never sees a state whose arc's action is to run yet.
THEOREM ComparisonsWait == Spec => LockedComparesInStep
<1>1. ASSUME IInv, NEW t \in Threads, Compares(t, {"in"})
      PROVE  effect = state
  <2>1. pc[t] = "write"
    BY <1>1 DEF Compares, IInv, PlaceState, Unlocked
  <2>2. \A u \in Threads : pc[u] # "act"
    BY <2>1, <1>1 DEF IInv, LockDiscipline
  <2>3. QED
    BY <1>1, <2>2 DEF IInv, EffectState
<1>2. IInv /\ [Next]_vars =>
        [\A t \in Threads : Compares(t, {"in"}) => effect = state]_vars
  BY <1>1
<1>3. QED
  BY <1>2, Invariance, PTL DEF Spec, LockedComparesInStep

-----------------------------------------------------------------------------
(* FioState implements StateCell.                                          *)

phaseOf == [t \in Threads |-> Phase(t)]

USE DEF Cell!Gives, Cell!Tells, Cell!Leaves, Cell!Value, Value

\* The initial states are the cell's.
LEMMA InitRefines == Init => Cell!Init
BY DEF Init, Cell!Init, Cell!States, States, Cell!Value, Value, Phase

\* A step that moves one thread, and may wake sleepers, changes the phase of
\* no other.
LEMMA PhaseStep ==
  ASSUME NEW t \in Threads,
         \A u \in Threads \ {t} :
           pc'[u] = pc[u] \/ (pc[u] = "asleep" /\ pc'[u] = "woken")
  PROVE  phaseOf' = [phaseOf EXCEPT ![t] = Phase(t)']
<1>1. \A u \in Threads \ {t} : Phase(u)' = Phase(u)
  BY DEF Phase
<1>2. QED
  BY <1>1 DEF phaseOf

\* While t is about to write, nobody holds the cell.
LEMMA NoHolder ==
  ASSUME IInv, NEW t \in Threads, pc[t] \in {"read", "write"}
  PROVE  Cell!Holders = {}
BY DEF IInv, LockDiscipline, Cell!Holders, Phase

\* The write of an operation, or its comparison under the lock, is the cell's
\* step: whatever the operation does is done with the state as it is.
LEMMA WriteRefines ==
  ASSUME IInv, NEW t \in Threads, pc[t] = "write", op' = op,
         pc'[t] = IF op[t].kind = "arc" THEN "act" ELSE "idle",
         \A u \in Threads \ {t} :
           pc'[u] = pc[u] \/ (pc[u] = "asleep" /\ pc'[u] = "woken"),
         Cell!Does(t, op[t])
  PROVE  Cell!Next
<1>1. /\ Phase(t) = "called"
      /\ Phase(t)' = IF op[t].kind \in {"wait", "arc"} THEN "holding" ELSE "idle"
  BY DEF Phase, IInv, PlaceState
<1>2. phaseOf' = [phaseOf EXCEPT ![t] = Phase(t)']
  BY PhaseStep
<1>3. Cell!Act(t)
  BY <1>1, <1>2, NoHolder DEF Cell!Act, phaseOf
<1>4. QED
  BY <1>3 DEF Cell!Next

\* A thread's work is a step of the cell or none.
LEMMA WorkRefines ==
  ASSUME IInv, NEW t \in Threads, Work(t)
  PROVE  [Cell!Next]_Cell!vars
<1>1. pc[t] = "write" => old[t] = state
  BY DEF IInv, NoUpdateIsLost
<1>2. pc \in [Threads -> Places]
  BY DEF IInv, TypeOK
<1>3. CASE SetState(t)
  <2>1. Cell!Does(t, op[t])
    BY <1>1, <1>3 DEF SetState, SetLocked, Return, Leave, Cell!Does
  <2>2. QED
    BY <1>2, <1>3, <2>1, WriteRefines DEF SetState, SetLocked, Awoken
<1>4. CASE TransitionState(t)
  <2>1. Cell!Does(t, op[t])
    BY <1>1, <1>4
       DEF TransitionState, MayMove, SetLocked, Tell, Leave, Cell!Does, Cell!Tells
  <2>2. QED
    BY <1>2, <1>4, <2>1, WriteRefines DEF TransitionState, SetLocked, Awoken
<1>5. CASE StateUp(t)
  <2>1. Cell!Does(t, op[t])
    BY <1>1, <1>5
       DEF StateUp, SetLocked, Return, Leave, Cell!Does, Cell!Up, Up
  <2>2. QED
    BY <1>2, <1>5, <2>1, WriteRefines DEF StateUp, SetLocked, Awoken
<1>6. CASE StateDown(t)
  <2>1. Cell!Does(t, op[t])
    BY <1>1, <1>6
       DEF StateDown, SetLocked, Return, Leave, Cell!Does, Cell!Down, Down
  <2>2. QED
    BY <1>2, <1>6, <2>1, WriteRefines DEF StateDown, SetLocked, Awoken
<1>7. CASE StateIn(t)
  <2>1. Cell!Does(t, op[t])
    BY <1>1, <1>7
       DEF StateIn, Return, Leave, Cell!Does, Cell!Flag, Flag
  <2>2. QED
    BY <1>2, <1>7, <2>1, WriteRefines DEF StateIn
<1>8. CASE TakeArc(t)
  <2>a. PICK i \in Taken(op[t].arcs, state) :
          /\ state' = Target(op[t].arcs, i, state)
          /\ answer' = [answer EXCEPT ![t] = Value(Number(op[t].arcs, i))]
    BY <1>1, <1>8 DEF TakeArc, SetLocked
  <2>b. /\ Cell!Taken(op[t].arcs, state) = Taken(op[t].arcs, state)
        /\ Cell!Target(op[t].arcs, i, state) = Target(op[t].arcs, i, state)
        /\ Cell!Number(op[t].arcs, i) = Number(op[t].arcs, i)
    BY DEF Cell!Taken, Taken, Cell!Target, Target, Cell!Number, Number,
           Cell!Same, Same, Cell!NotFound, NotFound
  <2>1. Cell!Does(t, op[t])
    BY <1>8, <2>a, <2>b DEF TakeArc, Cell!Does
  <2>2. QED
    BY <1>2, <1>8, <2>1, WriteRefines DEF TakeArc, SetLocked, Awoken
<1>9. CASE Peek(t)
  <2>1. op[t].kind \in {"peek", "not_in"}
    BY <1>9 DEF Peek, IInv, PlaceState, Unlocked
  <2>2. Cell!Does(t, op[t])
    BY <1>9, <2>1 DEF Peek, Cell!Does, Cell!Flag, Flag
  <2>3. /\ Phase(t) = "called" /\ Phase(t)' = "idle"
        /\ phaseOf' = [phaseOf EXCEPT ![t] = Phase(t)']
    BY <1>2, <1>9, PhaseStep DEF Peek, Phase
  <2>4. Cell!Act(t)
    BY <1>9, <2>1, <2>2, <2>3 DEF Peek, Cell!Act, phaseOf
  <2>5. QED
    BY <2>4 DEF Cell!Next
<1>10. CASE WaitReturns(t)
  <2>1. Cell!Does(t, op[t])
    BY <1>10 DEF WaitReturns, Cell!Does
  <2>2. /\ Phase(t) = "called" /\ Phase(t)' = "holding"
        /\ phaseOf' = [phaseOf EXCEPT ![t] = Phase(t)']
    BY <1>2, <1>10, PhaseStep DEF WaitReturns, Phase
  <2>3. Cell!Act(t)
    BY <1>10, <2>1, <2>2, NoHolder DEF WaitReturns, Cell!Act, phaseOf
  <2>4. QED
    BY <2>3 DEF Cell!Next
<1>11. CASE ArcAction(t) \/ UnlockState(t)
  <2>1. /\ Phase(t) = "holding" /\ Phase(t)' = "idle"
        /\ phaseOf' = [phaseOf EXCEPT ![t] = Phase(t)']
    BY <1>2, <1>11, PhaseStep DEF ArcAction, UnlockState, Phase
  <2>2. Cell!LetsGo(t)
    BY <1>11, <2>1 DEF ArcAction, UnlockState, Cell!LetsGo, phaseOf
  <2>3. CASE UnlockState(t)
    <3>1. op[t].kind = "wait"
      BY <2>3 DEF UnlockState, IInv, PlaceState
    <3>2. Cell!Release(t)
      BY <2>2, <2>3, <3>1 DEF UnlockState, Cell!Release
    <3>3. QED
      BY <3>2 DEF Cell!Next
  <2>4. CASE ArcAction(t)
    <3>1. op[t].kind = "arc"
      BY <2>4 DEF ArcAction, IInv, PlaceState
    <3>2. PICK r \in Result(t) : answer' = [answer EXCEPT ![t] = Value(r)]
      BY <2>4 DEF ArcAction, Return, Leave
    <3>3. CASE op[t].handler
      <4>1. Cell!Handle(t)
        BY <2>2, <3>1, <3>2, <3>3 DEF Result, Cell!Handle
      <4>2. QED
        BY <4>1 DEF Cell!Next
    <3>4. CASE ~op[t].handler
      <4>1. r = answer[t].value
        BY <3>2, <3>4 DEF Result
      <4>2. answer[t] = Value(r)
        <5>1. PICK n \in Numbers : answer[t] = Value(n)
          BY <2>4 DEF ArcAction, IInv, PlaceState
        <5>2. answer[t].value = n
          BY <5>1
        <5>3. QED
          BY <4>1, <5>1, <5>2
      <4>3. answer' = answer
        BY <3>2, <4>2 DEF IInv, TypeOK
      <4>4. Cell!Release(t)
        BY <2>2, <3>4, <4>3 DEF Cell!Release
      <4>5. QED
        BY <4>4 DEF Cell!Next
    <3>5. QED
      BY <3>3, <3>4
  <2>5. QED
    BY <1>11, <2>3, <2>4
<1>12. CASE Read(t) \/ WaitSleeps(t)
  <2>1. Phase(t)' = Phase(t) /\ phaseOf' = [phaseOf EXCEPT ![t] = Phase(t)']
    BY <1>2, <1>12, PhaseStep DEF Read, WaitSleeps, Phase
  <2>2. phaseOf' = phaseOf
    BY <2>1 DEF phaseOf
  <2>3. QED
    BY <1>12, <2>2 DEF Read, WaitSleeps, Cell!vars, phaseOf
<1>13. QED
  BY <1>3, <1>4, <1>5, <1>6, <1>7, <1>8, <1>9, <1>10, <1>11, <1>12 DEF Work

\* So is every step.
LEMMA NextRefines == IInv /\ [Next]_vars => [Cell!Next]_Cell!vars
<1> SUFFICES ASSUME IInv, [Next]_vars
             PROVE  [Cell!Next]_Cell!vars
  OBVIOUS
<1>1. pc \in [Threads -> Places]
  BY DEF IInv, TypeOK
<1>2. ASSUME NEW t \in Threads, Call(t)
      PROVE  Cell!Next
  <2>1. /\ Phase(t) = "idle" /\ Phase(t)' = "called"
        /\ phaseOf' = [phaseOf EXCEPT ![t] = Phase(t)']
    BY <1>1, <1>2, PhaseStep DEF Call, Phase
  <2>2. Cell!Call(t)
    BY <1>2, <2>1 DEF Call, Cell!Call, phaseOf
  <2>3. QED
    BY <2>2 DEF Cell!Next
<1>3. ASSUME NEW t \in Threads, Enter(t)
      PROVE  UNCHANGED Cell!vars
  <2>1. Phase(t)' = Phase(t) /\ phaseOf' = [phaseOf EXCEPT ![t] = Phase(t)']
    BY <1>1, <1>3, PhaseStep DEF Enter, Lock, WaitWakes, AfterWake, Phase
  <2>2. phaseOf' = phaseOf
    BY <2>1 DEF phaseOf
  <2>3. QED
    BY <1>3, <2>2 DEF Enter, Lock, WaitWakes, Cell!vars, phaseOf
<1>4. CASE UNCHANGED vars
  BY <1>4 DEF vars, Cell!vars, Phase
<1>5. QED
  BY <1>2, <1>3, <1>4, WorkRefines DEF Next

\* Every operation acts on the state at once, as StateCell says, and returns
\* what it says: the state found, or what the handler makes of the arc taken.
THEOREM Refinement == Spec => ImplementsCell
BY InitRefines, NextRefines, Invariance, PTL DEF Spec, ImplementsCell, Cell!Spec
=============================================================================
