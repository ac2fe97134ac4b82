----------------------------- MODULE StateCell -----------------------------
(***************************************************************************)
(* What a state variable of the porting layer (src/driver/state.c) is to   *)
(* its callers: a cell every operation acts on at once.  A thread that     *)
(* waited for a state, or runs an arc's action, is "holding": the state    *)
(* stays as it is until the thread lets go of it.                          *)
(***************************************************************************)
EXTENDS StateOperations

VARIABLES state, phase, op, answer

vars == <<state, phase, op, answer>>

Init ==
  /\ state \in States
  /\ phase = [t \in Threads |-> "idle"]
  /\ op \in [Threads -> Ops]
  /\ answer = [t \in Threads |-> Value(0)]

\* An operation of t leaves the state v and answers a.
Leaves(t, v, a) == state' = v /\ answer' = [answer EXCEPT ![t] = a]

Gives(t, v, a) == Leaves(t, v, Value(a))

\* A move tells also which state it found.
Tells(t, v, a) == Leaves(t, v, [value |-> a, old_state |-> {state}])

\* What each kind of operation does.
Does(t, o) ==
  \/ o.kind = "set" /\ Gives(t, o.to, state)
  \/ /\ o.kind = "move"
     /\ IF (o.from = {} /\ state # o.to) \/ state \in o.from
          THEN Tells(t, o.to, 1) ELSE Tells(t, state, 0)
  \/ o.kind = "up" /\ Gives(t, Up(state), 0)
  \/ o.kind = "down" /\ Gives(t, Down(state), 0)
  \/ o.kind \in {"in", "peek"} /\ Gives(t, state, Flag(state \in o.from))
  \/ o.kind = "not_in" /\ Gives(t, state, Flag(state \notin o.from))
  \/ o.kind = "wait" /\ state \in o.from /\ Gives(t, state, 0)
  \/ /\ o.kind = "arc"
     /\ \E i \in Taken(o.arcs, state) :
          Gives(t, Target(o.arcs, i, state), Number(o.arcs, i))

Holders == {t \in Threads : phase[t] = "holding"}

Call(t) ==
  /\ phase[t] = "idle"
  /\ phase' = [phase EXCEPT ![t] = "called"]
  /\ \E o \in Ops : op' = [op EXCEPT ![t] = o]
  /\ UNCHANGED <<state, answer>>

\* Comparisons without the lock need not wait for a holder.
Act(t) ==
  /\ phase[t] = "called"
  /\ op[t].kind \notin {"peek", "not_in"} => Holders = {}
  /\ Does(t, op[t])
  /\ phase' = [phase EXCEPT ![t] = IF op[t].kind \in {"wait", "arc"}
                                     THEN "holding" ELSE "idle"]
  /\ op' = op

LetsGo(t) ==
  /\ phase[t] = "holding"
  /\ phase' = [phase EXCEPT ![t] = "idle"]
  /\ UNCHANGED <<state, op>>

\* fio_unlock_state, and the end of a transition that has no handler.
Release(t) ==
  /\ LetsGo(t)
  /\ op[t].kind = "arc" => ~op[t].handler
  /\ answer' = answer

\* The handler has made something else of the number of the arc taken.
Handle(t) ==
  /\ LetsGo(t)
  /\ op[t].kind = "arc" /\ op[t].handler
  /\ \E r \in Handled[answer[t].value] :
       answer' = [answer EXCEPT ![t] = Value(r)]

Next == \E t \in Threads : Call(t) \/ Act(t) \/ Release(t) \/ Handle(t)

Spec == Init /\ [][Next]_vars
=============================================================================
