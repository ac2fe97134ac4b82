------------------------------ MODULE Monitor ------------------------------
(***************************************************************************)
(* What callers are promised of threads, locks and condition variables: a  *)
(* thread does what it was made for; who has a lock to write has it alone; *)
(* who waits gives it up, has it again on return, and is told whether it   *)
(* was woken or its time was up.                                           *)
(***************************************************************************)
CONSTANTS
  Threads, Errands, NULL

VARIABLES
  errand,       \* what a thread is for, NULL if there is no such thread
  holds,        \* how it has the lock: "no", "read" or "write"
  waits,        \* its wait: "no", "asleep", "signalled", "timed out"
  told          \* what its last wait under the lock returned

monitor_vars == <<errand, holds, waits, told>>

Init ==
  /\ errand = [t \in Threads |-> NULL]
  /\ holds = [t \in Threads |-> "no"]
  /\ waits = [t \in Threads |-> "no"]
  /\ told = [t \in Threads |-> NULL]

Compatible(t, mode) ==
  \A u \in Threads \ {t} : holds[u] # "no" => mode = "read" /\ holds[u] = "read"

Ask(t, e) ==
  /\ errand[t] = NULL
  /\ errand' = [errand EXCEPT ![t] = e]
  /\ UNCHANGED <<holds, waits, told>>

Gone(t) ==
  /\ holds[t] = "no" /\ waits[t] = "no"
  /\ errand' = [errand EXCEPT ![t] = NULL]
  /\ UNCHANGED <<holds, waits, told>>

Enter(t) ==
  /\ errand[t] # NULL /\ holds[t] = "no" /\ waits[t] = "no"
  /\ Compatible(t, errand[t])
  /\ holds' = [holds EXCEPT ![t] = errand[t]]
  /\ UNCHANGED <<errand, waits, told>>

Leave(t) ==
  /\ holds' = [holds EXCEPT ![t] = "no"]
  /\ told' = [told EXCEPT ![t] = NULL]
  /\ UNCHANGED <<errand, waits>>

Sleep(t) ==
  /\ holds[t] = "write"
  /\ holds' = [holds EXCEPT ![t] = "no"]
  /\ waits' = [waits EXCEPT ![t] = "asleep"]
  /\ UNCHANGED <<errand, told>>

Asleep == {t \in Threads : waits[t] = "asleep"}

\* Whoever has the lock wakes one thread or all.
Wake(t) ==
  /\ holds[t] = "write"
  /\ \E chosen \in {{s} : s \in Asleep} \cup {Asleep} :
       waits' = [s \in Threads |-> IF s \in chosen THEN "signalled" ELSE waits[s]]
  /\ UNCHANGED <<errand, holds, told>>

TimeUp(t) ==
  /\ waits[t] = "asleep"
  /\ waits' = [waits EXCEPT ![t] = "timed out"]
  /\ UNCHANGED <<errand, holds, told>>

Return(t) ==
  /\ waits[t] \in {"signalled", "timed out"}
  /\ Compatible(t, "write")
  /\ holds' = [holds EXCEPT ![t] = "write"]
  /\ told' = [told EXCEPT ![t] = waits[t]]
  /\ waits' = [waits EXCEPT ![t] = "no"]
  /\ UNCHANGED errand

Next ==
  \E t \in Threads :
    \/ \E e \in Errands : Ask(t, e)
    \/ Gone(t) \/ Enter(t) \/ Leave(t)
    \/ Sleep(t) \/ Wake(t) \/ TimeUp(t) \/ Return(t)

Spec == Init /\ [][Next]_monitor_vars
=============================================================================
