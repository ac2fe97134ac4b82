---------------------------- MODULE BioService ----------------------------
(***************************************************************************)
(* What the block half of the driver promises GEOM, with nothing of how:   *)
(* a bio handed to the strategy routine is either refused or accepted; an  *)
(* accepted bio is answered exactly once, by success or by an error, and   *)
(* the service is never taken down while it owes an answer.                *)
(* BlockQueue (kblock.c) is shown to implement this specification.         *)
(***************************************************************************)
CONSTANT Bios

VARIABLES
  phase,    \* how far each bio has come
  verdict,  \* the answer GEOM was given for it
  up        \* is there a disk behind the service?

vars == <<phase, verdict, up>>

Verdicts == {"success", "failure"}

TypeOK ==
  /\ phase \in [Bios -> {"idle", "issued", "accepted", "answered"}]
  /\ verdict \in [Bios -> Verdicts \cup {"none"}]
  /\ up \in BOOLEAN

Init ==
  /\ phase = [b \in Bios |-> "idle"]
  /\ verdict = [b \in Bios |-> "none"]
  /\ up = FALSE

Move(b, from, to) ==
  /\ phase[b] = from
  /\ phase' = [phase EXCEPT ![b] = to]

BringUp ==
  /\ ~up
  /\ up' = TRUE
  /\ UNCHANGED <<phase, verdict>>

TakeDown ==
  /\ up
  /\ \A b \in Bios : phase[b] # "accepted"
  /\ up' = FALSE
  /\ UNCHANGED <<phase, verdict>>

Issue(b) ==
  /\ up
  /\ Move(b, "idle", "issued")
  /\ UNCHANGED <<verdict, up>>

Accept(b) ==
  /\ up
  /\ Move(b, "issued", "accepted")
  /\ UNCHANGED <<verdict, up>>

\* A request for no data is satisfied at once; a refused one fails.
AnswerEarly(b) ==
  /\ up
  /\ \/ Move(b, "idle", "answered") /\ verdict' = [verdict EXCEPT ![b] = "success"]
     \/ Move(b, "issued", "answered") /\ verdict' = [verdict EXCEPT ![b] = "failure"]
  /\ UNCHANGED up

Answer(b) ==
  /\ up
  /\ Move(b, "accepted", "answered")
  /\ \E v \in Verdicts : verdict' = [verdict EXCEPT ![b] = v]
  /\ UNCHANGED up

Next ==
  \/ BringUp
  \/ TakeDown
  \/ \E b \in Bios : Issue(b) \/ Accept(b) \/ AnswerEarly(b) \/ Answer(b)

\* The safety half of the promise, and the half about time: what was
\* accepted is answered.
SafeSpec == Init /\ [][Next]_vars

Spec == SafeSpec /\ \A b \in Bios : WF_vars(Answer(b))
=============================================================================
