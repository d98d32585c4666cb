------------------------------ MODULE Session -------------------------------
(***************************************************************************)
(* What a run promises, whichever loop makes it: an exchange between the   *)
(* model and its caller's side in which they take turns, the model speaks  *)
(* at most budget times, and which closes exactly once, with an answer     *)
(* that is the model's last turn or with a failure.  Input is anything the *)
(* library says to the model on the caller's behalf: tool results and      *)
(* corrective turns.                                                       *)
(***************************************************************************)
EXTENDS Integers

VARIABLES
  speaker,  \* who spoke last: "caller" while nobody of the run has
  turns,    \* turns of the model in this run
  budget,   \* turns it may take
  verdict   \* "none" before the first run, "open", "answer" or "failure"

vars == <<speaker, turns, budget, verdict>>

Init == speaker = "nobody" /\ turns = 0 /\ budget \in Nat /\ verdict = "none"

Open ==
  /\ verdict # "open"
  /\ verdict' = "open"
  /\ speaker' = "caller"
  /\ turns' = 0
  /\ budget' \in Nat

ModelTurn ==
  /\ verdict = "open"
  /\ speaker \in {"caller", "input"}
  /\ turns < budget
  /\ speaker' = "model"
  /\ turns' = turns + 1
  /\ UNCHANGED <<budget, verdict>>

InputTurn ==
  /\ verdict = "open"
  /\ speaker = "model"
  /\ speaker' = "input"
  /\ UNCHANGED <<turns, budget, verdict>>

Answer ==
  /\ verdict = "open"
  /\ speaker = "model"
  /\ verdict' = "answer"
  /\ speaker' = "nobody"
  /\ UNCHANGED <<turns, budget>>

Fail ==
  /\ verdict = "open"
  /\ verdict' = "failure"
  /\ speaker' = "nobody"
  /\ UNCHANGED <<turns, budget>>

Next == Open \/ ModelTurn \/ InputTurn \/ Answer \/ Fail

Spec == Init /\ [][Next]_vars
=============================================================================
