----------------------------- MODULE SloContract -----------------------------
(***************************************************************************)
(* What a provider that propagates a single logout promises the service    *)
(* provider that asked for it, without sessions, bindings, traversals or   *)
(* dumps: a Success is given only when no other provider is waited for,    *)
(* the answer is given once and is final, and it is given.                 *)
(***************************************************************************)
CONSTANT Providers

VARIABLES
  waiting,  \* the providers that have not confirmed the logout
  phase     \* "idle", "serving" a request, or answered: "success" | "other"

vars == <<waiting, phase>>

Init ==
  /\ waiting \in SUBSET Providers
  /\ phase = "idle"

Ask ==
  /\ phase = "idle"
  /\ phase' = "serving"
  /\ UNCHANGED waiting

\* A provider confirms, to a propagated request or by asking itself.
Confirm(p) ==
  /\ phase \in {"idle", "serving"}
  /\ p \in waiting
  /\ waiting' = waiting \ {p}
  /\ UNCHANGED phase

Answer ==
  /\ phase = "serving"
  /\ \/ waiting = {} /\ phase' = "success"
     \/ phase' = "other"
  /\ UNCHANGED waiting

Next == Ask \/ (\E p \in Providers : Confirm(p)) \/ Answer

Safety == Init /\ [][Next]_vars

Spec == Safety /\ WF_vars(Answer)
=============================================================================
