--------------------------- MODULE OneTimeHandoff ---------------------------
(***************************************************************************)
(* What the handoff ledger promises: a run is tried once, by one context,  *)
(* and its hidden contract is shown to that context only after the trial.  *)
(* A run nobody has taken may be withdrawn and is then never tried.        *)
(***************************************************************************)
EXTENDS Naturals

CONSTANTS Runs, Contexts, NoContext

VARIABLES phase,   \* where the trial of a run is
          owner,   \* the context that took it
          shown    \* runs whose contract was shown

vars == <<phase, owner, shown>>

Phases == {"waiting", "taken", "running", "over", "withdrawn"}

Init ==
  /\ phase = [r \in Runs |-> "waiting"]
  /\ owner = [r \in Runs |-> NoContext]
  /\ shown = {}

Move(r, from, to) ==
  /\ phase[r] = from
  /\ phase' = [phase EXCEPT ![r] = to]

Take(r, c) ==
  /\ Move(r, "waiting", "taken")
  /\ owner' = [owner EXCEPT ![r] = c]
  /\ UNCHANGED shown

Begin(r) == Move(r, "taken", "running") /\ UNCHANGED <<owner, shown>>

Finish(r) == Move(r, "running", "over") /\ UNCHANGED <<owner, shown>>

Withdraw(r) == Move(r, "waiting", "withdrawn") /\ UNCHANGED <<owner, shown>>

Show(r) ==
  /\ phase[r] = "over"
  /\ shown' = shown \cup {r}
  /\ UNCHANGED <<phase, owner>>

Next ==
  \E r \in Runs :
    \/ \E c \in Contexts : Take(r, c)
    \/ Begin(r) \/ Finish(r) \/ Withdraw(r) \/ Show(r)

Spec == Init /\ [][Next]_vars
=============================================================================
