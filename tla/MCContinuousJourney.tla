------------------------ MODULE MCContinuousJourney ------------------------
(* Three runs, the later ones with a second token to seal, and two clicks.  *)
EXTENDS ContinuousJourney, TLC

CONSTANTS a, b1, b2, d1, d2, p, i

MCRunOf == (a :> "A") @@ (b1 :> "B") @@ (b2 :> "B") @@ (d1 :> "D") @@ (d2 :> "D")
MCPlan == <<"A", "B", "D">>
MCVerdictOf == (p :> "pass") @@ (i :> "issue")
=============================================================================
