--------------------------- MODULE MCProbeLedger ---------------------------
(* The guard and two migrations: after the first calibration call, which    *)
(* moves the judge's slot to calibration, and after the second one, with an *)
(* expired token that was never used.                                       *)
EXTENDS PolicyMigration, TLC

CONSTANTS j1, j2, j3

MCPurposeOf == (j1 :> "calibration") @@ (j2 :> "calibration") @@ (j3 :> "calibration")
MCSubjectOf == (j1 :> "case1") @@ (j2 :> "case2") @@ (j3 :> "verdict")
MCActorOf == (j1 :> "actor") @@ (j2 :> "actor") @@ (j3 :> "other")
MCLimits(c, b, j) == [calibration |-> c, baseline |-> b, repair |-> 0,
                      revised |-> 0, judge |-> j]
MCPolicyLimits == <<MCLimits(1, 0, 2), MCLimits(3, 0, 0), MCLimits(3, 0, 0)>>
MCMigrationCalls == <<1, 2, 3>>
MCTombstones == <<0, 1, 0>>
Symmetric == Permutations(Responses) \cup Permutations(Digests) \cup Permutations(Runs)
=============================================================================
