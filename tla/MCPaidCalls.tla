----------------------------- MODULE MCPaidCalls -----------------------------
(* One Repair call, one successor call and the judge call, two requests at a *)
(* time, on a guard whose other purposes have no calls.                      *)
EXTENDS PaidCalls, TLC

CONSTANTS a, b, p, s

MCPurposeOf == (a :> "judge") @@ (b :> "judge") @@ (p :> "repair") @@ (s :> "revised")
MCSame == [j \in Jtis |-> j]
MCPrimary == [calibration |-> 0, baseline |-> 0, repair |-> 1, revised |-> 1]
MCPolicyLimits == <<[calibration |-> 0, baseline |-> 0, repair |-> 1, revised |-> 1,
                     judge |-> 1]>>
MCMigrationCalls == <<0>>
MCResponses == Jtis \X (1 .. 2)
MCDigests == {<<"known", r>> : r \in Responses}
               \cup {<<"doubt", c>> : c \in {"provider", "failed", "orphan", "operator"}}
=============================================================================
