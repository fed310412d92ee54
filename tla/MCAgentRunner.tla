--------------------------- MODULE MCAgentRunner ---------------------------
(* Two runs compete for one slot; the page of one may be reloaded once, and   *)
(* another browser context asks for whatever it can.                         *)
EXTENDS AgentRunner, TLC

CONSTANTS t, o, c, e, p, i, n, u

MCRunOf == (t :> "A") @@ (o :> "B")
MCVerdictOf == (p :> "pass") @@ (i :> "issue") @@ (n :> "incomplete") @@ (u :> "unavailable")
=============================================================================
