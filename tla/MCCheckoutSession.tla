------------------------- MODULE MCCheckoutSession -------------------------
EXTENDS CheckoutSession, TLC

CONSTANTS r1, r2, r3, a, b, mug, pen

Cmd(tool, op, item, qty, hold, fault) ==
  [tool |-> tool, op |-> op, item |-> item, qty |-> qty, hold |-> hold, fault |-> fault]

MCFixture == (mug :> 2) @@ (pen :> 0)

\* Every tool, an identifier used for two commands, a seeded no-op.
MCCommands ==
  {Cmd("read", NoOp, mug, 0, FALSE, FALSE), Cmd("invalid", NoOp, mug, 0, FALSE, FALSE),
   Cmd("cart_update", a, mug, 1, FALSE, FALSE), Cmd("cart_update", a, mug, 1, FALSE, TRUE),
   Cmd("cart_update", b, pen, 1, FALSE, FALSE),
   Cmd("checkout_request", a, mug, 0, FALSE, FALSE),
   Cmd("checkout_request", b, mug, 0, FALSE, FALSE),
   Cmd("checkout_cancel", b, mug, 0, FALSE, FALSE),
   Cmd("fixture_reset", NoOp, mug, 0, TRUE, FALSE),
   Cmd("fixture_reset", NoOp, mug, 0, FALSE, FALSE)}

=============================================================================
