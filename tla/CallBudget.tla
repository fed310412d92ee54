----------------------------- MODULE CallBudget -----------------------------
(***************************************************************************)
(* What the lifetime guard promises, without tokens, leases, clocks or      *)
(* counters: a bounded number of calls is made one at a time; each ends     *)
(* with a known cost, possibly after having been in doubt, and while one is *)
(* pending or in doubt no other call is made.                               *)
(***************************************************************************)
EXTENDS Integers, FiniteSets

CONSTANTS Calls, MaxCalls, Reservation

VARIABLES phase,  \* phase of each call
          cost    \* its cost once settled

Unsettled == {c \in Calls : phase[c] \in {"pending", "doubtful"}}
Made == {c \in Calls : phase[c] # "idle"}

Init == /\ phase = [c \in Calls |-> "idle"]
        /\ cost = [c \in Calls |-> 0]

Make(c) ==
  /\ phase[c] = "idle"
  /\ Unsettled = {}
  /\ Cardinality(Made) < MaxCalls
  /\ phase' = [phase EXCEPT ![c] = "pending"]
  /\ UNCHANGED cost

Doubt(c) ==
  /\ phase[c] = "pending"
  /\ phase' = [phase EXCEPT ![c] = "doubtful"]
  /\ UNCHANGED cost

Settle(c) ==
  /\ c \in Unsettled
  /\ phase' = [phase EXCEPT ![c] = "settled"]
  /\ \E n \in 0 .. Reservation : cost' = [cost EXCEPT ![c] = n]

Next == \E c \in Calls : Make(c) \/ Doubt(c) \/ Settle(c)

Spec == Init /\ [][Next]_<<phase, cost>>
=============================================================================
