-------------------------- MODULE OnceOnlyCheckout --------------------------
(***************************************************************************)
(* What the checkout store promises, without queue, trace or callers: an    *)
(* operation identifier is used once in the life of the document, only its  *)
(* use moves the revision, by one, and a checkout waits for a human under   *)
(* the operation that asked for it until another one withdraws it.          *)
(***************************************************************************)
EXTENDS Integers

CONSTANTS Operations, Nothing

VARIABLES consumed,  \* operations used so far
          revision,  \* of the cart
          waiting    \* the operation whose checkout is pending

Init == consumed = {} /\ revision = 0 /\ waiting = Nothing

\* An operation that leaves the cart alone is used up all the same.
Refuse(o) ==
  /\ o \notin consumed
  /\ consumed' = consumed \cup {o}
  /\ UNCHANGED <<revision, waiting>>

Change(o) ==
  /\ o \notin consumed
  /\ consumed' = consumed \cup {o}
  /\ revision' = revision + 1
  /\ \/ waiting = Nothing /\ waiting' \in {Nothing, o}
     \/ waiting # Nothing /\ waiting' = Nothing

Reset == revision' = 0 /\ waiting' = Nothing /\ UNCHANGED consumed

Next == Reset \/ \E o \in Operations : Refuse(o) \/ Change(o)

Spec == Init /\ [][Next]_<<consumed, revision, waiting>>
=============================================================================
