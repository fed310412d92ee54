---------------------------- MODULE ProbeLedger ----------------------------
(***************************************************************************)
(* The lifetime guard of the provider probe (src/lib/probe/ledger.ts): one *)
(* Redis hash slot that every server instance updates through Lua scripts. *)
(* A script is atomic, so each script is one action; a script that refuses *)
(* without writing is a stuttering step.  The callers (several server      *)
(* instances, each retrying) may run any script at any time with any of    *)
(* the arguments below.  Every script first compares the caller's guard    *)
(* identity and policy hash with the stored ones and refuses on mismatch:  *)
(* the actions are the calls of a caller deployed with the stored policy.  *)
(* A call made inside a run may also be refused by the run's admission     *)
(* keys, which belong to the run index: here such a call just does not     *)
(* take its step.                                                          *)
(***************************************************************************)
EXTENDS Integers, FiniteSets

CONSTANTS Jtis,            \* token ids; an id is derived from its subject
          Responses,       \* provider response hashes
          Digests,         \* settlement digests
          Costs,           \* accounted costs a settlement may carry (nano USD)
          PurposeOf,       \* the purpose claimed by a token
          SubjectOf,       \* the subject a token is issued for
          ActorOf,         \* the actor a token is issued to
          NoJti, NoResponse, NoDigest,
          PolicyLimits,    \* call limits per purpose, for each policy version
          MigrationCalls,  \* calls each policy migration expects to preserve
          GlobalLimit, Reservation, MaxConcurrency,
          TokenTTL, Lease, IssueWindow, ClosesAt,
          MaxNow           \* bound on the clock

Purposes == {"calibration", "baseline", "repair", "revised", "judge"}
Versions == DOMAIN PolicyLimits
Subjects == {SubjectOf[j] : j \in Jtis}
Actors == {ActorOf[j] : j \in Jtis}
SpendCeiling == GlobalLimit * Reservation  \* the assertion that ends policy.ts

SumOf(f) == f["calibration"] + f["baseline"] + f["repair"] + f["revised"] + f["judge"]

ASSUME LedgerAssumption ==
  /\ IsFiniteSet(Jtis)
  /\ Costs \subseteq Nat
  /\ PurposeOf \in [Jtis -> Purposes]
  /\ NoJti \notin Jtis /\ NoResponse \notin Responses
  /\ GlobalLimit \in Nat /\ Reservation \in Nat /\ MaxConcurrency \in Nat
  /\ TokenTTL \in Nat \ {0} /\ Lease \in Nat \ {0} /\ IssueWindow \in Nat \ {0}
  /\ ClosesAt \in Nat /\ MaxNow \in Nat

\* Policy versions are numbered in migration order; a migration keeps every
\* limit at or above the calls it preserves.
ASSUME PolicyAssumption ==
  /\ 1 \in Versions /\ Versions \subseteq Nat
  /\ PolicyLimits \in [Versions -> [Purposes -> Nat]]
  /\ MigrationCalls \in [Versions -> Nat]
  /\ \A v \in Versions : v + 1 \in Versions =>
       MigrationCalls[v] <= PolicyLimits[v + 1]["calibration"]

VARIABLES status,       \* config.status, "missing" before the guard exists
          haltReason,   \* config.halt_reason
          uncertainJti, \* config.uncertain_jti
          policy,       \* config.policy_version and the limits it stands for
          claimed, committed, pending, known, uncertain, knownActual,
          uncertainUpper, lastSequence,  \* the totals hash
          counts,       \* the purpose-counts hash
          lease,        \* the in-flight sorted set: score by token, 0 if absent
          token,        \* state of each authorization
          expires, actual, sequence, response, digest,  \* its other fields
          subject,      \* the subject keys
          provider,     \* the provider-response keys
          issued,       \* the issue-rate hashes
          now           \* Redis TIME, in seconds

totals == <<claimed, committed, pending, known, uncertain, knownActual, uncertainUpper,
            lastSequence>>
config == <<status, haltReason, uncertainJti>>
fields == <<expires, actual, sequence, response, digest>>
vars == <<config, policy, totals, counts, lease, token, fields, subject,
          provider, issued, now>>

Buckets == 0 .. (MaxNow \div IssueWindow)
Bucket == now \div IssueWindow
IssueKeys == Purposes \X Actors \X Buckets
NoHalt == "none"
HaltReasons == {"CONFIG_DRIFT", "COUNTER_DRIFT", "CONFLICTING_SETTLEMENT",
                "DUPLICATE_PROVIDER_RESPONSE", "COST_OVER_RESERVATION",
                "MISSING_INFLIGHT_LEASE"}
TokenStates == {"absent", "ISSUED", "EXPIRED", "IN_FLIGHT", "KNOWN", "UNCERTAIN"}
InFlight == {j \in Jtis : lease[j] # 0}
InState(s) == {j \in Jtis : token[j] = s}
Limit(p) == PolicyLimits[policy][p]

Init ==
  /\ status = "missing" /\ haltReason = NoHalt /\ uncertainJti = NoJti
  /\ policy = 1
  /\ claimed = 0 /\ committed = 0 /\ pending = 0 /\ known = 0 /\ uncertain = 0
  /\ knownActual = 0 /\ uncertainUpper = 0 /\ lastSequence = 0
  /\ counts = [p \in Purposes |-> 0]
  /\ lease = [j \in Jtis |-> 0]
  /\ token = [j \in Jtis |-> "absent"]
  /\ expires = [j \in Jtis |-> 0]
  /\ actual = [j \in Jtis |-> 0]
  /\ sequence = [j \in Jtis |-> 0]
  /\ response = [j \in Jtis |-> NoResponse]
  /\ digest = [j \in Jtis |-> NoDigest]
  /\ subject = [s \in Subjects |-> NoJti]
  /\ provider = [r \in Responses |-> NoJti]
  /\ issued = [key \in IssueKeys |-> 0]
  /\ now = 0

\* INIT_SCRIPT; a second initialization only compares and never writes.
Initialize ==
  /\ status = "missing"
  /\ status' = "open"
  /\ UNCHANGED <<haltReason, uncertainJti, policy, totals, counts, lease, token,
                 fields, subject, provider, issued, now>>

\* ISSUE_SCRIPT.  A subject that already has a token is answered from it or
\* refused: neither writes.
Issue(j) ==
  LET key == <<PurposeOf[j], ActorOf[j], Bucket>> IN
  /\ status = "open"
  /\ now < ClosesAt
  /\ subject[SubjectOf[j]] = NoJti
  /\ issued[key] < Limit(PurposeOf[j])
  /\ subject' = [subject EXCEPT ![SubjectOf[j]] = j]
  /\ token' = [token EXCEPT ![j] = "ISSUED"]
  /\ expires' = [expires EXCEPT ![j] = now + TokenTTL]
  /\ issued' = [issued EXCEPT ![key] = @ + 1]
  /\ UNCHANGED <<config, policy, totals, counts, lease, actual, sequence,
                 response, digest, provider, now>>

Halt(reason) ==
  /\ status' = "halted" /\ haltReason' = reason
  /\ UNCHANGED <<uncertainJti, policy, totals, counts, lease, token, fields,
                 subject, provider, issued, now>>

ConfigDrift == haltReason # NoHalt \/ uncertainJti # NoJti

CounterDrift ==
  \/ committed # claimed * Reservation
  \/ pending + known + uncertain # claimed
  \/ SumOf(counts) # claimed
  \/ lastSequence # claimed
  \/ Cardinality(InFlight) # pending
  \/ knownActual > known * Reservation
  \/ uncertainUpper # uncertain * Reservation
  \/ \E p \in Purposes : counts[p] > Limit(p)

Expired(j) == expires[j] <= now
StaleLease == \E j \in InFlight : lease[j] <= now
\* Faulty variant: the concurrency comparison admits one call too many.
SlotFreeOffByOne == Cardinality(InFlight) <= MaxConcurrency
SlotFree == Cardinality(InFlight) < MaxConcurrency
\* Faulty variant: the purpose limit is compared before the increment.
WithinLimitsOffByOne(p) ==
  /\ claimed + 1 <= GlobalLimit
  /\ counts[p] <= Limit(p)
WithinLimits(p) ==
  /\ claimed + 1 <= GlobalLimit
  /\ counts[p] + 1 <= Limit(p)
  /\ committed + Reservation <= SpendCeiling

Expire(j) ==
  /\ token' = [token EXCEPT ![j] = "EXPIRED"]
  /\ UNCHANGED <<config, policy, totals, counts, lease, fields, subject, provider,
                 issued, now>>

Grant(j) ==
  /\ claimed' = claimed + 1 /\ committed' = committed + Reservation
  /\ pending' = pending + 1 /\ lastSequence' = lastSequence + 1
  /\ counts' = [counts EXCEPT ![PurposeOf[j]] = @ + 1]
  /\ token' = [token EXCEPT ![j] = "IN_FLIGHT"]
  /\ sequence' = [sequence EXCEPT ![j] = lastSequence + 1]
  /\ lease' = [lease EXCEPT ![j] = now + Lease]
  /\ UNCHANGED <<config, policy, known, uncertain, knownActual, uncertainUpper, expires,
                 actual, response, digest, subject, provider, issued, now>>

\* BEGIN_SCRIPT: the one place a provider call is granted.
Begin(j) ==
  /\ status = "open"
  /\ IF ConfigDrift THEN Halt("CONFIG_DRIFT") ELSE
     /\ token[j] = "ISSUED"
     /\ now < ClosesAt
     /\ IF Expired(j) THEN Expire(j) ELSE
        /\ ~StaleLease /\ SlotFree
        /\ IF CounterDrift THEN Halt("COUNTER_DRIFT")
           ELSE WithinLimits(PurposeOf[j]) /\ Grant(j)

Reopened(j) ==
  IF uncertainJti = j /\ status = "quarantined" /\ haltReason = NoHalt
  THEN "open" ELSE status

\* The tail of SETTLE_KNOWN_SCRIPT: move one call's reservation to its cost.
CreditKnown(j, c, r, d) ==
  /\ IF token[j] = "IN_FLIGHT"
     THEN /\ lease' = [lease EXCEPT ![j] = 0]
          /\ pending' = pending - 1
          /\ UNCHANGED <<config, uncertain, uncertainUpper>>
     ELSE /\ uncertain' = uncertain - 1
          /\ uncertainUpper' = uncertainUpper - Reservation
          /\ status' = Reopened(j)
          /\ uncertainJti' = IF uncertainJti = j THEN NoJti ELSE uncertainJti
          /\ UNCHANGED <<haltReason, lease, pending>>
  /\ known' = known + 1 /\ knownActual' = knownActual + c
  /\ provider' = [provider EXCEPT ![r] = j]
  /\ token' = [token EXCEPT ![j] = "KNOWN"]
  /\ actual' = [actual EXCEPT ![j] = c]
  /\ response' = [response EXCEPT ![j] = r]
  /\ digest' = [digest EXCEPT ![j] = d]
  /\ UNCHANGED <<claimed, committed, lastSequence, policy, counts, expires, sequence,
                 subject, issued, now>>

\* SETTLE_KNOWN_SCRIPT, accepted whatever the guard's status is.
SettleKnown(j, c, r, d) ==
  /\ status # "missing"
  /\ \/ token[j] = "KNOWN" /\ digest[j] # d /\ Halt("CONFLICTING_SETTLEMENT")
     \/ /\ token[j] \in {"IN_FLIGHT", "UNCERTAIN"}
        /\ IF provider[r] # NoJti THEN Halt("DUPLICATE_PROVIDER_RESPONSE")
           ELSE IF c > Reservation THEN Halt("COST_OVER_RESERVATION")
           ELSE IF token[j] = "IN_FLIGHT" /\ lease[j] = 0
                THEN Halt("MISSING_INFLIGHT_LEASE")
           ELSE CreditKnown(j, c, r, d)

\* Faulty variant: the call leaves the pending ones but joins no other count.
QuarantineUncounted(j, d) ==
  /\ lease' = [lease EXCEPT ![j] = 0]
  /\ pending' = pending - 1 /\ UNCHANGED <<uncertain, uncertainUpper>>
  /\ status' = "quarantined" /\ uncertainJti' = j
  /\ token' = [token EXCEPT ![j] = "UNCERTAIN"]
  /\ digest' = [digest EXCEPT ![j] = d]
  /\ UNCHANGED <<haltReason, claimed, committed, known, knownActual, lastSequence, policy,
                 counts, expires, actual, sequence, response,
                 subject, provider, issued, now>>

\* Faulty variant: the in-flight lease is not removed.
QuarantineKeepingLease(j, d) ==
  /\ pending' = pending - 1 /\ uncertain' = uncertain + 1
  /\ uncertainUpper' = uncertainUpper + Reservation
  /\ status' = "quarantined" /\ uncertainJti' = j
  /\ token' = [token EXCEPT ![j] = "UNCERTAIN"]
  /\ digest' = [digest EXCEPT ![j] = d]
  /\ UNCHANGED <<haltReason, claimed, committed, known, knownActual, lastSequence, policy,
                 counts, lease, expires, actual, sequence,
                 response, subject, provider, issued, now>>

Quarantine(j, d) ==
  IF lease[j] = 0 THEN Halt("MISSING_INFLIGHT_LEASE") ELSE
  /\ lease' = [lease EXCEPT ![j] = 0]
  /\ pending' = pending - 1 /\ uncertain' = uncertain + 1
  /\ uncertainUpper' = uncertainUpper + Reservation
  /\ status' = "quarantined" /\ uncertainJti' = j
  /\ token' = [token EXCEPT ![j] = "UNCERTAIN"]
  /\ digest' = [digest EXCEPT ![j] = d]
  /\ UNCHANGED <<haltReason, claimed, committed, known, knownActual, lastSequence, policy,
                 counts, expires, actual, sequence, response,
                 subject, provider, issued, now>>

\* SETTLE_UNCERTAIN_SCRIPT; a call already UNCERTAIN is answered without a write.
SettleUncertain(j, d) ==
  /\ status \notin {"missing", "halted"}
  /\ token[j] = "IN_FLIGHT"
  /\ Quarantine(j, d)

\* REAP_SCRIPT: the same move for a call whose lease has run out.
Reap(j, d) ==
  /\ status \notin {"missing", "halted"}
  /\ token[j] = "IN_FLIGHT"
  /\ lease[j] <= now
  /\ Quarantine(j, d)

\* MIGRATE_POLICY_SCRIPT and its successors: a policy is replaced between two
\* attempts, when exactly the expected calibration calls exist and all are known.
MigratePolicy ==
  /\ status = "open"
  /\ ~ConfigDrift
  /\ policy + 1 \in Versions
  /\ now < ClosesAt
  /\ claimed = MigrationCalls[policy]
  /\ pending = 0 /\ uncertain = 0
  /\ counts["calibration"] = claimed
  /\ InFlight = {}
  /\ policy' = policy + 1
  /\ UNCHANGED <<config, totals, counts, lease, token, fields, subject, provider,
                 issued, now>>

Tick ==
  /\ now < MaxNow
  /\ now' = now + 1
  /\ UNCHANGED <<config, policy, totals, counts, lease, token, fields, subject,
                 provider, issued>>

Next ==
  \/ Initialize
  \/ \E j \in Jtis : Issue(j)
  \/ \E j \in Jtis : Begin(j)
  \/ \E j \in Jtis, c \in Costs, r \in Responses, d \in Digests :
       SettleKnown(j, c, r, d)
  \/ \E j \in Jtis, d \in Digests : SettleUncertain(j, d)
  \/ \E j \in Jtis, d \in Digests : Reap(j, d)
  \/ MigratePolicy
  \/ Tick

Spec == Init /\ [][Next]_vars
-----------------------------------------------------------------------------
Dispatched == {j \in Jtis : sequence[j] # 0}

\* Every variable has the type the scripts rely on when they read a field back.
TypeOK ==
  /\ status \in {"missing", "open", "quarantined", "halted"}
  /\ haltReason \in HaltReasons \cup {NoHalt}
  /\ uncertainJti \in Jtis \cup {NoJti}
  /\ policy \in Versions
  /\ claimed \in Nat /\ committed \in Nat /\ pending \in Nat /\ known \in Nat
  /\ uncertain \in Nat /\ knownActual \in Nat /\ uncertainUpper \in Nat
  /\ lastSequence \in Nat
  /\ counts \in [Purposes -> Nat]
  /\ lease \in [Jtis -> Nat]
  /\ token \in [Jtis -> TokenStates]
  /\ expires \in [Jtis -> Nat]
  /\ actual \in [Jtis -> Nat]
  /\ sequence \in [Jtis -> Nat]
  /\ response \in [Jtis -> Responses \cup {NoResponse}]
  /\ digest \in [Jtis -> Digests \cup {NoDigest}]
  /\ subject \in [Subjects -> Jtis \cup {NoJti}]
  /\ provider \in [Responses -> Jtis \cup {NoJti}]
  /\ issued \in [IssueKeys -> Nat]
  /\ now \in Nat

\* The self-checks of BEGIN_SCRIPT and of the settlements guard against storage
\* drift; no legal sequence of script calls may ever trip one of them.
NeverHaltsByDrift ==
  haltReason \notin {"CONFIG_DRIFT", "COUNTER_DRIFT", "MISSING_INFLIGHT_LEASE"}

\* What the guard keeps are its calls, whatever order settlements, late settlements,
\* reaps and migrations come in: each call is counted once, in the state it is in; an
\* open guard has none in doubt, and one that is quarantined knows the one it has, so
\* that a late settlement reopens it only when nothing is left in doubt.
GuardMatchesCalls ==
  /\ pending = Cardinality(InState("IN_FLIGHT"))
  /\ known = Cardinality(InState("KNOWN"))
  /\ uncertain = Cardinality(InState("UNCERTAIN"))
  /\ claimed = Cardinality(Dispatched)
  /\ \A p \in Purposes : counts[p] = Cardinality({j \in Dispatched : PurposeOf[j] = p})
  /\ InFlight = InState("IN_FLIGHT")
  /\ status = "open" => InState("UNCERTAIN") = {}
  /\ status = "quarantined" => InState("UNCERTAIN") = {uncertainJti}

\* What may have been spent - known costs, and a full reservation for every call
\* in flight or in doubt - never exceeds what is committed, and that never exceeds the
\* ceiling, whatever order calls, settlements, reaps and migrations happen in.
SpendIsCapped ==
  /\ knownActual + uncertainUpper + pending * Reservation
       <= committed
  /\ committed <= SpendCeiling
  /\ claimed <= GlobalLimit
  /\ \A p \in Purposes : counts[p] <= Limit(p)

\* The guard implements the call budget: leases, reaping, halts, quarantine and
\* migrations are invisible in what calls are made and what they cost.
Phase == [j \in Jtis |->
  CASE token[j] = "IN_FLIGHT" -> "pending"
    [] token[j] = "UNCERTAIN" -> "doubtful"
    [] token[j] = "KNOWN" -> "settled"
    [] OTHER -> "idle"]
Budget == INSTANCE CallBudget WITH
  Calls <- Jtis, MaxCalls <- GlobalLimit, phase <- Phase, cost <- actual
ImplementsCallBudget == Budget!Spec
=============================================================================
