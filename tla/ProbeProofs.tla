---------------------------- MODULE ProbeProofs ----------------------------
(***************************************************************************)
(* Proofs about the probe: the lifetime guard, its policy migrations and    *)
(* the three services that spend through it, for every set of tokens, of    *)
(* requests and of builds, every policy chain and every limit.              *)
(***************************************************************************)
EXTENDS PolicyMigration, PaidCalls, FiniteSetTheorems, TLAPS

-----------------------------------------------------------------------------
(* The lifetime guard. *)

\* A lease is held exactly by the calls in flight, and the counters of the
\* unsettled calls are cardinalities, so that no decrement goes below zero.
Counted ==
  /\ \A j \in Jtis : lease[j] # 0 <=> token[j] = "IN_FLIGHT"
  /\ pending = Cardinality(InState("IN_FLIGHT"))
  /\ uncertain = Cardinality(InState("UNCERTAIN"))

\* The arithmetic relations that BEGIN_SCRIPT compares before it grants.
Conserved ==
  /\ committed = claimed * Reservation
  /\ pending + known + uncertain = claimed
  /\ SumOf(counts) = claimed
  /\ lastSequence = claimed
  /\ knownActual <= known * Reservation
  /\ uncertainUpper = uncertain * Reservation
  /\ claimed <= GlobalLimit
  /\ \A p \in Purposes : counts[p] <= Limit(p)

\* The two markers of the configuration agree with the status.
Marked ==
  /\ status \in {"missing", "open", "quarantined"} => haltReason = NoHalt
  /\ status \in {"missing", "open"} => uncertainJti = NoJti

\* A token is issued only for a subject that has none: its subject then names one.
Bound == \A j \in Jtis : token[j] # "absent" => subject[SubjectOf[j]] # NoJti

\* The inductive invariant.
IInv == TypeOK /\ Bound /\ Counted /\ Conserved /\ Marked /\ NeverHaltsByDrift

-----------------------------------------------------------------------------
LEMMA Multiply ==
  /\ \A a, b \in Nat : a * b \in Nat
  /\ \A a, b \in Nat : (a + 1) * b = a * b + b
  /\ \A a, b \in Nat : (a - 1) * b = a * b - b
  /\ \A a, b, c \in Nat : a <= b => a * c <= b * c
BY Z3

LEMMA ConstantTypes ==
  /\ IsFiniteSet(Jtis) /\ NoJti \notin Jtis /\ NoResponse \notin Responses
  /\ \A j \in Jtis : PurposeOf[j] \in Purposes
  /\ Reservation \in Nat /\ Lease \in Nat \ {0} /\ GlobalLimit \in Nat
  /\ TokenTTL \in Nat
  /\ \A v \in Versions, p \in Purposes : PolicyLimits[v][p] \in Nat
BY LedgerAssumption, PolicyAssumption DEF LedgerAssumption, PolicyAssumption

\* Changing the state of one token moves it from one set of calls to another.
LEMMA StateSetMove ==
  ASSUME token \in [Jtis -> TokenStates], NEW j \in Jtis, NEW s \in TokenStates,
         NEW t \in TokenStates, token' = [token EXCEPT ![j] = t]
  PROVE  /\ Cardinality(InState(s)) \in Nat
         /\ token[j] # s /\ t # s => Cardinality(InState(s))' = Cardinality(InState(s))
         /\ token[j] = s /\ t = s => Cardinality(InState(s))' = Cardinality(InState(s))
         /\ token[j] # s /\ t = s => Cardinality(InState(s))' = Cardinality(InState(s)) + 1
         /\ token[j] = s /\ t # s => Cardinality(InState(s))' = Cardinality(InState(s)) - 1
         /\ token[j] = s => Cardinality(InState(s)) >= 1
<1>1. IsFiniteSet(InState(s))
  BY FS_Subset, ConstantTypes DEF InState
<1>2. Cardinality(InState(s)) \in Nat
  BY <1>1, FS_CardinalityType
<1>3. (token[j] # s <=> t # s) => InState(s)' = InState(s)
  BY DEF InState
<1>4. CASE token[j] # s /\ t = s
  <2>1. InState(s)' = InState(s) \cup {j}
    BY <1>4 DEF InState
  <2>2. j \notin InState(s)
    BY <1>4 DEF InState
  <2> QED BY <1>1, <1>2, <1>4, <2>1, <2>2, FS_AddElement
<1>5. CASE token[j] = s
  <2>1. j \in InState(s)
    BY <1>5 DEF InState
  <2>2. Cardinality(InState(s)) >= 1
    BY <1>1, <1>2, <2>1, FS_EmptySet
  <2>3. t # s => InState(s)' = InState(s) \ {j}
    BY <1>5 DEF InState
  <2> QED BY <1>1, <1>2, <1>3, <1>5, <2>1, <2>2, <2>3, FS_RemoveElement
<1> QED BY <1>2, <1>3, <1>4, <1>5

LEMMA InitInvariant == Init => IInv
<1> SUFFICES ASSUME Init PROVE IInv
  OBVIOUS
<1>1. \A s \in TokenStates \ {"absent"} : InState(s) = {}
  BY DEF InState, TokenStates, Init
<1>2. TypeOK
  BY PolicyAssumption DEF Init, TypeOK, TokenStates, HaltReasons, PolicyAssumption
<1>3. Counted
  BY <1>1, FS_EmptySet DEF Init, Counted, TokenStates
<1>4. Conserved
  <2>1. \A p \in Purposes : Limit(p) \in Nat
    BY <1>2, ConstantTypes DEF Limit, TypeOK
  <2> QED BY <2>1, ConstantTypes DEF Init, Conserved, SumOf, Purposes
<1>5. Bound /\ Marked /\ NeverHaltsByDrift
  BY DEF Init, Bound, Marked, NeverHaltsByDrift, NoHalt
<1> QED BY <1>2, <1>3, <1>4, <1>5 DEF IInv

-----------------------------------------------------------------------------
\* No check of a script against storage drift can fail in a state of IInv.
LEMMA NoDrift ==
  ASSUME IInv
  PROVE  /\ status = "open" => ~ConfigDrift
         /\ ~CounterDrift
         /\ \A j \in Jtis : token[j] = "IN_FLIGHT" => lease[j] # 0
<1>1. InFlight = InState("IN_FLIGHT")
  BY DEF IInv, Counted, InFlight, InState
<1>2. known * Reservation \in Nat /\ \A p \in Purposes : counts[p] \in Nat /\ Limit(p) \in Nat
  BY ConstantTypes, Multiply DEF IInv, TypeOK, Limit
<1>3. ~CounterDrift
  BY <1>1, <1>2 DEF IInv, TypeOK, Counted, Conserved, CounterDrift
<1> QED BY <1>3 DEF IInv, Counted, Marked, ConfigDrift

LEMMA HaltKeepsInvariant ==
  ASSUME IInv, NEW reason \in HaltReasons, Halt(reason),
         reason \notin {"CONFIG_DRIFT", "COUNTER_DRIFT", "MISSING_INFLIGHT_LEASE"}
  PROVE  IInv'
<1>1. TypeOK'
  BY DEF IInv, TypeOK, Halt, totals, fields
<1>2. Counted'
  BY DEF IInv, Counted, Halt, totals, InState
<1>3. Conserved'
  BY DEF IInv, Conserved, Halt, totals, Limit
<1>4. Marked' /\ NeverHaltsByDrift'
  BY DEF IInv, Marked, NeverHaltsByDrift, Halt
<1>5. Bound'
  BY DEF IInv, Bound, Halt
<1> QED BY <1>1, <1>2, <1>3, <1>4, <1>5 DEF IInv

\* Issuing or expiring a token touches no call that was granted.
LEMMA IdleTokenKeepsInvariant ==
  ASSUME IInv, NEW j \in Jtis, NEW t \in TokenStates,
         token[j] \notin {"IN_FLIGHT", "UNCERTAIN"}, t \notin {"IN_FLIGHT", "UNCERTAIN"},
         token' = [token EXCEPT ![j] = t],
         UNCHANGED <<config, policy, totals, counts, lease>>,
         TypeOK', Bound'
  PROVE  IInv'
<1>1. "IN_FLIGHT" \in TokenStates /\ "UNCERTAIN" \in TokenStates
  BY DEF TokenStates
<1>2. token \in [Jtis -> TokenStates]
  BY DEF IInv, TypeOK
<1>3. Cardinality(InState("IN_FLIGHT"))' = Cardinality(InState("IN_FLIGHT"))
      /\ Cardinality(InState("UNCERTAIN"))' = Cardinality(InState("UNCERTAIN"))
  BY <1>1, <1>2, StateSetMove
<1>4. Counted'
  BY <1>2, <1>3 DEF IInv, Counted, totals
<1>5. Conserved'
  BY DEF IInv, Conserved, totals, Limit
<1>6. Marked' /\ NeverHaltsByDrift'
  BY DEF IInv, Marked, NeverHaltsByDrift, config
<1> QED BY <1>4, <1>5, <1>6 DEF IInv

LEMMA GrantKeepsInvariant ==
  ASSUME IInv, NEW j \in Jtis, token[j] = "ISSUED", WithinLimits(PurposeOf[j]), Grant(j)
  PROVE  IInv'
<1> DEFINE p == PurposeOf[j]
<1>1. p \in Purposes
  BY ConstantTypes
<1>2. token \in [Jtis -> TokenStates] /\ "IN_FLIGHT" \in TokenStates /\ "UNCERTAIN" \in TokenStates
  BY DEF IInv, TypeOK, TokenStates
<1>3. now + Lease \in Nat \ {0}
  BY ConstantTypes DEF IInv, TypeOK
<1>4. TypeOK'
  <2>1. claimed' \in Nat /\ committed' \in Nat /\ pending' \in Nat /\ lastSequence' \in Nat
    BY ConstantTypes DEF IInv, TypeOK, Grant
  <2>2. counts' \in [Purposes -> Nat] /\ lease' \in [Jtis -> Nat] /\ sequence' \in [Jtis -> Nat]
        /\ token' \in [Jtis -> TokenStates]
    BY <1>1, <1>2, <1>3 DEF IInv, TypeOK, Grant
  <2> QED BY <2>1, <2>2 DEF IInv, TypeOK, Grant, config
<1>5. Counted'
  <2>1. Cardinality(InState("IN_FLIGHT"))' = Cardinality(InState("IN_FLIGHT")) + 1
        /\ Cardinality(InState("UNCERTAIN"))' = Cardinality(InState("UNCERTAIN"))
    BY <1>2, StateSetMove DEF Grant
  <2>2. \A k \in Jtis : (lease'[k] # 0) <=> (token'[k] = "IN_FLIGHT")
    BY <1>2, <1>3 DEF IInv, Counted, TypeOK, Grant
  <2> QED BY <2>1, <2>2 DEF IInv, Counted, Grant
<1>6. Conserved'
  <2>1. \A q \in Purposes : counts'[q] = IF q = p THEN counts[q] + 1 ELSE counts[q]
    BY <1>1 DEF IInv, TypeOK, Grant
  <2>2. SumOf(counts') = SumOf(counts) + 1
    BY <1>1, <2>1 DEF SumOf, Purposes, IInv, TypeOK
  <2>3. \A q \in Purposes : counts'[q] <= Limit(q)'
    BY <2>1 DEF IInv, Conserved, WithinLimits, Grant, Limit, TypeOK
  <2>4. (claimed + 1) * Reservation = claimed * Reservation + Reservation
    BY ConstantTypes, Multiply DEF IInv, TypeOK
  <2> QED BY <2>2, <2>3, <2>4 DEF IInv, TypeOK, Conserved, WithinLimits, Grant
<1>7. Marked' /\ NeverHaltsByDrift'
  BY DEF IInv, Marked, NeverHaltsByDrift, Grant, config
<1>8. Bound'
  BY <1>2 DEF IInv, Bound, Grant
<1> QED BY <1>4, <1>5, <1>6, <1>7, <1>8 DEF IInv

LEMMA CreditKeepsInvariant ==
  ASSUME IInv, NEW j \in Jtis, NEW c \in Costs, NEW r \in Responses, NEW d \in Digests,
         token[j] \in {"IN_FLIGHT", "UNCERTAIN"}, c <= Reservation, CreditKnown(j, c, r, d)
  PROVE  IInv'
<1>1. c \in Nat
  BY LedgerAssumption DEF LedgerAssumption
<1>2. token \in [Jtis -> TokenStates] /\ "IN_FLIGHT" \in TokenStates
      /\ "UNCERTAIN" \in TokenStates /\ "KNOWN" \in TokenStates
  BY DEF IInv, TypeOK, TokenStates
<1>3. token' = [token EXCEPT ![j] = "KNOWN"]
  BY DEF CreditKnown
<1>4. (known + 1) * Reservation = known * Reservation + Reservation
      /\ (uncertain - 1) * Reservation = uncertain * Reservation - Reservation
      /\ known * Reservation \in Nat /\ uncertain * Reservation \in Nat
  BY ConstantTypes, Multiply DEF IInv, TypeOK
<1>5. IF token[j] = "IN_FLIGHT"
      THEN /\ pending' = pending - 1 /\ pending >= 1 /\ uncertain' = uncertain
           /\ uncertainUpper' = uncertainUpper
      ELSE /\ uncertain' = uncertain - 1 /\ uncertain >= 1 /\ pending' = pending
           /\ uncertainUpper' = uncertainUpper - Reservation
  BY <1>2, <1>3, StateSetMove DEF CreditKnown, IInv, Counted
<1>6. TypeOK'
  <2>1. known' \in Nat /\ knownActual' \in Nat /\ pending' \in Nat /\ uncertain' \in Nat
    BY <1>1, <1>5 DEF IInv, TypeOK, CreditKnown
  <2>2. uncertainUpper' \in Nat
    <3>1. uncertain >= 1 => (uncertain - 1) * Reservation \in Nat
      <4>1. uncertain >= 1 => uncertain - 1 \in Nat
        BY DEF IInv, TypeOK
      <4> QED BY <4>1, ConstantTypes, Multiply
    <3> QED BY <1>4, <1>5, <3>1 DEF IInv, TypeOK, Conserved
  <2>3. lease' \in [Jtis -> Nat] /\ token' \in [Jtis -> TokenStates]
        /\ actual' \in [Jtis -> Nat] /\ response' \in [Jtis -> Responses \cup {NoResponse}]
        /\ digest' \in [Jtis -> Digests \cup {NoDigest}]
        /\ provider' \in [Responses -> Jtis \cup {NoJti}]
    BY <1>1, <1>2 DEF IInv, TypeOK, CreditKnown
  <2>4. status' \in {"missing", "open", "quarantined", "halted"}
        /\ haltReason' \in HaltReasons \cup {NoHalt} /\ uncertainJti' \in Jtis \cup {NoJti}
    BY DEF IInv, TypeOK, CreditKnown, Reopened, config
  <2> QED BY <2>1, <2>2, <2>3, <2>4 DEF IInv, TypeOK, CreditKnown
<1>7. Counted'
  <2>1. /\ Cardinality(InState("IN_FLIGHT"))' = pending'
        /\ Cardinality(InState("UNCERTAIN"))' = uncertain'
    BY <1>2, <1>3, <1>5, StateSetMove DEF IInv, Counted
  <2>2. \A k \in Jtis : (lease'[k] # 0) <=> (token'[k] = "IN_FLIGHT")
    BY <1>2, <1>3 DEF IInv, Counted, TypeOK, CreditKnown
  <2> QED BY <2>1, <2>2 DEF Counted
<1>8. Conserved'
  <2>1. known' = known + 1 /\ knownActual' = knownActual + c /\ counts' = counts
        /\ claimed' = claimed /\ committed' = committed /\ lastSequence' = lastSequence
        /\ policy' = policy
    BY DEF CreditKnown
  <2>2. \A q \in Purposes : counts'[q] <= Limit(q)'
    BY <2>1 DEF IInv, Conserved, Limit
  <2>3. pending' + known' + uncertain' = claimed'
    BY <1>5, <2>1 DEF IInv, TypeOK, Conserved
  <2>4. knownActual' <= known' * Reservation
    BY <1>1, <1>4, <2>1, ConstantTypes DEF IInv, TypeOK, Conserved
  <2>5. uncertainUpper' = uncertain' * Reservation
    BY <1>4, <1>5 DEF IInv, Conserved
  <2> QED BY <2>1, <2>2, <2>3, <2>4, <2>5 DEF IInv, Conserved
<1>9. Marked' /\ NeverHaltsByDrift'
  BY ConstantTypes DEF IInv, TypeOK, Marked, NeverHaltsByDrift, CreditKnown, Reopened, config
<1>10. Bound'
  BY <1>2, <1>3 DEF IInv, Bound, CreditKnown
<1> QED BY <1>6, <1>7, <1>8, <1>9, <1>10 DEF IInv

LEMMA QuarantineKeepsInvariant ==
  ASSUME IInv, NEW j \in Jtis, NEW d \in Digests, status \notin {"missing", "halted"},
         token[j] = "IN_FLIGHT", Quarantine(j, d)
  PROVE  IInv'
<1>1. token \in [Jtis -> TokenStates] /\ "IN_FLIGHT" \in TokenStates /\ "UNCERTAIN" \in TokenStates
  BY DEF IInv, TypeOK, TokenStates
<1>2. lease[j] # 0
  BY NoDrift
<1>3. token' = [token EXCEPT ![j] = "UNCERTAIN"] /\ pending' = pending - 1
      /\ uncertain' = uncertain + 1 /\ uncertainUpper' = uncertainUpper + Reservation
  BY <1>2 DEF Quarantine
<1>4. Counted'
  <2>1. Cardinality(InState("IN_FLIGHT"))' = pending' /\ Cardinality(InState("UNCERTAIN"))' = uncertain'
    BY <1>1, <1>3, StateSetMove DEF IInv, Counted
  <2>2. \A k \in Jtis : (lease'[k] # 0) <=> (token'[k] = "IN_FLIGHT")
    BY <1>1, <1>2, <1>3 DEF IInv, Counted, TypeOK, Quarantine
  <2> QED BY <2>1, <2>2 DEF Counted
<1>5. TypeOK'
  <2>1. pending >= 1
    BY <1>1, <1>3, StateSetMove DEF IInv, Counted
  <2>2. pending' \in Nat /\ uncertain' \in Nat /\ uncertainUpper' \in Nat
    BY <1>3, <2>1, ConstantTypes DEF IInv, TypeOK
  <2>3. lease' \in [Jtis -> Nat] /\ token' \in [Jtis -> TokenStates]
        /\ digest' \in [Jtis -> Digests \cup {NoDigest}]
    BY <1>1, <1>2, <1>3 DEF IInv, TypeOK, Quarantine
  <2> QED BY <1>2, <2>2, <2>3 DEF IInv, TypeOK, Quarantine
<1>6. Conserved'
  <2>1. (uncertain + 1) * Reservation = uncertain * Reservation + Reservation
    BY ConstantTypes, Multiply DEF IInv, TypeOK
  <2>2. \A q \in Purposes : counts'[q] <= Limit(q)'
    BY <1>2 DEF IInv, Conserved, Limit, Quarantine
  <2> QED BY <1>2, <1>3, <2>1, <2>2 DEF IInv, TypeOK, Conserved, Quarantine
<1>7. Marked' /\ NeverHaltsByDrift'
  BY <1>2 DEF IInv, TypeOK, Marked, NeverHaltsByDrift, Quarantine
<1>8. Bound'
  BY <1>1, <1>2, <1>3 DEF IInv, Bound, Quarantine
<1> QED BY <1>4, <1>5, <1>6, <1>7, <1>8 DEF IInv

LEMMA MigrationKeepsInvariant == IInv /\ MigratePolicy => IInv'
<1> SUFFICES ASSUME IInv, MigratePolicy PROVE IInv'
  OBVIOUS
<1>1. TypeOK'
  BY DEF IInv, TypeOK, MigratePolicy, config, totals, fields
<1>2. Counted'
  BY DEF IInv, Counted, MigratePolicy, totals, InState
<1>3. Conserved'
  <2>1. \A p \in Purposes : counts[p] <= PolicyLimits[policy + 1][p]
    <3>1. counts["calibration"] = MigrationCalls[policy] /\ policy \in Versions
          /\ policy + 1 \in Versions
      BY DEF MigratePolicy, IInv, TypeOK
    <3>2. counts["calibration"] <= PolicyLimits[policy + 1]["calibration"]
      BY <3>1, PolicyAssumption DEF PolicyAssumption
    <3>3. \A p \in Purposes \ {"calibration"} : counts[p] = 0
      <4>1. \A p \in Purposes : counts[p] \in Nat
        BY DEF IInv, TypeOK
      <4>2. SumOf(counts) = counts["calibration"]
        BY DEF MigratePolicy, IInv, Conserved
      <4> QED BY <4>1, <4>2 DEF SumOf, Purposes
    <3> QED BY <3>1, <3>2, <3>3, ConstantTypes
  <2> QED BY <2>1 DEF IInv, Conserved, Limit, MigratePolicy, totals
<1>4. Marked' /\ NeverHaltsByDrift'
  BY DEF IInv, Marked, NeverHaltsByDrift, MigratePolicy, config
<1>5. Bound'
  BY DEF IInv, Bound, MigratePolicy
<1> QED BY <1>1, <1>2, <1>3, <1>4, <1>5 DEF IInv

-----------------------------------------------------------------------------
LEMMA StepInvariant == IInv /\ [Next]_vars => IInv'
<1> SUFFICES ASSUME IInv, [Next]_vars PROVE IInv'
  OBVIOUS
<1>1. CASE Initialize
  <2>1. TypeOK'
    BY <1>1 DEF IInv, TypeOK, Initialize, totals, fields
  <2>2. Counted' /\ Conserved'
    BY <1>1 DEF IInv, Counted, Conserved, Initialize, totals, InState, Limit
  <2>3. Marked' /\ NeverHaltsByDrift'
    BY <1>1 DEF IInv, Marked, NeverHaltsByDrift, Initialize
  <2>4. Bound'
    BY <1>1 DEF IInv, Bound, Initialize
  <2> QED BY <2>1, <2>2, <2>3, <2>4 DEF IInv
<1>2. ASSUME NEW j \in Jtis, Issue(j) PROVE IInv'
  <2>1. TypeOK'
    <3>1. now + TokenTTL \in Nat
      BY ConstantTypes DEF IInv, TypeOK
    <3>2. issued' \in [IssueKeys -> Nat]
      <4> DEFINE key == <<PurposeOf[j], ActorOf[j], Bucket>>
      <4>1. issued \in [IssueKeys -> Nat] /\ issued' = [issued EXCEPT ![key] = issued[key] + 1]
        BY <1>2 DEF IInv, TypeOK, Issue
      <4>2. \A k \in IssueKeys : issued'[k] = IF k = key THEN issued[key] + 1 ELSE issued[k]
        BY <4>1
      <4>3. \A k \in IssueKeys : issued[k] \in Nat
        BY <4>1
      <4> HIDE DEF key
      <4>4. \A k \in IssueKeys : issued'[k] \in Nat
        BY <4>2, <4>3
      <4> QED BY <4>1, <4>4
    <3>3. token' \in [Jtis -> TokenStates] /\ expires' \in [Jtis -> Nat]
          /\ subject' \in [Subjects -> Jtis \cup {NoJti}]
      BY <1>2, <3>1 DEF IInv, TypeOK, Issue, TokenStates
    <3> QED BY <1>2, <3>2, <3>3 DEF IInv, TypeOK, Issue, totals, config
  <2>2. token[j] \notin {"IN_FLIGHT", "UNCERTAIN"}
    BY <1>2 DEF IInv, Bound, Issue
  <2>3. Bound'
    BY <1>2, ConstantTypes DEF IInv, TypeOK, Bound, Issue, Subjects
  <2> QED
    BY <1>2, <2>1, <2>2, <2>3, IdleTokenKeepsInvariant DEF Issue, TokenStates
<1>3. ASSUME NEW j \in Jtis, Begin(j) PROVE IInv'
  <2>1. status = "open" /\ ~ConfigDrift /\ ~CounterDrift
    BY <1>3, NoDrift DEF Begin
  <2>2. CASE Expired(j)
    <3>1. token[j] = "ISSUED" /\ Expire(j)
      BY <1>3, <2>1, <2>2 DEF Begin
    <3>2. TypeOK'
      BY <3>1 DEF IInv, TypeOK, Expire, TokenStates, config, totals, fields
    <3>3. Bound'
      BY <3>1 DEF IInv, TypeOK, Bound, Expire
    <3> QED BY <3>1, <3>2, <3>3, IdleTokenKeepsInvariant DEF Expire, TokenStates
  <2>3. CASE ~Expired(j)
    BY <1>3, <2>1, <2>3, GrantKeepsInvariant DEF Begin
  <2> QED BY <2>2, <2>3
<1>4. ASSUME NEW j \in Jtis, NEW c \in Costs, NEW r \in Responses, NEW d \in Digests,
             SettleKnown(j, c, r, d)
      PROVE  IInv'
  <2>1. \A reason \in {"CONFLICTING_SETTLEMENT", "DUPLICATE_PROVIDER_RESPONSE",
                       "COST_OVER_RESERVATION"} : Halt(reason) => IInv'
    BY HaltKeepsInvariant DEF HaltReasons
  <2>2. token[j] = "IN_FLIGHT" => lease[j] # 0
    BY NoDrift
  <2>3. CASE token[j] = "KNOWN"
    BY <1>4, <2>1, <2>3 DEF SettleKnown
  <2>4. CASE token[j] \in {"IN_FLIGHT", "UNCERTAIN"} /\ provider[r] = NoJti /\ ~(c > Reservation)
    <3>1. c <= Reservation
      BY <2>4, ConstantTypes, LedgerAssumption DEF LedgerAssumption
    <3>2. CreditKnown(j, c, r, d)
      BY <1>4, <2>2, <2>4 DEF SettleKnown
    <3> QED BY <2>4, <3>1, <3>2, CreditKeepsInvariant
  <2> QED BY <1>4, <2>1, <2>3, <2>4 DEF SettleKnown
<1>5. ASSUME NEW j \in Jtis, NEW d \in Digests, SettleUncertain(j, d) \/ Reap(j, d)
      PROVE  IInv'
  BY <1>5, QuarantineKeepsInvariant DEF SettleUncertain, Reap
<1>6. CASE MigratePolicy
  BY <1>6, MigrationKeepsInvariant
<1>7. CASE Tick
  <2>1. TypeOK'
    BY <1>7 DEF IInv, TypeOK, Tick, config, totals, fields
  <2>2. Counted' /\ Conserved'
    BY <1>7 DEF IInv, Counted, Conserved, Tick, totals, InState, Limit
  <2>3. Marked' /\ NeverHaltsByDrift'
    BY <1>7 DEF IInv, Marked, NeverHaltsByDrift, Tick, config
  <2>4. Bound'
    BY <1>7 DEF IInv, Bound, Tick
  <2> QED BY <2>1, <2>2, <2>3, <2>4 DEF IInv
<1>8. CASE UNCHANGED vars
  <2>1. TypeOK'
    BY <1>8 DEF IInv, TypeOK, vars, config, totals, fields
  <2>2. Counted' /\ Conserved'
    BY <1>8 DEF IInv, Counted, Conserved, vars, totals, InState, Limit
  <2>3. Marked' /\ NeverHaltsByDrift'
    BY <1>8 DEF IInv, Marked, NeverHaltsByDrift, vars, config
  <2>4. Bound'
    BY <1>8 DEF IInv, Bound, vars
  <2> QED BY <2>1, <2>2, <2>3, <2>4 DEF IInv
<1> QED
  BY <1>1, <1>2, <1>3, <1>4, <1>5, <1>6, <1>7, <1>8 DEF Next

LEMMA InvariantHolds == Spec => []IInv
BY InitInvariant, StepInvariant, PTL DEF Spec

\* Type correctness: no counter a script decrements ever goes below zero.
THEOREM TypeCorrect == Spec => []TypeOK
BY InvariantHolds, PTL DEF IInv

\* The drift checks of the scripts never fire, whatever the callers do.
THEOREM NeverDrifts == Spec => []NeverHaltsByDrift
BY InvariantHolds, PTL DEF IInv

LEMMA CapFollows == IInv => SpendIsCapped
<1> SUFFICES ASSUME IInv PROVE SpendIsCapped
  OBVIOUS
<1>1. /\ pending \in Nat /\ known \in Nat /\ uncertain \in Nat /\ claimed \in Nat
      /\ knownActual \in Nat /\ Reservation \in Nat /\ GlobalLimit \in Nat
  BY ConstantTypes DEF IInv, TypeOK
<1>2. claimed * Reservation
        = known * Reservation + uncertain * Reservation + pending * Reservation
  <2>1. claimed = pending + known + uncertain
    BY DEF IInv, Conserved
  <2> QED BY <1>1, <2>1, Z3
<1>3. claimed * Reservation <= SpendCeiling
  BY <1>1, Multiply DEF IInv, Conserved, SpendCeiling
<1>4. known * Reservation \in Nat /\ uncertain * Reservation \in Nat
      /\ pending * Reservation \in Nat /\ claimed * Reservation \in Nat
  BY <1>1, Multiply
<1>5. knownActual + uncertainUpper + pending * Reservation <= committed
  BY <1>1, <1>2, <1>4 DEF IInv, Conserved
<1> QED BY <1>3, <1>5 DEF IInv, Conserved, SpendIsCapped

\* What may have been spent stays within the committed reservations, and those
\* within the lifetime ceiling; every purpose stays within its allocation.
THEOREM SpendCapped == Spec => []SpendIsCapped
<1> QED BY CapFollows, InvariantHolds, PTL

-----------------------------------------------------------------------------
(* One call at a time: with the concurrency of policy.ts the guard's fields *)
(* are exactly its calls, and it implements the abstract call budget.       *)

\* A call has a sequence number once it was granted, and the counters that are never
\* decremented are cardinalities as well.
DispatchedFor(p) == {j \in Dispatched : PurposeOf[j] = p}
Tallied ==
  /\ \A j \in Jtis : sequence[j] # 0 <=> token[j] \in {"IN_FLIGHT", "KNOWN", "UNCERTAIN"}
  /\ known = Cardinality(InState("KNOWN"))
  /\ claimed = Cardinality(Dispatched)
  /\ \A p \in Purposes : counts[p] = Cardinality(DispatchedFor(p))

\* At most one call is unsettled, and the status tells whether it is in doubt.
Serial ==
  /\ pending + uncertain <= 1
  /\ status \in {"missing", "open"} => uncertain = 0
  /\ status = "quarantined" => uncertainJti \in InState("UNCERTAIN")

BInv == IInv /\ Tallied /\ Serial

-----------------------------------------------------------------------------
LEMMA FiniteSets ==
  /\ \A s \in TokenStates : IsFiniteSet(InState(s))
  /\ IsFiniteSet(Dispatched) /\ \A p \in Purposes : IsFiniteSet(DispatchedFor(p))
BY FS_Subset, ConstantTypes DEF InState, Dispatched, DispatchedFor

LEMMA BudgetInit == Init => BInv
<1> SUFFICES ASSUME Init PROVE BInv
  OBVIOUS
<1>1. InState("KNOWN") = {} /\ Dispatched = {} /\ \A p \in Purposes : DispatchedFor(p) = {}
  BY DEF Init, InState, Dispatched, DispatchedFor
<1>2. Tallied
  BY <1>1, FS_EmptySet DEF Init, Tallied
<1> QED BY <1>2, InitInvariant DEF BInv, Init, Serial

\* A step that leaves the calls, the totals and the configuration alone.
LEMMA QuietStep ==
  ASSUME BInv, IInv',
         \A j \in Jtis : token'[j] = token[j] \/ {token[j], token'[j]} \subseteq {"absent", "ISSUED", "EXPIRED"},
         UNCHANGED <<sequence, counts, claimed, pending, known, uncertain>>,
         \/ UNCHANGED <<status, uncertainJti>>
         \/ status' = "halted"
         \/ status = "missing" /\ status' = "open"
  PROVE  BInv'
<1>1. Dispatched' = Dispatched /\ \A p \in Purposes : DispatchedFor(p)' = DispatchedFor(p)
  BY DEF Dispatched, DispatchedFor
<1>2. InState("KNOWN")' = InState("KNOWN") /\ InState("UNCERTAIN")' = InState("UNCERTAIN")
  BY DEF InState
<1>3. Tallied'
  <2>1. \A j \in Jtis : sequence'[j] # 0 <=> token'[j] \in {"IN_FLIGHT", "KNOWN", "UNCERTAIN"}
    <3> SUFFICES ASSUME NEW j \in Jtis
                 PROVE  sequence'[j] # 0 <=> token'[j] \in {"IN_FLIGHT", "KNOWN", "UNCERTAIN"}
      OBVIOUS
    <3>1. sequence'[j] = sequence[j]
      OBVIOUS
    <3>2. sequence[j] # 0 <=> token[j] \in {"IN_FLIGHT", "KNOWN", "UNCERTAIN"}
      BY DEF BInv, Tallied
    <3> QED BY <3>1, <3>2
  <2> QED BY <1>1, <1>2, <2>1 DEF BInv, Tallied
<1>4. Serial'
  BY <1>2 DEF BInv, Serial
<1> QED BY <1>3, <1>4 DEF BInv

LEMMA GrantTallied ==
  ASSUME BInv, NEW j \in Jtis, token[j] = "ISSUED", Grant(j)
  PROVE  Tallied'
<1> DEFINE p == PurposeOf[j]
<1>1. /\ sequence[j] = 0 /\ lastSequence \in Nat /\ sequence \in [Jtis -> Nat]
      /\ token \in [Jtis -> TokenStates] /\ counts \in [Purposes -> Nat] /\ p \in Purposes
  BY ConstantTypes DEF BInv, Tallied, IInv, TypeOK
<1>2. \A k \in Jtis : /\ sequence'[k] = IF k = j THEN lastSequence + 1 ELSE sequence[k]
                      /\ token'[k] = IF k = j THEN "IN_FLIGHT" ELSE token[k]
  BY <1>1 DEF Grant
<1>3. Dispatched' = Dispatched \cup {j} /\ j \notin Dispatched
  BY <1>1, <1>2 DEF Dispatched
<1>4. DispatchedFor(p)' = DispatchedFor(p) \cup {j} /\ j \notin DispatchedFor(p)
  BY <1>3 DEF DispatchedFor
<1>5. \A q \in Purposes \ {p} : DispatchedFor(q)' = DispatchedFor(q)
  BY <1>3 DEF DispatchedFor
<1>6. InState("KNOWN")' = InState("KNOWN") /\ known' = known
  BY <1>1, <1>2 DEF InState, Grant
<1>7. Cardinality(Dispatched)' = Cardinality(Dispatched) + 1
  BY <1>3, FiniteSets, FS_AddElement
<1>8. Cardinality(DispatchedFor(p))' = Cardinality(DispatchedFor(p)) + 1
  <2>1. IsFiniteSet(DispatchedFor(p))
    BY <1>1, FiniteSets
  <2> QED BY <1>4, <2>1, FS_AddElement
<1>9. \A q \in Purposes : counts'[q] = IF q = p THEN counts[q] + 1 ELSE counts[q]
  BY <1>1 DEF Grant
<1>10. \A q \in Purposes : counts'[q] = Cardinality(DispatchedFor(q))'
  BY <1>1, <1>5, <1>8, <1>9 DEF BInv, Tallied
<1>11. claimed' = Cardinality(Dispatched)'
  BY <1>7 DEF BInv, Tallied, Grant
<1>12. \A k \in Jtis : sequence'[k] # 0 <=> token'[k] \in {"IN_FLIGHT", "KNOWN", "UNCERTAIN"}
  BY <1>1, <1>2 DEF BInv, Tallied
<1> QED BY <1>6, <1>10, <1>11, <1>12 DEF BInv, Tallied

\* Ending a call, with a cost or in doubt, makes no call and takes none back.
LEMMA EndTallied ==
  ASSUME BInv, NEW j \in Jtis, token[j] \in {"IN_FLIGHT", "UNCERTAIN"},
         NEW t \in {"KNOWN", "UNCERTAIN"}, token' = [token EXCEPT ![j] = t],
         known' = IF t = "KNOWN" THEN known + 1 ELSE known,
         UNCHANGED <<sequence, counts, claimed>>
  PROVE  Tallied'
<1>1. token \in [Jtis -> TokenStates] /\ "KNOWN" \in TokenStates /\ "UNCERTAIN" \in TokenStates
  BY DEF BInv, IInv, TypeOK, TokenStates
<1>2. Dispatched' = Dispatched /\ \A p \in Purposes : DispatchedFor(p)' = DispatchedFor(p)
  BY DEF Dispatched, DispatchedFor
<1>3. known' = Cardinality(InState("KNOWN"))'
  BY <1>1, StateSetMove DEF BInv, Tallied
<1>4. \A k \in Jtis : sequence'[k] # 0 <=> token'[k] \in {"IN_FLIGHT", "KNOWN", "UNCERTAIN"}
  <2> SUFFICES ASSUME NEW k \in Jtis
               PROVE  sequence'[k] # 0 <=> token'[k] \in {"IN_FLIGHT", "KNOWN", "UNCERTAIN"}
    OBVIOUS
  <2>1. sequence[k] # 0 <=> token[k] \in {"IN_FLIGHT", "KNOWN", "UNCERTAIN"}
    BY DEF BInv, Tallied
  <2>2. token'[k] = IF k = j THEN t ELSE token[k]
    BY <1>1
  <2> QED BY <2>1, <2>2
<1> QED BY <1>2, <1>3, <1>4 DEF BInv, Tallied

\* Where one call is unsettled it is the only one of its state.
LEMMA OnlyOne ==
  ASSUME BInv, NEW j \in Jtis, NEW k \in Jtis,
         token[j] \in {"IN_FLIGHT", "UNCERTAIN"}, token[k] \in {"IN_FLIGHT", "UNCERTAIN"}
  PROVE  j = k
<1> SUFFICES ASSUME j # k PROVE FALSE
  OBVIOUS
<1>1. "IN_FLIGHT" \in TokenStates /\ "UNCERTAIN" \in TokenStates
  BY DEF TokenStates
<1>2. Cardinality(InState("IN_FLIGHT")) + Cardinality(InState("UNCERTAIN")) <= 1
  BY DEF BInv, Serial, IInv, Counted
<1>3. ASSUME NEW s \in {"IN_FLIGHT", "UNCERTAIN"}, token[j] = s, token[k] = s PROVE FALSE
  <2>1. Cardinality({j, k}) = 2
    <3>1. Cardinality({j}) = 1 /\ IsFiniteSet({j})
      BY FS_Singleton
    <3>2. {j, k} = {j} \cup {k} /\ k \notin {j}
      OBVIOUS
    <3> QED BY <3>1, <3>2, FS_AddElement
  <2>2. {j, k} \in SUBSET InState(s)
    BY <1>3 DEF InState
  <2>3. Cardinality({j, k}) <= Cardinality(InState(s))
    BY <1>1, <2>2, FiniteSets, FS_Subset
  <2>4. Cardinality(InState("IN_FLIGHT")) \in Nat /\ Cardinality(InState("UNCERTAIN")) \in Nat
    BY <1>1, FiniteSets, FS_CardinalityType
  <2> QED BY <1>2, <2>1, <2>3, <2>4
<1>4. ASSUME NEW a \in Jtis, NEW b \in Jtis, token[a] = "IN_FLIGHT", token[b] = "UNCERTAIN" PROVE FALSE
  <2>1. a \in InState("IN_FLIGHT") /\ b \in InState("UNCERTAIN")
    BY <1>4 DEF InState
  <2>2. Cardinality(InState("IN_FLIGHT")) \in Nat \ {0} /\ Cardinality(InState("UNCERTAIN")) \in Nat \ {0}
    BY <1>1, <2>1, FiniteSets, FS_CardinalityType, FS_EmptySet
  <2> QED BY <1>2, <2>2
<1> QED BY <1>3, <1>4

\* A grant is the one unsettled call.
LEMMA GrantSerial ==
  ASSUME BInv, MaxConcurrency <= 1, NEW j \in Jtis, status = "open",
         ~ConfigDrift, SlotFree, Grant(j)
  PROVE  Serial' /\ pending = 0 /\ uncertain = 0
<1>1. InFlight = InState("IN_FLIGHT")
  BY DEF BInv, IInv, Counted, InFlight, InState
<1>2. pending = 0
  <2>1. pending = Cardinality(InFlight) /\ pending \in Nat
    BY <1>1 DEF BInv, IInv, TypeOK, Counted
  <2> QED BY <2>1, LedgerAssumption DEF SlotFree, LedgerAssumption
<1>3. uncertain = 0
  BY DEF BInv, Serial
<1>4. pending' = 1 /\ uncertain' = 0 /\ status' = "open"
  BY <1>2, <1>3 DEF Grant, config
<1> QED BY <1>2, <1>3, <1>4 DEF Serial

LEMMA CreditSerial ==
  ASSUME BInv, NEW j \in Jtis, NEW c \in Costs, NEW r \in Responses, NEW d \in Digests,
         status # "missing", token[j] \in {"IN_FLIGHT", "UNCERTAIN"}, CreditKnown(j, c, r, d)
  PROVE  Serial'
<1>1. /\ pending \in Nat /\ uncertain \in Nat /\ token \in [Jtis -> TokenStates]
      /\ "IN_FLIGHT" \in TokenStates /\ "UNCERTAIN" \in TokenStates /\ "KNOWN" \in TokenStates
  BY DEF BInv, IInv, TypeOK, TokenStates
<1>2. token' = [token EXCEPT ![j] = "KNOWN"]
  BY DEF CreditKnown
<1>3. CASE token[j] = "IN_FLIGHT"
  <2>1. pending >= 1
    BY <1>1, <1>2, <1>3, StateSetMove DEF BInv, IInv, Counted
  <2>2. pending' = pending - 1 /\ uncertain' = uncertain /\ status' = status
        /\ uncertainJti' = uncertainJti
    BY <1>3 DEF CreditKnown, config
  <2>3. status # "quarantined"
    <3> SUFFICES ASSUME status = "quarantined" PROVE FALSE
      OBVIOUS
    <3>1. uncertainJti \in Jtis /\ token[uncertainJti] = "UNCERTAIN"
      BY DEF BInv, Serial, InState
    <3> QED BY <1>3, <3>1, OnlyOne
  <2> QED BY <1>1, <2>1, <2>2, <2>3 DEF BInv, Serial
<1>4. CASE token[j] = "UNCERTAIN"
  <2>1. uncertain >= 1
    BY <1>1, <1>2, <1>4, StateSetMove DEF BInv, IInv, Counted
  <2>2. pending' = pending /\ uncertain' = uncertain - 1 /\ status' = Reopened(j)
    BY <1>4 DEF CreditKnown
  <2>3. status \in {"quarantined", "halted"}
    BY <2>1 DEF BInv, Serial, IInv, TypeOK
  <2>4. status = "quarantined" => uncertainJti = j /\ haltReason = NoHalt
    <3>1. status = "quarantined" => uncertainJti \in Jtis /\ token[uncertainJti] = "UNCERTAIN"
      BY DEF BInv, Serial, InState
    <3> QED BY <1>4, <3>1, OnlyOne DEF BInv, IInv, Marked
  <2>5. status' \in {"open", "halted"}
    BY <2>2, <2>3, <2>4 DEF Reopened
  <2> QED BY <1>1, <2>1, <2>2, <2>5 DEF BInv, Serial
<1> QED BY <1>3, <1>4

LEMMA QuarantineSerial ==
  ASSUME BInv, NEW j \in Jtis, NEW d \in Digests,
         token[j] = "IN_FLIGHT", Quarantine(j, d)
  PROVE  Serial' /\ Tallied'
<1>1. token \in [Jtis -> TokenStates] /\ pending \in Nat /\ uncertain \in Nat
  BY DEF BInv, IInv, TypeOK
<1>2. lease[j] # 0
  BY DEF BInv, IInv, Counted
<1>3. /\ pending' = pending - 1 /\ uncertain' = uncertain + 1 /\ status' = "quarantined"
      /\ uncertainJti' = j /\ token' = [token EXCEPT ![j] = "UNCERTAIN"]
  BY <1>2 DEF Quarantine
<1>4. uncertainJti' \in InState("UNCERTAIN")'
  BY <1>1, <1>3 DEF InState
<1>5. Tallied'
  <2>1. known' = known /\ UNCHANGED <<sequence, counts, claimed>>
    BY <1>2 DEF Quarantine
  <2> QED BY <1>3, <2>1, EndTallied
<1> QED BY <1>1, <1>3, <1>4, <1>5 DEF BInv, Serial

LEMMA BudgetStep ==
  ASSUME MaxConcurrency <= 1, BInv, [Next]_vars
  PROVE  BInv'
<1>1. IInv'
  BY StepInvariant DEF BInv
<1>2. \A j \in Jtis : token[j] = "IN_FLIGHT" => lease[j] # 0
  BY DEF BInv, IInv, Counted
<1>3. ASSUME NEW reason, Halt(reason) PROVE BInv'
  BY <1>1, <1>3, QuietStep DEF Halt, totals, fields
<1>4. CASE Initialize
  BY <1>1, <1>4, QuietStep DEF Initialize, totals, fields
<1>5. ASSUME NEW j \in Jtis, Issue(j) PROVE BInv'
  <2>1. token[j] = "absent"
    BY <1>5 DEF Issue, BInv, IInv, Bound
  <2>2. \A k \in Jtis : token'[k] = IF k = j THEN "ISSUED" ELSE token[k]
    BY <1>5 DEF Issue, BInv, IInv, TypeOK
  <2> QED BY <1>1, <1>5, <2>1, <2>2, QuietStep DEF Issue, totals, config
<1>6. ASSUME NEW j \in Jtis, Begin(j) PROVE BInv'
  <2>1. status = "open" /\ ~ConfigDrift /\ ~CounterDrift /\ token[j] = "ISSUED"
    BY <1>6, NoDrift DEF Begin, BInv
  <2>2. CASE Expire(j)
    <3>1. \A k \in Jtis : token'[k] = IF k = j THEN "EXPIRED" ELSE token[k]
      BY <2>2 DEF Expire, BInv, IInv, TypeOK
    <3> QED BY <1>1, <2>1, <2>2, <3>1, QuietStep DEF Expire, totals, config, fields
  <2>3. CASE SlotFree /\ Grant(j)
    BY <1>1, <2>1, <2>3, GrantTallied, GrantSerial DEF BInv
  <2> QED BY <1>6, <2>1, <2>2, <2>3 DEF Begin
<1>7. ASSUME NEW j \in Jtis, NEW c \in Costs, NEW r \in Responses, NEW d \in Digests,
             SettleKnown(j, c, r, d)
      PROVE  BInv'
  <2>1. CASE token[j] \in {"IN_FLIGHT", "UNCERTAIN"} /\ CreditKnown(j, c, r, d)
    <3>1. Tallied'
      BY <2>1, EndTallied DEF CreditKnown
    <3>2. Serial'
      BY <1>7, <2>1, CreditSerial DEF SettleKnown
    <3> QED BY <1>1, <3>1, <3>2 DEF BInv
  <2> QED BY <1>3, <1>7, <2>1 DEF SettleKnown
<1>8. ASSUME NEW j \in Jtis, NEW d \in Digests, SettleUncertain(j, d) \/ Reap(j, d)
      PROVE  BInv'
  <2>1. token[j] = "IN_FLIGHT" /\ Quarantine(j, d)
    BY <1>8 DEF SettleUncertain, Reap
  <2> QED BY <1>1, <2>1, QuarantineSerial DEF BInv
<1>9. CASE MigratePolicy
  BY <1>1, <1>9, QuietStep DEF MigratePolicy, totals, config, fields
<1>10. CASE Tick
  BY <1>1, <1>10, QuietStep DEF Tick, totals, config, fields
<1>11. CASE UNCHANGED vars
  BY <1>1, <1>11, QuietStep DEF vars, totals, config, fields
<1> QED
  BY <1>4, <1>5, <1>6, <1>7, <1>8, <1>9, <1>10, <1>11 DEF Next

LEMMA BudgetInvariant ==
  ASSUME MaxConcurrency <= 1
  PROVE  Spec => []BInv
<1>1. BInv /\ [Next]_vars => BInv'
  BY BudgetStep
<1> QED BY <1>1, BudgetInit, PTL DEF Spec

LEMMA FieldsAreCalls == BInv => GuardMatchesCalls
<1> SUFFICES ASSUME BInv PROVE GuardMatchesCalls
  OBVIOUS
<1>1. "UNCERTAIN" \in TokenStates
  BY DEF TokenStates
<1>2. uncertain = Cardinality(InState("UNCERTAIN"))
  BY DEF BInv, IInv, Counted
<1>3. status = "open" => InState("UNCERTAIN") = {}
  BY <1>1, <1>2, FiniteSets, FS_EmptySet DEF BInv, Serial
<1>4. status = "quarantined" => InState("UNCERTAIN") = {uncertainJti}
  BY OnlyOne DEF BInv, Serial, InState
<1>5. InFlight = InState("IN_FLIGHT")
  BY DEF BInv, IInv, Counted, InFlight, InState
<1> QED BY <1>2, <1>3, <1>4, <1>5
        DEF BInv, IInv, Counted, Tallied, DispatchedFor, GuardMatchesCalls

\* With the concurrency of policy.ts the guard's fields are exactly its calls: every
\* counter is a cardinality, an open guard has no call in doubt and a quarantined one
\* knows the call it has.
THEOREM GuardIsItsCalls ==
  ASSUME MaxConcurrency <= 1
  PROVE  Spec => []GuardMatchesCalls
BY FieldsAreCalls, BudgetInvariant, PTL
-----------------------------------------------------------------------------
\* The instance has its own copy of Cardinality.
LEMMA SameCardinality == \A S : Budget!Cardinality(S) = Cardinality(S)
BY DEF Budget!Cardinality, Cardinality

LEMMA PhaseInit == Init => Budget!Init
BY DEF Init, Budget!Init, Phase

\* What a change of one token does to its phase; the others keep theirs.
LEMMA PhaseMove ==
  ASSUME token \in [Jtis -> TokenStates], NEW j \in Jtis, NEW t \in TokenStates,
         token' = [token EXCEPT ![j] = t]
  PROVE  Phase' = [Phase EXCEPT ![j] = CASE t = "IN_FLIGHT" -> "pending"
                                         [] t = "UNCERTAIN" -> "doubtful"
                                         [] t = "KNOWN" -> "settled"
                                         [] OTHER -> "idle"]
BY DEF Phase

LEMMA PhaseKept ==
  ASSUME \A j \in Jtis : token'[j] = token[j]
                         \/ {token[j], token'[j]} \subseteq {"absent", "ISSUED", "EXPIRED"},
         UNCHANGED actual
  PROVE  UNCHANGED <<Phase, actual>>
<1>1. \A j \in Jtis : Phase'[j] = Phase[j]
  BY DEF Phase
<1> QED BY <1>1 DEF Phase

\* A grant is a call of the abstract budget: nothing is unsettled, and a call is left.
LEMMA GrantMakes ==
  ASSUME BInv, MaxConcurrency <= 1, NEW j \in Jtis, status = "open", ~ConfigDrift,
         SlotFree, token[j] = "ISSUED", WithinLimits(PurposeOf[j]), Grant(j)
  PROVE  Budget!Make(j)
<1>1. token \in [Jtis -> TokenStates] /\ claimed \in Nat
      /\ "IN_FLIGHT" \in TokenStates /\ "UNCERTAIN" \in TokenStates
  BY DEF BInv, IInv, TypeOK, TokenStates
<1>2. Phase[j] = "idle"
  BY DEF Phase
<1>3. Budget!Unsettled = {}
  <2>1. pending = 0 /\ uncertain = 0
    BY GrantSerial
  <2>2. InState("IN_FLIGHT") = {} /\ InState("UNCERTAIN") = {}
    BY <1>1, <2>1, FiniteSets, FS_EmptySet DEF BInv, IInv, Counted
  <2>3. \A k \in Jtis : token[k] \notin {"IN_FLIGHT", "UNCERTAIN"}
    BY <2>2 DEF InState
  <2> QED BY <2>3 DEF Budget!Unsettled, Phase
<1>4. Budget!Cardinality(Budget!Made) < GlobalLimit
  <2>1. Budget!Made = Dispatched
    <3>1. \A k \in Jtis : Phase[k] # "idle" <=> token[k] \in {"IN_FLIGHT", "KNOWN", "UNCERTAIN"}
      BY DEF Phase
    <3> QED BY <3>1 DEF Budget!Made, Dispatched, BInv, Tallied
  <2>2. claimed + 1 <= GlobalLimit
    BY DEF WithinLimits
  <2> QED BY <1>1, <2>1, <2>2, ConstantTypes, SameCardinality DEF BInv, Tallied
<1>5. Phase' = [Phase EXCEPT ![j] = "pending"]
  BY <1>1, PhaseMove DEF Grant
<1> QED BY <1>2, <1>3, <1>4, <1>5 DEF Budget!Make, Grant

LEMMA CreditSettles ==
  ASSUME BInv, NEW j \in Jtis, NEW c \in Costs, NEW r \in Responses, NEW d \in Digests,
         token[j] \in {"IN_FLIGHT", "UNCERTAIN"}, ~(c > Reservation), CreditKnown(j, c, r, d)
  PROVE  Budget!Settle(j)
<1>1. token \in [Jtis -> TokenStates] /\ "KNOWN" \in TokenStates
  BY DEF BInv, IInv, TypeOK, TokenStates
<1>2. j \in Budget!Unsettled
  BY DEF Budget!Unsettled, Phase
<1>3. c \in 0 .. Reservation
  BY LedgerAssumption DEF LedgerAssumption
<1>4. Phase' = [Phase EXCEPT ![j] = "settled"]
  BY <1>1, PhaseMove DEF CreditKnown
<1>5. actual' = [actual EXCEPT ![j] = c]
  BY DEF CreditKnown
<1> QED BY <1>2, <1>3, <1>4, <1>5 DEF Budget!Settle

LEMMA QuarantineDoubts ==
  ASSUME BInv, NEW j \in Jtis, NEW d \in Digests,
         token[j] = "IN_FLIGHT", Quarantine(j, d)
  PROVE  Budget!Doubt(j)
<1>1. token \in [Jtis -> TokenStates] /\ "UNCERTAIN" \in TokenStates
  BY DEF BInv, IInv, TypeOK, TokenStates
<1>2. lease[j] # 0
  BY DEF BInv, IInv, Counted
<1>3. token' = [token EXCEPT ![j] = "UNCERTAIN"] /\ UNCHANGED actual
  BY <1>2 DEF Quarantine
<1>4. Phase' = [Phase EXCEPT ![j] = "doubtful"]
  BY <1>1, <1>3, PhaseMove
<1> QED BY <1>3, <1>4 DEF Budget!Doubt, Phase

LEMMA PhaseStep ==
  ASSUME MaxConcurrency <= 1, BInv, [Next]_vars
  PROVE  [Budget!Next]_<<Phase, actual>>
<1>1. ASSUME NEW reason, Halt(reason) PROVE UNCHANGED <<Phase, actual>>
  BY <1>1, PhaseKept DEF Halt, fields
<1>2. CASE Initialize \/ MigratePolicy \/ Tick \/ UNCHANGED vars
  BY <1>2, PhaseKept DEF Initialize, MigratePolicy, Tick, vars, fields
<1>3. ASSUME NEW j \in Jtis, Issue(j) PROVE UNCHANGED <<Phase, actual>>
  <2>1. token[j] = "absent"
    BY <1>3 DEF Issue, BInv, IInv, Bound
  <2>2. \A k \in Jtis : token'[k] = IF k = j THEN "ISSUED" ELSE token[k]
    BY <1>3 DEF Issue, BInv, IInv, TypeOK
  <2> QED BY <1>3, <2>1, <2>2, PhaseKept DEF Issue
<1>4. ASSUME NEW j \in Jtis, Begin(j) PROVE [Budget!Next]_<<Phase, actual>>
  <2>1. status = "open" /\ ~ConfigDrift /\ ~CounterDrift /\ token[j] = "ISSUED"
    BY <1>4, NoDrift DEF Begin, BInv
  <2>2. CASE Expire(j)
    <3>1. \A k \in Jtis : token'[k] = IF k = j THEN "EXPIRED" ELSE token[k]
      BY <2>2 DEF Expire, BInv, IInv, TypeOK
    <3> QED BY <2>1, <2>2, <3>1, PhaseKept DEF Expire, fields
  <2>3. CASE SlotFree /\ WithinLimits(PurposeOf[j]) /\ Grant(j)
    BY <2>1, <2>3, GrantMakes DEF Budget!Next
  <2> QED BY <1>4, <2>1, <2>2, <2>3 DEF Begin
<1>5. ASSUME NEW j \in Jtis, NEW c \in Costs, NEW r \in Responses, NEW d \in Digests,
             SettleKnown(j, c, r, d)
      PROVE  [Budget!Next]_<<Phase, actual>>
  <2>1. CASE token[j] \in {"IN_FLIGHT", "UNCERTAIN"} /\ ~(c > Reservation) /\ CreditKnown(j, c, r, d)
    BY <2>1, CreditSettles DEF Budget!Next
  <2> QED BY <1>1, <1>5, <2>1 DEF SettleKnown
<1>6. ASSUME NEW j \in Jtis, NEW d \in Digests, SettleUncertain(j, d) \/ Reap(j, d)
      PROVE  [Budget!Next]_<<Phase, actual>>
  <2>1. token[j] = "IN_FLIGHT" /\ Quarantine(j, d)
    BY <1>6 DEF SettleUncertain, Reap
  <2> QED BY <2>1, QuarantineDoubts DEF Budget!Next
<1> QED BY <1>2, <1>3, <1>4, <1>5, <1>6 DEF Next

\* With the concurrency of policy.ts the guard implements the abstract call budget: calls
\* are made one at a time, within the limit, and none while another is in doubt.
THEOREM ImplementsBudget ==
  ASSUME MaxConcurrency <= 1
  PROVE  Spec => ImplementsCallBudget
<1>1. BInv /\ [Next]_vars => [Budget!Next]_<<Phase, actual>>
  BY PhaseStep
<1> QED BY <1>1, PhaseInit, BudgetInvariant, PTL DEF Spec, ImplementsCallBudget, Budget!Spec

-----------------------------------------------------------------------------
(* Its migrations: what is proved of the guard holds under them, and the   *)
(* receipts keep the history.                                              *)

\* A migration step is a step of the guard, or leaves it alone.
LEMMA GuardStep == [MigrationNext]_all => [Next]_vars
<1> SUFFICES ASSUME [MigrationNext]_all PROVE [Next]_vars
  OBVIOUS
<1>1. ASSUME NEW j \in Jtis, ServeIssue(j) \/ ServeCall(j) PROVE Next
  BY <1>1 DEF ServeIssue, ServeCall, Next
<1>2. CASE ServeOther
  BY <1>2 DEF ServeOther, Next
<1>3. ASSUME NEW b \in Runs, MigrateNew(b) PROVE Next
  BY <1>3 DEF MigrateNew, Next
<1>4. ASSUME NEW b \in Runs,
             \/ \E c \in Commits : ReadStatus(b, c)
             \/ ScanKeys(b) \/ \E j \in Jtis : ReadRecord(b, j)
             \/ MigrateExisting(b) \/ Confirm(b) \/ Stop(b)
      PROVE  UNCHANGED vars
  BY <1>4 DEF ReadStatus, ScanKeys, ReadRecord, MigrateExisting, Confirm, Stop
<1>5. CASE UNCHANGED all
  BY <1>5 DEF all
<1> QED BY <1>1, <1>2, <1>3, <1>4, <1>5 DEF MigrationNext

\* The guard with its migrations is the guard of ProbeLedger: every theorem about its
\* specification holds of this one (MIGRATE_POLICY_*_SCRIPT change no call).
THEOREM MigrationKeepsGuard == MigrationSpec => Spec
<1>1. MigrationInit => Init
  BY DEF MigrationInit
<1> QED BY <1>1, GuardStep, PTL DEF MigrationSpec, Spec

\* The fields of the guard are exactly its calls, whatever migrations run meanwhile.
THEOREM MigratedGuardIsItsCalls ==
  ASSUME MaxConcurrency <= 1
  PROVE  MigrationSpec => []GuardMatchesCalls
BY MigrationKeepsGuard, GuardIsItsCalls, PTL
-----------------------------------------------------------------------------
Stages == [pc : {"scan", "read", "migrated", "done"}, from : Versions, commit : Commits,
           left : SUBSET Jtis, calls : SUBSET CallRecords, tombs : SUBSET Jtis]

\* The types of what ProbeLedger does not have.
Typed ==
  /\ under \in [Jtis -> {0} \cup Versions]
  /\ receipt \in [Versions -> Receipts \cup {NoReceipt}]
  /\ run \in [Runs -> {NotRunning} \cup Stages]

\* Calls are numbered in the order they were made.
Numbered ==
  /\ \A j \in Dispatched : sequence[j] <= claimed
  /\ \A j, k \in Dispatched : sequence[j] = sequence[k] => j = k

\* The calls made before a migration are those of the policies up to its own.
Epochs ==
  /\ \A j \in Jtis : under[j] <= policy
  /\ \A v \in Versions : v < policy =>
       /\ MigrationCalls[v] <= claimed
       /\ \A j \in Dispatched : under[j] <= v <=> sequence[j] <= MigrationCalls[v]

\* The calls a migration of v found.
Before(v) == {j \in Dispatched : sequence[j] <= MigrationCalls[v]}

\* A receipt for every policy left behind, of calls that are final.
Recorded ==
  \A v \in Versions :
    /\ receipt[v] # NoReceipt <=> v < policy
    /\ v < policy => /\ receipt[v].calls = {Call(j) : j \in Before(v)}
                     /\ \A j \in Before(v) : token[j] = "KNOWN"

Confirmed ==
  \A b \in Runs : run[b].pc \in {"migrated", "done"} => receipt[run[b].from] = Manifest(b)

HInv == Typed /\ Numbered /\ Epochs /\ Recorded /\ Confirmed

LEMMA VersionTypes ==
  /\ Versions \subseteq Nat /\ \A v \in Versions : MigrationCalls[v] \in Nat
  /\ 1 \in Versions /\ 0 \notin Versions /\ NoReceipt \notin Receipts
BY PolicyAssumption, ReceiptAssumption, MigrationAssumption
   DEF PolicyAssumption, ReceiptAssumption, MigrationAssumption

LEMMA HistoryInit == MigrationInit => HInv
<1> SUFFICES ASSUME MigrationInit PROVE HInv
  OBVIOUS
<1>1. /\ under = [j \in Jtis |-> 0] /\ receipt = [v \in Versions |-> NoReceipt]
      /\ run = [b \in Runs |-> NotRunning] /\ policy = 1 /\ sequence = [j \in Jtis |-> 0]
  BY DEF MigrationInit, Init
<1>2. Typed
  BY <1>1 DEF Typed
<1>3. Dispatched = {}
  BY <1>1 DEF Dispatched
<1>4. \A v \in Versions : ~(v < 1)
  BY VersionTypes
<1>5. Numbered
  BY <1>3 DEF Numbered
<1>6. Epochs
  BY <1>1, <1>4 DEF Epochs
<1>7. Recorded
  BY <1>1, <1>4 DEF Recorded
<1>8. Confirmed
  BY <1>1 DEF Confirmed, NotRunning
<1> QED BY <1>2, <1>5, <1>6, <1>7, <1>8 DEF HInv

-----------------------------------------------------------------------------
\* What no step of the servers does to a settled call.
Settled == \A k \in Jtis : token[k] = "KNOWN" => token'[k] = "KNOWN" /\ Call(k)' = Call(k)
Quiet == UNCHANGED <<claimed, sequence>> /\ Settled
Granted(j) ==
  /\ token[j] = "ISSUED" /\ sequence[j] = 0 /\ claimed' = claimed + 1
  /\ sequence' = [sequence EXCEPT ![j] = claimed + 1]
  /\ Settled

LEMMA OneMove ==
  ASSUME BInv, NEW j \in Jtis, token[j] # "KNOWN", NEW t, token' = [token EXCEPT ![j] = t],
         \A k \in Jtis \ {j} : /\ sequence'[k] = sequence[k] /\ actual'[k] = actual[k]
                               /\ response'[k] = response[k] /\ digest'[k] = digest[k]
  PROVE  Settled
<1>1. \A k \in Jtis \ {j} : token'[k] = token[k] /\ Call(k)' = Call(k)
  BY DEF BInv, IInv, TypeOK, Call
<1> QED BY <1>1 DEF Settled

LEMMA HaltIsQuiet == ASSUME NEW reason, Halt(reason) PROVE Quiet
BY DEF Halt, Quiet, Settled, Call, totals, fields

LEMMA BeginCalls ==
  ASSUME BInv, NEW j \in Jtis, Begin(j)
  PROVE  Quiet \/ Granted(j)
<1>1. status = "open" /\ ~ConfigDrift /\ ~CounterDrift /\ token[j] = "ISSUED"
  BY NoDrift DEF Begin, BInv
<1>2. sequence[j] = 0 /\ lastSequence = claimed /\ sequence \in [Jtis -> Nat]
  BY <1>1 DEF BInv, Tallied, IInv, Conserved, TypeOK
<1>3. CASE Expire(j)
  <2>1. Settled
    BY <1>1, <1>3, OneMove DEF Expire, fields
  <2> QED BY <1>3, <2>1 DEF Expire, Quiet, totals, fields
<1>4. CASE Grant(j)
  <2>1. Settled
    BY <1>1, <1>2, <1>4, OneMove DEF Grant
  <2> QED BY <1>1, <1>2, <1>4, <2>1 DEF Grant, Granted
<1> QED BY <1>1, <1>3, <1>4 DEF Begin

LEMMA SettleCalls ==
  ASSUME BInv, NEW j \in Jtis, NEW c \in Costs, NEW r \in Responses, NEW d \in Digests,
         SettleKnown(j, c, r, d)
  PROVE  Quiet
<1>1. CASE token[j] \in {"IN_FLIGHT", "UNCERTAIN"} /\ CreditKnown(j, c, r, d)
  <2>1. Settled
    <3>1. /\ token' = [token EXCEPT ![j] = "KNOWN"] /\ UNCHANGED sequence
          /\ \A k \in Jtis \ {j} : /\ actual'[k] = actual[k] /\ response'[k] = response[k]
                                   /\ digest'[k] = digest[k]
      BY <1>1 DEF CreditKnown, BInv, IInv, TypeOK
    <3> QED BY <1>1, <3>1, OneMove
  <2> QED BY <1>1, <2>1 DEF CreditKnown, Quiet
<1> QED BY <1>1, HaltIsQuiet DEF SettleKnown

LEMMA DoubtCalls ==
  ASSUME BInv, NEW j \in Jtis, NEW d \in Digests, SettleUncertain(j, d) \/ Reap(j, d)
  PROVE  Quiet
<1>1. token[j] = "IN_FLIGHT" /\ Quarantine(j, d)
  BY DEF SettleUncertain, Reap
<1>2. lease[j] # 0
  BY <1>1 DEF BInv, IInv, Counted
<1>3. /\ token' = [token EXCEPT ![j] = "UNCERTAIN"] /\ UNCHANGED <<claimed, sequence>>
      /\ UNCHANGED <<actual, response>> /\ \A k \in Jtis \ {j} : digest'[k] = digest[k]
  BY <1>1, <1>2 DEF Quarantine, BInv, IInv, TypeOK
<1> QED BY <1>1, <1>3, OneMove DEF Quiet

LEMMA OtherCalls ==
  ASSUME BInv, Initialize \/ Tick \/ UNCHANGED vars \/ MigratePolicy \/ \E j \in Jtis : Issue(j)
  PROVE  Quiet
<1>1. ASSUME NEW j \in Jtis, Issue(j) PROVE Quiet
  <2>1. token[j] = "absent"
    BY <1>1 DEF Issue, BInv, IInv, Bound
  <2>2. Settled
    BY <1>1, <2>1, OneMove DEF Issue
  <2> QED BY <1>1, <2>2 DEF Issue, Quiet, totals
<1>2. CASE Initialize \/ Tick \/ UNCHANGED vars \/ MigratePolicy
  BY <1>2 DEF Initialize, Tick, vars, MigratePolicy, Quiet, Settled, Call, totals, fields
<1> QED BY <1>1, <1>2
-----------------------------------------------------------------------------
\* The history is untouched by a step that makes no call and keeps policy and receipts.
LEMMA QuietHistory ==
  ASSUME BInv, HInv, Quiet, UNCHANGED <<policy, receipt>>,
         \A j \in Jtis : under'[j] = under[j] \/ (under'[j] = policy /\ sequence[j] = 0)
  PROVE  Numbered' /\ Epochs' /\ Recorded'
<1>1. Dispatched' = Dispatched /\ \A v \in Versions : Before(v)' = Before(v)
  BY DEF Quiet, Dispatched, Before
<1>2. Numbered'
  BY <1>1 DEF HInv, Numbered, Quiet
<1>3. Epochs'
  <2>1. policy \in Nat /\ \A j \in Dispatched : under'[j] = under[j]
    BY VersionTypes DEF BInv, IInv, TypeOK, Dispatched
  <2>2. \A j \in Jtis : under'[j] <= policy'
    BY <2>1 DEF HInv, Epochs
  <2> QED BY <1>1, <2>1, <2>2 DEF HInv, Epochs, Quiet
<1>4. Recorded'
  <2> SUFFICES ASSUME NEW v \in Versions
               PROVE  /\ receipt'[v] # NoReceipt <=> v < policy'
                      /\ v < policy' => /\ receipt'[v].calls = {Call(j)' : j \in Before(v)'}
                                        /\ \A j \in Before(v)' : token'[j] = "KNOWN"
    BY DEF Recorded
  <2>1. v < policy => \A j \in Before(v) : token'[j] = "KNOWN" /\ Call(j)' = Call(j)
    BY DEF HInv, Recorded, Quiet, Settled, Before, Dispatched
  <2>2. v < policy => {Call(j)' : j \in Before(v)'} = {Call(j) : j \in Before(v)}
    BY <1>1, <2>1
  <2> QED BY <1>1, <2>1, <2>2 DEF HInv, Recorded
<1> QED BY <1>2, <1>3, <1>4

\* A grant adds a call later than all those recorded, under the policy of today.
LEMMA GrantHistory ==
  ASSUME BInv, HInv, NEW j \in Jtis, OwnToken(j), Granted(j), UNCHANGED <<policy, receipt, under>>
  PROVE  Numbered' /\ Epochs' /\ Recorded'
<1>1. /\ claimed \in Nat /\ sequence \in [Jtis -> Nat] /\ policy \in Nat
      /\ \A v \in Versions : v \in Nat /\ MigrationCalls[v] \in Nat
  BY VersionTypes DEF BInv, IInv, TypeOK
<1>2. \A k \in Jtis : sequence'[k] = IF k = j THEN claimed + 1 ELSE sequence[k]
  BY <1>1 DEF Granted
<1>3. Dispatched' = Dispatched \cup {j} /\ j \notin Dispatched /\ Dispatched \subseteq Jtis
  BY <1>1, <1>2 DEF Dispatched, Granted
<1>4. \A v \in Versions : v < policy => ~(claimed + 1 <= MigrationCalls[v])
  BY <1>1 DEF HInv, Epochs
<1>5. \A v \in Versions : v < policy => Before(v)' = Before(v)
  BY <1>2, <1>3, <1>4 DEF Before
<1>6. Numbered'
  BY <1>1, <1>2, <1>3 DEF HInv, Numbered, Granted
<1>7. Epochs'
  <2>1. claimed' = claimed + 1 /\ policy' = policy /\ under[j] = policy
    BY DEF Granted, OwnToken
  <2>2. ASSUME NEW v \in Versions, v < policy
        PROVE  /\ MigrationCalls[v] <= claimed'
               /\ \A k \in Dispatched' : under'[k] <= v <=> sequence'[k] <= MigrationCalls[v]
    <3>1. MigrationCalls[v] <= claimed
      BY <2>2 DEF HInv, Epochs
    <3>2. ~(under[j] <= v) /\ ~(sequence'[j] <= MigrationCalls[v])
      BY <1>1, <1>2, <1>4, <2>1, <2>2
    <3>3. \A k \in Dispatched : under[k] <= v <=> sequence[k] <= MigrationCalls[v]
      BY <2>2 DEF HInv, Epochs
    <3> QED BY <1>1, <1>2, <1>3, <2>1, <3>1, <3>2, <3>3
  <2> QED BY <2>1, <2>2 DEF HInv, Epochs
<1>8. Recorded'
  <2> SUFFICES ASSUME NEW v \in Versions
               PROVE  /\ receipt'[v] # NoReceipt <=> v < policy'
                      /\ v < policy' => /\ receipt'[v].calls = {Call(k)' : k \in Before(v)'}
                                        /\ \A k \in Before(v)' : token'[k] = "KNOWN"
    BY DEF Recorded
  <2>1. v < policy => \A k \in Before(v) : token'[k] = "KNOWN" /\ Call(k)' = Call(k)
    BY DEF HInv, Recorded, Granted, Settled, Before, Dispatched
  <2>2. v < policy => {Call(k)' : k \in Before(v)'} = {Call(k) : k \in Before(v)}
    BY <1>5, <2>1
  <2> QED BY <1>5, <2>1, <2>2 DEF HInv, Recorded
<1> QED BY <1>6, <1>7, <1>8

\* What a complete command has read, and the script compared again, is every call.
LEMMA ReadIsAll ==
  ASSUME BInv, HInv, NEW b \in Runs, Complete(b), CoreMatches(run[b].from, run[b].from),
         CallsMatch(run[b].calls)
  PROVE  LET v == run[b].from IN
         /\ v \in Versions /\ v = policy /\ claimed = MigrationCalls[v]
         /\ Before(v) = Dispatched
         /\ run[b].calls = {Call(j) : j \in Before(v)}
         /\ \A j \in Before(v) : token[j] = "KNOWN"
<1> DEFINE v == run[b].from
<1>1. run[b] \in Stages
  BY DEF HInv, Typed, Complete, NotRunning
<1>2. v \in Versions /\ v = policy /\ claimed = MigrationCalls[v] /\ run[b].calls \subseteq CallRecords
  BY <1>1 DEF Stages, CoreMatches
<1>3. Before(v) = Dispatched
  BY <1>2 DEF HInv, Numbered, Before
<1>4. \A call \in run[b].calls : /\ call.jti \in Jtis /\ token[call.jti] = "KNOWN"
                                 /\ call = Call(call.jti) /\ call.sequence = sequence[call.jti]
  BY <1>2 DEF CallsMatch, KnownCall, CallRecords, Call
<1>5. \A call \in run[b].calls : call.jti \in Dispatched
  BY <1>4 DEF BInv, Tallied, Dispatched
<1>6. \A j \in Dispatched : \E call \in run[b].calls : call.jti = j /\ call = Call(j)
  <2> SUFFICES ASSUME NEW j \in Dispatched
               PROVE  \E call \in run[b].calls : call.jti = j /\ call = Call(j)
    OBVIOUS
  <2>1. sequence[j] \in 1 .. MigrationCalls[v]
    <3>1. sequence[j] \in Nat /\ sequence[j] # 0 /\ sequence[j] <= claimed /\ claimed \in Nat
      BY DEF HInv, Numbered, Dispatched, BInv, IInv, TypeOK
    <3> QED BY <1>2, <3>1
  <2>2. PICK call \in run[b].calls : call.sequence = sequence[j]
    BY <2>1 DEF Complete
  <2>3. call.jti = j
    BY <1>4, <1>5, <2>2 DEF HInv, Numbered
  <2> QED BY <1>4, <2>3
<1>7. run[b].calls = {Call(j) : j \in Before(v)}
  <2>1. ASSUME NEW call \in run[b].calls PROVE call \in {Call(j) : j \in Before(v)}
    BY <1>3, <1>4, <1>5
  <2>2. ASSUME NEW j \in Before(v) PROVE Call(j) \in run[b].calls
    BY <1>3, <1>6
  <2> QED BY <2>1, <2>2
<1>8. \A j \in Dispatched : token[j] = "KNOWN"
  BY <1>4, <1>6
<1> QED BY <1>2, <1>3, <1>7, <1>8
-----------------------------------------------------------------------------
\* The types of the command's own state, step by step.
LEMMA ManifestType ==
  ASSUME HInv, NEW b \in Runs, run[b] # NotRunning
  PROVE  Manifest(b) \in Receipts /\ Manifest(b) # NoReceipt /\ run[b].from \in Versions
<1>1. run[b] \in Stages
  BY DEF HInv, Typed
<1>2. Manifest(b) \in Receipts
  BY <1>1 DEF Manifest, Receipts, Stages
<1> QED BY <1>1, <1>2, VersionTypes DEF Stages

LEMMA RunMove ==
  ASSUME HInv, NEW b \in Runs, NEW r \in {NotRunning} \cup Stages, Become(b, r),
         UNCHANGED <<under, receipt>>,
         r.pc \in {"migrated", "done"} =>
           receipt[r.from] = [commit |-> r.commit, calls |-> r.calls, tombs |-> r.tombs]
  PROVE  Typed' /\ Confirmed'
<1>1. \A e \in Runs : run'[e] = IF e = b THEN r ELSE run[e]
  BY DEF HInv, Typed, Become
<1>2. Typed'
  BY DEF HInv, Typed, Become
<1>3. Confirmed'
  <2> SUFFICES ASSUME NEW e \in Runs, run'[e].pc \in {"migrated", "done"}
               PROVE  receipt'[run'[e].from] = Manifest(e)'
    BY DEF Confirmed
  <2>1. CASE e = b
    BY <1>1, <2>1 DEF Manifest
  <2>2. CASE e # b
    BY <1>1, <2>2 DEF HInv, Confirmed, Manifest
  <2> QED BY <2>1, <2>2
<1> QED BY <1>2, <1>3

LEMMA CommandHistory ==
  ASSUME BInv, HInv, NEW b \in Runs,
         \/ \E c \in Commits : ReadStatus(b, c)
         \/ ScanKeys(b) \/ \E j \in Jtis : ReadRecord(b, j)
         \/ MigrateExisting(b) \/ Confirm(b) \/ Stop(b)
  PROVE  HInv'
<1>1. UNCHANGED <<vars, under, receipt>>
  BY DEF ReadStatus, ScanKeys, ReadRecord, MigrateExisting, Confirm, Stop
<1>2. Numbered' /\ Epochs' /\ Recorded'
  <2>1. Quiet
    BY <1>1, OtherCalls
  <2> QED BY <1>1, <2>1, QuietHistory DEF vars
<1>3. Typed' /\ Confirmed'
  <2>1. run[b] = NotRunning \/ run[b] \in Stages
    BY DEF HInv, Typed
  <2>2. NotRunning.pc = "idle"
    BY DEF NotRunning
  <2>3. ASSUME NEW c \in Commits, ReadStatus(b, c) PROVE Typed' /\ Confirmed'
    <3> DEFINE r == [pc |-> "scan", from |-> policy, commit |-> c, left |-> {}, calls |-> {},
                     tombs |-> {}]
    <3>1. r \in Stages /\ Become(b, r) /\ r.pc = "scan"
      BY <2>3 DEF Stages, ReadStatus, BInv, IInv, TypeOK
    <3> QED BY <1>1, <3>1, RunMove
  <2>4. CASE ScanKeys(b)
    <3> DEFINE r == [run[b] EXCEPT !.pc = "read", !.left = Authorizations]
    <3>1. r \in Stages /\ Become(b, r) /\ r.pc = "read"
      BY <2>1, <2>2, <2>4 DEF Stages, ScanKeys, Authorizations
    <3> QED BY <1>1, <3>1, RunMove
  <2>5. ASSUME NEW j \in Jtis, ReadRecord(b, j) PROVE Typed' /\ Confirmed'
    <3> DEFINE asKnown == [run[b] EXCEPT !.left = @ \ {j}, !.calls = @ \cup {Call(j)}]
               asUnused == [run[b] EXCEPT !.left = @ \ {j}, !.tombs = {j}]
               passedOver == [run[b] EXCEPT !.left = @ \ {j}]
    <3>1. run[b] \in Stages /\ run[b].pc = "read"
      BY <2>1, <2>2, <2>5 DEF ReadRecord
    <3>2. Call(j) \in CallRecords
      BY DEF Call, CallRecords, BInv, IInv, TypeOK
    <3>3. PICK r \in {asKnown, asUnused, passedOver} : Become(b, r)
      BY <2>5 DEF ReadRecord
    <3>4. asKnown \in Stages /\ asKnown.pc = "read"
      BY <3>1, <3>2 DEF Stages
    <3>5. asUnused \in Stages /\ asUnused.pc = "read"
      BY <3>1 DEF Stages
    <3>6. passedOver \in Stages /\ passedOver.pc = "read"
      BY <3>1 DEF Stages
    <3>7. r \in Stages /\ r.pc = "read"
      BY <3>3, <3>4, <3>5, <3>6
    <3> QED BY <1>1, <3>3, <3>7, RunMove
  <2>6. CASE MigrateExisting(b)
    <3> DEFINE r == [run[b] EXCEPT !.pc = "migrated"]
    <3>1. r \in Stages /\ Become(b, r) /\ receipt[r.from] = Manifest(b)
          /\ Manifest(b) = [commit |-> r.commit, calls |-> r.calls, tombs |-> r.tombs]
      BY <2>1, <2>2, <2>6 DEF Stages, MigrateExisting, Complete, Manifest
    <3> QED BY <1>1, <3>1, RunMove
  <2>7. CASE Confirm(b)
    <3> DEFINE r == [run[b] EXCEPT !.pc = "done"]
    <3>1. r \in Stages /\ Become(b, r) /\ receipt[r.from] = Manifest(b)
          /\ Manifest(b) = [commit |-> r.commit, calls |-> r.calls, tombs |-> r.tombs]
      BY <2>1, <2>2, <2>7 DEF Stages, Confirm, Manifest
    <3> QED BY <1>1, <3>1, RunMove
  <2>8. CASE Stop(b)
    BY <1>1, <2>2, <2>8, RunMove DEF Stop
  <2> QED BY <2>3, <2>4, <2>5, <2>6, <2>7, <2>8
<1> QED BY <1>2, <1>3 DEF HInv

LEMMA MigrateHistory ==
  ASSUME BInv, HInv, NEW b \in Runs, MigrateNew(b)
  PROVE  HInv'
<1> DEFINE v == run[b].from
<1>1. /\ v \in Versions /\ v = policy /\ claimed = MigrationCalls[v] /\ Before(v) = Dispatched
      /\ run[b].calls = {Call(j) : j \in Before(v)} /\ \A j \in Before(v) : token[j] = "KNOWN"
  BY ReadIsAll DEF MigrateNew
<1>2. run[b] # NotRunning /\ run[b] \in Stages
  BY DEF MigrateNew, Complete, NotRunning, HInv, Typed
<1>3. Manifest(b) \in Receipts /\ Manifest(b) # NoReceipt /\ Manifest(b).calls = run[b].calls
  BY <1>2, ManifestType DEF Manifest
<1>4. /\ policy' = v + 1 /\ v + 1 \in Versions /\ UNCHANGED under
      /\ \A u \in Versions : receipt'[u] = IF u = v THEN Manifest(b) ELSE receipt[u]
      /\ receipt' \in [Versions -> Receipts \cup {NoReceipt}]
  BY <1>1, <1>3 DEF MigrateNew, MigratePolicy, HInv, Typed
<1>5. Quiet
  BY OtherCalls DEF MigrateNew
<1>6. Dispatched' = Dispatched /\ \A u \in Versions : Before(u)' = Before(u)
  BY <1>5 DEF Quiet, Dispatched, Before
<1>7. Numbered'
  BY <1>5, <1>6 DEF HInv, Numbered, Quiet
<1>8. policy \in Nat /\ \A u \in Versions : u \in Nat /\ MigrationCalls[u] \in Nat
  BY <1>1, VersionTypes
<1>9. Epochs'
  <2>1. \A j \in Jtis : under'[j] <= policy'
    <3>1. {0} \cup Versions \subseteq Nat
      BY VersionTypes
    <3>2. \A j \in Jtis : under[j] \in Nat /\ under[j] <= policy
      BY <3>1 DEF HInv, Epochs, Typed
    <3> QED BY <1>4, <1>1, <1>8, <3>2
  <2>2. ASSUME NEW u \in Versions, u < policy'
        PROVE  /\ MigrationCalls[u] <= claimed
               /\ \A j \in Dispatched : under[j] <= u <=> sequence[j] <= MigrationCalls[u]
    <3>1. CASE u = v
      BY <1>1, <1>8, <3>1 DEF HInv, Epochs, Before, Dispatched
    <3>2. CASE u < v
      BY <1>1, <3>2 DEF HInv, Epochs
    <3> QED BY <1>1, <1>4, <1>8, <2>2, <3>1, <3>2
  <2> QED BY <1>4, <1>5, <1>6, <2>1, <2>2 DEF Epochs, Quiet
<1>10. Recorded'
  <2> SUFFICES ASSUME NEW u \in Versions
               PROVE  /\ receipt'[u] # NoReceipt <=> u < policy'
                      /\ u < policy' => /\ receipt'[u].calls = {Call(j)' : j \in Before(u)'}
                                        /\ \A j \in Before(u)' : token'[j] = "KNOWN"
    BY DEF Recorded
  <2>1. u < policy' <=> u < policy \/ u = v
    BY <1>1, <1>4, <1>8
  <2>2. u < policy' => /\ receipt'[u].calls = {Call(j) : j \in Before(u)}
                       /\ \A j \in Before(u) : token[j] = "KNOWN"
    BY <1>1, <1>3, <1>4, <2>1 DEF HInv, Recorded
  <2>3. u < policy' => \A j \in Before(u) : token'[j] = "KNOWN" /\ Call(j)' = Call(j)
    BY <1>5, <2>2 DEF Quiet, Settled, Before, Dispatched
  <2>4. u < policy' => {Call(j)' : j \in Before(u)'} = {Call(j) : j \in Before(u)}
    BY <1>6, <2>3
  <2>5. receipt'[u] # NoReceipt <=> u < policy'
    BY <1>1, <1>3, <1>4, <2>1 DEF HInv, Recorded
  <2> QED BY <1>6, <2>2, <2>3, <2>4, <2>5
<1>11. Typed' /\ Confirmed'
  <2> DEFINE r == [run[b] EXCEPT !.pc = "migrated"]
  <2>1. r \in Stages /\ Become(b, r)
    BY <1>2 DEF Stages, MigrateNew
  <2>2. \A e \in Runs : run'[e] = IF e = b THEN r ELSE run[e]
    BY <2>1 DEF HInv, Typed, Become
  <2>3. Typed'
    BY <1>4, <2>1, <2>2 DEF HInv, Typed, Become
  <2>4. ASSUME NEW e \in Runs, run'[e].pc \in {"migrated", "done"}
        PROVE  receipt'[run'[e].from] = Manifest(e)'
    <3>1. CASE e = b
      <4>1. r.from = v /\ Manifest(b)' = Manifest(b)
        BY <1>2, <2>2, <3>1 DEF Stages, Manifest
      <4> QED BY <1>1, <1>4, <2>2, <3>1, <4>1
    <3>2. CASE e # b
      <4>1. run'[e] = run[e] /\ receipt[run[e].from] = Manifest(e) /\ run[e] # NotRunning
        BY <2>2, <2>4, <3>2 DEF HInv, Confirmed, NotRunning
      <4>2. run[e].from \in Versions /\ run[e].from # v
        BY <4>1, ManifestType DEF MigrateNew
      <4> QED BY <1>4, <4>1, <4>2 DEF Manifest
    <3> QED BY <3>1, <3>2
  <2> QED BY <2>3, <2>4 DEF Confirmed
<1> QED BY <1>7, <1>9, <1>10, <1>11 DEF HInv
LEMMA ServerHistory ==
  ASSUME BInv, HInv, ServeOther \/ \E j \in Jtis : ServeIssue(j) \/ ServeCall(j)
  PROVE  HInv'
<1>1. ASSUME NEW j \in Jtis, ServeIssue(j) PROVE HInv'
  <2>1. Quiet /\ UNCHANGED <<policy, receipt, run>>
    BY <1>1, OtherCalls DEF ServeIssue, Issue, migrationVars
  <2>2. policy \in Versions /\ under \in [Jtis -> {0} \cup Versions]
    BY DEF HInv, Typed, BInv, IInv, TypeOK
  <2>3. token[j] = "absent"
    BY <1>1 DEF ServeIssue, Issue, BInv, IInv, Bound
  <2>4. sequence[j] = 0
    BY <2>3 DEF BInv, Tallied
  <2>5. under' = [under EXCEPT ![j] = policy]
    BY <1>1 DEF ServeIssue
  <2>6. Numbered' /\ Epochs' /\ Recorded'
    BY <2>1, <2>2, <2>4, <2>5, QuietHistory
  <2> QED BY <2>1, <2>2, <2>5, <2>6 DEF HInv, Typed, Confirmed, Manifest
<1>2. ASSUME NEW j \in Jtis, ServeCall(j) PROVE HInv'
  <2>1. UNCHANGED <<under, receipt, run>> /\ OwnToken(j)
    BY <1>2 DEF ServeCall, migrationVars
  <2>2. Quiet \/ Granted(j)
    BY <1>2, BeginCalls, SettleCalls, DoubtCalls DEF ServeCall
  <2>3. policy' = policy
    BY <1>2 DEF ServeCall, Begin, SettleKnown, SettleUncertain, Halt, Expire, Grant, CreditKnown,
                Quarantine
  <2>4. Numbered' /\ Epochs' /\ Recorded'
    BY <2>1, <2>2, <2>3, QuietHistory, GrantHistory
  <2> QED BY <2>1, <2>4 DEF HInv, Typed, Confirmed, Manifest
<1>3. CASE ServeOther
  <2>1. UNCHANGED <<under, receipt, run>>
    BY <1>3 DEF ServeOther, migrationVars
  <2>2. Quiet /\ policy' = policy
    BY <1>3, OtherCalls, DoubtCalls DEF ServeOther, Initialize, Reap, Tick, Quarantine, Halt
  <2>3. Numbered' /\ Epochs' /\ Recorded'
    BY <2>1, <2>2, QuietHistory
  <2> QED BY <2>1, <2>3 DEF HInv, Typed, Confirmed, Manifest
<1> QED BY <1>1, <1>2, <1>3

LEMMA HistoryStep ==
  ASSUME BInv, HInv, [MigrationNext]_all
  PROVE  HInv'
<1>1. ASSUME UNCHANGED all PROVE HInv'
  <2>1. UNCHANGED <<vars, policy, under, receipt, run>>
    BY <1>1 DEF all, vars, migrationVars
  <2>2. Numbered' /\ Epochs' /\ Recorded'
    BY <2>1, OtherCalls, QuietHistory
  <2> QED BY <2>1, <2>2 DEF HInv, Typed, Confirmed, Manifest
<1> QED BY <1>1, ServerHistory, CommandHistory, MigrateHistory DEF MigrationNext

\* However calls, builds and restarts interleave, every policy left behind has one
\* receipt, which lists every call made before it as that call is kept today, and a call
\* carries the policy its ordinal stands for (calls_match and historicalIdentity of the
\* migrations), when one call is in flight at a time.
THEOREM HistoryKept ==
  ASSUME MaxConcurrency <= 1
  PROVE  MigrationSpec => []HistoryIsKept
<1>1. BInv /\ HInv => HistoryIsKept
  <2> SUFFICES ASSUME BInv, HInv PROVE HistoryIsKept
    OBVIOUS
  <2>1. ASSUME NEW v \in Versions, receipt[v] # NoReceipt
        PROVE  /\ receipt[v].calls = {Call(j) : j \in {i \in Dispatched : sequence[i] <= MigrationCalls[v]}}
               /\ \A call \in receipt[v].calls : token[call.jti] = "KNOWN"
               /\ \A j \in Dispatched : under[j] <= v <=> sequence[j] <= MigrationCalls[v]
    <3>1. v < policy
      BY <2>1 DEF HInv, Recorded
    <3>2. receipt[v].calls = {Call(j) : j \in Before(v)} /\ \A j \in Before(v) : token[j] = "KNOWN"
      BY <3>1 DEF HInv, Recorded
    <3>3. \A call \in receipt[v].calls : \E j \in Before(v) : call = Call(j) /\ call.jti = j
      BY <3>2 DEF Call
    <3> QED BY <3>1, <3>2, <3>3 DEF HInv, Epochs, Before
  <2> QED BY <2>1 DEF HInv, Recorded, Confirmed, HistoryIsKept
<1>2. BInv /\ HInv /\ [MigrationNext]_all => HInv'
  BY HistoryStep
<1>3. MigrationSpec => []BInv
  BY MigrationKeepsGuard, BudgetInvariant, PTL
<1> QED BY <1>1, <1>2, <1>3, HistoryInit, PTL DEF MigrationSpec

-----------------------------------------------------------------------------
(* The paid calls.  A service has one authorization, or the judge's one    *)
(* anchor names one; it is dispatched once, because only one of its        *)
(* requests can have moved it to IN_FLIGHT; it is settled as known only on *)
(* the receipt that is kept; and a record is sealed only after that.  What *)
(* a request read earlier is still so, for the records are permanent.      *)

Spending == {"IN_FLIGHT", "KNOWN", "UNCERTAIN"}
Answered == {Receipt(j, 1, c) : j \in Jtis, c \in Costs}
Doubts == [kind : {"doubt"}, jti : Jtis, digest : Digests, at : Nat]
Anchors == [jti : JudgeTokens, expires : Nat]
HasReceipt(k) == k.state \in {"captured", "sealed"}

\* The steps of a request before it can have paid, and those of the judge alone.
Unpaid == {"read", "guard", "running", "doubted", "stored", "lagging", "record?", "anchor",
           "issue", "begin", "provider", "reap", "orphan", "verify"}
OfJudge == {"running", "doubted", "stored", "lagging", "anchor", "seal", "check", "record",
            "reap", "orphan", "verify"}
OfStatus == {"read", "guard", "running", "doubted", "stored", "lagging", "check",
             "reap", "orphan", "verify"}
Calling(r) == r.pc \in {"provider", "capture"}

Pcs == Unpaid \cup {"free", "capture", "settle", "seal", "check", "record", "doubt"}
Reqs == [op : Ops \cup {"none"}, pc : Pcs, jti : Jtis \cup {NoJti},
         art : Answered \cup Doubts \cup {NoArt}, code : {"none", "failed", "provider"},
         seen : Nat, paid : BOOLEAN]

\* What a request is: which steps it takes, and whether it may have paid.
Formed(r) ==
  /\ r \in Reqs
  /\ r.op = "none" <=> r.pc = "free"
  /\ r.pc \in Unpaid \cup {"free"} => ~r.paid
  /\ r.pc \in {"capture", "record", "doubt"} => r.paid
  /\ r.pc \in OfJudge => r.op \in {"decide", "status"}
  /\ r.pc = "record?" => r.op = "repair"
  /\ r.op = "status" => r.pc \in OfStatus /\ ~r.paid
  /\ r.pc \in {"record", "doubt"} => r.code \in {"failed", "provider"}
  /\ r.pc \in {"reap", "orphan"} => r.art \in Doubts
  /\ r.pc \in {"capture", "settle", "seal"} => r.art \in Answered
  /\ r.pc = "capture" => r.art.jti = r.jti

\* Whose authorization a request uses: the judge's is the anchored one.
Entitled(r, an) ==
  r.paid \/ r.pc \in {"issue", "begin", "provider"} =>
    /\ r.jti \in TokensOf(ServiceOf(r.op))
    /\ ServiceOf(r.op) = "judge" => an # NoAnchor /\ an.jti = r.jti

\* What a request read is still so: of the record k of its service, of the tokens.
Standing(r, k, tk, cl) ==
  /\ Calling(r) => tk[r.jti] \in Spending /\ ~HasReceipt(k)
  /\ r.pc = "provider" => cl[r.jti] = 0
  /\ r.pc \in {"settle", "seal"} => HasReceipt(k) /\ k.art = r.art
  /\ r.pc = "seal" => tk[r.art.jti] = "KNOWN"
  /\ r.pc = "check" => k.state = "sealed"
  /\ r.pc \in {"stored", "lagging", "verify"} => k.state = "uncertain"

Stands(r, kp, an, tk, cl) ==
  /\ Formed(r) /\ Entitled(r, an)
  /\ r.op # "none" => Standing(r, kp[ServiceOf(r.op)], tk, cl)
RequestsStand == \A q \in Requests : Stands(req[q], keep, anchor, token, called)

OneCaller ==
  \A p, q \in Requests : Calling(req[p]) /\ Calling(req[q]) /\ Service(p) = Service(q) => p = q

\* The permanent record of service s.
RecordOf(s, k, tk) ==
  /\ k.state \in {"empty", "uncertain", "captured", "sealed"}
  /\ k.state = "uncertain" => s = "judge" /\ k.art \in Doubts
  /\ HasReceipt(k) =>
       k.art \in Answered /\ k.art.jti \in TokensOf(s) /\ tk[k.art.jti] \in Spending
  /\ k.state = "sealed" => tk[k.art.jti] = "KNOWN"
RecordsHold == \A s \in Services : RecordOf(s, keep[s], token)

Anchored ==
  /\ anchor \in Anchors \cup {NoAnchor}
  /\ \A j \in JudgeTokens : token[j] # "absent" => anchor # NoAnchor /\ anchor.jti = j

CalledOnce ==
  \A j \in Jtis : called[j] \in {0, 1} /\ (called[j] # 0 => token[j] \in Spending)

SettledOnReceipt ==
  \A s \in Services : \A j \in TokensOf(s) : token[j] = "KNOWN" =>
    HasReceipt(keep[s]) /\ keep[s].art = Receipt(j, 1, actual[j]) /\ response[j] = <<j, 1>>

DoubtsDated == \A j \in Jtis : token[j] = "UNCERTAIN" => digest[j] \in Digests

ToldTruly ==
  /\ <<"judge", "closed">> \in told => keep["judge"].state = "uncertain"
  /\ told \cap {<<"judge", "recoverable">>, <<"judge", "result">>} # {} => HasReceipt(keep["judge"])
  /\ \A s \in {"repair", "judge"} : <<s, "unpaid">> \notin told

LaneTypes ==
  /\ keep \in [Services -> [state : {"empty", "uncertain", "captured", "sealed"},
                            art : Answered \cup Doubts \cup {NoArt}]]
  /\ DOMAIN req = Requests
  /\ DOMAIN called = Jtis

Rest == RecordsHold /\ Anchored /\ CalledOnce /\ SettledOnReceipt /\ DoubtsDated
Lane == LaneTypes /\ RequestsStand /\ OneCaller /\ Rest /\ ToldTruly
PInv == IInv /\ Lane

-----------------------------------------------------------------------------
LEMMA PaidConstants ==
  /\ \A s \in Services : TokensOf(s) \subseteq Jtis
  /\ \A s, t \in Services : \A j \in TokensOf(s) : j \in TokensOf(t) => s = t
  /\ JudgeTokens \subseteq Jtis /\ RepairToken \in Jtis /\ SuccessorToken \in Jtis
  /\ TokensOf("judge") = JudgeTokens /\ TokensOf("repair") = {RepairToken}
  /\ TokensOf("revised") = {SuccessorToken}
  /\ TokenTTL \in Nat
BY PaidAssumption, LedgerAssumption DEF PaidAssumption, LedgerAssumption, TokensOf, Services

LEMMA ReceiptFields ==
  ASSUME NEW a \in Answered
  PROVE  /\ a.kind = "receipt" /\ a.jti \in Jtis /\ a.response = <<a.jti, 1>> /\ a.cost \in Costs
         /\ a = Receipt(a.jti, 1, a.cost)
         /\ a.response \in Responses /\ KnownDigest(a) \in Digests
<1>1. PICK j \in Jtis, c \in Costs : a = Receipt(j, 1, c)
  BY DEF Answered
<1>2. a.kind = "receipt" /\ a.jti = j /\ a.response = <<j, 1>> /\ a.cost = c
  BY <1>1 DEF Receipt
<1>3. <<j, 1>> \in Responses /\ \A r \in Responses : <<"known", r>> \in Digests
  BY PaidAssumption DEF PaidAssumption
<1> QED BY <1>1, <1>2, <1>3 DEF KnownDigest

LEMMA ReceiptIsNoDoubt == \A a \in Doubts : a \notin Answered
BY ReceiptFields DEF Doubts

-----------------------------------------------------------------------------
(* What a script does to the tokens. *)

Grows ==
  \A j \in Jtis :
    /\ token[j] \in Spending => token'[j] \in Spending
    /\ token[j] = "KNOWN" =>
         token'[j] = "KNOWN" /\ actual'[j] = actual[j] /\ response'[j] = response[j]

\* No call is settled as known but maybe that of j, no token comes up but maybe j.
KnownBut(S) == \A j \in Jtis \ S : token'[j] = "KNOWN" => token[j] = "KNOWN"
NewBut(S) == \A j \in Jtis \ S : token[j] = "absent" => token'[j] = "absent"
Dated == DoubtsDated => DoubtsDated'
Harmless == Grows /\ KnownBut({}) /\ NewBut({}) /\ Dated

LEMMA StillHarmless ==
  ASSUME UNCHANGED <<token, actual, response, digest>> PROVE Harmless
BY DEF Harmless, Grows, KnownBut, NewBut, Dated, DoubtsDated

LEMMA UnchangedHarmless == ASSUME UNCHANGED vars PROVE Harmless
BY StillHarmless DEF vars, fields

LEMMA HaltHarmless == ASSUME NEW reason, Halt(reason) PROVE Harmless
BY StillHarmless DEF Halt, fields

LEMMA IssueMoves ==
  ASSUME IInv, NEW j \in Jtis, Issue(j)
  PROVE  Grows /\ KnownBut({}) /\ NewBut({j}) /\ Dated
<1>1. token[j] = "absent"
  BY DEF IInv, Bound, Issue
<1>2. token' = [token EXCEPT ![j] = "ISSUED"] /\ token \in [Jtis -> TokenStates]
      /\ UNCHANGED <<actual, response, digest>>
  BY DEF IInv, TypeOK, Issue
<1> QED BY <1>1, <1>2 DEF Grows, KnownBut, NewBut, Dated, DoubtsDated, Spending

LEMMA BeginMoves ==
  ASSUME IInv, NEW j \in Jtis, Begin(j)
  PROVE  Harmless /\ (token'[j] = "IN_FLIGHT" => token[j] = "ISSUED")
<1>1. token \in [Jtis -> TokenStates]
  BY DEF IInv, TypeOK
<1>2. token[j] = "ISSUED" /\ (Halt("COUNTER_DRIFT") \/ Expire(j) \/ Grant(j))
  BY NoDrift DEF Begin
<1>3. CASE Halt("COUNTER_DRIFT")
  BY <1>2, <1>3, HaltHarmless
<1>4. CASE Expire(j)
  <2>1. token' = [token EXCEPT ![j] = "EXPIRED"] /\ UNCHANGED <<actual, response, digest>>
    BY <1>4 DEF Expire, fields
  <2> QED BY <1>1, <1>2, <2>1 DEF Harmless, Grows, KnownBut, NewBut, Dated, DoubtsDated, Spending
<1>5. CASE Grant(j)
  <2>1. token' = [token EXCEPT ![j] = "IN_FLIGHT"] /\ UNCHANGED <<actual, response, digest>>
    BY <1>5 DEF Grant
  <2> QED BY <1>1, <1>2, <2>1 DEF Harmless, Grows, KnownBut, NewBut, Dated, DoubtsDated, Spending
<1> QED BY <1>2, <1>3, <1>4, <1>5

LEMMA QuarantineMoves ==
  ASSUME IInv, NEW j \in Jtis, NEW d \in Digests, token[j] = "IN_FLIGHT", Quarantine(j, d)
  PROVE  Harmless
<1>1. CASE Halt("MISSING_INFLIGHT_LEASE")
  BY <1>1, HaltHarmless
<1>2. CASE ~Halt("MISSING_INFLIGHT_LEASE")
  <2>1. /\ token' = [token EXCEPT ![j] = "UNCERTAIN"] /\ digest' = [digest EXCEPT ![j] = d]
        /\ UNCHANGED <<actual, response>>
    BY <1>2 DEF Quarantine
  <2>2. token \in [Jtis -> TokenStates] /\ digest \in [Jtis -> Digests \cup {NoDigest}]
    BY DEF IInv, TypeOK
  <2> QED BY <2>1, <2>2 DEF Harmless, Grows, KnownBut, NewBut, Dated, DoubtsDated, Spending
<1> QED BY <1>1, <1>2

LEMMA SettleMoves ==
  ASSUME IInv, NEW j \in Jtis, NEW c, NEW r, NEW d, SettleKnown(j, c, r, d)
  PROVE  /\ Grows /\ KnownBut({j}) /\ NewBut({}) /\ Dated
         /\ status' # "halted" => token'[j] = "KNOWN"
         /\ token'[j] = "KNOWN" => token[j] = "KNOWN" \/ (actual'[j] = c /\ response'[j] = r)
<1>1. CASE \E reason : Halt(reason)
  <2>1. PICK reason : Halt(reason)
    BY <1>1
  <2>2. Harmless /\ status' = "halted" /\ token' = token
    BY <2>1, HaltHarmless DEF Halt
  <2> QED BY <2>2 DEF Harmless, KnownBut
<1>2. CASE CreditKnown(j, c, r, d) /\ token[j] \in {"IN_FLIGHT", "UNCERTAIN"}
  <2>1. /\ token' = [token EXCEPT ![j] = "KNOWN"] /\ digest' = [digest EXCEPT ![j] = d]
        /\ actual' = [actual EXCEPT ![j] = c] /\ response' = [response EXCEPT ![j] = r]
    BY <1>2 DEF CreditKnown
  <2>2. /\ token \in [Jtis -> TokenStates] /\ digest \in [Jtis -> Digests \cup {NoDigest}]
        /\ actual \in [Jtis -> Nat] /\ response \in [Jtis -> Responses \cup {NoResponse}]
    BY DEF IInv, TypeOK
  <2> QED BY <1>2, <2>1, <2>2 DEF Grows, KnownBut, NewBut, Dated, DoubtsDated, Spending
<1> QED BY <1>1, <1>2 DEF SettleKnown

-----------------------------------------------------------------------------
(* What a step does to the requests. *)

\* A record is replaced only by one that says more.
KeepGrows(kp, kq) ==
  \A s \in Services :
    /\ HasReceipt(kp[s]) => HasReceipt(kq[s]) /\ kq[s].art = kp[s].art
    /\ kp[s].state = "sealed" => kq[s].state = "sealed"
    /\ kp[s].state = "uncertain" => kq[s].state = "uncertain"
TokensGrow(tk, tl) ==
  \A j \in Jtis : (tk[j] \in Spending => tl[j] \in Spending) /\ (tk[j] = "KNOWN" => tl[j] = "KNOWN")

\* What the step of q leaves to the others: their anchor, their record, their call.
Continues(q) ==
  /\ anchor # NoAnchor => anchor' = anchor
  /\ Grows /\ KeepGrows(keep, keep')
  /\ \A p \in Requests \ {q} : Calling(req[p]) =>
       ~HasReceipt(keep'[Service(p)]) /\ called'[req[p].jti] = called[req[p].jti]
AloneCalling(q, r) ==
  Calling(r) => \A p \in Requests \ {q} : ~(Calling(req[p]) /\ Service(p) = ServiceOf(r.op))
Turned(q, r) ==
  /\ req' = [req EXCEPT ![q] = r]
  /\ Stands(r, keep', anchor', token', called')
  /\ AloneCalling(q, r)
Served == DOMAIN req' = Requests /\ RequestsStand' /\ OneCaller' /\ ToldTruly'

LEMMA FormedFields ==
  ASSUME NEW r, Formed(r)
  PROVE  /\ r.op \in Ops \cup {"none"} /\ r.jti \in Jtis \cup {NoJti}
         /\ r.op # "none" => ServiceOf(r.op) \in Services
         /\ r.op \in {"decide", "status"} <=> ServiceOf(r.op) = "judge"
         /\ r.op = "repair" <=> ServiceOf(r.op) = "repair"
         /\ r.op = "revised" <=> ServiceOf(r.op) = "revised"
         /\ r.pc # "free" => r.op \in Ops
         /\ r.pc = "capture" => r.paid
BY DEF Formed, Reqs, Ops, Services, ServiceOf

LEMMA StillStands ==
  ASSUME NEW r, NEW kp, NEW kq, NEW an, NEW am, NEW tk, NEW tl, NEW cl, NEW cm,
         Stands(r, kp, an, tk, cl), an # NoAnchor => am = an,
         KeepGrows(kp, kq), TokensGrow(tk, tl),
         Calling(r) => ~HasReceipt(kq[ServiceOf(r.op)]) /\ cm[r.jti] = cl[r.jti]
  PROVE  Stands(r, kq, am, tl, cm)
<1>1. Formed(r) /\ Entitled(r, an)
  BY DEF Stands
<1>2. Entitled(r, am)
  BY <1>1 DEF Entitled
<1>3. ASSUME r.op # "none"
      PROVE  Standing(r, kq[ServiceOf(r.op)], tl, cm)
  <2>1. ServiceOf(r.op) \in Services
    BY <1>1, <1>3, FormedFields
  <2>2. PICK s \in Services : s = ServiceOf(r.op)
    BY <2>1
  <2>3. Standing(r, kp[s], tk, cl)
    BY <1>3, <2>2 DEF Stands
  <2>4. Calling(r) => r.jti \in Jtis
    <3>1. Calling(r) => r.jti \in TokensOf(s)
      BY <1>1, <2>2, FormedFields DEF Calling, Entitled
    <3> QED BY <3>1, PaidConstants
  <2>5. r.pc = "seal" => r.art.jti \in Jtis
    BY <1>1, ReceiptFields DEF Formed
  <2>6. /\ HasReceipt(kp[s]) => HasReceipt(kq[s]) /\ kq[s].art = kp[s].art
        /\ kp[s].state = "sealed" => kq[s].state = "sealed"
        /\ kp[s].state = "uncertain" => kq[s].state = "uncertain"
    BY <2>2 DEF KeepGrows
  <2>7. Calling(r) => tl[r.jti] \in Spending /\ ~HasReceipt(kq[s])
    BY <2>2, <2>3, <2>4 DEF Standing, TokensGrow
  <2>8. r.pc = "provider" => cm[r.jti] = 0
    BY <2>3 DEF Standing, Calling
  <2>9. r.pc = "seal" => tl[r.art.jti] = "KNOWN"
    BY <2>3, <2>5 DEF Standing, TokensGrow
  <2> QED BY <2>2, <2>3, <2>6, <2>7, <2>8, <2>9 DEF Standing
<1> QED BY <1>1, <1>2, <1>3 DEF Stands

LEMMA Turn ==
  ASSUME Lane, NEW q \in Requests, NEW r, Continues(q), Turned(q, r)
  PROVE  DOMAIN req' = Requests /\ RequestsStand' /\ OneCaller'
<1>1. DOMAIN req = Requests
  BY DEF Lane, LaneTypes
<1>2. DOMAIN req' = Requests /\ req'[q] = r /\ \A p \in Requests \ {q} : req'[p] = req[p]
  BY <1>1 DEF Turned
<1>3. ASSUME NEW p \in Requests \ {q}
      PROVE  Stands(req[p], keep', anchor', token', called')
  <2>1. Stands(req[p], keep, anchor, token, called)
    BY DEF Lane, RequestsStand
  <2>2. TokensGrow(token, token')
    BY DEF Continues, Grows, TokensGrow
  <2>3. Calling(req[p]) =>
          ~HasReceipt(keep'[ServiceOf(req[p].op)]) /\ called'[req[p].jti] = called[req[p].jti]
    BY DEF Continues, Service
  <2>4. KeepGrows(keep, keep') /\ (anchor # NoAnchor => anchor' = anchor)
    BY DEF Continues
  <2> QED BY <2>1, <2>2, <2>3, <2>4, StillStands
<1>4. RequestsStand'
  <2>1. \A p \in Requests : Stands(req'[p], keep', anchor', token', called')
    BY <1>2, <1>3 DEF Turned
  <2> QED BY <2>1 DEF RequestsStand
<1>5. OneCaller'
  <2>1. \A p, p2 \in Requests \ {q} :
          Calling(req[p]) /\ Calling(req[p2]) /\ ServiceOf(req[p].op) = ServiceOf(req[p2].op)
            => p = p2
    BY DEF Lane, OneCaller, Service
  <2>2. \A p \in Requests \ {q} :
          ~(Calling(r) /\ Calling(req[p]) /\ ServiceOf(req[p].op) = ServiceOf(r.op))
    BY DEF Turned, AloneCalling, Service
  <2>3. \A p, p2 \in Requests :
          Calling(req'[p]) /\ Calling(req'[p2]) /\ ServiceOf(req'[p].op) = ServiceOf(req'[p2].op)
            => p = p2
    BY <1>2, <2>1, <2>2
  <2> QED BY <2>3 DEF OneCaller, Service
<1> QED BY <1>2, <1>4, <1>5

LEMMA FreeStands ==
  \A kp, an, tk, cl : Stands(Free, kp, an, tk, cl)
BY DEF Stands, Formed, Entitled, Standing, Calling, Reqs, Free, Pcs, Unpaid, OfJudge, OfStatus

\* What is told is true of the record, and stays true of a record that says more.
TrueOf(s, said, kp) ==
  /\ s = "judge" /\ said = "closed" => kp["judge"].state = "uncertain"
  /\ s = "judge" /\ said \in {"recoverable", "result"} => HasReceipt(kp["judge"])
  /\ said = "unpaid" => s \notin {"repair", "judge"}

LEMMA ToldMoves ==
  ASSUME ToldTruly, KeepGrows(keep, keep'), NEW s, NEW said, TrueOf(s, said, keep'),
         told' \subseteq told \cup {<<s, said>>}
  PROVE  ToldTruly'
<1>1. /\ HasReceipt(keep["judge"]) => HasReceipt(keep'["judge"])
      /\ keep["judge"].state = "uncertain" => keep'["judge"].state = "uncertain"
  BY DEF KeepGrows, Services
<1>2. <<"judge", "closed">> \in told' => keep'["judge"].state = "uncertain"
  BY <1>1 DEF ToldTruly, TrueOf
<1>3. told' \cap {<<"judge", "recoverable">>, <<"judge", "result">>} # {}
        => HasReceipt(keep'["judge"])
  <2>1. ASSUME <<"judge", "recoverable">> \in told' \/ <<"judge", "result">> \in told'
        PROVE  HasReceipt(keep'["judge"])
    BY <1>1, <2>1 DEF ToldTruly, TrueOf
  <2> QED BY <2>1
<1>4. \A t \in {"repair", "judge"} : <<t, "unpaid">> \notin told'
  BY DEF ToldTruly, TrueOf
<1> QED BY <1>2, <1>3, <1>4 DEF ToldTruly, HasReceipt

LEMMA Telling ==
  ASSUME Lane, NEW q \in Requests, NEW r, Continues(q), Turned(q, r), UNCHANGED told
  PROVE  Served
<1>1. TrueOf("repair", "nothing", keep')
  BY DEF TrueOf
<1>2. ToldTruly'
  BY <1>1, ToldMoves DEF Lane, Continues
<1> QED BY <1>2, Turn DEF Served

LEMMA Answering ==
  ASSUME Lane, NEW q \in Requests, NEW said, Continues(q), Answer(q, said),
         said = "nothing" \/ TrueOf(Service(q), said, keep')
  PROVE  Served
<1>1. Turned(q, Free)
  BY FreeStands DEF Answer, Turned, AloneCalling, Calling, Free
<1>2. CASE said = "nothing"
  BY <1>1, <1>2, Telling DEF Answer
<1>3. CASE said # "nothing"
  <2>1. told' = told \cup {<<Service(q), said>>}
    BY <1>3 DEF Answer
  <2>2. ToldTruly'
    BY <1>3, <2>1, ToldMoves DEF Lane, Continues
  <2> QED BY <1>1, <2>2, Turn DEF Served
<1> QED BY <1>2, <1>3

LEMMA Refusing ==
  ASSUME Lane, NEW q \in Requests, Continues(q), Refuse(q),
         req[q].paid => req[q].op = "revised"
  PROVE  Served
<1>1. CASE req[q].paid
  <2>1. Answer(q, "unpaid")
    BY <1>1 DEF Refuse
  <2>2. TrueOf(Service(q), "unpaid", keep')
    BY <1>1 DEF TrueOf, Service, ServiceOf
  <2> QED BY <2>1, <2>2, Answering
<1>2. CASE ~req[q].paid
  <2>1. Answer(q, "nothing")
    BY <1>2 DEF Refuse
  <2> QED BY <2>1, Answering
<1> QED BY <1>1, <1>2

LEMMA Failing ==
  ASSUME Lane, NEW q \in Requests, Continues(q), Fail(q)
  PROVE  Served
<1>1. Formed(req[q]) /\ Entitled(req[q], anchor)
  BY DEF Lane, RequestsStand, Stands
<1>2. CASE ~req[q].paid \/ req[q].op = "revised"
  <2>1. Refuse(q)
    BY <1>2 DEF Fail
  <2> QED BY <1>2, <2>1, Refusing
<1>3. CASE req[q].paid /\ req[q].op \in {"decide", "repair"}
  <2>1. PICK pc \in {"record", "doubt"} :
          /\ req' = [req EXCEPT ![q].pc = pc, ![q].code = "failed"] /\ UNCHANGED told
          /\ pc = "record" => req[q].op = "decide"
    BY <1>3 DEF Fail
  <2> DEFINE r == [req[q] EXCEPT !.pc = pc, !.code = "failed"]
  <2>2. req' = [req EXCEPT ![q] = r]
    BY <2>1
  <2>3. /\ r \in Reqs
        /\ r.op = req[q].op /\ r.paid = req[q].paid /\ r.jti = req[q].jti
        /\ r.pc = pc /\ r.code = "failed"
    BY <1>1, <2>1 DEF Formed, Reqs, Pcs
  <2> HIDE DEF r
  <2>4. Formed(r)
    BY <1>1, <1>3, <2>1, <2>3 DEF Formed, Unpaid, OfJudge, OfStatus
  <2>5. Entitled(r, anchor')
    BY <1>1, <1>3, <2>3 DEF Entitled, Continues
  <2>6. Standing(r, keep'[ServiceOf(r.op)], token', called') /\ ~Calling(r)
    BY <2>1, <2>3 DEF Standing, Calling
  <2>7. Turned(q, r)
    BY <2>2, <2>4, <2>5, <2>6 DEF Turned, Stands, AloneCalling
  <2> QED BY <2>1, <2>7, Telling
<1>4. req[q].paid => req[q].op \in {"decide", "repair", "revised"}
  BY <1>1 DEF Formed, Reqs, Ops
<1> QED BY <1>2, <1>3, <1>4

-----------------------------------------------------------------------------
(* The steps that write no record. *)

Step == [Next]_vars /\ Lane'

LEMMA QuietContinues ==
  ASSUME Lane, NEW q \in Requests, UNCHANGED <<keep, anchor, called>>, Grows
  PROVE  Continues(q)
<1>1. ASSUME NEW p \in Requests, Calling(req[p])
      PROVE  ~HasReceipt(keep[Service(p)])
  <2>1. Stands(req[p], keep, anchor, token, called)
    BY DEF Lane, RequestsStand
  <2>2. req[p].op # "none"
    BY <1>1, <2>1 DEF Stands, Formed, Calling
  <2> QED BY <1>1, <2>1, <2>2 DEF Stands, Standing, Service
<1>2. KeepGrows(keep, keep')
  BY DEF KeepGrows
<1> QED BY <1>1, <1>2 DEF Continues

LEMMA QuietRest ==
  ASSUME IInv, Rest, UNCHANGED <<keep, anchor, called>>, Harmless
  PROVE  Rest'
<1>1. RecordsHold'
  <2>1. \A s \in Services : RecordOf(s, keep[s], token')
    <3>1. ASSUME NEW s \in Services
          PROVE  RecordOf(s, keep[s], token')
      <4>1. RecordOf(s, keep[s], token)
        BY DEF Rest, RecordsHold
      <4>2. HasReceipt(keep[s]) => keep[s].art.jti \in Jtis
        BY <4>1, ReceiptFields DEF RecordOf
      <4> QED BY <4>1, <4>2 DEF RecordOf, Harmless, Grows, HasReceipt
    <3> QED BY <3>1
  <2> QED BY <2>1 DEF RecordsHold
<1>2. Anchored'
  BY PaidConstants DEF Rest, Anchored, Harmless, NewBut
<1>3. CalledOnce'
  BY DEF Rest, CalledOnce, Harmless, Grows
<1>4. SettledOnReceipt'
  <2>1. ASSUME NEW s \in Services, NEW j \in TokensOf(s), token'[j] = "KNOWN"
        PROVE  /\ HasReceipt(keep[s]) /\ keep[s].art = Receipt(j, 1, actual'[j])
               /\ response'[j] = <<j, 1>>
    <3>1. j \in Jtis
      BY PaidConstants
    <3>2. token[j] = "KNOWN" /\ actual'[j] = actual[j] /\ response'[j] = response[j]
      BY <2>1, <3>1 DEF Harmless, KnownBut, Grows
    <3> QED BY <3>2 DEF Rest, SettledOnReceipt
  <2> QED BY <2>1 DEF SettledOnReceipt
<1>5. DoubtsDated'
  BY DEF Rest, Harmless, Dated
<1> QED BY <1>1, <1>2, <1>3, <1>4, <1>5 DEF Rest

LEMMA Quietly ==
  ASSUME PInv, UNCHANGED <<keep, anchor, called>>, Harmless, Served, [Next]_vars
  PROVE  Step
<1>1. Rest'
  BY QuietRest DEF PInv, Lane
<1>2. LaneTypes'
  BY DEF PInv, Lane, LaneTypes, Served
<1> QED BY <1>1, <1>2 DEF Step, Lane, Served

\* A request that has not paid and calls nobody.
Waiting(r, kp) ==
  /\ r \in Reqs /\ r.op # "none" /\ ~r.paid
  /\ r.pc \in Unpaid \ {"issue", "begin", "provider"}
  /\ r.pc \in OfJudge => r.op \in {"decide", "status"}
  /\ r.pc = "record?" => r.op = "repair"
  /\ r.op = "status" => r.pc \in OfStatus
  /\ r.pc \in {"reap", "orphan"} => r.art \in Doubts
  /\ r.pc \in {"stored", "lagging", "verify"} => kp["judge"].state = "uncertain"

LEMMA WaitingStands ==
  ASSUME NEW r, NEW kp, NEW an, NEW tk, NEW cl, Waiting(r, kp)
  PROVE  Stands(r, kp, an, tk, cl) /\ ~Calling(r)
<1>1. Formed(r) /\ Entitled(r, an) /\ ~Calling(r)
  BY DEF Waiting, Formed, Entitled, Calling, Unpaid
<1>2. Standing(r, kp[ServiceOf(r.op)], tk, cl)
  BY <1>1 DEF Waiting, Standing, ServiceOf, OfJudge, Unpaid, Calling
<1> QED BY <1>1, <1>2 DEF Stands

LEMMA Waits ==
  ASSUME PInv, NEW q \in Requests, NEW r, req' = [req EXCEPT ![q] = r], Waiting(r, keep),
         Unwritten, UNCHANGED told
  PROVE  Step
<1>1. Harmless /\ [Next]_vars /\ UNCHANGED <<keep, anchor, called>>
  BY UnchangedHarmless DEF Unwritten
<1>2. Continues(q)
  BY <1>1, QuietContinues DEF PInv, Harmless
<1>3. Turned(q, r)
  BY <1>1, WaitingStands DEF Turned, AloneCalling
<1>4. Served
  BY <1>2, <1>3, Telling DEF PInv
<1> QED BY <1>1, <1>4, Quietly

LEMMA Answers ==
  ASSUME PInv, NEW q \in Requests, NEW said, Answer(q, said), Unwritten,
         said = "nothing" \/ TrueOf(Service(q), said, keep)
  PROVE  Step
<1>1. Harmless /\ [Next]_vars /\ UNCHANGED <<keep, anchor, called>>
  BY UnchangedHarmless DEF Unwritten
<1>2. Continues(q)
  BY <1>1, QuietContinues DEF PInv, Harmless
<1>3. Served
  BY <1>1, <1>2, Answering DEF PInv
<1> QED BY <1>1, <1>3, Quietly

LEMMA Refuses ==
  ASSUME PInv, NEW q \in Requests, Refuse(q), UNCHANGED <<vars, keep, anchor, called>>,
         ~req[q].paid
  PROVE  Step
<1>1. Harmless /\ [Next]_vars
  BY UnchangedHarmless
<1>2. Continues(q)
  BY <1>1, QuietContinues DEF PInv, Harmless
<1>3. Served
  BY <1>2, Refusing DEF PInv
<1> QED BY <1>1, <1>3, Quietly

LEMMA Fails ==
  ASSUME PInv, NEW q \in Requests, Fail(q), UNCHANGED <<vars, keep, anchor, called>>
  PROVE  Step
<1>1. Harmless /\ [Next]_vars
  BY UnchangedHarmless
<1>2. Continues(q)
  BY <1>1, QuietContinues DEF PInv, Harmless
<1>3. Served
  BY <1>2, Failing DEF PInv
<1> QED BY <1>1, <1>3, Quietly

LEMMA RequestFacts ==
  ASSUME Lane, NEW q \in Requests
  PROVE  /\ Formed(req[q]) /\ Entitled(req[q], anchor)
         /\ req[q].pc # "free" => Standing(req[q], keep[Service(q)], token, called)
         /\ req[q].pc # "free" => req[q].op \in Ops /\ Service(q) \in Services
         /\ req[q].pc \in Unpaid => ~req[q].paid
<1>1. Stands(req[q], keep, anchor, token, called)
  BY DEF Lane, RequestsStand
<1>2. Formed(req[q])
  BY <1>1 DEF Stands
<1> QED BY <1>1, <1>2, FormedFields DEF Stands, Service, Formed

LEMMA RecordFacts ==
  ASSUME Lane, NEW s \in Services
  PROVE  RecordOf(s, keep[s], token) /\ (HasReceipt(keep[s]) => keep[s].art.jti \in Jtis)
<1>1. RecordOf(s, keep[s], token)
  BY DEF Lane, Rest, RecordsHold
<1> QED BY <1>1, ReceiptFields DEF RecordOf

LEMMA Going ==
  ASSUME PInv, NEW q \in Requests, NEW pc, Goto(q, pc), Unwritten, UNCHANGED told,
         req[q].pc \in Unpaid, pc \in Unpaid \ {"issue", "begin", "provider", "reap", "orphan"},
         pc \in OfJudge => req[q].op \in {"decide", "status"},
         pc = "record?" => req[q].op = "repair",
         req[q].op = "status" => pc \in OfStatus,
         pc \in {"stored", "lagging", "verify"} => keep["judge"].state = "uncertain"
  PROVE  Step
<1> DEFINE r == [req[q] EXCEPT !.pc = pc]
<1>1. Formed(req[q]) /\ ~req[q].paid /\ req[q].op # "none"
  BY RequestFacts DEF PInv, Ops, Unpaid
<1>2. req' = [req EXCEPT ![q] = r]
  BY DEF Goto
<1>3. r \in Reqs /\ r.op = req[q].op /\ r.paid = req[q].paid /\ r.pc = pc
  BY <1>1 DEF Formed, Reqs, Pcs
<1> HIDE DEF r
<1>4. Waiting(r, keep)
  BY <1>1, <1>3 DEF Waiting
<1> QED BY <1>2, <1>4, Waits

\* A request that has found its receipt goes on to settle it.
LEMMA Settling ==
  ASSUME PInv, NEW q \in Requests, ToCaptured(q), Unwritten, UNCHANGED told,
         HasReceipt(Kept(q)), req[q].pc \in Unpaid, req[q].op # "status"
  PROVE  Step
<1> DEFINE r == [req[q] EXCEPT !.pc = "settle", !.art = Kept(q).art, !.jti = Kept(q).art.jti]
<1>1. Formed(req[q]) /\ ~req[q].paid /\ req[q].op \in Ops /\ Service(q) \in Services
  BY RequestFacts DEF PInv, Unpaid
<1>2. Kept(q).art \in Answered /\ Kept(q).art.jti \in Jtis
  BY <1>1, RecordFacts DEF PInv, RecordOf, Kept
<1>3. req' = [req EXCEPT ![q] = r]
  BY DEF ToCaptured
<1>4. /\ r \in Reqs /\ r.op = req[q].op /\ r.paid = req[q].paid /\ r.pc = "settle"
      /\ r.art = Kept(q).art
  BY <1>1, <1>2 DEF Formed, Reqs, Pcs
<1> HIDE DEF r
<1>5. Formed(r) /\ Entitled(r, anchor) /\ ~Calling(r)
  BY <1>1, <1>2, <1>4 DEF Formed, Entitled, Calling, Unpaid, OfJudge, OfStatus, Ops
<1>6. Standing(r, keep[ServiceOf(r.op)], token, called)
  BY <1>4, <1>5 DEF Standing, Kept, Service
<1>7. Harmless /\ [Next]_vars /\ UNCHANGED <<keep, anchor, called>>
  BY UnchangedHarmless DEF Unwritten
<1>8. Turned(q, r)
  BY <1>3, <1>5, <1>6, <1>7 DEF Turned, AloneCalling, Stands, Unwritten, vars
<1>9. Served
  BY <1>7, <1>8, QuietContinues, Telling DEF PInv, Harmless
<1> QED BY <1>7, <1>9, Quietly

\* A request of the judge sets out to reap the call of a doubt, or to record it.
LEMMA Doubting ==
  ASSUME PInv, NEW q \in Requests, NEW pc \in {"reap", "orphan"}, NEW j \in Jtis,
         NEW art \in Doubts, Unwritten, UNCHANGED told,
         req' = [req EXCEPT ![q].pc = pc, ![q].jti = j, ![q].art = art],
         req[q].pc \in Unpaid \cap OfJudge
  PROVE  Step
<1> DEFINE r == [req[q] EXCEPT !.pc = pc, !.jti = j, !.art = art]
<1>1. Formed(req[q]) /\ ~req[q].paid
  BY RequestFacts DEF PInv
<1>2. req' = [req EXCEPT ![q] = r]
  OBVIOUS
<1>3. r \in Reqs /\ r.op = req[q].op /\ r.paid = req[q].paid /\ r.pc = pc /\ r.art = art
  BY <1>1 DEF Formed, Reqs, Pcs, Unpaid
<1> HIDE DEF r
<1>4. Waiting(r, keep)
  BY <1>1, <1>3 DEF Waiting, Formed, Unpaid, OfJudge, OfStatus
<1> QED BY <1>2, <1>4, Waits

LEMMA ReadJudgeStoreStep ==
  ASSUME PInv, NEW q \in Requests, ReadJudgeStore(q) PROVE Step
<1>1. /\ req[q].pc = "read" /\ req[q].pc \in Unpaid /\ Service(q) = "judge" /\ Unwritten
      /\ req[q].op \in {"decide", "status"}
  BY RequestFacts, FormedFields DEF ReadJudgeStore, At, PInv, Unpaid, Service
<1>2. Kept(q).state \in {"empty", "uncertain", "sealed", "captured"}
  BY <1>1, RecordFacts DEF PInv, RecordOf, Kept, Services
<1>3. CASE Kept(q).state = "empty"
  <2>1. Goto(q, "guard") /\ UNCHANGED told
    BY <1>3 DEF ReadJudgeStore
  <2> QED BY <1>1, <2>1, Going DEF Unpaid, OfJudge, OfStatus
<1>4. CASE Kept(q).state = "uncertain"
  <2>1. Goto(q, "stored") /\ UNCHANGED told
    BY <1>4 DEF ReadJudgeStore
  <2> QED BY <1>1, <1>4, <2>1, Going DEF Unpaid, OfJudge, OfStatus, Kept
<1>5. CASE Kept(q).state = "sealed"
  <2> DEFINE r == [req[q] EXCEPT !.pc = "check"]
  <2>1. req' = [req EXCEPT ![q] = r] /\ UNCHANGED told
    BY <1>5 DEF ReadJudgeStore, Goto
  <2>2. Formed(req[q]) /\ ~req[q].paid
    BY <1>1, RequestFacts DEF PInv
  <2>3. r \in Reqs /\ r.op = req[q].op /\ r.paid = req[q].paid /\ r.pc = "check"
    BY <2>2 DEF Formed, Reqs, Pcs
  <2> HIDE DEF r
  <2>4. Formed(r) /\ Entitled(r, anchor) /\ ~Calling(r)
    BY <1>1, <2>2, <2>3 DEF Formed, Entitled, Calling, Unpaid, OfJudge, OfStatus
  <2>5. Standing(r, keep[ServiceOf(r.op)], token, called)
    BY <1>5, <2>3, <2>4 DEF Standing, Kept, Service
  <2>6. Harmless /\ [Next]_vars /\ UNCHANGED <<keep, anchor, called>>
    BY <1>1, UnchangedHarmless DEF Unwritten
  <2>7. Turned(q, r)
    BY <1>1, <2>1, <2>4, <2>5, <2>6 DEF Turned, AloneCalling, Stands, Unwritten, vars
  <2>8. Served
    BY <2>1, <2>6, <2>7, QuietContinues, Telling DEF PInv, Harmless
  <2> QED BY <2>6, <2>8, Quietly
<1>6. CASE Kept(q).state = "captured"
  <2>1. CASE req[q].op = "status"
    <3>1. Answer(q, "recoverable")
      BY <1>6, <2>1 DEF ReadJudgeStore
    <3>2. TrueOf(Service(q), "recoverable", keep)
      BY <1>1, <1>6 DEF TrueOf, Kept, HasReceipt
    <3> QED BY <1>1, <3>1, <3>2, Answers
  <2>2. CASE req[q].op # "status"
    <3>1. ToCaptured(q) /\ UNCHANGED told
      BY <1>6, <2>2 DEF ReadJudgeStore
    <3> QED BY <1>1, <1>6, <2>2, <3>1, Settling DEF HasReceipt
  <2> QED BY <2>1, <2>2
<1> QED BY <1>2, <1>3, <1>4, <1>5, <1>6

LEMMA ReadJudgeGuardStep ==
  ASSUME PInv, NEW q \in Requests, ReadJudgeGuard(q) PROVE Step
<1>1. /\ req[q].pc = "guard" /\ req[q].pc \in Unpaid /\ Service(q) = "judge" /\ Unwritten
      /\ req[q].op \in {"decide", "status"} /\ ~req[q].paid
  BY RequestFacts, FormedFields DEF ReadJudgeGuard, At, PInv, Unpaid, Service
<1>2. \/ Goto(q, "anchor") /\ UNCHANGED told /\ req[q].op = "decide"
      \/ Goto(q, "running") /\ UNCHANGED told
      \/ Goto(q, "doubted") /\ UNCHANGED told
      \/ Refuse(q)
  BY DEF ReadJudgeGuard
<1>3. CASE Goto(q, "anchor") /\ UNCHANGED told /\ req[q].op = "decide"
  BY <1>1, <1>3, Going DEF Unpaid, OfJudge, OfStatus
<1>4. CASE Goto(q, "running") /\ UNCHANGED told
  BY <1>1, <1>4, Going DEF Unpaid, OfJudge, OfStatus
<1>5. CASE Goto(q, "doubted") /\ UNCHANGED told
  BY <1>1, <1>5, Going DEF Unpaid, OfJudge, OfStatus
<1>6. CASE Refuse(q)
  BY <1>1, <1>6, Refuses DEF Unwritten
<1> QED BY <1>2, <1>3, <1>4, <1>5, <1>6

\* The steps of a request that has not paid, as seen from where it stands.
LEMMA UnpaidFacts ==
  ASSUME PInv, NEW q \in Requests, req[q].pc \in Unpaid
  PROVE  /\ ~req[q].paid /\ req[q].op \in Ops /\ Service(q) \in Services
         /\ req[q].pc \in OfJudge => req[q].op \in {"decide", "status"} /\ Service(q) = "judge"
         /\ req[q].pc = "record?" => req[q].op = "repair"
         /\ req[q].op = "status" => req[q].pc \in OfStatus
         /\ req[q].pc \in {"stored", "lagging", "verify"} => keep["judge"].state = "uncertain"
         /\ req[q].pc \in {"reap", "orphan"} => req[q].art \in Doubts
         /\ req[q].pc \in {"issue", "begin", "provider"} =>
              /\ req[q].jti \in TokensOf(Service(q)) /\ req[q].jti \in Jtis
              /\ Service(q) = "judge" => anchor # NoAnchor /\ anchor.jti = req[q].jti
<1>1. /\ Formed(req[q]) /\ Entitled(req[q], anchor) /\ req[q].op \in Ops
      /\ Service(q) \in Services /\ Standing(req[q], keep[Service(q)], token, called)
  BY RequestFacts DEF PInv, Unpaid
<1>2. req[q].op \in {"decide", "status"} <=> Service(q) = "judge"
  BY <1>1, FormedFields DEF Service
<1>3. req[q].pc \in {"stored", "lagging", "verify"} => keep["judge"].state = "uncertain"
  BY <1>1, <1>2 DEF Standing, Formed, OfJudge
<1>4. req[q].pc \in {"issue", "begin", "provider"} =>
        /\ req[q].jti \in TokensOf(Service(q))
        /\ Service(q) = "judge" => anchor # NoAnchor /\ anchor.jti = req[q].jti
  BY <1>1 DEF Entitled, Service
<1> QED BY <1>1, <1>2, <1>3, <1>4, PaidConstants DEF Formed

LEMMA ClockIsNat == ASSUME PInv PROVE now \in Nat /\ now + TokenTTL \in Nat
BY PaidConstants DEF PInv, IInv, TypeOK

LEMMA OrphanRunningStep ==
  ASSUME PInv, NEW q \in Requests, OrphanRunning(q) PROVE Step
<1>1. req[q].pc = "running" /\ req[q].pc \in Unpaid \cap OfJudge /\ Unwritten
  BY DEF OrphanRunning, At, Unpaid, OfJudge
<1>2. CASE Refuse(q)
  BY <1>1, <1>2, UnpaidFacts, Refuses DEF Unwritten
<1>3. ASSUME NEW j \in JudgeTokens, UNCHANGED told,
             req' = [req EXCEPT ![q].pc = "reap", ![q].jti = j,
                                ![q].art = Doubtful(j, DoubtDigest("orphan"), now)]
      PROVE  Step
  <2>1. j \in Jtis /\ DoubtDigest("orphan") \in Digests
    BY PaidConstants, PaidAssumption DEF PaidAssumption, DoubtDigest
  <2>2. Doubtful(j, DoubtDigest("orphan"), now) \in Doubts
    BY <2>1, ClockIsNat DEF Doubtful, Doubts
  <2> QED BY <1>1, <1>3, <2>1, <2>2, Doubting
<1> QED BY <1>2, <1>3 DEF OrphanRunning

LEMMA OrphanDoubtedStep ==
  ASSUME PInv, NEW q \in Requests, OrphanDoubted(q) PROVE Step
<1>1. req[q].pc = "doubted" /\ req[q].pc \in Unpaid \cap OfJudge /\ Unwritten
  BY DEF OrphanDoubted, At, Unpaid, OfJudge
<1>2. CASE ~InDoubt
  BY <1>1, <1>2, UnpaidFacts, Refuses DEF Unwritten, OrphanDoubted
<1>3. CASE InDoubt
  <2>1. uncertainJti \in Jtis /\ token[uncertainJti] = "UNCERTAIN"
    BY <1>3, PaidConstants DEF InDoubt
  <2>2. digest[uncertainJti] \in Digests
    BY <2>1 DEF PInv, Lane, Rest, DoubtsDated
  <2>3. Doubtful(uncertainJti, digest[uncertainJti], 0) \in Doubts
    BY <2>1, <2>2 DEF Doubtful, Doubts
  <2>4. /\ req' = [req EXCEPT ![q].pc = "orphan", ![q].jti = uncertainJti,
                     ![q].art = Doubtful(uncertainJti, digest[uncertainJti], 0)]
        /\ UNCHANGED told
    BY <1>3 DEF OrphanDoubted
  <2> QED BY <1>1, <2>1, <2>3, <2>4, Doubting
<1> QED BY <1>2, <1>3

LEMMA StoredUncertainStep ==
  ASSUME PInv, NEW q \in Requests, StoredUncertain(q) PROVE Step
<1>1. req[q].pc = "stored" /\ req[q].pc \in Unpaid /\ req[q].pc \in OfJudge /\ Unwritten
  BY DEF StoredUncertain, At, Unpaid, OfJudge
<1>2. keep["judge"].state = "uncertain"
  BY <1>1, UnpaidFacts
<1>3. \/ Answer(q, "closed")
      \/ Goto(q, "lagging") /\ UNCHANGED told
      \/ Refuse(q)
  BY DEF StoredUncertain
<1>4. CASE Answer(q, "closed")
  BY <1>1, <1>2, <1>4, Answers DEF TrueOf
<1>5. CASE Goto(q, "lagging") /\ UNCHANGED told
  BY <1>1, <1>2, <1>5, UnpaidFacts, Going DEF Unpaid, OfJudge, OfStatus
<1>6. CASE Refuse(q)
  BY <1>1, <1>6, UnpaidFacts, Refuses DEF Unwritten
<1> QED BY <1>3, <1>4, <1>5, <1>6

LEMMA StoredRunningStep ==
  ASSUME PInv, NEW q \in Requests, StoredRunning(q) PROVE Step
<1>1. req[q].pc = "lagging" /\ req[q].pc \in Unpaid \cap OfJudge /\ Unwritten
  BY DEF StoredRunning, At, Unpaid, OfJudge
<1>2. CASE Refuse(q)
  BY <1>1, <1>2, UnpaidFacts, Refuses DEF Unwritten
<1>3. CASE ~Refuse(q)
  <2>1. Service(q) = "judge" /\ keep["judge"].state = "uncertain"
    BY <1>1, UnpaidFacts
  <2>2. Kept(q).art \in Doubts
    BY <2>1, RecordFacts DEF PInv, RecordOf, Kept, Services
  <2>3. Kept(q).art.jti \in Jtis
    BY <2>2 DEF Doubts
  <2>4. /\ req' = [req EXCEPT ![q].pc = "reap", ![q].jti = Kept(q).art.jti,
                              ![q].art = Kept(q).art]
        /\ UNCHANGED told
    BY <1>3 DEF StoredRunning
  <2> QED BY <1>1, <2>2, <2>3, <2>4, Doubting
<1> QED BY <1>2, <1>3

LEMMA VerifyReapedStep ==
  ASSUME PInv, NEW q \in Requests, VerifyReaped(q) PROVE Step
<1>1. req[q].pc = "verify" /\ req[q].pc \in Unpaid /\ Unwritten
  BY DEF VerifyReaped, At, Unpaid
<1>2. keep["judge"].state = "uncertain" /\ ~req[q].paid
  BY <1>1, UnpaidFacts
<1>3. CASE Answer(q, "closed")
  BY <1>1, <1>2, <1>3, Answers DEF TrueOf
<1>4. CASE Refuse(q)
  BY <1>1, <1>2, <1>4, Refuses DEF Unwritten
<1> QED BY <1>3, <1>4 DEF VerifyReaped

LEMMA CheckSettledStep ==
  ASSUME PInv, NEW q \in Requests, CheckSettled(q) PROVE Step
<1>1. CASE Answer(q, "result")
  <2>1. req[q].pc = "check" /\ Unwritten
    BY DEF CheckSettled, At
  <2>2. Standing(req[q], keep[Service(q)], token, called)
    BY <2>1, RequestFacts DEF PInv
  <2>3. TrueOf(Service(q), "result", keep)
    BY <2>1, <2>2 DEF TrueOf, Standing, HasReceipt
  <2> QED BY <1>1, <2>1, <2>3, Answers
<1>2. CASE Fail(q)
  BY <1>2, Fails DEF CheckSettled, Unwritten
<1> QED BY <1>1, <1>2 DEF CheckSettled

LEMMA ReadRepairGuardStep ==
  ASSUME PInv, NEW q \in Requests, ReadRepairGuard(q) PROVE Step
<1>1. req[q].pc = "guard" /\ req[q].pc \in Unpaid /\ req[q].op = "repair" /\ Unwritten
  BY DEF ReadRepairGuard, At, Unpaid
<1>2. CASE Refuse(q)
  BY <1>1, <1>2, UnpaidFacts, Refuses DEF Unwritten
<1>3. CASE ~Refuse(q)
  <2> DEFINE r == [req[q] EXCEPT !.pc = "read", !.seen = counts["repair"]]
  <2>1. req' = [req EXCEPT ![q] = r] /\ UNCHANGED told
    BY <1>3 DEF ReadRepairGuard
  <2>2. Formed(req[q]) /\ ~req[q].paid /\ counts["repair"] \in Nat
    BY <1>1, RequestFacts DEF PInv, IInv, TypeOK, Purposes
  <2>3. r \in Reqs /\ r.op = "repair" /\ r.paid = req[q].paid /\ r.pc = "read"
    BY <1>1, <2>2 DEF Formed, Reqs, Pcs, Unpaid
  <2> HIDE DEF r
  <2>4. Waiting(r, keep)
    BY <2>2, <2>3 DEF Waiting, Unpaid, OfJudge
  <2> QED BY <1>1, <2>1, <2>4, Waits
<1> QED BY <1>2, <1>3

LEMMA ReadRepairStoreStep ==
  ASSUME PInv, NEW q \in Requests, ReadRepairStore(q) PROVE Step
<1>1. req[q].pc = "read" /\ req[q].pc \in Unpaid /\ req[q].op = "repair" /\ Unwritten
  BY DEF ReadRepairStore, At, Unpaid
<1>2. \/ Kept(q).state = "captured" /\ ToCaptured(q) /\ UNCHANGED told
      \/ Goto(q, "record?") /\ UNCHANGED told
      \/ Refuse(q)
  BY DEF ReadRepairStore
<1>3. CASE Kept(q).state = "captured" /\ ToCaptured(q) /\ UNCHANGED told
  BY <1>1, <1>3, Settling DEF HasReceipt
<1>4. CASE Goto(q, "record?") /\ UNCHANGED told
  BY <1>1, <1>4, Going DEF Unpaid, OfJudge
<1>5. CASE Refuse(q)
  BY <1>1, <1>5, UnpaidFacts, Refuses DEF Unwritten
<1> QED BY <1>2, <1>3, <1>4, <1>5

\* A request is about to issue the authorization of its service.
LEMMA Issuing ==
  ASSUME PInv, NEW q \in Requests, NEW j, UNCHANGED <<vars, keep, called, told>>,
         anchor # NoAnchor => anchor' = anchor,
         anchor' # anchor => Rest',
         req' = [req EXCEPT ![q].pc = "issue", ![q].jti = j],
         req[q].pc \in Unpaid, req[q].op # "status", j \in TokensOf(Service(q)),
         Service(q) = "judge" => anchor' # NoAnchor /\ anchor'.jti = j
  PROVE  Step
<1> DEFINE r == [req[q] EXCEPT !.pc = "issue", !.jti = j]
<1>1. /\ Formed(req[q]) /\ ~req[q].paid /\ req[q].op # "none" /\ j \in Jtis
      /\ Service(q) \in Services
  BY RequestFacts, PaidConstants DEF PInv, Unpaid, Ops
<1>2. req' = [req EXCEPT ![q] = r]
  OBVIOUS
<1>3. /\ r \in Reqs /\ r.op = req[q].op /\ r.paid = req[q].paid /\ r.pc = "issue"
      /\ r.jti = j
  BY <1>1 DEF Formed, Reqs, Pcs, Unpaid
<1> HIDE DEF r
<1>4. Formed(r) /\ Entitled(r, anchor') /\ ~Calling(r)
  BY <1>1, <1>3 DEF Formed, Entitled, Calling, Unpaid, OfJudge, Service
<1>5. Standing(r, keep'[ServiceOf(r.op)], token', called')
  BY <1>3 DEF Standing, Calling
<1>6. Turned(q, r)
  BY <1>2, <1>4, <1>5 DEF Turned, AloneCalling, Stands
<1>7. Harmless /\ [Next]_vars
  BY UnchangedHarmless
<1>8. Continues(q)
  <2>1. ASSUME NEW p \in Requests, Calling(req[p])
        PROVE  ~HasReceipt(keep[Service(p)])
    BY <2>1, RequestFacts DEF PInv, Standing, Calling
  <2> QED BY <1>7, <2>1 DEF Continues, Harmless, KeepGrows
<1>9. Served
  BY <1>6, <1>8, Telling DEF PInv
<1>10. Rest'
  <2>1. CASE anchor' = anchor
    BY <1>7, <2>1, QuietRest DEF PInv, Lane
  <2> QED BY <2>1
<1>11. LaneTypes'
  BY <1>9 DEF PInv, Lane, LaneTypes, Served
<1> QED BY <1>7, <1>9, <1>10, <1>11 DEF Step, Lane, Served

LEMMA ReadRepairLedgerStep ==
  ASSUME PInv, NEW q \in Requests, ReadRepairLedger(q) PROVE Step
<1>1. req[q].pc = "record?" /\ req[q].pc \in Unpaid /\ Unwritten
  BY DEF ReadRepairLedger, At, Unpaid
<1>2. CASE Refuse(q)
  BY <1>1, <1>2, UnpaidFacts, Refuses DEF Unwritten
<1>3. CASE ~Refuse(q)
  <2>1. req' = [req EXCEPT ![q].pc = "issue", ![q].jti = RepairToken] /\ UNCHANGED told
    BY <1>3 DEF ReadRepairLedger
  <2>2. req[q].op = "repair" /\ Service(q) = "repair"
    BY <1>1, UnpaidFacts DEF Service, ServiceOf
  <2>3. RepairToken \in TokensOf(Service(q))
    BY <2>2, PaidConstants
  <2> QED BY <1>1, <2>1, <2>2, <2>3, Issuing DEF Unwritten
<1> QED BY <1>2, <1>3

LEMMA ReadSuccessorGuardStep ==
  ASSUME PInv, NEW q \in Requests, ReadSuccessorGuard(q) PROVE Step
<1>1. req[q].pc = "guard" /\ req[q].pc \in Unpaid /\ req[q].op = "revised" /\ Unwritten
  BY DEF ReadSuccessorGuard, At, Unpaid
<1>2. CASE Goto(q, "read") /\ UNCHANGED told
  BY <1>1, <1>2, Going DEF Unpaid, OfJudge
<1>3. CASE Refuse(q)
  BY <1>1, <1>3, UnpaidFacts, Refuses DEF Unwritten
<1> QED BY <1>2, <1>3 DEF ReadSuccessorGuard

LEMMA ReadSuccessorStoreStep ==
  ASSUME PInv, NEW q \in Requests, ReadSuccessorStore(q) PROVE Step
<1>1. /\ req[q].pc = "read" /\ req[q].pc \in Unpaid /\ req[q].op = "revised" /\ Unwritten
      /\ UNCHANGED told
  BY DEF ReadSuccessorStore, At, Unpaid
<1>2. CASE Kept(q).state = "captured"
  <2>1. ToCaptured(q)
    BY <1>2 DEF ReadSuccessorStore
  <2> QED BY <1>1, <1>2, <2>1, Settling DEF HasReceipt
<1>3. CASE Kept(q).state # "captured"
  <2>1. req' = [req EXCEPT ![q].pc = "issue", ![q].jti = SuccessorToken]
    BY <1>3 DEF ReadSuccessorStore
  <2>2. Service(q) = "revised"
    BY <1>1 DEF Service, ServiceOf
  <2>3. SuccessorToken \in TokensOf(Service(q))
    BY <2>2, PaidConstants
  <2> QED BY <1>1, <2>1, <2>2, <2>3, Issuing DEF Unwritten
<1> QED BY <1>2, <1>3

\* The first claims written are every request's claims.
LEMMA AnchorRest ==
  ASSUME PInv, NEW j \in JudgeTokens, anchor = NoAnchor, UNCHANGED <<vars, keep, called>>,
         anchor' = [jti |-> j, expires |-> now + TokenTTL]
  PROVE  Rest' /\ anchor' # NoAnchor
<1>1. anchor' \in Anchors
  BY ClockIsNat DEF Anchors
<1>2. anchor' # NoAnchor
  BY <1>1, PaidAssumption DEF PaidAssumption, Anchors
<1>3. \A k \in JudgeTokens : token[k] = "absent"
  BY DEF PInv, Lane, Rest, Anchored
<1>4. Anchored'
  BY <1>1, <1>3 DEF Anchored, vars
<1>5. RecordsHold' /\ CalledOnce' /\ SettledOnReceipt' /\ DoubtsDated'
  BY DEF PInv, Lane, Rest, RecordsHold, CalledOnce, SettledOnReceipt, DoubtsDated, vars, fields
<1> QED BY <1>2, <1>4, <1>5 DEF Rest

LEMMA AnchorRefuses ==
  ASSUME PInv, NEW q \in Requests, Refuse(q), UNCHANGED <<vars, keep, called>>,
         anchor # NoAnchor => anchor' = anchor, anchor' # anchor => Rest', ~req[q].paid
  PROVE  Step
<1>1. Harmless /\ [Next]_vars
  BY UnchangedHarmless
<1>2. CASE anchor' = anchor
  BY <1>2, Refuses
<1>3. CASE anchor' # anchor
  <2>1. ASSUME NEW p \in Requests, Calling(req[p])
        PROVE  ~HasReceipt(keep[Service(p)])
    BY <2>1, RequestFacts DEF PInv, Standing, Calling
  <2>2. Continues(q)
    BY <1>1, <2>1 DEF Continues, Harmless, KeepGrows
  <2>3. Served
    BY <2>2, Refusing DEF PInv
  <2>4. LaneTypes'
    BY <2>3 DEF PInv, Lane, LaneTypes, Served
  <2> QED BY <1>1, <1>3, <2>3, <2>4 DEF Step, Lane, Served
<1> QED BY <1>2, <1>3

LEMMA AnchorAuthorizationStep ==
  ASSUME PInv, NEW q \in Requests, AnchorAuthorization(q) PROVE Step
<1>1. /\ req[q].pc = "anchor" /\ req[q].pc \in Unpaid \cap OfJudge /\ ~req[q].paid
      /\ req[q].op # "status" /\ Service(q) = "judge" /\ UNCHANGED <<vars, keep, called>>
  BY UnpaidFacts DEF AnchorAuthorization, At, Unpaid, OfJudge, OfStatus
<1>2. CASE UNCHANGED anchor /\ Refuse(q)
  BY <1>1, <1>2, Refuses
<1>3. ASSUME NEW j \in JudgeTokens,
             NEW won, won = IF anchor = NoAnchor THEN [jti |-> j, expires |-> now + TokenTTL]
                            ELSE anchor,
             anchor' = won,
             \/ req' = [req EXCEPT ![q].pc = "issue", ![q].jti = won.jti] /\ UNCHANGED told
             \/ Refuse(q)
      PROVE  Step
  <2>1. (anchor # NoAnchor => anchor' = anchor) /\ (anchor' # anchor => Rest')
    BY <1>1, <1>3, AnchorRest
  <2>2. anchor' # NoAnchor /\ anchor'.jti = won.jti
    BY <1>1, <1>3, AnchorRest
  <2>3. won.jti \in TokensOf(Service(q))
    BY <1>1, <1>3, PaidConstants DEF PInv, Lane, Rest, Anchored, Anchors
  <2>4. CASE Refuse(q)
    BY <1>1, <2>1, <2>4, AnchorRefuses
  <2>5. CASE req' = [req EXCEPT ![q].pc = "issue", ![q].jti = won.jti] /\ UNCHANGED told
    BY <1>1, <2>1, <2>2, <2>3, <2>5, Issuing
  <2> QED BY <1>3, <2>4, <2>5
<1> QED BY <1>2, <1>3 DEF AnchorAuthorization

-----------------------------------------------------------------------------
(* The paid call: issue, begin, ask. *)

\* The fields of a request that goes to another step with what it has.
LEMMA GoneTo ==
  ASSUME PInv, NEW q \in Requests, NEW pc \in Pcs, Goto(q, pc)
  PROVE  \E r \in Reqs :
           /\ req' = [req EXCEPT ![q] = r] /\ r.pc = pc
           /\ r.op = req[q].op /\ r.jti = req[q].jti /\ r.art = req[q].art
           /\ r.code = req[q].code /\ r.paid = req[q].paid
<1> DEFINE r == [req[q] EXCEPT !.pc = pc]
<1>1. req[q] \in Reqs
  BY RequestFacts DEF PInv, Formed
<1>2. /\ r \in Reqs /\ r.op = req[q].op /\ r.jti = req[q].jti /\ r.art = req[q].art
      /\ r.code = req[q].code /\ r.paid = req[q].paid /\ r.pc = pc
  BY <1>1 DEF Reqs
<1>3. req' = [req EXCEPT ![q] = r]
  BY DEF Goto
<1> QED BY <1>2, <1>3

LEMMA IssueRest ==
  ASSUME PInv, NEW q \in Requests, req[q].pc = "issue", Issue(req[q].jti),
         UNCHANGED <<keep, anchor, called>>
  PROVE  Rest' /\ Grows
<1> DEFINE j == req[q].jti
<1>1. /\ j \in Jtis /\ j \in TokensOf(Service(q)) /\ Service(q) \in Services
      /\ Service(q) = "judge" => anchor # NoAnchor /\ anchor.jti = j
  BY UnpaidFacts DEF Unpaid
<1>2. Grows /\ KnownBut({}) /\ NewBut({j}) /\ Dated
  BY <1>1, IssueMoves DEF PInv
<1>3. RecordsHold'
  <2>1. ASSUME NEW s \in Services
        PROVE  RecordOf(s, keep[s], token')
    BY <1>2, RecordFacts DEF PInv, RecordOf, Grows, HasReceipt
  <2> QED BY <2>1 DEF RecordsHold
<1>4. Anchored'
  <2>1. ASSUME NEW k \in JudgeTokens, token'[k] # "absent"
        PROVE  anchor # NoAnchor /\ anchor.jti = k
    <3>1. k \in Jtis
      BY PaidConstants
    <3>2. CASE k = j
      <4>1. Service(q) = "judge"
        BY <1>1, <3>2, PaidConstants DEF Services
      <4> QED BY <1>1, <3>2, <4>1
    <3>3. CASE k # j
      BY <1>2, <2>1, <3>1, <3>3 DEF NewBut, PInv, Lane, Rest, Anchored
    <3> QED BY <3>2, <3>3
  <2> QED BY <2>1 DEF Anchored, PInv, Lane, Rest
<1>5. CalledOnce'
  BY <1>2 DEF PInv, Lane, Rest, CalledOnce, Grows
<1>6. SettledOnReceipt'
  <2>1. ASSUME NEW s \in Services, NEW k \in TokensOf(s), token'[k] = "KNOWN"
        PROVE  /\ HasReceipt(keep[s]) /\ keep[s].art = Receipt(k, 1, actual'[k])
               /\ response'[k] = <<k, 1>>
    <3>1. k \in Jtis
      BY PaidConstants
    <3>2. token[k] = "KNOWN" /\ actual'[k] = actual[k] /\ response'[k] = response[k]
      BY <1>2, <2>1, <3>1 DEF KnownBut, Grows
    <3> QED BY <3>2 DEF PInv, Lane, Rest, SettledOnReceipt
  <2> QED BY <2>1 DEF SettledOnReceipt
<1>7. DoubtsDated'
  BY <1>2 DEF PInv, Lane, Rest, Dated
<1> QED BY <1>2, <1>3, <1>4, <1>5, <1>6, <1>7 DEF Rest

LEMMA IssueAuthorizationStep ==
  ASSUME PInv, NEW q \in Requests, IssueAuthorization(q) PROVE Step
<1> DEFINE j == req[q].jti
<1>1. /\ req[q].pc = "issue" /\ req[q].pc \in Unpaid /\ ~req[q].paid /\ j \in Jtis
      /\ Formed(req[q]) /\ Entitled(req[q], anchor)
  BY UnpaidFacts, RequestFacts DEF IssueAuthorization, At, Unpaid, PInv
<1>2. ASSUME Continues(q), UNCHANGED <<keep, anchor>>, Goto(q, "begin"), UNCHANGED told
      PROVE  Served
  <2>1. PICK r \in Reqs :
          /\ req' = [req EXCEPT ![q] = r] /\ r.pc = "begin" /\ r.op = req[q].op
          /\ r.jti = req[q].jti /\ r.paid = req[q].paid
    BY <1>2, GoneTo DEF Pcs, Unpaid
  <2>2. Formed(r) /\ Entitled(r, anchor) /\ ~Calling(r)
    BY <1>1, <2>1 DEF Formed, Entitled, Calling, Unpaid, OfJudge, OfStatus
  <2>3. Standing(r, keep'[ServiceOf(r.op)], token', called')
    BY <2>1 DEF Standing, Calling
  <2>4. Turned(q, r)
    BY <1>2, <2>1, <2>2, <2>3 DEF Turned, Stands, AloneCalling
  <2> QED BY <1>2, <2>4, Telling DEF PInv
<1>3. CASE Issue(j) /\ UNCHANGED keep /\ Returned(q, Goto(q, "begin") /\ UNCHANGED told)
  <2>1. UNCHANGED <<keep, anchor, called>> /\ [Next]_vars
    BY <1>1, <1>3 DEF Returned, Next
  <2>2. Rest' /\ Continues(q)
    BY <1>1, <1>3, <2>1, IssueRest, QuietContinues DEF PInv
  <2>3. Served
    BY <1>2, <1>3, <2>1, <2>2, Failing DEF Returned, PInv
  <2>4. LaneTypes'
    BY <2>1, <2>3 DEF PInv, Lane, LaneTypes, Served
  <2> QED BY <2>1, <2>2, <2>3, <2>4 DEF Step, Lane, Served
<1>4. CASE UNCHANGED <<vars, keep>> /\ Returned(q, Goto(q, "begin") /\ UNCHANGED told)
  <2>1. UNCHANGED <<keep, anchor, called>> /\ [Next]_vars /\ Harmless
    BY <1>4, UnchangedHarmless DEF Returned
  <2>2. Continues(q)
    BY <2>1, QuietContinues DEF PInv, Harmless
  <2>3. Served
    BY <1>2, <1>4, <2>1, <2>2, Failing DEF Returned, PInv
  <2> QED BY <2>1, <2>3, Quietly
<1>5. CASE Refuse(q) /\ Unwritten
  BY <1>1, <1>5, Refuses DEF Unwritten
<1>6. CASE Unsent(q)
  BY <1>6, Fails DEF Unsent
<1> QED BY <1>3, <1>4, <1>5, <1>6 DEF IssueAuthorization

\* A service whose authorization is not granted yet has no receipt, and nobody calls for it.
LEMMA NobodyCalls ==
  ASSUME PInv, NEW q \in Requests, req[q].pc = "begin", token[req[q].jti] = "ISSUED"
  PROVE  /\ ~HasReceipt(Kept(q)) /\ called[req[q].jti] = 0
         /\ \A p \in Requests : ~(Calling(req[p]) /\ Service(p) = Service(q))
<1> DEFINE j == req[q].jti
<1>1. /\ j \in Jtis /\ j \in TokensOf(Service(q)) /\ Service(q) \in Services
      /\ Service(q) = "judge" => anchor # NoAnchor /\ anchor.jti = j
  BY UnpaidFacts DEF Unpaid
<1>2. ASSUME NEW k \in TokensOf(Service(q)), k \in Jtis, token[k] \in Spending
      PROVE  k = j
  <2>1. CASE Service(q) = "judge"
    BY <1>1, <1>2, <2>1, PaidConstants DEF PInv, Lane, Rest, Anchored, Spending
  <2>2. CASE Service(q) # "judge"
    BY <1>1, <1>2, <2>2, PaidConstants DEF Services
  <2> QED BY <2>1, <2>2
<1>3. token[j] \notin Spending
  BY DEF Spending
<1>4. ~HasReceipt(Kept(q))
  BY <1>1, <1>2, <1>3, RecordFacts DEF PInv, RecordOf, Kept
<1>5. called[j] = 0
  BY <1>1, <1>3 DEF PInv, Lane, Rest, CalledOnce
<1>6. ASSUME NEW p \in Requests, Calling(req[p]), Service(p) = Service(q)
      PROVE  FALSE
  <2>1. token[req[p].jti] \in Spending
    BY <1>6, RequestFacts DEF PInv, Standing, Calling
  <2>2. req[p].jti \in TokensOf(Service(q))
    BY <1>6, RequestFacts, FormedFields DEF PInv, Entitled, Calling, Service
  <2> QED BY <1>2, <1>3, <2>1, <2>2, PaidConstants, <1>1
<1> QED BY <1>4, <1>5, <1>6

LEMMA BeginCallStep ==
  ASSUME PInv, NEW q \in Requests, BeginCall(q) PROVE Step
<1> DEFINE j == req[q].jti
<1>1. /\ req[q].pc = "begin" /\ req[q].pc \in Unpaid /\ ~req[q].paid /\ j \in Jtis
      /\ Formed(req[q]) /\ Entitled(req[q], anchor)
  BY UnpaidFacts, RequestFacts DEF BeginCall, At, Unpaid, PInv
<1>2. CASE /\ Begin(j) /\ UNCHANGED keep
           /\ Returned(q, IF token'[j] = "IN_FLIGHT" THEN Goto(q, "provider") /\ UNCHANGED told
                          ELSE Refuse(q))
  <2>1. UNCHANGED <<keep, anchor, called>> /\ [Next]_vars
    BY <1>1, <1>2 DEF Returned, Next
  <2>2. Harmless /\ (token'[j] = "IN_FLIGHT" => token[j] = "ISSUED")
    BY <1>1, <1>2, BeginMoves DEF PInv
  <2>3. Continues(q)
    BY <2>1, <2>2, QuietContinues DEF PInv, Harmless
  <2> SUFFICES Served
    BY <2>1, <2>2, Quietly
  <2>4. CASE Goto(q, "provider") /\ UNCHANGED told /\ token'[j] = "IN_FLIGHT"
    <3>1. PICK r \in Reqs :
            /\ req' = [req EXCEPT ![q] = r] /\ r.pc = "provider" /\ r.op = req[q].op
            /\ r.jti = req[q].jti /\ r.paid = req[q].paid
      BY <2>4, GoneTo DEF Pcs, Unpaid
    <3>2. /\ ~HasReceipt(Kept(q)) /\ called[j] = 0
          /\ \A p \in Requests : ~(Calling(req[p]) /\ Service(p) = Service(q))
      BY <1>1, <2>2, <2>4, NobodyCalls
    <3>3. Formed(r) /\ Entitled(r, anchor)
      BY <1>1, <3>1 DEF Formed, Entitled, Unpaid, OfJudge, OfStatus
    <3>4. Standing(r, keep[ServiceOf(r.op)], token', called)
      BY <2>4, <3>1, <3>2 DEF Standing, Calling, Kept, Service, Spending
    <3>5. Turned(q, r)
      BY <2>1, <3>1, <3>2, <3>3, <3>4 DEF Turned, Stands, AloneCalling, Service
    <3> QED BY <2>3, <2>4, <3>5, Telling DEF PInv
  <2>5. CASE Refuse(q)
    BY <1>1, <2>3, <2>5, Refusing DEF PInv
  <2>6. CASE Fail(q)
    BY <2>3, <2>6, Failing DEF PInv
  <2> QED BY <1>2, <2>4, <2>5, <2>6 DEF Returned
<1>3. CASE Refuse(q) /\ Unwritten
  BY <1>1, <1>3, Refuses DEF Unwritten
<1>4. CASE Unsent(q)
  BY <1>4, Fails DEF Unsent
<1> QED BY <1>2, <1>3, <1>4 DEF BeginCall

\* The provider is reached once: the call is in flight and was never made.
LEMMA AskProviderStep ==
  ASSUME PInv, NEW q \in Requests, AskProvider(q) PROVE Step
<1> DEFINE j == req[q].jti
<1>1. /\ req[q].pc = "provider" /\ req[q].pc \in Unpaid /\ ~req[q].paid
      /\ j \in Jtis /\ j \in TokensOf(Service(q)) /\ Service(q) \in Services
      /\ Formed(req[q]) /\ Entitled(req[q], anchor)
      /\ Standing(req[q], keep[Service(q)], token, called)
      /\ UNCHANGED <<vars, keep, anchor, told>>
  BY UnpaidFacts, RequestFacts DEF AskProvider, At, Unpaid, PInv
<1>2. token[j] \in Spending /\ ~HasReceipt(keep[Service(q)]) /\ called[j] = 0
  BY <1>1 DEF Standing, Calling
<1>3. called' = [called EXCEPT ![j] = called[j] + 1] /\ DOMAIN called = Jtis
  BY DEF AskProvider, PInv, Lane, LaneTypes
<1>4. called'[j] = 1 /\ \A k \in Jtis \ {j} : called'[k] = called[k]
  BY <1>1, <1>2, <1>3
<1>5. Harmless /\ [Next]_vars
  BY <1>1, UnchangedHarmless
<1>6. ASSUME NEW p \in Requests \ {q}, Calling(req[p])
      PROVE  /\ ~HasReceipt(keep[Service(p)]) /\ called'[req[p].jti] = called[req[p].jti]
             /\ Service(p) # Service(q)
  <2>1. Service(p) # Service(q)
    BY <1>1, <1>6 DEF PInv, Lane, OneCaller, Calling
  <2>2. ~HasReceipt(keep[Service(p)]) /\ req[p].jti \in TokensOf(Service(p))
        /\ Service(p) \in Services
    BY <1>6, RequestFacts, FormedFields DEF PInv, Entitled, Calling, Service, Standing
  <2>3. req[p].jti \in Jtis /\ req[p].jti # j
    BY <1>1, <2>1, <2>2, PaidConstants
  <2> QED BY <1>4, <2>1, <2>2, <2>3
<1>7. Continues(q)
  BY <1>1, <1>5, <1>6 DEF Continues, Harmless, KeepGrows
<1>8. ASSUME NEW r \in Reqs, req' = [req EXCEPT ![q] = r],
             r.op = req[q].op, r.jti = req[q].jti, r.paid,
             \/ r.pc = "capture" /\ r.art \in Answered /\ r.art.jti = j
             \/ r.pc = "record" /\ r.op = "decide" /\ r.code = "provider"
             \/ r.pc = "doubt" /\ r.code = "provider"
      PROVE  Served
  <2>1. Formed(r)
    BY <1>1, <1>8 DEF Formed, Unpaid, OfJudge, OfStatus
  <2>2. Entitled(r, anchor')
    BY <1>1, <1>8 DEF Entitled
  <2>3. Standing(r, keep'[ServiceOf(r.op)], token', called')
    BY <1>1, <1>2, <1>5, <1>8 DEF Standing, Calling, Service, Harmless, Grows
  <2>4. AloneCalling(q, r)
    BY <1>6, <1>8 DEF AloneCalling, Service
  <2>5. Turned(q, r)
    BY <1>8, <2>1, <2>2, <2>3, <2>4 DEF Turned, Stands
  <2> QED BY <1>1, <1>7, <2>5, Telling DEF PInv
<1>15. Rest'
  <2>1. CalledOnce'
    BY <1>1, <1>2, <1>4 DEF PInv, Lane, Rest, CalledOnce, vars
  <2>2. RecordsHold' /\ Anchored' /\ SettledOnReceipt' /\ DoubtsDated'
    BY <1>1 DEF PInv, Lane, Rest, RecordsHold, Anchored, SettledOnReceipt, DoubtsDated, vars,
                fields
  <2> QED BY <2>1, <2>2 DEF Rest
<1> SUFFICES Served
  <2>1. ASSUME Served PROVE LaneTypes'
    BY <1>1, <1>3, <2>1 DEF PInv, Lane, LaneTypes, Served
  <2> QED BY <1>5, <1>15, <2>1 DEF Step, Lane, Served
<1>9. CASE \E c \in Costs : req' = [req EXCEPT ![q].pc = "capture", ![q].paid = TRUE,
                                               ![q].art = Receipt(j, called'[j], c)]
  <2>1. PICK c \in Costs : req' = [req EXCEPT ![q].pc = "capture", ![q].paid = TRUE,
                                              ![q].art = Receipt(j, called'[j], c)]
    BY <1>9
  <2> DEFINE a == Receipt(j, 1, c)
             r == [req[q] EXCEPT !.pc = "capture", !.paid = TRUE, !.art = a]
  <2>2. req' = [req EXCEPT ![q] = r]
    BY <1>4, <2>1
  <2>3. a \in Answered /\ a.jti = j
    BY <1>1 DEF Answered, Receipt
  <2> HIDE DEF a
  <2>4. /\ r \in Reqs /\ r.op = req[q].op /\ r.jti = req[q].jti /\ r.paid /\ r.pc = "capture"
        /\ r.art = a
    BY <1>1, <2>3 DEF Formed, Reqs, Pcs
  <2> HIDE DEF r
  <2> QED BY <1>8, <2>2, <2>3, <2>4
<1>10. CASE req' = [req EXCEPT ![q].pc = IF req[q].op = "decide" THEN "record" ELSE "doubt",
                               ![q].paid = TRUE, ![q].code = "provider"]
  <2> DEFINE pc == IF req[q].op = "decide" THEN "record" ELSE "doubt"
             r == [req[q] EXCEPT !.pc = pc, !.paid = TRUE, !.code = "provider"]
  <2>1. req' = [req EXCEPT ![q] = r]
    BY <1>10
  <2>2. /\ r \in Reqs /\ r.op = req[q].op /\ r.jti = req[q].jti /\ r.paid /\ r.pc = pc
        /\ r.code = "provider"
    BY <1>1 DEF Formed, Reqs, Pcs
  <2> HIDE DEF r
  <2> QED BY <1>8, <2>1, <2>2
<1> QED BY <1>9, <1>10 DEF AskProvider

-----------------------------------------------------------------------------
(* What is kept: a receipt, its settlement and its seal, or a doubt. *)

KeptRecords == [state : {"empty", "uncertain", "captured", "sealed"},
                art : Answered \cup Doubts \cup {NoArt}]

\* The record of one service is written, saying no less than it did.
LEMMA Writing ==
  ASSUME PInv, NEW q \in Requests, NEW s \in Services, NEW e \in KeptRecords,
         keep' = [keep EXCEPT ![s] = e], UNCHANGED <<vars, anchor, called>>,
         RecordOf(s, e, token),
         HasReceipt(keep[s]) => HasReceipt(e) /\ e.art = keep[s].art,
         keep[s].state = "sealed" => e.state = "sealed",
         keep[s].state = "uncertain" => e.state = "uncertain",
         HasReceipt(e) => HasReceipt(keep[s]) \/ (Service(q) = s /\ Calling(req[q]))
  PROVE  Continues(q) /\ keep'[s] = e /\ (Served => Step)
<1>1. keep \in [Services -> KeptRecords]
  BY DEF PInv, Lane, LaneTypes, KeptRecords
<1>2. /\ keep' \in [Services -> KeptRecords] /\ keep'[s] = e
      /\ \A t \in Services \ {s} : keep'[t] = keep[t]
  BY <1>1
<1>3. KeepGrows(keep, keep')
  BY <1>2 DEF KeepGrows
<1>4. Harmless /\ [Next]_vars
  BY UnchangedHarmless
<1>5. ASSUME NEW p \in Requests \ {q}, Calling(req[p])
      PROVE  ~HasReceipt(keep'[Service(p)])
  <2>1. ~HasReceipt(keep[Service(p)]) /\ Service(p) \in Services
    BY <1>5, RequestFacts DEF PInv, Standing, Calling
  <2>2. CASE Service(p) = s
    <3>1. ~(Service(q) = s /\ Calling(req[q]))
      BY <1>5, <2>2 DEF PInv, Lane, OneCaller
    <3> QED BY <1>2, <2>1, <2>2, <3>1
  <2>3. CASE Service(p) # s
    BY <1>2, <2>1, <2>3
  <2> QED BY <2>2, <2>3
<1>6. Continues(q)
  BY <1>3, <1>4, <1>5 DEF Continues, Harmless
<1>7. Rest'
  <2>1. RecordsHold'
    <3>1. \A t \in Services : RecordOf(t, keep'[t], token)
      BY <1>2, RecordFacts DEF PInv
    <3> QED BY <3>1 DEF RecordsHold, vars
  <2>2. SettledOnReceipt'
    <3>1. ASSUME NEW t \in Services, NEW j \in TokensOf(t), token[j] = "KNOWN"
          PROVE  /\ HasReceipt(keep'[t]) /\ keep'[t].art = Receipt(j, 1, actual[j])
                 /\ response[j] = <<j, 1>>
      BY <1>2, <3>1 DEF PInv, Lane, Rest, SettledOnReceipt
    <3> QED BY <3>1 DEF SettledOnReceipt, vars, fields
  <2>3. Anchored' /\ CalledOnce' /\ DoubtsDated'
    BY DEF PInv, Lane, Rest, Anchored, CalledOnce, DoubtsDated, vars, fields
  <2> QED BY <2>1, <2>2, <2>3 DEF Rest
<1>8. ASSUME Served PROVE LaneTypes'
  BY <1>2, <1>8 DEF PInv, Lane, LaneTypes, Served, KeptRecords
<1> QED BY <1>2, <1>4, <1>6, <1>7, <1>8 DEF Step, Lane, Served

LEMMA KeepReceiptStep ==
  ASSUME PInv, NEW q \in Requests, KeepReceipt(q) PROVE Step
<1>1. /\ req[q].pc = "capture" /\ Calling(req[q]) /\ Formed(req[q]) /\ Entitled(req[q], anchor)
      /\ Standing(req[q], keep[Service(q)], token, called) /\ Service(q) \in Services
      /\ req[q].paid
  BY RequestFacts, FormedFields DEF KeepReceipt, At, PInv, Calling
<1>2. /\ req[q].art \in Answered /\ req[q].art.jti = req[q].jti
      /\ req[q].jti \in TokensOf(Service(q))
  BY <1>1 DEF Formed, Entitled, Service
<1>3. token[req[q].jti] \in Spending /\ ~HasReceipt(Kept(q))
  BY <1>1 DEF Standing, Kept
<1>4. RecordOf(Service(q), Kept(q), token)
  BY <1>1, RecordFacts DEF PInv, Kept
<1>5. CASE /\ Kept(q).state = "empty" \/ Kept(q).art = req[q].art
           /\ keep' = IF Kept(q).state = "empty" THEN Keeping(q, "captured") ELSE keep
           /\ UNCHANGED vars
           /\ Returned(q, Goto(q, "settle") /\ UNCHANGED told)
  <2>1. Kept(q).state = "empty"
    <3>1. Kept(q).state # "uncertain" \/ Kept(q).art \in Doubts
      BY <1>4 DEF RecordOf
    <3> QED BY <1>2, <1>3, <1>4, <1>5, <3>1, ReceiptIsNoDoubt DEF RecordOf, HasReceipt
  <2> DEFINE e == [state |-> "captured", art |-> req[q].art]
  <2>2. keep' = [keep EXCEPT ![Service(q)] = e]
    BY <1>5, <2>1 DEF Keeping
  <2>3. e.state = "captured" /\ e.art = req[q].art /\ e \in KeptRecords
    BY <1>2 DEF KeptRecords
  <2> HIDE DEF e
  <2>4. RecordOf(Service(q), e, token) /\ HasReceipt(e)
    BY <1>2, <1>3, <2>3 DEF RecordOf, HasReceipt
  <2>5. Continues(q) /\ keep'[Service(q)] = e /\ (Served => Step)
    BY <1>1, <1>3, <1>5, <2>1, <2>2, <2>3, <2>4, Writing DEF Kept, Returned
  <2> SUFFICES Served
    BY <2>5
  <2>6. CASE Fail(q)
    BY <2>5, <2>6, Failing DEF PInv
  <2>7. CASE Goto(q, "settle") /\ UNCHANGED told
    <3>1. PICK r \in Reqs :
            /\ req' = [req EXCEPT ![q] = r] /\ r.pc = "settle" /\ r.op = req[q].op
            /\ r.jti = req[q].jti /\ r.paid = req[q].paid /\ r.art = req[q].art
      BY <2>7, GoneTo DEF Pcs
    <3>2. Formed(r) /\ Entitled(r, anchor) /\ ~Calling(r)
      BY <1>1, <3>1 DEF Formed, Entitled, Unpaid, OfJudge, OfStatus, Calling
    <3>3. Standing(r, keep'[ServiceOf(r.op)], token', called')
      BY <2>3, <2>4, <2>5, <3>1, <3>2 DEF Standing, Service
    <3>4. Turned(q, r)
      BY <1>5, <3>1, <3>2, <3>3 DEF Turned, Stands, AloneCalling, Returned
    <3> QED BY <2>5, <2>7, <3>4, Telling DEF PInv
  <2> QED BY <1>5, <2>6, <2>7 DEF Returned
<1>6. CASE Fail(q) /\ Unwritten
  BY <1>6, Fails DEF Unwritten
<1>7. CASE Unsent(q)
  BY <1>7, Fails DEF Unsent
<1> QED BY <1>5, <1>6, <1>7 DEF KeepReceipt

LEMMA SealReceiptStep ==
  ASSUME PInv, NEW q \in Requests, SealReceipt(q) PROVE Step
<1>1. /\ req[q].pc = "seal" /\ Formed(req[q]) /\ Entitled(req[q], anchor)
      /\ Standing(req[q], keep[Service(q)], token, called) /\ Service(q) \in Services
  BY RequestFacts DEF SealReceipt, At, PInv
<1>2. /\ req[q].art \in Answered /\ HasReceipt(Kept(q)) /\ Kept(q).art = req[q].art
      /\ token[req[q].art.jti] = "KNOWN"
  BY <1>1 DEF Formed, Standing, Kept
<1>3. RecordOf(Service(q), Kept(q), token)
  BY <1>1, RecordFacts DEF PInv, Kept
<1>4. CASE /\ keep' = Keeping(q, "sealed") /\ UNCHANGED vars
           /\ Returned(q, Goto(q, "check") /\ UNCHANGED told)
  <2> DEFINE e == [state |-> "sealed", art |-> req[q].art]
  <2>1. keep' = [keep EXCEPT ![Service(q)] = e]
    BY <1>4 DEF Keeping
  <2>2. e.state = "sealed" /\ e.art = req[q].art /\ e \in KeptRecords
    BY <1>2 DEF KeptRecords
  <2> HIDE DEF e
  <2>3. RecordOf(Service(q), e, token) /\ HasReceipt(e)
    BY <1>2, <1>3, <2>2 DEF RecordOf, HasReceipt
  <2>4. Kept(q).state # "uncertain"
    BY <1>2 DEF HasReceipt
  <2>5. Continues(q) /\ keep'[Service(q)] = e /\ (Served => Step)
    BY <1>1, <1>2, <1>4, <2>1, <2>2, <2>3, <2>4, Writing DEF Kept, Returned
  <2> SUFFICES Served
    BY <2>5
  <2>6. CASE Fail(q)
    BY <2>5, <2>6, Failing DEF PInv
  <2>7. CASE Goto(q, "check") /\ UNCHANGED told
    <3>1. PICK r \in Reqs :
            /\ req' = [req EXCEPT ![q] = r] /\ r.pc = "check" /\ r.op = req[q].op
            /\ r.jti = req[q].jti /\ r.paid = req[q].paid
      BY <2>7, GoneTo DEF Pcs
    <3>2. Formed(r) /\ Entitled(r, anchor) /\ ~Calling(r)
      BY <1>1, <3>1 DEF Formed, Entitled, Unpaid, OfJudge, OfStatus, Calling
    <3>3. Standing(r, keep'[ServiceOf(r.op)], token', called')
      BY <2>2, <2>5, <3>1, <3>2 DEF Standing, Service
    <3>4. Turned(q, r)
      BY <1>4, <3>1, <3>2, <3>3 DEF Turned, Stands, AloneCalling, Returned
    <3> QED BY <2>5, <2>7, <3>4, Telling DEF PInv
  <2> QED BY <1>4, <2>6, <2>7 DEF Returned
<1>5. CASE Fail(q) /\ Unwritten
  BY <1>5, Fails DEF Unwritten
<1>6. CASE Unsent(q)
  BY <1>6, Fails DEF Unsent
<1> QED BY <1>4, <1>5, <1>6 DEF SealReceipt

\* A call is settled on the receipt that is kept.
LEMMA SettleRest ==
  ASSUME PInv, NEW s \in Services, NEW a \in Answered, HasReceipt(keep[s]), keep[s].art = a,
         SettleKnown(a.jti, a.cost, a.response, KnownDigest(a)),
         UNCHANGED <<keep, anchor, called>>
  PROVE  /\ Rest' /\ Grows /\ [Next]_vars
         /\ status' # "halted" => token'[a.jti] = "KNOWN"
<1> DEFINE j == a.jti
<1>1. /\ j \in Jtis /\ a.response = <<j, 1>> /\ a = Receipt(j, 1, a.cost) /\ a.cost \in Costs
      /\ a.response \in Responses /\ KnownDigest(a) \in Digests
  BY ReceiptFields
<1>2. [Next]_vars
  BY <1>1 DEF Next
<1>3. /\ Grows /\ KnownBut({j}) /\ NewBut({}) /\ Dated
      /\ status' # "halted" => token'[j] = "KNOWN"
      /\ token'[j] = "KNOWN" =>
           token[j] = "KNOWN" \/ (actual'[j] = a.cost /\ response'[j] = a.response)
  BY <1>1, SettleMoves DEF PInv
<1>4. RecordsHold'
  <2>1. ASSUME NEW t \in Services
        PROVE  RecordOf(t, keep[t], token')
    BY <1>3, RecordFacts DEF PInv, RecordOf, Grows, HasReceipt
  <2> QED BY <2>1 DEF RecordsHold
<1>5. Anchored'
  BY <1>3, PaidConstants DEF PInv, Lane, Rest, Anchored, NewBut
<1>6. CalledOnce'
  BY <1>3 DEF PInv, Lane, Rest, CalledOnce, Grows
<1>7. SettledOnReceipt'
  <2>1. ASSUME NEW t \in Services, NEW k \in TokensOf(t), token'[k] = "KNOWN"
        PROVE  /\ HasReceipt(keep[t]) /\ keep[t].art = Receipt(k, 1, actual'[k])
               /\ response'[k] = <<k, 1>>
    <3>1. k \in Jtis
      BY PaidConstants
    <3>2. CASE token[k] = "KNOWN"
      <4>1. actual'[k] = actual[k] /\ response'[k] = response[k]
        BY <1>3, <3>1, <3>2 DEF Grows
      <4> QED BY <3>2, <4>1 DEF PInv, Lane, Rest, SettledOnReceipt
    <3>3. CASE token[k] # "KNOWN"
      <4>1. k = j
        BY <1>3, <2>1, <3>1, <3>3 DEF KnownBut
      <4>2. actual'[k] = a.cost /\ response'[k] = a.response
        BY <1>3, <2>1, <3>3, <4>1
      <4>3. t = s
        <5>1. j \in TokensOf(s)
          BY RecordFacts DEF PInv, RecordOf
        <5> QED BY <4>1, <5>1, PaidConstants
      <4> QED BY <1>1, <4>1, <4>2, <4>3
    <3> QED BY <3>2, <3>3
  <2> QED BY <2>1 DEF SettledOnReceipt
<1>8. DoubtsDated'
  BY <1>3 DEF PInv, Lane, Rest, Dated
<1> QED BY <1>2, <1>3, <1>4, <1>5, <1>6, <1>7, <1>8 DEF Rest

LEMMA SettleCallStep ==
  ASSUME PInv, NEW q \in Requests, SettleCall(q) PROVE Step
<1> DEFINE a == req[q].art
           again == token[a.jti] = "KNOWN" /\ digest[a.jti] = KnownDigest(a)
<1>1. /\ req[q].pc = "settle" /\ Formed(req[q]) /\ Entitled(req[q], anchor)
      /\ Standing(req[q], keep[Service(q)], token, called) /\ Service(q) \in Services
      /\ req[q].op \in Ops
  BY RequestFacts DEF SettleCall, At, PInv
<1>2. a \in Answered /\ HasReceipt(keep[Service(q)]) /\ keep[Service(q)].art = a
  BY <1>1 DEF Formed, Standing
<1>3. ASSUME Continues(q), UNCHANGED <<keep, anchor, called>>, token'[a.jti] = "KNOWN",
             AfterSettling(q)
      PROVE  Served
  <2>1. CASE Service(q) # "judge"
    <3>1. Answer(q, "nothing")
      BY <1>3, <2>1 DEF AfterSettling
    <3> QED BY <1>3, <3>1, Answering DEF PInv
  <2>2. CASE Service(q) = "judge"
    <3>1. Goto(q, "seal") /\ UNCHANGED told
      BY <1>3, <2>2 DEF AfterSettling
    <3>2. PICK r \in Reqs :
            /\ req' = [req EXCEPT ![q] = r] /\ r.pc = "seal" /\ r.op = req[q].op
            /\ r.jti = req[q].jti /\ r.paid = req[q].paid /\ r.art = a
      BY <3>1, GoneTo DEF Pcs
    <3>3. req[q].op \in {"decide", "status"}
      BY <1>1, <2>2, FormedFields DEF Service
    <3>4. Formed(r) /\ Entitled(r, anchor) /\ ~Calling(r)
      BY <1>1, <3>2, <3>3 DEF Formed, Entitled, Unpaid, OfJudge, OfStatus, Calling
    <3>5. Standing(r, keep[ServiceOf(r.op)], token', called)
      BY <1>2, <1>3, <3>2, <3>4 DEF Standing, Service
    <3>6. Turned(q, r)
      BY <1>3, <3>2, <3>4, <3>5 DEF Turned, Stands, AloneCalling
    <3> QED BY <1>3, <3>1, <3>6, Telling DEF PInv
  <2> QED BY <2>1, <2>2
<1>4. CASE /\ SettleKnown(a.jti, a.cost, a.response, KnownDigest(a)) /\ UNCHANGED keep
           /\ Returned(q, IF status' # "halted" THEN AfterSettling(q) ELSE Fail(q))
  <2>1. UNCHANGED <<keep, anchor, called>>
    BY <1>4 DEF Returned
  <2>2. /\ Rest' /\ Grows /\ [Next]_vars
        /\ status' # "halted" => token'[a.jti] = "KNOWN"
    BY <1>1, <1>2, <1>4, <2>1, SettleRest
  <2>3. Continues(q)
    BY <2>1, <2>2, QuietContinues DEF PInv
  <2>4. Served
    BY <1>3, <1>4, <2>1, <2>2, <2>3, Failing DEF PInv, Returned
  <2>5. LaneTypes'
    BY <2>1, <2>4 DEF PInv, Lane, LaneTypes, Served
  <2> QED BY <2>2, <2>4, <2>5 DEF Step, Lane, Served
<1>5. CASE again /\ UNCHANGED <<vars, keep>> /\ Returned(q, AfterSettling(q))
  <2>1. UNCHANGED <<keep, anchor, called>> /\ [Next]_vars /\ Harmless /\ token' = token
    BY <1>5, UnchangedHarmless DEF Returned, vars
  <2>2. Continues(q)
    BY <2>1, QuietContinues DEF PInv, Harmless
  <2>3. Served
    BY <1>3, <1>5, <2>1, <2>2, Failing DEF PInv, Returned
  <2> QED BY <2>1, <2>3, Quietly
<1>6. CASE Fail(q) /\ Unwritten
  BY <1>6, Fails DEF Unwritten
<1>7. CASE Unsent(q)
  BY <1>7, Fails DEF Unsent
<1> QED BY <1>4, <1>5, <1>6, <1>7 DEF SettleCall

\* A doubt of the judge is recorded only where nothing is, and stays.
LEMMA RecordMoves ==
  ASSUME PInv, NEW q \in Requests, NEW d \in Doubts, Service(q) = "judge",
         RecordDoubt(q, d), UNCHANGED <<vars, anchor, called>>
  PROVE  /\ Continues(q) /\ (Served => Step)
         /\ Recordable(q, d) => keep'["judge"].state = "uncertain"
<1> DEFINE e == [state |-> "uncertain", art |-> d]
<1>1. e \in KeptRecords /\ e.state = "uncertain" /\ e.art = d
  BY DEF KeptRecords
<1>2. "judge" \in Services
  BY DEF Services
<1>3. CASE Recordable(q, d)
  <2>1. keep' = [keep EXCEPT !["judge"] = e]
    BY <1>3 DEF RecordDoubt
  <2>2. keep["judge"].state \in {"uncertain", "empty"}
    BY <1>3 DEF Recordable, Kept
  <2> HIDE DEF e
  <2>3. RecordOf("judge", e, token) /\ ~HasReceipt(e) /\ ~HasReceipt(keep["judge"])
    BY <1>1, <2>2 DEF RecordOf, HasReceipt
  <2> QED BY <1>1, <1>2, <2>1, <2>2, <2>3, Writing
<1>4. CASE ~Recordable(q, d)
  <2>1. UNCHANGED <<keep, anchor, called>> /\ [Next]_vars /\ Harmless
    BY <1>4, UnchangedHarmless DEF RecordDoubt
  <2> QED BY <1>4, <2>1, QuietContinues, Quietly DEF PInv, Harmless
<1> QED BY <1>3, <1>4

LEMMA RecordFailureStep ==
  ASSUME PInv, NEW q \in Requests, RecordFailure(q) PROVE Step
<1> DEFINE d == Doubtful(req[q].jti, DoubtDigest(req[q].code), now)
<1>1. /\ req[q].pc = "record" /\ Formed(req[q]) /\ Entitled(req[q], anchor)
      /\ Goto(q, "doubt") /\ UNCHANGED <<vars, anchor, called, told>>
  BY RequestFacts DEF RecordFailure, At, PInv
<1>2. req[q].op = "decide" /\ req[q].paid /\ Service(q) = "judge"
      /\ req[q].code \in {"failed", "provider"}
  BY <1>1 DEF Formed, OfJudge, OfStatus, Service, ServiceOf
<1>3. req[q].jti \in Jtis
  BY <1>1, <1>2, PaidConstants DEF Entitled, Service
<1>4. d \in Doubts
  <2>1. DoubtDigest(req[q].code) \in Digests
    BY <1>2, PaidAssumption DEF PaidAssumption, DoubtDigest
  <2> QED BY <1>3, <2>1, ClockIsNat DEF Doubtful, Doubts
<1>5. Continues(q) /\ (Served => Step)
  <2>1. CASE RecordDoubt(q, d)
    BY <1>1, <1>2, <1>4, <2>1, RecordMoves
  <2>2. CASE UNCHANGED keep
    BY <1>1, <2>2, UnchangedHarmless, QuietContinues, Quietly DEF PInv, Harmless
  <2> QED BY <2>1, <2>2 DEF RecordFailure
<1>6. PICK r \in Reqs :
        /\ req' = [req EXCEPT ![q] = r] /\ r.pc = "doubt" /\ r.op = req[q].op
        /\ r.jti = req[q].jti /\ r.paid = req[q].paid /\ r.code = req[q].code
  BY <1>1, GoneTo DEF Pcs
<1>7. Formed(r) /\ Entitled(r, anchor) /\ ~Calling(r)
  BY <1>1, <1>2, <1>6 DEF Formed, Entitled, Unpaid, OfJudge, OfStatus, Calling
<1>8. Standing(r, keep'[ServiceOf(r.op)], token', called')
  BY <1>6, <1>7 DEF Standing
<1>9. Turned(q, r)
  BY <1>1, <1>6, <1>7, <1>8 DEF Turned, Stands, AloneCalling
<1> QED BY <1>1, <1>5, <1>9, Telling DEF PInv

LEMMA SettleDoubtStep ==
  ASSUME PInv, NEW q \in Requests, SettleDoubt(q) PROVE Step
<1> DEFINE j == req[q].jti
           d == DoubtDigest(req[q].code)
           Failed == IF req[q].op = "revised" THEN Refuse(q) ELSE Answer(q, "nothing")
<1>1. /\ req[q].pc = "doubt" /\ Formed(req[q]) /\ Entitled(req[q], anchor) /\ req[q].op \in Ops
      /\ Service(q) \in Services /\ UNCHANGED <<keep, anchor, called>>
  BY RequestFacts DEF SettleDoubt, At, PInv
<1>2. req[q].paid /\ req[q].code \in {"failed", "provider"}
  BY <1>1 DEF Formed
<1>3. j \in Jtis /\ d \in Digests
  BY <1>1, <1>2, PaidConstants, PaidAssumption DEF Entitled, PaidAssumption, DoubtDigest, Service
<1>4. Harmless /\ [Next]_vars
  <2>1. CASE SettleUncertain(j, d)
    <3>1. token[j] = "IN_FLIGHT" /\ Quarantine(j, d)
      BY <2>1 DEF SettleUncertain
    <3>2. Harmless
      BY <1>3, <3>1, QuarantineMoves DEF PInv
    <3> QED BY <1>3, <2>1, <3>2 DEF Next
  <2>2. CASE UNCHANGED vars
    BY <2>2, UnchangedHarmless
  <2> QED BY <2>1, <2>2 DEF SettleDoubt
<1>5. Continues(q)
  BY <1>1, <1>4, QuietContinues DEF PInv, Harmless
<1>6. Answer(q, "nothing") \/ Failed
  BY DEF SettleDoubt
<1>7. Served
  <2>1. CASE Answer(q, "nothing")
    BY <1>5, <2>1, Answering DEF PInv
  <2>2. CASE Failed
    BY <1>5, <2>1, <2>2, Refusing DEF PInv
  <2> QED BY <1>6, <2>1, <2>2
<1> QED BY <1>1, <1>4, <1>7, Quietly

LEMMA ReapCallStep ==
  ASSUME PInv, NEW q \in Requests, ReapCall(q) PROVE Step
<1> DEFINE a == req[q].art
           again == token[a.jti] = "UNCERTAIN" /\ digest[a.jti] = a.digest
           onward == IF Kept(q).state = "uncertain" /\ Kept(q).art = a THEN "verify"
                     ELSE "orphan"
<1>1. /\ req[q].pc = "reap" /\ req[q].pc \in Unpaid /\ ~req[q].paid /\ a \in Doubts
      /\ Service(q) = "judge" /\ Formed(req[q])
  BY UnpaidFacts, RequestFacts DEF ReapCall, At, Unpaid, OfJudge, PInv
<1>2. a.jti \in Jtis /\ a.digest \in Digests
  BY <1>1 DEF Doubts
<1>3. ASSUME Continues(q), UNCHANGED <<keep, anchor, called>>, Goto(q, onward), UNCHANGED told
      PROVE  Served
  <2>1. PICK r \in Reqs :
          /\ req' = [req EXCEPT ![q] = r] /\ r.pc = onward /\ r.op = req[q].op
          /\ r.art = a /\ r.paid = req[q].paid
    BY <1>3, GoneTo DEF Pcs, Unpaid
  <2>2. r.pc = "verify" => keep["judge"].state = "uncertain"
    BY <1>1, <2>1 DEF Kept
  <2>3. r.pc \in {"verify", "orphan"}
    BY <2>1
  <2>4. Waiting(r, keep)
    BY <1>1, <2>1, <2>2, <2>3 DEF Waiting, Formed, Unpaid, OfJudge, OfStatus
  <2>5. Turned(q, r)
    BY <1>3, <2>1, <2>4, WaitingStands DEF Turned, AloneCalling
  <2> QED BY <1>3, <2>5, Telling DEF PInv
<1>4. ASSUME Harmless, [Next]_vars, UNCHANGED keep, Returned(q, Goto(q, onward) /\ UNCHANGED told)
      PROVE  Step
  <2>1. UNCHANGED <<keep, anchor, called>>
    BY <1>4 DEF Returned
  <2>2. Continues(q)
    BY <1>4, <2>1, QuietContinues DEF PInv, Harmless
  <2>3. Served
    BY <1>3, <1>4, <2>1, <2>2, Failing DEF PInv, Returned
  <2> QED BY <1>4, <2>1, <2>3, Quietly
<1>5. CASE /\ Reap(a.jti, a.digest) /\ UNCHANGED keep
           /\ Returned(q, Goto(q, onward) /\ UNCHANGED told)
  <2>1. token[a.jti] = "IN_FLIGHT" /\ Quarantine(a.jti, a.digest)
    BY <1>5 DEF Reap
  <2>2. Harmless
    BY <1>2, <2>1, QuarantineMoves DEF PInv
  <2>3. [Next]_vars
    BY <1>2, <1>5 DEF Next
  <2> QED BY <1>4, <1>5, <2>2, <2>3
<1>6. CASE UNCHANGED <<vars, keep>> /\ Returned(q, Goto(q, onward) /\ UNCHANGED told)
  BY <1>4, <1>6, UnchangedHarmless
<1>7. CASE Refuse(q) /\ Unwritten
  BY <1>1, <1>7, Refuses DEF Unwritten
<1>8. CASE Unsent(q)
  BY <1>8, Fails DEF Unsent
<1> QED BY <1>5, <1>6, <1>7, <1>8 DEF ReapCall

LEMMA RecordOrphanStep ==
  ASSUME PInv, NEW q \in Requests, RecordOrphan(q) PROVE Step
<1> DEFINE a == IF req[q].art.at = 0 THEN req[q].art ELSE [req[q].art EXCEPT !.at = now]
<1>1. /\ req[q].pc = "orphan" /\ req[q].pc \in Unpaid /\ ~req[q].paid /\ req[q].art \in Doubts
      /\ Service(q) = "judge" /\ Formed(req[q])
  BY UnpaidFacts, RequestFacts DEF RecordOrphan, At, Unpaid, OfJudge, PInv
<1>2. a \in Doubts
  BY <1>1, ClockIsNat DEF Doubts
<1> HIDE DEF a
<1>3. /\ RecordDoubt(q, a) /\ UNCHANGED <<vars, anchor, called>>
      /\ \/ Fail(q)
         \/ Refuse(q)
         \/ Recordable(q, a) /\ Answer(q, "closed")
         \/ Recordable(q, a) /\ Goto(q, "verify") /\ UNCHANGED told
  BY DEF RecordOrphan, Returned, a
<1>4. /\ Continues(q) /\ (Served => Step)
      /\ Recordable(q, a) => keep'["judge"].state = "uncertain"
  BY <1>1, <1>2, <1>3, RecordMoves
<1> SUFFICES Served
  BY <1>4
<1>5. CASE Fail(q)
  BY <1>4, <1>5, Failing DEF PInv
<1>6. CASE Refuse(q)
  BY <1>1, <1>4, <1>6, Refusing DEF PInv
<1>7. CASE Recordable(q, a) /\ Answer(q, "closed")
  BY <1>4, <1>7, Answering DEF PInv, TrueOf
<1>8. CASE Recordable(q, a) /\ Goto(q, "verify") /\ UNCHANGED told
  <2>1. PICK r \in Reqs :
          /\ req' = [req EXCEPT ![q] = r] /\ r.pc = "verify" /\ r.op = req[q].op
          /\ r.paid = req[q].paid
    BY <1>8, GoneTo DEF Pcs, Unpaid
  <2>2. Waiting(r, keep')
    BY <1>1, <1>4, <1>8, <2>1 DEF Waiting, Formed, Unpaid, OfJudge, OfStatus
  <2>3. Turned(q, r)
    BY <2>1, <2>2, WaitingStands DEF Turned, AloneCalling
  <2> QED BY <1>4, <1>8, <2>3, Telling DEF PInv
<1> QED BY <1>3, <1>5, <1>6, <1>7, <1>8

LEMMA StartStep ==
  ASSUME PInv, NEW q \in Requests, NEW op \in Ops, Start(q, op) PROVE Step
<1> DEFINE pc == IF ServiceOf(op) = "judge" THEN "read" ELSE "guard"
           r == [req[q] EXCEPT !.op = op, !.pc = pc]
<1>1. req[q].pc = "free" /\ Formed(req[q]) /\ Unwritten /\ UNCHANGED told
  BY RequestFacts DEF Start, At, PInv, Unwritten
<1>2. req' = [req EXCEPT ![q] = r]
  BY DEF Start
<1>3. r \in Reqs /\ r.op = op /\ r.pc = pc /\ r.paid = req[q].paid
  BY <1>1 DEF Formed, Reqs, Pcs, Unpaid
<1> HIDE DEF r
<1>4. Waiting(r, keep)
  BY <1>1, <1>3 DEF Waiting, Formed, Unpaid, OfJudge, OfStatus, Ops
<1> QED BY <1>1, <1>2, <1>4, Waits

LEMMA DieStep ==
  ASSUME PInv, NEW q \in Requests, Die(q) PROVE Step
<1>1. /\ req' = [req EXCEPT ![q] = Free]
      /\ UNCHANGED <<vars, keep, anchor, called, told>>
  BY DEF Die
<1>2. Harmless /\ [Next]_vars
  BY <1>1, UnchangedHarmless
<1>3. Continues(q)
  BY <1>1, <1>2, QuietContinues DEF PInv, Harmless
<1>4. Turned(q, Free)
  BY <1>1, FreeStands DEF Turned, AloneCalling, Calling, Free
<1>5. Served
  BY <1>1, <1>3, <1>4, Telling DEF PInv
<1> QED BY <1>1, <1>2, <1>5, Quietly

\* A step of the guard alone: the operator's reap, and time.
LEMMA PaidGuardStep ==
  ASSUME PInv, UNCHANGED lane, Harmless, [Next]_vars PROVE Step
<1>1. RequestsStand'
  <2>1. ASSUME NEW q \in Requests
        PROVE  Stands(req[q], keep, anchor, token', called)
    <3>1. Stands(req[q], keep, anchor, token, called) /\ KeepGrows(keep, keep)
      BY DEF PInv, Lane, RequestsStand, KeepGrows
    <3>2. TokensGrow(token, token')
      BY DEF Harmless, Grows, TokensGrow
    <3>3. Calling(req[q]) => ~HasReceipt(keep[ServiceOf(req[q].op)])
      BY RequestFacts DEF PInv, Standing, Calling, Service
    <3> QED BY <3>1, <3>2, <3>3, StillStands
  <2> QED BY <2>1 DEF RequestsStand, lane
<1>2. Served
  BY <1>1 DEF Served, PInv, Lane, LaneTypes, OneCaller, Service, ToldTruly, lane
<1> QED BY <1>2, Quietly DEF lane

LEMMA OperatorReapStep ==
  ASSUME PInv, NEW j \in Jtis, OperatorReap(j) PROVE Step
<1> DEFINE d == DoubtDigest("operator")
<1>1. d \in Digests /\ Reap(j, d) /\ UNCHANGED lane
  BY PaidAssumption DEF PaidAssumption, DoubtDigest, OperatorReap
<1>2. token[j] = "IN_FLIGHT" /\ Quarantine(j, d)
  BY <1>1 DEF Reap
<1>3. Harmless
  BY <1>1, <1>2, QuarantineMoves DEF PInv
<1>4. [Next]_vars
  BY <1>1 DEF Next
<1> QED BY <1>1, <1>3, <1>4, PaidGuardStep

LEMMA TickStep ==
  ASSUME PInv, Tick, UNCHANGED lane PROVE Step
<1>1. [Next]_vars
  BY DEF Next
<1>2. Harmless
  BY StillHarmless DEF Tick, fields
<1> QED BY <1>1, <1>2, PaidGuardStep

LEMMA PaidMoves == ASSUME PInv, [PaidNext]_paidVars PROVE Step
<1>1. ASSUME NEW q \in Requests, Serve(q) PROVE Step
  <2>1. CASE ReadJudgeStore(q) \/ ReadJudgeGuard(q) \/ OrphanRunning(q) \/ OrphanDoubted(q)
             \/ StoredUncertain(q) \/ StoredRunning(q)
    BY <2>1, ReadJudgeStoreStep, ReadJudgeGuardStep, OrphanRunningStep, OrphanDoubtedStep,
       StoredUncertainStep, StoredRunningStep
  <2>2. CASE ReadRepairGuard(q) \/ ReadRepairStore(q) \/ ReadRepairLedger(q)
             \/ ReadSuccessorGuard(q) \/ ReadSuccessorStore(q)
    BY <2>2, ReadRepairGuardStep, ReadRepairStoreStep, ReadRepairLedgerStep,
       ReadSuccessorGuardStep, ReadSuccessorStoreStep
  <2>3. CASE AnchorAuthorization(q) \/ IssueAuthorization(q) \/ BeginCall(q) \/ AskProvider(q)
    BY <2>3, AnchorAuthorizationStep, IssueAuthorizationStep, BeginCallStep, AskProviderStep
  <2>4. CASE KeepReceipt(q) \/ SettleCall(q) \/ SealReceipt(q) \/ CheckSettled(q)
    BY <2>4, KeepReceiptStep, SettleCallStep, SealReceiptStep, CheckSettledStep
  <2>5. CASE RecordFailure(q) \/ SettleDoubt(q) \/ ReapCall(q) \/ RecordOrphan(q)
             \/ VerifyReaped(q)
    BY <2>5, RecordFailureStep, SettleDoubtStep, ReapCallStep, RecordOrphanStep,
       VerifyReapedStep
  <2> QED BY <1>1, <2>1, <2>2, <2>3, <2>4, <2>5 DEF Serve
<1>2. ASSUME UNCHANGED paidVars PROVE Step
  <2>1. UNCHANGED lane /\ Harmless /\ [Next]_vars
    BY <1>2, UnchangedHarmless DEF paidVars
  <2> QED BY <2>1, PaidGuardStep
<1> QED BY <1>1, <1>2, DieStep, StartStep, OperatorReapStep, TickStep DEF PaidNext

LEMMA PaidStep == PInv /\ [PaidNext]_paidVars => PInv'
BY PaidMoves, StepInvariant DEF Step, PInv

-----------------------------------------------------------------------------
(* The states the lifetime is entered in. *)

\* The first n of the two earlier calls, one of each service.
LEMMA EarlierCalls ==
  ASSUME NEW n \in 0 .. 2
  PROVE  /\ Earlier(n) \subseteq Jtis /\ Earlier(n) \cap JudgeTokens = {}
         /\ \A j \in Earlier(n) :
              j \in {RepairToken, SuccessorToken} /\ PurposeOf[j] \in {"repair", "revised"}
         /\ \A j, k \in Earlier(n) : PurposeOf[j] = PurposeOf[k] => j = k
         /\ \A s \in Services, j \in Earlier(n) : j \in TokensOf(s) <=> PurposeOf[j] = s
         /\ \A x \in Purposes :
              Cardinality({j \in Earlier(n) : PurposeOf[j] = x}) =
                CASE x = "repair" -> IF n > 0 THEN 1 ELSE 0
                  [] x = "revised" -> IF n > 1 THEN 1 ELSE 0
                  [] OTHER -> 0
<1>1. PurposeOf[RepairToken] = "repair" /\ PurposeOf[SuccessorToken] = "revised"
      /\ \A j \in JudgeTokens : PurposeOf[j] = "judge"
  BY PaidAssumption, PaidConstants DEF PaidAssumption, Services
<1>2. /\ RepairToken \in Earlier(n) <=> n > 0
      /\ SuccessorToken \in Earlier(n) <=> n > 1
      /\ \A j \in Earlier(n) : j \in {RepairToken, SuccessorToken}
  BY <1>1 DEF Earlier
<1>3. ASSUME NEW x \in Purposes
      PROVE  Cardinality({j \in Earlier(n) : PurposeOf[j] = x}) =
                CASE x = "repair" -> IF n > 0 THEN 1 ELSE 0
                  [] x = "revised" -> IF n > 1 THEN 1 ELSE 0
                  [] OTHER -> 0
  <2> DEFINE S == {j \in Earlier(n) : PurposeOf[j] = x}
  <2>1. CASE x = "repair" /\ n > 0
    <3>1. S = {RepairToken}
      BY <1>1, <1>2, <2>1
    <3> QED BY <2>1, <3>1, FS_Singleton
  <2>2. CASE x = "revised" /\ n > 1
    <3>1. S = {SuccessorToken}
      BY <1>1, <1>2, <2>2
    <3> QED BY <2>2, <3>1, FS_Singleton
  <2>3. CASE ~(x = "repair" /\ n > 0) /\ ~(x = "revised" /\ n > 1)
    <3>1. S = {}
      BY <1>1, <1>2, <2>3
    <3> QED BY <2>3, <3>1, FS_EmptySet
  <2> QED BY <2>1, <2>2, <2>3
<1>4. \A s \in Services, j \in Earlier(n) : j \in TokensOf(s) <=> PurposeOf[j] = s
  BY <1>1, <1>2, PaidConstants DEF Services
<1> QED BY <1>1, <1>2, <1>3, <1>4, PaidConstants

LEMMA EnteredGuard ==
  ASSUME NEW n \in 0 .. 2, NEW c \in Costs, c <= Reservation, EnteredWith(n, c)
  PROVE  IInv
<1> DEFINE made == Earlier(n)
<1>1. /\ made \subseteq Jtis /\ NoJti \notin Jtis
      /\ c \in Nat /\ Reservation \in Nat /\ TokenTTL \in Nat
  BY EarlierCalls, LedgerAssumption DEF LedgerAssumption
<1>2. counts = [x \in Purposes |-> CASE x = "repair" -> IF n > 0 THEN 1 ELSE 0
                                     [] x = "revised" -> IF n > 1 THEN 1 ELSE 0
                                     [] OTHER -> 0]
  BY EarlierCalls DEF EnteredWith
<1> HIDE DEF made
<1>3. TypeOK
  <2>1. /\ status \in {"missing", "open", "quarantined", "halted"}
        /\ haltReason \in HaltReasons \cup {NoHalt} /\ uncertainJti \in Jtis \cup {NoJti}
        /\ policy \in Versions /\ now \in Nat
    BY PolicyAssumption DEF EnteredWith, PolicyAssumption
  <2>2. n * Reservation \in Nat /\ n * c \in Nat
    BY <1>1, Multiply
  <2>3. /\ claimed \in Nat /\ committed \in Nat /\ pending \in Nat /\ known \in Nat
        /\ uncertain \in Nat /\ knownActual \in Nat /\ uncertainUpper \in Nat
        /\ lastSequence \in Nat
    BY <2>2 DEF EnteredWith
  <2>4. counts \in [Purposes -> Nat]
    BY <1>2
  <2>5. lease \in [Jtis -> Nat] /\ expires \in [Jtis -> Nat]
    BY <1>1 DEF EnteredWith
  <2>6. actual \in [Jtis -> Nat] /\ sequence \in [Jtis -> Nat]
    BY <1>1 DEF EnteredWith
  <2>7. token \in [Jtis -> TokenStates]
    BY DEF EnteredWith, TokenStates
  <2>8. \A j \in Jtis : Receipt(j, 1, c) \in Answered /\ Receipt(j, 1, c).response = <<j, 1>>
    BY DEF Answered, Receipt
  <2>9. response \in [Jtis -> Responses \cup {NoResponse}]
    <3>1. \A j \in Jtis : Receipt(j, 1, c).response \in Responses
      BY <2>8, ReceiptFields
    <3> QED BY <3>1 DEF EnteredWith
  <2>10. digest \in [Jtis -> Digests \cup {NoDigest}]
    <3>1. \A j \in Jtis : KnownDigest(Receipt(j, 1, c)) \in Digests
      BY <2>8, ReceiptFields
    <3> QED BY <3>1 DEF EnteredWith
  <2>11. subject \in [Subjects -> Jtis \cup {NoJti}]
    BY <1>1 DEF EnteredWith, made
  <2>12. provider \in [Responses -> Jtis \cup {NoJti}]
    BY <1>1 DEF EnteredWith, made
  <2>13. issued \in [IssueKeys -> Nat]
    <3>1. ASSUME NEW k
          PROVE  Cardinality({j \in made : k = <<PurposeOf[j], ActorOf[j], 0>>}) \in Nat
      <4>1. {j \in made : k = <<PurposeOf[j], ActorOf[j], 0>>} \subseteq Jtis
        BY <1>1
      <4> QED BY <4>1, FS_Subset, FS_CardinalityType, ConstantTypes
    <3> QED BY <3>1 DEF EnteredWith, made
  <2> QED BY <2>1, <2>3, <2>4, <2>5, <2>6, <2>7, <2>9, <2>10, <2>11, <2>12, <2>13 DEF TypeOK
<1>4. Bound
  <2>1. ASSUME NEW j \in Jtis, token[j] # "absent"
        PROVE  subject[SubjectOf[j]] # NoJti
    <3>1. j \in made
      BY <2>1 DEF EnteredWith, made
    <3>2. SubjectOf[j] \in Subjects
      BY DEF Subjects
    <3>3. subject[SubjectOf[j]] = CHOOSE k \in made : SubjectOf[k] = SubjectOf[j]
      BY <3>1, <3>2 DEF EnteredWith, made
    <3> QED BY <1>1, <3>1, <3>3
  <2> QED BY <2>1 DEF Bound
<1>5. Counted
  <2>1. InState("IN_FLIGHT") = {} /\ InState("UNCERTAIN") = {}
    BY DEF EnteredWith, InState
  <2> QED BY <2>1, FS_EmptySet DEF EnteredWith, Counted
<1>6. Conserved
  <2>1. SumOf(counts) = n
    BY <1>2 DEF SumOf, Purposes
  <2>2. n * c <= n * Reservation
    BY <1>1, Multiply
  <2>3. n <= GlobalLimit /\ \A x \in Purposes : counts[x] <= Limit(x)
    <3>1. /\ GlobalLimit \in Nat /\ GlobalLimit >= 2
          /\ \A x \in {"repair", "revised"} : PolicyLimits[1][x] >= 1
      BY PaidAssumption, LedgerAssumption DEF PaidAssumption, LedgerAssumption
    <3>2. \A x \in Purposes : PolicyLimits[1][x] \in Nat
      BY PolicyAssumption DEF PolicyAssumption
    <3>3. policy = 1
      BY DEF EnteredWith
    <3> QED BY <1>2, <3>1, <3>2, <3>3 DEF Limit
  <2> QED BY <1>1, <2>1, <2>2, <2>3 DEF EnteredWith, Conserved
<1>7. Marked /\ NeverHaltsByDrift
  BY DEF EnteredWith, Marked, NeverHaltsByDrift, NoHalt
<1> QED BY <1>3, <1>4, <1>5, <1>6, <1>7 DEF IInv

LEMMA EnteredLane ==
  ASSUME NEW n \in 0 .. 2, NEW c \in Costs, EnteredWith(n, c)
  PROVE  Lane
<1> DEFINE made == Earlier(n)
           Art(s) == Receipt(CHOOSE j \in made : PurposeOf[j] = s, 1, c)
<1>1. /\ made \subseteq Jtis /\ made \cap JudgeTokens = {}
      /\ \A j, k \in made : PurposeOf[j] = PurposeOf[k] => j = k
      /\ \A s \in Services, j \in made : j \in TokensOf(s) <=> PurposeOf[j] = s
  BY EarlierCalls
<1>2. \A j \in Jtis : /\ token[j] = IF j \in made THEN "KNOWN" ELSE "absent"
                      /\ actual[j] = IF j \in made THEN c ELSE 0
                      /\ response[j] = IF j \in made THEN Receipt(j, 1, c).response ELSE NoResponse
                      /\ called[j] = IF j \in made THEN 1 ELSE 0
  BY DEF EnteredWith
<1>3. \A s \in Services : keep[s] = IF \E j \in made : PurposeOf[j] = s
                                    THEN [state |-> "captured", art |-> Art(s)]
                                    ELSE [state |-> "empty", art |-> NoArt]
  BY DEF EnteredWith
<1>4. told = {} /\ anchor = NoAnchor /\ DOMAIN called = Jtis /\ DOMAIN keep = Services
      /\ DOMAIN req = Requests /\ \A q \in Requests : req[q] = Free
  BY DEF EnteredWith
<1> HIDE DEF made
<1>5. ASSUME NEW s \in Services, NEW j \in made, PurposeOf[j] = s
      PROVE  /\ keep[s].state = "captured" /\ keep[s].art = Receipt(j, 1, c)
             /\ keep[s] = [state |-> keep[s].state, art |-> keep[s].art]
             /\ keep[s].art \in Answered
             /\ keep[s].art.jti = j /\ keep[s].art.response = <<j, 1>>
  <2>1. j = CHOOSE k \in made : PurposeOf[k] = s
    BY <1>1, <1>5
  <2>2. Receipt(j, 1, c) \in Answered /\ Receipt(j, 1, c).jti = j
        /\ Receipt(j, 1, c).response = <<j, 1>>
    BY <1>1 DEF Answered, Receipt
  <2>3. keep[s] = [state |-> "captured", art |-> Receipt(j, 1, c)]
    BY <1>3, <1>5, <2>1
  <2>4. keep[s].state = "captured" /\ keep[s].art = Receipt(j, 1, c)
    BY <2>3
  <2> QED BY <2>2, <2>3, <2>4
<1>5b. ASSUME NEW s \in Services, ~\E j \in made : PurposeOf[j] = s
       PROVE  /\ keep[s].state = "empty" /\ keep[s].art = NoArt
              /\ keep[s] = [state |-> keep[s].state, art |-> keep[s].art]
  <2>1. keep[s] = [state |-> "empty", art |-> NoArt]
    BY <1>3, <1>5b
  <2> QED BY <2>1
<1> HIDE DEF Art
<1>6. LaneTypes
  <2>1. ASSUME NEW s \in Services
        PROVE  keep[s] \in [state : {"empty", "uncertain", "captured", "sealed"},
                            art : Answered \cup Doubts \cup {NoArt}]
    <3>1. /\ keep[s] = [state |-> keep[s].state, art |-> keep[s].art]
          /\ keep[s].state \in {"empty", "captured"} /\ keep[s].art \in Answered \cup {NoArt}
      BY <1>5, <1>5b
    <3> QED BY <3>1
  <2>2. keep = [s \in Services |-> keep[s]]
    BY DEF EnteredWith
  <2> QED BY <1>4, <2>1, <2>2 DEF LaneTypes
<1>7. RequestsStand /\ OneCaller
  <2>1. \A q \in Requests : Stands(req[q], keep, anchor, token, called)
    BY <1>4, FreeStands
  <2>2. \A q \in Requests : ~Calling(req[q])
    BY <1>4 DEF Calling, Free
  <2> QED BY <2>1, <2>2 DEF RequestsStand, OneCaller
<1>8. RecordsHold
  <2>1. ASSUME NEW s \in Services
        PROVE  RecordOf(s, keep[s], token)
    <3>1. CASE \E j \in made : PurposeOf[j] = s
      <4>1. PICK j \in made : PurposeOf[j] = s
        BY <3>1
      <4>2. token[j] = "KNOWN" /\ j \in TokensOf(s)
        BY <1>1, <1>2, <4>1
      <4>3. /\ keep[s].state = "captured" /\ keep[s].art \in Answered
            /\ keep[s].art.jti = j
        BY <1>5, <4>1
      <4> QED BY <4>2, <4>3 DEF RecordOf, HasReceipt, Spending
    <3>2. CASE ~\E j \in made : PurposeOf[j] = s
      BY <1>5b, <3>2 DEF RecordOf, HasReceipt
    <3> QED BY <3>1, <3>2
  <2> QED BY <2>1 DEF RecordsHold
<1>9. Anchored
  BY <1>1, <1>2, <1>4, PaidConstants DEF Anchored
<1>10. CalledOnce /\ DoubtsDated
  BY <1>2 DEF CalledOnce, DoubtsDated, Spending
<1>11. SettledOnReceipt
  <2>1. ASSUME NEW s \in Services, NEW j \in TokensOf(s), token[j] = "KNOWN"
        PROVE  /\ HasReceipt(keep[s]) /\ keep[s].art = Receipt(j, 1, actual[j])
               /\ response[j] = <<j, 1>>
    <3>1. j \in Jtis
      BY PaidConstants
    <3>2. j \in made /\ actual[j] = c /\ response[j] = Receipt(j, 1, c).response
      BY <1>2, <2>1, <3>1
    <3>3. PurposeOf[j] = s
      BY <1>1, <3>2
    <3>4. /\ keep[s].state = "captured" /\ keep[s].art = Receipt(j, 1, c)
          /\ keep[s].art.response = <<j, 1>>
      BY <1>5, <3>2, <3>3
    <3>5. HasReceipt(keep[s])
      BY <3>4 DEF HasReceipt
    <3>6. keep[s].art = Receipt(j, 1, actual[j]) /\ response[j] = <<j, 1>>
      BY <3>2, <3>4
    <3> QED BY <3>5, <3>6
  <2> QED BY <2>1 DEF SettledOnReceipt
<1>12. ToldTruly
  BY <1>4 DEF ToldTruly
<1> QED BY <1>6, <1>7, <1>8, <1>9, <1>10, <1>11, <1>12 DEF Lane, Rest

LEMMA PaidInitInvariant == PaidInit => PInv
<1> SUFFICES ASSUME PaidInit PROVE PInv
  OBVIOUS
<1>1. PICK n \in 0 .. 2, c \in {x \in Costs : x <= Reservation} : EnteredWith(n, c)
  BY DEF PaidInit
<1> QED BY <1>1, EnteredGuard, EnteredLane DEF PInv

LEMMA PaidInvariant == PaidSpec => []PInv
<1> QED BY PaidInitInvariant, PaidStep, PTL DEF PaidSpec

\* One paid call and one receipt: at most one judge authorization ever exists, each
\* service reaches the provider at most once, a settled call is settled on the receipt
\* that is kept, and a seal is set only on a settled call.  Two requests that read the
\* same empty record cannot both begin, since the guard grants a token once; and the
\* record that is read before a settlement is the one that is there after it.
THEOREM PaidOnce == PaidSpec => []PaidOnceAndKept
<1>1. PInv => PaidOnceAndKept
  <2> SUFFICES ASSUME PInv PROVE PaidOnceAndKept
    OBVIOUS
  <2>1. Cardinality({j \in JudgeTokens : token[j] # "absent"}) <= 1
    <3> DEFINE S == {j \in JudgeTokens : token[j] # "absent"}
    <3>1. \A j \in S : S = {j}
      BY DEF PInv, Lane, Rest, Anchored
    <3>2. CASE S = {}
      BY <3>2, FS_EmptySet
    <3>3. CASE S # {}
      <4>1. PICK j \in S : S = {j}
        BY <3>1, <3>3
      <4> HIDE DEF S
      <4>2. Cardinality(S) = 1
        BY <4>1, FS_Singleton
      <4> QED BY <4>2 DEF S
    <3> QED BY <3>2, <3>3
  <2>2. ASSUME NEW s \in Services, NEW j \in Jtis, j \in TokensOf(s)
        PROVE  /\ called[j] <= 1
               /\ token[j] = "KNOWN" =>
                    /\ keep[s].state \in {"captured", "sealed"}
                    /\ keep[s].art = Receipt(j, 1, actual[j]) /\ response[j] = <<j, 1>>
               /\ keep[s].state = "sealed" => token[keep[s].art.jti] = "KNOWN"
    <3>1. called[j] <= 1
      BY DEF PInv, Lane, Rest, CalledOnce
    <3>2. token[j] = "KNOWN" =>
            /\ keep[s].state \in {"captured", "sealed"}
            /\ keep[s].art = Receipt(j, 1, actual[j]) /\ response[j] = <<j, 1>>
      BY <2>2 DEF PInv, Lane, Rest, SettledOnReceipt, HasReceipt
    <3>3. keep[s].state = "sealed" => token[keep[s].art.jti] = "KNOWN"
      BY DEF PInv, Lane, Rest, RecordsHold, RecordOf
    <3> QED BY <3>1, <3>2, <3>3
  <2> QED BY <2>1, <2>2 DEF PaidOnceAndKept
<1> QED BY <1>1, PaidInvariant, PTL

\* No two clients are told what cannot both be true of one decision, and no request of
\* Repair or of the judge denies a call it made: what is told follows from a record, and
\* a record is never replaced by one that says otherwise.
THEOREM AnswersHold == PaidSpec => []AnswersAgree
<1>1. PInv => AnswersAgree
  BY DEF PInv, Lane, ToldTruly, AnswersAgree, HasReceipt
<1> QED BY <1>1, PaidInvariant, PTL

\* However the requests of the three services interleave, die and are repeated, the
\* scripts they call find no drift, and what they may have spent stays within the
\* committed reservations and those within the lifetime's ceiling.
THEOREM PaidSpendCapped == PaidSpec => [](NeverHaltsByDrift /\ SpendIsCapped)
<1>1. PInv => NeverHaltsByDrift /\ SpendIsCapped
  BY CapFollows DEF PInv, IInv
<1> QED BY <1>1, PaidInvariant, PTL

-----------------------------------------------------------------------------
(* The paid calls on the guard, one call at a time.                        *)

\* The calls made before the lifetime is entered are the first n.
LEMMA EarlierCount == ASSUME NEW n \in 0 .. 2 PROVE Cardinality(Earlier(n)) = n
<1>1. RepairToken # SuccessorToken
  BY PaidAssumption DEF PaidAssumption, Services, TokensOf
<1>2. CASE n = 0
  <2>1. Earlier(n) = {} BY <1>2 DEF Earlier
  <2> QED BY <1>2, <2>1, FS_EmptySet
<1>3. CASE n = 1
  <2>1. Earlier(n) = {RepairToken} BY <1>1, <1>3 DEF Earlier
  <2> QED BY <1>3, <2>1, FS_Singleton
<1>4. CASE n = 2
  <2>1. Earlier(n) = {RepairToken} \cup {SuccessorToken} BY <1>4 DEF Earlier
  <2>2. IsFiniteSet({RepairToken}) /\ Cardinality({RepairToken}) = 1 BY FS_Singleton
  <2>3. Cardinality({RepairToken} \cup {SuccessorToken}) = 1 + 1
    BY <1>1, <2>2, FS_AddElement
  <2> QED BY <1>4, <2>1, <2>3
<1> QED BY <1>2, <1>3, <1>4

LEMMA EnteredBudget ==
  ASSUME NEW n \in 0 .. 2, NEW c \in Costs, c <= Reservation, EnteredWith(n, c)
  PROVE  BInv
<1>1. Earlier(n) \subseteq Jtis BY EarlierCalls
<1>2. \A j \in Jtis : /\ token[j] = (IF j \in Earlier(n) THEN "KNOWN" ELSE "absent")
                      /\ sequence[j] # 0 <=> j \in Earlier(n)
  BY DEF EnteredWith
<1>3. InState("KNOWN") = Earlier(n)
  <2>1. \A j \in Jtis : token[j] = "KNOWN" <=> j \in Earlier(n) BY <1>2
  <2> QED BY <1>1, <2>1, Zenon DEF InState
<1>4. Dispatched = Earlier(n)
  <2>1. \A j \in Jtis : sequence[j] # 0 <=> j \in Earlier(n) BY <1>2
  <2> QED BY <1>1, <2>1, Zenon DEF Dispatched
<1>5. known = n /\ claimed = n /\ pending = 0 /\ uncertain = 0 /\ status = "open"
      /\ counts = [x \in Purposes |-> Cardinality({j \in Earlier(n) : PurposeOf[j] = x})]
  BY DEF EnteredWith
<1>6. Tallied
  <2>1. \A j \in Jtis : sequence[j] # 0 <=> token[j] \in {"IN_FLIGHT", "KNOWN", "UNCERTAIN"}
    BY <1>2
  <2>2. known = Cardinality(InState("KNOWN")) /\ claimed = Cardinality(Dispatched)
    BY <1>3, <1>4, <1>5, EarlierCount
  <2>3. \A p \in Purposes : counts[p] = Cardinality(DispatchedFor(p))
    BY <1>4, <1>5 DEF DispatchedFor
  <2> QED BY <2>1, <2>2, <2>3 DEF Tallied
<1>7. Serial BY <1>5 DEF Serial
<1> QED BY <1>6, <1>7, EnteredGuard DEF BInv

LEMMA PaidBudgetInvariant ==
  ASSUME MaxConcurrency <= 1
  PROVE  PaidSpec => [](PInv /\ BInv)
<1>1. PaidInit => PInv /\ BInv
  BY PaidInitInvariant, EnteredBudget DEF PaidInit
<1>2. PInv /\ BInv /\ [PaidNext]_paidVars => (PInv /\ BInv)'
  BY PaidMoves, PaidStep, BudgetStep DEF Step
<1> QED BY <1>1, <1>2, PTL DEF PaidSpec

\* With one call at a time the guard's fields are its calls whatever the three services
\* do to it: lost replies, dead requests and two requests that race leave no counter
\* behind, no call in doubt with an open guard, and none that a quarantine does not name.
THEOREM PaidGuardIsItsCalls ==
  ASSUME MaxConcurrency <= 1
  PROVE  PaidSpec => []GuardMatchesCalls
BY PaidBudgetInvariant, FieldsAreCalls, PTL

\* Every step of the services is a step of the abstract call budget or none: a call is
\* made only within the limit and while no other is pending or in doubt.
THEOREM PaidCallsAreBudgeted ==
  ASSUME MaxConcurrency <= 1
  PROVE  PaidSpec => [][Budget!Next]_<<Phase, actual>>
<1>1. PInv /\ BInv /\ [PaidNext]_paidVars => [Budget!Next]_<<Phase, actual>>
  BY PaidMoves, PhaseStep DEF Step
<1> QED BY <1>1, PaidBudgetInvariant, PTL DEF PaidSpec

=============================================================================
