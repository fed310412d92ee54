------------------------ MODULE HandoffLedgerProofs ------------------------
(***************************************************************************)
(* Proofs about the handoff ledger, for every set of tokens, contexts and  *)
(* results, every lifetime and every limit.                                *)
(***************************************************************************)
EXTENDS HandoffLedger, FiniteSetTheorems, TLAPS

\* What the fields of one hash say of each other.
Coherent ==
  \A r \in Runs :
    /\ holder[r] = NoToken <=> state[r] = "NONE"
    /\ holder[r] # NoToken => RunOf[holder[r]] = r /\ expiry[r] # 0
    /\ context[r] = NoContext <=> state[r] \in {"NONE", "ISSUED", "REVOKED"}
    /\ r \in revealed => state[r] \in Terminal

\* What the sorted sets hold: tokens that were issued, and in the rate set every
\* one that was issued within the window.
Listed ==
  /\ \A t \in rate \cup active : Bound(t)
  /\ \A r \in Runs : holder[r] # NoToken /\ issuedAt[r] + Window > now => holder[r] \in rate

\* What the two scripts compare before an issue.
Limited == Cardinality(Recent) <= IssueLimit /\ Cardinality(Live) <= ActiveLimit

\* The inductive invariant.
IInv == TypeOK /\ Coherent /\ Listed /\ SlotsAreOpenRuns /\ ObservationFits /\ Limited

-----------------------------------------------------------------------------
LEMMA ConstantTypes ==
  /\ IsFiniteSet(Tokens)
  /\ NoToken \notin Tokens /\ NoContext \notin Contexts /\ NoResult \notin Results
  /\ Ttl \in Nat \ {0} /\ Timeout \in Nat /\ Grace \in Nat /\ Window \in Nat \ {0}
  /\ IssueLimit \in Nat /\ ActiveLimit \in Nat /\ MaxNow \in Nat
  /\ \A t \in Tokens : RunOf[t] \in Runs
BY HandoffAssumption DEF HandoffAssumption, Runs

LEMMA InitInvariant == Init => IInv
<1> SUFFICES ASSUME Init PROVE IInv
  OBVIOUS
<1> USE ConstantTypes
<1>1. TypeOK /\ Coherent /\ Listed /\ ObservationFits
  BY DEF Init, TypeOK, Coherent, Listed, ObservationFits, States, Open, Terminal
<1>2. SlotsAreOpenRuns
  BY DEF Init, SlotsAreOpenRuns, ActiveMember, Exists
<1>3. Recent = {} /\ Live = {}
  BY DEF Init, Recent, Live
<1>4. Limited
  BY <1>3, FS_EmptySet DEF Limited
<1> QED BY <1>1, <1>2, <1>4 DEF IInv

-----------------------------------------------------------------------------
(* Type correctness. *)

LEMMA TypeStep == TypeOK /\ [Next]_vars => TypeOK'
<1> SUFFICES ASSUME TypeOK, [Next]_vars PROVE TypeOK'
  OBVIOUS
<1> USE ConstantTypes DEF TypeOK, times, guards, States, Open, Terminal
<1>1. CASE Tick
  BY <1>1 DEF Tick
<1>2. ASSUME NEW r \in Runs, Compile(r) PROVE TypeOK'
  BY <1>2 DEF Compile
<1>3. ASSUME NEW t \in Tokens, Issue(t) PROVE TypeOK'
  BY <1>3 DEF Issue, Recent, Live
<1>4. ASSUME NEW t \in Tokens, IssueRefused(t) PROVE TypeOK'
  BY <1>4 DEF IssueRefused, Recent, Live
<1>5. ASSUME NEW t \in Tokens, NEW s \in States, End(t, s) PROVE TypeOK'
  BY <1>5 DEF End
<1>6. ASSUME NEW t \in Tokens, NEW c \in Contexts, Claim(t, c) PROVE TypeOK'
  BY <1>6 DEF Claim
<1>7. ASSUME NEW t \in Tokens, NEW c \in Contexts, Receive(t, c) PROVE TypeOK'
  BY <1>7 DEF Receive
<1>8. ASSUME NEW t \in Tokens, NEW c \in Contexts, Start(t, c) PROVE TypeOK'
  BY <1>8 DEF Start
<1>9. ASSUME NEW t \in Tokens, NEW c \in Contexts, Reveal(t, c) PROVE TypeOK'
  BY <1>9 DEF Reveal
<1>10. ASSUME NEW t \in Tokens, NEW c \in Contexts, NEW x \in Results, Report(t, c, x)
       PROVE  TypeOK'
  BY <1>10 DEF Report
<1>11. CASE UNCHANGED vars
  BY <1>11 DEF vars
<1> QED
  BY <1>1, <1>2, <1>3, <1>4, <1>5, <1>6, <1>7, <1>8, <1>9, <1>10, <1>11
     DEF Next, OwnerStep, ContextStep, Settle, TimeOut, Revoke

-----------------------------------------------------------------------------
(* The fields of a hash agree. *)

\* Only an unissued run is issued.
LEMMA IssuedAnew ==
  ASSUME TypeOK, Coherent, NEW t \in Tokens, ~Exists(RunOf[t]), now < expiry[RunOf[t]]
  PROVE  /\ holder[RunOf[t]] = NoToken /\ state[RunOf[t]] = "NONE"
         /\ context[RunOf[t]] = NoContext /\ RunOf[t] \notin revealed
<1>1. RunOf[t] \in Runs
  BY ConstantTypes
<1>2. holder[RunOf[t]] = NoToken
  BY DEF Exists
<1> QED BY <1>1, <1>2 DEF Coherent, Terminal

LEMMA CoherentStep == TypeOK /\ Coherent /\ [Next]_vars => Coherent'
<1> SUFFICES ASSUME TypeOK, Coherent, [Next]_vars PROVE Coherent'
  OBVIOUS
<1> USE ConstantTypes
<1>1. CASE Tick
  BY <1>1 DEF Tick, Coherent, times
<1>2. ASSUME NEW r \in Runs, Compile(r) PROVE Coherent'
  BY <1>2 DEF Compile, Coherent, times, TypeOK
<1>3. ASSUME NEW t \in Tokens, Issue(t) PROVE Coherent'
  BY <1>3, IssuedAnew DEF Issue, Coherent, TypeOK, Terminal
<1>4. ASSUME NEW t \in Tokens, IssueRefused(t) PROVE Coherent'
  BY <1>4 DEF IssueRefused, Coherent, times
<1>5. ASSUME NEW t \in Tokens, NEW c \in Contexts, Claim(t, c) PROVE Coherent'
  BY <1>5 DEF Claim, Coherent, TypeOK, Terminal, times
<1>6. ASSUME NEW t \in Tokens, NEW c \in Contexts, Receive(t, c) PROVE Coherent'
  BY <1>6 DEF Receive, Coherent, TypeOK, Terminal, times
<1>7. ASSUME NEW t \in Tokens, NEW c \in Contexts, Start(t, c) PROVE Coherent'
  BY <1>7 DEF Start, Coherent, TypeOK, Terminal
<1>8. ASSUME NEW t \in Tokens, NEW c \in Contexts, NEW s \in {"SETTLED", "UNAVAILABLE"},
             Settle(t, c, s)
      PROVE  Coherent'
  BY <1>8 DEF Settle, End, Coherent, TypeOK, Terminal
<1>9. ASSUME NEW t \in Tokens, NEW c \in Contexts, TimeOut(t, c) PROVE Coherent'
  BY <1>9 DEF TimeOut, End, Coherent, TypeOK, Terminal
<1>10. ASSUME NEW t \in Tokens, NEW c \in Contexts, Reveal(t, c) PROVE Coherent'
  BY <1>10 DEF Reveal, Coherent, TypeOK, times
<1>11. ASSUME NEW t \in Tokens, Revoke(t) PROVE Coherent'
  BY <1>11 DEF Revoke, End, Coherent, TypeOK, Terminal
<1>12. ASSUME NEW t \in Tokens, NEW c \in Contexts, NEW x \in Results, Report(t, c, x)
       PROVE  Coherent'
  BY <1>12 DEF Report, Coherent, times
<1>13. CASE UNCHANGED vars
  BY <1>13 DEF vars, Coherent
<1> QED
  BY <1>1, <1>2, <1>3, <1>4, <1>5, <1>6, <1>7, <1>8, <1>9, <1>10, <1>11, <1>12, <1>13
     DEF Next, OwnerStep, ContextStep

-----------------------------------------------------------------------------
(* The active set. *)

LEMMA SlotsStep ==
  TypeOK /\ Coherent /\ Listed /\ SlotsAreOpenRuns /\ [Next]_vars => SlotsAreOpenRuns'
<1> DEFINE Right(u) == Exists(RunOf[u]) /\ Bound(u) /\ state[RunOf[u]] \in Open
<1> SUFFICES ASSUME TypeOK, Coherent, Listed, SlotsAreOpenRuns, [Next]_vars, NEW u \in Tokens
             PROVE  ActiveMember(u)' <=> Right(u)'
  BY DEF SlotsAreOpenRuns
<1> USE ConstantTypes
<1>a. (ActiveMember(u) <=> Right(u)) /\ RunOf[u] \in Runs
  BY DEF SlotsAreOpenRuns
<1> USE <1>a DEF ActiveMember, Exists, Bound, Open, TypeOK
<1>1. CASE Tick
  BY <1>1 DEF Tick, guards
<1>2. ASSUME NEW r \in Runs, Compile(r) PROVE ActiveMember(u)' <=> Right(u)'
  <2>1. CASE r = RunOf[u]
    BY <1>2, <2>1 DEF Compile, guards, Coherent, Listed
  <2>2. CASE r # RunOf[u]
    BY <1>2, <2>2 DEF Compile, guards
  <2> QED BY <2>1, <2>2
<1>3. ASSUME NEW t \in Tokens, Issue(t) PROVE ActiveMember(u)' <=> Right(u)'
  <2>1. CASE RunOf[u] = RunOf[t]
    BY <1>3, <2>1, IssuedAnew DEF Issue, Live, Listed
  <2>2. CASE RunOf[u] # RunOf[t]
    BY <1>3, <2>2 DEF Issue, Live
  <2> QED BY <2>1, <2>2
<1>4. ASSUME NEW t \in Tokens, IssueRefused(t) PROVE ActiveMember(u)' <=> Right(u)'
  BY <1>4 DEF IssueRefused, Live
<1>5. ASSUME NEW t \in Tokens, Bound(t), NEW s \in States \ Open, End(t, s)
      PROVE  ActiveMember(u)' <=> Right(u)'
  BY <1>5 DEF End
<1>6. ASSUME NEW t \in Tokens, NEW c \in Contexts, Claim(t, c)
      PROVE  ActiveMember(u)' <=> Right(u)'
  BY <1>6 DEF Claim, guards
<1>7. ASSUME NEW t \in Tokens, NEW c \in Contexts, Receive(t, c)
      PROVE  ActiveMember(u)' <=> Right(u)'
  BY <1>7 DEF Receive, guards
<1>8. ASSUME NEW t \in Tokens, NEW c \in Contexts, Start(t, c)
      PROVE  ActiveMember(u)' <=> Right(u)'
  BY <1>8 DEF Start, guards
<1>9. ASSUME NEW t \in Tokens, NEW c \in Contexts, Reveal(t, c)
      PROVE  ActiveMember(u)' <=> Right(u)'
  BY <1>9 DEF Reveal, guards
<1>10. ASSUME NEW t \in Tokens, NEW c \in Contexts, NEW x \in Results, Report(t, c, x)
       PROVE  ActiveMember(u)' <=> Right(u)'
  BY <1>10 DEF Report, guards
<1>11. CASE UNCHANGED vars
  BY <1>11 DEF vars, guards
<1>12. \A s \in Terminal \cup {"REVOKED"} : s \in States \ Open
  BY DEF States, Terminal
<1> HIDE DEF Right
<1> QED
  BY <1>1, <1>2, <1>3, <1>4, <1>5, <1>6, <1>7, <1>8, <1>9, <1>10, <1>11, <1>12
     DEF Next, OwnerStep, ContextStep, Settle, TimeOut, Revoke, BoundTo, Terminal

-----------------------------------------------------------------------------
(* The rate set and the two limits. *)

LEMMA ListedStep == TypeOK /\ Coherent /\ Listed /\ [Next]_vars => Listed'
<1> SUFFICES ASSUME TypeOK, Coherent, Listed, [Next]_vars PROVE Listed'
  OBVIOUS
<1> USE ConstantTypes DEF TypeOK, Listed, Bound
<1>1. CASE Tick
  BY <1>1 DEF Tick, guards, times
<1>2. ASSUME NEW t \in Tokens, Issue(t) PROVE Listed'
  <2>1. \A u \in (rate \cup active)' : Bound(u)'
    BY <1>2, IssuedAnew DEF Issue, Recent, Live
  <2>2. ASSUME NEW r \in Runs, holder'[r] # NoToken, (issuedAt[r] + Window > now)'
        PROVE  holder'[r] \in rate'
    <3>1. CASE r = RunOf[t]
      BY <1>2, <3>1 DEF Issue
    <3>2. CASE r # RunOf[t]
      <4>1. holder'[r] = holder[r] /\ issuedAt'[r] = issuedAt[r] /\ now' = now
        BY <1>2, <3>2 DEF Issue
      <4>2. holder[r] \in rate /\ RunOf[holder[r]] = r
        BY <2>2, <4>1 DEF Coherent
      <4> QED BY <1>2, <2>2, <4>1, <4>2 DEF Issue, Recent, InWindow
    <3> QED BY <3>1, <3>2
  <2> QED BY <2>1, <2>2
<1>3. ASSUME NEW t \in Tokens, IssueRefused(t) PROVE Listed'
  BY <1>3 DEF IssueRefused, Recent, Live, InWindow, times, Coherent
<1>4. ASSUME NEW t \in Tokens, NEW s \in States, End(t, s) PROVE Listed'
  BY <1>4 DEF End
<1>5. CASE UNCHANGED <<now, holder, issuedAt, guards>>
  BY <1>5 DEF guards
<1>6. Terminal \cup {"REVOKED"} \subseteq States
  BY DEF States
<1> QED
  BY <1>1, <1>2, <1>3, <1>4, <1>5, <1>6
     DEF Next, OwnerStep, ContextStep, Settle, TimeOut, Revoke, Compile, Claim, Receive, Start,
         Reveal, Report, Terminal, times, vars

LEMMA LimitedStep == TypeOK /\ Coherent /\ Listed /\ Limited /\ [Next]_vars => Limited'
<1> SUFFICES ASSUME TypeOK, Coherent, Listed, Limited, [Next]_vars PROVE Limited'
  OBVIOUS
<1> USE ConstantTypes DEF TypeOK
<1>a. /\ IsFiniteSet(Recent) /\ Cardinality(Recent) \in Nat
      /\ IsFiniteSet(Live) /\ Cardinality(Live) \in Nat
  BY FS_Subset, FS_CardinalityType DEF Recent, Live
<1>b. ASSUME Recent' \subseteq Recent, Live' \subseteq Live PROVE Limited'
  <2>1. /\ IsFiniteSet(Recent') /\ Cardinality(Recent') <= Cardinality(Recent)
        /\ IsFiniteSet(Live') /\ Cardinality(Live') <= Cardinality(Live)
    BY <1>a, <1>b, FS_Subset
  <2>2. Cardinality(Recent') \in Nat /\ Cardinality(Live') \in Nat
    BY <2>1, FS_CardinalityType
  <2> QED BY <1>a, <2>1, <2>2 DEF Limited
<1>1. ASSUME NEW t \in Tokens, Issue(t) PROVE Limited'
  <2>1. Recent' \subseteq Recent \cup {t}
    BY <1>1, IssuedAnew DEF Issue, Recent, Listed, Bound, InWindow
  <2>2. Live' \subseteq Live \cup {t}
    BY <1>1 DEF Issue, Live
  <2>3. /\ IsFiniteSet(Recent \cup {t}) /\ Cardinality(Recent \cup {t}) <= Cardinality(Recent) + 1
        /\ IsFiniteSet(Live \cup {t}) /\ Cardinality(Live \cup {t}) <= Cardinality(Live) + 1
    <3>1. ASSUME NEW S, IsFiniteSet(S), Cardinality(S) \in Nat
          PROVE  IsFiniteSet(S \cup {t}) /\ Cardinality(S \cup {t}) <= Cardinality(S) + 1
      <4>1. IsFiniteSet(S \cup {t}) /\ Cardinality(S \cup {t}) \in {Cardinality(S), Cardinality(S) + 1}
        BY <3>1, FS_AddElement
      <4> HIDE DEF TypeOK
      <4> QED BY <3>1, <4>1
    <3> QED BY <1>a, <3>1
  <2>4. /\ IsFiniteSet(Recent') /\ Cardinality(Recent') <= Cardinality(Recent \cup {t})
        /\ IsFiniteSet(Live') /\ Cardinality(Live') <= Cardinality(Live \cup {t})
    BY <2>1, <2>2, <2>3, FS_Subset
  <2>5. /\ Cardinality(Recent') \in Nat /\ Cardinality(Live') \in Nat
        /\ Cardinality(Recent \cup {t}) \in Nat /\ Cardinality(Live \cup {t}) \in Nat
    BY <2>3, <2>4, FS_CardinalityType
  <2>6. Cardinality(Recent) < IssueLimit /\ Cardinality(Live) < ActiveLimit
    BY <1>1 DEF Issue, HasRoom
  <2> QED BY <1>a, <2>3, <2>4, <2>5, <2>6 DEF Limited
<1>2. ASSUME NEW t \in Tokens, IssueRefused(t) PROVE Limited'
  BY <1>2, <1>b DEF IssueRefused, Recent, Live, InWindow, times
<1>3. CASE Tick
  BY <1>3, <1>b DEF Tick, Recent, Live, InWindow, times, guards
<1>4. ASSUME NEW t \in Tokens, NEW s \in States, End(t, s) PROVE Limited'
  BY <1>4, <1>b DEF End, Recent, Live, InWindow
<1>5. ASSUME NEW r \in Runs, Compile(r) PROVE Limited'
  <2>1. Recent' = Recent
    BY <1>5 DEF Compile, Recent, InWindow, times, guards
  <2>2. Live' \subseteq Live
    BY <1>5 DEF Compile, Live, guards, Listed, Bound, Coherent
  <2> QED BY <1>b, <2>1, <2>2
<1>6. CASE UNCHANGED <<now, expiry, issuedAt, guards>>
  BY <1>6, <1>b DEF Recent, Live, InWindow, guards
<1>7. Terminal \cup {"REVOKED"} \subseteq States
  BY DEF States
<1> QED
  BY <1>1, <1>2, <1>3, <1>4, <1>5, <1>6, <1>7
     DEF Next, OwnerStep, ContextStep, Settle, TimeOut, Revoke, Claim, Receive, Start,
         Reveal, Report, Terminal, times, vars

-----------------------------------------------------------------------------
(* The observation. *)

LEMMA FitsStep == TypeOK /\ Coherent /\ ObservationFits /\ [Next]_vars => ObservationFits'
<1> SUFFICES ASSUME TypeOK, Coherent, ObservationFits, [Next]_vars PROVE ObservationFits'
  OBVIOUS
<1> USE ConstantTypes DEF TypeOK, ObservationFits
<1>1. CASE UNCHANGED <<expiry, state, startedAt, endedAt>>
  BY <1>1
<1>2. ASSUME NEW r \in Runs, Compile(r) PROVE ObservationFits'
  BY <1>2 DEF Compile, Coherent, times
<1>3. ASSUME NEW t \in Tokens, Issue(t) PROVE ObservationFits'
  BY <1>3 DEF Issue
<1>4. ASSUME NEW t \in Tokens, NEW c \in Contexts, Claim(t, c) \/ Receive(t, c)
      PROVE  ObservationFits'
  BY <1>4 DEF Claim, Receive, times
<1>5. ASSUME NEW t \in Tokens, NEW c \in Contexts, Start(t, c) PROVE ObservationFits'
  BY <1>5 DEF Start, Fitting
<1>6. ASSUME NEW t \in Tokens, NEW s \in {"SETTLED", "UNAVAILABLE", "REVOKED"}, End(t, s)
      PROVE  ObservationFits'
  BY <1>6 DEF End
<1>7. ASSUME NEW t \in Tokens, NEW c \in Contexts, TimeOut(t, c) PROVE ObservationFits'
  BY <1>7 DEF TimeOut, End
<1> QED
  BY <1>1, <1>2, <1>3, <1>4, <1>5, <1>6, <1>7
     DEF Next, OwnerStep, ContextStep, Settle, Revoke, Tick, IssueRefused, Reveal, Report, times, vars

-----------------------------------------------------------------------------
LEMMA NextInvariant == IInv /\ [Next]_vars => IInv'
BY TypeStep, CoherentStep, SlotsStep, ListedStep, LimitedStep, FitsStep DEF IInv

\* The inductive invariant holds in every reachable state.
THEOREM Invariance == Spec => []IInv
BY InitInvariant, NextInvariant, PTL DEF Spec

\* Type correctness of the ledger.
THEOREM TypeCorrect == Spec => []TypeOK
<1>1. IInv => TypeOK
  BY DEF IInv
<1> QED BY Invariance, <1>1, PTL

\* A slot of the active set stands for an open run, and no open run lacks one.
THEOREM SlotsExact == Spec => []SlotsAreOpenRuns
<1>1. IInv => SlotsAreOpenRuns
  BY DEF IInv
<1> QED BY Invariance, <1>1, PTL

\* A started run can be observed in full, a timed out one was.
THEOREM ObservationsFit == Spec => []ObservationFits
<1>1. IInv => ObservationFits
  BY DEF IInv
<1> QED BY Invariance, <1>1, PTL

\* The open runs are as many as their tokens, which are the live members of the
\* active set.
LEMMA OpenAsLive == IInv => OpenRunsBounded
<1> SUFFICES ASSUME IInv PROVE OpenRunsBounded
  OBVIOUS
<1> USE ConstantTypes DEF IInv
<1> DEFINE O == {r \in Runs : Exists(r) /\ state[r] \in Open}
           f == [r \in O |-> holder[r]]
<1>1. IsFiniteSet(Live) /\ Cardinality(Live) \in Nat
  BY FS_Subset, FS_CardinalityType DEF Live, TypeOK
<1>2. \A r \in O : holder[r] \in Live /\ RunOf[holder[r]] = r
  BY DEF Live, SlotsAreOpenRuns, ActiveMember, Exists, Bound, Coherent, TypeOK
<1>3. f \in Injection(O, Live)
  BY <1>2 DEF Injection, IsInjective
<1>4. IsFiniteSet(O) /\ Cardinality(O) <= Cardinality(Live)
  BY <1>1, <1>3, FS_Injection
<1>5. Cardinality(O) \in Nat
  BY <1>4, FS_CardinalityType
<1> QED BY <1>1, <1>4, <1>5 DEF Limited, OpenRunsBounded

\* No more runs are open at once than the limit allows.
THEOREM OpenBounded == Spec => []OpenRunsBounded
BY Invariance, OpenAsLive, PTL

\* The runs issued within the window are as many as their tokens in the rate set.
LEMMA IssuedAsRecent == IInv => IssuesBounded
<1> SUFFICES ASSUME IInv PROVE IssuesBounded
  OBVIOUS
<1> USE ConstantTypes DEF IInv
<1> DEFINE I == {r \in Runs : holder[r] # NoToken /\ issuedAt[r] + Window > now}
           f == [r \in I |-> holder[r]]
<1>1. IsFiniteSet(Recent) /\ Cardinality(Recent) \in Nat
  BY FS_Subset, FS_CardinalityType DEF Recent, TypeOK
<1>2. \A r \in I : holder[r] \in Recent /\ RunOf[holder[r]] = r
  BY DEF Recent, Listed, InWindow, Coherent, TypeOK
<1>3. f \in Injection(I, Recent)
  BY <1>2 DEF Injection, IsInjective
<1>4. IsFiniteSet(I) /\ Cardinality(I) <= Cardinality(Recent)
  BY <1>1, <1>3, FS_Injection
<1>5. Cardinality(I) \in Nat
  BY <1>4, FS_CardinalityType
<1> QED BY <1>1, <1>4, <1>5 DEF Limited, IssuesBounded

\* No window sees more issues than the limit allows.
THEOREM RateBounded == Spec => []IssuesBounded
BY Invariance, IssuedAsRecent, PTL

-----------------------------------------------------------------------------
(* What a step may never do. *)

\* A run that has ended never moves again.
LEMMA EndedStep ==
  IInv /\ [Next]_vars => \A r \in Runs : state[r] \in Terminal => state'[r] = state[r]
<1> SUFFICES ASSUME IInv, [Next]_vars, NEW r \in Runs, state[r] \in Terminal
             PROVE  state'[r] = state[r]
  OBVIOUS
<1> USE ConstantTypes DEF TypeOK, Terminal
<1>1. TypeOK /\ Coherent
  BY DEF IInv
<1>2. ASSUME NEW t \in Tokens, Issue(t) PROVE state'[r] = state[r]
  BY <1>1, <1>2, IssuedAnew DEF Issue
<1>3. ASSUME NEW t \in Tokens, NEW c \in Contexts,
             Claim(t, c) \/ Receive(t, c) \/ Start(t, c)
      PROVE  state'[r] = state[r]
  BY <1>1, <1>3 DEF Claim, Receive, Start
<1>4. ASSUME NEW t \in Tokens, NEW s \in States, state[RunOf[t]] \notin Terminal, End(t, s)
      PROVE  state'[r] = state[r]
  BY <1>1, <1>4 DEF End
<1>5. CASE UNCHANGED state
  BY <1>1, <1>5
<1>6. Terminal \cup {"REVOKED"} \subseteq States
  BY DEF States
<1> QED
  BY <1>1, <1>2, <1>3, <1>4, <1>5, <1>6
     DEF Next, OwnerStep, ContextStep, Settle, TimeOut, Revoke, Tick, Compile, IssueRefused,
         Reveal, Report, vars

\* A run whose contract was revealed has ended and never moves again.
LEMMA RevealedStep ==
  IInv /\ [Next]_vars => \A r \in revealed : state[r] \in Terminal /\ state'[r] = state[r]
BY EndedStep DEF IInv, TypeOK, Coherent

\* A run whose contract was revealed never moves again.
THEOREM RevealedRests == Spec => RevealedStaysEnded
<1>1. IInv /\ [Next]_vars => [\A r \in revealed : state[r] \in Terminal /\ state'[r] = state[r]]_vars
  BY RevealedStep
<1> QED BY Invariance, <1>1, PTL DEF Spec, RevealedStaysEnded

\* The token, the context and the result of a run are set once.
LEMMA OwnedStep ==
  IInv /\ [Next]_vars =>
    \A r \in Runs : /\ holder[r] # NoToken => holder'[r] = holder[r]
                    /\ context[r] # NoContext => context'[r] = context[r]
                    /\ result[r] # NoResult => result'[r] = result[r]
<1> SUFFICES ASSUME IInv, [Next]_vars, NEW r \in Runs
             PROVE  /\ holder[r] # NoToken => holder'[r] = holder[r]
                    /\ context[r] # NoContext => context'[r] = context[r]
                    /\ result[r] # NoResult => result'[r] = result[r]
  OBVIOUS
<1> USE ConstantTypes DEF TypeOK
<1>1. TypeOK /\ Coherent
  BY DEF IInv
<1>2. ASSUME NEW t \in Tokens, Issue(t)
      PROVE  (holder[r] # NoToken => holder'[r] = holder[r]) /\ UNCHANGED <<context, result>>
  BY <1>1, <1>2, IssuedAnew DEF Issue
<1>3. ASSUME NEW t \in Tokens, NEW c \in Contexts, Claim(t, c)
      PROVE  (context[r] # NoContext => context'[r] = context[r]) /\ UNCHANGED <<holder, result>>
  BY <1>1, <1>3 DEF Claim, Coherent
<1>4. ASSUME NEW t \in Tokens, NEW c \in Contexts, NEW x \in Results, Report(t, c, x)
      PROVE  (result[r] # NoResult => result'[r] = result[r]) /\ UNCHANGED <<holder, context>>
  BY <1>1, <1>4 DEF Report
<1>5. CASE UNCHANGED <<holder, context, result>>
  BY <1>5
<1> QED
  BY <1>2, <1>3, <1>4, <1>5
     DEF Next, OwnerStep, ContextStep, Receive, Start, End, Settle, TimeOut, Revoke, Tick, Compile,
         IssueRefused, Reveal, vars

\* The first token, the first context and the first result of a run are kept for ever.
THEOREM OwnedForEver == Spec => FirstClaimOwns
<1>1. IInv /\ [Next]_vars =>
        [\A r \in Runs : /\ holder[r] # NoToken => holder'[r] = holder[r]
                         /\ context[r] # NoContext => context'[r] = context[r]
                         /\ result[r] # NoResult => result'[r] = result[r]]_vars
  BY OwnedStep
<1> QED BY Invariance, <1>1, PTL DEF Spec, FirstClaimOwns

-----------------------------------------------------------------------------
(* The ledger implements the one-time handoff. *)

LEMMA Phase ==
  /\ PhaseOf("NONE") = "waiting" /\ PhaseOf("ISSUED") = "waiting"
  /\ PhaseOf("CLAIMED") = "taken" /\ PhaseOf("RECEIVED") = "taken"
  /\ PhaseOf("STARTED") = "running"
  /\ \A s \in Terminal : PhaseOf(s) = "over"
  /\ PhaseOf("REVOKED") = "withdrawn"
BY DEF PhaseOf, Terminal

LEMMA TrialInit == Init => Trial!Init
BY Phase DEF Init, Trial!Init, TrialPhase

LEMMA TrialStep == IInv /\ [Next]_vars => [Trial!Next]_(Trial!vars)
<1> SUFFICES ASSUME IInv, [Next]_vars PROVE [Trial!Next]_(Trial!vars)
  OBVIOUS
<1>a. TypeOK /\ Coherent
  BY DEF IInv
<1> USE ConstantTypes, <1>a, Phase DEF States, Open
<1>1. CASE UNCHANGED <<state, context, revealed>>
  BY <1>1 DEF Trial!vars, TrialPhase
<1>2. ASSUME NEW t \in Tokens, Issue(t) PROVE UNCHANGED <<TrialPhase, context, revealed>>
  <2>1. state[RunOf[t]] = "NONE" /\ state' = [state EXCEPT ![RunOf[t]] = "ISSUED"]
    BY <1>2, IssuedAnew DEF Issue
  <2>2. TrialPhase[RunOf[t]] = "waiting" /\ TrialPhase' = [TrialPhase EXCEPT ![RunOf[t]] = "waiting"]
    BY <2>1 DEF TypeOK, TrialPhase
  <2> QED BY <1>2, <2>2 DEF Issue, TrialPhase
<1>3. ASSUME NEW t \in Tokens, NEW c \in Contexts, Claim(t, c) PROVE Trial!Take(RunOf[t], c)
  <2>1. state[RunOf[t]] = "ISSUED" /\ state' = [state EXCEPT ![RunOf[t]] = "CLAIMED"]
    BY <1>3 DEF Claim
  <2>2. TrialPhase[RunOf[t]] = "waiting" /\ TrialPhase' = [TrialPhase EXCEPT ![RunOf[t]] = "taken"]
    BY <2>1 DEF TypeOK, TrialPhase
  <2> QED BY <1>3, <2>2 DEF Claim, Trial!Take, Trial!Move
<1>4. ASSUME NEW t \in Tokens, NEW c \in Contexts, Receive(t, c)
      PROVE  UNCHANGED <<TrialPhase, context, revealed>>
  <2>1. state[RunOf[t]] = "CLAIMED" /\ state' = [state EXCEPT ![RunOf[t]] = "RECEIVED"]
    BY <1>4 DEF Receive
  <2>2. TrialPhase[RunOf[t]] = "taken" /\ TrialPhase' = [TrialPhase EXCEPT ![RunOf[t]] = "taken"]
    BY <2>1 DEF TypeOK, TrialPhase
  <2> QED BY <1>4, <2>2 DEF Receive, TrialPhase
<1>5. ASSUME NEW t \in Tokens, NEW c \in Contexts, Start(t, c) PROVE Trial!Begin(RunOf[t])
  <2>1. state[RunOf[t]] = "RECEIVED" /\ state' = [state EXCEPT ![RunOf[t]] = "STARTED"]
    BY <1>5 DEF Start
  <2>2. TrialPhase[RunOf[t]] = "taken" /\ TrialPhase' = [TrialPhase EXCEPT ![RunOf[t]] = "running"]
    BY <2>1 DEF TypeOK, TrialPhase
  <2> QED BY <1>5, <2>2 DEF Start, Trial!Begin, Trial!Move
<1>6. ASSUME NEW t \in Tokens, NEW s \in Terminal, state[RunOf[t]] = "STARTED", End(t, s)
      PROVE  Trial!Finish(RunOf[t])
  <2>1. state' = [state EXCEPT ![RunOf[t]] = s]
    BY <1>6 DEF End
  <2>2. TrialPhase[RunOf[t]] = "running" /\ TrialPhase' = [TrialPhase EXCEPT ![RunOf[t]] = "over"]
    BY <1>6, <2>1 DEF TypeOK, TrialPhase
  <2> QED BY <1>6, <2>2 DEF End, Trial!Finish, Trial!Move
<1>7. ASSUME NEW t \in Tokens, Revoke(t) PROVE Trial!Withdraw(RunOf[t])
  <2>1. state[RunOf[t]] = "ISSUED" /\ state' = [state EXCEPT ![RunOf[t]] = "REVOKED"]
    BY <1>7 DEF Revoke, End
  <2>2. TrialPhase[RunOf[t]] = "waiting" /\ TrialPhase' = [TrialPhase EXCEPT ![RunOf[t]] = "withdrawn"]
    BY <2>1 DEF TypeOK, TrialPhase
  <2> QED BY <1>7, <2>2 DEF Revoke, End, Trial!Withdraw, Trial!Move
<1>8. ASSUME NEW t \in Tokens, NEW c \in Contexts, Reveal(t, c) PROVE Trial!Show(RunOf[t])
  BY <1>8 DEF Reveal, Trial!Show, TrialPhase
<1>9. {"SETTLED", "UNAVAILABLE", "TIMED_OUT"} = Terminal
  BY DEF Terminal
<1>10. CASE \E t \in Tokens : Issue(t) \/ \E c \in Contexts : Receive(t, c)
  BY <1>2, <1>4, <1>10 DEF Trial!vars
<1>11. CASE \E r \in Runs : \/ \E c \in Contexts : Trial!Take(r, c)
                         \/ Trial!Begin(r) \/ Trial!Finish(r) \/ Trial!Withdraw(r) \/ Trial!Show(r)
  BY <1>11 DEF Trial!Next
<1> QED
  BY <1>1, <1>3, <1>5, <1>6, <1>7, <1>8, <1>9, <1>10, <1>11
     DEF Next, OwnerStep, ContextStep, Settle, TimeOut, Tick, Compile, IssueRefused, Report, vars

\* The ledger implements the one-time handoff.
THEOREM IsOneTimeHandoff == Spec => ImplementsTrial
BY Invariance, TrialInit, TrialStep, PTL DEF Spec, ImplementsTrial, Trial!Spec
=============================================================================
