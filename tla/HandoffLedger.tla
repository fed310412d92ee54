--------------------------- MODULE HandoffLedger ---------------------------
(***************************************************************************)
(* The ledger of one-time handoffs (src/lib/demo/handoff-ledger-v2.server.ts): *)
(* the owner's page issues a run under a sealed token, one browser context *)
(* claims it, receives it, starts it and ends it, and only then reads the  *)
(* hidden contract.  A run is one Redis hash that its expiry deletes; two  *)
(* sorted sets bound how many runs are issued per window and how many are  *)
(* active.  Each Lua script is atomic and is one action.  A script that    *)
(* refuses, or that answers from what is stored (ISSUE_EXISTING,           *)
(* CLAIM_EXISTING, RECEIVED_EXISTING, RESULT_EXISTING), writes nothing and *)
(* is a stuttering step.  Any caller may run any script at any time with   *)
(* any token and context: the scripts alone decide.                        *)
(***************************************************************************)
EXTENDS Naturals, FiniteSets

CONSTANTS Tokens,       \* sealed handoffs; preparing a run twice seals two tokens
          RunOf,        \* the run and contract a token is sealed for
          Contexts,     \* fresh browser contexts
          Results,      \* what a report carries: a verdict and a result digest
          VerdictOf,    \* the verdict of a result
          NoToken, NoContext, NoResult,
          Ttl,          \* lifetime of a session, from its compilation
          Timeout, Grace, Window, IssueLimit, ActiveLimit,
          MaxNow        \* bound on the clock

Runs == {RunOf[t] : t \in Tokens}
Verdicts == {"pass", "issue", "incomplete", "unavailable"}

ASSUME HandoffAssumption ==
  /\ IsFiniteSet(Tokens)
  /\ VerdictOf \in [Results -> Verdicts]
  /\ NoToken \notin Tokens /\ NoContext \notin Contexts /\ NoResult \notin Results
  /\ Ttl \in Nat \ {0} /\ Timeout \in Nat /\ Grace \in Nat /\ Window \in Nat \ {0}
  /\ IssueLimit \in Nat /\ ActiveLimit \in Nat /\ MaxNow \in Nat

VARIABLES now,        \* Redis TIME
          expiry,     \* expiresAt of the session of a run, 0 before it is compiled
          holder,     \* t: the token the run was issued under
          state,      \* s
          context,    \* f: the context that claimed the run
          issuedAt, startedAt, endedAt,  \* i, a, z
          result,     \* q, d: the reported result
          rate,       \* the issuance-rate sorted set: tokens scored by issuedAt
          active,     \* the active sorted set: tokens scored by expiry
          revealed    \* runs whose hidden contract was handed out

times == <<issuedAt, startedAt, endedAt>>
guards == <<rate, active>>
vars == <<now, expiry, holder, state, context, times, result, guards, revealed>>

Terminal == {"SETTLED", "TIMED_OUT", "UNAVAILABLE"}
Open == {"ISSUED", "CLAIMED", "RECEIVED", "STARTED"}
States == {"NONE", "REVOKED"} \cup Open \cup Terminal

\* PEXPIREAT deletes the hash at its expiry; the fields kept here outlive it.
Exists(r) == holder[r] # NoToken /\ now < expiry[r]
Bound(t) == holder[RunOf[t]] = t
BoundTo(t, c) == Bound(t) /\ context[RunOf[t]] = c
ActiveMember(t) == t \in active /\ now < expiry[RunOf[t]]

InWindow(t) == issuedAt[RunOf[t]] + Window > now

Init ==
  /\ now = 0
  /\ expiry = [r \in Runs |-> 0]
  /\ holder = [r \in Runs |-> NoToken]
  /\ state = [r \in Runs |-> "NONE"]
  /\ context = [r \in Runs |-> NoContext]
  /\ issuedAt = [r \in Runs |-> 0]
  /\ startedAt = [r \in Runs |-> 0]
  /\ endedAt = [r \in Runs |-> 0]
  /\ result = [r \in Runs |-> NoResult]
  /\ rate = {} /\ active = {} /\ revealed = {}

Tick ==
  /\ now < MaxNow
  /\ now' = now + 1
  /\ UNCHANGED <<expiry, holder, state, context, times, result, guards, revealed>>

\* The owner's page compiles a session: every token of the run carries its expiry.
Compile(r) ==
  /\ expiry[r] = 0
  /\ expiry' = [expiry EXCEPT ![r] = now + Ttl]
  /\ UNCHANGED <<now, holder, state, context, times, result, guards, revealed>>

\* What the pruning of the two sorted sets leaves.
Recent == {u \in rate : InWindow(u)}
Live == {u \in active : now < expiry[RunOf[u]]}

HasRoom == Cardinality(Recent) < IssueLimit /\ Cardinality(Live) < ActiveLimit

\* ISSUE_SCRIPT of a run that has no hash.
Issue(t) ==
  LET r == RunOf[t] IN
  /\ now < expiry[r]
  /\ ~Exists(r)
  /\ HasRoom
  /\ holder' = [holder EXCEPT ![r] = t]
  /\ state' = [state EXCEPT ![r] = "ISSUED"]
  /\ issuedAt' = [issuedAt EXCEPT ![r] = now]
  /\ rate' = Recent \cup {t}
  /\ active' = Live \cup {t}
  /\ UNCHANGED <<now, expiry, context, startedAt, endedAt, result, revealed>>

\* A refused issue for want of room has already pruned both sorted sets.
IssueRefused(t) ==
  /\ now < expiry[RunOf[t]]
  /\ ~Exists(RunOf[t])
  /\ ~HasRoom
  /\ rate' = Recent /\ active' = Live
  /\ UNCHANGED <<now, expiry, holder, state, context, times, result, revealed>>

\* CLAIM_SCRIPT of an unclaimed run.
Claim(t, c) ==
  LET r == RunOf[t] IN
  /\ Exists(r) /\ Bound(t)
  /\ state[r] = "ISSUED"
  /\ state' = [state EXCEPT ![r] = "CLAIMED"]
  /\ context' = [context EXCEPT ![r] = c]
  /\ UNCHANGED <<now, expiry, holder, times, result, guards, revealed>>

\* What CLAIM_SCRIPT answers to a caller it does not refuse.
ClaimAnswered(t, c) ==
  /\ Exists(RunOf[t]) /\ BoundTo(t, c)
  /\ state[RunOf[t]] # "REVOKED"

\* RECEIVE_SCRIPT of a claimed run.
Receive(t, c) ==
  LET r == RunOf[t] IN
  /\ Exists(r) /\ BoundTo(t, c)
  /\ state[r] = "CLAIMED"
  /\ state' = [state EXCEPT ![r] = "RECEIVED"]
  /\ UNCHANGED <<now, expiry, holder, context, times, result, guards, revealed>>

\* Faulty variant: the grace is forgotten.
FittingTightly(r) == expiry[r] >= now + Timeout

\* A full observation and the grace to end it still fit.
Fitting(r) == expiry[r] >= now + Timeout + Grace

\* START_SCRIPT.
Start(t, c) ==
  LET r == RunOf[t] IN
  /\ Exists(r) /\ BoundTo(t, c)
  /\ state[r] = "RECEIVED"
  /\ Fitting(r)
  /\ state' = [state EXCEPT ![r] = "STARTED"]
  /\ startedAt' = [startedAt EXCEPT ![r] = now]
  /\ UNCHANGED <<now, expiry, holder, context, issuedAt, endedAt, result, guards, revealed>>

\* Faulty variant: the ZREM is forgotten.
EndKeepingSlot(t, s) ==
  LET r == RunOf[t] IN
  /\ state' = [state EXCEPT ![r] = s]
  /\ endedAt' = [endedAt EXCEPT ![r] = now]
  /\ UNCHANGED <<now, expiry, holder, context, issuedAt, startedAt, result, guards, revealed>>

\* How a script ends a run: state, time, and the slot given back.
End(t, s) ==
  LET r == RunOf[t] IN
  /\ state' = [state EXCEPT ![r] = s]
  /\ endedAt' = [endedAt EXCEPT ![r] = now]
  /\ active' = active \ {t}
  /\ UNCHANGED <<now, expiry, holder, context, issuedAt, startedAt, result, rate, revealed>>

\* TERMINAL_SCRIPT: the observed call settled, or the catalog was unavailable.
Settle(t, c, s) ==
  /\ Exists(RunOf[t]) /\ BoundTo(t, c)
  /\ state[RunOf[t]] = "STARTED"
  /\ s \in {"SETTLED", "UNAVAILABLE"}
  /\ End(t, s)

\* TIMEOUT_SCRIPT.
TimeOut(t, c) ==
  LET r == RunOf[t] IN
  /\ Exists(r) /\ BoundTo(t, c)
  /\ state[r] = "STARTED"
  /\ now >= startedAt[r] + Timeout
  /\ End(t, "TIMED_OUT")

\* REVEAL_SCRIPT, granted: the route answers with the hidden contract.
Reveal(t, c) ==
  LET r == RunOf[t] IN
  /\ Exists(r) /\ BoundTo(t, c)
  /\ state[r] \in Terminal
  /\ revealed' = revealed \cup {r}
  /\ UNCHANGED <<now, expiry, holder, state, context, times, result, guards>>

\* Faulty variant: a claimed run can be taken back.
RevokeClaimed(t) ==
  /\ Exists(RunOf[t]) /\ Bound(t)
  /\ state[RunOf[t]] \in {"ISSUED", "CLAIMED"}
  /\ End(t, "REVOKED")

\* REVOKE_SCRIPT: the owner takes back a run nobody has claimed.
Revoke(t) ==
  /\ Exists(RunOf[t]) /\ Bound(t)
  /\ state[RunOf[t]] = "ISSUED"
  /\ End(t, "REVOKED")

Fits(s, verdict) ==
  /\ s = "SETTLED" => verdict \in {"pass", "issue"}
  /\ s = "TIMED_OUT" => verdict = "incomplete"
  /\ s = "UNAVAILABLE" => verdict = "unavailable"

\* REPORT_SCRIPT: the first result is kept; it is compared with the state
\* only when the state is terminal.
Report(t, c, x) ==
  LET r == RunOf[t] IN
  /\ Exists(r) /\ BoundTo(t, c)
  /\ Fits(state[r], VerdictOf[x])
  /\ result[r] = NoResult
  /\ result' = [result EXCEPT ![r] = x]
  /\ UNCHANGED <<now, expiry, holder, state, context, times, guards, revealed>>

ContextStep(t, c) ==
  \/ Claim(t, c)
  \/ Receive(t, c)
  \/ Start(t, c)
  \/ \E s \in {"SETTLED", "UNAVAILABLE"} : Settle(t, c, s)
  \/ TimeOut(t, c)
  \/ Reveal(t, c)
  \/ \E x \in Results : Report(t, c, x)

OwnerStep(t) == Issue(t) \/ IssueRefused(t) \/ Revoke(t)

Next ==
  \/ Tick
  \/ \E r \in Runs : Compile(r)
  \/ \E t \in Tokens : OwnerStep(t) \/ \E c \in Contexts : ContextStep(t, c)

Spec == Init /\ [][Next]_vars

-----------------------------------------------------------------------------
TypeOK ==
  /\ now \in Nat
  /\ expiry \in [Runs -> Nat]
  /\ holder \in [Runs -> Tokens \cup {NoToken}]
  /\ state \in [Runs -> States]
  /\ context \in [Runs -> Contexts \cup {NoContext}]
  /\ issuedAt \in [Runs -> Nat] /\ startedAt \in [Runs -> Nat] /\ endedAt \in [Runs -> Nat]
  /\ result \in [Runs -> Results \cup {NoResult}]
  /\ rate \subseteq Tokens /\ active \subseteq Tokens
  /\ revealed \subseteq Runs

\* The active set is exact: a token holds a slot that has not expired if and
\* only if its run exists under it and is open.  A slot that outlived its run
\* would eat the capacity, one that was freed early would exceed it.
SlotsAreOpenRuns ==
  \A t \in Tokens :
    ActiveMember(t) <=> Exists(RunOf[t]) /\ Bound(t) /\ state[RunOf[t]] \in Open

\* No more than ActiveLimit runs are open at once, whatever the order of
\* issues, ends, revocations and expiries.
OpenRunsBounded ==
  Cardinality({r \in Runs : Exists(r) /\ state[r] \in Open}) <= ActiveLimit

\* No window of the given length sees more than IssueLimit runs issued, even
\* when issues are refused, revoked or expire in between.
IssuesBounded ==
  Cardinality({r \in Runs : holder[r] # NoToken /\ issuedAt[r] + Window > now}) <= IssueLimit

\* A started run always has the time to be observed in full and ended: the
\* end of its observation, with the grace, is not after its expiry; and a run
\* timed out only when the observation had lasted in full.
ObservationFits ==
  \A r \in Runs :
    /\ state[r] = "STARTED" => startedAt[r] + Timeout + Grace <= expiry[r]
    /\ state[r] = "TIMED_OUT" => startedAt[r] + Timeout <= endedAt[r]

\* The hidden contract is handed out only for a run that can take no further
\* part in a test: whatever happens later, its state never moves again.
RevealedStaysEnded ==
  [][\A r \in revealed : state[r] \in Terminal /\ state'[r] = state[r]]_vars

\* A run belongs to one token and to the first context that claimed it, for
\* ever; its result, once stored, is never replaced.
FirstClaimOwns ==
  [][\A r \in Runs :
       /\ holder[r] # NoToken => holder'[r] = holder[r]
       /\ context[r] # NoContext => context'[r] = context[r]
       /\ result[r] # NoResult => result'[r] = result[r]]_vars

\* What the trial of a run has come to, and that the ledger is a one-time
\* handoff: one context takes a run, tries it once, and reads its contract only
\* after the trial; a revoked run is never tried.
PhaseOf(s) ==
  CASE s \in {"NONE", "ISSUED"} -> "waiting"
    [] s \in {"CLAIMED", "RECEIVED"} -> "taken"
    [] s = "STARTED" -> "running"
    [] s \in Terminal -> "over"
    [] OTHER -> "withdrawn"

TrialPhase == [r \in Runs |-> PhaseOf(state[r])]

Trial == INSTANCE OneTimeHandoff WITH phase <- TrialPhase, owner <- context, shown <- revealed

ImplementsTrial == Trial!Spec

=============================================================================
