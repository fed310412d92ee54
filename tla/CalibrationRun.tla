---------------------------- MODULE CalibrationRun ----------------------------
(***************************************************************************)
(* One calibration run of the probe service (lib/probe/service.ts): a fixed  *)
(* sequence of cases, each tried in a fresh browser document that recovers   *)
(* the run, obtains a token, one model decision and one native admission,    *)
(* executes, and has the server seal the row, settle the call and advance    *)
(* the run index.                                                            *)
(*                                                                          *)
(* A document sends one request at a time (lib/probe/client-runner.ts).  The *)
(* server reads the guard when a request starts and then runs Redis scripts  *)
(* one by one: each script is a step here, and the steps of the requests of  *)
(* several documents interleave.  A document or its server may stop for ever *)
(* anywhere.  The lifetime guard is its abstraction, CallBudget.  The run's  *)
(* keys outlive the run: their four-hour expiry is left out.                 *)
(***************************************************************************)
EXTENDS Integers, Sequences, FiniteSets

CONSTANTS
  Cases,   \* number of cases of a run
  MaxDocs, \* bound: documents opened
  MaxFaults \* bound: lost replies, uncertain provider calls, drifting catalogs

ASSUME RunAssumption ==
  Cases \in Nat \ {0} /\ MaxDocs \in Nat /\ MaxFaults \in Nat

Ordinals == 1 .. Cases
Docs == 1 .. MaxDocs
NoDoc == 0

VARIABLES
  run, index,              \* status of the run index, and its sealed rows
  owner, ownerAt, leased,  \* document owner, the revision it claimed, lease unexpired
  issue,                   \* the issue record and its authorization
  stale,                   \* the signed token has expired
  decision, native, completion, \* continuation records: decision, admitted document, rows
  phase, cost,             \* the guard: phase and cost of each call
  settlement, halted       \* rows each call was settled with; the guard halted

VARIABLES
  request, step,  \* the request each document has made, and how far it is
  seen,           \* the guard as the request read it
  marker,         \* the continuation the document holds: rows sealed so far
  result,         \* what it observed of its case
  inferences, executions, \* model calls and native executions, per case
  faults

indexVars == <<run, index>>
ownerVars == <<owner, ownerAt, leased>>
records == <<decision, native, completion>>
tokens == <<issue, stale>>
guard == <<phase, cost, settlement, halted>>
history == <<inferences, executions>>
client == <<seen, marker, result>>
vars == <<indexVars, ownerVars, tokens, records, guard, request, step, client, history, faults>>

Budget == INSTANCE CallBudget WITH Calls <- Ordinals, MaxCalls <- Cases, Reservation <- 0

Revision == Len(index)
Ordinal(d) == Len(marker[d]) + 1
InPhase(s) == {o \in Ordinals : phase[o] = s}
Idle == InPhase("pending") = {}
GuardOpen == ~halted /\ InPhase("doubtful") = {}
GuardView == [idle |-> Idle, calls |-> Cardinality(Budget!Made)]

\* A document that made the first n cases of the run and was closed; its lease and its
\* tokens have lapsed.
EarlierDoc == MaxDocs + 1
Rows(n) == [o \in 1 .. n |-> [doc |-> EarlierDoc, result |-> "executed"]]

Init ==
  \E n \in 0 .. Cases :
    LET Of(yes, no) == [o \in Ordinals |-> IF o <= n THEN yes ELSE no]
        sealed == [o \in Ordinals |-> IF o <= n THEN Rows(o) ELSE <<>>] IN
    /\ run = "active" /\ index = Rows(n)
    /\ owner = (IF n = 0 THEN NoDoc ELSE EarlierDoc)
    /\ ownerAt = (IF n = 0 THEN 0 ELSE n - 1) /\ leased = FALSE
    /\ issue = Of("issued", "none") /\ stale = Of(TRUE, FALSE)
    /\ decision = Of("call", "none") /\ native = Of(EarlierDoc, NoDoc)
    /\ completion = sealed /\ settlement = sealed
    /\ phase = Of("settled", "idle") /\ cost = Of(0, 0) /\ halted = FALSE
    /\ request = [d \in Docs |-> "none"] /\ step = [d \in Docs |-> "start"]
    /\ seen = [d \in Docs |-> GuardView] /\ marker = [d \in Docs |-> <<>>]
    /\ result = [d \in Docs |-> "none"]
    /\ inferences = Of(1, 0) /\ executions = Of(1, 0)
    /\ faults = 0

\* The document makes its next request, or the request goes on.
Makes(d, r) == request' = [request EXCEPT ![d] = r] /\ step' = [step EXCEPT ![d] = "start"]
Recovering(d) == request[d] \in {"recover", "reveal", "confirm"}
Goes(d, s) == UNCHANGED request /\ step' = [step EXCEPT ![d] = s]
Ends(d) == Makes(d, "over")
At(d, r, s) == request[d] = r /\ step[d] = s

\* A request is refused.  The client runner treats a failed execution as the
\* outcome of its case and ends the document on any other failure.
Refused(d) == IF request[d] = "native"
              THEN Makes(d, "complete") /\ result' = [result EXCEPT ![d] = "failed"]
              ELSE Ends(d) /\ UNCHANGED result

Fault == faults < MaxFaults /\ faults' = faults + 1

-----------------------------------------------------------------------------
(* The scripts of the run index and of the continuation records. *)

Owns(d) == run = "active" /\ owner = d /\ ownerAt = Revision /\ leased

\* The run admission of ISSUE and BEGIN, and run-owner of PUT_CONTINUATION.
Admitted(d) == Owns(d) /\ Revision = Len(marker[d])

\* settleProbeCallKnown, with the rows recorded as completion: idempotent for
\* them, and the guard halts on others.
Settle(o) ==
  \/ /\ phase[o] \in {"pending", "doubtful"}
     /\ Budget!Settle(o)
     /\ settlement' = [settlement EXCEPT ![o] = completion[o]]
     /\ UNCHANGED halted
  \/ /\ phase[o] = "settled"
     /\ halted' = (halted \/ settlement[o] # completion[o])
     /\ UNCHANGED <<phase, cost, settlement>>

\* ADVANCE_RUN_INDEX from the rows the document read to those just sealed.
Advances(d) == Owns(d) /\ index \in {marker[d], completion[Ordinal(d)]}

-----------------------------------------------------------------------------
(* The requests begin alike. *)

\* activationOf: the guard is read once.
ReadGuard(d) ==
  /\ \/ Recovering(d)
     \/ request[d] \in {"issue", "decide", "native", "complete", "acknowledge"}
  /\ step[d] = "start"
  /\ IF GuardOpen
     THEN /\ seen' = [seen EXCEPT ![d] = GuardView]
          /\ Goes(d, "owner") /\ UNCHANGED result
     ELSE Refused(d) /\ UNCHANGED seen
  /\ UNCHANGED <<indexVars, ownerVars, tokens, records, guard, marker, history, faults>>

AssertOwner(d) ==
  /\ request[d] \in {"issue", "decide", "native", "complete"} /\ step[d] = "owner"
  /\ IF Owns(d) THEN Goes(d, "look") /\ UNCHANGED result ELSE Refused(d)
  /\ UNCHANGED <<indexVars, ownerVars, tokens, records, guard, seen, marker, history, faults>>

-----------------------------------------------------------------------------
(* Recovering the run: on opening /lab, on opening /results (reveal), and once *)
(* more before that page acknowledges (confirm).                             *)

Open(d) ==
  /\ request[d] = "none" /\ \A e \in Docs : e < d => request[e] # "none"
  /\ \E r \in {"recover", "reveal"} : Makes(d, r)
  /\ UNCHANGED <<indexVars, ownerVars, tokens, records, guard, client, history, faults>>

\* CLAIM_DOCUMENT: one owner per revision while its lease lasts.
Claim(d) ==
  /\ Recovering(d) /\ step[d] = "owner"
  /\ IF run = "active" /\ (ownerAt = Revision /\ leased => owner = d)
     THEN /\ owner' = d /\ ownerAt' = Revision /\ leased' = TRUE
          /\ Goes(d, "look")
     ELSE Ends(d) /\ UNCHANGED ownerVars
  /\ UNCHANGED <<indexVars, tokens, records, guard, client, history, faults>>

\* A page that finds the run elsewhere navigates to another document.
NextRequest(r, rows) ==
  LET terminal == Len(rows) = Cases IN
  CASE r = "recover" /\ ~terminal -> "issue"
    [] r = "reveal" /\ terminal -> "confirm"
    [] r = "confirm" /\ terminal -> "acknowledge"
    [] OTHER -> "over"

\* The answer of recoverProbeCalibrationSession.
Recovered(d, rows) ==
  marker' = [marker EXCEPT ![d] = rows] /\ Makes(d, NextRequest(request[d], rows))

\* reconcileRecoveredRunIndex: a settled call the index does not show yet is
\* caught up with from its completion record.
Reconcile(d) ==
  /\ Recovering(d) /\ step[d] = "look"
  /\ LET ahead == seen[d].calls - Revision
         terminal == Revision = Cases IN
     CASE run # "active" -> Ends(d) /\ UNCHANGED marker
       [] run = "active" /\ \/ ~seen[d].idle /\ ahead = 1 /\ ~terminal
                            \/ seen[d].idle /\ ahead = 0 -> Recovered(d, index)
       [] run = "active" /\ seen[d].idle /\ ahead = 1 /\ ~terminal ->
            Goes(d, "settle") /\ marker' = [marker EXCEPT ![d] = index]
       [] OTHER -> Ends(d) /\ UNCHANGED marker
  /\ UNCHANGED <<indexVars, ownerVars, tokens, records, guard, seen, result, history, faults>>

-----------------------------------------------------------------------------
(* issueProbeCalibrationTrial. *)

\* A case that is already sealed is settled, if it was not, and the document
\* reloads; otherwise the signed token is recorded, once.
IssueLook(d) ==
  /\ At(d, "issue", "look")
  /\ LET o == Ordinal(d) IN
     IF completion[o] # <<>>
     THEN /\ IF phase[o] = "idle" THEN UNCHANGED guard ELSE Settle(o)
          /\ Ends(d) /\ UNCHANGED issue
     ELSE /\ UNCHANGED guard
          /\ IF seen[d].calls # (IF seen[d].idle THEN o - 1 ELSE o)
             THEN Ends(d) /\ UNCHANGED issue
             ELSE /\ issue' = [issue EXCEPT ![o] = IF @ = "none" THEN "recorded" ELSE @]
                  /\ IF seen[d].idle THEN Goes(d, "authorize") ELSE Makes(d, "decide")
  /\ UNCHANGED <<indexVars, ownerVars, stale, records, client, history, faults>>

\* issueProbeAuthorization; an authorization that lapsed is not renewed.
Authorize(d) ==
  /\ At(d, "issue", "authorize")
  /\ LET o == Ordinal(d) IN
     IF /\ GuardOpen /\ Admitted(d) /\ phase[o] = "idle"
        /\ issue[o] \in {"recorded", "issued"} /\ (issue[o] = "issued" => ~stale[o])
     THEN issue' = [issue EXCEPT ![o] = "issued"] /\ Makes(d, "decide")
     ELSE Ends(d) /\ UNCHANGED issue
  /\ UNCHANGED <<indexVars, ownerVars, stale, records, guard, client, history, faults>>

-----------------------------------------------------------------------------
(* decideProbeCalibrationTrial. *)

\* Faulty variant: a recorded decision is not looked for.
NoDecisionRecovery(o) == FALSE

DecisionRecovered(o) == decision[o] # "none"

DecideLook(d) ==
  /\ At(d, "decide", "look")
  /\ LET o == Ordinal(d) IN
     IF DecisionRecovered(o) THEN Makes(d, "act")
     ELSE IF ~stale[o] /\ seen[d].idle /\ seen[d].calls = o - 1 THEN Goes(d, "grant")
     ELSE Ends(d)
  /\ UNCHANGED <<indexVars, ownerVars, tokens, records, guard, client, history, faults>>

Grantable(d) == GuardOpen /\ Admitted(d) /\ issue[Ordinal(d)] = "issued"

\* beginProbeCall; the authorization lapses by Redis's clock, somewhat later than the token.
Grant(d) ==
  /\ At(d, "decide", "grant")
  /\ LET o == Ordinal(d) IN
     \/ Grantable(d) /\ Budget!Make(o) /\ Goes(d, "infer")
     \/ /\ \/ ~Grantable(d) \/ phase[o] # "idle" \/ ~Idle
           \/ stale[o]
        /\ Ends(d) /\ UNCHANGED <<phase, cost>>
  /\ UNCHANGED <<indexVars, ownerVars, tokens, records, settlement, halted, client, history,
                 faults>>

\* decideWithOpenAi sends the request; the answer may be unusable.
Infer(d) ==
  /\ At(d, "decide", "infer")
  /\ inferences' = [inferences EXCEPT ![Ordinal(d)] = @ + 1]
  /\ \/ Goes(d, "record") /\ UNCHANGED faults
     \/ Goes(d, "doubt") /\ Fault
  /\ UNCHANGED <<indexVars, ownerVars, tokens, records, guard, client, executions>>

\* The decision is recorded while the grant is in flight; the reply may be lost.
Record(d) ==
  /\ At(d, "decide", "record")
  /\ LET o == Ordinal(d) IN
     \/ /\ phase[o] = "pending" /\ decision[o] = "none"
        /\ \E kind \in {"call", "clarify"} : decision' = [decision EXCEPT ![o] = kind]
        /\ \/ Makes(d, "act") /\ UNCHANGED faults
           \/ Goes(d, "doubt") /\ Fault
     \/ /\ phase[o] # "pending" \/ decision[o] # "none"
        /\ Goes(d, "doubt") /\ UNCHANGED <<decision, faults>>
     \/ Goes(d, "doubt") /\ Fault /\ UNCHANGED decision
  /\ UNCHANGED <<indexVars, ownerVars, tokens, native, completion, guard, client, history>>

\* Faulty variant: a call whose answer was lost is given back.
GivesBack(o) == phase' = [phase EXCEPT ![o] = "idle"] /\ UNCHANGED cost

\* settleProbeCallUncertain: the guard is quarantined.
Quarantines(o) == Budget!Doubt(o)

Doubt(d) ==
  /\ At(d, "decide", "doubt")
  /\ IF phase[Ordinal(d)] = "pending" THEN Quarantines(Ordinal(d)) ELSE UNCHANGED <<phase, cost>>
  /\ Ends(d)
  /\ UNCHANGED <<indexVars, ownerVars, tokens, records, settlement, halted, client, history,
                 faults>>

-----------------------------------------------------------------------------
(* The document acts on the decision: admitProbeNativeDispatch, executeOnce. *)

\* The live catalog is verified again; if it drifted the case ends undispatched.
Act(d) ==
  /\ request[d] = "act"
  /\ \/ decision[Ordinal(d)] = "call" /\ Makes(d, "native") /\ UNCHANGED <<result, faults>>
     \/ /\ \/ decision[Ordinal(d)] = "clarify" /\ UNCHANGED faults
           \/ Fault
        /\ Makes(d, "complete")
        /\ result' = [result EXCEPT ![d] =
             IF decision[Ordinal(d)] = "clarify" THEN "clarified" ELSE "drifted"]
  /\ UNCHANGED <<indexVars, ownerVars, tokens, records, guard, seen, marker, history>>

NativeLook(d) ==
  /\ At(d, "native", "look")
  /\ LET o == Ordinal(d) IN
     IF /\ ~seen[d].idle /\ seen[d].calls = o
        /\ completion[o] = <<>>
        /\ native[o] # NoDoc \/ ~stale[o]
     THEN Goes(d, "admit") /\ UNCHANGED result
     ELSE Refused(d)
  /\ UNCHANGED <<indexVars, ownerVars, tokens, records, guard, seen, marker, history, faults>>

\* Faulty variant: every document is admitted.
FirstAdmittedAlways(o) == TRUE

FirstAdmitted(o) == native[o] = NoDoc

Admit(d) ==
  /\ At(d, "native", "admit")
  /\ LET o == Ordinal(d) IN
     \/ /\ Admitted(d) /\ FirstAdmitted(o)
        /\ native' = [native EXCEPT ![o] = d]
        /\ \/ Makes(d, "execute") /\ UNCHANGED <<result, faults>>
           \/ Refused(d) /\ Fault
     \/ /\ Admitted(d) /\ ~FirstAdmitted(o)
        /\ Makes(d, "complete") /\ result' = [result EXCEPT ![d] = "indeterminate"]
        /\ UNCHANGED <<native, faults>>
     \/ ~Admitted(d) /\ Refused(d) /\ UNCHANGED <<native, faults>>
  /\ UNCHANGED <<indexVars, ownerVars, tokens, decision, completion, guard, seen, marker, history>>

\* The tool runs; its result may not reach the document.
Execute(d) ==
  /\ request[d] = "execute"
  /\ executions' = [executions EXCEPT ![Ordinal(d)] = @ + 1]
  /\ \/ result' = [result EXCEPT ![d] = "executed"] /\ UNCHANGED faults
     \/ result' = [result EXCEPT ![d] = "failed"] /\ Fault
  /\ Makes(d, "complete")
  /\ UNCHANGED <<indexVars, ownerVars, tokens, records, guard, seen, marker, inferences>>

-----------------------------------------------------------------------------
(* completeProbeCalibrationTrial. *)

\* Faulty variant: an undispatched case is not compared with the admissions.
EvidenceOfDispatchOnly(d) ==
  result[d] \in {"executed", "failed"} => native[Ordinal(d)] = d

\* The native admission record agrees with what the document reports.
Evidence(d) ==
  LET o == Ordinal(d) IN
  CASE result[d] \in {"executed", "failed"} -> native[o] = d
    [] result[d] = "indeterminate" -> native[o] # NoDoc
    [] OTHER -> native[o] = NoDoc

\* The index, then the completion record and the guard's answer are compared; a
\* completion of another document is not replaced.
CompleteLook(d) ==
  /\ At(d, "complete", "look")
  /\ LET o == Ordinal(d) IN
     IF /\ run = "active" /\ index = marker[d]
        /\ completion[o] = <<>>
        /\ ~seen[d].idle /\ seen[d].calls = o
        /\ Evidence(d)
     THEN Goes(d, "seal") ELSE Ends(d)
  /\ UNCHANGED <<indexVars, ownerVars, tokens, records, guard, client, history, faults>>

Sealable(d) == Admitted(d) /\ completion[Ordinal(d)] = <<>>

\* Faulty variant: the index advances before the call is paid.
IndexFirst == "advance"

PaidFirst == "settle"

Seal(d) ==
  /\ At(d, "complete", "seal")
  /\ IF Sealable(d)
     THEN /\ completion' = [completion EXCEPT ![Ordinal(d)] =
               Append(marker[d], [doc |-> d, result |-> result[d]])]
          /\ Goes(d, PaidFirst)
     ELSE Ends(d) /\ UNCHANGED completion
  /\ UNCHANGED <<indexVars, ownerVars, tokens, decision, native, guard, client, history, faults>>

\* The sealed row pays for the call; so does a recovery.
SettleSealed(d) ==
  /\ (Recovering(d) \/ request[d] = "complete") /\ step[d] = "settle"
  /\ LET o == Ordinal(d) IN
     IF completion[o] # <<>> /\ phase[o] # "idle"
     THEN Settle(o) /\ Goes(d, "advance")
     ELSE Ends(d) /\ UNCHANGED guard
  /\ UNCHANGED <<indexVars, ownerVars, tokens, records, client, history, faults>>

Advance(d) ==
  /\ (Recovering(d) \/ request[d] = "complete") /\ step[d] = "advance"
  /\ IF Advances(d)
     THEN /\ index' = completion[Ordinal(d)]
          /\ IF Recovering(d) THEN Recovered(d, completion[Ordinal(d)])
             ELSE Ends(d) /\ UNCHANGED marker
     ELSE Ends(d) /\ UNCHANGED <<index, marker>>
  /\ UNCHANGED <<run, ownerVars, tokens, records, guard, seen, result, history, faults>>

-----------------------------------------------------------------------------
(* The end of a run, and its surroundings. *)

\* ACKNOWLEDGE_RUN_INDEX: the terminal rows are kept elsewhere and deleted here.
Acknowledge(d) ==
  /\ At(d, "acknowledge", "owner")
  /\ run' = IF Owns(d) /\ Revision = Cases /\ index = marker[d] /\ GuardOpen
               /\ InPhase("settled") = Ordinals
            THEN "acknowledged" ELSE run
  /\ Ends(d)
  /\ UNCHANGED <<index, ownerVars, tokens, records, guard, client, history, faults>>

Unstarted == GuardOpen /\ Budget!Made = {}

\* DELETE_UNSTARTED_RUN_INDEX, which also revokes the first authorization.
Clear ==
  /\ run = "active" /\ index = <<>> /\ Unstarted
  /\ run' = "deleted"
  /\ issue' = [issue EXCEPT ![1] = IF @ = "issued" THEN "revoked" ELSE @]
  /\ UNCHANGED <<index, ownerVars, stale, records, guard, request, step, client, history, faults>>

LeaseExpires ==
  /\ leased /\ leased' = FALSE
  /\ UNCHANGED <<indexVars, owner, ownerAt, tokens, records, guard, request, step, client,
                 history, faults>>

TokenExpires(o) ==
  /\ issue[o] # "none" /\ ~stale[o]
  /\ stale' = [stale EXCEPT ![o] = TRUE]
  /\ UNCHANGED <<indexVars, ownerVars, issue, records, guard, request, step, client, history,
                 faults>>

\* The document is closed or its server instance dies.
Crash(d) ==
  /\ request[d] \notin {"none", "over", "crashed"}
  /\ Makes(d, "crashed")
  /\ UNCHANGED <<indexVars, ownerVars, tokens, records, guard, client, history, faults>>

Runs(d) ==
  \/ ReadGuard(d) \/ AssertOwner(d) \/ Claim(d) \/ Reconcile(d)
  \/ IssueLook(d) \/ Authorize(d) \/ DecideLook(d) \/ Grant(d) \/ Infer(d) \/ Record(d)
  \/ Doubt(d) \/ Act(d) \/ NativeLook(d) \/ Admit(d) \/ Execute(d)
  \/ CompleteLook(d) \/ Seal(d) \/ SettleSealed(d) \/ Advance(d) \/ Acknowledge(d)

Next ==
  \/ \E d \in Docs : Open(d) \/ Runs(d) \/ Crash(d)
  \/ Clear \/ LeaseExpires
  \/ \E o \in Ordinals : TokenExpires(o)

Spec == Init /\ [][Next]_vars

\* Redis and the model answer, the document goes on: a timeout ends every wait.
FairSpec == Spec /\ \A d \in Docs : WF_vars(Runs(d))

-----------------------------------------------------------------------------
\* However many documents try a case, the model is asked once for it, a recorded
\* decision is the answer to that one request, and the case reaches the page's
\* tools once, although a lost lease does not stop an admitted document and the
\* next one may be admitted too.
OncePerCase ==
  \A o \in Ordinals :
    /\ inferences[o] <= 1 /\ executions[o] <= 1
    /\ decision[o] # "none" => inferences[o] = 1

\* The sealed row tells what happened to the case, whichever document sealed it:
\* an executed row has one execution by its own document, and a row that claims
\* nothing was dispatched is never followed by an execution.
RowTruth ==
  \A o \in Ordinals : completion[o] # <<>> =>
    LET row == completion[o][o] IN
    /\ row.result = "executed" => executions[o] = 1 /\ native[o] = row.doc
    /\ row.result \in {"clarified", "drifted"} =>
         /\ executions[o] = 0
         /\ \A d \in Docs : request[d] = "execute" => Ordinal(d) # o

\* The index shows a prefix of what is sealed, everything it shows is paid, and at
\* most one call runs ahead of it: no recovery starts from a state it cannot have.
IndexIsSealed ==
  /\ index # <<>> => index = completion[Revision]
  /\ \A o \in 1 .. Revision : phase[o] = "settled"
  /\ Cardinality(Budget!Made) <= Revision + 1
  /\ \A o \in Ordinals : completion[o] # <<>> =>
       /\ Len(completion[o]) = o
       /\ o > 1 => SubSeq(completion[o], 1, o - 1) = completion[o - 1]

\* The grant is in flight and its answer was never recorded: nothing in the probe
\* service ends that.  A token that lapsed before the dispatch is not renewed.
Lost(o) == phase[o] = "pending" /\ decision[o] = "none"
Lapsed(o) == stale[o] /\ native[o] = NoDoc /\ decision[o] # "clarify"

\* A document that owns the run's revision, and that nothing fails any more, seals
\* its case whatever earlier documents left behind.
RecoversUnlessLost ==
  \A d \in Docs, o \in Ordinals :
    (/\ At(d, "issue", "start") /\ Ordinal(d) = o
     /\ Admitted(d) /\ GuardOpen /\ faults = MaxFaults /\ ~Lost(o) /\ ~Lapsed(o))
    ~> \/ completion[o] # <<>>
       \/ request[d] = "crashed" \/ ~Admitted(d) \/ ~GuardOpen \/ Lapsed(o)

=============================================================================
