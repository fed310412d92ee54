----------------------------- MODULE ScoredRun -----------------------------
(***************************************************************************)
(* One phase of the scored protocol: a fixed schedule of cases, each given *)
(* one paid model call, with at most one replacement before inference.     *)
(* The state is Redis: the run's permanent anchor, its expiring data, the  *)
(* permanent evidence, the continuations and the grants of the lifetime    *)
(* guard (ProbeLedger describes that ledger by itself; here it is what     *)
(* BEGIN, SETTLE_KNOWN and SETTLE_UNCERTAIN do to this phase's grants).    *)
(* A request is a sequence of awaits: every store call is a step of its    *)
(* own, and between two of them anything else may run, including a request *)
(* the runner has given up on, which goes on as the orphan.                *)
(***************************************************************************)
EXTENDS Integers, FiniteSets

CONSTANTS Cases,      \* SCORED_RUN_CASE_COUNT, 24 in the code
          Decisions,  \* what a known answer decides: to call a tool, or not
          MaxLost,    \* replies the runner gives up on
          MaxStops,   \* dead requests, restarts and expiries
          NoKey, NoRow, NoDigest

ASSUME CasesAssumption == Cases \in Nat \ {0}
ASSUME DecisionsAssumption == Decisions \subseteq {"call", "nocall", "unusable"}
ASSUME FaultsAssumption == MaxLost \in Nat /\ MaxStops \in Nat

Ordinals == 0 .. Cases - 1
Keys == Ordinals \X {0, 1}
\* What the log keeps of an attempt, and what a digest of the log stands for.
Rows == [by : {"row", "uncertain", "failure"}, disposition : {"scored", "invalid"},
         eligible : BOOLEAN, usable : BOOLEAN, inferred : BOOLEAN, native : BOOLEAN]
Digests == [rows : [Keys -> Rows \cup {NoRow}], calls : Nat, known : Nat]

ASSUME NullAssumption == NoKey \notin Keys /\ NoRow \notin Rows /\ NoDigest \notin Digests

VARIABLES anchor,     \* the permanent anchor hash
          data,       \* the data hash, which expires four hours after creation
          evidence,   \* the permanent evidence hash
          leased,     \* the owner lease has not run out
          grant,      \* the ledger's state of each attempt's authorization
          stale,      \* grants past the ledger's 120 seconds
          kept,       \* the continuations of each attempt
          req,        \* the request being served, and the one given up on
          client,     \* scripts/scored-run.ts
          faults

store == <<anchor, data, evidence, leased>>
ledger == <<grant, stale>>
server == <<anchor, data, evidence, leased, grant, stale, kept>>
vars == <<anchor, data, evidence, leased, grant, stale, kept, req, client,
          faults>>

Lines == {"main", "orphan"}
Ops == {"issue", "decide", "native", "complete", "failure", "reveal", "ack"}
NoDecision == "none"
Dispatched == {k \in Keys : grant[k] \in {"IN_FLIGHT", "KNOWN", "UNCERTAIN"}}
InFlight == {k \in Keys : grant[k] = "IN_FLIGHT"}
Settled == {k \in Keys : grant[k] = "KNOWN"}
\* The guard is quarantined by an uncertain settlement and reopened by the late
\* known one of the same call.
GuardOpen == \A k \in Keys : grant[k] # "UNCERTAIN"

EmptyLog == [k \in Keys |-> NoRow]
Current == <<anchor.ordinal, anchor.attempt>>
Running == anchor.status = "active"
Terminal == anchor.status \in {"complete", "invalid", "acknowledged"}
Recorded(log) == {k \in Keys : log[k] # NoRow}
Scored(log) == {k \in Recorded(log) : log[k].disposition = "scored"}

Idle == [op |-> "idle", pc |-> "idle", key |-> NoKey, clean |-> FALSE,
         seen |-> NoDecision, admitted |-> FALSE, native |-> FALSE, row |-> NoRow, digest |-> NoDigest]
Request(op) == [Idle EXCEPT !.op = op, !.pc = "arrive"]
At(w, op, pc) == req[w].op = op /\ req[w].pc = pc
Goto(w, pc) == req' = [req EXCEPT ![w].pc = pc]

Init ==
  /\ anchor = [status |-> "missing", ordinal |-> 0, attempt |-> 0, done |-> 0,
               failed |-> 0, rows |-> EmptyLog, digest |-> NoDigest, terminal |-> "none"]
  /\ data = [state |-> "none", rows |-> EmptyLog]
  /\ evidence = [status |-> "none", rows |-> EmptyLog, digest |-> NoDigest]
  /\ leased = FALSE
  /\ grant = [k \in Keys |-> "absent"] /\ stale = {}
  /\ kept = [k \in Keys |-> [issue |-> FALSE, decision |-> NoDecision, native |-> FALSE,
                             completion |-> FALSE]]
  /\ req = [w \in Lines |-> Idle]
  /\ client = [at |-> "start", token |-> NoKey, native |-> FALSE, digest |-> NoDigest]
  /\ faults = [lost |-> 0, stops |-> 0]
-----------------------------------------------------------------------------
(* Replies.  A reply reaches the runner only from the request it waits for. *)

Answer(w, c) ==
  /\ req' = [req EXCEPT ![w] = Idle]
  /\ client' = IF w = "main" THEN c ELSE client

\* What the runner does next when a request of it fails.
AfterError(op) ==
  CASE op \in {"issue", "decide", "native", "complete"} -> [client EXCEPT !.at = "failed"]
    [] op \in {"failure", "reveal"} -> [client EXCEPT !.at = "open", !.token = NoKey]
    [] OTHER -> [client EXCEPT !.at = IF client.at = "acking" THEN "ackAgain" ELSE "open"]

Refuse(w) == Answer(w, AfterError(req[w].op)) /\ UNCHANGED <<server, faults>>

\* The next document: recovery tells it whether the run goes on.
Onward == [client EXCEPT !.at = "open", !.token = NoKey, !.native = FALSE]
-----------------------------------------------------------------------------
(* authenticateSession: the guard, the progress, the owner lease and the run. *)

\* readScoredGuardContext asks for status "open" even when unsettled calls are
\* allowed.
Admits(mode) ==
  /\ GuardOpen
  /\ anchor.status # "missing"
  /\ mode = "settled" => InFlight = {}
  /\ mode \in {"settled", "decision"} => Running
  /\ mode = "terminal" => ~Running
  /\ mode = "failure" /\ ~Running => InFlight = {}
  /\ data.state = "live" \/ (~Running /\ evidence.status # "none")

\* Faulty variant: a failure can be reported only when nothing is in flight.
ModeFailureSettled(op) ==
  CASE op \in {"issue", "native", "complete", "failure"} -> "settled"
    [] op = "decide" -> "decision"
    [] OTHER -> "terminal"
Mode(op) ==
  CASE op \in {"issue", "native", "complete"} -> "settled"
    [] op = "decide" -> "decision"
    [] op = "failure" -> "failure"
    [] OTHER -> "terminal"

\* verifyAuthorization: a token speaks for the attempt the run is at.
TokenFits(w) == Running /\ req[w].key # NoKey => req[w].key = Current

FirstAwait(w) ==
  CASE req[w].op = "issue" -> "keep"
    [] req[w].op = "failure" -> IF req[w].key = NoKey THEN "look" ELSE "recall"
    [] req[w].op \in {"reveal", "ack"} -> "reconcile"
    [] OTHER -> "recall"

Authenticate(w) ==
  /\ req[w].pc = "arrive"
  /\ IF ~Admits(Mode(req[w].op)) \/ ~TokenFits(w)
           \/ (req[w].op = "ack" /\ req[w].digest # anchor.digest)
     THEN Refuse(w)
     ELSE /\ leased' = (leased \/ Running)
          /\ IF req[w].op = "failure" /\ ~Running
             THEN Answer(w, Onward)
             ELSE /\ req' = [req EXCEPT ![w].pc = FirstAwait(w),
                       ![w].clean = (InFlight = {}),
                       ![w].key = IF req[w].op \in {"issue", "failure"} THEN Current ELSE @]
                  /\ UNCHANGED client
          /\ UNCHANGED <<anchor, data, evidence, ledger, kept, faults>>
-----------------------------------------------------------------------------
(* RECORD_ATTEMPT_SCRIPT: the log of attempts moves the run. *)

\* Faulty variant: an ended run still takes records.
CanRecordAfterEnd(k) == data.state = "live" /\ leased /\ k = Current
CanRecord(k) == Running /\ data.state = "live" /\ leased /\ k = Current

Advanced(k, row) ==
  LET logged == [anchor EXCEPT !.rows[k] = row] IN
  IF row.disposition = "scored"
  THEN [logged EXCEPT !.done = @ + 1, !.ordinal = @ + 1, !.attempt = 0,
          !.status = IF k[1] + 1 = Cases THEN "complete" ELSE "active"]
  ELSE IF row.eligible /\ k[2] = 0 THEN [logged EXCEPT !.failed = @ + 1, !.attempt = 1]
  ELSE [logged EXCEPT !.failed = @ + 1, !.status = "invalid"]

\* Faulty variant: the attempt itself is not stored, only its digest.
RecordDigestOnly(k, row) == anchor' = Advanced(k, row) /\ UNCHANGED data
RecordAttempt(k, row) ==
  /\ anchor' = Advanced(k, row)
  /\ data' = [data EXCEPT !.rows[k] = row]

\* SETTLE_UNCERTAIN_SCRIPT: it moves a call in flight and no other.
SettleUncertain(k) == grant' = [grant EXCEPT ![k] = IF @ = "IN_FLIGHT" THEN "UNCERTAIN" ELSE @]
-----------------------------------------------------------------------------
(* issueScoredTrial *)

\* The first envelope and authorization stored for the attempt are the ones used.
KeepIssue(w) ==
  /\ At(w, "issue", "keep")
  /\ kept' = [kept EXCEPT ![req[w].key].issue = TRUE]
  /\ Goto(w, "issue")
  /\ UNCHANGED <<store, ledger, client, faults>>

\* issueProbeAuthorization: a grant that is no longer fresh is never issued again.
IssueGrant(w) ==
  LET k == req[w].key IN
  /\ At(w, "issue", "issue")
  /\ IF GuardOpen /\ (grant[k] = "absent" \/ (grant[k] = "ISSUED" /\ k \notin stale))
     THEN /\ grant' = [grant EXCEPT ![k] = "ISSUED"]
          /\ Answer(w, [client EXCEPT !.at = "decide", !.token = k])
          /\ UNCHANGED <<store, stale, kept, faults>>
     ELSE Refuse(w)
-----------------------------------------------------------------------------
(* decideScoredTrial *)

\* A decision kept by an earlier request is settled and answered again; otherwise
\* the guard must have been clean and the grant untouched.
RecallDecision(w) ==
  LET k == req[w].key IN
  /\ At(w, "decide", "recall")
  /\ IF kept[k].decision # NoDecision
     THEN /\ req' = [req EXCEPT ![w].pc = "settle", ![w].seen = kept[k].decision]
          /\ UNCHANGED <<server, client, faults>>
     ELSE IF req[w].clean THEN Goto(w, "look") /\ UNCHANGED <<server, client, faults>>
     ELSE Refuse(w)

LookBeforeCall(w) ==
  /\ At(w, "decide", "look")
  /\ IF grant[req[w].key] = "ISSUED"
     THEN Goto(w, "begin") /\ UNCHANGED <<server, client, faults>>
     ELSE Refuse(w)

\* beginProbeCall: one call in flight at a time, and never twice for one grant.
BeginCall(w) ==
  LET k == req[w].key IN
  /\ At(w, "decide", "begin")
  /\ IF ~GuardOpen \/ grant[k] # "ISSUED" THEN Refuse(w)
     ELSE IF k \in stale
     THEN /\ grant' = [grant EXCEPT ![k] = "EXPIRED"]
          /\ Answer(w, AfterError("decide"))
          /\ UNCHANGED <<store, stale, kept, faults>>
     ELSE IF InFlight # {} THEN Refuse(w)
     ELSE /\ grant' = [grant EXCEPT ![k] = "IN_FLIGHT"]
          /\ Goto(w, "asked")
          /\ UNCHANGED <<store, stale, kept, client, faults>>

\* decideScoredWithOpenAi: the provider's answer, or none that can be trusted.
ProviderAnswers(w) ==
  /\ At(w, "decide", "asked")
  /\ \/ \E d \in Decisions : req' = [req EXCEPT ![w].pc = "keep", ![w].seen = d]
     \/ Goto(w, "doubt")
  /\ UNCHANGED <<server, client, faults>>

KeepDecision(w) ==
  LET k == req[w].key IN
  /\ At(w, "decide", "keep")
  /\ kept' = [kept EXCEPT ![k].decision = req[w].seen]
  /\ Goto(w, "settle")
  /\ UNCHANGED <<store, ledger, client, faults>>

\* settleKnownScoredDecision, which a call already in doubt accepts as well.
SettleDecision(w) ==
  LET k == req[w].key IN
  /\ At(w, "decide", "settle")
  /\ grant' = [grant EXCEPT ![k] = "KNOWN"]
  /\ Answer(w, [client EXCEPT !.at = IF req[w].seen = "call" THEN "native" ELSE "complete"])
  /\ UNCHANGED <<store, stale, kept, faults>>

UncertainRow == [by |-> "uncertain", disposition |-> "invalid", eligible |-> FALSE,
                 usable |-> FALSE, inferred |-> TRUE, native |-> FALSE]

\* The failed attempt is recorded before its call is settled: a crash between the
\* two must leave the record.
RecordDoubt(w) ==
  LET k == req[w].key IN
  /\ At(w, "decide", "doubt")
  /\ IF ~CanRecord(k) THEN Refuse(w)
     ELSE /\ RecordAttempt(k, UncertainRow)
          /\ Goto(w, "quarantine")
          /\ UNCHANGED <<evidence, leased, ledger, kept, client, faults>>

QuarantineDoubt(w) ==
  /\ At(w, "decide", "quarantine")
  /\ SettleUncertain(req[w].key)
  /\ Answer(w, AfterError("decide"))
  /\ UNCHANGED <<store, stale, kept, faults>>
-----------------------------------------------------------------------------
(* admitScoredNative and completeScoredTrial *)

RecallForNative(w) ==
  /\ At(w, "native", "recall")
  /\ IF req[w].clean /\ kept[req[w].key].decision = "call"
     THEN Goto(w, "keep") /\ UNCHANGED <<server, client, faults>>
     ELSE Refuse(w)

\* The runner accepts a new admission only.
KeepNative(w) ==
  LET k == req[w].key IN
  /\ At(w, "native", "keep")
  /\ kept' = [kept EXCEPT ![k].native = TRUE]
  /\ Answer(w, IF kept[k].native THEN AfterError("native")
               ELSE [client EXCEPT !.at = "dispatch"])
  /\ UNCHANGED <<store, ledger, faults>>

\* buildGate3ScoredEvidenceRow: a usable or unusable decision is scored alike; a
\* reset boundary that does not hold makes the attempt invalid, and as a model
\* call was made it is never replaced.
RowOf(d, disposition) ==
  [by |-> "row", disposition |-> disposition, eligible |-> FALSE,
   usable |-> d # "unusable", inferred |-> TRUE, native |-> d = "call"]

RecallForRow(w) ==
  LET k == req[w].key IN
  /\ At(w, "complete", "recall")
  /\ IF req[w].clean /\ kept[k].decision # NoDecision
          /\ (kept[k].decision = "call") = kept[k].native
     THEN /\ \E v \in {"scored", "invalid"} :
               req' = [req EXCEPT ![w].pc = "record", ![w].row = RowOf(kept[k].decision, v)]
          /\ UNCHANGED <<server, client, faults>>
     ELSE Refuse(w)

RecordRow(w) ==
  LET k == req[w].key IN
  /\ At(w, "complete", "record")
  /\ IF ~CanRecord(k) THEN Refuse(w)
     ELSE /\ RecordAttempt(k, req[w].row)
          /\ Goto(w, "keep")
          /\ UNCHANGED <<evidence, leased, ledger, kept, client, faults>>

KeepCompletion(w) ==
  /\ At(w, "complete", "keep")
  /\ kept' = [kept EXCEPT ![req[w].key].completion = TRUE]
  /\ Answer(w, Onward)
  /\ UNCHANGED <<store, ledger, faults>>
-----------------------------------------------------------------------------
(* recordScoredTrialFailure *)

\* Faulty variant: a second attempt is replaceable as well.
EligibleAgain(k, state, decided, admitted, native) ==
  /\ ~native /\ ~decided /\ ~admitted
  /\ state \in {"absent", "ISSUED", "EXPIRED"}
\* scoredInfrastructureReplacementEligible
Eligible(k, state, decided, admitted, native) ==
  /\ k[2] = 0
  /\ ~native /\ ~decided /\ ~admitted
  /\ state \in {"absent", "ISSUED", "EXPIRED"}

\* Faulty variant: a call in flight does not yet count as inference.
FailureRowFromAnswer(k, state, decided, admitted, native) ==
  [by |-> "failure", disposition |-> "invalid",
   eligible |-> Eligible(k, state, decided, admitted, native),
   usable |-> decided, inferred |-> state \in {"KNOWN", "UNCERTAIN"}, native |-> native]
FailureRow(k, state, decided, admitted, native) ==
  [by |-> "failure", disposition |-> "invalid",
   eligible |-> Eligible(k, state, decided, admitted, native),
   usable |-> decided, inferred |-> state \in {"IN_FLIGHT", "KNOWN", "UNCERTAIN"},
   native |-> native]

\* The continuations are read only for a report that carries the token.
RecallForFailure(w) ==
  LET k == req[w].key IN
  /\ At(w, "failure", "recall")
  /\ req' = [req EXCEPT ![w].pc = "look", ![w].seen = kept[k].decision,
                        ![w].admitted = kept[k].native]
  /\ UNCHANGED <<server, client, faults>>

\* The grant is read, and the row is decided on what it was then.
LookAtGrant(w) ==
  LET k == req[w].key IN
  /\ At(w, "failure", "look")
  /\ req' = [req EXCEPT ![w].pc = "record",
       ![w].row = FailureRow(k, grant[k], req[w].seen # NoDecision,
                             req[w].admitted, req[w].native),
       ![w].seen = grant[k]]
  /\ UNCHANGED <<server, client, faults>>

RecordFailure(w) ==
  LET k == req[w].key IN
  /\ At(w, "failure", "record")
  /\ IF ~CanRecord(k) THEN Refuse(w)
     ELSE /\ RecordAttempt(k, req[w].row)
          /\ IF req[w].seen = "IN_FLIGHT"
             THEN Goto(w, "quarantine") /\ UNCHANGED client
             ELSE Answer(w, Onward)
          /\ UNCHANGED <<evidence, leased, ledger, kept, faults>>

\* A call that became known in between can no longer be settled uncertain: the
\* report fails, and its record stays.
QuarantineFailure(w) ==
  /\ At(w, "failure", "quarantine")
  /\ SettleUncertain(req[w].key)
  /\ Answer(w, IF grant[req[w].key] = "KNOWN" THEN AfterError("failure") ELSE Onward)
  /\ UNCHANGED <<store, stale, kept, faults>>
-----------------------------------------------------------------------------
(* revealScoredRun and acknowledgeVerifiedScoredRun *)

\* reconcileTerminalInflightAttempts: each failed attempt still in flight is
\* settled uncertain, then the guard is read again.
ToReconcile == {k \in Recorded(anchor.rows) \cap InFlight :
                  anchor.rows[k].disposition # "scored"}

Reconcile(w) ==
  /\ req[w].pc = "reconcile"
  /\ IF ToReconcile = {} THEN Goto(w, "guard") /\ UNCHANGED grant
     ELSE \E k \in ToReconcile : SettleUncertain(k) /\ UNCHANGED req
  /\ UNCHANGED <<store, stale, kept, client, faults>>

\* The bundle carries the guard's counters, so they are part of its digest.
ReadGuardAgain(w) ==
  /\ req[w].pc = "guard"
  /\ IF ~GuardOpen THEN Refuse(w)
     ELSE /\ req' = [req EXCEPT
               ![w].pc = IF req[w].op = "ack" THEN "unlink" ELSE "bind",
               ![w].clean = (InFlight = {}),
               ![w].digest = IF req[w].op = "ack" THEN @
                 ELSE [rows |-> anchor.rows, calls |-> Cardinality(Dispatched),
                       known |-> Cardinality(Settled)]]
          /\ UNCHANGED <<server, client, faults>>

\* verifyAttemptEvidence: what a recorded attempt says of itself holds together.
EvidenceFits(k, row) ==
  CASE row.by = "row" -> row.native => row.usable
    [] row.by = "uncertain" -> ~row.eligible /\ ~row.usable /\ ~row.native
    [] OTHER -> row.disposition = "invalid" /\ (row.usable => row.inferred)

\* verifyAttemptLedgerBinding
LedgerFits(k, row) ==
  IF row.by = "row" THEN grant[k] = "KNOWN" ELSE row.inferred => k \in Dispatched

\* The loop of verifyGate3ScoredBundle: cases in order and without a gap, a second
\* attempt exactly where the first admits one, and only the last case may fail.
Tried(log) == {o \in Ordinals : log[<<o, 0>>] # NoRow}
CaseFails(log, o) ==
  LET last == IF log[<<o, 1>>] # NoRow THEN log[<<o, 1>>] ELSE log[<<o, 0>>]
  IN last.disposition = "invalid"
TopologyFits(log) ==
  /\ \A o \in Tried(log) : \A p \in 0 .. o : p \in Tried(log)
  /\ \A o \in Ordinals :
       log[<<o, 1>>] # NoRow <=> o \in Tried(log) /\ log[<<o, 0>>].eligible
  /\ \A o \in Tried(log) : log[<<o, 0>>].eligible => log[<<o, 0>>].disposition = "invalid"
  /\ \A o \in Tried(log) : log[<<o, 1>>] # NoRow => ~log[<<o, 1>>].eligible
  /\ \A o \in Tried(log) : CaseFails(log, o) => o + 1 \notin Tried(log)

\* verifyGate3ScoredBundle: the terminal status and counters follow from the log.
BundleFits(log, status, done, failed) ==
  /\ Tried(log) # {} /\ TopologyFits(log)
  /\ \A k \in Recorded(log) : EvidenceFits(k, log[k])
  /\ done = Cardinality(Scored(log))
  /\ failed = Cardinality(Recorded(log) \ Scored(log))
  /\ status = "complete" <=> done = Cases
  /\ status = "invalid" <=> \E o \in Tried(log) : CaseFails(log, o)

Disposition == IF anchor.status = "acknowledged" THEN anchor.terminal ELSE anchor.status

Bind(w) ==
  LET digest == req[w].digest IN
  /\ req[w].pc = "bind"
  /\ IF /\ req[w].clean
        /\ BundleFits(digest.rows, Disposition, anchor.done, anchor.failed)
        /\ \A k \in Recorded(digest.rows) : LedgerFits(k, digest.rows[k])
        /\ digest.calls = Cardinality(Dispatched \cap Recorded(digest.rows))
     THEN Goto(w, "seal") /\ UNCHANGED <<server, client, faults>>
     ELSE Refuse(w)

Sealable == data.state = "live" /\ Recorded(data.rows) = Recorded(anchor.rows)

\* Faulty variant: the digest is not written to the anchor.
SealWithoutAnchor(w) ==
  LET digest == req[w].digest
      revealed == [client EXCEPT !.at = "verified", !.digest = digest] IN
  /\ req[w].pc = "seal"
  /\ IF anchor.digest = digest /\ (anchor.status = "acknowledged" \/ Sealable)
     THEN Answer(w, revealed) /\ UNCHANGED <<server, faults>>
     ELSE IF anchor.digest = NoDigest /\ Sealable /\ evidence.status = "none"
     THEN /\ evidence' = [status |-> "sealed", rows |-> data.rows, digest |-> digest]
          /\ Answer(w, revealed)
          /\ UNCHANGED <<anchor, data, leased, ledger, kept, faults>>
     ELSE Refuse(w)

\* SEAL_EVIDENCE_SCRIPT: evidence sealed before is only compared.  An acknowledged
\* run is compared without the script.
Seal(w) ==
  LET digest == req[w].digest
      revealed == [client EXCEPT !.at = "verified", !.digest = digest] IN
  /\ req[w].pc = "seal"
  /\ IF anchor.digest = digest /\ (anchor.status = "acknowledged" \/ Sealable)
     THEN Answer(w, revealed) /\ UNCHANGED <<server, faults>>
     ELSE IF anchor.digest = NoDigest /\ Sealable /\ evidence.status = "none"
     THEN /\ evidence' = [status |-> "sealed", rows |-> data.rows, digest |-> digest]
          /\ anchor' = [anchor EXCEPT !.digest = digest]
          /\ Answer(w, revealed)
          /\ UNCHANGED <<data, leased, ledger, kept, faults>>
     ELSE Refuse(w)

\* Every continuation of the recorded attempts is removed before the run is
\* acknowledged.
Unlink(w) ==
  /\ req[w].pc = "unlink"
  /\ kept' = [k \in Keys |-> IF k \in Recorded(anchor.rows)
                THEN [issue |-> FALSE, decision |-> NoDecision, native |-> FALSE,
                      completion |-> FALSE]
                ELSE kept[k]]
  /\ Goto(w, "ack")
  /\ UNCHANGED <<store, ledger, client, faults>>

\* ACK_SCRIPT: the encrypted data go only once the permanent copy is marked.
Acknowledge(w) ==
  /\ req[w].pc = "ack"
  /\ IF evidence.status = "none" \/ evidence.digest # req[w].digest \/ Running
     THEN Refuse(w)
     ELSE /\ anchor' = IF anchor.status = "acknowledged" THEN anchor
               ELSE [anchor EXCEPT !.status = "acknowledged", !.terminal = anchor.status]
          /\ evidence' = [evidence EXCEPT !.status = "acknowledged"]
          /\ data' = [state |-> "gone", rows |-> EmptyLog]
          /\ Answer(w, [client EXCEPT !.at = "done"])
          /\ UNCHANGED <<leased, ledger, kept, faults>>
-----------------------------------------------------------------------------
(* scripts/scored-run.ts *)

Ready == req["main"] = Idle
Lost == faults.lost < MaxLost /\ faults' = [faults EXCEPT !.lost = @ + 1]
Send(request) == req' = [req EXCEPT !["main"] = request]

\* startScoredSession: the capability is bound to this launch, and CREATE_SCRIPT
\* answers the same launch again.  An anchor without its data is never filled again.
StartRun ==
  /\ client.at = "start"
  /\ GuardOpen /\ Dispatched = {}
  /\ IF anchor.status = "missing"
     THEN /\ anchor' = [anchor EXCEPT !.status = "active"]
          /\ data' = [data EXCEPT !.state = "live"]
          /\ leased' = TRUE
     ELSE data.state = "live" /\ UNCHANGED <<anchor, data, leased>>
  /\ \/ client' = [client EXCEPT !.at = "issue"] /\ UNCHANGED faults
     \/ Lost /\ UNCHANGED client
  /\ UNCHANGED <<evidence, ledger, kept, req>>

\* recoverScoredSession: its only write is the owner lease.
RecoverAs(next) ==
  /\ GuardOpen /\ anchor.status # "missing"
  /\ Running => data.state = "live"
  /\ leased' = (leased \/ Running)
  /\ client' = next
  /\ UNCHANGED <<anchor, data, evidence, ledger, kept, faults>>

Recover ==
  /\ client.at = "open"
  /\ RecoverAs([client EXCEPT !.at = IF Running THEN "issue" ELSE "reveal"])
  /\ UNCHANGED req

RequestTrial ==
  /\ Ready /\ client.at \in {"issue", "decide", "native", "complete"}
  /\ Send([Request(client.at) EXCEPT !.key = client.token])
  /\ client' = [client EXCEPT !.at = "waiting"]
  /\ UNCHANGED <<server, faults>>

\* The admitted tool runs in the page, or fails before or after it was called.
DispatchNative ==
  /\ client.at = "dispatch"
  /\ \/ client' = [client EXCEPT !.at = "complete"]
     \/ \E called \in BOOLEAN : client' = [client EXCEPT !.at = "failed", !.native = called]
  /\ UNCHANGED <<server, req, faults>>

\* A failed trial is reported from a new browser, with the token if one was issued.
ReportFailure ==
  /\ Ready /\ client.at = "failed"
  /\ RecoverAs([client EXCEPT !.at = "waiting"])
  /\ Send([Request("failure") EXCEPT !.key = client.token, !.native = client.native])

RequestReveal ==
  /\ Ready /\ client.at = "reveal"
  /\ RecoverAs([client EXCEPT !.at = "waiting"])
  /\ Send(Request("reveal"))

\* The human has approved the evidence file; a failed acknowledgement is sent again
\* once.
RequestAck ==
  /\ Ready /\ client.at \in {"verified", "ackAgain"}
  /\ RecoverAs([client EXCEPT !.at = IF client.at = "verified" THEN "acking"
                                     ELSE "ackingAgain"])
  /\ Send([Request("ack") EXCEPT !.digest = client.digest])
-----------------------------------------------------------------------------
(* Faults: at most MaxLost and MaxStops of them, so that a run comes to an end. *)

Stop == faults.stops < MaxStops /\ faults' = [faults EXCEPT !.stops = @ + 1]

\* The runner gives up on a request, whose reply is lost or late; the server does
\* not know.
LoseReply ==
  /\ Lost /\ ~Ready /\ req["orphan"] = Idle
  /\ req' = [req EXCEPT !["main"] = Idle, !["orphan"] = req["main"]]
  /\ client' = AfterError(req["main"].op)
  /\ UNCHANGED server

\* The server stops in the middle of a request.
RequestDies(w) ==
  /\ Stop /\ req[w] # Idle
  /\ Answer(w, AfterError(req[w].op))
  /\ UNCHANGED server

\* The runner is started again: its credentials are on disk, its token is not.
RestartRunner ==
  /\ Stop /\ req["orphan"] = Idle /\ client.at \notin {"start", "open", "done"}
  /\ req' = [req EXCEPT !["main"] = Idle, !["orphan"] = req["main"]]
  /\ client' = [at |-> "open", token |-> NoKey, native |-> FALSE, digest |-> NoDigest]
  /\ UNCHANGED server

\* Ten minutes after the last request, two minutes after an issue, four hours after
\* the start.  Every request renews the lease and only a record reads it, only an
\* issue and a begin read a grant's expiry: an earlier expiry is seen there.
LeaseEnds ==
  /\ Stop /\ leased
  /\ \E w \in Lines : req[w].pc \in {"record", "doubt"}
  /\ leased' = FALSE
  /\ UNCHANGED <<anchor, data, evidence, ledger, kept, req, client>>
GrantEnds(k) ==
  /\ Stop /\ grant[k] = "ISSUED" /\ k \notin stale
  /\ \E w \in Lines : req[w].key = k /\ req[w].pc \in {"issue", "begin"}
  /\ stale' = stale \cup {k}
  /\ UNCHANGED <<store, grant, kept, req, client>>
DataExpires ==
  /\ Stop /\ data.state = "live"
  /\ data' = [state |-> "gone", rows |-> EmptyLog]
  /\ UNCHANGED <<anchor, evidence, leased, ledger, kept, req, client>>

Serve(w) ==
  \/ Authenticate(w)
  \/ KeepIssue(w) \/ IssueGrant(w)
  \/ RecallDecision(w) \/ LookBeforeCall(w) \/ BeginCall(w) \/ ProviderAnswers(w)
  \/ KeepDecision(w) \/ SettleDecision(w) \/ RecordDoubt(w) \/ QuarantineDoubt(w)
  \/ RecallForNative(w) \/ KeepNative(w)
  \/ RecallForRow(w) \/ RecordRow(w) \/ KeepCompletion(w)
  \/ RecallForFailure(w) \/ LookAtGrant(w) \/ RecordFailure(w) \/ QuarantineFailure(w)
  \/ Reconcile(w) \/ ReadGuardAgain(w) \/ Bind(w) \/ Seal(w) \/ Unlink(w)
  \/ Acknowledge(w)

Run ==
  \/ StartRun \/ Recover \/ RequestTrial \/ DispatchNative
  \/ ReportFailure \/ RequestReveal \/ RequestAck

Next ==
  \/ Run
  \/ \E w \in Lines : Serve(w) \/ RequestDies(w)
  \/ LoseReply \/ RestartRunner \/ LeaseEnds \/ DataExpires
  \/ \E k \in Keys : GrantEnds(k)

Spec == Init /\ [][Next]_vars
\* The operator runs the script until it is done and the request it waits for gets
\* its turn; one given up on may never run again.
FairSpec == Spec /\ WF_vars(Run \/ Serve("main"))
-----------------------------------------------------------------------------
\* Every paid call is in the log: a dispatched grant is a recorded attempt or the
\* attempt the run is at, a row that speaks of a call or of its answer has one, and a
\* decision is kept of a dispatched call only.  No row denies a call, but for the one
\* race this code has: a failure report looked at the grant before the call began, which
\* takes a request that was given up on.
Denied == {k \in Recorded(anchor.rows) \cap Dispatched : ~anchor.rows[k].inferred}
LookedBefore(k) ==
  \E w \in Lines : /\ At(w, "failure", "record") /\ req[w].key = k
                   /\ req[w].seen \notin {"IN_FLIGHT", "KNOWN", "UNCERTAIN"}
CallsAreAccounted ==
  /\ [](/\ Dispatched \subseteq Recorded(anchor.rows) \cup (IF Running THEN {Current} ELSE {})
        /\ \A k \in Recorded(anchor.rows) : LedgerFits(k, anchor.rows[k])
        /\ \A k \in Keys : kept[k].decision # NoDecision => k \in Dispatched)
  /\ [][\A k \in Denied' \ Denied :
          /\ faults.lost + faults.stops > 0
          /\ k \notin Dispatched \/ LookedBefore(k)]_vars

\* Whatever was reported, replaced, lost or repeated, a run that came to an end left
\* a log that its own verifier accepts.
TerminalLogVerifies ==
  Terminal => BundleFits(anchor.rows, Disposition, anchor.done, anchor.failed)

\* The data agree with the permanent digests as long as they live, and the sealed
\* copy is the whole log, also when the data are gone.
EvidenceIsTheLog ==
  /\ data.state = "live" => data.rows = anchor.rows
  /\ evidence.status # "none" =>
       /\ evidence.rows = anchor.rows
       /\ evidence.digest = anchor.digest /\ evidence.digest.rows = anchor.rows
  /\ anchor.digest # NoDigest <=> evidence.status # "none"
  /\ anchor.status = "acknowledged" <=> evidence.status = "acknowledged"

\* A recorded attempt is never rewritten, an ended run never goes on, and sealed
\* evidence never changes.
RowsAreFinal ==
  [][/\ \A k \in Recorded(anchor.rows) : anchor'.rows[k] = anchor.rows[k]
     /\ Terminal => anchor'.rows = anchor.rows /\ ~Running'
     /\ evidence.status # "none" =>
          evidence'.rows = evidence.rows /\ evidence'.digest = evidence.digest]_vars

\* A run that is not lost to the expiry of its data comes to an end.
RunEnds == Running ~> ~Running \/ data.state = "gone"

\* Sealed evidence is acknowledged, unless a call was dispatched or settled after
\* the seal, or the data expired before the runner had the digest.
LateCall ==
  /\ evidence.status # "none"
  /\ \/ evidence.digest.calls # Cardinality(Dispatched)
     \/ evidence.digest.known # Cardinality(Settled)
SealedIsAcknowledged ==
  evidence.status = "sealed" ~>
    evidence.status = "acknowledged" \/ data.state = "gone" \/ LateCall

\* "Replacement is allowed only before a usable decision and target execution":
\* an attempt that was replaced never gets a paid call.
ReplacedBeforeInference ==
  \A o \in Ordinals : anchor.rows[<<o, 1>>] # NoRow => <<o, 0>> \notin Dispatched

\* An ended run whose data are alive is sealed.
TerminalIsSealed == Terminal ~> evidence.status # "none" \/ data.state = "gone"
=============================================================================
