--------------------------- MODULE ScoredRunProofs ---------------------------
(***************************************************************************)
(* Proofs about one phase of the scored protocol, for every number of      *)
(* cases and any number of faults.                                         *)
(***************************************************************************)
EXTENDS ScoredRun, FiniteSetTheorems, TLAPS

Logs == [Keys -> Rows \cup {NoRow}]
Grants == {"absent", "ISSUED", "EXPIRED", "IN_FLIGHT", "KNOWN", "UNCERTAIN"}
Answers == Decisions \cup {NoDecision}
Anchors ==
  [status : {"missing", "active", "complete", "invalid", "acknowledged"}, ordinal : Nat,
   attempt : {0, 1}, done : Nat, failed : Nat, rows : Logs, digest : Digests \cup {NoDigest},
   terminal : {"none", "complete", "invalid"}]
Stored == [state : {"none", "live", "gone"}, rows : Logs]
Evidences == [status : {"none", "sealed", "acknowledged"}, rows : Logs, digest : Digests \cup {NoDigest}]
Continuations == [issue : BOOLEAN, decision : Answers, native : BOOLEAN, completion : BOOLEAN]
Awaits ==
  {"idle", "arrive", "keep", "issue", "recall", "look", "begin", "asked", "settle", "doubt",
   "quarantine", "record", "reconcile", "guard", "bind", "seal", "unlink", "ack"}
Served ==
  [op : Ops \cup {"idle"}, pc : Awaits, key : Keys \cup {NoKey}, clean : BOOLEAN,
   seen : Answers \cup Grants, admitted : BOOLEAN, native : BOOLEAN, row : Rows \cup {NoRow},
   digest : Digests \cup {NoDigest}]
Stations ==
  {"start", "issue", "decide", "native", "dispatch", "complete", "waiting", "failed", "open", "reveal",
   "verified", "acking", "ackAgain", "ackingAgain", "done"}
Clients ==
  [at : Stations, token : Keys \cup {NoKey}, native : BOOLEAN, digest : Digests \cup {NoDigest}]

TypeOK ==
  /\ anchor \in Anchors /\ data \in Stored /\ evidence \in Evidences /\ leased \in BOOLEAN
  /\ grant \in [Keys -> Grants] /\ stale \subseteq Keys
  /\ kept \in [Keys -> Continuations] /\ req \in [Lines -> Served] /\ client \in Clients
  /\ faults \in [lost : Nat, stops : Nat]

-----------------------------------------------------------------------------
(* The log.  A case is untried, won, being replaced, or given up.          *)

Untried(log, p) == log[<<p, 0>>] = NoRow /\ log[<<p, 1>>] = NoRow
Replacing(log, p) ==
  log[<<p, 0>>] # NoRow /\ log[<<p, 0>>].eligible /\ log[<<p, 1>>] = NoRow
Closed(log, p, disposition) ==
  /\ log[<<p, 0>>] # NoRow
  /\ IF log[<<p, 0>>].eligible
     THEN log[<<p, 1>>] # NoRow /\ log[<<p, 1>>].disposition = disposition
     ELSE log[<<p, 1>>] = NoRow /\ log[<<p, 0>>].disposition = disposition

\* The case the run is at follows from its log, and the log from that case.
Shape ==
  /\ \A p \in Ordinals : p < anchor.ordinal => Closed(anchor.rows, p, "scored")
  /\ \A p \in Ordinals : p > anchor.ordinal => Untried(anchor.rows, p)
  /\ Running =>
       /\ anchor.ordinal \in Ordinals
       /\ anchor.attempt = 0 => Untried(anchor.rows, anchor.ordinal)
       /\ anchor.attempt = 1 => Replacing(anchor.rows, anchor.ordinal)
  /\ Terminal =>
       \/ Disposition = "complete" /\ anchor.ordinal = Cases
       \/ /\ Disposition = "invalid" /\ anchor.ordinal \in Ordinals
          /\ Closed(anchor.rows, anchor.ordinal, "invalid")
  /\ anchor.done = anchor.ordinal

Counted ==
  /\ IsFiniteSet(Recorded(anchor.rows))
  /\ anchor.done = Cardinality(Scored(anchor.rows))
  /\ anchor.failed = Cardinality(Recorded(anchor.rows) \ Scored(anchor.rows))

\* A row agrees with itself and with the ledger, and only a first attempt is replaced.
RowFits(k, row) ==
  /\ EvidenceFits(k, row) /\ LedgerFits(k, row)
  /\ row.eligible => k[2] = 0 /\ row.disposition = "invalid"

RowsFit == \A k \in Recorded(anchor.rows) : RowFits(k, anchor.rows[k])

\* Before the run starts there is nothing, and only an ended run has evidence.
Ends ==
  /\ anchor.status = "missing" =>
       /\ anchor.rows = EmptyLog /\ anchor.ordinal = 0 /\ anchor.attempt = 0
       /\ data.state = "none" /\ data.rows = EmptyLog
  /\ evidence.status # "none" => Terminal

-----------------------------------------------------------------------------
(* The ledger, the continuations and the requests.                         *)

\* The attempt is in the log or is the one the run is at.
Accounted(k) == k \in Recorded(anchor.rows) \/ (Running /\ k = Current)

Charged ==
  /\ \A k \in Keys : grant[k] # "absent" => Accounted(k)
  /\ \A k \in Keys : kept[k].decision # NoDecision => k \in Dispatched

\* What a request may rely on at each of its awaits, though others ran in between.
Fits(r) ==
  /\ r.op \in {"issue", "failure"} /\ r.pc # "arrive" => r.key \in Keys /\ Accounted(r.key)
  /\ r.op \in {"decide", "native", "complete"} => r.key \in Keys
  /\ r.op \in {"native", "complete"} => grant[r.key] = "KNOWN"
  /\ r.op = "decide" /\ r.pc \in {"asked", "keep", "settle", "doubt", "quarantine"} =>
       r.key \in Dispatched
  /\ r.op = "decide" /\ r.pc \in {"keep", "settle"} => r.seen \in Decisions
  /\ r.pc = "arrive" => r.seen = NoDecision
  /\ r.op = "failure" /\ r.pc = "look" /\ r.seen # NoDecision => r.key \in Dispatched
  /\ r.op \in {"complete", "failure"} /\ r.pc = "record" => r.row \in Rows /\ RowFits(r.key, r.row)
  /\ r.op = "failure" /\ r.pc = "record" =>
       (r.row.inferred <=> r.seen \in {"IN_FLIGHT", "KNOWN", "UNCERTAIN"})
  /\ r.op = "complete" /\ r.pc = "record" => r.row.inferred
  /\ r.pc \in {"reconcile", "guard", "bind", "seal", "unlink", "ack"} => Terminal
  /\ r.pc \in {"bind", "seal"} => r.digest \in Digests /\ r.digest.rows = anchor.rows

\* The runner acts on the token it holds, and only on a call that is settled.
Holds(c) ==
  /\ c.at \in {"decide", "native", "dispatch", "complete"} => c.token \in Keys
  /\ c.at \in {"native", "dispatch", "complete"} => grant[c.token] = "KNOWN"
ClientFits ==
  /\ Holds(client)
  /\ req["main"].op \in {"decide", "native", "complete"} => client.token = req["main"].key

Requested == (\A w \in Lines : Fits(req[w])) /\ ClientFits

\* The inductive invariant.
IInv ==
  TypeOK /\ Shape /\ Counted /\ RowsFit /\ Ends /\ EvidenceIsTheLog /\ Charged /\ Requested

-----------------------------------------------------------------------------
(* Constants and the first state. *)

LEMMA ConstantTypes ==
  /\ Cases \in Nat \ {0} /\ NoRow \notin Rows /\ NoDigest \notin Digests
  /\ Decisions \subseteq {"call", "nocall", "unusable"} /\ NoDecision \notin Decisions
BY CasesAssumption, DecisionsAssumption, NullAssumption DEF NoDecision

\* Attempts are pairs of a case and a try; the empty log records none.
LEMMA KeyTypes ==
  /\ \A p \in Ordinals, a \in {0, 1} : <<p, a>> \in Keys
  /\ \A k \in Keys : k = <<k[1], k[2]>> /\ k[1] \in Ordinals /\ k[2] \in {0, 1}
  /\ Ordinals \subseteq Nat /\ \A p \in Ordinals : p < Cases
  /\ EmptyLog \in Logs /\ Recorded(EmptyLog) = {}
BY ConstantTypes DEF Keys, Ordinals, EmptyLog, Logs, Recorded

\* There are finitely many attempts, so the log and the ledger can be counted.
LEMMA FiniteKeys == IsFiniteSet(Keys)
<1> DEFINE Tries(a) == {<<p, a>> : p \in Ordinals}
<1>1. IsFiniteSet(Ordinals)
  BY ConstantTypes, FS_Interval DEF Ordinals
<1>2. ASSUME NEW a PROVE IsFiniteSet(Tries(a))
  <2> DEFINE f == [p \in Ordinals |-> <<p, a>>]
  <2>1. f \in Surjection(Ordinals, Tries(a))
    BY DEF Surjection
  <2> HIDE DEF f
  <2> QED BY <1>1, <2>1, FS_Surjection
<1>3. Keys = Tries(0) \cup Tries(1)
  BY DEF Keys
<1>4. IsFiniteSet(Tries(0)) /\ IsFiniteSet(Tries(1))
  BY <1>2
<1> HIDE DEF Tries
<1> QED BY <1>3, <1>4, FS_Union

\* A line without a request relies on nothing.
LEMMA IdleFits == Idle \in Served /\ Fits(Idle)
BY DEF Idle, Served, Awaits, Answers, Fits

\* Before anything was asked the invariant holds.
LEMMA InitInvariant == Init => IInv
<1> SUFFICES ASSUME Init PROVE IInv
  OBVIOUS
<1> USE ConstantTypes, KeyTypes DEF Init
<1>1. anchor \in Anchors /\ data \in Stored /\ evidence \in Evidences
  BY DEF Anchors, Stored, Evidences
<1>2. grant \in [Keys -> Grants] /\ kept \in [Keys -> Continuations]
  BY DEF Grants, Continuations, Answers
<1>3. req \in [Lines -> Served] /\ client \in Clients /\ faults \in [lost : Nat, stops : Nat]
  <2>1. req = [w \in Lines |-> Idle]
    OBVIOUS
  <2>2. req \in [Lines -> Served]
    BY <2>1, IdleFits
  <2>3. client \in Clients
    BY DEF Clients, Stations
  <2>4. faults \in [lost : Nat, stops : Nat]
    OBVIOUS
  <2> QED BY <2>2, <2>3, <2>4
<1>4. TypeOK
  BY <1>1, <1>2, <1>3 DEF TypeOK
<1>5. Shape
  BY DEF Shape, Untried, EmptyLog, Running, Terminal
<1>6. Counted
  BY FS_EmptySet DEF Counted, Scored
<1>7. RowsFit /\ Ends /\ EvidenceIsTheLog
  BY DEF RowsFit, Ends, EvidenceIsTheLog
<1>8. Charged
  BY DEF Charged
<1>9. Requested
  BY DEF Requested, Fits, Idle, ClientFits, Holds, Lines
<1> QED BY <1>4, <1>5, <1>6, <1>7, <1>8, <1>9 DEF IInv

-----------------------------------------------------------------------------
(* How the stores move. *)

\* The run is created.
Creates ==
  /\ anchor.status = "missing" /\ anchor' = [anchor EXCEPT !.status = "active"]
  /\ data' = [data EXCEPT !.state = "live"] /\ UNCHANGED <<evidence, grant, kept>>

\* An attempt is recorded.
Records(k, row) ==
  /\ k \in Keys /\ row \in Rows /\ RowFits(k, row)
  /\ CanRecord(k) /\ RecordAttempt(k, row) /\ UNCHANGED <<evidence, grant, kept>>

\* The log is sealed under its digest.
Seals(d) ==
  /\ d \in Digests /\ d.rows = anchor.rows /\ Terminal
  /\ anchor.digest = NoDigest /\ Sealable /\ evidence.status = "none"
  /\ evidence' = [status |-> "sealed", rows |-> data.rows, digest |-> d]
  /\ anchor' = [anchor EXCEPT !.digest = d]
  /\ UNCHANGED <<data, grant, kept>>

Acknowledges ==
  /\ evidence.status # "none"
  /\ anchor' = IF anchor.status = "acknowledged" THEN anchor
               ELSE [anchor EXCEPT !.status = "acknowledged", !.terminal = anchor.status]
  /\ evidence' = [evidence EXCEPT !.status = "acknowledged"]
  /\ data' = [state |-> "gone", rows |-> EmptyLog]
  /\ UNCHANGED <<grant, kept>>

Expires ==
  /\ data.state = "live" /\ data' = [state |-> "gone", rows |-> EmptyLog]
  /\ UNCHANGED <<anchor, evidence, grant, kept>>

\* The ledger moves one grant.
Charges(k) ==
  /\ k \in Keys /\ UNCHANGED <<anchor, data, evidence, kept>>
  /\ \/ Accounted(k) /\ grant[k] \in {"absent", "ISSUED"} /\ grant' = [grant EXCEPT ![k] = "ISSUED"]
     \/ grant[k] = "ISSUED" /\ \E g \in {"EXPIRED", "IN_FLIGHT"} : grant' = [grant EXCEPT ![k] = g]
     \/ k \in Dispatched /\ grant' = [grant EXCEPT ![k] = "KNOWN"]
     \/ grant[k] = "IN_FLIGHT" /\ grant' = [grant EXCEPT ![k] = "UNCERTAIN"]

\* A continuation is kept, or those of recorded attempts are removed.
Keeps ==
  /\ UNCHANGED <<anchor, data, evidence, grant>> /\ kept' \in [Keys -> Continuations]
  /\ \A k \in Keys : kept'[k].decision \in {kept[k].decision, NoDecision} \/ k \in Dispatched

Moves ==
  \/ UNCHANGED <<anchor, data, evidence, grant, kept>>
  \/ Creates \/ Acknowledges \/ Expires \/ Keeps
  \/ \E k \in Keys : Charges(k) \/ \E row \in Rows : Records(k, row)
  \/ \E d \in Digests : Seals(d)

\* Settling a call as uncertain moves one call in flight, or nothing.
LEMMA Uncertain ==
  ASSUME NEW k \in Keys, TypeOK, SettleUncertain(k), UNCHANGED <<anchor, data, evidence, kept>>
  PROVE  Charges(k) \/ UNCHANGED grant
<1>1. CASE grant[k] = "IN_FLIGHT"
  BY <1>1 DEF SettleUncertain, Charges
<1>2. CASE grant[k] # "IN_FLIGHT"
  BY <1>2 DEF SettleUncertain, TypeOK
<1> QED BY <1>1, <1>2

\* A step that keeps one attempt's continuation.
LEMMA KeepsOne ==
  ASSUME TypeOK, NEW k \in Keys, NEW c \in Continuations, UNCHANGED <<anchor, data, evidence, grant>>,
         c.decision = kept[k].decision \/ k \in Dispatched, kept' = [kept EXCEPT ![k] = c]
  PROVE  Keeps
BY DEF TypeOK, Keeps

\* One field of a continuation is set.
LEMMA FieldKept ==
  ASSUME TypeOK, NEW k \in Keys
  PROVE  LET c == kept[k] IN
         /\ [c EXCEPT !.issue = TRUE] \in Continuations /\ [c EXCEPT !.issue = TRUE].decision = c.decision
         /\ [c EXCEPT !.native = TRUE] \in Continuations /\ [c EXCEPT !.native = TRUE].decision = c.decision
         /\ [c EXCEPT !.completion = TRUE] \in Continuations
         /\ [c EXCEPT !.completion = TRUE].decision = c.decision
BY DEF TypeOK, Continuations

\* The rows the code builds agree with themselves and with the ledger they were built on.
LEMMA FailureRowFits ==
  ASSUME NEW k \in Keys, NEW g \in Grants, NEW decided \in BOOLEAN, NEW admitted \in BOOLEAN,
         NEW native \in BOOLEAN, g = grant[k], decided => k \in Dispatched
  PROVE  \E row \in Rows : /\ row = FailureRow(k, g, decided, admitted, native) /\ RowFits(k, row)
                          /\ (row.inferred <=> g \in {"IN_FLIGHT", "KNOWN", "UNCERTAIN"})
<1> DEFINE row == FailureRow(k, g, decided, admitted, native)
<1>1. row \in Rows /\ RowFits(k, row)
  BY DEF FailureRow, Rows, RowFits, EvidenceFits, LedgerFits, Eligible, Dispatched, Grants
<1>2. row.inferred = (g \in {"IN_FLIGHT", "KNOWN", "UNCERTAIN"})
  BY DEF FailureRow
<1>3. row = FailureRow(k, g, decided, admitted, native)
  OBVIOUS
<1> HIDE DEF row
<1>4. row.inferred <=> g \in {"IN_FLIGHT", "KNOWN", "UNCERTAIN"}
  BY <1>2
<1> QED BY <1>1, <1>3, <1>4

LEMMA UncertainRowFits ==
  ASSUME NEW k \in Keys, k \in Dispatched
  PROVE  UncertainRow \in Rows /\ RowFits(k, UncertainRow) /\ UncertainRow.inferred
BY DEF UncertainRow, Rows, RowFits, EvidenceFits, LedgerFits

LEMMA RowOfFits ==
  ASSUME NEW k \in Keys, grant[k] = "KNOWN", NEW d \in Decisions, NEW v \in {"scored", "invalid"}
  PROVE  RowOf(d, v) \in Rows /\ RowFits(k, RowOf(d, v)) /\ RowOf(d, v).inferred
BY DEF RowOf, Rows, RowFits, EvidenceFits, LedgerFits

\* The steps that write to no store but the requests' and the runner's.
LEMMA Quiets ==
  ASSUME NEW w, \/ Refuse(w) \/ RecallDecision(w) \/ LookBeforeCall(w) \/ ProviderAnswers(w)
                \/ RecallForNative(w) \/ RecallForRow(w) \/ RecallForFailure(w) \/ LookAtGrant(w)
                \/ ReadGuardAgain(w) \/ Bind(w) \/ RequestDies(w) \/ Authenticate(w)
  PROVE  UNCHANGED <<anchor, data, evidence, grant, kept>>
BY DEF Refuse, RecallDecision, LookBeforeCall, ProviderAnswers, RecallForNative, RecallForRow,
       RecallForFailure, LookAtGrant, ReadGuardAgain, Bind, RequestDies, Authenticate, server, ledger

\* Every step of the runner, of the faults and of a request moves the stores in one of these ways.
LEMMA RunMoves == ASSUME Run PROVE Moves
<1>1. CASE StartRun
  BY <1>1 DEF StartRun, Creates, Moves, ledger
<1>2. CASE Recover \/ RequestTrial \/ DispatchNative \/ ReportFailure \/ RequestReveal \/ RequestAck
  BY <1>2 DEF Recover, RequestTrial, DispatchNative, ReportFailure, RequestReveal, RequestAck, RecoverAs,
              server, ledger, Moves
<1> QED BY <1>1, <1>2 DEF Run

LEMMA FaultMoves ==
  ASSUME LoseReply \/ RestartRunner \/ LeaseEnds \/ DataExpires \/ (\E k \in Keys : GrantEnds(k))
         \/ (\E w \in Lines : RequestDies(w))
  PROVE  Moves
BY DEF LoseReply, RestartRunner, LeaseEnds, DataExpires, GrantEnds, RequestDies, server, ledger, store,
       Moves, Expires

LEMMA ServeMoves == ASSUME IInv, NEW w \in Lines, Serve(w) PROVE Moves
<1> USE KeyTypes DEF server, ledger, store
<1>1. TypeOK /\ Fits(req[w]) /\ Shape /\ Ends
  BY DEF IInv, Requested
<1> DEFINE r == req[w]
           k == req[w].key
<1>2. r \in Served /\ (r.op \in {"decide", "native", "complete"} => k \in Keys)
  BY <1>1 DEF TypeOK, Fits
<1>3. CASE \/ Authenticate(w) \/ RecallDecision(w) \/ LookBeforeCall(w) \/ ProviderAnswers(w)
           \/ RecallForNative(w) \/ RecallForRow(w) \/ RecallForFailure(w) \/ LookAtGrant(w)
           \/ ReadGuardAgain(w) \/ Bind(w)
  BY <1>3, Quiets DEF Moves
<1>4. CASE Refuse(w)
  BY <1>4, Quiets DEF Moves
<1>5. CASE KeepIssue(w)
  <2>1. k \in Keys
    BY <1>1, <1>5 DEF KeepIssue, At, Fits
  <2>2. kept' = [kept EXCEPT ![k] = [kept[k] EXCEPT !.issue = TRUE]] /\ UNCHANGED <<anchor, data, evidence, grant>>
    BY <1>5 DEF KeepIssue
  <2>3. Keeps
    BY <1>1, <2>1, <2>2, FieldKept, KeepsOne
  <2> QED BY <2>3 DEF Moves
<1>6. CASE IssueGrant(w)
  <2>1. k \in Keys /\ Accounted(k)
    BY <1>1, <1>6 DEF IssueGrant, At, Fits
  <2>2. Refuse(w) \/ Charges(k)
    BY <1>6, <2>1 DEF IssueGrant, Charges
  <2> QED BY <1>4, <2>1, <2>2 DEF Moves
<1>7. CASE BeginCall(w)
  <2>1. k \in Keys
    BY <1>2, <1>7 DEF BeginCall, At
  <2>2. Refuse(w) \/ Charges(k)
    BY <1>7, <2>1 DEF BeginCall, Charges
  <2> QED BY <1>4, <2>1, <2>2 DEF Moves
<1>8. CASE KeepDecision(w)
  <2>1. k \in Keys /\ k \in Dispatched /\ r.seen \in Decisions
    BY <1>1, <1>8 DEF KeepDecision, At, Fits
  <2>2. Keeps
    BY <1>1, <1>8, <2>1 DEF KeepDecision, Keeps, TypeOK, Continuations, Answers
  <2> QED BY <2>2 DEF Moves
<1>9. CASE SettleDecision(w)
  <2>1. k \in Keys /\ k \in Dispatched
    BY <1>1, <1>9 DEF SettleDecision, At, Fits
  <2>2. Charges(k)
    BY <1>9, <2>1 DEF SettleDecision, Charges
  <2> QED BY <2>1, <2>2 DEF Moves
<1>10. CASE RecordDoubt(w)
  <2>1. k \in Keys /\ k \in Dispatched
    BY <1>1, <1>10 DEF RecordDoubt, At, Fits
  <2>2. Refuse(w) \/ Records(k, UncertainRow)
    BY <1>10, <2>1, UncertainRowFits DEF RecordDoubt, Records
  <2> QED BY <1>4, <2>1, <2>2, UncertainRowFits DEF Moves
<1>11. CASE QuarantineDoubt(w) \/ QuarantineFailure(w)
  <2>1. k \in Keys
    BY <1>1, <1>11 DEF QuarantineDoubt, QuarantineFailure, At, Fits
  <2>2. SettleUncertain(k) /\ UNCHANGED <<anchor, data, evidence, kept>>
    BY <1>11 DEF QuarantineDoubt, QuarantineFailure
  <2> QED BY <1>1, <2>1, <2>2, Uncertain DEF Moves
<1>12. CASE KeepNative(w)
  <2>1. k \in Keys
    BY <1>1, <1>12 DEF KeepNative, At, Fits
  <2>2. kept' = [kept EXCEPT ![k] = [kept[k] EXCEPT !.native = TRUE]] /\ UNCHANGED <<anchor, data, evidence, grant>>
    BY <1>12 DEF KeepNative
  <2>3. Keeps
    BY <1>1, <2>1, <2>2, FieldKept, KeepsOne
  <2> QED BY <2>3 DEF Moves
<1>13. CASE RecordRow(w) \/ RecordFailure(w)
  <2>1. k \in Keys /\ r.row \in Rows /\ RowFits(k, r.row)
    BY <1>1, <1>13 DEF RecordRow, RecordFailure, At, Fits
  <2>2. Refuse(w) \/ Records(k, r.row)
    BY <1>13, <2>1 DEF RecordRow, RecordFailure, Records
  <2> QED BY <1>4, <2>1, <2>2 DEF Moves
<1>14. CASE KeepCompletion(w)
  <2>1. k \in Keys
    BY <1>1, <1>14 DEF KeepCompletion, At, Fits
  <2>2. kept' = [kept EXCEPT ![k] = [kept[k] EXCEPT !.completion = TRUE]] /\ UNCHANGED <<anchor, data, evidence, grant>>
    BY <1>14 DEF KeepCompletion
  <2>3. Keeps
    BY <1>1, <2>1, <2>2, FieldKept, KeepsOne
  <2> QED BY <2>3 DEF Moves
<1>15. CASE Reconcile(w)
  <2>1. CASE ToReconcile = {}
    BY <1>15, <2>1 DEF Reconcile, Moves
  <2>2. CASE ToReconcile # {}
    <3>1. PICK j \in ToReconcile : SettleUncertain(j)
      BY <1>15, <2>2 DEF Reconcile
    <3>2. j \in Keys /\ UNCHANGED <<anchor, data, evidence, kept>>
      BY <1>15 DEF Reconcile, ToReconcile, Recorded
    <3> QED BY <1>1, <3>1, <3>2, Uncertain DEF Moves
  <2> QED BY <2>1, <2>2
<1>16. CASE Seal(w)
  <2>1. r.digest \in Digests /\ r.digest.rows = anchor.rows /\ Terminal
    BY <1>1, <1>16 DEF Seal, Fits
  <2>2. Refuse(w) \/ UNCHANGED server \/ Seals(r.digest)
    BY <1>16, <2>1 DEF Seal, Seals
  <2> QED BY <1>4, <2>1, <2>2 DEF Moves
<1>17. CASE Unlink(w)
  <2>1. Keeps
    BY <1>1, <1>17 DEF Unlink, Keeps, TypeOK, Continuations, Answers
  <2> QED BY <2>1 DEF Moves
<1>18. CASE Acknowledge(w)
  <2>1. Refuse(w) \/ Acknowledges
    BY <1>18 DEF Acknowledge, Acknowledges
  <2> QED BY <1>4, <2>1 DEF Moves
<1> QED
  BY <1>3, <1>5, <1>6, <1>7, <1>8, <1>9, <1>10, <1>11, <1>12, <1>13, <1>14, <1>15, <1>16, <1>17, <1>18 DEF Serve

LEMMA AllMoves == IInv /\ [Next]_vars => Moves
<1>1. CASE UNCHANGED vars
  BY <1>1 DEF vars, Moves
<1> QED BY <1>1, RunMoves, FaultMoves, ServeMoves DEF Next

-----------------------------------------------------------------------------
(* What no step takes back. *)

\* A dispatched call stays dispatched, and a known one known.
LEMMA LedgerStays ==
  ASSUME IInv, Moves
  PROVE  /\ \A k \in Keys : k \in Dispatched => k \in Dispatched'
         /\ \A k \in Keys : grant[k] = "KNOWN" => grant'[k] = "KNOWN"
<1>1. grant \in [Keys -> Grants]
  BY DEF IInv, TypeOK
<1>2. CASE UNCHANGED grant
  BY <1>2 DEF Dispatched
<1>3. CASE \E k \in Keys : Charges(k)
  <2>1. PICK k \in Keys : Charges(k)
    BY <1>3
  <2>2. \E g \in Grants : grant' = [grant EXCEPT ![k] = g]
           /\ (k \in Dispatched => g \in {"KNOWN", "UNCERTAIN"}) /\ (grant[k] = "KNOWN" => g = "KNOWN")
    BY <1>1, <2>1 DEF Charges, Dispatched, Grants
  <2> QED BY <1>1, <2>2 DEF Dispatched
<1> QED BY <1>2, <1>3 DEF Moves, Creates, Acknowledges, Expires, Keeps, Records, Seals

\* What recording an attempt does: the case is won, tried again, or given up.
Logged(k, row) ==
  /\ k \in Keys /\ row \in Rows /\ RowFits(k, row) /\ Running /\ k = Current
  /\ anchor.ordinal \in Ordinals /\ anchor.rows[k] = NoRow
  /\ anchor'.rows = [anchor.rows EXCEPT ![k] = row]
  /\ anchor'.digest = anchor.digest /\ anchor'.terminal = anchor.terminal
Won(row) ==
  /\ row.disposition = "scored" /\ ~row.eligible
  /\ anchor'.done = anchor.done + 1 /\ anchor'.ordinal = anchor.ordinal + 1
  /\ anchor'.attempt = 0 /\ anchor'.failed = anchor.failed
  /\ anchor'.status = IF anchor.ordinal + 1 = Cases THEN "complete" ELSE "active"
TriedAgain(row) ==
  /\ row.disposition = "invalid" /\ row.eligible /\ anchor.attempt = 0
  /\ anchor'.done = anchor.done /\ anchor'.ordinal = anchor.ordinal
  /\ anchor'.attempt = 1 /\ anchor'.failed = anchor.failed + 1 /\ anchor'.status = "active"
GivenUp(row) ==
  /\ row.disposition = "invalid" /\ ~row.eligible
  /\ anchor'.done = anchor.done /\ anchor'.ordinal = anchor.ordinal
  /\ anchor'.attempt = anchor.attempt /\ anchor'.failed = anchor.failed + 1 /\ anchor'.status = "invalid"

\* An accepted record is of the attempt the run is at, which was not in the log.
LEMMA RecordsLog ==
  ASSUME IInv, NEW k \in Keys, NEW row \in Rows, Records(k, row)
  PROVE  Logged(k, row) /\ (Won(row) \/ TriedAgain(row) \/ GivenUp(row))
<1> USE KeyTypes
<1>1. anchor \in Anchors /\ Shape
  BY DEF IInv, TypeOK
<1>2. Running /\ k = Current /\ RowFits(k, row) /\ anchor' = Advanced(k, row)
  BY DEF Records, CanRecord, RecordAttempt
<1>3. anchor.ordinal \in Ordinals /\ anchor.attempt \in {0, 1} /\ k[1] = anchor.ordinal /\ k[2] = anchor.attempt
  BY <1>1, <1>2 DEF Shape, Current, Anchors
<1>4. anchor.rows[k] = NoRow
  BY <1>1, <1>2, <1>3 DEF Shape, Untried, Replacing, Current
<1>5. row.disposition \in {"scored", "invalid"} /\ row.eligible \in BOOLEAN
      /\ (row.eligible => row.disposition = "invalid" /\ anchor.attempt = 0)
  BY <1>2, <1>3 DEF Rows, RowFits
<1>6. Logged(k, row)
  BY <1>1, <1>2, <1>3, <1>4 DEF Logged, Advanced, Anchors
<1>7. ASSUME row.disposition = "scored" PROVE Won(row)
  <2>1. anchor' = [anchor EXCEPT !.rows[k] = row, !.done = @ + 1, !.ordinal = @ + 1, !.attempt = 0,
                     !.status = IF anchor.ordinal + 1 = Cases THEN "complete" ELSE "active"]
    BY <1>2, <1>3, <1>7 DEF Advanced
  <2> QED BY <1>1, <1>5, <1>7, <2>1 DEF Won, Anchors
<1>8. ASSUME row.disposition # "scored", row.eligible PROVE TriedAgain(row)
  <2>1. anchor' = [anchor EXCEPT !.rows[k] = row, !.failed = @ + 1, !.attempt = 1]
    BY <1>2, <1>3, <1>5, <1>8 DEF Advanced
  <2> QED BY <1>1, <1>2, <1>5, <1>8, <2>1 DEF TriedAgain, Anchors, Running
<1>9. ASSUME row.disposition # "scored", ~row.eligible PROVE GivenUp(row)
  <2>1. anchor' = [anchor EXCEPT !.rows[k] = row, !.failed = @ + 1, !.status = "invalid"]
    BY <1>2, <1>9 DEF Advanced
  <2> QED BY <1>1, <1>5, <1>9, <2>1 DEF GivenUp, Anchors
<1> QED BY <1>6, <1>7, <1>8, <1>9

\* An attempt of the log stays in it as it is.
LEMMA LogStays ==
  ASSUME IInv, Moves
  PROVE  /\ \A k \in Keys : k \in Recorded(anchor.rows) =>
              k \in Recorded(anchor'.rows) /\ anchor'.rows[k] = anchor.rows[k]
         /\ \A k \in Keys : Accounted(k) => Accounted(k)'
         /\ Terminal => Terminal' /\ anchor'.rows = anchor.rows
<1>1. anchor \in Anchors /\ Ends
  BY DEF IInv, TypeOK
<1>2. CASE UNCHANGED anchor
  BY <1>2 DEF Accounted, Recorded, Current, Running, Terminal
<1>3. CASE Creates
  BY <1>1, <1>3, KeyTypes DEF Creates, Anchors, Ends, Accounted, Running, Terminal
<1>4. CASE \E k \in Keys, row \in Rows : Records(k, row)
  <2>1. PICK k \in Keys, row \in Rows : Records(k, row)
    BY <1>4
  <2>2. Logged(k, row)
    BY <2>1, RecordsLog
  <2>3. k \notin Recorded(anchor.rows) /\ Recorded(anchor'.rows) = Recorded(anchor.rows) \cup {k}
    BY <1>1, <2>2, ConstantTypes DEF Logged, Recorded, Anchors, Logs
  <2>4. \A j \in Keys : j # k => anchor'.rows[j] = anchor.rows[j]
    BY <1>1, <2>2 DEF Logged, Anchors, Logs
  <2>5. \A j \in Keys : Accounted(j) => Accounted(j)'
    BY <2>2, <2>3 DEF Accounted, Logged
  <2>6. ~Terminal
    BY <2>2 DEF Logged, Terminal, Running
  <2> QED BY <2>3, <2>4, <2>5, <2>6
<1>5. CASE \E d \in Digests : Seals(d)
  BY <1>1, <1>5 DEF Seals, Anchors, Accounted, Running, Terminal, Current
<1>6. CASE Acknowledges
  <2>1. Terminal /\ ~Running
    BY <1>1, <1>6 DEF Acknowledges, Ends, Terminal, Running
  <2>2. anchor'.rows = anchor.rows /\ anchor'.status = "acknowledged"
    BY <1>1, <1>6 DEF Acknowledges, Anchors
  <2> QED BY <2>1, <2>2 DEF Accounted, Terminal, Running
<1> QED BY <1>2, <1>3, <1>4, <1>5, <1>6 DEF Moves, Expires, Keeps, Charges

\* So a row that fits its call goes on fitting it, and so does what a request relies on.
LEMMA RowStays ==
  ASSUME IInv, Moves, NEW k \in Keys, NEW row \in Rows, RowFits(k, row)
  PROVE  RowFits(k, row)'
<1>1. (k \in Dispatched => k \in Dispatched') /\ (grant[k] = "KNOWN" => grant'[k] = "KNOWN")
  BY LedgerStays
<1> QED BY <1>1 DEF RowFits, EvidenceFits, LedgerFits

\* A request can be delayed at any await: what it relies on outlives every step of others.
LEMMA FitsStays ==
  ASSUME IInv, Moves, NEW r \in Served, Fits(r)
  PROVE  Fits(r)'
<1>1. /\ \A k \in Keys : k \in Dispatched => k \in Dispatched'
      /\ \A k \in Keys : grant[k] = "KNOWN" => grant'[k] = "KNOWN"
      /\ \A k \in Keys : Accounted(k) => Accounted(k)'
      /\ Terminal => Terminal' /\ anchor'.rows = anchor.rows
  BY LedgerStays, LogStays
<1>2. ASSUME r.op \in {"complete", "failure"}, r.pc = "record" PROVE r.row \in Rows /\ RowFits(r.key, r.row)'
  <2>1. r.key \in Keys /\ r.row \in Rows /\ RowFits(r.key, r.row)
    BY <1>2 DEF Fits
  <2> QED BY <2>1, RowStays
<1> QED BY <1>1, <1>2 DEF Fits

-----------------------------------------------------------------------------
(* The parts of the invariant that speak of the stores. *)

LEMMA AnchorTypes ==
  ASSUME NEW x \in Anchors
  PROVE  /\ \A s \in {"complete", "active"} :
              [x EXCEPT !.done = @ + 1, !.ordinal = @ + 1, !.attempt = 0, !.status = s] \in Anchors
         /\ [x EXCEPT !.failed = @ + 1, !.attempt = 1] \in Anchors
         /\ [x EXCEPT !.failed = @ + 1, !.status = "invalid"] \in Anchors
<1>1. x.done \in Nat /\ x.done + 1 \in Nat /\ x.ordinal \in Nat /\ x.ordinal + 1 \in Nat
      /\ x.failed \in Nat /\ x.failed + 1 \in Nat
  BY DEF Anchors
<1> QED BY <1>1 DEF Anchors

LEMMA StoreTypes ==
  ASSUME IInv, Moves
  PROVE  /\ anchor' \in Anchors /\ data' \in Stored /\ evidence' \in Evidences
         /\ grant' \in [Keys -> Grants] /\ kept' \in [Keys -> Continuations]
<1> USE KeyTypes
<1>1. TypeOK /\ Ends
  BY DEF IInv
<1> USE DEF TypeOK
<1>2. CASE UNCHANGED <<anchor, data, evidence, grant, kept>> \/ Keeps
  BY <1>1, <1>2 DEF Keeps
<1>3. CASE Creates \/ Expires
  BY <1>1, <1>3 DEF Creates, Expires, Anchors, Stored
<1>4. CASE Acknowledges
  <2>1. Terminal
    BY <1>1, <1>4 DEF Acknowledges, Ends
  <2>2. anchor' \in Anchors
    BY <1>1, <1>4, <2>1 DEF Acknowledges, Anchors, Terminal
  <2>3. data' \in Stored /\ evidence' \in Evidences
    BY <1>1, <1>4 DEF Acknowledges, Stored, Evidences
  <2> QED BY <1>1, <1>4, <2>2, <2>3 DEF Acknowledges
<1>5. CASE \E k \in Keys : Charges(k)
  BY <1>1, <1>5 DEF Charges, Grants
<1>6. CASE \E k \in Keys, row \in Rows : Records(k, row)
  <2>1. PICK k \in Keys, row \in Rows : Records(k, row)
    BY <1>6
  <2>2. anchor' = Advanced(k, row) /\ data' = [data EXCEPT !.rows[k] = row] /\ UNCHANGED <<evidence, grant, kept>>
    BY <2>1 DEF Records, RecordAttempt
  <2>3. anchor' \in Anchors
    <3> DEFINE logged == [anchor EXCEPT !.rows[k] = row]
    <3>1. logged \in Anchors
      BY <1>1 DEF Anchors, Logs
    <3>2. \/ anchor' = [logged EXCEPT !.done = @ + 1, !.ordinal = @ + 1, !.attempt = 0,
                          !.status = IF k[1] + 1 = Cases THEN "complete" ELSE "active"]
          \/ anchor' = [logged EXCEPT !.failed = @ + 1, !.attempt = 1]
          \/ anchor' = [logged EXCEPT !.failed = @ + 1, !.status = "invalid"]
      BY <2>2 DEF Advanced
    <3> HIDE DEF logged
    <3> QED BY <3>1, <3>2, AnchorTypes
  <2>4. data' \in Stored
    BY <1>1, <2>2 DEF Stored, Logs
  <2> QED BY <1>1, <2>2, <2>3, <2>4
<1>7. CASE \E d \in Digests : Seals(d)
  BY <1>1, <1>7 DEF Seals, Anchors, Stored, Evidences
<1> QED BY <1>2, <1>3, <1>4, <1>5, <1>6, <1>7 DEF Moves

\* After an attempt is recorded the log still has the shape the run's place in it gives.
LEMMA ShapeLogged ==
  ASSUME IInv, NEW k \in Keys, NEW row \in Rows, Logged(k, row), Won(row) \/ TriedAgain(row) \/ GivenUp(row)
  PROVE  Shape'
<1> DEFINE log == anchor.rows
           o == anchor.ordinal
           a == anchor.attempt
<1>1. anchor \in Anchors /\ Shape
  BY DEF IInv, TypeOK
<1>2. o \in Ordinals /\ o \in Nat /\ o < Cases /\ a \in {0, 1} /\ k = <<o, a>> /\ Running /\ row # NoRow
  BY <1>1, KeyTypes, ConstantTypes DEF Logged, Current, Anchors
<1>3. /\ \A p \in Ordinals : p < o => Closed(log, p, "scored")
      /\ \A p \in Ordinals : p > o => Untried(log, p)
      /\ a = 0 => Untried(log, o)
      /\ a = 1 => Replacing(log, o)
      /\ anchor.done = o
  BY <1>1, <1>2 DEF Shape
<1>4. /\ \A p \in Ordinals, b \in {0, 1} : p # o => anchor'.rows[<<p, b>>] = log[<<p, b>>]
      /\ anchor'.rows[k] = row /\ \A b \in {0, 1} : b # a => anchor'.rows[<<o, b>>] = log[<<o, b>>]
  BY <1>1, <1>2, KeyTypes DEF Logged, Anchors, Logs
<1>5. /\ \A p \in Ordinals : p < o => Closed(anchor'.rows, p, "scored")
      /\ \A p \in Ordinals : p > o => Untried(anchor'.rows, p)
  <2>1. \A p \in Ordinals : (p < o \/ p > o) =>
          anchor'.rows[<<p, 0>>] = log[<<p, 0>>] /\ anchor'.rows[<<p, 1>>] = log[<<p, 1>>]
    BY <1>2, <1>4, KeyTypes
  <2> QED BY <1>3, <2>1 DEF Closed, Untried
<1> HIDE DEF log, o, a
<1>6. CASE Won(row)
  <2>1. Closed(anchor'.rows, o, "scored")
    BY <1>2, <1>3, <1>4, <1>6 DEF Closed, Won, Untried, Replacing, log
  <2>2. anchor'.ordinal = o + 1 /\ anchor'.attempt = 0 /\ anchor'.done = o + 1
        /\ anchor'.status = IF o + 1 = Cases THEN "complete" ELSE "active"
    BY <1>3, <1>6 DEF Won, o
  <2>3. \A p \in Ordinals : p < o + 1 => Closed(anchor'.rows, p, "scored")
    BY <1>2, <1>5, <2>1, KeyTypes
  <2>4. \A p \in Ordinals : p > o + 1 => Untried(anchor'.rows, p)
    BY <1>2, <1>5, KeyTypes
  <2>5. o + 1 # Cases => o + 1 \in Ordinals /\ Untried(anchor'.rows, o + 1)
    BY <1>2, <1>5, ConstantTypes DEF Ordinals
  <2> QED BY <2>2, <2>3, <2>4, <2>5 DEF Shape, Running, Terminal, Disposition
<1>7. CASE TriedAgain(row)
  <2>1. Replacing(anchor'.rows, o)
    BY <1>2, <1>3, <1>4, <1>7 DEF Replacing, Untried, TriedAgain, a
  <2>2. anchor'.ordinal = o /\ anchor'.attempt = 1 /\ anchor'.done = o /\ anchor'.status = "active"
    BY <1>3, <1>7 DEF TriedAgain, o
  <2> QED BY <1>2, <1>5, <2>1, <2>2 DEF Shape, Running, Terminal
<1>8. CASE GivenUp(row)
  <2>1. Closed(anchor'.rows, o, "invalid")
    BY <1>2, <1>3, <1>4, <1>8 DEF Closed, GivenUp, Untried, Replacing, log
  <2>2. anchor'.ordinal = o /\ anchor'.done = o /\ anchor'.status = "invalid"
    BY <1>3, <1>8 DEF GivenUp, o
  <2> QED BY <1>2, <1>5, <2>1, <2>2 DEF Shape, Running, Terminal, Disposition
<1> QED BY <1>6, <1>7, <1>8

\* And the counters count it.
LEMMA CountedLogged ==
  ASSUME IInv, NEW k \in Keys, NEW row \in Rows, Logged(k, row), Won(row) \/ TriedAgain(row) \/ GivenUp(row)
  PROVE  Counted'
<1> DEFINE R == Recorded(anchor.rows)
           S == Scored(anchor.rows)
           R2 == Recorded(anchor'.rows)
           S2 == Scored(anchor'.rows)
<1>1. anchor \in Anchors /\ anchor.rows \in Logs /\ Counted
  BY DEF IInv, TypeOK, Anchors
<1>2. anchor.rows[k] = NoRow /\ anchor'.rows = [anchor.rows EXCEPT ![k] = row] /\ row # NoRow
  BY ConstantTypes DEF Logged
<1>3. k \notin R /\ R2 = R \cup {k} /\ S \subseteq R
  BY <1>1, <1>2 DEF Recorded, Scored, Logs
<1>4. S2 = IF row.disposition = "scored" THEN S \cup {k} ELSE S
  BY <1>1, <1>2, <1>3 DEF Recorded, Scored, Logs
<1>5. IsFiniteSet(R) /\ IsFiniteSet(S) /\ IsFiniteSet(R \ S)
      /\ anchor.done = Cardinality(S) /\ anchor.failed = Cardinality(R \ S)
  BY <1>1, <1>3, FS_Subset DEF Counted
<1> HIDE DEF R, S, R2, S2
<1>6. IsFiniteSet(R2)
  BY <1>3, <1>5, FS_AddElement
<1>7. CASE Won(row)
  <2>1. S2 = S \cup {k} /\ R2 \ S2 = R \ S /\ k \notin S
    BY <1>3, <1>4, <1>7 DEF Won
  <2>2. Cardinality(S2) = Cardinality(S) + 1
    BY <1>5, <2>1, FS_AddElement
  <2> QED BY <1>5, <1>6, <1>7, <2>1, <2>2 DEF Won, Counted, R2, S2
<1>8. CASE TriedAgain(row) \/ GivenUp(row)
  <2>1. S2 = S /\ R2 \ S2 = (R \ S) \cup {k} /\ k \notin R \ S
    BY <1>3, <1>4, <1>8 DEF TriedAgain, GivenUp
  <2>2. Cardinality(R2 \ S2) = Cardinality(R \ S) + 1
    BY <1>5, <2>1, FS_AddElement
  <2> QED BY <1>5, <1>6, <1>8, <2>1, <2>2 DEF TriedAgain, GivenUp, Counted, R2, S2
<1> QED BY <1>7, <1>8

\* Each part of the invariant survives every move of the stores.
LEMMA ShapeStep == ASSUME IInv, Moves PROVE Shape'
<1>1. anchor \in Anchors /\ Shape /\ Ends
  BY DEF IInv, TypeOK
<1>2. CASE UNCHANGED anchor
  BY <1>1, <1>2 DEF Shape, Running, Terminal, Disposition
<1>3. CASE Creates
  <2>1. anchor.rows = EmptyLog /\ anchor.ordinal = 0 /\ anchor.attempt = 0 /\ anchor.done = 0
    BY <1>1, <1>3 DEF Creates, Ends, Shape
  <2>2. anchor'.rows = EmptyLog /\ anchor'.ordinal = 0 /\ anchor'.attempt = 0 /\ anchor'.done = 0
        /\ anchor'.status = "active"
    BY <1>1, <1>3, <2>1 DEF Creates, Anchors
  <2>3. 0 \in Ordinals /\ \A p \in Ordinals : Untried(EmptyLog, p) /\ ~(p < 0)
    BY ConstantTypes, KeyTypes DEF Ordinals, Untried, EmptyLog
  <2> QED BY <2>2, <2>3 DEF Shape, Running, Terminal
<1>4. CASE \E k \in Keys, row \in Rows : Records(k, row)
  BY <1>4, RecordsLog, ShapeLogged
<1>5. CASE \E d \in Digests : Seals(d)
  <2>1. UNCHANGED <<anchor.rows, anchor.ordinal, anchor.attempt, anchor.done, anchor.status, anchor.terminal>>
    BY <1>1, <1>5 DEF Seals, Anchors
  <2> QED BY <1>1, <2>1 DEF Shape, Running, Terminal, Disposition
<1>6. CASE Acknowledges
  <2>1. Terminal
    BY <1>1, <1>6 DEF Acknowledges, Ends
  <2>2. /\ UNCHANGED <<anchor.rows, anchor.ordinal, anchor.attempt, anchor.done>>
        /\ anchor'.status = "acknowledged" /\ anchor'.terminal = Disposition
    BY <1>1, <1>6 DEF Acknowledges, Anchors, Disposition
  <2> QED BY <1>1, <2>1, <2>2 DEF Shape, Running, Terminal, Disposition
<1> QED BY <1>2, <1>3, <1>4, <1>5, <1>6 DEF Moves, Expires, Keeps, Charges

LEMMA CountedStep == ASSUME IInv, Moves PROVE Counted'
<1>1. anchor \in Anchors /\ Counted
  BY DEF IInv, TypeOK
<1>2. CASE \E k \in Keys, row \in Rows : Records(k, row)
  BY <1>2, RecordsLog, CountedLogged
<1>3. CASE UNCHANGED anchor \/ Creates \/ Acknowledges \/ \E d \in Digests : Seals(d)
  <2>1. UNCHANGED <<anchor.rows, anchor.done, anchor.failed>>
    BY <1>1, <1>3 DEF Creates, Acknowledges, Seals, Anchors
  <2> QED BY <1>1, <2>1 DEF Counted, Recorded, Scored
<1> QED BY <1>2, <1>3 DEF Moves, Expires, Keeps, Charges

LEMMA RowsFitStep == ASSUME IInv, Moves PROVE RowsFit'
<1>1. anchor \in Anchors /\ RowsFit
  BY DEF IInv, TypeOK
<1>2. \A j \in Keys : \A row \in Rows : RowFits(j, row) => RowFits(j, row)'
  BY RowStays
<1>3. \A j \in Recorded(anchor.rows) : anchor.rows[j] \in Rows /\ RowFits(j, anchor.rows[j])
  BY <1>1 DEF RowsFit, Recorded, Anchors, Logs
<1>4. CASE \E k \in Keys, row \in Rows : Records(k, row)
  <2>1. PICK k \in Keys, row \in Rows : Records(k, row)
    BY <1>4
  <2>2. RowFits(k, row) /\ anchor'.rows = [anchor.rows EXCEPT ![k] = row]
    BY <2>1, RecordsLog DEF Logged
  <2>3. RowFits(k, row)'
    BY <1>2, <2>2
  <2>4. ASSUME NEW j \in Recorded(anchor'.rows) PROVE RowFits(j, anchor.rows[j])'
    <3>1. PICK x \in Rows : x = anchor'.rows[j] /\ (j = k => x = row) /\ RowFits(j, x)
      BY <1>1, <1>3, <2>2 DEF Recorded, Anchors, Logs
    <3>2. j \in Keys /\ RowFits(j, x)'
      BY <1>2, <3>1 DEF Recorded
    <3> QED BY <3>1, <3>2
  <2> QED BY <2>4 DEF RowsFit, Recorded
<1>5. CASE UNCHANGED anchor \/ Creates \/ Acknowledges \/ \E d \in Digests : Seals(d)
  <2>1. anchor'.rows = anchor.rows
    BY <1>1, <1>5 DEF Creates, Acknowledges, Seals, Anchors
  <2>2. ASSUME NEW j \in Recorded(anchor.rows) PROVE RowFits(j, anchor.rows[j])'
    <3>1. PICK x \in Rows : x = anchor'.rows[j] /\ RowFits(j, x)
      BY <1>3, <2>1
    <3>2. j \in Keys /\ RowFits(j, x)'
      BY <1>2, <3>1 DEF Recorded
    <3> QED BY <3>1, <3>2
  <2> QED BY <2>1, <2>2 DEF RowsFit, Recorded
<1> QED BY <1>4, <1>5 DEF Moves, Expires, Keeps, Charges

LEMMA EndsStep == ASSUME IInv, Moves PROVE Ends' /\ EvidenceIsTheLog'
<1>1. anchor \in Anchors /\ data \in Stored /\ evidence \in Evidences /\ Ends /\ EvidenceIsTheLog
  BY DEF IInv, TypeOK
<1>2. CASE UNCHANGED <<anchor, data, evidence>>
  BY <1>1, <1>2 DEF Ends, EvidenceIsTheLog, Terminal
<1>3. CASE Creates
  <2>1. anchor'.status = "active" /\ UNCHANGED <<anchor.rows, anchor.digest, evidence, data.rows>>
    BY <1>1, <1>3 DEF Creates, Anchors, Stored
  <2> QED BY <1>1, <1>3, <2>1 DEF Creates, Ends, EvidenceIsTheLog, Terminal
<1>4. CASE \E k \in Keys, row \in Rows : Records(k, row)
  <2>1. PICK k \in Keys, row \in Rows : Records(k, row)
    BY <1>4
  <2>2. Running /\ anchor'.rows = [anchor.rows EXCEPT ![k] = row] /\ anchor'.digest = anchor.digest
        /\ anchor'.status \in {"active", "complete", "invalid"}
    BY <2>1, RecordsLog DEF Logged, Won, TriedAgain, GivenUp
  <2>3. data.state = "live" /\ data'.state = "live" /\ data'.rows = [data.rows EXCEPT ![k] = row]
        /\ evidence' = evidence
    BY <1>1, <2>1 DEF Records, CanRecord, RecordAttempt, Stored
  <2>4. evidence.status = "none"
    BY <1>1, <2>2 DEF Ends, Terminal, Running
  <2> QED BY <1>1, <2>2, <2>3, <2>4 DEF Ends, EvidenceIsTheLog
<1>5. CASE \E d \in Digests : Seals(d)
  <2>1. PICK d \in Digests : Seals(d)
    BY <1>5
  <2>2. UNCHANGED <<anchor.rows, anchor.status, anchor.ordinal, anchor.attempt, data>> /\ anchor'.digest = d
        /\ evidence' = [status |-> "sealed", rows |-> data.rows, digest |-> d]
    BY <1>1, <2>1 DEF Seals, Anchors
  <2>3. data.state = "live" /\ Terminal /\ d.rows = anchor.rows /\ evidence.status = "none"
    BY <2>1 DEF Seals, Sealable
  <2> QED BY <1>1, <2>2, <2>3, ConstantTypes DEF Ends, EvidenceIsTheLog, Terminal
<1>6. CASE Acknowledges
  <2>1. anchor'.status = "acknowledged" /\ UNCHANGED <<anchor.rows, anchor.digest>>
    BY <1>1, <1>6 DEF Acknowledges, Anchors
  <2>2. evidence'.status = "acknowledged" /\ UNCHANGED <<evidence.rows, evidence.digest>>
    BY <1>1, <1>6 DEF Acknowledges, Evidences
  <2>3. data'.state = "gone" /\ evidence.status # "none"
    BY <1>6 DEF Acknowledges
  <2> QED BY <1>1, <2>1, <2>2, <2>3 DEF Ends, EvidenceIsTheLog, Terminal
<1>7. CASE Expires
  <2>1. data'.state = "gone" /\ UNCHANGED <<anchor, evidence>> /\ data.state = "live"
    BY <1>7 DEF Expires
  <2> QED BY <1>1, <2>1 DEF Ends, EvidenceIsTheLog, Terminal
<1> QED BY <1>2, <1>3, <1>4, <1>5, <1>6, <1>7 DEF Moves, Keeps, Charges

LEMMA ChargedStep == ASSUME IInv, Moves PROVE Charged'
<1>1. grant \in [Keys -> Grants] /\ Charged
  BY DEF IInv, TypeOK
<1>2. (\A k \in Keys : k \in Dispatched => k \in Dispatched') /\ (\A k \in Keys : Accounted(k) => Accounted(k)')
  BY LedgerStays, LogStays
<1>3. \A k \in Keys : k \in Dispatched => grant[k] # "absent"
  BY DEF Dispatched
<1>4. \A k \in Keys : grant'[k] # "absent" => Accounted(k)
  <2>1. CASE UNCHANGED grant
    BY <1>1, <2>1 DEF Charged
  <2>2. CASE \E k \in Keys : Charges(k)
    <3>1. PICK k \in Keys : Charges(k)
      BY <2>2
    <3>2. Accounted(k) /\ \E g \in Grants : grant' = [grant EXCEPT ![k] = g]
      BY <1>1, <1>3, <3>1 DEF Charges, Charged, Grants
    <3> QED BY <1>1, <3>2 DEF Charged
  <2> QED BY <2>1, <2>2 DEF Moves, Creates, Acknowledges, Expires, Keeps, Records, Seals
<1>5. \A k \in Keys : kept'[k].decision # NoDecision => k \in Dispatched
  <2>1. CASE UNCHANGED kept
    BY <1>1, <2>1 DEF Charged
  <2>2. CASE Keeps
    BY <1>1, <2>2 DEF Keeps, Charged
  <2> QED BY <2>1, <2>2 DEF Moves, Creates, Acknowledges, Expires, Charges, Records, Seals
<1> QED BY <1>2, <1>4, <1>5 DEF Charged

-----------------------------------------------------------------------------
(* How the requests and the runner move. *)

\* A request goes to its next await.
Continues(w, r) ==
  /\ req' = [req EXCEPT ![w] = r] /\ client' = client
  /\ r.op = req[w].op /\ (r.op \in {"decide", "native", "complete"} => r.key = req[w].key)

\* A request is sent.
Sends(r, c) ==
  /\ req' = [req EXCEPT !["main"] = r] /\ client' = c
  /\ r.op \in {"decide", "native", "complete"} => c.token = r.key

\* The runner gives its request up.
Forsakes(c) ==
  req' = [req EXCEPT !["main"] = Idle, !["orphan"] = req["main"]] /\ client' = c

\* The runner goes on by itself.
Proceeds(c) == req' = req /\ client' = c /\ c.token = client.token

TalkOK == req' \in [Lines -> Served] /\ client' \in Clients /\ Requested'

\* What the runner holds stays good, whoever else runs.
LEMMA HoldsStays == ASSUME IInv, Moves, NEW c \in Clients, Holds(c) PROVE Holds(c)'
BY LedgerStays DEF Holds

\* A request that is not touched keeps what it relies on.
LEMMA OthersFit ==
  ASSUME IInv, Moves
  PROVE  /\ \A w \in Lines : \A r \in Served : r = req[w] => Fits(r)'
         /\ \A c \in Clients : c = client => Holds(c)'
<1>1. \A w \in Lines : Fits(req[w])
  BY DEF IInv, Requested
<1>2. Holds(client)
  BY DEF IInv, Requested, ClientFits
<1>3. ASSUME NEW w \in Lines, NEW r \in Served, r = req[w] PROVE Fits(r)'
  <2>1. Fits(r)
    BY <1>1, <1>3
  <2> QED BY <2>1, FitsStays
<1>4. ASSUME NEW c \in Clients, c = client PROVE Holds(c)'
  <2>1. Holds(c)
    BY <1>2, <1>4
  <2> QED BY <2>1, HoldsStays
<1> QED BY <1>3, <1>4

\* A request that goes on, is sent, is given up: the others still fit.
LEMMA ContinuesFits ==
  ASSUME IInv, Moves, NEW w \in Lines, NEW r \in Served, Fits(r)', Continues(w, r)
  PROVE  TalkOK
<1>1. req \in [Lines -> Served] /\ client \in Clients /\ ClientFits
  BY DEF IInv, TypeOK, Requested
<1>2. req' = [req EXCEPT ![w] = r] /\ client' = client
  BY DEF Continues
<1>3. req' \in [Lines -> Served]
  BY <1>1, <1>2
<1>4. ASSUME NEW v \in Lines PROVE Fits(req[v])'
  <2>1. PICK x \in Served : x = req'[v] /\ (v = w => x = r) /\ (v # w => x = req[v])
    BY <1>1, <1>2
  <2>2. Fits(x)'
    BY <2>1, OthersFit
  <2> QED BY <2>1, <2>2
<1>5. Holds(client)'
  <2>1. PICK c \in Clients : c = client /\ c = client'
    BY <1>1, <1>2
  <2>2. Holds(c)'
    BY <2>1, OthersFit
  <2> QED BY <2>1, <2>2
<1>6. req["main"].op \in {"decide", "native", "complete"} => client.token = req["main"].key
  BY <1>1 DEF ClientFits
<1>7. req'["main"].op \in {"decide", "native", "complete"} => client'.token = req'["main"].key
  BY <1>1, <1>2, <1>6 DEF Continues, Lines
<1> QED BY <1>1, <1>2, <1>3, <1>4, <1>5, <1>7 DEF TalkOK, Requested, ClientFits

LEMMA SendsFits ==
  ASSUME IInv, Moves, NEW r \in Served, NEW c \in Clients, Fits(r)', Holds(c)', Sends(r, c)
  PROVE  TalkOK
<1>1. req \in [Lines -> Served]
  BY DEF IInv, TypeOK
<1>2. req' = [req EXCEPT !["main"] = r] /\ client' = c
  BY DEF Sends
<1>3. req' \in [Lines -> Served] /\ req'["main"] = r
  BY <1>1, <1>2 DEF Lines
<1>4. ASSUME NEW v \in Lines PROVE Fits(req[v])'
  <2>1. PICK x \in Served : x = req'[v] /\ (x = r \/ x = req[v])
    BY <1>1, <1>2
  <2>2. Fits(x)'
    BY <2>1, OthersFit
  <2> QED BY <2>1, <2>2
<1>5. Holds(client)'
  BY <1>2
<1>6. req'["main"].op \in {"decide", "native", "complete"} => client'.token = req'["main"].key
  BY <1>2, <1>3 DEF Sends
<1> QED BY <1>2, <1>3, <1>4, <1>5, <1>6 DEF TalkOK, Requested, ClientFits

\* A request is answered: the runner learns of it only from the one it waits for.
LEMMA AnswerFits ==
  ASSUME IInv, Moves, NEW w \in Lines, NEW c \in Clients, w = "main" => Holds(c)', Answer(w, c)
  PROVE  TalkOK
<1>1. Idle \in Served /\ Fits(Idle)'
  BY IdleFits, FitsStays
<1>2. CASE w = "main"
  BY <1>1, <1>2, SendsFits DEF Answer, Sends, Idle
<1>3. CASE w # "main"
  <2>1. req \in [Lines -> Served] /\ client \in Clients /\ ClientFits
    BY DEF IInv, TypeOK, Requested
  <2>2. req' = [req EXCEPT ![w] = Idle] /\ client' = client
    BY <1>3 DEF Answer
  <2>3. req' \in [Lines -> Served] /\ req'["main"] = req["main"]
    BY <1>1, <1>3, <2>1, <2>2 DEF Lines
  <2>4. ASSUME NEW v \in Lines PROVE Fits(req[v])'
    <3>1. PICK x \in Served : x = req'[v] /\ (x = Idle \/ x = req[v])
      BY <1>1, <2>1, <2>2
    <3>2. Fits(x)'
      BY <1>1, <3>1, OthersFit
    <3> QED BY <3>1, <3>2
  <2>5. Holds(client)'
    <3>1. PICK x \in Clients : x = client /\ x = client'
      BY <2>1, <2>2
    <3>2. Holds(x)'
      BY <3>1, OthersFit
    <3> QED BY <3>1, <3>2
  <2> QED BY <2>1, <2>2, <2>3, <2>4, <2>5 DEF TalkOK, Requested, ClientFits
<1> QED BY <1>2, <1>3

LEMMA ForsakesFits ==
  ASSUME IInv, Moves, NEW c \in Clients, Holds(c)', Forsakes(c)
  PROVE  TalkOK
<1>1. Idle \in Served /\ Fits(Idle)'
  BY IdleFits, FitsStays
<1>2. req \in [Lines -> Served]
  BY DEF IInv, TypeOK
<1>3. req' = [req EXCEPT !["main"] = Idle, !["orphan"] = req["main"]] /\ client' = c
  BY DEF Forsakes
<1>4. req' \in [Lines -> Served] /\ req'["main"] = Idle /\ req'["orphan"] = req["main"]
  BY <1>1, <1>2, <1>3 DEF Lines
<1>5. ASSUME NEW v \in Lines PROVE Fits(req[v])'
  <2>1. PICK x \in Served : x = req'[v] /\ (x = Idle \/ x = req["main"])
    BY <1>1, <1>2, <1>4 DEF Lines
  <2>2. Fits(x)'
    BY <1>1, <2>1, OthersFit DEF Lines
  <2> QED BY <2>1, <2>2
<1>6. Holds(client)'
  BY <1>3
<1>7. Idle.op = "idle"
  BY DEF Idle
<1> QED BY <1>3, <1>4, <1>5, <1>6, <1>7 DEF TalkOK, Requested, ClientFits

LEMMA ProceedsFits ==
  ASSUME IInv, Moves, NEW c \in Clients, Holds(c)', Proceeds(c)
  PROVE  TalkOK
<1>1. req \in [Lines -> Served] /\ ClientFits
  BY DEF IInv, TypeOK, Requested
<1>2. req' = req /\ client' = c /\ c.token = client.token
  BY DEF Proceeds
<1>3. ASSUME NEW v \in Lines PROVE Fits(req[v])'
  <2>1. PICK x \in Served : x = req'[v] /\ x = req[v]
    BY <1>1, <1>2
  <2>2. Fits(x)'
    BY <2>1, OthersFit
  <2> QED BY <2>1, <2>2
<1>4. Holds(client)'
  BY <1>2
<1> QED BY <1>1, <1>2, <1>3, <1>4 DEF TalkOK, Requested, ClientFits

\* What the runner does next, when it is told that a request failed or that a trial is over.
LEMMA ErrorFits ==
  ASSUME IInv, NEW op
  PROVE  /\ \E c \in Clients : c = AfterError(op) /\ Holds(c)'
         /\ \E c \in Clients : c = Onward /\ Holds(c)'
<1>1. client \in Clients
  BY DEF IInv, TypeOK
<1>2. \/ AfterError(op) = [client EXCEPT !.at = "failed"]
      \/ AfterError(op) = [client EXCEPT !.at = "open", !.token = NoKey]
      \/ AfterError(op) = [client EXCEPT !.at = "ackAgain"]
      \/ AfterError(op) = [client EXCEPT !.at = "open"]
  BY DEF AfterError
<1>3. "failed" \in Stations /\ "open" \in Stations /\ "ackAgain" \in Stations
  BY DEF Stations
<1>4. AfterError(op) \in Clients /\ AfterError(op).at \in {"failed", "open", "ackAgain"}
  <2>1. CASE AfterError(op) = [client EXCEPT !.at = "failed"]
    BY <1>1, <1>3, <2>1 DEF Clients
  <2>2. CASE AfterError(op) = [client EXCEPT !.at = "open", !.token = NoKey]
    BY <1>1, <1>3, <2>2 DEF Clients
  <2>3. CASE AfterError(op) = [client EXCEPT !.at = "ackAgain"]
    BY <1>1, <1>3, <2>3 DEF Clients
  <2>4. CASE AfterError(op) = [client EXCEPT !.at = "open"]
    BY <1>1, <1>3, <2>4 DEF Clients
  <2> QED BY <1>2, <2>1, <2>2, <2>3, <2>4
<1>5. Onward \in Clients /\ Onward.at = "open"
  BY <1>1, <1>3 DEF Onward, Clients
<1>6. \A c \in Clients : c.at \in {"failed", "open", "ackAgain"} => Holds(c)'
  BY DEF Holds
<1>7. PICK c \in Clients : c = AfterError(op) /\ c.at \in {"failed", "open", "ackAgain"}
  BY <1>4
<1>8. PICK d \in Clients : d = Onward /\ d.at = "open"
  BY <1>5
<1>9. Holds(c)' /\ Holds(d)'
  BY <1>6, <1>7, <1>8
<1> QED BY <1>7, <1>8, <1>9

\* A request at its next await differs in nothing else.
LEMMA RequestTypes ==
  ASSUME NEW x \in Served, NEW p \in Awaits
  PROVE  \E r \in Served :
           /\ r = [x EXCEPT !.pc = p] /\ r.pc = p /\ r.op = x.op /\ r.key = x.key /\ r.seen = x.seen
           /\ r.clean = x.clean /\ r.row = x.row /\ r.digest = x.digest /\ r.native = x.native
<1> DEFINE r == [x EXCEPT !.pc = p]
<1>1. r \in Served
  BY DEF Served
<1>2. /\ r.pc = p /\ r.op = x.op /\ r.key = x.key /\ r.seen = x.seen
      /\ r.clean = x.clean /\ r.row = x.row /\ r.digest = x.digest /\ r.native = x.native
  BY DEF Served
<1>3. r = [x EXCEPT !.pc = p]
  OBVIOUS
<1> HIDE DEF r
<1> QED BY <1>1, <1>2, <1>3

\* Several fields of a request are set at once.
Binds(w, p, c, k) == req' = [req EXCEPT ![w].pc = p, ![w].clean = c, ![w].key = k]
Sees(w, p, d) == req' = [req EXCEPT ![w].pc = p, ![w].seen = d]
Rules(w, p, row) == req' = [req EXCEPT ![w].pc = p, ![w].row = row]
Recalls(w, p, d, b) == req' = [req EXCEPT ![w].pc = p, ![w].seen = d, ![w].admitted = b]
Looks(w, p, row, g) == req' = [req EXCEPT ![w].pc = p, ![w].row = row, ![w].seen = g]
Counts(w, p, c, d) == req' = [req EXCEPT ![w].pc = p, ![w].clean = c, ![w].digest = d]

\* What the request is when several of its fields were set.
\* What a request is after a step that changes three of its fields.
LEMMA ServedUpdates ==
  ASSUME NEW x \in Served, NEW p \in Awaits
  PROVE  /\ \A d \in Answers, b \in BOOLEAN :
              [x EXCEPT !.pc = p, !.seen = d, !.admitted = b] \in Served
         /\ \A row \in Rows, g \in Grants : [x EXCEPT !.pc = p, !.row = row, !.seen = g] \in Served
         /\ \A c \in BOOLEAN, k \in Keys \cup {NoKey} :
              [x EXCEPT !.pc = p, !.clean = c, !.key = k] \in Served
         /\ \A c \in BOOLEAN, d \in Digests \cup {NoDigest} :
              [x EXCEPT !.pc = p, !.clean = c, !.digest = d] \in Served
<1>1. \A d \in Answers, b \in BOOLEAN : [x EXCEPT !.pc = p, !.seen = d, !.admitted = b] \in Served
  BY Zenon DEF Served
<1>2. \A row \in Rows, g \in Grants : [x EXCEPT !.pc = p, !.row = row, !.seen = g] \in Served
  BY Zenon DEF Served
<1>3. \A c \in BOOLEAN, k \in Keys \cup {NoKey} : [x EXCEPT !.pc = p, !.clean = c, !.key = k] \in Served
  BY Zenon DEF Served
<1>4. \A c \in BOOLEAN, d \in Digests \cup {NoDigest} :
        [x EXCEPT !.pc = p, !.clean = c, !.digest = d] \in Served
  BY Zenon DEF Served
<1> QED BY <1>1, <1>2, <1>3, <1>4, Zenon

LEMMA BoundFields ==
  ASSUME req \in [Lines -> Served], NEW w \in Lines, NEW x \in Served, x = req[w], NEW p \in Awaits,
         NEW c \in BOOLEAN, NEW k \in Keys \cup {NoKey}, Binds(w, p, c, k)
  PROVE  \E r \in Served :
           /\ req' = [req EXCEPT ![w] = r]
           /\ r.pc = p /\ r.op = x.op /\ r.key = k /\ r.seen = x.seen /\ r.digest = x.digest
<1> DEFINE r == [x EXCEPT !.pc = p, !.clean = c, !.key = k]
<1>1. r \in Served
  BY ServedUpdates, Zenon
<1>2. r.pc = p /\ r.op = x.op /\ r.key = k /\ r.seen = x.seen /\ r.digest = x.digest
  BY DEF Served
<1>3. req' = [req EXCEPT ![w] = r]
  BY DEF Served, Binds
<1> HIDE DEF r
<1> QED BY <1>1, <1>2, <1>3

LEMMA SeenFields ==
  ASSUME req \in [Lines -> Served], NEW w \in Lines, NEW x \in Served, x = req[w], NEW p \in Awaits,
         NEW d \in Answers, Sees(w, p, d)
  PROVE  \E r \in Served :
           /\ req' = [req EXCEPT ![w] = r]
           /\ r.pc = p /\ r.op = x.op /\ r.key = x.key /\ r.seen = d /\ r.digest = x.digest
<1> DEFINE r == [x EXCEPT !.pc = p, !.seen = d]
<1>1. r \in Served
  BY DEF Served
<1>2. r.pc = p /\ r.op = x.op /\ r.key = x.key /\ r.seen = d /\ r.digest = x.digest
  BY DEF Served
<1>3. req' = [req EXCEPT ![w] = r]
  BY DEF Served, Sees
<1> HIDE DEF r
<1> QED BY <1>1, <1>2, <1>3

LEMMA RowFields ==
  ASSUME req \in [Lines -> Served], NEW w \in Lines, NEW x \in Served, x = req[w], NEW p \in Awaits,
         NEW row \in Rows, Rules(w, p, row)
  PROVE  \E r \in Served :
           /\ req' = [req EXCEPT ![w] = r]
           /\ r.pc = p /\ r.op = x.op /\ r.key = x.key /\ r.seen = x.seen /\ r.row = row
<1> DEFINE r == [x EXCEPT !.pc = p, !.row = row]
<1>1. r \in Served
  BY DEF Served
<1>2. r.pc = p /\ r.op = x.op /\ r.key = x.key /\ r.seen = x.seen /\ r.row = row
  BY DEF Served
<1>3. req' = [req EXCEPT ![w] = r]
  BY DEF Served, Rules
<1> HIDE DEF r
<1> QED BY <1>1, <1>2, <1>3

LEMMA RecallFields ==
  ASSUME req \in [Lines -> Served], NEW w \in Lines, NEW x \in Served, x = req[w], NEW p \in Awaits,
         NEW d \in Answers, NEW b \in BOOLEAN, Recalls(w, p, d, b)
  PROVE  \E r \in Served :
           /\ req' = [req EXCEPT ![w] = r]
           /\ r.pc = p /\ r.op = x.op /\ r.key = x.key /\ r.seen = d /\ r.digest = x.digest
<1> DEFINE r == [x EXCEPT !.pc = p, !.seen = d, !.admitted = b]
<1>1. r \in Served
  BY ServedUpdates, Zenon
<1>2. r.pc = p /\ r.op = x.op /\ r.key = x.key /\ r.seen = d /\ r.digest = x.digest
  BY DEF Served
<1>3. req' = [req EXCEPT ![w] = r]
  BY DEF Served, Recalls
<1> HIDE DEF r
<1> QED BY <1>1, <1>2, <1>3

LEMMA LookFields ==
  ASSUME req \in [Lines -> Served], NEW w \in Lines, NEW x \in Served, x = req[w], NEW p \in Awaits,
         NEW row \in Rows, NEW g \in Grants, Looks(w, p, row, g)
  PROVE  \E r \in Served :
           /\ req' = [req EXCEPT ![w] = r]
           /\ r.pc = p /\ r.op = x.op /\ r.key = x.key /\ r.row = row /\ r.seen = g
<1> DEFINE r == [x EXCEPT !.pc = p, !.row = row, !.seen = g]
<1>1. r \in Served
  BY ServedUpdates, Zenon
<1>2. r.pc = p /\ r.op = x.op /\ r.key = x.key /\ r.row = row /\ r.seen = g
  BY DEF Served
<1>3. req' = [req EXCEPT ![w] = r]
  BY DEF Served, Looks
<1> HIDE DEF r
<1> QED BY <1>1, <1>2, <1>3

LEMMA DigestFields ==
  ASSUME req \in [Lines -> Served], NEW w \in Lines, NEW x \in Served, x = req[w], NEW p \in Awaits,
         NEW c \in BOOLEAN, NEW d \in Digests \cup {NoDigest}, Counts(w, p, c, d)
  PROVE  \E r \in Served :
           /\ req' = [req EXCEPT ![w] = r]
           /\ r.pc = p /\ r.op = x.op /\ r.key = x.key /\ r.seen = x.seen /\ r.digest = d
<1> DEFINE r == [x EXCEPT !.pc = p, !.clean = c, !.digest = d]
<1>1. r \in Served
  BY ServedUpdates, Zenon
<1>2. r.pc = p /\ r.op = x.op /\ r.key = x.key /\ r.seen = x.seen /\ r.digest = d
  BY DEF Served
<1>3. req' = [req EXCEPT ![w] = r]
  BY DEF Served, Counts
<1> HIDE DEF r
<1> QED BY <1>1, <1>2, <1>3

\* A request has its turn: what it relies on, and what it may do.
Turn(w, x) ==
  /\ x \in Served /\ x = req[w] /\ Fits(x)
  /\ \A r \in Served : Fits(r) /\ Continues(w, r) => TalkOK
  /\ \A p \in Awaits : Goto(w, p) /\ client' = client =>
       \E r \in Served :
         /\ Continues(w, r) /\ r.pc = p /\ r.op = x.op /\ r.key = x.key /\ r.seen = x.seen
         /\ r.row = x.row /\ r.digest = x.digest
  /\ Refuse(w) => TalkOK
  /\ Answer(w, Onward) => TalkOK

\* Every request has a turn of this form.
LEMMA Turns ==
  ASSUME IInv, Moves, NEW w \in Lines
  PROVE  \E x \in Served : Turn(w, x)
<1>1. req \in [Lines -> Served] /\ Fits(req[w])
  BY DEF IInv, TypeOK, Requested
<1>2. PICK x \in Served : x = req[w] /\ Fits(x)
  BY <1>1
<1>3. ASSUME NEW r \in Served, Fits(r), Continues(w, r) PROVE TalkOK
  <2>1. Fits(r)'
    BY <1>3, FitsStays
  <2> QED BY <1>3, <2>1, ContinuesFits
<1>4. ASSUME NEW p \in Awaits, Goto(w, p), client' = client
      PROVE  \E r \in Served :
               /\ Continues(w, r) /\ r.pc = p /\ r.op = x.op /\ r.key = x.key /\ r.seen = x.seen
               /\ r.row = x.row /\ r.digest = x.digest
  <2>1. PICK r \in Served :
          /\ r = [x EXCEPT !.pc = p] /\ r.pc = p /\ r.op = x.op /\ r.key = x.key /\ r.seen = x.seen
          /\ r.clean = x.clean /\ r.row = x.row /\ r.digest = x.digest /\ r.native = x.native
    BY RequestTypes
  <2>2. req' = [req EXCEPT ![w] = [x EXCEPT !.pc = p]]
    BY <1>2, <1>4 DEF Goto
  <2>3. req' = [req EXCEPT ![w] = r]
    BY <2>1, <2>2
  <2> QED BY <1>2, <1>4, <2>1, <2>3 DEF Continues
<1>5. ASSUME Refuse(w) PROVE TalkOK
  <2>1. Answer(w, AfterError(req[w].op))
    BY <1>5 DEF Refuse
  <2>2. PICK c \in Clients : c = AfterError(req[w].op) /\ Holds(c)'
    BY ErrorFits
  <2> QED BY <2>1, <2>2, AnswerFits
<1>6. ASSUME Answer(w, Onward) PROVE TalkOK
  <2>1. PICK c \in Clients : c = Onward /\ Holds(c)'
    BY ErrorFits
  <2> QED BY <1>6, <2>1, AnswerFits
<1> QED BY <1>2, <1>3, <1>4, <1>5, <1>6 DEF Turn

\* Each request, at each await, leaves the requests and the runner as the invariant wants them.
LEMMA AuthenticateTalks == ASSUME IInv, Moves, NEW w \in Lines, Authenticate(w) PROVE TalkOK
<1>1. PICK x \in Served : Turn(w, x)
  BY Turns
<1>2. x = req[w] /\ Fits(x) /\ x.pc = "arrive"
  BY <1>1 DEF Turn, Authenticate
<1>3. CASE ~Admits(Mode(x.op)) \/ ~TokenFits(w) \/ (x.op = "ack" /\ x.digest # anchor.digest)
  BY <1>1, <1>2, <1>3 DEF Authenticate, Turn
<1>4. CASE Admits(Mode(x.op)) /\ x.op = "failure" /\ ~Running
  BY <1>1, <1>2, <1>4 DEF Authenticate, Turn
<1>5. CASE /\ Admits(Mode(x.op)) /\ TokenFits(w) /\ ~(x.op = "ack" /\ x.digest # anchor.digest)
           /\ ~(x.op = "failure" /\ ~Running)
  <2>1. anchor \in Anchors /\ Shape /\ req \in [Lines -> Served]
    BY DEF IInv, TypeOK
  <2>2. /\ x.op \in {"issue", "failure"} => Running
        /\ x.op \in {"reveal", "ack"} => Terminal
    BY <1>5, <2>1 DEF Admits, Mode, Running, Terminal, Anchors
  <2>3. Running => Current \in Keys /\ Accounted(Current)
    <3>1. Running => anchor.ordinal \in Ordinals /\ anchor.attempt \in {0, 1}
      BY <2>1 DEF Shape, Anchors
    <3> QED BY <3>1, KeyTypes DEF Current, Accounted
  <2>4. PICK k \in Keys \cup {NoKey} : k = IF x.op \in {"issue", "failure"} THEN Current ELSE x.key
    BY <2>2, <2>3 DEF Served
  <2>5. PICK p \in Awaits : p = FirstAwait(w)
    BY DEF FirstAwait, Awaits
  <2>6. PICK c \in BOOLEAN : c = (InFlight = {})
    OBVIOUS
  <2>7. Binds(w, p, c, k) /\ client' = client
    BY <1>2, <1>5, <2>4, <2>5, <2>6 DEF Authenticate, Binds
  <2>8. PICK r \in Served :
          /\ req' = [req EXCEPT ![w] = r]
          /\ r.pc = p /\ r.op = x.op /\ r.key = k /\ r.seen = x.seen /\ r.digest = x.digest
    BY <1>2, <2>1, <2>7, BoundFields
  <2>9. /\ x.op = "issue" => p = "keep"
        /\ x.op = "failure" => p \in {"look", "recall"}
        /\ x.op \in {"reveal", "ack"} => p = "reconcile"
        /\ x.op \in {"decide", "native", "complete", "idle"} => p = "recall"
    BY <1>2, <2>5 DEF FirstAwait
  <2>10. x.op \in {"issue", "failure", "reveal", "ack", "decide", "native", "complete", "idle"}
    BY DEF Served, Ops
  <2>11. Fits(r)
    BY <1>2, <2>2, <2>3, <2>4, <2>8, <2>9, <2>10 DEF Fits
  <2>12. Continues(w, r)
    BY <1>2, <2>4, <2>7, <2>8 DEF Continues
  <2> QED BY <1>1, <2>11, <2>12 DEF Turn
<1> QED BY <1>3, <1>4, <1>5

LEMMA DecideTalks ==
  ASSUME IInv, Moves, NEW w \in Lines,
         \/ KeepIssue(w) \/ IssueGrant(w) \/ RecallDecision(w) \/ LookBeforeCall(w) \/ BeginCall(w)
         \/ ProviderAnswers(w) \/ KeepDecision(w) \/ SettleDecision(w) \/ RecordDoubt(w) \/ QuarantineDoubt(w)
  PROVE  TalkOK
<1>1. PICK x \in Served : Turn(w, x)
  BY Turns
<1>2. x = req[w] /\ Fits(x)
  BY <1>1 DEF Turn
<1>3. req \in [Lines -> Served] /\ client \in Clients /\ kept \in [Keys -> Continuations] /\ grant \in [Keys -> Grants]
      /\ Charged /\ ClientFits
  BY DEF IInv, TypeOK, Requested
<1>4. CASE Refuse(w)
  BY <1>1, <1>4 DEF Turn
<1>5. CASE KeepIssue(w)
  <2>1. Goto(w, "issue") /\ client' = client /\ x.op = "issue" /\ x.pc = "keep"
    BY <1>2, <1>5 DEF KeepIssue, At
  <2>2. PICK r \in Served : Continues(w, r) /\ r.pc = "issue" /\ r.op = "issue" /\ r.key = x.key
    BY <1>1, <2>1 DEF Turn, Awaits
  <2>3. Fits(r)
    BY <1>2, <2>1, <2>2 DEF Fits
  <2> QED BY <1>1, <2>2, <2>3 DEF Turn
<1>6. CASE IssueGrant(w)
  <2>1. Refuse(w) \/ Answer(w, [client EXCEPT !.at = "decide", !.token = x.key])
    BY <1>2, <1>6 DEF IssueGrant
  <2>2. x.key \in Keys
    BY <1>2, <1>6 DEF IssueGrant, At, Fits
  <2>3. PICK c \in Clients : c = [client EXCEPT !.at = "decide", !.token = x.key] /\ c.at = "decide" /\ c.token = x.key
    <3> DEFINE c == [client EXCEPT !.at = "decide", !.token = x.key]
    <3>1. c \in Clients /\ c.at = "decide" /\ c.token = x.key
      BY <1>3, <2>2 DEF Clients, Stations
    <3>2. c = [client EXCEPT !.at = "decide", !.token = x.key]
      OBVIOUS
    <3> HIDE DEF c
    <3> QED BY <3>1, <3>2
  <2>4. Holds(c)'
    BY <2>2, <2>3 DEF Holds
  <2> QED BY <1>4, <2>1, <2>3, <2>4, AnswerFits
<1>7. CASE RecallDecision(w)
  <2>1. x.op = "decide" /\ x.pc = "recall" /\ x.key \in Keys
    BY <1>2, <1>7 DEF RecallDecision, At, Fits
  <2>2. CASE kept[x.key].decision # NoDecision
    <3>1. PICK d \in Decisions : d = kept[x.key].decision
      BY <1>3, <2>1, <2>2 DEF Continuations, Answers
    <3>2. Sees(w, "settle", d) /\ client' = client /\ d \in Answers /\ "settle" \in Awaits
      BY <1>2, <1>7, <2>2, <3>1 DEF RecallDecision, Sees, Awaits, Answers
    <3>3. PICK r \in Served :
            /\ req' = [req EXCEPT ![w] = r]
            /\ r.pc = "settle" /\ r.op = x.op /\ r.key = x.key /\ r.seen = d /\ r.digest = x.digest
      BY <1>2, <1>3, <3>2, SeenFields
    <3>4. x.key \in Dispatched
      BY <1>3, <2>1, <2>2 DEF Charged
    <3>5. Fits(r)
      BY <1>2, <2>1, <3>1, <3>3, <3>4 DEF Fits
    <3> QED BY <1>1, <1>2, <3>2, <3>3, <3>5 DEF Turn, Continues
  <2>3. CASE Goto(w, "look") /\ client' = client
    <3>1. PICK r \in Served : Continues(w, r) /\ r.pc = "look" /\ r.op = "decide" /\ r.key = x.key
      BY <1>1, <2>1, <2>3 DEF Turn, Awaits
    <3>2. Fits(r)
      BY <1>2, <2>1, <3>1 DEF Fits
    <3> QED BY <1>1, <3>1, <3>2 DEF Turn
  <2> QED BY <1>2, <1>4, <1>7, <2>2, <2>3 DEF RecallDecision
<1>8. CASE LookBeforeCall(w)
  <2>1. x.op = "decide" /\ x.pc = "look" /\ x.key \in Keys
    BY <1>2, <1>8 DEF LookBeforeCall, At, Fits
  <2>2. CASE Goto(w, "begin") /\ client' = client
    <3>1. PICK r \in Served : Continues(w, r) /\ r.pc = "begin" /\ r.op = "decide" /\ r.key = x.key
      BY <1>1, <2>1, <2>2 DEF Turn, Awaits
    <3>2. Fits(r)
      BY <1>2, <2>1, <3>1 DEF Fits
    <3> QED BY <1>1, <3>1, <3>2 DEF Turn
  <2> QED BY <1>4, <1>8, <2>2 DEF LookBeforeCall
<1>9. CASE BeginCall(w)
  <2>1. x.op = "decide" /\ x.pc = "begin" /\ x.key \in Keys
    BY <1>2, <1>9 DEF BeginCall, At, Fits
  <2>2. CASE Answer(w, AfterError("decide"))
    <3>1. PICK c \in Clients : c = AfterError("decide") /\ Holds(c)'
      BY ErrorFits
    <3> QED BY <2>2, <3>1, AnswerFits
  <2>3. CASE grant' = [grant EXCEPT ![x.key] = "IN_FLIGHT"] /\ Goto(w, "asked") /\ client' = client
    <3>1. PICK r \in Served : Continues(w, r) /\ r.pc = "asked" /\ r.op = "decide" /\ r.key = x.key
      BY <1>1, <2>1, <2>3 DEF Turn, Awaits
    <3>2. x.key \in Dispatched'
      BY <1>3, <2>1, <2>3 DEF Dispatched
    <3>3. Fits(r)'
      BY <2>1, <3>1, <3>2 DEF Fits
    <3> QED BY <3>1, <3>3, ContinuesFits
  <2> QED BY <1>2, <1>4, <1>9, <2>2, <2>3 DEF BeginCall
<1>10. CASE ProviderAnswers(w)
  <2>1. x.op = "decide" /\ x.pc = "asked" /\ x.key \in Keys /\ x.key \in Dispatched /\ client' = client
    BY <1>2, <1>10 DEF ProviderAnswers, At, Fits
  <2>2. CASE \E d \in Decisions : req' = [req EXCEPT ![w].pc = "keep", ![w].seen = d]
    <3>1. PICK d \in Decisions : Sees(w, "keep", d)
      BY <2>2 DEF Sees
    <3>2. d \in Answers /\ "keep" \in Awaits
      BY DEF Answers, Awaits
    <3>3. PICK r \in Served :
            /\ req' = [req EXCEPT ![w] = r]
            /\ r.pc = "keep" /\ r.op = x.op /\ r.key = x.key /\ r.seen = d /\ r.digest = x.digest
      BY <1>2, <1>3, <3>1, <3>2, SeenFields
    <3>4. Fits(r)
      BY <1>2, <2>1, <3>1, <3>3 DEF Fits
    <3> QED BY <1>1, <1>2, <2>1, <3>3, <3>4 DEF Turn, Continues
  <2>3. CASE Goto(w, "doubt")
    <3>1. PICK r \in Served : Continues(w, r) /\ r.pc = "doubt" /\ r.op = "decide" /\ r.key = x.key
      BY <1>1, <2>1, <2>3 DEF Turn, Awaits
    <3>2. Fits(r)
      BY <1>2, <2>1, <3>1 DEF Fits
    <3> QED BY <1>1, <3>1, <3>2 DEF Turn
  <2> QED BY <1>10, <2>2, <2>3 DEF ProviderAnswers
<1>11. CASE KeepDecision(w)
  <2>1. x.op = "decide" /\ x.pc = "keep" /\ Goto(w, "settle") /\ client' = client
    BY <1>2, <1>11 DEF KeepDecision, At
  <2>2. PICK r \in Served : Continues(w, r) /\ r.pc = "settle" /\ r.op = "decide" /\ r.key = x.key /\ r.seen = x.seen
    BY <1>1, <2>1 DEF Turn, Awaits
  <2>3. Fits(r)
    BY <1>2, <2>1, <2>2 DEF Fits
  <2> QED BY <1>1, <2>2, <2>3 DEF Turn
<1>12. CASE SettleDecision(w)
  <2>1. x.op = "decide" /\ x.pc = "settle" /\ x.key \in Keys
    BY <1>2, <1>12 DEF SettleDecision, At, Fits
  <2>2. PICK a \in {"native", "complete"} : Answer(w, [client EXCEPT !.at = a])
    BY <1>12 DEF SettleDecision
  <2>3. PICK c \in Clients : c = [client EXCEPT !.at = a] /\ c.at = a /\ c.token = client.token
    <3> DEFINE c == [client EXCEPT !.at = a]
    <3>1. c \in Clients /\ c.at = a /\ c.token = client.token
      BY <1>3 DEF Clients, Stations
    <3>2. c = [client EXCEPT !.at = a]
      OBVIOUS
    <3> HIDE DEF c
    <3> QED BY <3>1, <3>2
  <2>4. w = "main" => c.token = x.key
    BY <1>2, <1>3, <2>1, <2>3 DEF ClientFits
  <2>5. grant'[x.key] = "KNOWN"
    BY <1>2, <1>3, <1>12, <2>1 DEF SettleDecision
  <2>6. w = "main" => Holds(c)'
    BY <2>1, <2>4, <2>5 DEF Holds
  <2> QED BY <2>2, <2>3, <2>6, AnswerFits
<1>13. CASE RecordDoubt(w)
  <2>1. x.op = "decide" /\ x.pc = "doubt"
    BY <1>2, <1>13 DEF RecordDoubt, At
  <2>2. CASE Goto(w, "quarantine") /\ client' = client
    <3>1. PICK r \in Served : Continues(w, r) /\ r.pc = "quarantine" /\ r.op = "decide" /\ r.key = x.key
      BY <1>1, <2>1, <2>2 DEF Turn, Awaits
    <3>2. Fits(r)
      BY <1>2, <2>1, <3>1 DEF Fits
    <3> QED BY <1>1, <3>1, <3>2 DEF Turn
  <2> QED BY <1>4, <1>13, <2>2 DEF RecordDoubt
<1>14. CASE QuarantineDoubt(w)
  <2>1. Answer(w, AfterError("decide"))
    BY <1>14 DEF QuarantineDoubt
  <2>2. PICK c \in Clients : c = AfterError("decide") /\ Holds(c)'
    BY ErrorFits
  <2> QED BY <2>1, <2>2, AnswerFits
<1> QED BY <1>5, <1>6, <1>7, <1>8, <1>9, <1>10, <1>11, <1>12, <1>13, <1>14

LEMMA NativeTalks ==
  ASSUME IInv, Moves, NEW w \in Lines,
         RecallForNative(w) \/ KeepNative(w) \/ RecallForRow(w) \/ RecordRow(w) \/ KeepCompletion(w)
  PROVE  TalkOK
<1>1. PICK x \in Served : Turn(w, x)
  BY Turns
<1>2. x = req[w] /\ Fits(x)
  BY <1>1 DEF Turn
<1>3. req \in [Lines -> Served] /\ client \in Clients /\ kept \in [Keys -> Continuations] /\ grant \in [Keys -> Grants]
      /\ Charged /\ ClientFits
  BY DEF IInv, TypeOK, Requested
<1>4. CASE Refuse(w)
  BY <1>1, <1>4 DEF Turn
<1>5. CASE RecallForNative(w)
  <2>1. x.op = "native" /\ x.pc = "recall"
    BY <1>2, <1>5 DEF RecallForNative, At
  <2>2. CASE Goto(w, "keep") /\ client' = client
    <3>1. PICK r \in Served : Continues(w, r) /\ r.pc = "keep" /\ r.op = "native" /\ r.key = x.key
      BY <1>1, <2>1, <2>2 DEF Turn, Awaits
    <3>2. Fits(r)
      BY <1>2, <2>1, <3>1 DEF Fits
    <3> QED BY <1>1, <3>1, <3>2 DEF Turn
  <2> QED BY <1>4, <1>5, <2>2 DEF RecallForNative
<1>6. CASE KeepNative(w)
  <2>1. x.op = "native" /\ x.key \in Keys /\ grant[x.key] = "KNOWN"
    BY <1>2, <1>6 DEF KeepNative, At, Fits
  <2>2. Answer(w, AfterError("native")) \/ Answer(w, [client EXCEPT !.at = "dispatch"])
    BY <1>6 DEF KeepNative
  <2>3. CASE Answer(w, AfterError("native"))
    <3>1. PICK c \in Clients : c = AfterError("native") /\ Holds(c)'
      BY ErrorFits
    <3> QED BY <2>3, <3>1, AnswerFits
  <2>4. CASE Answer(w, [client EXCEPT !.at = "dispatch"])
    <3>1. PICK c \in Clients : c = [client EXCEPT !.at = "dispatch"] /\ c.at = "dispatch" /\ c.token = client.token
      <4> DEFINE c == [client EXCEPT !.at = "dispatch"]
      <4>1. c \in Clients /\ c.at = "dispatch" /\ c.token = client.token
        BY <1>3 DEF Clients, Stations
      <4>2. c = [client EXCEPT !.at = "dispatch"]
        OBVIOUS
      <4> HIDE DEF c
      <4> QED BY <4>1, <4>2
    <3>2. w = "main" => Holds(c)
      BY <1>2, <1>3, <2>1, <3>1 DEF ClientFits, Holds
    <3>3. w = "main" => Holds(c)'
      BY <3>2, HoldsStays
    <3> QED BY <2>4, <3>1, <3>3, AnswerFits
  <2> QED BY <2>2, <2>3, <2>4
<1>7. CASE RecallForRow(w)
  <2>1. x.op = "complete" /\ x.pc = "recall" /\ x.key \in Keys /\ grant[x.key] = "KNOWN"
    BY <1>2, <1>7 DEF RecallForRow, At, Fits
  <2>2. CASE /\ kept[x.key].decision # NoDecision
             /\ \E v \in {"scored", "invalid"} :
                  req' = [req EXCEPT ![w].pc = "record", ![w].row = RowOf(kept[x.key].decision, v)]
             /\ client' = client
    <3>1. PICK d \in Decisions : d = kept[x.key].decision
      BY <1>3, <2>1, <2>2 DEF Continuations, Answers
    <3>2. PICK v \in {"scored", "invalid"} : req' = [req EXCEPT ![w].pc = "record", ![w].row = RowOf(d, v)]
      BY <2>2, <3>1
    <3>3. PICK row \in Rows : row = RowOf(d, v) /\ RowFits(x.key, row) /\ row.inferred
      BY <2>1, RowOfFits
    <3>4. Rules(w, "record", row) /\ "record" \in Awaits
      BY <3>2, <3>3 DEF Rules, Awaits
    <3>5. PICK r \in Served :
            /\ req' = [req EXCEPT ![w] = r]
            /\ r.pc = "record" /\ r.op = x.op /\ r.key = x.key /\ r.seen = x.seen /\ r.row = row
      BY <1>2, <1>3, <3>4, RowFields
    <3>6. Fits(r)
      BY <2>1, <3>3, <3>5 DEF Fits
    <3> QED BY <1>1, <1>2, <2>2, <3>5, <3>6 DEF Turn, Continues
  <2> QED BY <1>2, <1>4, <1>7, <2>2 DEF RecallForRow
<1>8. CASE RecordRow(w)
  <2>1. x.op = "complete" /\ x.pc = "record"
    BY <1>2, <1>8 DEF RecordRow, At
  <2>2. CASE Goto(w, "keep") /\ client' = client
    <3>1. PICK r \in Served : Continues(w, r) /\ r.pc = "keep" /\ r.op = "complete" /\ r.key = x.key
      BY <1>1, <2>1, <2>2 DEF Turn, Awaits
    <3>2. Fits(r)
      BY <1>2, <2>1, <3>1 DEF Fits
    <3> QED BY <1>1, <3>1, <3>2 DEF Turn
  <2> QED BY <1>4, <1>8, <2>2 DEF RecordRow
<1>9. CASE KeepCompletion(w)
  BY <1>1, <1>9 DEF KeepCompletion, Turn
<1> QED BY <1>5, <1>6, <1>7, <1>8, <1>9

LEMMA FailureTalks ==
  ASSUME IInv, Moves, NEW w \in Lines,
         RecallForFailure(w) \/ LookAtGrant(w) \/ RecordFailure(w) \/ QuarantineFailure(w)
  PROVE  TalkOK
<1>1. PICK x \in Served : Turn(w, x)
  BY Turns
<1>2. x = req[w] /\ Fits(x)
  BY <1>1 DEF Turn
<1>3. req \in [Lines -> Served] /\ client \in Clients /\ kept \in [Keys -> Continuations] /\ grant \in [Keys -> Grants]
      /\ Charged /\ ClientFits
  BY DEF IInv, TypeOK, Requested
<1>4. CASE Refuse(w)
  BY <1>1, <1>4 DEF Turn
<1>5. CASE RecallForFailure(w)
  <2>1. x.op = "failure" /\ x.pc = "recall" /\ x.key \in Keys /\ Accounted(x.key)
    BY <1>2, <1>5 DEF RecallForFailure, At, Fits
  <2>2. PICK d \in Answers : d = kept[x.key].decision /\ (d # NoDecision => x.key \in Dispatched)
    BY <1>3, <2>1 DEF Continuations, Charged
  <2>3. PICK b \in BOOLEAN : b = kept[x.key].native
    BY <1>3, <2>1 DEF Continuations
  <2>4. Recalls(w, "look", d, b) /\ client' = client /\ "look" \in Awaits
    BY <1>2, <1>5, <2>2, <2>3 DEF RecallForFailure, Recalls, Awaits
  <2>5. PICK r \in Served :
          /\ req' = [req EXCEPT ![w] = r]
          /\ r.pc = "look" /\ r.op = x.op /\ r.key = x.key /\ r.seen = d /\ r.digest = x.digest
    BY <1>2, <1>3, <2>4, RecallFields
  <2>6. Fits(r)
    BY <2>1, <2>2, <2>5 DEF Fits
  <2> QED BY <1>1, <1>2, <2>1, <2>4, <2>5, <2>6 DEF Turn, Continues
<1>6. CASE LookAtGrant(w)
  <2>1. x.op = "failure" /\ x.pc = "look" /\ x.key \in Keys /\ Accounted(x.key)
        /\ (x.seen # NoDecision => x.key \in Dispatched)
    BY <1>2, <1>6 DEF LookAtGrant, At, Fits
  <2>2. PICK g \in Grants : g = grant[x.key]
    BY <1>3, <2>1
  <2>3. PICK decided \in BOOLEAN : decided = (x.seen # NoDecision)
    OBVIOUS
  <2>4. x.admitted \in BOOLEAN /\ x.native \in BOOLEAN
    BY DEF Served
  <2>5. PICK row \in Rows : /\ row = FailureRow(x.key, g, decided, x.admitted, x.native) /\ RowFits(x.key, row)
                           /\ (row.inferred <=> g \in {"IN_FLIGHT", "KNOWN", "UNCERTAIN"})
    <3>1. decided => x.key \in Dispatched
      BY <2>1, <2>3
    <3> QED BY <2>1, <2>2, <2>4, <3>1, FailureRowFits, SMT
  <2>6. Looks(w, "record", row, g) /\ client' = client /\ "record" \in Awaits
    BY <1>2, <1>6, <2>2, <2>3, <2>5 DEF LookAtGrant, Looks, Awaits
  <2>7. PICK r \in Served :
          /\ req' = [req EXCEPT ![w] = r]
          /\ r.pc = "record" /\ r.op = x.op /\ r.key = x.key /\ r.row = row /\ r.seen = g
    BY <1>2, <1>3, <2>6, LookFields
  <2>8. Fits(r)
    BY <2>1, <2>5, <2>7 DEF Fits
  <2> QED BY <1>1, <1>2, <2>1, <2>6, <2>7, <2>8 DEF Turn, Continues
<1>7. CASE RecordFailure(w)
  <2>1. x.op = "failure" /\ x.pc = "record"
    BY <1>2, <1>7 DEF RecordFailure, At
  <2>2. CASE Goto(w, "quarantine") /\ client' = client
    <3>1. PICK r \in Served : Continues(w, r) /\ r.pc = "quarantine" /\ r.op = "failure" /\ r.key = x.key
      BY <1>1, <2>1, <2>2 DEF Turn, Awaits
    <3>2. Fits(r)
      BY <1>2, <2>1, <3>1 DEF Fits
    <3> QED BY <1>1, <3>1, <3>2 DEF Turn
  <2>3. Answer(w, Onward) => TalkOK
    BY <1>1 DEF Turn
  <2> QED BY <1>4, <1>7, <2>2, <2>3 DEF RecordFailure
<1>8. CASE QuarantineFailure(w)
  <2>1. Answer(w, AfterError("failure")) \/ Answer(w, Onward)
    BY <1>8 DEF QuarantineFailure
  <2>2. CASE Answer(w, AfterError("failure"))
    <3>1. PICK c \in Clients : c = AfterError("failure") /\ Holds(c)'
      BY ErrorFits
    <3> QED BY <2>2, <3>1, AnswerFits
  <2>3. Answer(w, Onward) => TalkOK
    BY <1>1 DEF Turn
  <2> QED BY <2>1, <2>2, <2>3
<1> QED BY <1>5, <1>6, <1>7, <1>8

LEMMA RevealTalks ==
  ASSUME IInv, Moves, NEW w \in Lines,
         Reconcile(w) \/ ReadGuardAgain(w) \/ Bind(w) \/ Seal(w) \/ Unlink(w) \/ Acknowledge(w)
  PROVE  TalkOK
<1>1. PICK x \in Served : Turn(w, x)
  BY Turns
<1>2. x = req[w] /\ Fits(x)
  BY <1>1 DEF Turn
<1>3. req \in [Lines -> Served] /\ client \in Clients /\ kept \in [Keys -> Continuations] /\ grant \in [Keys -> Grants]
      /\ Charged /\ ClientFits
  BY DEF IInv, TypeOK, Requested
<1>4. CASE Refuse(w)
  BY <1>1, <1>4 DEF Turn
<1>5. CASE Reconcile(w)
  <2>1. x.pc = "reconcile" /\ Terminal
    BY <1>2, <1>5 DEF Reconcile, Fits
  <2>2. CASE Goto(w, "guard") /\ client' = client
    <3>1. PICK r \in Served :
            /\ Continues(w, r) /\ r.pc = "guard" /\ r.op = x.op /\ r.key = x.key /\ r.seen = x.seen /\ r.digest = x.digest
      BY <1>1, <2>2 DEF Turn, Awaits
    <3>2. Fits(r)
      BY <1>2, <2>1, <3>1 DEF Fits
    <3> QED BY <1>1, <3>1, <3>2 DEF Turn
  <2>3. CASE req' = req /\ client' = client
    <3>1. Continues(w, x)
      BY <1>2, <1>3, <2>3 DEF Continues
    <3> QED BY <1>1, <1>2, <3>1 DEF Turn
  <2> QED BY <1>5, <2>2, <2>3 DEF Reconcile
<1>6. CASE ReadGuardAgain(w)
  <2>1. x.pc = "guard" /\ Terminal
    BY <1>2, <1>6 DEF ReadGuardAgain, Fits
  <2>2. [rows |-> anchor.rows, calls |-> Cardinality(Dispatched), known |-> Cardinality(Settled)] \in Digests
    <3>1. Cardinality(Dispatched) \in Nat /\ Cardinality(Settled) \in Nat
      <4>1. IsFiniteSet(Dispatched) /\ IsFiniteSet(Settled)
        BY FiniteKeys, FS_Subset DEF Dispatched, Settled
      <4> QED BY <4>1, FS_CardinalityType
    <3>2. anchor.rows \in [Keys -> Rows \cup {NoRow}]
      BY DEF IInv, TypeOK, Anchors, Logs
    <3> QED BY <3>1, <3>2 DEF Digests
  <2>3. PICK sum \in Digests :
          sum = [rows |-> anchor.rows, calls |-> Cardinality(Dispatched), known |-> Cardinality(Settled)]
          /\ sum.rows = anchor.rows
    BY <2>2
  <2>4. PICK d \in Digests \cup {NoDigest} : d = IF x.op = "ack" THEN x.digest ELSE sum
    BY DEF Served
  <2>5. PICK p \in Awaits : p = IF x.op = "ack" THEN "unlink" ELSE "bind"
    BY DEF Awaits
  <2>6. PICK b \in BOOLEAN : b = (InFlight = {})
    OBVIOUS
  <2>7. Refuse(w) \/ (Counts(w, p, b, d) /\ client' = client)
    BY <1>2, <1>6, <2>3, <2>4, <2>5, <2>6 DEF ReadGuardAgain, Counts
  <2>8. CASE Counts(w, p, b, d) /\ client' = client
    <3>1. PICK r \in Served :
            /\ req' = [req EXCEPT ![w] = r]
            /\ r.pc = p /\ r.op = x.op /\ r.key = x.key /\ r.seen = x.seen /\ r.digest = d
      BY <1>2, <1>3, <2>8, DigestFields
    <3>2. Fits(r)
      BY <1>2, <2>1, <2>3, <2>4, <2>5, <3>1 DEF Fits
    <3> QED BY <1>1, <1>2, <2>8, <3>1, <3>2 DEF Turn, Continues
  <2> QED BY <1>4, <2>7, <2>8
<1>7. CASE Bind(w)
  <2>1. x.pc = "bind"
    BY <1>2, <1>7 DEF Bind
  <2>2. CASE Goto(w, "seal") /\ client' = client
    <3>1. PICK r \in Served :
            /\ Continues(w, r) /\ r.pc = "seal" /\ r.op = x.op /\ r.key = x.key /\ r.seen = x.seen /\ r.digest = x.digest
      BY <1>1, <2>2 DEF Turn, Awaits
    <3>2. Fits(r)
      BY <1>2, <2>1, <3>1 DEF Fits
    <3> QED BY <1>1, <3>1, <3>2 DEF Turn
  <2> QED BY <1>4, <1>7, <2>2 DEF Bind
<1>8. CASE Seal(w)
  <2>1. PICK c \in Clients : c = [client EXCEPT !.at = "verified", !.digest = x.digest] /\ c.at = "verified"
    <3> DEFINE c == [client EXCEPT !.at = "verified", !.digest = x.digest]
    <3>1. c \in Clients /\ c.at = "verified"
      BY <1>3 DEF Clients, Stations, Served
    <3>2. c = [client EXCEPT !.at = "verified", !.digest = x.digest]
      OBVIOUS
    <3> HIDE DEF c
    <3> QED BY <3>1, <3>2
  <2>2. Refuse(w) \/ Answer(w, c)
    BY <1>2, <1>8, <2>1 DEF Seal
  <2>3. Holds(c)'
    BY <2>1 DEF Holds
  <2> QED BY <1>4, <2>2, <2>3, AnswerFits
<1>9. CASE Unlink(w)
  <2>1. x.pc = "unlink"
    BY <1>2, <1>9 DEF Unlink
  <2>2. CASE Goto(w, "ack") /\ client' = client
    <3>1. PICK r \in Served :
            /\ Continues(w, r) /\ r.pc = "ack" /\ r.op = x.op /\ r.key = x.key /\ r.seen = x.seen /\ r.digest = x.digest
      BY <1>1, <2>2 DEF Turn, Awaits
    <3>2. Fits(r)
      BY <1>2, <2>1, <3>1 DEF Fits
    <3> QED BY <1>1, <3>1, <3>2 DEF Turn
  <2> QED BY <1>9, <2>2 DEF Unlink
<1>10. CASE Acknowledge(w)
  <2>1. PICK c \in Clients : c = [client EXCEPT !.at = "done"] /\ c.at = "done"
    <3> DEFINE c == [client EXCEPT !.at = "done"]
    <3>1. c \in Clients /\ c.at = "done"
      BY <1>3 DEF Clients, Stations
    <3>2. c = [client EXCEPT !.at = "done"]
      OBVIOUS
    <3> HIDE DEF c
    <3> QED BY <3>1, <3>2
  <2>2. Refuse(w) \/ Answer(w, c)
    BY <1>10, <2>1 DEF Acknowledge
  <2>3. Holds(c)'
    BY <2>1 DEF Holds
  <2> QED BY <1>4, <2>2, <2>3, AnswerFits
<1> QED BY <1>5, <1>6, <1>7, <1>8, <1>9, <1>10

\* So does whatever the server does for a request.
LEMMA ServeTalks == ASSUME IInv, Moves, NEW w \in Lines, Serve(w) PROVE TalkOK
BY AuthenticateTalks, DecideTalks, NativeTalks, FailureTalks, RevealTalks DEF Serve

\* A request of the runner starts from what the runner holds.
LEMMA SentFits ==
  ASSUME IInv, Moves, NEW r \in Served, NEW c \in Clients, Fits(r), Holds(c), Sends(r, c)
  PROVE  TalkOK
<1>1. Fits(r)' /\ Holds(c)'
  BY FitsStays, HoldsStays
<1> QED BY <1>1, SendsFits

LEMMA Proceeded ==
  ASSUME IInv, Moves, NEW c \in Clients, Holds(c), Proceeds(c)
  PROVE  TalkOK
<1>1. Holds(c)'
  BY HoldsStays
<1> QED BY <1>1, ProceedsFits

\* The runner goes on to a, with or without having called the tool.
GoesTo(a) == client' = [client EXCEPT !.at = a]
FailsAs(n) == client' = [client EXCEPT !.at = "failed", !.native = n]

LEMMA ClientGoes ==
  ASSUME client \in Clients, NEW a \in Stations, GoesTo(a)
  PROVE  \E c \in Clients : client' = c /\ c.at = a /\ c.token = client.token
BY DEF Clients, GoesTo

LEMMA ClientFails ==
  ASSUME client \in Clients, NEW n \in BOOLEAN, FailsAs(n)
  PROVE  \E c \in Clients : client' = c /\ c.at = "failed" /\ c.token = client.token
<1> DEFINE c == [client EXCEPT !.at = "failed", !.native = n]
<1>1. c \in Clients /\ c.at = "failed" /\ c.token = client.token
  BY DEF Clients, Stations
<1>2. client' = c
  BY DEF FailsAs
<1> HIDE DEF c
<1> QED BY <1>1, <1>2

\* The requests the runner sends.
Asks(o, k) == Send([Request(o) EXCEPT !.key = k])
Reports(k, n) == Send([Request("failure") EXCEPT !.key = k, !.native = n])
Requires(o) == Send(Request(o))
Approves(d) == Send([Request("ack") EXCEPT !.digest = d])

\* A request arrives with what the runner sent and nothing it has seen.
LEMMA Arrives ==
  ASSUME req \in [Lines -> Served], NEW o \in Ops, NEW k \in Keys \cup {NoKey}, NEW n \in BOOLEAN,
         NEW d \in Digests \cup {NoDigest},
         Asks(o, k) \/ (o = "failure" /\ Reports(k, n)) \/ (o = "reveal" /\ Requires(o)) \/ (o = "ack" /\ Approves(d))
  PROVE  \E r \in Served :
           /\ req' = [req EXCEPT !["main"] = r]
           /\ r.op = o /\ r.pc = "arrive" /\ r.seen = NoDecision /\ (Asks(o, k) => r.key = k)
<1> USE DEF Served, Awaits, Answers, Ops
<1>1. CASE Asks(o, k)
  <2> DEFINE r == [Request(o) EXCEPT !.key = k]
  <2>1. r \in Served /\ r.op = o /\ r.pc = "arrive" /\ r.seen = NoDecision /\ r.key = k
    BY DEF Request, Idle
  <2>2. req' = [req EXCEPT !["main"] = r]
    BY <1>1 DEF Asks, Send
  <2> HIDE DEF r
  <2> QED BY <2>1, <2>2
<1>2. CASE o = "failure" /\ Reports(k, n)
  <2> DEFINE r == [Request("failure") EXCEPT !.key = k, !.native = n]
  <2>1. r \in Served /\ r.op = o /\ r.pc = "arrive" /\ r.seen = NoDecision /\ r.key = k
    BY <1>2 DEF Request, Idle
  <2>2. req' = [req EXCEPT !["main"] = r]
    BY <1>2 DEF Reports, Send
  <2> HIDE DEF r
  <2> QED BY <2>1, <2>2
<1>3. CASE o = "reveal" /\ Requires(o) /\ ~Asks(o, k)
  <2> DEFINE r == Request(o)
  <2>1. r \in Served /\ r.op = o /\ r.pc = "arrive" /\ r.seen = NoDecision
    BY <1>3 DEF Request, Idle
  <2>2. req' = [req EXCEPT !["main"] = r]
    BY <1>3 DEF Requires, Send
  <2> HIDE DEF r
  <2> QED BY <1>3, <2>1, <2>2
<1>4. CASE o = "ack" /\ Approves(d) /\ ~Asks(o, k)
  <2> DEFINE r == [Request("ack") EXCEPT !.digest = d]
  <2>1. r \in Served /\ r.op = o /\ r.pc = "arrive" /\ r.seen = NoDecision
    BY <1>4 DEF Request, Idle
  <2>2. req' = [req EXCEPT !["main"] = r]
    BY <1>4 DEF Approves, Send
  <2> HIDE DEF r
  <2> QED BY <1>4, <2>1, <2>2
<1> QED BY <1>1, <1>2, <1>3, <1>4

\* The runner and the faults do too.
LEMMA RunTalks == ASSUME IInv, Moves, Run PROVE TalkOK
<1>1. req \in [Lines -> Served] /\ client \in Clients /\ Holds(client)
      /\ client.token \in Keys \cup {NoKey} /\ client.native \in BOOLEAN /\ client.digest \in Digests \cup {NoDigest}
  BY DEF IInv, TypeOK, Requested, ClientFits, Clients
<1>2. ASSUME NEW a \in {"issue", "reveal", "complete"}, GoesTo(a), req' = req, a = "complete" => client.at = "dispatch"
      PROVE  TalkOK
  <2>1. PICK c \in Clients : client' = c /\ c.at = a /\ c.token = client.token
    BY <1>1, <1>2, ClientGoes DEF Stations
  <2>2. Holds(c)
    BY <1>1, <1>2, <2>1 DEF Holds
  <2> QED BY <1>2, <2>1, <2>2, Proceeded DEF Proceeds
<1>3. ASSUME NEW a \in {"waiting", "acking", "ackingAgain"}, GoesTo(a)
      PROVE  \E c \in Clients : client' = c /\ c.token = client.token /\ Holds(c)
  <2>1. PICK c \in Clients : client' = c /\ c.at = a /\ c.token = client.token
    BY <1>1, <1>3, ClientGoes DEF Stations
  <2> QED BY <2>1 DEF Holds
<1>4. CASE StartRun
  <2>1. CASE client' = client /\ req' = req
    BY <1>1, <2>1, Proceeded DEF Proceeds
  <2>2. CASE client' = [client EXCEPT !.at = "issue"] /\ req' = req
    BY <1>2, <2>2 DEF GoesTo
  <2> QED BY <1>4, <2>1, <2>2 DEF StartRun
<1>5. CASE Recover
  <2>1. PICK a \in {"issue", "reveal"} : GoesTo(a) /\ req' = req
    BY <1>5 DEF Recover, RecoverAs, GoesTo
  <2> QED BY <1>2, <2>1
<1>6. CASE RequestTrial
  <2>1. client.at \in {"issue", "decide", "native", "complete"} /\ GoesTo("waiting") /\ Asks(client.at, client.token)
    BY <1>6 DEF RequestTrial, GoesTo, Asks
  <2>2. PICK o \in {"issue", "decide", "native", "complete"} : o = client.at
    BY <2>1
  <2>3. PICK k \in Keys \cup {NoKey} : k = client.token
    BY <1>1
  <2>4. Asks(o, k) /\ o \in Ops
    BY <2>1, <2>2, <2>3 DEF Ops
  <2>5. PICK r \in Served :
          req' = [req EXCEPT !["main"] = r] /\ r.op = o /\ r.pc = "arrive" /\ r.seen = NoDecision /\ r.key = k
    BY <1>1, <2>4, Arrives
  <2>6. PICK c \in Clients : client' = c /\ c.token = client.token /\ Holds(c)
    BY <1>3, <2>1
  <2>7. Fits(r)
    BY <1>1, <2>2, <2>3, <2>5 DEF Fits, Holds
  <2> QED BY <2>3, <2>5, <2>6, <2>7, SentFits DEF Sends
<1>7. CASE DispatchNative
  <2>1. CASE client' = [client EXCEPT !.at = "complete"]
    BY <1>2, <1>7, <2>1 DEF DispatchNative, GoesTo
  <2>2. CASE \E called \in BOOLEAN : client' = [client EXCEPT !.at = "failed", !.native = called]
    <3>1. PICK n \in BOOLEAN : FailsAs(n)
      BY <2>2 DEF FailsAs
    <3>2. PICK c \in Clients : client' = c /\ c.at = "failed" /\ c.token = client.token
      BY <1>1, <3>1, ClientFails
    <3>3. Holds(c) /\ req' = req
      BY <1>7, <3>2 DEF Holds, DispatchNative
    <3> QED BY <3>2, <3>3, Proceeded DEF Proceeds
  <2> QED BY <1>7, <2>1, <2>2 DEF DispatchNative
<1>8. CASE ReportFailure
  <2>1. GoesTo("waiting") /\ Reports(client.token, client.native)
    BY <1>8 DEF ReportFailure, RecoverAs, GoesTo, Reports
  <2>2. PICK k \in Keys \cup {NoKey}, n \in BOOLEAN : k = client.token /\ n = client.native
    BY <1>1
  <2>3. Reports(k, n) /\ "failure" \in Ops
    BY <2>1, <2>2 DEF Ops
  <2>4. PICK r \in Served :
          req' = [req EXCEPT !["main"] = r] /\ r.op = "failure" /\ r.pc = "arrive" /\ r.seen = NoDecision
    BY <1>1, <2>3, Arrives
  <2>5. PICK c \in Clients : client' = c /\ c.token = client.token /\ Holds(c)
    BY <1>3, <2>1
  <2>6. Fits(r)
    BY <2>4 DEF Fits
  <2> QED BY <2>4, <2>5, <2>6, SentFits DEF Sends
<1>9. CASE RequestReveal
  <2>1. GoesTo("waiting") /\ Requires("reveal") /\ "reveal" \in Ops
    BY <1>9 DEF RequestReveal, RecoverAs, GoesTo, Requires, Ops
  <2>2. PICK r \in Served :
          req' = [req EXCEPT !["main"] = r] /\ r.op = "reveal" /\ r.pc = "arrive" /\ r.seen = NoDecision
    BY <1>1, <2>1, Arrives
  <2>3. PICK c \in Clients : client' = c /\ c.token = client.token /\ Holds(c)
    BY <1>3, <2>1
  <2>4. Fits(r)
    BY <2>2 DEF Fits
  <2> QED BY <2>2, <2>3, <2>4, SentFits DEF Sends
<1>10. CASE RequestAck
  <2>1. PICK a \in {"acking", "ackingAgain"} : GoesTo(a)
    BY <1>10 DEF RequestAck, RecoverAs, GoesTo
  <2>2. PICK d \in Digests \cup {NoDigest} : d = client.digest
    BY <1>1
  <2>3. Approves(d) /\ "ack" \in Ops
    BY <1>10, <2>2 DEF RequestAck, Approves, Ops
  <2>4. PICK r \in Served :
          req' = [req EXCEPT !["main"] = r] /\ r.op = "ack" /\ r.pc = "arrive" /\ r.seen = NoDecision
    BY <1>1, <2>3, Arrives
  <2>5. PICK c \in Clients : client' = c /\ c.token = client.token /\ Holds(c)
    BY <1>3, <2>1
  <2>6. Fits(r)
    BY <2>4 DEF Fits
  <2> QED BY <2>4, <2>5, <2>6, SentFits DEF Sends
<1> QED BY <1>4, <1>5, <1>6, <1>7, <1>8, <1>9, <1>10 DEF Run

LEMMA FaultTalks ==
  ASSUME IInv, Moves,
         LoseReply \/ RestartRunner \/ LeaseEnds \/ DataExpires \/ (\E k \in Keys : GrantEnds(k))
         \/ (\E w \in Lines : RequestDies(w))
  PROVE  TalkOK
<1>1. req \in [Lines -> Served] /\ client \in Clients /\ Holds(client)
  BY DEF IInv, TypeOK, Requested, ClientFits
<1>2. CASE LoseReply
  <2>1. PICK c \in Clients : c = AfterError(req["main"].op) /\ Holds(c)'
    BY ErrorFits
  <2> QED BY <1>2, <2>1, ForsakesFits DEF LoseReply, Forsakes
<1>3. CASE RestartRunner
  <2>1. PICK c \in Clients :
          c = [at |-> "open", token |-> NoKey, native |-> FALSE, digest |-> NoDigest] /\ c.at = "open"
    <3> DEFINE c == [at |-> "open", token |-> NoKey, native |-> FALSE, digest |-> NoDigest]
    <3>1. c \in Clients /\ c.at = "open"
      BY DEF Clients, Stations
    <3> QED BY <3>1
  <2>2. Holds(c)'
    BY <2>1 DEF Holds
  <2> QED BY <1>3, <2>1, <2>2, ForsakesFits DEF RestartRunner, Forsakes
<1>4. CASE LeaseEnds \/ DataExpires \/ \E k \in Keys : GrantEnds(k)
  <2>1. req' = req /\ client' = client
    BY <1>4 DEF LeaseEnds, DataExpires, GrantEnds
  <2> QED BY <1>1, <2>1, Proceeded DEF Proceeds
<1>5. CASE \E w \in Lines : RequestDies(w)
  <2>1. PICK w \in Lines : Answer(w, AfterError(req[w].op))
    BY <1>5 DEF RequestDies
  <2>2. PICK c \in Clients : c = AfterError(req[w].op) /\ Holds(c)'
    BY ErrorFits
  <2> QED BY <2>1, <2>2, AnswerFits
<1> QED BY <1>2, <1>3, <1>4, <1>5

\* No step leaves a request or the runner relying on what is not so.
LEMMA TalkStep == IInv /\ [Next]_vars => TalkOK
<1> SUFFICES ASSUME IInv, [Next]_vars PROVE TalkOK
  OBVIOUS
<1>1. Moves
  BY AllMoves
<1>2. CASE UNCHANGED vars
  <2>1. req' = req /\ client' = client /\ client \in Clients /\ Holds(client)
    BY <1>2 DEF vars, IInv, TypeOK, Requested, ClientFits
  <2> QED BY <1>1, <2>1, Proceeded DEF Proceeds
<1> QED BY <1>1, <1>2, RunTalks, ServeTalks, FaultTalks DEF Next

-----------------------------------------------------------------------------
(* The rest of the types. *)

\* The lease is taken by a request or lost, a grant goes stale, a fault is counted.
Rest == UNCHANGED <<leased, stale, faults>>
LEMMA ServeRest ==
  ASSUME NEW w, Serve(w)
  PROVE  (leased' = leased \/ leased' = (leased \/ Running)) /\ stale' = stale /\ faults' = faults
<1> USE DEF server, ledger, store
<1>1. Refuse(w) => Rest
  BY DEF Refuse, Rest
<1>2. CASE Authenticate(w)
  BY <1>1, <1>2 DEF Authenticate, Rest
<1>3. (KeepIssue(w) => Rest) /\ (IssueGrant(w) => Rest) /\ (RecallDecision(w) => Rest) /\ (LookBeforeCall(w) => Rest) /\ (BeginCall(w) => Rest)
  <2>1. KeepIssue(w) => Rest
    BY <1>1 DEF KeepIssue, Rest
  <2>2. IssueGrant(w) => Rest
    BY <1>1 DEF IssueGrant, Rest
  <2>3. RecallDecision(w) => Rest
    BY <1>1 DEF RecallDecision, Rest
  <2>4. LookBeforeCall(w) => Rest
    BY <1>1 DEF LookBeforeCall, Rest
  <2>5. BeginCall(w) => Rest
    BY <1>1 DEF BeginCall, Rest
  <2> QED BY <2>1, <2>2, <2>3, <2>4, <2>5
<1>4. (ProviderAnswers(w) => Rest) /\ (KeepDecision(w) => Rest) /\ (SettleDecision(w) => Rest) /\ (RecordDoubt(w) => Rest) /\ (QuarantineDoubt(w) => Rest)
  <2>1. ProviderAnswers(w) => Rest
    BY <1>1 DEF ProviderAnswers, Rest
  <2>2. KeepDecision(w) => Rest
    BY <1>1 DEF KeepDecision, Rest
  <2>3. SettleDecision(w) => Rest
    BY <1>1 DEF SettleDecision, Rest
  <2>4. RecordDoubt(w) => Rest
    BY <1>1 DEF RecordDoubt, Rest
  <2>5. QuarantineDoubt(w) => Rest
    BY <1>1 DEF QuarantineDoubt, Rest
  <2> QED BY <2>1, <2>2, <2>3, <2>4, <2>5
<1>5. (RecallForNative(w) => Rest) /\ (KeepNative(w) => Rest) /\ (RecallForRow(w) => Rest) /\ (RecordRow(w) => Rest) /\ (KeepCompletion(w) => Rest)
  <2>1. RecallForNative(w) => Rest
    BY <1>1 DEF RecallForNative, Rest
  <2>2. KeepNative(w) => Rest
    BY <1>1 DEF KeepNative, Rest
  <2>3. RecallForRow(w) => Rest
    BY <1>1 DEF RecallForRow, Rest
  <2>4. RecordRow(w) => Rest
    BY <1>1 DEF RecordRow, Rest
  <2>5. KeepCompletion(w) => Rest
    BY <1>1 DEF KeepCompletion, Rest
  <2> QED BY <2>1, <2>2, <2>3, <2>4, <2>5
<1>6. (RecallForFailure(w) => Rest) /\ (LookAtGrant(w) => Rest) /\ (RecordFailure(w) => Rest) /\ (QuarantineFailure(w) => Rest)
  <2>1. RecallForFailure(w) => Rest
    BY <1>1 DEF RecallForFailure, Rest
  <2>2. LookAtGrant(w) => Rest
    BY <1>1 DEF LookAtGrant, Rest
  <2>3. RecordFailure(w) => Rest
    BY <1>1 DEF RecordFailure, Rest
  <2>4. QuarantineFailure(w) => Rest
    BY <1>1 DEF QuarantineFailure, Rest
  <2> QED BY <2>1, <2>2, <2>3, <2>4
<1>7. (Reconcile(w) => Rest) /\ (ReadGuardAgain(w) => Rest) /\ (Bind(w) => Rest) /\ (Seal(w) => Rest) /\ (Unlink(w) => Rest) /\ (Acknowledge(w) => Rest)
  <2>1. Reconcile(w) => Rest
    BY <1>1 DEF Reconcile, Rest
  <2>2. ReadGuardAgain(w) => Rest
    BY <1>1 DEF ReadGuardAgain, Rest
  <2>3. Bind(w) => Rest
    BY <1>1 DEF Bind, Rest
  <2>4. Seal(w) => Rest
    BY <1>1 DEF Seal, Rest
  <2>5. Unlink(w) => Rest
    BY <1>1 DEF Unlink, Rest
  <2>6. Acknowledge(w) => Rest
    BY <1>1 DEF Acknowledge, Rest
  <2> QED BY <2>1, <2>2, <2>3, <2>4, <2>5, <2>6
<1> QED BY <1>2, <1>3, <1>4, <1>5, <1>6, <1>7 DEF Serve, Rest

\* In every step the lease, the stale grants and the faults move in these ways only.
LEMMA RestStep ==
  ASSUME [Next]_vars
  PROVE  /\ leased' = leased \/ leased' = TRUE \/ leased' = FALSE \/ leased' = (leased \/ Running)
         /\ stale' = stale \/ \E k \in Keys : stale' = stale \cup {k}
         /\ faults' = faults \/ Lost \/ Stop
<1> USE DEF server, ledger, store
<1>1. CASE UNCHANGED vars
  BY <1>1 DEF vars
<1>2. CASE StartRun
  BY <1>2 DEF StartRun
<1>3. CASE Recover \/ ReportFailure \/ RequestReveal \/ RequestAck
  BY <1>3 DEF Recover, ReportFailure, RequestReveal, RequestAck, RecoverAs
<1>4. CASE RequestTrial \/ DispatchNative
  BY <1>4 DEF RequestTrial, DispatchNative
<1>5. CASE LoseReply \/ RestartRunner \/ LeaseEnds \/ DataExpires
  BY <1>5 DEF LoseReply, RestartRunner, LeaseEnds, DataExpires
<1>6. CASE \E k \in Keys : GrantEnds(k)
  BY <1>6 DEF GrantEnds
<1>7. CASE \E w \in Lines : RequestDies(w)
  BY <1>7 DEF RequestDies
<1> QED BY <1>1, <1>2, <1>3, <1>4, <1>5, <1>6, <1>7, ServeRest DEF Next, Run

\* The types, and with them the whole invariant, survive every step.
LEMMA TypeStep == IInv /\ [Next]_vars => TypeOK'
<1> SUFFICES ASSUME IInv, [Next]_vars PROVE TypeOK'
  OBVIOUS
<1>1. Moves /\ TalkOK /\ TypeOK
  BY AllMoves, TalkStep DEF IInv
<1>2. leased' \in BOOLEAN
  <2>1. leased \in BOOLEAN
    BY <1>1 DEF TypeOK
  <2> QED BY <2>1, RestStep
<1>3. stale' \subseteq Keys
  BY <1>1, RestStep DEF TypeOK
<1>4. faults' \in [lost : Nat, stops : Nat]
  <2>1. faults \in [lost : Nat, stops : Nat] /\ faults.lost + 1 \in Nat /\ faults.stops + 1 \in Nat
    BY <1>1 DEF TypeOK
  <2>2. faults' = faults \/ faults' = [faults EXCEPT !.lost = @ + 1] \/ faults' = [faults EXCEPT !.stops = @ + 1]
    BY RestStep DEF Lost, Stop
  <2> QED BY <2>1, <2>2
<1> QED BY <1>1, <1>2, <1>3, <1>4, StoreTypes DEF TypeOK, TalkOK

LEMMA StepInvariant == IInv /\ [Next]_vars => IInv'
<1> SUFFICES ASSUME IInv, [Next]_vars PROVE IInv'
  OBVIOUS
<1>1. Moves
  BY AllMoves
<1>2. TypeOK'
  BY TypeStep
<1>3. Shape' /\ Counted' /\ RowsFit'
  BY <1>1, ShapeStep, CountedStep, RowsFitStep
<1>4. Ends' /\ EvidenceIsTheLog' /\ Charged'
  BY <1>1, EndsStep, ChargedStep
<1>5. Requested'
  BY TalkStep DEF TalkOK
<1> QED BY <1>2, <1>3, <1>4, <1>5 DEF IInv

-----------------------------------------------------------------------------
(* Who writes a row that denies a call, and who begins a call that a row denies. *)

\* A row that knows of no call is written by a failure report that looked before.
LEMMA Deniers ==
  ASSUME IInv, Next, NEW k \in Keys, anchor.rows[k] = NoRow, anchor'.rows[k] # NoRow,
         ~anchor'.rows[k].inferred
  PROVE  LookedBefore(k) /\ \E w \in Lines : RecordFailure(w) /\ req[w].key = k /\ ~req[w].row.inferred
<1> USE DEF server, ledger, store
<1>1. anchor \in Anchors /\ anchor.rows \in Logs /\ evidence \in Evidences /\ \A w \in Lines : Fits(req[w])
  BY DEF IInv, TypeOK, Anchors, Requested
<1>2. ASSUME NEW j \in Keys, NEW row \in Rows, RecordAttempt(j, row) PROVE anchor'.rows = [anchor.rows EXCEPT ![j] = row]
  BY <1>1, <1>2 DEF RecordAttempt, Advanced, Anchors
<1>3. ASSUME NEW j \in Keys, NEW row \in Rows, RecordAttempt(j, row) PROVE j = k /\ ~row.inferred
  <2>1. anchor'.rows = [anchor.rows EXCEPT ![j] = row]
    BY <1>2, <1>3
  <2> QED BY <1>1, <2>1 DEF Logs
<1>4. anchor'.rows # anchor.rows
  OBVIOUS
<1>5. PICK w \in Lines : Serve(w)
  <2>1. ~StartRun
    BY <1>1, <1>4 DEF StartRun, Anchors
  <2>2. ~Recover /\ ~RequestTrial /\ ~DispatchNative /\ ~ReportFailure /\ ~RequestReveal /\ ~RequestAck
    BY <1>4 DEF Recover, RequestTrial, DispatchNative, ReportFailure, RequestReveal, RequestAck, RecoverAs
  <2>3. ~LoseReply /\ ~RestartRunner /\ ~LeaseEnds /\ ~DataExpires /\ ~(\E j \in Keys : GrantEnds(j))
        /\ ~(\E w \in Lines : RequestDies(w))
    BY <1>4 DEF LoseReply, RestartRunner, LeaseEnds, DataExpires, GrantEnds, RequestDies
  <2> QED BY <2>1, <2>2, <2>3 DEF Next, Run
<1>6. ~Refuse(w)
  BY <1>4 DEF Refuse
<1>7. RecordDoubt(w) \/ RecordRow(w) \/ RecordFailure(w)
  <2>1. ~Authenticate(w) /\ ~KeepIssue(w) /\ ~IssueGrant(w) /\ ~RecallDecision(w) /\ ~LookBeforeCall(w) /\ ~BeginCall(w)
    BY <1>4, <1>6 DEF Authenticate, KeepIssue, IssueGrant, RecallDecision, LookBeforeCall, BeginCall
  <2>2. ~ProviderAnswers(w) /\ ~KeepDecision(w) /\ ~SettleDecision(w) /\ ~QuarantineDoubt(w) /\ ~RecallForNative(w)
    BY <1>4, <1>6 DEF ProviderAnswers, KeepDecision, SettleDecision, QuarantineDoubt, RecallForNative
  <2>3. ~KeepNative(w) /\ ~RecallForRow(w) /\ ~KeepCompletion(w) /\ ~RecallForFailure(w) /\ ~LookAtGrant(w)
    BY <1>4, <1>6 DEF KeepNative, RecallForRow, KeepCompletion, RecallForFailure, LookAtGrant
  <2>4. ~QuarantineFailure(w) /\ ~Reconcile(w) /\ ~ReadGuardAgain(w) /\ ~Bind(w) /\ ~Unlink(w)
    BY <1>4, <1>6 DEF QuarantineFailure, Reconcile, ReadGuardAgain, Bind, Unlink
  <2>5. ~Seal(w)
    BY <1>1, <1>4, <1>6 DEF Seal, Anchors
  <2>6. ~Acknowledge(w)
    BY <1>1, <1>4, <1>6 DEF Acknowledge, Anchors
  <2> QED BY <1>5, <2>1, <2>2, <2>3, <2>4, <2>5, <2>6 DEF Serve
<1>8. ~RecordDoubt(w)
  <2> SUFFICES ASSUME RecordDoubt(w) PROVE FALSE
    OBVIOUS
  <2>1. req[w].key \in Keys /\ req[w].key \in Dispatched
    BY <1>1 DEF RecordDoubt, At, Fits
  <2>2. RecordAttempt(req[w].key, UncertainRow)
    BY <1>6 DEF RecordDoubt
  <2> QED BY <1>3, <2>1, <2>2, UncertainRowFits
<1>9. ~RecordRow(w)
  <2> SUFFICES ASSUME RecordRow(w) PROVE FALSE
    OBVIOUS
  <2>1. req[w].key \in Keys /\ req[w].row \in Rows /\ req[w].row.inferred
    BY <1>1 DEF RecordRow, At, Fits
  <2>2. RecordAttempt(req[w].key, req[w].row)
    BY <1>6 DEF RecordRow
  <2> QED BY <1>3, <2>1, <2>2
<1>10. RecordFailure(w)
  BY <1>7, <1>8, <1>9
<1>11. At(w, "failure", "record") /\ req[w].key \in Keys /\ req[w].row \in Rows
       /\ (req[w].row.inferred <=> req[w].seen \in {"IN_FLIGHT", "KNOWN", "UNCERTAIN"})
  BY <1>1, <1>10 DEF RecordFailure, At, Fits
<1>12. RecordAttempt(req[w].key, req[w].row)
  BY <1>6, <1>10 DEF RecordFailure
<1>13. req[w].key = k /\ ~req[w].row.inferred
  BY <1>3, <1>11, <1>12
<1> QED BY <1>10, <1>11, <1>13 DEF LookedBefore

\* A grant that becomes a call does so in a request that begins it.
LEMMA Beginners ==
  ASSUME IInv, Next, NEW k \in Keys, k \notin Dispatched, k \in Dispatched'
  PROVE  \E w \in Lines : BeginCall(w) /\ ~Refuse(w) /\ req[w].key = k /\ grant[k] = "ISSUED" /\ UNCHANGED anchor
<1> USE DEF server, ledger, store
<1>1. grant \in [Keys -> Grants] /\ \A w \in Lines : Fits(req[w])
  BY DEF IInv, TypeOK, Requested
<1>2. grant'[k] # grant[k] /\ grant[k] \notin {"IN_FLIGHT", "KNOWN", "UNCERTAIN"}
      /\ grant'[k] \in {"IN_FLIGHT", "KNOWN", "UNCERTAIN"}
  BY DEF Dispatched
<1>3. PICK w \in Lines : Serve(w)
  <2>1. ~StartRun
    BY <1>2 DEF StartRun
  <2>2. ~Recover /\ ~RequestTrial /\ ~DispatchNative /\ ~ReportFailure /\ ~RequestReveal /\ ~RequestAck
    BY <1>2 DEF Recover, RequestTrial, DispatchNative, ReportFailure, RequestReveal, RequestAck, RecoverAs
  <2>3. ~LoseReply /\ ~RestartRunner /\ ~LeaseEnds /\ ~DataExpires /\ ~(\E j \in Keys : GrantEnds(j))
        /\ ~(\E w \in Lines : RequestDies(w))
    BY <1>2 DEF LoseReply, RestartRunner, LeaseEnds, DataExpires, GrantEnds, RequestDies
  <2> QED BY <2>1, <2>2, <2>3 DEF Next, Run
<1>4. ~Refuse(w)
  BY <1>2 DEF Refuse
<1>5. ASSUME NEW j, SettleUncertain(j) PROVE FALSE
  BY <1>1, <1>2, <1>5 DEF SettleUncertain
<1>6. BeginCall(w)
  <2>1. ~Authenticate(w) /\ ~KeepIssue(w) /\ ~RecallDecision(w) /\ ~LookBeforeCall(w) /\ ~ProviderAnswers(w) /\ ~KeepDecision(w)
    BY <1>2, <1>4 DEF Authenticate, KeepIssue, RecallDecision, LookBeforeCall, ProviderAnswers, KeepDecision
  <2>2. ~IssueGrant(w)
    BY <1>1, <1>2, <1>4 DEF IssueGrant
  <2>3. ~SettleDecision(w)
    <3> SUFFICES ASSUME SettleDecision(w) PROVE FALSE
      OBVIOUS
    <3>1. req[w].key \in Dispatched /\ grant' = [grant EXCEPT ![req[w].key] = "KNOWN"]
      BY <1>1 DEF SettleDecision, At, Fits
    <3> QED BY <1>1, <1>2, <3>1 DEF Dispatched
  <2>4. ~QuarantineDoubt(w) /\ ~QuarantineFailure(w)
    BY <1>5 DEF QuarantineDoubt, QuarantineFailure
  <2>5. ~Reconcile(w)
    BY <1>2, <1>5 DEF Reconcile
  <2>6. ~RecordDoubt(w) /\ ~RecallForNative(w) /\ ~KeepNative(w) /\ ~RecallForRow(w) /\ ~RecordRow(w) /\ ~KeepCompletion(w)
    BY <1>2, <1>4 DEF RecordDoubt, RecallForNative, KeepNative, RecallForRow, RecordRow, KeepCompletion
  <2>7. ~RecallForFailure(w) /\ ~LookAtGrant(w) /\ ~RecordFailure(w)
    BY <1>2, <1>4 DEF RecallForFailure, LookAtGrant, RecordFailure
  <2>8. ~ReadGuardAgain(w) /\ ~Bind(w) /\ ~Seal(w) /\ ~Unlink(w) /\ ~Acknowledge(w)
    BY <1>2, <1>4 DEF ReadGuardAgain, Bind, Seal, Unlink, Acknowledge
  <2> QED BY <1>3, <2>1, <2>2, <2>3, <2>4, <2>5, <2>6, <2>7, <2>8 DEF Serve
<1>7. req[w].key = k /\ grant[k] = "ISSUED" /\ UNCHANGED anchor
  BY <1>1, <1>2, <1>4, <1>6 DEF BeginCall
<1> QED BY <1>4, <1>6, <1>7

-----------------------------------------------------------------------------
(* A run without faults.  The runner waits for every request, so nobody runs beside it. *)

\* Without faults no request was given up on, and the one served speaks of the attempt
\* the run is at, or of the call as it still is.
Speaks(r) ==
  /\ r.op = "decide" /\ r.pc \in {"recall", "look", "begin"} => Running /\ r.key = Current
  /\ r.op = "failure" /\ r.pc = "record" => (r.row.inferred <=> r.key \in Dispatched)
Alone ==
  faults.lost + faults.stops = 0 => req["orphan"] = Idle /\ Speaks(req["main"])

\* What a request does to itself at each await, when it is not one Speaks tells of.
Apart(w) ==
  /\ req'[w].op = "decide" => req'[w].pc \notin {"recall", "look", "begin"}
  /\ req'[w].op = "failure" => req'[w].pc # "record"

\* A request moves no other.
LEMMA OneServed ==
  ASSUME req \in [Lines -> Served], NEW w \in Lines, Serve(w)
  PROVE  \A v \in Lines : v # w => req'[v] = req[v]
<1> USE DEF Answer, Goto
<1>1. Refuse(w) => \A v \in Lines : v # w => req'[v] = req[v]
  BY DEF Refuse
<1>2. CASE Authenticate(w)
  BY <1>1, <1>2 DEF Authenticate
<1>3. CASE KeepIssue(w) \/ IssueGrant(w) \/ RecallDecision(w) \/ LookBeforeCall(w) \/ BeginCall(w)
  BY <1>1, <1>3 DEF KeepIssue, IssueGrant, RecallDecision, LookBeforeCall, BeginCall
<1>4. CASE ProviderAnswers(w) \/ KeepDecision(w) \/ SettleDecision(w) \/ RecordDoubt(w) \/ QuarantineDoubt(w)
  BY <1>1, <1>4 DEF ProviderAnswers, KeepDecision, SettleDecision, RecordDoubt, QuarantineDoubt
<1>5. CASE RecallForNative(w) \/ KeepNative(w) \/ RecallForRow(w) \/ RecordRow(w) \/ KeepCompletion(w)
  BY <1>1, <1>5 DEF RecallForNative, KeepNative, RecallForRow, RecordRow, KeepCompletion
<1>6. CASE RecallForFailure(w) \/ LookAtGrant(w) \/ RecordFailure(w) \/ QuarantineFailure(w)
  BY <1>1, <1>6 DEF RecallForFailure, LookAtGrant, RecordFailure, QuarantineFailure
<1>7. CASE Reconcile(w) \/ ReadGuardAgain(w) \/ Bind(w)
  BY <1>1, <1>7 DEF Reconcile, ReadGuardAgain, Bind
<1>8. CASE Seal(w) \/ Unlink(w) \/ Acknowledge(w)
  BY <1>1, <1>8 DEF Seal, Unlink, Acknowledge
<1> QED BY <1>2, <1>3, <1>4, <1>5, <1>6, <1>7, <1>8 DEF Serve

\* Only four awaits lead to one that Speaks tells of.
LEMMA OthersApart ==
  ASSUME req \in [Lines -> Served], NEW w \in Lines, Serve(w)
  PROVE  Apart(w) \/ Authenticate(w) \/ RecallDecision(w) \/ LookBeforeCall(w) \/ LookAtGrant(w)
<1>1. ASSUME NEW c, Answer(w, c) PROVE Apart(w)
  BY <1>1 DEF Answer, Apart, Idle
<1>2. Refuse(w) => Apart(w)
  BY <1>1 DEF Refuse
<1>3. ASSUME NEW p, Goto(w, p) PROVE req'[w].op = req[w].op /\ req'[w].pc = p
  BY <1>3 DEF Goto, Served
<1>4. ASSUME NEW o, NEW a, NEW p, At(w, o, a), Goto(w, p), o # "decide" \/ p \notin {"recall", "look", "begin"},
             o # "failure" \/ p # "record"
      PROVE  Apart(w)
  BY <1>3, <1>4 DEF At, Apart
<1>5. CASE KeepIssue(w) \/ IssueGrant(w) \/ BeginCall(w)
  BY <1>1, <1>2, <1>4, <1>5 DEF KeepIssue, IssueGrant, BeginCall
<1>6. CASE ProviderAnswers(w)
  <2>1. CASE Goto(w, "doubt")
    BY <1>4, <1>6, <2>1 DEF ProviderAnswers
  <2>2. CASE \E d \in Decisions : req' = [req EXCEPT ![w].pc = "keep", ![w].seen = d]
    <3>1. req'[w].pc = "keep" /\ req'[w].op = req[w].op
      BY <2>2 DEF Served
    <3> QED BY <1>6, <3>1 DEF ProviderAnswers, At, Apart
  <2> QED BY <1>6, <2>1, <2>2 DEF ProviderAnswers
<1>7. CASE KeepDecision(w) \/ SettleDecision(w)
  BY <1>1, <1>4, <1>7 DEF KeepDecision, SettleDecision
<1>8. CASE RecordDoubt(w) \/ QuarantineDoubt(w)
  BY <1>1, <1>2, <1>4, <1>8 DEF RecordDoubt, QuarantineDoubt
<1>9. CASE RecallForNative(w) \/ KeepNative(w)
  BY <1>1, <1>2, <1>4, <1>9 DEF RecallForNative, KeepNative
<1>10. CASE RecallForRow(w)
  <2>1. req[w].op = "complete" /\ (Refuse(w) \/ \E row : req' = [req EXCEPT ![w].pc = "record", ![w].row = row])
    BY <1>10 DEF RecallForRow, At
  <2>2. ASSUME NEW row, req' = [req EXCEPT ![w].pc = "record", ![w].row = row] PROVE req'[w].op = req[w].op
    BY <2>2 DEF Served
  <2> QED BY <1>2, <2>1, <2>2 DEF Apart
<1>11. CASE RecordRow(w) \/ KeepCompletion(w)
  BY <1>1, <1>2, <1>4, <1>11 DEF RecordRow, KeepCompletion
<1>12. CASE RecallForFailure(w)
  <2>1. req[w].op = "failure" /\ \E d, b : req' = [req EXCEPT ![w].pc = "look", ![w].seen = d, ![w].admitted = b]
    BY <1>12 DEF RecallForFailure, At
  <2>2. req'[w].op = "failure" /\ req'[w].pc = "look"
    BY <2>1 DEF Served
  <2> QED BY <2>2 DEF Apart
<1>13. CASE RecordFailure(w) \/ QuarantineFailure(w)
  BY <1>1, <1>2, <1>4, <1>13 DEF RecordFailure, QuarantineFailure
<1>14. CASE Reconcile(w) \/ Bind(w) \/ Unlink(w)
  <2>1. req[w].pc \in {"reconcile", "bind", "unlink"}
    BY <1>14 DEF Reconcile, Bind, Unlink
  <2>2. Refuse(w) \/ UNCHANGED req \/ \E p \in {"guard", "seal", "ack"} : Goto(w, p)
    BY <1>14 DEF Reconcile, Bind, Unlink
  <2> QED BY <1>2, <1>3, <2>1, <2>2 DEF Apart
<1>15. CASE ReadGuardAgain(w)
  <2>1. Refuse(w) \/ \E p, c, d : p \in {"unlink", "bind"} /\ Counts(w, p, c, d)
    <3> DEFINE p == IF req[w].op = "ack" THEN "unlink" ELSE "bind"
               c == InFlight = {}
               d == IF req[w].op = "ack" THEN req[w].digest
                    ELSE [rows |-> anchor.rows, calls |-> Cardinality(Dispatched), known |-> Cardinality(Settled)]
    <3>1. Refuse(w) \/ Counts(w, p, c, d)
      BY <1>15 DEF ReadGuardAgain, Counts
    <3>2. p \in {"unlink", "bind"}
      OBVIOUS
    <3> HIDE DEF p, c, d
    <3> QED BY <3>1, <3>2
  <2>2. ASSUME NEW p, NEW c, NEW d, Counts(w, p, c, d) PROVE req'[w].pc = p
    BY <2>2 DEF Counts, Served
  <2> QED BY <1>2, <2>1, <2>2 DEF Apart
<1>16. CASE Seal(w) \/ Acknowledge(w)
  BY <1>1, <1>2, <1>16 DEF Seal, Acknowledge
<1> QED
  BY <1>5, <1>6, <1>7, <1>8, <1>9, <1>10, <1>11, <1>12, <1>13, <1>14, <1>15, <1>16 DEF Serve

\* A request that is not there is not served.
LEMMA IdleRests == ASSUME NEW w, Serve(w) PROVE req[w] # Idle
<1> SUFFICES ASSUME req[w] = Idle PROVE FALSE
  OBVIOUS
<1>1. req[w].op = "idle" /\ req[w].pc = "idle"
  BY DEF Idle
<1> USE <1>1 DEF At
<1>2. ~Authenticate(w) /\ ~KeepIssue(w) /\ ~IssueGrant(w) /\ ~RecallDecision(w) /\ ~LookBeforeCall(w) /\ ~BeginCall(w)
  BY DEF Authenticate, KeepIssue, IssueGrant, RecallDecision, LookBeforeCall, BeginCall
<1>3. ~ProviderAnswers(w) /\ ~KeepDecision(w) /\ ~SettleDecision(w) /\ ~RecordDoubt(w) /\ ~QuarantineDoubt(w)
  BY DEF ProviderAnswers, KeepDecision, SettleDecision, RecordDoubt, QuarantineDoubt
<1>4. ~RecallForNative(w) /\ ~KeepNative(w) /\ ~RecallForRow(w) /\ ~RecordRow(w) /\ ~KeepCompletion(w)
  BY DEF RecallForNative, KeepNative, RecallForRow, RecordRow, KeepCompletion
<1>5. ~RecallForFailure(w) /\ ~LookAtGrant(w) /\ ~RecordFailure(w) /\ ~QuarantineFailure(w) /\ ~Reconcile(w)
  BY DEF RecallForFailure, LookAtGrant, RecordFailure, QuarantineFailure, Reconcile
<1>6. ~ReadGuardAgain(w) /\ ~Bind(w) /\ ~Seal(w) /\ ~Unlink(w) /\ ~Acknowledge(w)
  BY DEF ReadGuardAgain, Bind, Seal, Unlink, Acknowledge
<1> QED BY <1>2, <1>3, <1>4, <1>5, <1>6 DEF Serve

\* Without faults only the request the runner waits for is served, and it goes on speaking
\* of the attempt the run is at.
LEMMA AloneServes ==
  ASSUME IInv, Alone, faults.lost + faults.stops = 0, NEW w \in Lines, Serve(w)
  PROVE  w = "main" /\ Alone'
<1> USE DEF server, ledger, store
<1>1. req \in [Lines -> Served] /\ Fits(req["main"]) /\ req["orphan"] = Idle /\ Speaks(req["main"])
      /\ anchor \in Anchors
  BY DEF IInv, TypeOK, Requested, Alone, Lines
<1>2. w = "main"
  BY <1>1, IdleRests DEF Lines
<1>3. req'["orphan"] = Idle
  BY <1>1, <1>2, OneServed DEF Lines
<1>4. CASE Apart(w)
  <2>1. Speaks(req["main"])'
    BY <1>2, <1>4 DEF Speaks, Apart
  <2> QED BY <1>2, <1>3, <2>1 DEF Alone
<1>5. ASSUME NEW c, Answer(w, c) PROVE Alone'
  <2>1. req'["main"] = Idle
    BY <1>1, <1>2, <1>5 DEF Answer, Lines
  <2> QED BY <1>3, <2>1 DEF Alone, Speaks, Idle
<1>6. CASE Authenticate(w)
  <2>1. CASE Refuse(w) \/ Answer(w, Onward)
    BY <1>2, <1>5, <2>1 DEF Refuse
  <2>2. CASE /\ Admits(Mode(req[w].op)) /\ TokenFits(w)
             /\ req' = [req EXCEPT ![w].pc = FirstAwait(w), ![w].clean = (InFlight = {}),
                         ![w].key = IF req[w].op \in {"issue", "failure"} THEN Current ELSE @]
    <3>1. anchor' = anchor /\ req[w].pc = "arrive"
      BY <1>6 DEF Authenticate, Refuse
    <3>2. /\ req'["main"].op = req["main"].op /\ req'["main"].pc = FirstAwait("main")
          /\ (req["main"].op = "decide" => req'["main"].key = req["main"].key)
      <4>1. PICK c, k : /\ req' = [req EXCEPT !["main"].pc = FirstAwait("main"), !["main"].clean = c, !["main"].key = k]
                        /\ (req["main"].op = "decide" => k = req["main"].key)
        BY <1>2, <2>2, Zenon
      <4> HIDE DEF FirstAwait
      <4> QED BY <1>1, <4>1 DEF Served, Lines
    <3>3. req["main"].op = "failure" => FirstAwait("main") # "record"
      BY DEF FirstAwait
    <3>4. req["main"].op = "decide" => Running /\ req["main"].key = Current
      <4> SUFFICES ASSUME req["main"].op = "decide" PROVE Running /\ req["main"].key = Current
        OBVIOUS
      <4>1. Running
        BY <1>2, <2>2 DEF Admits, Mode
      <4>2. req["main"].key \in Keys
        BY <1>1 DEF Fits
      <4>3. req["main"].key # NoKey
        BY <4>2, NullAssumption
      <4> QED BY <1>2, <2>2, <4>1, <4>3 DEF TokenFits
    <3>5. (Running /\ req["main"].key = Current) => (Running' /\ req["main"].key = Current')
      BY <3>1 DEF Running, Current
    <3>6. Speaks(req["main"])'
      BY <3>2, <3>3, <3>4, <3>5 DEF Speaks
    <3> QED BY <1>2, <1>3, <3>6 DEF Alone
  <2> QED BY <1>2, <1>6, <2>1, <2>2 DEF Authenticate
<1>7. CASE RecallDecision(w) \/ LookBeforeCall(w)
  <2>1. req["main"].op = "decide" /\ req["main"].pc \in {"recall", "look"}
    BY <1>2, <1>7 DEF RecallDecision, LookBeforeCall, At
  <2>2. Running /\ req["main"].key = Current
    BY <1>1, <2>1 DEF Speaks
  <2>3. anchor' = anchor
    BY <1>7 DEF RecallDecision, LookBeforeCall, Refuse
  <2>4. CASE req'["main"].op = "decide" /\ req'["main"].key = req["main"].key
    <3>1. Speaks(req["main"])'
      BY <2>2, <2>3, <2>4 DEF Speaks, Running, Current
    <3> QED BY <1>2, <1>3, <3>1 DEF Alone
  <2>5. Refuse(w) \/ (req'["main"].op = "decide" /\ req'["main"].key = req["main"].key)
    <3>1. Refuse(w) \/ (\E p : Goto(w, p)) \/ \E p, d : Sees(w, p, d)
      BY <1>7 DEF RecallDecision, LookBeforeCall, Sees
    <3>2. ASSUME NEW p, Goto(w, p) PROVE req'["main"].op = req["main"].op /\ req'["main"].key = req["main"].key
      BY <1>1, <1>2, <3>2 DEF Goto, Served, Lines
    <3>3. ASSUME NEW p, NEW d, Sees(w, p, d) PROVE req'["main"].op = req["main"].op /\ req'["main"].key = req["main"].key
      BY <1>1, <1>2, <3>3 DEF Sees, Served, Lines
    <3> QED BY <2>1, <3>1, <3>2, <3>3
  <2> QED BY <1>2, <1>5, <2>4, <2>5 DEF Refuse
<1>8. CASE LookAtGrant(w)
  <2> DEFINE k == req["main"].key
             row == FailureRow(k, grant[k], req["main"].seen # NoDecision, req["main"].admitted, req["main"].native)
  <2>1. k \in Keys /\ req["main"].op = "failure" /\ grant' = grant
    BY <1>1, <1>2, <1>8 DEF LookAtGrant, At, Fits
  <2>2. row.inferred = (grant[k] \in {"IN_FLIGHT", "KNOWN", "UNCERTAIN"})
    BY DEF FailureRow
  <2>3. req'["main"].op = "failure" /\ req'["main"].key = k /\ req'["main"].row = row
    <3> HIDE DEF row
    <3>1. req' = [req EXCEPT !["main"].pc = "record", !["main"].row = row, !["main"].seen = grant[k]]
      BY <1>2, <1>8 DEF LookAtGrant, row
    <3> QED BY <1>1, <2>1, <3>1 DEF Served, Lines
  <2>4. k \in Dispatched' <=> grant[k] \in {"IN_FLIGHT", "KNOWN", "UNCERTAIN"}
    BY <2>1 DEF Dispatched
  <2> HIDE DEF row
  <2>5. row.inferred <=> k \in Dispatched'
    BY <2>2, <2>4
  <2>6. Speaks(req["main"])'
    BY <2>3, <2>5 DEF Speaks
  <2> QED BY <1>2, <1>3, <2>6 DEF Alone
<1> QED BY <1>1, <1>2, <1>4, <1>6, <1>7, <1>8, OthersApart

\* The runner's own steps leave it so.
LEMMA AloneRuns ==
  ASSUME IInv, Alone, faults.lost + faults.stops = 0, Run, faults' = faults
  PROVE  Alone'
<1> USE DEF server, ledger, store
<1>1. req \in [Lines -> Served] /\ req["orphan"] = Idle /\ Speaks(req["main"]) /\ anchor \in Anchors
  BY DEF IInv, TypeOK, Alone
<1>2. CASE UNCHANGED <<req, anchor, grant>>
  BY <1>1, <1>2 DEF Alone, Speaks, Running, Current, Dispatched
<1>3. ASSUME NEW r, r.pc = "arrive", Send(r) PROVE Alone'
  <2>1. req'["main"] = r /\ req'["orphan"] = Idle
    BY <1>1, <1>3 DEF Send, Lines
  <2> QED BY <1>3, <2>1 DEF Alone, Speaks
<1>4. CASE StartRun
  <2>1. CASE anchor.status = "missing"
    <3>1. ~Running
      BY <2>1 DEF Running
    <3>2. req' = req /\ grant' = grant
      BY <1>4 DEF StartRun
    <3> QED BY <1>1, <3>1, <3>2 DEF Alone, Speaks, Dispatched
  <2>2. CASE anchor.status # "missing"
    BY <1>2, <1>4, <2>2 DEF StartRun
  <2> QED BY <2>1, <2>2
<1>5. CASE Recover \/ DispatchNative
  BY <1>2, <1>5 DEF Recover, RecoverAs, DispatchNative
<1>6. CASE RequestTrial
  <2>1. [Request(client.at) EXCEPT !.key = client.token].pc = "arrive"
    BY DEF Request, Idle
  <2> QED BY <1>3, <1>6, <2>1 DEF RequestTrial
<1>7. CASE ReportFailure
  <2>1. [Request("failure") EXCEPT !.key = client.token, !.native = client.native].pc = "arrive"
    BY DEF Request, Idle
  <2> QED BY <1>3, <1>7, <2>1 DEF ReportFailure
<1>8. CASE RequestReveal
  <2>1. Request("reveal").pc = "arrive"
    BY DEF Request, Idle
  <2> QED BY <1>3, <1>8, <2>1 DEF RequestReveal
<1>9. CASE RequestAck
  <2>1. [Request("ack") EXCEPT !.digest = client.digest].pc = "arrive"
    BY DEF Request, Idle
  <2> QED BY <1>3, <1>9, <2>1 DEF RequestAck
<1> QED BY <1>4, <1>5, <1>6, <1>7, <1>8, <1>9 DEF Run

LEMMA AloneStep == IInv /\ Alone /\ [Next]_vars => Alone'
<1> SUFFICES ASSUME IInv, Alone, [Next]_vars, faults'.lost + faults'.stops = 0 PROVE Alone'
  BY DEF Alone
<1>1. faults \in [lost : Nat, stops : Nat]
  BY DEF IInv, TypeOK
<1>2. ~Lost /\ ~Stop
  BY <1>1 DEF Lost, Stop
<1>3. faults' = faults /\ faults.lost + faults.stops = 0
  BY <1>2, RestStep
<1>4. CASE UNCHANGED vars
  BY <1>4 DEF vars, Alone, Speaks, Running, Current, Dispatched
<1>5. ~LoseReply /\ ~RestartRunner /\ ~LeaseEnds /\ ~DataExpires /\ ~(\E j \in Keys : GrantEnds(j))
      /\ ~(\E w \in Lines : RequestDies(w))
  BY <1>2 DEF LoseReply, RestartRunner, LeaseEnds, DataExpires, GrantEnds, RequestDies
<1> QED BY <1>3, <1>4, <1>5, AloneServes, AloneRuns DEF Next

\* A row comes to deny a call only after a fault, and only where a report looked before the
\* call began or the call began after the row was written.
LEMMA DenialsExcused ==
  ASSUME IInv, Alone, Next, NEW k \in Denied', k \notin Denied
  PROVE  faults.lost + faults.stops > 0 /\ (k \notin Dispatched \/ LookedBefore(k))
<1>1. k \in Keys /\ anchor'.rows[k] # NoRow /\ k \in Dispatched' /\ ~anchor'.rows[k].inferred
  BY DEF Denied, Recorded
<1>2. Moves /\ anchor \in Anchors /\ Shape /\ faults \in [lost : Nat, stops : Nat]
  BY AllMoves DEF IInv, TypeOK
<1>3. anchor.rows[k] # NoRow => k \notin Dispatched
  <2> SUFFICES ASSUME anchor.rows[k] # NoRow, k \in Dispatched PROVE FALSE
    OBVIOUS
  <2>1. anchor'.rows[k] = anchor.rows[k]
    BY <1>1, <1>2, LogStays DEF Recorded
  <2> QED BY <1>1, <2>1 DEF Denied, Recorded
<1>4. k \notin Dispatched \/ LookedBefore(k)
  BY <1>1, <1>3, Deniers
<1>5. ASSUME faults.lost + faults.stops = 0 PROVE FALSE
  <2>1. req["orphan"] = Idle /\ Speaks(req["main"])
    BY <1>5 DEF Alone
  <2>2. \A w \in Lines : RecordFailure(w) \/ BeginCall(w) => w = "main"
    BY <1>5, AloneServes DEF Serve
  <2>3. CASE anchor.rows[k] = NoRow
    <3>1. RecordFailure("main") /\ req["main"].key = k /\ ~req["main"].row.inferred
      BY <1>1, <2>2, <2>3, Deniers
    <3>2. k \notin Dispatched
      BY <2>1, <3>1 DEF Speaks, RecordFailure, At
    <3>3. grant' = grant
      BY <3>1 DEF RecordFailure, Refuse, server, ledger
    <3> QED BY <1>1, <3>2, <3>3 DEF Dispatched
  <2>4. CASE anchor.rows[k] # NoRow
    <3>1. BeginCall("main") /\ req["main"].key = k
      BY <1>1, <1>3, <2>2, <2>4, Beginners
    <3>2. Running /\ k = Current
      BY <2>1, <3>1 DEF Speaks, BeginCall, At
    <3>3. anchor.attempt \in {0, 1} /\ anchor.rows[<<anchor.ordinal, anchor.attempt>>] = NoRow
      BY <1>2, <3>2 DEF Shape, Untried, Replacing, Anchors
    <3> QED BY <2>4, <3>2, <3>3 DEF Current
  <2> QED BY <2>3, <2>4
<1>6. faults.lost + faults.stops \in Nat /\ faults.lost + faults.stops # 0
  BY <1>2, <1>5
<1> QED BY <1>4, <1>6

-----------------------------------------------------------------------------
(* The theorems. *)

\* The invariant holds in every reachable state, for every number of cases, every set of
\* decisions and any number of faults.
THEOREM Invariance == Spec => []IInv
<1>1. Init => IInv
  BY InitInvariant
<1>2. IInv /\ [Next]_vars => IInv'
  BY StepInvariant
<1> QED BY <1>1, <1>2, PTL DEF Spec

\* And without faults the runner is alone.
LEMMA AloneAlways == Spec => []Alone
<1>1. Init => Alone
  BY DEF Init, Alone, Speaks, Lines, Idle
<1> QED BY <1>1, AloneStep, Invariance, PTL DEF Spec

\* Every paid call is in the log, whatever was lost, repeated, replaced or restarted,
\* and no row comes to deny a call but in the race of a failure report with the call of a
\* request that was given up on.
THEOREM AllCallsAccounted == Spec => CallsAreAccounted
<1> DEFINE InTheLog ==
      /\ Dispatched \subseteq Recorded(anchor.rows) \cup (IF Running THEN {Current} ELSE {})
      /\ \A k \in Recorded(anchor.rows) : LedgerFits(k, anchor.rows[k])
      /\ \A k \in Keys : kept[k].decision # NoDecision => k \in Dispatched
    Denials ==
      \A k \in Denied' \ Denied :
        /\ faults.lost + faults.stops > 0
        /\ k \notin Dispatched \/ LookedBefore(k)
<1>1. IInv => InTheLog
  <2> SUFFICES ASSUME IInv PROVE InTheLog
    OBVIOUS
  <2>1. Charged /\ RowsFit
    BY DEF IInv
  <2>2. \A k \in Dispatched : k \in Keys /\ grant[k] # "absent"
    BY DEF Dispatched
  <2>3. Dispatched \subseteq Recorded(anchor.rows) \cup (IF Running THEN {Current} ELSE {})
    BY <2>1, <2>2 DEF Charged, Accounted
  <2>4. \A k \in Recorded(anchor.rows) : LedgerFits(k, anchor.rows[k])
    BY <2>1 DEF RowsFit, RowFits
  <2> QED BY <2>1, <2>3, <2>4 DEF Charged
<1>2. IInv /\ Alone /\ [Next]_vars => [Denials]_vars
  <2> SUFFICES ASSUME IInv, Alone, Next PROVE Denials
    OBVIOUS
  <2> SUFFICES ASSUME NEW k \in Denied', k \notin Denied
               PROVE  faults.lost + faults.stops > 0 /\ (k \notin Dispatched \/ LookedBefore(k))
    OBVIOUS
  <2> QED BY DenialsExcused
<1> QED BY <1>1, <1>2, Invariance, AloneAlways, PTL DEF Spec, CallsAreAccounted

\* The sealed copy is the whole log and its digest the permanent one, also when the
\* data have expired.
THEOREM EvidenceKept == Spec => []EvidenceIsTheLog
<1>1. IInv => EvidenceIsTheLog
  BY DEF IInv
<1> QED BY <1>1, Invariance, PTL

\* A run that came to an end left a log that its verifier accepts.
LEMMA LogVerifies == IInv => TerminalLogVerifies
<1> SUFFICES ASSUME IInv, Terminal PROVE BundleFits(anchor.rows, Disposition, anchor.done, anchor.failed)
  BY DEF TerminalLogVerifies
<1> DEFINE log == anchor.rows
<1>1. anchor \in Anchors /\ log \in Logs /\ Shape /\ Counted /\ RowsFit
  BY DEF IInv, TypeOK, Anchors
<1>2. Cases \in Nat /\ Cases > 0 /\ Ordinals = 0 .. Cases - 1 /\ NoRow \notin Rows
  BY ConstantTypes DEF Ordinals
<1>3. PICK n \in Ordinals, end \in {"scored", "invalid"} :
        /\ \A p \in Ordinals : p < n => Closed(log, p, "scored")
        /\ Closed(log, n, end)
        /\ \A p \in Ordinals : p > n => Untried(log, p)
        /\ end = "scored" => Disposition = "complete" /\ n = Cases - 1 /\ anchor.done = Cases
        /\ end = "invalid" => Disposition = "invalid" /\ anchor.done = n
  <2>1. CASE Disposition = "complete" /\ anchor.ordinal = Cases
    <3>1. Cases - 1 \in Ordinals /\ \A p \in Ordinals : p < Cases /\ ~(p > Cases - 1)
      BY <1>2
    <3>2. \A p \in Ordinals : Closed(log, p, "scored")
      BY <1>1, <2>1, <3>1 DEF Shape
    <3>3. anchor.done = Cases
      BY <1>1, <2>1 DEF Shape
    <3> QED BY <2>1, <3>1, <3>2, <3>3
  <2>2. CASE Disposition = "invalid" /\ anchor.ordinal \in Ordinals /\ Closed(log, anchor.ordinal, "invalid")
    BY <1>1, <2>2 DEF Shape
  <2> QED BY <1>1, <2>1, <2>2 DEF Shape
<1> HIDE DEF log
<1>4. n \in Nat /\ n < Cases
  BY <1>2
<1>5. \A k \in Recorded(log) : log[k] \in Rows /\ RowFits(k, log[k])
  BY <1>1 DEF RowsFit, Recorded, Logs, log
<1>6. \A p \in Ordinals : p \in Tried(log) <=> p <= n
  <2>1. \A p \in Ordinals : p < n => log[<<p, 0>>] # NoRow
    BY <1>3 DEF Closed
  <2>2. \A p \in Ordinals : p > n => log[<<p, 0>>] = NoRow
    BY <1>3 DEF Untried
  <2>3. log[<<n, 0>>] # NoRow
    BY <1>3 DEF Closed
  <2>4. \A p \in Ordinals : p \in Tried(log) <=> log[<<p, 0>>] # NoRow
    BY DEF Tried
  <2>5. \A p \in Ordinals : (p <= n <=> p < n \/ p = n) /\ (p > n <=> ~(p <= n))
    BY <1>2, <1>4
  <2> QED BY <2>1, <2>2, <2>3, <2>4, <2>5
<1>7. \A p \in Ordinals, a \in {0, 1} : <<p, a>> \in Keys /\ (log[<<p, a>>] # NoRow => <<p, a>> \in Recorded(log))
  BY KeyTypes DEF Recorded
<1>8. \A p \in Ordinals : p <= n => Closed(log, p, IF p = n THEN end ELSE "scored")
  <2>1. \A p \in Ordinals : p \in Nat
    BY <1>2
  <2> QED BY <1>3, <1>4, <2>1
<1>9. \A p \in Ordinals : p \in Tried(log) => (CaseFails(log, p) <=> p = n /\ end = "invalid")
  <2> SUFFICES ASSUME NEW p \in Ordinals, p \in Tried(log) PROVE CaseFails(log, p) <=> p = n /\ end = "invalid"
    OBVIOUS
  <2>1. PICK e \in {"scored", "invalid"} : e = (IF p = n THEN end ELSE "scored") /\ Closed(log, p, e)
    BY <1>6, <1>8
  <2>2. CaseFails(log, p) <=> e = "invalid"
    BY <2>1 DEF CaseFails, Closed
  <2> QED BY <2>1, <2>2
<1>10. TopologyFits(log)
  <2>1. \A o \in Tried(log) : \A p \in 0 .. o : p \in Tried(log)
    <3> SUFFICES ASSUME NEW o \in Tried(log), NEW p \in 0 .. o PROVE p \in Tried(log)
      OBVIOUS
    <3>1. o \in Ordinals /\ o <= n
      BY <1>6 DEF Tried
    <3>2. p \in Ordinals /\ p <= n
      BY <1>2, <1>4, <3>1
    <3> QED BY <1>6, <3>2
  <2>2. \A o \in Ordinals : log[<<o, 1>>] # NoRow <=> o \in Tried(log) /\ log[<<o, 0>>].eligible
    <3> SUFFICES ASSUME NEW o \in Ordinals
                 PROVE  log[<<o, 1>>] # NoRow <=> o \in Tried(log) /\ log[<<o, 0>>].eligible
      OBVIOUS
    <3>1. CASE o \in Tried(log)
      <4>1. PICK e : Closed(log, o, e)
        BY <1>6, <1>8, <3>1
      <4> QED BY <3>1, <4>1 DEF Closed
    <3>2. CASE o \notin Tried(log)
      <4>1. Untried(log, o)
        BY <1>2, <1>3, <1>4, <1>6, <3>2
      <4> QED BY <3>2, <4>1 DEF Untried
    <3> QED BY <3>1, <3>2
  <2>3. \A o \in Tried(log) : log[<<o, 0>>].eligible => log[<<o, 0>>].disposition = "invalid"
    BY <1>5, <1>7 DEF Tried, RowFits
  <2>4. \A o \in Tried(log) : log[<<o, 1>>] # NoRow => ~log[<<o, 1>>].eligible
    <3> SUFFICES ASSUME NEW o \in Tried(log), log[<<o, 1>>] # NoRow PROVE ~log[<<o, 1>>].eligible
      OBVIOUS
    <3>1. <<o, 1>> \in Recorded(log)
      BY <1>7 DEF Tried
    <3>2. log[<<o, 1>>].eligible => <<o, 1>>[2] = 0
      BY <1>5, <3>1 DEF RowFits
    <3> QED BY <3>2
  <2>5. \A o \in Tried(log) : CaseFails(log, o) => o + 1 \notin Tried(log)
    <3> SUFFICES ASSUME NEW o \in Tried(log), CaseFails(log, o), o + 1 \in Tried(log) PROVE FALSE
      OBVIOUS
    <3>1. o = n /\ o + 1 <= n
      BY <1>6, <1>9 DEF Tried
    <3> QED BY <1>4, <3>1
  <2> QED BY <2>1, <2>2, <2>3, <2>4, <2>5 DEF TopologyFits
<1>11. Tried(log) # {}
  BY <1>4, <1>6
<1>12. \A k \in Recorded(log) : EvidenceFits(k, log[k])
  BY <1>5 DEF RowFits
<1>13. anchor.done = Cardinality(Scored(log)) /\ anchor.failed = Cardinality(Recorded(log) \ Scored(log))
  BY <1>1 DEF Counted, log
<1>14. (Disposition = "complete" <=> anchor.done = Cases)
  BY <1>3, <1>4
<1>15. (Disposition = "invalid" <=> \E o \in Tried(log) : CaseFails(log, o))
  <2>1. (\E o \in Tried(log) : CaseFails(log, o)) => end = "invalid"
    BY <1>9 DEF Tried
  <2>2. end = "invalid" => n \in Tried(log) /\ CaseFails(log, n)
    BY <1>4, <1>6, <1>9
  <2> QED BY <1>3, <2>1, <2>2
<1> QED BY <1>10, <1>11, <1>12, <1>13, <1>14, <1>15 DEF BundleFits, log

\* Whatever was reported, replaced, lost or repeated, an ended run left a log that
\* verifyGate3ScoredBundle accepts.
THEOREM EndedLogVerifies == Spec => []TerminalLogVerifies
BY Invariance, LogVerifies, PTL

\* A recorded attempt is never rewritten, an ended run never goes on, and sealed
\* evidence never changes.
THEOREM RowsStayFinal == Spec => RowsAreFinal
<1> DEFINE Final ==
      /\ \A k \in Recorded(anchor.rows) : anchor'.rows[k] = anchor.rows[k]
      /\ Terminal => anchor'.rows = anchor.rows /\ ~Running'
      /\ evidence.status # "none" => evidence'.rows = evidence.rows /\ evidence'.digest = evidence.digest
<1>1. IInv /\ [Next]_vars => [Final]_vars
  <2> SUFFICES ASSUME IInv, [Next]_vars PROVE Final
    OBVIOUS
  <2>1. Moves /\ evidence \in Evidences
    BY AllMoves DEF IInv, TypeOK
  <2>2. \A k \in Recorded(anchor.rows) : anchor'.rows[k] = anchor.rows[k]
    BY <2>1, LogStays DEF Recorded
  <2>3. Terminal => anchor'.rows = anchor.rows /\ ~Running'
    BY <2>1, LogStays DEF Terminal, Running
  <2>4. evidence.status # "none" => evidence'.rows = evidence.rows /\ evidence'.digest = evidence.digest
    BY <2>1 DEF Moves, Creates, Acknowledges, Expires, Keeps, Charges, Records, Seals, Evidences
  <2> QED BY <2>2, <2>3, <2>4
<1> QED BY <1>1, Invariance, PTL DEF Spec, RowsAreFinal

=============================================================================
