------------------------------ MODULE PaidCalls ------------------------------
(***************************************************************************)
(* The three services that make one paid call each and keep its answer:    *)
(* the Repair Builder, the successor evaluation and the public judge lane, *)
(* in the order the lifetime allows them.  All three spend through the     *)
(* guard of ProbeLedger, whose scripts are called here one at a time, and  *)
(* write the provider's answer to a permanent store before they settle it. *)
(* A request is a sequence of awaits; every script is a step of its own,   *)
(* any other request may run between two of them, and a request may lose a *)
(* reply or die at any of them.                                            *)
(***************************************************************************)
EXTENDS ProbeLedger

CONSTANTS Requests,        \* requests being served at one time
          JudgeTokens,     \* what createProbeToken may draw for a judge request
          RepairToken, SuccessorToken,  \* derived, the same for every request
          PrimaryCounts,   \* JUDGE_DEMO_REQUIRED_PRIMARY_COUNTS
          RevisedCap,      \* the 70 of decideSuccessorEvaluation
          NoArt, NoAnchor,
          MaxFaults        \* bound on lost replies and dead requests

VARIABLES keep,    \* the permanent record of each service
          anchor,  \* the judge's permanent authorization anchor
          req,     \* the requests being served
          called,  \* provider calls made with each authorization
          asked,   \* the operations this stage of the lifetime is asked for
          told,    \* what the clients of each service have been answered
          faults

lane == <<keep, anchor, req, called, asked, told, faults>>
paidVars == <<vars, lane>>

Services == {"repair", "revised", "judge"}
Ops == {"decide", "status", "repair", "revised"}
ServiceOf(op) == IF op \in {"decide", "status"} THEN "judge" ELSE op
TokensOf(s) == CASE s = "repair" -> {RepairToken}
                 [] s = "revised" -> {SuccessorToken}
                 [] s = "judge" -> JudgeTokens

ASSUME PaidAssumption ==
  /\ JudgeTokens \cup {RepairToken, SuccessorToken} \subseteq Jtis
  /\ \A s \in Services : \A j \in TokensOf(s) : PurposeOf[j] = s
  /\ PrimaryCounts \in [Purposes \ {"judge"} -> Nat]
  /\ RevisedCap \in Nat /\ MaxFaults \in Nat
  /\ GlobalLimit >= 2 /\ \A x \in {"repair", "revised"} : PolicyLimits[1][x] >= 1
  /\ NoAnchor \notin [jti : JudgeTokens, expires : Nat]
  /\ \A j \in Jtis : <<j, 1>> \in Responses
  /\ \A r \in Responses : <<"known", r>> \in Digests
  /\ \A code \in {"provider", "failed", "orphan", "operator"} : <<"doubt", code>> \in Digests

\* A known answer of the provider, and what is recorded when there is none.
Receipt(j, n, c) == [kind |-> "receipt", jti |-> j, response |-> <<j, n>>, cost |-> c]
Doubtful(j, d, at) == [kind |-> "doubt", jti |-> j, digest |-> d, at |-> at]
KnownDigest(art) == <<"known", art.response>>
DoubtDigest(code) == <<"doubt", code>>

Free == [op |-> "none", pc |-> "free", jti |-> NoJti, art |-> NoArt,
         code |-> "none", seen |-> 0, paid |-> FALSE]

\* The lifetime is entered with the first n of the two earlier calls made and settled,
\* and the services are asked whose guard check can still pass.
Earlier(n) == {t \in {RepairToken, SuccessorToken} : n > (IF t = RepairToken THEN 0 ELSE 1)}
Asked(n) == CASE n = 0 -> {"repair"} [] n = 1 -> {"repair", "revised"} [] n = 2 -> {"decide", "status"}
EnteredWith(n, c) ==
  LET made == Earlier(n)
      Of(j, yes, no) == IF j \in made THEN yes ELSE no
      Art(j) == Receipt(j, 1, c) IN
  /\ status = "open" /\ haltReason = NoHalt /\ uncertainJti = NoJti
  /\ policy = 1
  /\ claimed = n /\ committed = n * Reservation /\ pending = 0 /\ known = n
  /\ uncertain = 0 /\ knownActual = n * c /\ uncertainUpper = 0 /\ lastSequence = n
  /\ counts = [x \in Purposes |-> Cardinality({j \in made : PurposeOf[j] = x})]
  /\ lease = [j \in Jtis |-> 0]
  /\ token = [j \in Jtis |-> Of(j, "KNOWN", "absent")]
  /\ expires = [j \in Jtis |-> Of(j, TokenTTL, 0)]
  /\ actual = [j \in Jtis |-> Of(j, c, 0)]
  /\ sequence = [j \in Jtis |-> Of(j, IF j = RepairToken THEN 1 ELSE 2, 0)]
  /\ response = [j \in Jtis |-> Of(j, Art(j).response, NoResponse)]
  /\ digest = [j \in Jtis |-> Of(j, KnownDigest(Art(j)), NoDigest)]
  /\ subject = [x \in Subjects |-> IF \E j \in made : SubjectOf[j] = x
                                  THEN CHOOSE j \in made : SubjectOf[j] = x ELSE NoJti]
  /\ provider = [r \in Responses |-> IF \E j \in made : Art(j).response = r
                                    THEN CHOOSE j \in made : Art(j).response = r ELSE NoJti]
  /\ issued = [k \in IssueKeys |->
                 Cardinality({j \in made : k = <<PurposeOf[j], ActorOf[j], 0>>})]
  /\ now = 0
  /\ keep = [x \in Services |->
       IF \E j \in made : PurposeOf[j] = x
       THEN [state |-> "captured", art |-> Art(CHOOSE j \in made : PurposeOf[j] = x)]
       ELSE [state |-> "empty", art |-> NoArt]]
  /\ asked = Asked(n)
  /\ anchor = NoAnchor
  /\ req = [q \in Requests |-> Free]
  /\ called = [j \in Jtis |-> Of(j, 1, 0)]
  /\ told = {} /\ faults = 0
PaidInit == \E n \in 0 .. 2, c \in {x \in Costs : x <= Reservation} : EnteredWith(n, c)

\* The script writes nothing and refuses.
NotIssued(j) == ~ENABLED Issue(j)
NotBegun(j) == ~ENABLED Begin(j)
NotSettled(art) == ~ENABLED SettleKnown(art.jti, art.cost, art.response, KnownDigest(art))
NotDoubted(j, d) == ~ENABLED SettleUncertain(j, d)
NotReaped(j, d) == ~ENABLED Reap(j, d)

-----------------------------------------------------------------------------
(* Requests: where they stand, what they answer, how a reply is lost.       *)

At(q, pc) == req[q].pc = pc
Service(q) == ServiceOf(req[q].op)
Goto(q, pc) == req' = [req EXCEPT ![q].pc = pc]
\* An answer ends the request; "said" is what it commits the service to.
Answer(q, said) ==
  /\ req' = [req EXCEPT ![q] = Free]
  /\ told' = IF said = "nothing" THEN told ELSE told \cup {<<Service(q), said>>}
\* An error answer whose inferencePerformed is false.
Refuse(q) == Answer(q, IF req[q].paid THEN "unpaid" ELSE "nothing")
Fault == faults < MaxFaults /\ faults' = faults + 1

\* Where an error of each step takes the request: the judge records what it may
\* have paid for, Repair settles it as uncertain, the successor only answers.
Fail(q) ==
  CASE ~req[q].paid \/ req[q].op = "revised" -> Refuse(q)
    [] req[q].paid /\ req[q].op = "decide" ->
         /\ req' = [req EXCEPT ![q].pc = "record", ![q].code = "failed"]
         /\ UNCHANGED told
    [] req[q].paid /\ req[q].op = "repair" ->
         /\ req' = [req EXCEPT ![q].pc = "doubt", ![q].code = "failed"]
         /\ UNCHANGED told

\* The call returned: its reply may still be lost on the way.
Returned(q, good) ==
  /\ UNCHANGED <<anchor, called, asked>>
  /\ \/ good /\ UNCHANGED faults
     \/ Fault /\ Fail(q)

\* The call never reached the store.
Unsent(q) == Fault /\ Fail(q) /\ UNCHANGED <<vars, keep, anchor, called, asked>>

Start(q, op) ==
  /\ At(q, "free") /\ op \in asked
  /\ req' = [req EXCEPT ![q].op = op,
                        ![q].pc = IF ServiceOf(op) = "judge" THEN "read" ELSE "guard"]
  /\ UNCHANGED <<vars, keep, anchor, called, asked, told, faults>>

Die(q) ==
  /\ ~At(q, "free") /\ Fault
  /\ req' = [req EXCEPT ![q] = Free]
  /\ UNCHANGED <<vars, keep, anchor, called, asked, told>>

-----------------------------------------------------------------------------
(* What the services read: the guard's status and the call it is held by.   *)

\* guardMode of the judge service.
StaticGuardMatches ==
  /\ status # "missing" /\ haltReason = NoHalt
  /\ \A p \in Purposes \ {"judge"} : counts[p] = PrimaryCounts[p]
  /\ counts["judge"] <= 1
  /\ ~CounterDrift
  /\ committed <= SpendCeiling
Mode ==
  CASE ~StaticGuardMatches -> "invalid"
    [] /\ status = "open" /\ uncertainJti = NoJti /\ uncertain = 0
       /\ counts["judge"] = 0 /\ pending = 0 -> "available"
    [] /\ status = "open" /\ uncertainJti = NoJti /\ uncertain = 0
       /\ counts["judge"] = 1 /\ pending = 1 -> "running"
    [] /\ status = "open" /\ uncertainJti = NoJti /\ uncertain = 0
       /\ counts["judge"] = 1 /\ pending = 0 -> "known"
    [] /\ status = "quarantined" /\ uncertainJti # NoJti /\ uncertain = 1
       /\ counts["judge"] = 1 /\ pending = 0 -> "uncertain"
    [] OTHER -> "invalid"

\* READ_JUDGE_DISPATCH_SCRIPT: the call in doubt, else the call in flight.
InDoubt == uncertainJti \in JudgeTokens /\ token[uncertainJti] = "UNCERTAIN"
Flying(j) == uncertainJti = NoJti /\ InFlight = {j} /\ j \in JudgeTokens
Live(j) == lease[j] > now

Unwritten == UNCHANGED <<vars, keep, anchor, called, asked, faults>>
Kept(q) == keep[Service(q)]
ToCaptured(q) ==
  req' = [req EXCEPT ![q].pc = "settle", ![q].art = Kept(q).art, ![q].jti = Kept(q).art.jti]

\* readJudgeDemoStore, and what decideJudgeDemo and readJudgeDemoStatus do with it.
ReadJudgeStore(q) ==
  /\ At(q, "read") /\ Service(q) = "judge"
  /\ Unwritten
  /\ CASE Kept(q).state = "empty" -> Goto(q, "guard") /\ UNCHANGED told
       [] Kept(q).state = "uncertain" -> Goto(q, "stored") /\ UNCHANGED told
       [] Kept(q).state = "sealed" -> Goto(q, "check") /\ UNCHANGED told
       [] Kept(q).state = "captured" ->
            IF req[q].op = "status" THEN Answer(q, "recoverable")
            ELSE ToCaptured(q) /\ UNCHANGED told

ReadJudgeGuard(q) ==
  /\ At(q, "guard") /\ Service(q) = "judge"
  /\ Unwritten
  /\ CASE Mode = "available" /\ req[q].op = "decide" /\ now < ClosesAt ->
            Goto(q, "anchor") /\ UNCHANGED told
       [] Mode = "running" -> Goto(q, "running") /\ UNCHANGED told
       [] Mode = "uncertain" -> Goto(q, "doubted") /\ UNCHANGED told
       [] OTHER -> Refuse(q)

\* reconcileEmptyOrphanedDispatch: no record yet, and the guard has a judge call.
OrphanRunning(q) ==
  /\ At(q, "running")
  /\ Unwritten
  /\ \/ \E j \in JudgeTokens :
          /\ Flying(j) /\ ~Live(j)
          /\ req' = [req EXCEPT ![q].pc = "reap", ![q].jti = j,
                                ![q].art = Doubtful(j, DoubtDigest("orphan"), now)]
          /\ UNCHANGED told
     \/ ~(\E j \in JudgeTokens : Flying(j) /\ ~Live(j)) /\ Refuse(q)

OrphanDoubted(q) ==
  /\ At(q, "doubted")
  /\ Unwritten
  /\ IF InDoubt
     THEN /\ req' = [req EXCEPT ![q].pc = "orphan", ![q].jti = uncertainJti,
                       ![q].art = Doubtful(uncertainJti, digest[uncertainJti], 0)]
          /\ UNCHANGED told
     ELSE Refuse(q)

\* reconcileStoredUncertain: the record says uncertain; the guard must agree,
\* once the lease of the call has run out.
StoredUncertain(q) ==
  /\ At(q, "stored")
  /\ Unwritten
  /\ CASE Mode = "uncertain" -> Answer(q, "closed")
       [] Mode = "running" -> Goto(q, "lagging") /\ UNCHANGED told
       [] OTHER -> Refuse(q)

\* Faulty variant: the guard is expected to catch up by itself.
StoredRunningWaits(q) == At(q, "lagging") /\ Unwritten /\ Refuse(q)
StoredRunning(q) ==
  /\ At(q, "lagging")
  /\ Unwritten
  /\ LET art == Kept(q).art IN
     IF Flying(art.jti) /\ ~Live(art.jti)
     THEN /\ req' = [req EXCEPT ![q].pc = "reap", ![q].jti = art.jti, ![q].art = art]
          /\ UNCHANGED told
     ELSE Refuse(q)

\* readScoredGuardContext without allowUnsettled.
GuardIsClean ==
  /\ status = "open" /\ ~ConfigDrift /\ ~CounterDrift
  /\ pending = 0 /\ uncertain = 0

\* Repair reads its count once, before it looks for its receipt.
ReadRepairGuard(q) ==
  /\ At(q, "guard") /\ req[q].op = "repair"
  /\ Unwritten
  /\ IF GuardIsClean /\ counts["repair"] <= 1 /\ counts["revised"] = 0
     THEN /\ req' = [req EXCEPT ![q].pc = "read", ![q].seen = counts["repair"]]
          /\ UNCHANGED told
     ELSE Refuse(q)

ReadRepairStore(q) ==
  /\ At(q, "read") /\ req[q].op = "repair"
  /\ Unwritten
  /\ CASE Kept(q).state = "captured" /\ req[q].seen = 1 ->
            ToCaptured(q) /\ UNCHANGED told
       [] Kept(q).state = "empty" /\ req[q].seen = 0 -> Goto(q, "record?") /\ UNCHANGED told
       [] OTHER -> Refuse(q)

\* assertRepairDispatchLedgerState
ReadRepairLedger(q) ==
  /\ At(q, "record?")
  /\ Unwritten
  /\ IF token[RepairToken] \in {"absent", "ISSUED"}
     THEN /\ req' = [req EXCEPT ![q].pc = "issue", ![q].jti = RepairToken]
          /\ UNCHANGED told
     ELSE Refuse(q)

ReadSuccessorGuard(q) ==
  /\ At(q, "guard") /\ req[q].op = "revised"
  /\ Unwritten
  /\ IF GuardIsClean /\ counts["revised"] + 1 <= RevisedCap
     THEN Goto(q, "read") /\ UNCHANGED told ELSE Refuse(q)

ReadSuccessorStore(q) ==
  /\ At(q, "read") /\ req[q].op = "revised"
  /\ Unwritten /\ UNCHANGED told
  /\ IF Kept(q).state = "captured" THEN ToCaptured(q)
     ELSE req' = [req EXCEPT ![q].pc = "issue", ![q].jti = SuccessorToken]

-----------------------------------------------------------------------------
(* The one paid call, in the order all three services make it.              *)

\* Faulty variant: a request keeps the claims it made, whatever the anchor says.
AnchorIgnored(q) ==
  /\ At(q, "anchor")
  /\ UNCHANGED <<vars, keep, anchor, called, asked, told, faults>>
  /\ \E j \in JudgeTokens : req' = [req EXCEPT ![q].pc = "issue", ![q].jti = j]

\* createProbeToken and captureJudgeDemoAuthorizationAnchor: the first claims
\* written are every request's claims; expired ones are never replaced.
AnchorAuthorization(q) ==
  /\ At(q, "anchor")
  /\ UNCHANGED <<vars, keep, called, asked>>
  /\ \/ \E j \in JudgeTokens :
          LET won == IF anchor = NoAnchor THEN [jti |-> j, expires |-> now + TokenTTL]
                     ELSE anchor IN
          /\ anchor' = won
          /\ \/ /\ won.expires > now /\ UNCHANGED <<told, faults>>
                /\ req' = [req EXCEPT ![q].pc = "issue", ![q].jti = won.jti]
             \/ won.expires <= now /\ Refuse(q) /\ UNCHANGED faults
             \/ Fault /\ Refuse(q)
     \/ UNCHANGED anchor /\ Fault /\ Refuse(q)

IssuedBefore(j) ==
  /\ status = "open" /\ now < ClosesAt
  /\ subject[SubjectOf[j]] = j /\ token[j] = "ISSUED" /\ ~Expired(j)

IssueAuthorization(q) ==
  /\ At(q, "issue")
  /\ LET j == req[q].jti IN
     \/ /\ Issue(j) /\ UNCHANGED keep
        /\ Returned(q, Goto(q, "begin") /\ UNCHANGED told)
     \/ /\ IssuedBefore(j) /\ UNCHANGED <<vars, keep>>
        /\ Returned(q, Goto(q, "begin") /\ UNCHANGED told)
     \/ /\ ~IssuedBefore(j) /\ NotIssued(j)
        /\ Refuse(q) /\ Unwritten
     \/ Unsent(q)

\* beforeDispatch: the guard grants the call, or the request ends here.
BeginCall(q) ==
  /\ At(q, "begin")
  /\ LET j == req[q].jti IN
     \/ /\ Begin(j) /\ UNCHANGED keep
        /\ Returned(q, IF token'[j] = "IN_FLIGHT" THEN Goto(q, "provider") /\ UNCHANGED told
                       ELSE Refuse(q))
     \/ NotBegun(j) /\ Refuse(q) /\ Unwritten
     \/ Unsent(q)

\* The provider answers with a receipt, or the request cannot tell what it did.
AskProvider(q) ==
  /\ At(q, "provider")
  /\ LET j == req[q].jti IN
     /\ called' = [called EXCEPT ![j] = @ + 1]
     /\ \/ \E c \in Costs :
             req' = [req EXCEPT ![q].pc = "capture", ![q].paid = TRUE,
                                ![q].art = Receipt(j, called'[j], c)]
        \/ req' = [req EXCEPT ![q].pc = IF req[q].op = "decide" THEN "record" ELSE "doubt",
                              ![q].paid = TRUE, ![q].code = "provider"]
  /\ UNCHANGED <<vars, keep, anchor, asked, told, faults>>

Keeping(q, state) == [keep EXCEPT ![Service(q)] = [state |-> state, art |-> req[q].art]]

\* CAPTURE_SCRIPT and the PUT_SCRIPTs: written once, or the same again.
KeepReceipt(q) ==
  /\ At(q, "capture")
  /\ \/ /\ Kept(q).state = "empty" \/ Kept(q).art = req[q].art
        /\ keep' = IF Kept(q).state = "empty" THEN Keeping(q, "captured") ELSE keep
        /\ UNCHANGED vars
        /\ Returned(q, Goto(q, "settle") /\ UNCHANGED told)
     \/ /\ Kept(q).state # "empty" /\ Kept(q).art # req[q].art
        /\ Fail(q) /\ Unwritten
     \/ Unsent(q)

AfterSettling(q) ==
  IF Service(q) = "judge" THEN Goto(q, "seal") /\ UNCHANGED told ELSE Answer(q, "nothing")

\* settleProbeCallKnown with the digest of the receipt.
SettleCall(q) ==
  /\ At(q, "settle")
  /\ LET art == req[q].art
         again == token[art.jti] = "KNOWN" /\ digest[art.jti] = KnownDigest(art)
         Known == SettleKnown(art.jti, art.cost, art.response, KnownDigest(art)) IN
     \/ /\ Known /\ UNCHANGED keep
        /\ Returned(q, IF status' # "halted" THEN AfterSettling(q) ELSE Fail(q))
     \/ again /\ UNCHANGED <<vars, keep>> /\ Returned(q, AfterSettling(q))
     \/ ~again /\ NotSettled(art) /\ Fail(q) /\ Unwritten
     \/ Unsent(q)

\* SEAL_SCRIPT
SealReceipt(q) ==
  /\ At(q, "seal")
  /\ \/ /\ Kept(q).art = req[q].art /\ Kept(q).state \in {"captured", "sealed"}
        /\ keep' = Keeping(q, "sealed") /\ UNCHANGED vars
        /\ Returned(q, Goto(q, "check") /\ UNCHANGED told)
     \/ /\ Kept(q).art # req[q].art /\ Fail(q) /\ Unwritten
     \/ Unsent(q)

\* A projection is answered only once the guard shows the call settled.
CheckSettled(q) ==
  /\ At(q, "check")
  /\ Unwritten
  /\ IF Mode = "known" THEN Answer(q, "result") ELSE Fail(q)

-----------------------------------------------------------------------------
(* Calls whose answer is not known.                                         *)

\* Faulty variant: the doubt replaces a receipt that is not sealed yet.
RecordableOverReceipt(q, art) == Kept(q).state # "sealed"
\* RECORD_UNCERTAIN_SCRIPT never replaces a record; repeating one is accepted.
Recordable(q, art) == Kept(q) = [state |-> "uncertain", art |-> art] \/ Kept(q).state = "empty"
RecordDoubt(q, art) ==
  keep' = IF Recordable(q, art)
          THEN [keep EXCEPT !["judge"] = [state |-> "uncertain", art |-> art]] ELSE keep

\* The catch of decideJudgeDemo: both writes are tried, whatever comes of the first.
RecordFailure(q) ==
  /\ At(q, "record")
  /\ Goto(q, "doubt")
  /\ \/ /\ RecordDoubt(q, Doubtful(req[q].jti, DoubtDigest(req[q].code), now))
        /\ UNCHANGED faults
     \/ Fault /\ UNCHANGED keep
  /\ UNCHANGED <<vars, anchor, called, asked, told>>

\* settleProbeCallUncertain; the successor rethrows what this call throws.
SettleDoubt(q) ==
  LET j == req[q].jti
      d == DoubtDigest(req[q].code)
      again == token[j] = "UNCERTAIN" /\ digest[j] = d
      Failed == IF req[q].op = "revised" THEN Refuse(q) ELSE Answer(q, "nothing") IN
  /\ At(q, "doubt")
  /\ UNCHANGED <<keep, anchor, called, asked>>
  /\ \/ /\ SettleUncertain(j, d)
        /\ \/ Answer(q, "nothing") /\ UNCHANGED faults
           \/ Failed /\ Fault
     \/ /\ NotDoubted(j, d)
        /\ IF again THEN Answer(q, "nothing") ELSE Failed
        /\ UNCHANGED <<vars, faults>>
     \/ Failed /\ Fault /\ UNCHANGED vars

\* reapExpiredProbeCall for a judge call nobody is known to wait for.
ReapCall(q) ==
  LET art == req[q].art
      again == token[art.jti] = "UNCERTAIN" /\ digest[art.jti] = art.digest
      onward == IF Kept(q).state = "uncertain" /\ Kept(q).art = art THEN "verify" ELSE "orphan" IN
  /\ At(q, "reap")
  /\ \/ Reap(art.jti, art.digest) /\ UNCHANGED keep /\ Returned(q, Goto(q, onward) /\ UNCHANGED told)
     \/ again /\ UNCHANGED <<vars, keep>> /\ Returned(q, Goto(q, onward) /\ UNCHANGED told)
     \/ ~again /\ NotReaped(art.jti, art.digest) /\ Refuse(q) /\ Unwritten
     \/ Unsent(q)

\* recordOrphanedUncertain, dated when it is written unless the guard dates it.
RecordOrphan(q) ==
  LET art == IF req[q].art.at = 0 THEN req[q].art ELSE [req[q].art EXCEPT !.at = now] IN
  /\ At(q, "orphan")
  /\ RecordDoubt(q, art) /\ UNCHANGED vars
  /\ Returned(q, CASE ~Recordable(q, art) -> Refuse(q)
                    [] Recordable(q, art) /\ req[q].art.at = 0 -> Answer(q, "closed")
                    [] OTHER -> Goto(q, "verify") /\ UNCHANGED told)

VerifyReaped(q) ==
  /\ At(q, "verify")
  /\ Unwritten
  /\ IF Mode = "uncertain" THEN Answer(q, "closed") ELSE Refuse(q)

\* The reap mode of scripts/probe-controls.ts.
OperatorReap(j) ==
  /\ Reap(j, DoubtDigest("operator"))
  /\ UNCHANGED lane

-----------------------------------------------------------------------------
Serve(q) ==
  \/ ReadJudgeStore(q) \/ ReadJudgeGuard(q) \/ OrphanRunning(q) \/ OrphanDoubted(q)
  \/ StoredUncertain(q) \/ StoredRunning(q)
  \/ ReadRepairGuard(q) \/ ReadRepairStore(q) \/ ReadRepairLedger(q)
  \/ ReadSuccessorGuard(q) \/ ReadSuccessorStore(q)
  \/ AnchorAuthorization(q) \/ IssueAuthorization(q) \/ BeginCall(q) \/ AskProvider(q)
  \/ KeepReceipt(q) \/ SettleCall(q) \/ SealReceipt(q) \/ CheckSettled(q)
  \/ RecordFailure(q) \/ SettleDoubt(q)
  \/ ReapCall(q) \/ RecordOrphan(q) \/ VerifyReaped(q)

PaidNext ==
  \/ \E q \in Requests : Serve(q) \/ Die(q)
  \/ \E q \in Requests, op \in Ops : Start(q, op)
  \/ \E j \in Jtis : OperatorReap(j)
  \/ Tick /\ UNCHANGED lane

PaidSpec == PaidInit /\ [][PaidNext]_paidVars

\* A request that is not killed runs on, time passes, and the judge page is asked
\* for its decision again and again.
FairPaid ==
  /\ PaidSpec
  /\ \A q \in Requests : WF_paidVars(Serve(q))
  /\ WF_paidVars(Tick /\ UNCHANGED lane)
  /\ \A q \in Requests : SF_paidVars(Start(q, "decide"))
-----------------------------------------------------------------------------
\* One paid call and one receipt: a service calls the provider at most once in its
\* lifetime, whoever asks and however often; a settled call is settled on the receipt
\* that is kept; and a call recorded as uncertain is never settled as known.
PaidOnceAndKept ==
  /\ Cardinality({j \in JudgeTokens : token[j] # "absent"}) <= 1
  /\ \A s \in Services, j \in Jtis : j \in TokensOf(s) =>
       /\ called[j] <= 1
       /\ token[j] = "KNOWN" =>
            /\ keep[s].state \in {"captured", "sealed"}
            /\ keep[s].art = Receipt(j, 1, actual[j]) /\ response[j] = <<j, 1>>
       /\ keep[s].state = "sealed" => token[keep[s].art.jti] = "KNOWN"

\* What clients have been told stays true: a client told that the decision is closed
\* for good, and one given it or told to come back for it, cannot both exist; and no
\* request of Repair or of the judge denies a call that it made.
AnswersAgree ==
  /\ ~{<<"judge", "closed">>, <<"judge", "recoverable">>} \subseteq told
  /\ ~{<<"judge", "closed">>, <<"judge", "result">>} \subseteq told
  /\ \A s \in {"repair", "judge"} : <<s, "unpaid">> \notin told

\* A judge call that was granted is concluded: its receipt sealed, or its doubt
\* recorded and the lane closed.
JudgeConcludes ==
  (\E j \in JudgeTokens : token[j] = "IN_FLIGHT") ~>
    \/ keep["judge"].state = "sealed"
    \/ keep["judge"].state = "uncertain" /\ InState("UNCERTAIN") # {}
=============================================================================
