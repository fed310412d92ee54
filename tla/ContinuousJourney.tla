------------------------- MODULE ContinuousJourney -------------------------
(***************************************************************************)
(* A suite of runs played one after the other on one agent page            *)
(* (src/lib/demo/continuous-journey.server.ts and                          *)
(* src/app/api/demo/journey/advance/route.ts) over the handoff ledger.     *)
(* The owner's page prepares the first run and stores the plan; each later *)
(* run is sealed, issued, claimed and received by the advance route, once  *)
(* the result of the run before it is in the ledger.  The button that asks *)
(* for the next run stays enabled: two requests may be served at once,     *)
(* each may stop after any of its calls to Redis, a call may be repeated   *)
(* because its reply was lost, and the answer may be lost after its cookie *)
(* was set.                                                                *)
(*                                                                         *)
(* Time stands still: expiry is the subject of HandoffLedger.  The end of  *)
(* a run is one step here, and the subject of AgentRunner.                 *)
(***************************************************************************)
EXTENDS HandoffLedger, Sequences

CONSTANTS Plan,       \* the runs of the plan, in order
          Browser,    \* its context
          Handlers,   \* requests to advance that may be served at once
          MaxFaults, MaxReloads

ASSUME JourneyAssumption ==
  /\ Plan \in Seq(Runs) /\ Len(Plan) >= 2
  /\ \A i, j \in DOMAIN Plan : Plan[i] = Plan[j] => i = j
  /\ Browser \in Contexts
  /\ MaxFaults \in Nat /\ MaxReloads \in Nat

VARIABLES mode,      \* of the plan: "continuous" or "regression"
          saved,     \* the record of the journey exists
          journey,   \* its position, its run, its results, and its last advance
          cookie,    \* the token in the browser's cookie
          step,      \* the run the page is at, counted from 1
          stage,     \* what the page does with it
          shown,     \* the result on the page
          known,     \* the page knows that it plays a journey
          live,      \* the steps whose effects the page's cart has
          report,    \* the request that reports a result
          advance,   \* the requests to advance
          faults, reloads

record == <<mode, saved, journey>>
pageVars == <<step, stage, shown, known, live>>
bounds == <<faults, reloads>>
ledger == <<now, expiry, holder, state, context, times, result, guards, revealed>>
all == <<ledger, record, cookie, pageVars, report, advance, bounds>>

Passed(x) == VerdictOf[x] = "pass"
Entry(r, x) == [run |-> r, result |-> x]
NoEntry == [run |-> "none", result |-> NoResult]
IdleReport == [at |-> "idle", run |-> "none", result |-> NoResult, cookie |-> NoToken]
IdleAdvance == [at |-> "idle", run |-> "none", result |-> NoResult, cookie |-> NoToken,
                position |-> 0, token |-> NoToken]

JourneyInit ==
  /\ now = 0
  /\ expiry = [r \in Runs |-> Ttl]
  /\ holder = [r \in Runs |-> NoToken]
  /\ state = [r \in Runs |-> "NONE"]
  /\ context = [r \in Runs |-> NoContext]
  /\ issuedAt = [r \in Runs |-> 0] /\ startedAt = issuedAt /\ endedAt = issuedAt
  /\ result = [r \in Runs |-> NoResult]
  /\ rate = {} /\ active = {} /\ revealed = {}
  /\ mode \in {"continuous", "regression"} /\ saved = FALSE
  /\ journey = [position |-> 0, run |-> Plan[1], results |-> <<>>, previous |-> NoEntry,
                token |-> NoToken]
  /\ cookie = NoToken
  /\ step = 1 /\ stage = "landed" /\ shown = NoResult /\ known = FALSE /\ live = {}
  /\ report = IdleReport
  /\ advance = [h \in Handlers |-> IdleAdvance]
  /\ faults = 0 /\ reloads = 0

-----------------------------------------------------------------------------
(* The first run: its preparation by the owner, and its delivery. *)

PrepareIssue ==
  /\ \E t \in Tokens : RunOf[t] = Plan[1] /\ Issue(t)
  /\ UNCHANGED <<record, cookie, pageVars, report, advance, bounds>>

\* PUT_SCRIPT.  A server that stops before it leaves a run without a link.
PrepareStore ==
  /\ holder[Plan[1]] # NoToken /\ ~saved
  /\ saved' = TRUE
  /\ UNCHANGED <<ledger, mode, journey, cookie, pageVars, report, advance, bounds>>

OpenLink ==
  /\ saved /\ stage = "landed"
  /\ Claim(holder[Plan[1]], Browser)
  /\ cookie' = holder[Plan[1]] /\ stage' = "opened"
  /\ UNCHANGED <<record, step, shown, known, live, report, advance, bounds>>

BootstrapRun ==
  /\ stage = "opened"
  /\ Receive(cookie, Browser)
  /\ stage' = "received" /\ known' = TRUE
  /\ UNCHANGED <<record, cookie, step, shown, live, report, advance, bounds>>

-----------------------------------------------------------------------------
(* A run on the page. *)

CookieFits == RunOf[cookie] = Plan[step]

\* Faulty variant: the clean fixture is forgotten.
CartOfAnyRetainedStep == IF known /\ step > 1 THEN live ELSE {}

\* The cart a run starts with: a page that knows its journey carries it over
\* or resets it, any other builds a new one from the fixture.
CartAtStart == IF known /\ step > 1 /\ mode = "continuous" THEN live ELSE {}

StartRun ==
  /\ stage = "received" /\ shown = NoResult /\ CookieFits
  /\ Start(cookie, Browser)
  /\ stage' = "started" /\ live' = CartAtStart
  /\ UNCHANGED <<record, cookie, step, shown, known, report, advance, bounds>>

\* The agent's call has its effect on the cart and is settled; the result is
\* stored on the page and its report is sent.
FinishRun(x) ==
  /\ stage = "started" /\ CookieFits
  /\ VerdictOf[x] \in {"pass", "issue"}
  /\ Settle(cookie, Browser, "SETTLED")
  /\ stage' = "ended" /\ live' = live \cup {step}
  /\ report' = [at |-> "ledger", run |-> Plan[step], result |-> x, cookie |-> cookie]
  /\ UNCHANGED <<record, cookie, step, shown, known, advance, bounds>>

\* A document that is reloaded keeps its session, its projection and its
\* result; it forgets the journey, which only the bootstrap tells it.
ReloadPage ==
  /\ stage \in {"received", "started", "ended"} /\ known
  /\ reloads < MaxReloads /\ reloads' = reloads + 1
  /\ known' = FALSE /\ live' = {}
  /\ stage' = IF stage = "started" THEN "stopped" ELSE stage
  /\ UNCHANGED <<ledger, record, cookie, step, shown, report, advance, faults>>

-----------------------------------------------------------------------------
(* POST handoff/report. *)

\* A script was run and the request goes on; or its reply was lost, and the
\* Redis client asks again.
ReportGoes(at) ==
  \/ report' = [report EXCEPT !.at = at] /\ UNCHANGED bounds
  \/ faults < MaxFaults /\ faults' = faults + 1 /\ UNCHANGED <<report, reloads>>

ReportEnds == report' = IdleReport /\ UNCHANGED bounds

KnownToLedger == result[report.run] = report.result

ReportToLedger ==
  /\ report.at = "ledger"
  /\ \/ Report(report.cookie, Browser, report.result) /\ ReportGoes("journey")
     \/ KnownToLedger /\ ReportGoes("journey") /\ UNCHANGED ledger
  /\ UNCHANGED <<record, cookie, pageVars, advance>>

Reported == {i \in DOMAIN journey.results : journey.results[i].run = report.run}

\* RECORD_RESULT_SCRIPT, of the current run or of a result it has; it refuses
\* any other.
ReportToJourney ==
  /\ report.at = "journey"
  /\ \/ /\ Reported = {} /\ journey.run = report.run
        /\ journey' = [journey EXCEPT !.results = Append(@, Entry(report.run, report.result))]
     \/ /\ \E i \in Reported : journey.results[i].result = report.result
        /\ UNCHANGED journey
  /\ ReportGoes("answer")
  /\ UNCHANGED <<ledger, mode, saved, cookie, pageVars, advance>>

\* The page shows the result of a report that was answered.
ReportAnswered ==
  /\ report.at = "answer"
  /\ shown' = report.result
  /\ ReportEnds
  /\ UNCHANGED <<ledger, record, cookie, step, stage, known, live, advance>>

\* The server stops, or the answer is lost: the page stays without a result.
ReportDies ==
  /\ report.at # "idle"
  /\ faults < MaxFaults /\ faults' = faults + 1
  /\ report' = IdleReport
  /\ UNCHANGED <<ledger, record, cookie, pageVars, advance, reloads>>

ReportStep == ReportToLedger \/ ReportToJourney \/ ReportAnswered

-----------------------------------------------------------------------------
(* POST journey/advance. *)

Goes(h, at) ==
  \/ advance' = [advance EXCEPT ![h].at = at] /\ UNCHANGED bounds
  \/ faults < MaxFaults /\ faults' = faults + 1 /\ UNCHANGED <<advance, reloads>>

Refused(h) == advance' = [advance EXCEPT ![h] = IdleAdvance] /\ UNCHANGED bounds

Last(q) == q[Len(q)]
Steps == 1 .. Len(Plan)

\* continueContinuousJourney: the button is there while the page has a result
\* that allows another step.
MayContinue ==
  /\ known /\ shown # NoResult /\ step < Len(Plan)
  /\ mode = "continuous" => Passed(shown)

Continue(h) ==
  /\ MayContinue /\ advance[h].at = "idle"
  /\ advance' = [advance EXCEPT ![h] =
                   [IdleAdvance EXCEPT !.at = "look", !.run = Plan[step], !.result = shown,
                                       !.cookie = cookie]]
  /\ UNCHANGED <<ledger, record, cookie, pageVars, report, bounds>>

\* The request repeats the last advance.
Replays(q) ==
  /\ journey.run # q.run
  /\ journey.previous = Entry(q.run, q.result)

CookieMatches(q) ==
  \/ RunOf[q.cookie] = q.run
  \/ Replays(q) /\ q.cookie = journey.token

\* Faulty variant: a repeated request takes the next run for issued.
ThenClaimed(q) == IF Replays(q) THEN "claim" ELSE "verify"

Then(q) == IF Replays(q) THEN "ensure" ELSE "verify"

\* The record is read; a request that is not refused asks for the step after
\* its own, under a new token or under the one that was recorded.
Look(h) ==
  LET q == advance[h]
      next == IF Replays(q) THEN journey.position ELSE journey.position + 1
  IN
  /\ q.at = "look"
  /\ IF /\ CookieMatches(q)
        /\ Replays(q) \/ journey.run = q.run
        /\ next < Len(Plan)
     THEN /\ advance' = [advance EXCEPT ![h].at = Then(q),
                                        ![h].position = next,
                                        ![h].token = IF Replays(q) THEN journey.token ELSE @]
          /\ UNCHANGED bounds
     ELSE Refused(h)
  /\ UNCHANGED <<ledger, record, cookie, pageVars, report>>

\* The result is in the ledger, as this browser's.
Verified(q) ==
  /\ result[q.run] # NoResult
  /\ mode = "continuous" => Passed(result[q.run])
  /\ result[q.run] = q.result
  /\ BoundTo(q.cookie, Browser)

\* sealByoaHandoffV2 makes a token nobody knows.
Unknown(t) ==
  /\ t \notin {holder[RunOf[t]], journey.token, cookie}
  /\ \A h \in Handlers : t \notin {advance[h].token, advance[h].cookie}

Verify(h) ==
  LET q == advance[h] IN
  /\ q.at = "verify"
  /\ IF Exists(q.run) /\ Verified(q)
     THEN \E t \in Tokens :
            /\ RunOf[t] = Plan[q.position + 1] /\ Unknown(t)
            /\ advance' = [advance EXCEPT ![h].at = "record", ![h].token = t]
            /\ UNCHANGED bounds
     ELSE Refused(h)
  /\ UNCHANGED <<ledger, record, cookie, pageVars, report>>

\* The record after an advance.
Moved(q) ==
  [journey EXCEPT !.position = q.position, !.run = Plan[q.position + 1],
                  !.previous = Entry(q.run, q.result), !.token = q.token]

\* Faulty variant: any position is moved from.
MovableUnchecked(q) == journey.results # <<>> /\ Last(journey.results) = Entry(q.run, q.result)

Movable(q) ==
  /\ journey.run = q.run /\ journey.position = q.position - 1
  /\ journey.results # <<>> /\ Last(journey.results) = Entry(q.run, q.result)

\* ADVANCE_SCRIPT.
Record(h) ==
  LET q == advance[h] IN
  /\ q.at = "record"
  /\ \/ journey = Moved(q) /\ Goes(h, "ensure") /\ UNCHANGED journey
     \/ journey # Moved(q) /\ Movable(q) /\ journey' = Moved(q) /\ Goes(h, "ensure")
     \/ journey # Moved(q) /\ ~Movable(q) /\ Refused(h) /\ UNCHANGED journey
  /\ UNCHANGED <<ledger, mode, saved, cookie, pageVars, report>>

\* The next run is issued unless it is there already under the same token.
Ensure(h) ==
  LET t == advance[h].token IN
  /\ advance[h].at = "ensure"
  /\ IF Exists(RunOf[t]) /\ ~Bound(t)
     THEN Refused(h)
     ELSE Goes(h, IF Exists(RunOf[t]) THEN "claim" ELSE "issue")
  /\ UNCHANGED <<ledger, record, cookie, pageVars, report>>

\* ISSUE_SCRIPT answers again only while the run is ISSUED.
IssueNext(h) ==
  LET t == advance[h].token IN
  /\ advance[h].at = "issue"
  /\ \/ Issue(t) /\ Goes(h, "claim")
     \/ Exists(RunOf[t]) /\ Bound(t) /\ state[RunOf[t]] = "ISSUED" /\ Goes(h, "claim")
        /\ UNCHANGED ledger
     \/ Exists(RunOf[t]) /\ ~(Bound(t) /\ state[RunOf[t]] = "ISSUED") /\ Refused(h)
        /\ UNCHANGED ledger
  /\ UNCHANGED <<record, cookie, pageVars, report>>

ClaimNext(h) ==
  LET t == advance[h].token IN
  /\ advance[h].at = "claim"
  /\ \/ Claim(t, Browser)
     \/ ClaimAnswered(t, Browser) /\ UNCHANGED ledger
  /\ Goes(h, "receive")
  /\ UNCHANGED <<record, cookie, pageVars, report>>

ReceiveNext(h) ==
  LET t == advance[h].token IN
  /\ advance[h].at = "receive"
  /\ \/ Receive(t, Browser) /\ Goes(h, "answer")
     \/ state[RunOf[t]] = "RECEIVED" /\ Goes(h, "answer") /\ UNCHANGED ledger
     \/ state[RunOf[t]] \notin {"CLAIMED", "RECEIVED"} /\ Refused(h) /\ UNCHANGED ledger
  /\ UNCHANGED <<record, cookie, pageVars, report>>

\* The answer sets the cookie, and the page goes to the run it carries.
Answer(h) ==
  LET q == advance[h] IN
  /\ q.at = "answer"
  /\ cookie' = q.token
  /\ IF known
     THEN /\ step' = q.position + 1 /\ stage' = "received" /\ shown' = NoResult
          /\ UNCHANGED <<known, live>>
     ELSE UNCHANGED pageVars
  /\ Refused(h)
  /\ UNCHANGED <<ledger, record, report>>

\* The server stops or the answer is lost, with or without its cookie.
AdvanceDies(h) ==
  LET q == advance[h] IN
  /\ q.at # "idle"
  /\ faults < MaxFaults /\ faults' = faults + 1
  /\ advance' = [advance EXCEPT ![h] = IdleAdvance]
  /\ cookie' \in {cookie} \cup {t \in {q.token} : q.at = "answer"}
  /\ UNCHANGED <<ledger, record, pageVars, report, reloads>>

AdvanceStep(h) == Look(h) \/ Verify(h) \/ Record(h) \/ Ensure(h) \/ IssueNext(h)
                  \/ ClaimNext(h) \/ ReceiveNext(h) \/ Answer(h)

JourneyNext ==
  \/ PrepareIssue \/ PrepareStore \/ OpenLink \/ BootstrapRun
  \/ StartRun \/ (\E x \in Results : FinishRun(x)) \/ ReloadPage
  \/ ReportStep \/ ReportDies
  \/ \E h \in Handlers : Continue(h) \/ AdvanceStep(h) \/ AdvanceDies(h)

JourneySpec == JourneyInit /\ [][JourneyNext]_all

\* The server answers the requests it has, and the agent or its user asks for
\* the next run as long as the page offers it.
FairJourney ==
  /\ JourneySpec
  /\ \A h \in Handlers : WF_all(Continue(h)) /\ WF_all(AdvanceStep(h))

-----------------------------------------------------------------------------
\* What parseContinuousJourneyRedisRecord accepts; it ends a journey it refuses.
Readable ==
  /\ journey.position < Len(Plan) /\ Plan[journey.position + 1] = journey.run
  /\ Len(journey.results) \in {journey.position, journey.position + 1}
  /\ \A i \in DOMAIN journey.results : journey.results[i].run = Plan[i]
  /\ journey.previous = NoEntry <=> journey.token = NoToken
  /\ journey.previous # NoEntry =>
       /\ journey.position >= 1
       /\ journey.previous = journey.results[journey.position]

\* Whatever the order in which reports and advances are served, the record stays
\* readable; and a later run is handed out only when the results of all the runs
\* before it are in the ledger, are those the journey recorded, and, in a continuous
\* journey, are passes; the current run only under the recorded token.
StepsInOrder ==
  /\ Readable
  /\ \A k \in Steps \ {1} :
       holder[Plan[k]] # NoToken =>
         /\ \A j \in 1 .. k - 1 :
              /\ result[Plan[j]] # NoResult
              /\ journey.results[j].result = result[Plan[j]]
              /\ mode = "continuous" => Passed(result[Plan[j]])
         /\ k = journey.position + 1 => holder[Plan[k]] = journey.token

CartOf(k) == IF mode = "continuous" THEN 1 .. k - 1 ELSE {}

\* In a document that knows its journey a run starts on the cart its mode asks
\* for, although two answers to two clicks may arrive at any time.
KnownJourneyCarries == known /\ stage = "started" => live = CartOf(step)

\* No late answer to an earlier click has put back the cookie or the page.
NotPutBack ==
  /\ CookieFits \/ (journey.position = step /\ cookie = journey.token)
  /\ step < Len(Plan) => state[Plan[step + 1]] \notin Terminal \cup {"STARTED"}

\* A page that may continue comes to the next run, after any fault: the button
\* can be pressed until an answer arrives.
AdvanceIsServed ==
  \A k \in Steps :
    (step = k /\ MayContinue /\ NotPutBack) ~>
      (step > k \/ shown = NoResult \/ ~NotPutBack \/ ~known)
=============================================================================
