------------------------------ MODULE OwnerTabs ------------------------------
(***************************************************************************)
(* The owner's side of a demo run.  In the workspace (/demo) the owner     *)
(* edits a suite of cases, queues a run and prepares its handoff; on the   *)
(* source page (/demo/run) the tab polls the server until the agent's      *)
(* results are in, and takes them back.  A tab's sessionStorage outlives   *)
(* its documents and is copied when the tab is duplicated; a Web Lock      *)
(* keeps the suite to one workspace.  The agent and the ledger appear as   *)
(* what a status request can tell of them.                                 *)
(***************************************************************************)
EXTENDS Naturals, FiniteSets, Sequences, SequencesExt

CONSTANTS Tabs,         \* tabs of one browser profile
          First,        \* the tab the suite was made in
          Cases,        \* request cases the suite may hold
          Handoffs,     \* handoffs that may be prepared, numbered from 1
          None,
          Bounds        \* what one behaviour may use; one of these is chosen

VARIABLES page,    \* the page each tab shows
          store,   \* sessionStorage of each tab
          work,    \* React state of a workspace
          watch,   \* React state of a source page
          lock,    \* holder of the suite's Web Lock
          ask,     \* lock requests of the mounted and of a left workspace
          hand,    \* the handoffs, as the server knows them
          report,  \* the owner's report in each tab's storage
          edits, moves, faults,
          bound    \* the bounds of this behaviour; never changes

spent == <<edits, moves, bound>>
tabVars == <<page, store, work, watch, lock, ask, report, spent>>
vars == <<tabVars, hand, faults>>

Verdicts == {"pass", "issue", "incomplete"}
\* Bounds on tabs, the suite to begin with, prepared handoffs, verdicts the agent's
\* runs end with, whether a link may be opened again or expire, cases added or removed,
\* leaves and reloads, and refused, lost or failed requests.
Bound == [tabs : SUBSET Tabs, suite : SUBSET Cases, handoffs : Nat, verdicts : SUBSET Verdicts,
          trouble : BOOLEAN, edits : Nat, moves : Nat, faults : Nat]
Kinds == {"page", "left"}

ASSUME OwnerAssumption ==
  /\ First \in Tabs /\ Handoffs \subseteq Nat \ {0}
  /\ Cases \subseteq Nat /\ IsFiniteSet(Cases) /\ Bounds \subseteq Bound
  /\ None \notin Tabs \X Kinds /\ None \notin {"ISSUED", "STARTED", "SETTLED", "TIMED_OUT", "REVOKED"}

Fault == faults < bound.faults /\ faults' = faults + 1

-----------------------------------------------------------------------------
(* A run of the suite, and what the pages keep of it.                       *)

Batch(plan) == Len(plan) > 1
\* The orders createContractRunQueue may be asked for.
Plans(suite, mode) ==
  {p \in SetToSeqs(suite) :
     IF mode = "regression" THEN \A i, j \in DOMAIN p : i < j => p[i] < p[j] ELSE Batch(p)}

NewQueue(mode, plan) == [mode |-> mode, plan |-> plan, done |-> <<>>]
Done(q) == {q.done[i].case : i \in 1 .. Len(q.done)}
\* Positions of the plan without a result; the first is that of the current case.
Remaining(q) == {i \in DOMAIN q.plan : q.plan[i] \notin Done(q)}
Current(q) == q.plan[Min(Remaining(q))]
\* The builder keeps a stored queue only while the suite still has its cases.
Fitting(q, suite) ==
  IF /\ q # None
     /\ q.mode = "continuous" \/ Len(q.plan) = Cardinality(suite)
     /\ Range(q.plan) \subseteq suite
  THEN q ELSE None

Idle == [step |-> "idle", suite |-> {}, plan |-> <<>>, mode |-> None, run |-> 0]
Shown(s) == [suite |-> s.suite, queue |-> Fitting(s.queue, s.suite), review |-> FALSE,
             selection |-> None, saves |-> <<>>, arm |-> Idle]
NotWorking == None

\* The source page takes its plan from the queue and the suite it finds stored.
Held(plan, suite) ==
  LET at == {i \in DOMAIN plan : plan[i] \in suite} IN
  [k \in 1 .. Cardinality(at) |->
     plan[CHOOSE i \in at : Cardinality({j \in at : j <= i}) = k]]
Watching(s) ==
  [run |-> s.run, link |-> s.link,
   plan |-> IF s.queue = None THEN <<>> ELSE Held(s.queue.plan, s.suite),
   fails |-> 0, state |-> None, refused |-> FALSE, seen |-> <<>>,
   complete |-> FALSE, verdict |-> None, over |-> "no"]
HasSource(s) == s.run # 0 /\ s.link # 0

Unused == [phase |-> "unused", plan |-> <<>>, mode |-> None, state |-> "ISSUED",
           results |-> <<>>, refused |-> FALSE, opened |-> FALSE, gone |-> FALSE]

Init ==
  /\ bound \in Bounds
  /\ page = [t \in Tabs |-> IF t = First THEN "loading" ELSE "closed"]
  /\ store = [t \in Tabs |-> [suite |-> IF t = First THEN bound.suite ELSE {},
                              queue |-> None, run |-> 0, link |-> 0]]
  /\ work = [t \in Tabs |-> NotWorking]
  /\ watch = [t \in Tabs |-> None]
  /\ lock = None
  /\ ask = [t \in Tabs |-> [k \in Kinds |-> "none"]]
  /\ hand = [h \in Handoffs |-> Unused]
  /\ report = [t \in Tabs |-> None]
  /\ edits = 0 /\ moves = 0 /\ faults = 0

-----------------------------------------------------------------------------
(* Documents and the suite's lock.                                          *)

\* A new document in tab t: the old one's state, requests and lock are gone.
Unload(t) ==
  /\ lock' = IF lock # None /\ lock[1] = t THEN None ELSE lock
  /\ ask' = [ask EXCEPT ![t] = [k \in Kinds |-> "none"]]
  /\ work' = [work EXCEPT ![t] = NotWorking]
ToWorkspace(t, s) ==
  /\ Unload(t)
  /\ page' = [page EXCEPT ![t] = "loading"]
  /\ watch' = [watch EXCEPT ![t] = None]
  /\ store' = [store EXCEPT ![t] = s]
ToSource(t, s) ==
  /\ Unload(t)
  /\ page' = [page EXCEPT ![t] = "source"]
  /\ watch' = [watch EXCEPT ![t] = Watching(s)]
  /\ store' = [store EXCEPT ![t] = s]

\* The workspace has read its suite and asks for the lock, if it is available.
Load(t) ==
  /\ page[t] = "loading"
  /\ page' = [page EXCEPT ![t] = "asking"]
  /\ ask' = [ask EXCEPT ![t]["page"] = "asked"]
  /\ UNCHANGED <<store, work, watch, lock, report, spent, hand, faults>>

Decide(t, k) ==
  /\ ask[t][k] = "asked"
  /\ \/ /\ lock = None
        /\ lock' = <<t, k>>
        /\ ask' = [ask EXCEPT ![t][k] = "granted"]
     \/ /\ lock # None
        /\ ask' = [ask EXCEPT ![t][k] = "denied"]
        /\ UNCHANGED lock
  /\ UNCHANGED <<page, store, work, watch, report, spent, hand, faults>>

Enter(t) ==
  /\ page[t] = "asking" /\ ask[t]["page"] \in {"granted", "denied"}
  /\ ask' = [ask EXCEPT ![t]["page"] = "none"]
  /\ \/ /\ ask[t]["page"] = "granted"
        /\ page' = [page EXCEPT ![t] = "workspace"]
        /\ work' = [work EXCEPT ![t] = Shown(store[t])]
        /\ store' = [store EXCEPT ![t].queue = Fitting(@, store[t].suite)]
     \/ /\ ask[t]["page"] = "denied"
        /\ page' = [page EXCEPT ![t] = "refused"]
        /\ UNCHANGED <<work, store>>
  /\ UNCHANGED <<watch, lock, report, spent, hand, faults>>

AfterLeaveKeepsLock(t) ==
  /\ ask[t]["left"] \in {"granted", "denied"}
  /\ ask' = [ask EXCEPT ![t]["left"] = "none"]
  /\ UNCHANGED <<page, store, work, watch, lock, report, spent, hand, faults>>

\* The answer reaches a workspace that was left while it waited.
AfterLeave(t) ==
  /\ ask[t]["left"] \in {"granted", "denied"}
  /\ ask' = [ask EXCEPT ![t]["left"] = "none"]
  /\ lock' = IF ask[t]["left"] = "granted" THEN None ELSE lock
  /\ UNCHANGED <<page, store, work, watch, report, spent, hand, faults>>

Move == moves < bound.moves /\ moves' = moves + 1 /\ UNCHANGED <<edits, bound>>
Resting(t) == work[t] # NotWorking => work[t].saves = <<>> /\ work[t].arm = Idle

\* Another page of the application in the same document: the effect's cleanup.
Leave(t) ==
  /\ page[t] \notin {"closed", "away"} /\ Resting(t) /\ ask[t]["left"] = "none" /\ Move
  /\ page' = [page EXCEPT ![t] = "away"]
  /\ ask' = [ask EXCEPT ![t] = [page |-> "none", left |-> ask[t]["page"]]]
  /\ lock' = CASE lock # <<t, "page">> -> lock
               [] lock = <<t, "page">> /\ page[t] = "asking" -> <<t, "left">>
               [] lock = <<t, "page">> /\ page[t] # "asking" -> None
  /\ work' = [work EXCEPT ![t] = NotWorking]
  /\ watch' = [watch EXCEPT ![t] = None]
  /\ UNCHANGED <<store, report, hand, faults>>

Return(t) ==
  /\ page[t] = "away"
  /\ \/ /\ page' = [page EXCEPT ![t] = "loading"] /\ UNCHANGED watch
     \/ /\ HasSource(store[t])
        /\ page' = [page EXCEPT ![t] = "source"]
        /\ watch' = [watch EXCEPT ![t] = Watching(store[t])]
  /\ UNCHANGED <<store, work, lock, ask, report, spent, hand, faults>>

\* A reload loses the saves that wait and forgets a prepare that is on its way.
Reload(t) ==
  /\ page[t] \notin {"closed", "away"} /\ Move
  /\ IF page[t] = "source" THEN ToSource(t, store[t]) ELSE ToWorkspace(t, store[t])
  /\ UNCHANGED <<report, hand, faults>>

\* The browser copies the storage, not the lock.
Duplicate(t, u) ==
  /\ page[t] \notin {"closed", "away"} /\ page[u] = "closed" /\ u \in bound.tabs
  /\ IF page[t] = "source" THEN ToSource(u, store[t]) ELSE ToWorkspace(u, store[t])
  /\ UNCHANGED <<report, spent, hand, faults>>

-----------------------------------------------------------------------------
(* The workspace.                                                           *)

In(t) == page[t] = "workspace"
Save(suite, armed) == [suite |-> suite, armed |-> armed]

\* applySuite shows the new suite at once and queues its save; the builder then
\* looks again at the stored queue.  A case may be added while a run is queued.
Edit(t) ==
  /\ In(t) /\ ~work[t].review /\ edits < bound.edits
  /\ \E c \in Cases :
       LET s == IF c \in work[t].suite THEN work[t].suite \ {c} ELSE work[t].suite \cup {c} IN
       /\ c \in work[t].suite => work[t].queue = None
       /\ work' = [work EXCEPT ![t].suite = s, ![t].saves = Append(@, Save(s, FALSE)),
                               ![t].queue = Fitting(store[t].queue, s)]
       /\ store' = [store EXCEPT ![t].queue = Fitting(@, s)]
  /\ edits' = edits + 1
  /\ UNCHANGED <<page, watch, lock, ask, report, hand, faults, moves, bound>>

\* The run a review is opened for: the queued one, or any new one of either mode.
Offered(q, suite) ==
  IF q # None THEN {q}
  ELSE UNION {{NewQueue(m, p) : p \in Plans(suite, m)} : m \in {"regression", "continuous"}}

OpenReview(t) ==
  /\ In(t) /\ ~work[t].review /\ work[t].suite # {} /\ Len(work[t].saves) <= bound.edits
  /\ \E q \in Offered(work[t].queue, work[t].suite) :
       /\ Remaining(q) # {}
       /\ store' = [store EXCEPT ![t].queue = q]
       /\ work' = [work EXCEPT ![t].queue = q, ![t].review = TRUE,
                     ![t].selection = [suite |-> work[t].suite, plan |-> q.plan, mode |-> q.mode],
                     ![t].saves = Append(@, Save(work[t].suite, FALSE))]
  /\ UNCHANGED <<page, watch, lock, ask, report, spent, hand, faults>>

CloseReview(t) ==
  LET q == work[t].queue
      kept == IF q # None /\ q.done # <<>> THEN q ELSE None IN
  /\ In(t) /\ work[t].review
  /\ work' = [work EXCEPT ![t].review = FALSE, ![t].selection = None, ![t].queue = kept]
  /\ store' = IF q # None /\ q.done = <<>> THEN [store EXCEPT ![t].queue = None] ELSE store
  /\ UNCHANGED <<page, watch, lock, ask, report, spent, hand, faults>>

\* prepareHandoff returns at once when one is on its way; the dialog closes.
Confirm(t) ==
  /\ In(t) /\ work[t].review
  /\ work' = [work EXCEPT ![t].review = FALSE,
       ![t].arm = IF @ # Idle THEN @
                  ELSE [Idle EXCEPT !.step = "measure", !.suite = work[t].selection.suite,
                                    !.plan = work[t].selection.plan, !.mode = work[t].selection.mode]]
  /\ UNCHANGED <<page, store, watch, lock, ask, report, spent, hand, faults>>

\* The preflight and the contracts of the run; a failure is shown and ends the prepare.
Measured(t) ==
  /\ In(t) /\ work[t].arm.step = "measure"
  /\ \/ work' = [work EXCEPT ![t].arm.step = "save", ![t].saves = Append(@, Save(work[t].arm.suite, TRUE))]
     \/ work' = [work EXCEPT ![t].arm = Idle]
  /\ UNCHANGED <<page, store, watch, lock, ask, report, spent, hand, faults>>

\* One save after the other; the prepare that waited for its own writes the session
\* of the new run and sends its request.
Saved(t) ==
  /\ In(t) /\ work[t].saves # <<>>
  /\ LET next == Head(work[t].saves) IN
     \/ /\ ~next.armed
        /\ work' = [work EXCEPT ![t].saves = Tail(@)]
        /\ store' = [store EXCEPT ![t].suite = next.suite]
        /\ UNCHANGED hand
     \/ \E h \in Handoffs :
        /\ next.armed /\ h <= bound.handoffs /\ \A g \in Handoffs : (hand[g].phase = "unused") = (g >= h)
        /\ work' = [work EXCEPT ![t].saves = Tail(@),
                                ![t].arm = [@ EXCEPT !.step = "post", !.run = h]]
        /\ store' = [store EXCEPT ![t].suite = next.suite, ![t].run = h]
        /\ hand' = [hand EXCEPT ![h].phase = "sent", ![h].plan = work[t].arm.plan,
                                ![h].mode = work[t].arm.mode]
  /\ UNCHANGED <<page, watch, lock, ask, report, spent, faults>>

\* The prepare route: the run, its journey and its short code, or a refusal.
Serve(h) ==
  /\ hand[h].phase = "sent"
  /\ \/ hand' = [hand EXCEPT ![h].phase = "ready"] /\ UNCHANGED faults
     \/ hand' = [hand EXCEPT ![h].phase = "failed"] /\ Fault
  /\ UNCHANGED tabVars

\* The link is stored and the tab goes to the source page; without an answer the
\* workspace stays, with the new session beside whatever link was there.
Prepared(t) ==
  LET h == work[t].arm.run IN
  /\ In(t) /\ work[t].arm.step = "post" /\ hand[h].phase \in {"ready", "failed"}
  /\ \/ /\ hand[h].phase = "ready"
        /\ ToSource(t, [store[t] EXCEPT !.link = h])
        /\ hand' = [hand EXCEPT ![h].phase = "linked"]
        /\ UNCHANGED faults
     \/ /\ \/ hand[h].phase = "failed" /\ UNCHANGED faults
           \/ hand[h].phase = "ready" /\ Fault
        /\ work' = [work EXCEPT ![t].arm = Idle]
        /\ UNCHANGED <<page, store, watch, lock, ask, hand>>
  /\ UNCHANGED <<report, spent>>

-----------------------------------------------------------------------------
(* The source page.                                                         *)

\* CLAIMED, RECEIVED and STARTED are one state here: no poll tells them apart.
ActiveUntilSettled == {"STARTED"}
Active == {"STARTED", "SETTLED"}
Complete(h) ==
  \/ /\ hand[h].mode = "continuous"
     /\ \E i \in DOMAIN hand[h].results : hand[h].results[i] # "pass"
  \/ Len(hand[h].results) = Len(hand[h].plan)
\* The ledger's state of the first run of a handoff; hand[h].state is that of the
\* journey's current run, None while that has not been issued.
FirstState(h) ==
  LET r == hand[h].results IN
  CASE r = <<>> -> hand[h].state
    [] r # <<>> /\ r[1] = "incomplete" -> "TIMED_OUT"
    [] r # <<>> /\ r[1] # "incomplete" -> "SETTLED"

\* Which route a poll asks is decided by the queue stored at that moment.
Batched(t) == store[t].queue # None /\ Batch(store[t].queue.plan)
Found(t) ==
  LET w == watch[t]
      h == hand[w.run] IN
  /\ ~hand[w.link].gone
  /\ w.link = w.run /\ Batched(t) => Batch(h.plan) /\ (h.state # None \/ h.refused)
Stops(batched, refused, state, complete) ==
  (refused /\ state \notin Active) \/ (batched /\ complete)
Misses == 3
Missed(t) ==
  watch' = [watch EXCEPT ![t].fails = @ + 1,
                         ![t].over = IF watch[t].fails + 1 = Misses THEN "error" ELSE @]

Poll(t) ==
  LET w == watch[t]
      h == hand[w.run]
      state == IF Batched(t) THEN h.state ELSE FirstState(w.run)
      stops == Stops(Batched(t), h.refused, state, Complete(w.run)) IN
  /\ page[t] = "source" /\ w.over = "no"
  /\ \/ /\ Found(t) /\ w.link = w.run
        /\ watch' = [watch EXCEPT ![t] =
             [w EXCEPT !.fails = 0, !.state = state, !.refused = @ \/ h.refused,
                       !.seen = IF Batched(t) THEN h.results ELSE @,
                       !.complete = Batched(t) /\ Complete(w.run),
                       !.verdict = IF ~Batched(t) /\ ~stops /\ h.results # <<>>
                                   THEN h.results[1] ELSE @,
                       !.over = IF stops \/ (~Batched(t) /\ h.results # <<>>) THEN "stop" ELSE @]]
        /\ UNCHANGED faults
     \/ /\ Found(t) /\ w.link # w.run
        /\ watch' = [watch EXCEPT ![t].over = "error"]
        /\ UNCHANGED faults
     \/ ~Found(t) /\ Missed(t) /\ UNCHANGED faults
     \/ Fault /\ Missed(t)
  /\ UNCHANGED <<page, store, work, lock, ask, report, spent, hand>>

Cleared(s) == [s EXCEPT !.run = 0, !.link = 0]
Blocks(w) == w.refused /\ w.state \notin Active

\* A handoff nobody has opened is taken back; the queue stays.
CancelSource(t) ==
  LET h == watch[t].link IN
  /\ page[t] = "source"
  /\ ~hand[h].gone /\ FirstState(h) = "ISSUED"
  /\ hand' = [hand EXCEPT ![h].state = "REVOKED"]
  /\ ToWorkspace(t, Cleared(store[t]))
  /\ UNCHANGED <<report, spent, faults>>

RecoverFromClaimFailure(t) ==
  /\ page[t] = "source" /\ Blocks(watch[t])
  /\ ToWorkspace(t, Cleared(store[t]))
  /\ UNCHANGED <<report, spent, hand, faults>>

\* The result of a single run enters the queue, under the case its session names.
ContinueRun(t) ==
  LET w == watch[t]
      q == store[t].queue
      case == hand[w.run].plan[1] IN
  /\ page[t] = "source" /\ w.verdict # None
  /\ q # None /\ Remaining(q) # {} /\ Current(q) = case
  /\ ToWorkspace(t, Cleared([store[t] EXCEPT
       !.queue.done = Append(@, [case |-> case, verdict |-> w.verdict, of |-> w.run])]))
  /\ UNCHANGED <<report, spent, hand, faults>>

StoppedShort(w) == hand[w.run].mode = "continuous" /\ \E i \in DOMAIN w.seen : w.seen[i] # "pass"
MatchesCount(w) == Len(w.plan) = Len(hand[w.run].plan)
\* What createOwnerJourneyReport compares before it accepts a report.
MatchesPlan(w) ==
  /\ Len(w.plan) = Len(hand[w.run].plan)
  /\ \A i \in DOMAIN w.seen : w.plan[i] = hand[w.run].plan[i]
Closable(t, w) ==
  /\ \A i \in DOMAIN w.seen : hand[w.run].plan[i] \in Range(store[t].queue.plan)
  /\ MatchesPlan(w)
  /\ store[t].queue.mode = "continuous" =>
       \A i \in 1 .. Len(w.seen) - 1 : w.seen[i] = "pass"

FinishJourney(t) ==
  LET w == watch[t] IN
  /\ page[t] = "source" /\ w.complete /\ ~StoppedShort(w)
  /\ Batched(t) /\ Closable(t, w)
  /\ report' = [report EXCEPT ![t] = [run |-> w.run, plan |-> w.plan, results |-> w.seen]]
  /\ Unload(t)
  /\ page' = [page EXCEPT ![t] = "away"]
  /\ watch' = [watch EXCEPT ![t] = None]
  /\ store' = [store EXCEPT ![t] = Cleared([@ EXCEPT !.queue = None])]
  /\ UNCHANGED <<spent, hand, faults>>

ReturnToStopped(t) ==
  /\ page[t] = "source" /\ watch[t].complete /\ StoppedShort(watch[t])
  /\ ToWorkspace(t, Cleared([store[t] EXCEPT !.queue = None]))
  /\ UNCHANGED <<report, spent, hand, faults>>

-----------------------------------------------------------------------------
(* The agent and the server, as far as a poll can tell.                     *)

Server(h, f) == hand' = f /\ hand[h].phase = "linked" /\ ~hand[h].gone /\ UNCHANGED tabVars

\* The link of a handoff opens its first run.
Claim(h) ==
  /\ FirstState(h) = "ISSUED"
  /\ Server(h, [hand EXCEPT ![h].state = "STARTED", ![h].opened = TRUE]) /\ UNCHANGED faults
\* An opening that is refused leaves a receipt: of a handoff that is no longer to
\* be had, or because the ledger could not be asked.
ClaimFails(h) ==
  /\ bound.trouble
  /\ Server(h, [hand EXCEPT ![h].refused = TRUE])
  /\ \/ FirstState(h) # "ISSUED" /\ UNCHANGED faults
     \/ FirstState(h) = "ISSUED" /\ Fault
EndRun(h) ==
  /\ hand[h].state = "STARTED"
  /\ \E v \in bound.verdicts :
       Server(h, [hand EXCEPT ![h].state = IF v = "incomplete" THEN "TIMED_OUT" ELSE "SETTLED",
                              ![h].results = Append(@, v)])
  /\ UNCHANGED faults
\* The advance of a batch moves the record to the next run, issues that run and then
\* claims it; whatever stops it, a later one goes on where it stopped.
Advance(h) ==
  /\ hand[h].results # <<>> /\ hand[h].state \in {"SETTLED", "TIMED_OUT"} /\ ~Complete(h)
  /\ Server(h, [hand EXCEPT ![h].state = None]) /\ UNCHANGED faults
IssueNext(h) ==
  /\ hand[h].state = None
  /\ Server(h, [hand EXCEPT ![h].state = "ISSUED"]) /\ UNCHANGED faults
ClaimNext(h) ==
  /\ hand[h].results # <<>> /\ hand[h].state = "ISSUED"
  /\ Server(h, [hand EXCEPT ![h].state = "STARTED"]) /\ UNCHANGED faults
Expire(h) ==
  /\ bound.trouble
  /\ Server(h, [hand EXCEPT ![h].gone = TRUE]) /\ UNCHANGED faults

-----------------------------------------------------------------------------
OwnerStep(t) ==
  \/ Load(t) \/ Enter(t) \/ AfterLeave(t) \/ Leave(t) \/ Return(t) \/ Reload(t)
  \/ Edit(t) \/ OpenReview(t) \/ CloseReview(t) \/ Confirm(t) \/ Measured(t) \/ Saved(t)
  \/ Prepared(t) \/ CancelSource(t) \/ RecoverFromClaimFailure(t)
  \/ ContinueRun(t) \/ FinishJourney(t) \/ ReturnToStopped(t)

Next ==
  \/ \E t \in Tabs : OwnerStep(t) \/ Poll(t)
  \/ \E t \in Tabs, k \in Kinds : Decide(t, k)
  \/ \E t, u \in Tabs : Duplicate(t, u)
  \/ \E h \in Handoffs :
       \/ Serve(h) \/ Claim(h) \/ ClaimFails(h) \/ EndRun(h)
       \/ Advance(h) \/ IssueNext(h) \/ ClaimNext(h) \/ Expire(h)

Spec == Init /\ [][Next]_vars

\* The page's timer asks again until the page stops it.
FairSpec == Spec /\ \A t \in Tabs : WF_vars(Poll(t))

-----------------------------------------------------------------------------
\* The lock belongs to the workspace that shows the suite, or to one that is about
\* to learn it was granted: no two tabs edit one suite, however a workspace is left,
\* reloaded or duplicated, and none that is gone keeps the others out.
OneWorkspace ==
  /\ \A t \in Tabs : In(t) => lock = <<t, "page">>
  /\ lock # None =>
       \/ ask[lock[1]][lock[2]] = "granted"
       \/ lock[2] = "page" /\ In(lock[1])

\* Every verdict the owner has been given is the one the agent's run ended with, for
\* the case it was for, though a tab may hold the queue, the session and the link of
\* different runs: what a report lists is the whole plan of its run.
VerdictsAreTheRuns ==
  \A t \in Tabs :
    /\ page[t] = "source" => LET w == watch[t] IN
         /\ IsPrefix(w.seen, hand[w.run].results)
         /\ w.verdict # None => w.verdict = hand[w.run].results[1]
    /\ store[t].queue # None => \A i \in DOMAIN store[t].queue.done :
         LET d == store[t].queue.done[i] IN
         d.case = hand[d.of].plan[1] /\ d.verdict = hand[d.of].results[1]
    /\ report[t] # None =>
         /\ report[t].plan = hand[report[t].run].plan
         /\ report[t].results = hand[report[t].run].results

\* An owner who watches a run that came to its end learns how it ended, also when the
\* link was opened twice and whenever the page stopped asking, unless
\*   - the tab left the page, its queue no longer is that of the run, or the link expired;
\*   - three polls in a row failed or found nothing, which the page shows as an error; or
\*   - a poll read the receipt of a refused opening while the run it found was not yet
\*     issued or claimed, had timed out or was taken back: the page shows the handoff as
\*     blocked and asks no more, though the run goes on.
Watches(t, h) == page[t] = "source" /\ watch[t].run = h
GivenUp(w) == w.over = "error"
TurnedAway(w) == w.refused /\ w.state \in {None, "ISSUED", "TIMED_OUT", "REVOKED"}
Learned(w, h) == w.seen = hand[h].results \/ w.verdict = hand[h].results[1]
OwnerLearns ==
  \A t \in Tabs, h \in Handoffs :
    (/\ Watches(t, h) /\ watch[t].link = h /\ Batched(t) = Batch(hand[h].plan)
     /\ hand[h].results # <<>> /\ Complete(h))
    ~> \/ ~Watches(t, h) \/ hand[h].gone
       \/ Learned(watch[t], h) \/ GivenUp(watch[t]) \/ TurnedAway(watch[t])

\* byoa-runner-live-v2.tsx:1261: "The claim stopped before any request, tool, or
\* native invocation was exposed", says the page of a handoff it shows as blocked.
BlockedBeforeExposed ==
  \A t \in Tabs : page[t] = "source" /\ Blocks(watch[t]) => ~hand[watch[t].run].opened

=============================================================================
