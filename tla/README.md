# Verification of Thurstone

Thurstone tests what WebMCP tools *mean*: a page registers tools, an agent calls
them on a small checkout, and every trial leaves a signed, replayable record.
This directory holds TLA+ modules of the parts of Thurstone whose order of steps
matters, TLC configurations that check them on small instances, and TLAPS proofs
of the results that matter most. `PROJECT.json` is the index: components, runs,
one mutant per property, the lines each definition stands for, hazards, findings
and theorems.

Contents: [the system](#the-system) · [the modules](#the-modules) ·
[the runs](#the-runs) · [fairness](#fairness) · [proofs](#proofs) ·
[findings](#findings) · [observations](#observations) ·
[what is not modelled](#what-is-not-modelled) · [plan](#plan) · [use](#use)

## The system

Two products share the code. The *laboratory* calibrates a model on fixed cases
with a paid provider under a lifetime budget (`src/lib/probe`, `scored`, `judge`,
`repair`, `successor-eval`). The *demo* hands a test to an agent the owner brings
along, by a one-time link (`src/lib/demo`). Both run the trial on the same
checkout (`src/lib/domain`) through the same tool registry (`src/lib/webmcp`).

```
 owner's tabs ── prepare/revoke/poll ──► Handoff ledger ◄── bootstrap/control/report ── Agent runner page
                                            ▲   (Redis, Lua)                               │ registers
                  Continuous journey ───────┘                                              ▼
                                                                     Tool registry ── native WebMCP ── agent
 calibration page ── recover/issue/decide/admit/complete ──► Probe service                 │ handler call
                                                             │        │                    ▼
                                      run index, continuation┘        └► Probe lifetime   Checkout session
                                      and completion records (Redis)     guard (Redis)
 Scored service, Judge service, Repair, successor evaluation ─────────────►┘
```

### Components

"Hard" names what a test would hardly reach; "correct when" what the models, or
those still to be written, say of it. Status: **M** modelled, **P** partly,
**–** not modelled.

| component | | state | operations | hard | correct when |
|---|---|---|---|---|---|
| Checkout session `lib/domain` | M | cart, pending checkout, operation tombstones, trajectory, archives, halt, reset hold, promise tail | five tool calls, `hardReset`, `releaseResetAdmission`, `abandonResetAdmission`, subscribe | calls queue on each other's awaits; an abort falls before or after the commit; subscribers and sinks fail | an operation takes effect once, replays agree, the trace is honest, a reset is certified from the state it released |
| Tool registry `lib/webmcp/registry-manager.ts` | M | leases, registration objects, snapshot, running calls, consumer holds, one transition | acquire, release, reconcile, execute, fail closed, quarantine | every step awaits the browser, and leases come and go during the wait | ready means exactly the catalog, a registration in use stays, each request is done or refused |
| Probe lifetime guard `lib/probe/ledger.ts` | M | one Redis hash: counters, caps, one record per paid call | initialize, issue, begin, settle known/uncertain, reap, migrate, status | callers retry, time out and answer late; money hangs on the answer | no drift, no overspending, a call in doubt closes the guard |
| Probe service `lib/probe/service.ts`, `run-index.ts`, `continuation-store.ts` | P | run index, document ownership, continuation, authorization, decision, native and completion records | recover, issue, decide, native admission, complete, acknowledge, clear | one request spans three stores; each document may stop anywhere; leases and tokens expire | one inference and one execution per case, true rows, recoverability |
| Handoff ledger `lib/demo/handoff-ledger-v2.server.ts` | M | one expiring hash per run, two sorted sets | issue, claim, receive, start, settle, time out, reveal, revoke, report | the scripts alone decide between tabs, timers and an owner who revokes | exact slots, one context per run, the hidden contract only after the end |
| Handoff envelope, short codes, claim receipts | P | sealed token, short code, failure receipt | seal, open, redeem | expiry | a token names one run |
| Agent runner page `components/demo/byoa-runner-live-v2.tsx` | P | phase, gate, timer, finalizer, session storage | bootstrap, start, register, gate a call, finalize, report, reload | timer, call, catalog error and reload race to end one run | one admitted call, no verdict without it, always an end |
| Continuous journey `lib/demo/continuous-journey.server.ts` | M | plan, position, token and results of the record; the page's journey and cookie | store, advance (seven Redis calls), report | two clicks at once, a server that stops in between, a lost answer | runs are handed out in order, the next one is always reached, the cart is carried |
| Probe policy migrations `lib/probe/ledger.ts`, `policy-v04-`, `policy-v05-migration.server.ts` | P | a receipt for each policy left behind; what one run of the command has read | read the status, scan, read each authorization, run the script, read back | the reads are not atomic and servers go on; the command stops anywhere and is repeated, in two builds | one receipt per policy left, which lists every call made before it as it is kept today |
| Probe credentials | P | signed and encrypted tokens | seal, open, activate | lapse between two requests | a token binds one case and its sealed rows |
| Fallback runner | – | a browser process per trial | the four requests from a server | as Probe service | as Probe service |
| WebMCP runtime | – | representation probe, identifier per execution | observe, dispatch | catalog replaced between observation and dispatch | one execution per identifier |
| Tool catalog | P | – | catalog of a checkout state | – | each state has its tools |
| Journey plan draft | P | draft of a suite | add, remove, order | – | a plan names distinct runs |
| Run queue and tab lease `lib/demo/contract-run-queue.ts`, `suite-tab-lease.ts`, `suite-storage.ts`, `components/demo/owner-demo-v2.tsx` | M | queue, suite, session and link in tab storage; a Web Lock; the saves in flight | load, enter, edit, review, confirm, prepare, save, poll, continue, finish, leave, reload, duplicate | two tabs; a tab left while its lock is asked for; queue, session and link of different runs | one workspace per suite, verdicts of the run and case they are shown for, the owner learns the end |
| Contract diagnosis | – | – | pure: contract × observation → diagnosis | corner cases | equals a reference definition |
| Regression store | – | saved cases in storage | save, evict, rerun | budget limit | no saved case is silently lost |
| Scored run store `lib/scored/run-store.server.ts` | M | anchor, data, evidence, owner lease | reserve, record an attempt, record a failure, bind, seal, acknowledge | data expire while an attempt is recorded; a stop between the seal and its use | rows are final, evidence is the log, a terminal log verifies |
| Scored service `lib/scored/service.server.ts`, `guard.server.ts` | P | continuation records, guard context | issue, decide, native, complete, report failure, reveal, recover, acknowledge | a failure reported while the call it replaces is being dispatched; a retry of what was done | every paid call is in the log, a run ends and is acknowledged |
| Judge service `lib/judge/service.server.ts` | M | authorization anchor, receipt, doubt record | decide, status, recover, reap an orphan | a stop between anchor, grant, call, receipt and settlement; two requests that draw two tokens | one public call for ever, clients never told the contrary |
| Judge collateral proof | – | – | verify files against literals | – | data |
| Semantic freeze and revision | – | write-once records | freeze, revise | two freezes at once | first freeze stays |
| Semantic evaluation | – | – | pure scoring | – | equals a reference definition |
| Repair `lib/repair/service.server.ts` | P | permanent receipt | read, authorize, call, keep, settle, seal | a stop after the call; two requests at once | one paid call, never denied |
| Successor evaluation `lib/successor-eval` | P | claim and receipt | read, authorize, call, keep, settle | a stop after the claim | one paid call and one receipt |
| Invocation integrity | – | – | pure verifier | – | equals a reference definition |
| Checkout traces and proof bundles | P | traces, archives | append, export | – | the trace tells the outcome |
| Results and evidence package | – | – | read-only projections | – | – |
| Studio | – | draft in one document | edit | – | – |
| Provider clients | – | – | one HTTP request | – | known, refused or uncertain |
| HTTP routes | P | – | parse and call a service | a client goes away between two calls | the services' guards |
| Pages and components | P | React state | discipline of calls | – | one reset at a time, requests in order |
| Scripts and evidence | P | frozen files | operator commands | an operator reaps while a request runs | the services' guards |

### How components interact

- The agent's call arrives at the browser, which runs the handler the **Tool
  registry** registered; the handler enqueues a command on the **Checkout
  session**. What the session exposes decides the catalog, and a change of it
  asks the registry for a transition.
- The **Agent runner page** wraps that call in a gate that admits one call, and
  tells the **Handoff ledger** how the run ended before it may read the hidden
  contract. The **Continuous journey** issues, claims and receives later runs in
  the same ledger.
- The **owner's tabs** prepare a handoff and poll its status. What a tab knows of a
  run is in its session storage in three places (queue, session, link) that are
  written at different times; the suite itself is kept to one tab by a Web Lock.
- **Repair**, **successor evaluation** and the **judge lane** follow each other in one
  lifetime: each asks the same guard, and each writes the provider's answer to a
  permanent store before it settles the call.
- The **Probe service** asks the **Probe lifetime guard** before it pays, and
  keeps what a recovering document needs in its own records. Redis runs each Lua
  script atomically; nothing makes two scripts atomic.

## The modules

| module | models | abstract specification | instance |
|---|---|---|---|
| `ProbeLedger` | the guard, script by script | `CallBudget` | `MCProbeLedger` |
| `PolicyMigration` | the commands that migrate the guard's policy, over `ProbeLedger` (EXTENDS), read by read | `ProbeLedger`, and through it `CallBudget` | `MCProbeLedger` |
| `CallBudget` | a bounded number of calls, one at a time; each ends with a known cost, possibly after doubt, and while one is pending or in doubt no other is made | – | – |
| `CheckoutSession` | the session, split at each await, with the page's use of the reset hold | `OnceOnlyCheckout` | `MCCheckoutSession` |
| `OnceOnlyCheckout` | an operation identifier is used once in the life of the document, and only its use moves the cart's revision | – | – |
| `ToolRegistry` | leases, transition, calls and holds | – | `MCToolRegistry` |
| `CalibrationRun` | documents, requests and records of one calibration run over `CallBudget` | (uses `CallBudget` as its guard) | `MCCalibrationRun` |
| `HandoffLedger` | the handoff ledger, script by script | `OneTimeHandoff` | through `MCAgentRunner` |
| `OneTimeHandoff` | a run is taken by one context, runs, is over, and only then shown to it; one nobody took may be withdrawn | – | – |
| `AgentRunner` | the agent's page over `HandoffLedger` (EXTENDS), beside another context that calls any script | `OneTimeHandoff`, through the ledger | `MCAgentRunner` |
| `ContinuousJourney` | the journey over `HandoffLedger` (EXTENDS) | – | `MCContinuousJourney` |
| `ScoredRun` | a scored phase: store, service, runner, each store call a step | – | `MCScoredRun` |
| `PaidCalls` | Repair, successor evaluation and judge over `ProbeLedger` (EXTENDS) | – | `MCPaidCalls` |
| `OwnerTabs` | the owner's workspace and source page in the tabs of one browser | – | `MCOwnerTabs` |
| `ProbeProofs` | theorems about `ProbeLedger` and what extends it: `PolicyMigration`, `PaidCalls` | – | – |
| `HandoffPagesProofs` | theorems about what extends `HandoffLedger`: `AgentRunner`, `ContinuousJourney` | – | – |
| `HandoffLedgerProofs`, `CheckoutSessionProofs`, `ToolRegistryProofs`, `CalibrationRunProofs`, `ScoredRunProofs`, `OwnerTabsProofs` | theorems about the module they are named for | – | – |

Operators whose names contain a variant of another (`SlotFreeOffByOne` beside
`SlotFree`) are the plausible mistakes the mutants of `PROJECT.json` put in the
code's place; no action of the specification uses them otherwise.

### How state and actions correspond to the code

**`ProbeLedger`.** A Lua script is atomic, so each is one action: `Initialize`,
`Issue`, `Begin` (the grant, which first marks a lapsed token expired, refuses while
a lease is stale, and halts the guard when a drift check trips), `SettleKnown`,
`SettleUncertain`, `Reap`, and `MigratePolicy` for what the migration scripts leave
in the guard. The status script only reads. A script that refuses writes
nothing: a stuttering step. The counters the hashes keep (`claimed`, `pending`,
`known`, `uncertain`, `counts` and the money) are variables of their own beside the calls they
count; that they agree is a property, not a definition. Callers are nobody's
variable: any call may come at any time with any known call, response, cost and
digest, which covers every retry, race and late answer. The policy has versions,
since a migration changes the limits under the calls already made.

**`PolicyMigration`.** `run[b]` is the local state of one run of the command in one
build: `ReadStatus`, `ScanKeys`, one `ReadRecord` for each authorization, then the
script (`MigrateNew`, or `MigrateExisting` when the receipt is there) with what was
read, and `Confirm`, which reads the receipt and the status back. Between any two of
them the servers act (`ServeIssue`, `ServeCall`, `ServeOther` are the guard's actions,
with the policy a token was issued under, which a server of another policy does not
take), another build migrates, or the command stops and is repeated (`Stop`). The
source has three such commands, one for each migration, which differ in two respects:
v03 passes over authorizations that are no known call (`Lenient`), and v05's script
takes the inventory of keys again and expects one token that was never used
(`Sealed`, `Tombstones`); v04 does neither. A version of the model says which kind its
migration is, so that one module stands for the three.

**`CheckoutSession`.** The promise tail is the sequence of waiting requests; its
head runs. `Start`, `Hashed`, `HashFailed`, `Notified`, `Archived`, `Delivered`,
`Catch` are the code between two awaits; `Abort` may come at any point. Reducers
(`CartUpdate`, `CheckoutRequest`, `CheckoutCancel`) keep quantities and the
pending checkout; totals and prices follow from those and are left out.
`Inspect`, `Release` and `Abandon` are the Lab page's use of the hold: it does
one reset at a time, and the model keeps that discipline.

**`ToolRegistry`.** A transition has a program counter over its awaits (quiesce,
register each tool, discover, roll back, fail closed); `Acquire` and `GiveUp`
may fall in each of them and abort it. A lease may ask for no tool at all, as
Studio does once its package is frozen (`studio-client.tsx:281`). A registration is an object, so that a
tool that is registered again is another object, and the timeout of a transition
is a step that may come whenever it waits. The browser's registry is external:
it may refuse a registration, ignore it, or fail to show it.

**`CalibrationRun`.** A document sends one request at a time; `request[d]` and
`step[d]` say which and how far its server has come. Each script of
`service.ts`, `run-index.ts` and `continuation-store.ts` is a step; the guard
read once when a request starts is kept in `seen[d]`, as the code keeps it.
`Fault` spends one lost reply, failed script or uncertain provider answer;
`Crash` stops a document anywhere, `LeaseExpires` and `TokenExpires` come any
time. Seal, settle and advance are three scripts, in the code's order.

**`HandoffLedger`.** One action per script. The hash of a run is the functions
at that run (`state`, `holder`, `context`, ...) and is gone once `now` reaches its expiry
(`Exists`); `rate` and `active` are the two sorted sets, pruned only at an issue, as in the
code. `Tokens` are envelopes: two tokens may name one run.

**`AgentRunner`.** The page's phase and gate, one request in flight per kind
(`Send`, `Serve`, `Drop`, `Reply`): a request may be served although its document
is gone or its reply lost. The finalizer is a chain of steps, one per await.
`Reload` keeps the session storage and drops the rest.

**`ContinuousJourney`.** The advance route is split at each call to Redis
(`Look`, `Verify`, `Record`, `Ensure`, `IssueNext`, `ClaimNext`, `ReceiveNext`,
`Answer`), once per handler; `AdvanceDies` stops it between two of them. A fault
is a stopped server, a lost answer (with or without its cookie set) or a script
the Redis client repeats. The end of a run is one step; `AgentRunner` has its
detail.

**`ScoredRun`.** The anchor, the data and the evidence are the three hashes of
`run-store.server.ts`; the guard is what its scripts do to this phase's grants
(`grant`). A request is served as `main`, or goes on as the `orphan` when the runner
has given it up (`LoseReply`), so that a late write of one request falls between
the store calls of the next. `Authenticate` is `authenticateSession`, with the mode
of the operation; each later step is one store or guard call in the code's order.
The runner (`client`) is `scripts/scored-run.ts`: it recovers, asks for a trial,
reports a failure, reveals and acknowledges, and starts again at `RestartRunner`. An
evidence digest is the log and the guard's counters it was computed with, since the
code hashes both.

**`PaidCalls`.** The three services share one shape: read the store and the guard,
anchor or issue the authorization, begin, call, keep the receipt, settle, seal. Each
script is a step; `Returned` says what follows when its reply is lost (the request
throws, although the script wrote) and `Die` stops a request anywhere. The judge
lane adds its recovery: an orphaned authorization is recorded as doubtful, reaped
once its lease is over, and the lane is closed. `told` collects what the clients
have been answered. The lifetime is entered at any of the three stages, because a
service is asked only while its guard check can pass.

**`OwnerTabs`.** `store` is a tab's session storage, `work` and `watch` the React
state of the two pages, `ask` and `lock` the Web Lock with a pending request of the
mounted and of a left workspace. `Confirm`, `Measured`, `Saved` and `Prepared` are
`prepare` between its awaits; saves are a queue, as in `owner-demo-v2.tsx`. `Poll` is
one status request with the page's reading of it; three failures end it. The
agent's side is `Claim`, `ClaimFails`, `EndRun`, `Advance`, `IssueNext`, `ClaimNext` and
`Expire`: what a status request can tell of the ledger and the journey. `Advance`,
`IssueNext` and `ClaimNext` are the awaits of the advance route: while the record has moved
and the next run is not issued a poll finds no state, then `ISSUED`. `CLAIMED`, `RECEIVED`
and `STARTED` are one state, and a result enters ledger and journey at once.

## The runs

Every property has a mutant: a plausible mistake in one mapped definition under
which TLC finds the property violated by the same configuration.

| run | what it asks | bounds, and why they are enough |
|---|---|---|
| `probe_ledger` | the guard's fields are its calls (`GuardMatchesCalls`), no drift check trips (`NeverHaltsByDrift`), caps and money (`SpendIsCapped`), receipts are the history (`HistoryIsKept`), refinement of `CallBudget`; all with migrations running | three calibration tokens (only such calls can be migrated), one slot, clock to 2, lease and token life 1: a call can lapse, be reaped and be answered late while another waits for the slot. Two migrations, after the first call and after the second: a lenient one, which takes slots from the judge, and a sealed one that expects an unused expired token, so that the third token is called or left. Two runs of the command; one commit, since a build of another is refused by the receipt. Two responses: the two calls a migration lists need one each. Responses, digests and runs are symmetric |
| `checkout_session` | replies of one operation agree, the pending checkout is that of the cart, aborts and failures are told truly, a receipt is released from the fixture, whatever waits can go on (`NothingIsStuck`), refinement of `OnceOnlyCheckout` | three requests over ten commands, two identifiers, two items, two tombstones: an identifier is used for two commands, repeated, and repeated across a reset; the tombstone limit is reached |
| `registry` | ready means exact, held registrations stay, names keep their contract, requests settle | two leases, four registration objects, four catalogs (none, two contracts of one name, a tool that comes and goes), one call and one browser fault: a lease is superseded in each wait, with and without a call running |
| `registry_supersede` | a lease that supersedes a release is served – **violated** | no calls, no faults, one catalog |
| `calibration` | one inference and one execution per case, rows tell the truth, the index counts the sealed rows, a document that owns the revision seals its case unless a grant was lost or a token lapsed | two cases (the index must move on), two documents (one crashed or slow, one that recovers), one fault. A behaviour begins with none, one or both cases sealed by an earlier document, so that the last case, the reveal and the acknowledgement are reached with two documents as well |
| `agent_runner` | slots are open runs, an observation fits its lifetime, a judged call was made and no other was admitted, an armed observation is decided, refinement of `OneTimeHandoff` | two runs and one slot, another context that calls whatever script it can, one reload (`MaxDocs` 2), clock to 4 with life 3: a run expires unended, and its slot and its place in the rate window go to the other |
| `journey` | runs in order and a record that can be read, a known journey carries its cart, the next run is served | three runs (a middle one with both neighbours), the later ones with a second token to seal, two handlers, one fault, one reload, both modes |
| `scored` | paid calls are in the log and no row denies one but in one race, a terminal log verifies, evidence is the log, rows are final, the run ends, what is sealed is acknowledged | two cases, so that one is not the last, each with its replacement; one reply given up, one stop (a dead request, a restart or an expiry) |
| `scored_uncertain` | an ended run is sealed – **violated** | one case, nothing lost, nothing stopped |
| `paid_calls` | one paid call per service, kept before it is settled; answers agree; a granted judge call is concluded | two requests at once, two judge tokens (two requests draw different ones), one lost reply or dead request, clock to 2 with lease and authorization life 1 and the window closing at 2: each can lapse alone |
| `owner_tabs` | one workspace per suite, verdicts are those of the run, the owner learns the end unless the page gave up for a reason `OwnerLearns` names | one of four bounds per behaviour, each for its own question: two tabs with one leave, reload or duplicate, and a run that nothing disturbs (`TwoTabs`); two runs of a case in one tab with different verdicts, two leaves and a fault (`TwoRuns`); a batch of two whose suite is edited (`OneBatch`); a suite that grows from one case to two (`Growing`); in the last three a link is opened again or expires |
| `owner_blocked` | a handoff shown as stopped before exposure was not opened – **violated** | one run, nothing fails |

`CHECK_DEADLOCK FALSE` appears in every configuration because each of these
systems may rest: a document that is closed, a ledger nobody calls, a clock or a
number of requests that has reached its bound. That nothing waits that should
move is the subject of the liveness properties, not of deadlock checking.

Bounds with a name: `MaxNow` (clock), `MaxLeases`, `MaxObjects`, `MaxCalls`,
`MaxFaults`, `MaxDocs`, `MaxReloads`, `MaxLost`, `MaxStops`, `Bounds` (of `OwnerTabs`),
`MaxTombstones` (the last one is the code's own limit, made small).

## Fairness

- `CheckoutSession` has no fairness: that no call waits for good is the invariant
  `NothingIsStuck` (whatever is unsettled has a step that is not an arrival or a signal),
  which is stronger than the leads-to it stands for.
- `ToolRegistry.FairSpec`: the manager's own steps run, and the browser answers
  `registerTool`. `FairCallsSpec` adds that handlers and consumer calls end:
  `failClosed` waits for them without a bound (see [observations](#observations)),
  so `RequestsSettle` needs it and the code does not give it by itself.
- `CalibrationRun.FairSpec`: a document that has not crashed goes on. Crashes,
  faults and expiries are never fair.
- `AgentRunner.FairRunner`: time passes, the timer fires once due, a request is
  served or fails, and the finalizer's continuations run. Nothing obliges the
  agent to call or the handler to return.
- `ContinuousJourney.FairJourney`: the user who may continue presses the button
  again, and a handler that is running goes on, or is stopped within the faults.
- `ScoredRun.FairSpec`: the operator runs the script until it is done, and the request
  it waits for gets its turn. A request that was given up may never run again.
- `PaidCalls.FairPaid`: a request that is not killed runs on, time passes, and the
  judge page is asked for its decision again and again (strongly fair, since both
  places for a request may be taken in between).
- `OwnerTabs.FairSpec`: the page's timer polls until the page stops it. Nothing
  obliges the owner, the agent or the ledger to move.

## Proofs

Checked by TLAPS for every value of the constants under the named assumptions of the
modules. These say that the sets to be counted are finite, that lifetimes and limits are
positive, that a sentinel (`NoToken`, `NoRow`, `NoDigest`, `None`) is no member of the set
it stands outside of, and:

| assumption | says besides |
|---|---|
| `LedgerAssumption`, `PolicyAssumption` | limits are numbers; a next policy has room for the calls it takes over |
| `MigrationAssumption`, `ReceiptAssumption` | a migration expects at most one unused token |
| `HandoffAssumption` | a token names one run |
| `JourneyAssumption` | a plan has at least two runs and names none twice, as `continuous-journey.server.ts` checks |
| `SessionAssumption` | a command that changes the cart has an operation identifier, as the tools' schemas ask |
| `CasesAssumption`, `DecisionsAssumption`, `NullAssumption` | a phase has at least one case |
| `PaidAssumption` | the three services' tokens are the guard's, each of its own purpose; the ceiling has room for two calls and the first policy for a repair and a revised one; every known or doubtful answer has a digest |
| `RegistryAssumption` | a catalog names no tool twice |
| `RunAssumption` | a run has at least one case |
| `RunnerAssumption` | the page's token and context are among the ledger's |
| `OwnerAssumption` | the first tab is one of the tabs; handoffs and cases are numbers, handoffs from 1 |

The bounds that only TLC needs (`MaxNow`, `MaxFaults`, `MaxLost`, `Bounds`, ...) are any
numbers in the proofs.

Every proof of an invariant has the same shape: the property is a part of, or follows
from, a conjunction of named parts that the steps preserve, and there is one lemma for
each action or kind of action.

**`ProbeProofs`, the guard.** `TypeCorrect`, `NeverDrifts`, `SpendCapped`. The type
alone is not inductive: a decrement needs its counter to be positive, and the
drift checks compare counters with each other. The inductive invariant is

    IInv == TypeOK /\ Bound /\ Counted /\ Conserved /\ Marked /\ NeverHaltsByDrift

`Counted` says that the pending and uncertain counters are the cardinalities of
the calls in that state (so a call in the state a script requires makes the counter
it takes from positive) and that a lease is held exactly in flight; `Conserved` is
the arithmetic `BEGIN_SCRIPT` compares, the money included; `Marked` says when the
guard has a halt reason or names a call in doubt; `Bound` that the subject of an
issued token names one. The proof has one step per action; what changes in a
cardinality when one call moves is a lemma about sets, cited in each.

Its second part proves `GuardIsItsCalls` and `ImplementsBudget`, both under
`MaxConcurrency <= 1`; the code has `PROBE_MAX_CONCURRENCY = 1` (`policy.ts:29`).
With two calls in flight both fail: the guard has room for the name of one doubtful
call, and the settlement of that one reopens it over the other. The invariant extends
the one above,

    BInv == IInv /\ Tallied /\ Serial

`Tallied` makes the counters that are never decremented cardinalities too (a call has a
sequence number exactly once it was granted); `Serial` says that at most one call is
unsettled and that the status tells whether it is in doubt. `OnlyOne` turns that into
the equality of two unsettled calls, which is what makes a late settlement reopen the
right guard. `ImplementsBudget` is the whole refinement: a grant is `Make` (nothing
unsettled by `Serial`, a call left by `Tallied` and the limit the script compares), a
quarantine `Doubt`, a settlement `Settle`, and every other step a stutter.

**`ProbeProofs`, the migrations.** `MigrationKeepsGuard` is the refinement `MigrationSpec =>
Spec`: every step of the composed system is a step of the guard or leaves it alone, so
the theorems above hold while commands migrate; `MigratedGuardIsItsCalls` carries one
of them over. `HistoryKept` proves `HistoryIsKept` under `MaxConcurrency <= 1`, for
every chain of versions of the three kinds and any number of runs. Its invariant, on top
of `BInv`, is

    HInv == Typed /\ Numbered /\ Epochs /\ Recorded /\ Confirmed

`Numbered` says that calls have distinct sequence numbers, the first `claimed` of them;
`Epochs` that a call's number tells the policy it was granted under, which needs that a
migration finds exactly `MigrationCalls` calls; `Recorded` that a receipt lists known
calls as they are kept, and all of those up to its number: the script compares again
each call it was sent, and the numbers it was sent are all there, so no call can be
missing. `Confirmed` ties a run that has migrated to its receipt. Nothing is needed
about a run that is still reading: what it has read may be stale, and the proof shows
that the script's comparison is enough.

**`ProbeProofs`, the paid calls.** `PaidOnce` and `AnswersHold` (`PaidOnceAndKept`,
`AnswersAgree`), for any requests at once, judge tokens, lost replies and dead requests,
and three that carry what holds of the guard to the services that use it:
`PaidSpendCapped` and, with the code's concurrency, `PaidGuardIsItsCalls` and
`PaidCallsAreBudgeted` (every step of the services is a step of `CallBudget` or none).
These need more than the guard's own theorems, since a lifetime is entered with calls
already made: `EnteredGuard` and `EnteredBudget` show that such a state has the guard's
invariants. The invariant of the services is

    PInv == IInv /\ LaneTypes /\ RequestsStand /\ OneCaller /\ Rest /\ ToldTruly

Every request draws another judge token, yet at most one is issued: the anchor is written
once and every issue uses the token it names. The provider is reached only by the request
that moved that token from issued to in flight (`OneCaller`), so `called` cannot become
two. `SettledOnReceipt` says that a call is known only with the receipt that is kept, and a
seal is set only after that. `RequestsStand` says what a request read and uses after later
awaits; it survives the steps of the others because they can only move a token forward and
never take a receipt away (`Harmless`). What was told follows from a record that stays.

**`HandoffLedgerProofs`.** `TypeCorrect`, `SlotsExact`, `ObservationsFit`,
`OpenBounded`, `RateBounded`, `RevealedRests`, `OwnedForEver` and
`IsOneTimeHandoff`, which is the whole refinement: initial states map to initial
states and every step to a step of `OneTimeHandoff` or a stutter. The invariant is

    IInv == TypeOK /\ Coherent /\ Listed /\ SlotsAreOpenRuns /\ ObservationFits /\ Limited

`Coherent` relates the fields of one hash (who holds it in which state, and its
times), `Listed` says the sorted sets never forget a live run, `Limited` what the
issue script compared. `OpenBounded` needs `Limited` and `SlotsAreOpenRuns` together: the script bounds
the set, and only the second makes the set speak of runs.

**`HandoffPagesProofs`, the journey.** `JourneyInOrder` and `JourneyCarries` (`StepsInOrder`,
`KnownJourneyCarries`) for every plan, mode, number of requests at once, fault and reload,
and `JourneyIsOneTimeHandoff`: with the journey around it the ledger is still a
`OneTimeHandoff`, since each of the journey's steps is a step of the ledger or leaves it
alone. The invariant puts nine parts on that of `HandoffLedgerProofs`,

    JInv == IInv /\ Still /\ JourneyTypes /\ Readable /\ RecordTruth /\ HandedOut
            /\ ReportTrue /\ AdvanceTrue /\ LedgerTruth /\ PageTrue

The advance route is seven calls to Redis, and another handler may run all of them in
between. `AdvanceTrue` says what a handler may still rely on after each: the position it
read is not beyond the record's, and if it is the record's, so is its token. Hence a slow
handler can only issue or claim an earlier run again, which the ledger refuses
(`HandedOut`: a later run was handed out under the record's token or was passed).
`PageTrue` is what makes the cart follow: the page's stage is the ledger's state of its
run, so a run that settles adds its effect to the cart of the page that ran it.

**`CheckoutSessionProofs`.** `OneAnswer`, `WaitsOnItsCart`, `HonestAborts`, `FailuresStay`,
`ReceiptsHold` and `IsOnceOnlyCheckout`, the whole refinement of `OnceOnlyCheckout`. The
invariant is

    IInv == TypeOK /\ Queued /\ HashCurrent /\ PendingTrue /\ Latched /\ Entombed /\ Traced
            /\ Halts /\ OneReset /\ Held /\ Certified

`Queued` is the promise tail: whatever awaits something is its head. Everything that a
request read before an await and uses after it is then still so (`HashCurrent`).
`Latched` ties the abort latch to the moment of the commit, `Entombed` says that a
mutation that got past the guards is answered from the tombstone of its operation, which
is what two replies of one operation have in common. `Traced` finds the event that a
failing subscriber rewrites: it is the newest until the call is finished. `Held` says who
closed admission, and is why nothing moves the fixture under a receipt.

**`ScoredRunProofs`.** `AllCallsAccounted`, `EvidenceKept`, `EndedLogVerifies` and
`RowsStayFinal`, for any number of cases, of replies given up and of stops:

    IInv == TypeOK /\ Shape /\ Counted /\ RowsFit /\ Ends /\ EvidenceIsTheLog
            /\ Charged /\ Requested
    Alone == faults.lost + faults.stops = 0 =>
               req["orphan"] = Idle /\ Speaks(req["main"])

`Shape` says that the case the run is at follows from its log: each earlier case is closed
as scored, by its first attempt or by the replacement of one that was eligible, and no
later one was tried. It is what the verifier of a terminal log asks for once `Ends` and
`Counted` are added. `Charged` and `Requested` carry the money: a grant is made only for
an attempt that is in the log or is the one the run is at, and `Fits` says for each await of
a request what is still so though the orphan, or the recovery, ran in between. An orphan's
late call finds its attempt recorded, and is accounted for by that row, which may deny it.
`AllCallsAccounted` says when: `Deniers` shows that only a failure report that looked before
the call began writes such a row, `Beginners` that only a `BeginCall` makes a call of a row
already written. `Alone` is why neither happens without a fault: the runner waits for its
request, so the one that is served speaks of the attempt the run is at (which has no row)
and of its grant as it still is.

**`OwnerTabsProofs`.** `LockIsTheWorkspaces` and `VerdictsAreTrue`, for any tabs, cases and
handoffs:

    IInv == TypeOK /\ Locked /\ HandsFit /\ TabsFit

`Locked` adds to `OneWorkspace` that a grant *is* the lock and that only a workspace that is
asking has a request of its own, so that a tab that is left takes the grant with it.
`TabsFit` says of each tab that what it stores, shows and reports is true of the runs it
names, each by its own number, and says nothing about queue, session and link being of
the same run: they need not be. It is kept while the server moves by one fact, `Grows`: a
handoff in use keeps its plan, its results only grow, and one that has ended keeps them.
A report needs more, that its list is the whole plan: `MatchesPlan` compares only the
cases there are results for, and `HandsFit` (an ended run that did not stop short has a
result for each case) makes that all of them.

**`HandoffPagesProofs`, the agent's page.** `JudgedCall` (`JudgedCallWasMade`), for any number of reloads and any
requests lost or served late, and `RunnerKeepsLedger`, the refinement `RunnerSpec => Spec`:
the page is one more caller of the ledger, so `LedgerHoldsUnderPage` carries over the
ledger's theorems that its run checks. On top of the ledger's invariant,

    RInv == IInv /\ PageTypes /\ Awaited /\ GateFresh /\ VerdictEarned

A gate is new in each document and knows nothing of an earlier one. `GateFresh` is why it
admits no second call all the same: a document can get as far as a gate only from a page
state that precedes the start, or from `PREPARING` in the very document that started the
run, and in both no call was admitted yet. `VerdictEarned` follows the finalizer: one that
judges an observed call has the answer of the settlement, which is given only after the
ledger settled, and a run that was settled stays so whatever is served late.

**`ToolRegistryProofs`.** `ReadyIsExact`, `IdentityHolds` and `HeldKeepsRegistration`
(`ReadyMeansExact`, `ToolIdentityStable`, `HeldStaysRegistered`), for any tools, catalogs,
leases, calls and browser faults:

    RInv == PageTypes /\ ObjectTypes /\ Shape /\ Identity /\ Unused /\ Exclusive /\ Shown
            /\ Notified

A transition waits for the browser at every step and is superseded in any of them. What it
works on is still what it read, since only a transition changes the registrations
(`Shape`). `verifyDiscovery` compares the tools the browser shows and not the objects
behind them; that this makes the catalog exact needs `Exclusive`: whatever shows in the
browser, or may still get there, owns its name, so the tool pins the object. `Shown` says
what the browser shows at the points where the manager trusts it, and that a withdrawal
that is cut short leaves registrations that admit no call. `Identity` keeps the names of
the history and the wanted catalog distinct *together*, which the reconcile compares before
it publishes. `HeldKeepsRegistration` rests on `Unused`: after quiescence nobody
holds what is retired, and no new hold is admitted until it is gone or restored.

**`CalibrationRunProofs`.** `AskedOncePerCase`, `RowsAreTrue` and `IndexShowsSealed`
(`OncePerCase`, `RowTruth`, `IndexIsSealed`), for any number of cases, documents and
faults, also where a behaviour begins with some of the cases sealed:

    CInv == RunTypes /\ Shown(index) /\ Chained /\ Paid /\ AskedOnce /\ Truthful
            /\ (\A d \in Docs : Stands(d)) /\ OneAsks

`Stands` is what a document may rely on wherever it is, though it may have slept there
while the others finished the run. Most of it is about records that are written once. The
rest (that its case has no row yet, or was dispatched to nobody) holds only while the document
owns the revision: the scripts check the owner, so only the owner writes an admission
or a completion, and one that lost the ownership is refused when it wakes.
`OthersStand` is the lemma that the steps of the others keep it. `OneAsks` is why a case is
inferred once: two documents may hold the same grant request, the guard grants one.

Of the properties the passing runs check, every safety property is proved except one.
Only model-checked are

- liveness (`RunEnds`, `SealedIsAcknowledged`, `OwnerLearns`, `AdvanceIsServed` and the
  others that need fairness) and `NothingIsStuck`, which is about `ENABLED`: out of the
  prover's reach;
- the runs that end in a counterexample, whose properties do not hold.

## Findings

1. **A lease that supersedes a release is left without tools**
   (`registry_supersede`). When the last lease is given up, the transition aborts
   the native registrations (`registry-manager.ts:488`) and then waits. A lease
   acquired during that wait aborts the transition, whose catch block returns
   (line 527) without clearing the aborted objects. The next transition believes
   the tools registered, registers nothing, waits for a discovery that cannot
   come and fails closed: the new lease is told *error*. The comment at line 224
   says a newly acquired lease supersedes an in-progress release.
2. **The evidence of a run that ended in doubt is never sealed** (`scored_uncertain`).
   A scored call whose outcome is uncertain ends the run, and the settlement
   quarantines the guard (`ledger.ts:520`). `readScoredGuardContext` asks for an open
   guard (`guard.server.ts:58`) before it looks at `allowUnsettled`, so reveal, recovery
   and acknowledgement are refused, while lines 79-81 and a test
   (`scored-crash-ordering.test.ts:83`) mean to let them through. After four hours the
   data are gone.
3. **A page says nothing was exposed of a run that took place** (`owner_blocked`). A
   second opening of a link records a claim failure; the owner's page treats a run
   with such a record as blocked unless its state is among four
   (`byoa-runner-live-v2.tsx:1031`), and `TIMED_OUT` is not. It then says that the claim
   stopped "before any request, tool, or native invocation was exposed" (line 1261) and
   stops polling before it reads the verdict.

## Observations

Not disagreements with a document, but what the models showed on the way.

- The session's reset hold is safe only under the Lab page's discipline of one
  reset at a time; the session itself does not tell two holders apart.
- Two states of a calibration run have no way out in the probe service: a grant
  whose decision was never recorded (only the judge's reaper ends that call), and a
  token that lapsed before the dispatch (neither it nor the authorization is
  renewed). `RecoversUnlessLost` excepts exactly these two.
- A recovery that advances the index itself answers with a revision its document
  has not claimed; the next issue is refused and a reload claims it.
- `failClosed` of the registry waits for running handlers without the bound that
  the transition's own wait has: a handler that hangs stops the registry's queue.
- The report script of the handoff ledger accepts any verdict that fits while the
  run is not ended; the page's order of calls, not the script, makes it last.
- `createNoInvocationResultV3` refuses to "conceal an admitted native call"
  (`evaluator-v3.ts:695`), but is asked before awaits after which the page closes its
  gate (`byoa-runner-live-v2.tsx:313`): a call admitted in between is executed, and the
  result, *incomplete*, does not mention it.
- A result that reached the ledger and not the journey (`report/route.ts:51`) is never
  reported again: the journey ends there. A second, late answer to one click puts the
  page and its cookie back; the record and the order of runs hold, the page cannot go
  on. A reloaded page has forgotten its journey and runs the step on a new fixture.
- A scored failure may be reported, and its replacement started, while the call it
  replaces is about to be dispatched (`run-store.server.ts:198`). The log still accounts
  for both calls, but its row says that the first was never dispatched: `CallsAreAccounted`
  says that a row comes to deny a call in this race alone. Nor is "replacement before
  inference" then true: `ReplacedBeforeInference` is stated and does not hold. Such a late call also moves
  the counters in the evidence digest; `SealedIsAcknowledged` excepts it.
- `readScoredGuardContext`'s strict check makes Repair's and the successor's recovery of
  a receipt that was kept but not settled unreachable (`repair/service.server.ts:101`): the
  unsettled call it would settle is what the check refuses. The successor's cap is
  compared before its stored receipt is read, and its error answer says that inference
  was performed also when only the store failed after the call.
- A migration whose answer is lost cannot be repeated by its command: the discovery asks
  for the previous policy, so the script's branch for a receipt that exists
  (`policy-v05-migration.server.ts:390`) is reached only by another run that had read
  everything before. A token that the lenient migration left behind, issued or expired,
  makes every later migration refuse, for its command expects none of that policy.
- A judge authorization that expires between its anchor and `BEGIN` closes the lane.
- The workspace keeps its queue after a source is cancelled; a review that is closed, or
  confirmed again, while a prepare is in flight leaves the page to watch a batch as a
  single run, or the reverse; a prepare that fails after it wrote the session leaves the
  old link beside it. `VerdictsAreTheRuns` shows that no wrong verdict comes of any of
  these; `OwnerLearns` excepts the tab whose queue is not its run's.
- A page that reads the receipt of a refused opening stops asking for good unless the run
  it finds is active or settled. So an owner is never told the verdict of a run that timed
  out after a second opening, of one whose first opening failed at the ledger
  (`open/route.ts:37`) and was polled before a later one succeeded, and of a batch that was
  polled between two runs, where the status is null or `ISSUED`
  (`advance/route.ts:129-156`, `journey/status/route.ts:57-70`). `OwnerLearns` names these
  states (`TurnedAway`) and the error after three failed polls (`GivenUp`), and holds
  otherwise.
- A case added while a prepare measures is overwritten by the save of the armed suite;
  the initial save does not join the queue of saves; the source page holds no lock; a
  handoff revoked in another tab is polled for ever.

## What is not modelled

The components marked **–** above; `PROJECT.json` gives the reason for each: pure
evaluators and verifiers without state of their own, write-once records, read-only
projections, and the WebMCP runtime and the regression store, which are next in the
plan.

In modelled parts:

- encodings, signatures and encryption (a token is what it binds and whether it has
  lapsed), prices and texts, short codes, and rendering;
- `PolicyMigration`: the anchor of the acknowledged run, which v05's script also
  compares; the first migration, whose source is a file; the digests the source pins to
  the one history there was (the model lets any history be migrated that the rest of the
  checks accept); the rate record of the unused token;
- `CalibrationRun`: the four-hour expiry of a run's own keys, launch and arming;
- `ScoredRun`: the session and its twenty-minute authorization, the lineage of a phase
  to its predecessor, rival launches, reaping, the limit on documents;
- `PaidCalls`: Repair's capability script, the presentation successor mode, envelope
  hashes; Repair's read of its record and the settlement are one step;
- `OwnerTabs`: edits of the catalog, the first visit that makes a suite, a tab closed
  for good, a save of the suite that fails, and a workspace left with saves or a prepare
  pending (it is left at rest).

## Plan

Done, in this order, the most important behaviour first: `CallBudget`,
`ProbeLedger` and its proofs; `OnceOnlyCheckout`, `CheckoutSession`;
`ToolRegistry`; `CalibrationRun`; `OneTimeHandoff`, `HandoffLedger` and its proofs;
`AgentRunner`; `ContinuousJourney`; `ScoredRun`; `PaidCalls`; `OwnerTabs`; the
refinement proof of the guard; `PolicyMigration` and its proofs; the proofs of
`ContinuousJourney`, `CheckoutSession`, `ScoredRun`, `OwnerTabs`, `AgentRunner`,
`ToolRegistry`, `CalibrationRun` and `PaidCalls`.

Next modules:

1. `WebMcpRuntime`: the once-per-document probe and the once-per-identifier
   execution (`webmcp/runtime.ts`), composed with `ToolRegistry`.
2. `RegressionStore`: saved cases under a byte and item budget, read, verified and written
   with awaits that nothing serialises.
3. Freeze and revision stores.
4. `Diagnosis`, `Scoring`, `Integrity`: the pure evaluators as operators, each
   checked against a reference definition over bounded contracts and traces.

Next theorems: the safety invariants of each of these; and that a calibration run keeps
its guarantees with `ProbeLedger` itself as its guard in `CallBudget`'s place.

## Use

    tlasany ProbeLedger.tla
    tlc -workers 2 -config MCProbeLedger.cfg MCProbeLedger
    tlapm ProbeProofs.tla

A configuration `MCX.cfg` belongs to the module `MCX`; `MCToolRegistrySupersede.cfg`,
`MCScoredRunUncertain.cfg` and `MCOwnerTabsBlocked.cfg` belong to the `MC` module their
name begins with, and are expected to end in a counterexample.
