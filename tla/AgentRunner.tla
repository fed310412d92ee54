---------------------------- MODULE AgentRunner ----------------------------
(***************************************************************************)
(* The agent's page of a handed-off run (src/components/demo/              *)
(* byoa-runner-live-v2.tsx) over the handoff ledger: it receives the test, *)
(* starts it, registers the catalog, arms a timer, lets the first native   *)
(* call through the gate of src/lib/demo/agent-environment-v2.ts and ends  *)
(* the run once, by the call's settlement, by the timer or by a catalog    *)
(* error, whichever claims the finalization first.  Every request to the   *)
(* server may be lost before or after its effect, and the page may be      *)
(* reloaded at any moment: the session storage survives, the gate, the     *)
(* timer and the finalizer do not, and a request already sent may still be *)
(* served.                                                                 *)
(***************************************************************************)
EXTENDS HandoffLedger

CONSTANTS Handoff,   \* the token this page was opened with
          Agent,     \* its browser context
          MaxDocs    \* bound on the documents of the page, reloads included

ASSUME RunnerAssumption == Handoff \in Tokens /\ Agent \in Contexts /\ MaxDocs \in Nat \ {0}

Run == RunOf[Handoff]

VARIABLES doc,       \* number of the document that is live
          page,      \* remote.state in session storage, "LANDED" before the bootstrap
          stopped,   \* the document shows an error it does not recover from
          wire,      \* requests sent and not yet served, with their documents
          wait,      \* the request the document awaits
          answer,    \* its reply
          tools,     \* the catalog in the provider's registry
          gateOn,    \* ByoaInvocationGateV2.active
          claim,     \* disposition of its claim
          heard,     \* the page is subscribed to the gate
          armedAt, timer,
          fin,       \* where the finalizer is; "idle" until it is claimed
          goal,      \* what it concludes
          stored,    \* verdict of the result in session storage
          admitted   \* native calls admitted for the run, over all documents

server == <<now, expiry, holder, state, context, times, result, guards, revealed>>
network == <<wire, wait, answer>>
gate == <<gateOn, claim, heard>>
clock == <<armedAt, timer>>
ending == <<fin, goal, stored>>
runner == <<doc, page, stopped, network, tools, gate, clock, ending, admitted>>

Ended == {"PASS", "ISSUE", "INCOMPLETE", "UNAVAILABLE"}
Pages == {"LANDED", "RECEIVED", "READY_TO_ARM", "PREPARING", "ARMED", "OBSERVING",
          "EVALUATING"} \cup Ended
Ops == {"receive", "start", "settle", "unavailable", "timeout", "reveal", "report"}
NoOp == "none"
NoVerdict == "none"
PageOf == [pass |-> "PASS", issue |-> "ISSUE", incomplete |-> "INCOMPLETE",
           unavailable |-> "UNAVAILABLE"]
TerminalRef == fin \in {"store", "report", "done"}
Running == ~stopped

RunnerInit ==
  /\ Init
  /\ doc = 1 /\ page = "LANDED" /\ stopped = FALSE
  /\ wire = {} /\ wait = NoOp /\ answer = "none"
  /\ tools = "off" /\ gateOn = FALSE /\ claim = "none" /\ heard = FALSE
  /\ armedAt = 0 /\ timer = FALSE
  /\ fin = "idle" /\ goal = "none" /\ stored = NoVerdict
  /\ admitted = 0

-----------------------------------------------------------------------------
(* The network and the server's routes. *)

Send(op) ==
  /\ wire' = wire \cup {<<op, doc>>}
  /\ wait' = op /\ answer' = "none"

\* The effect of a request the server accepts; asking again for what already
\* happened is accepted where the script answers from the stored state.
Accepted(op) ==
  \/ op = "receive" /\ Receive(Handoff, Agent)
  \/ op = "receive" /\ Exists(Run) /\ state[Run] = "RECEIVED" /\ UNCHANGED server
  \/ op = "start" /\ Start(Handoff, Agent)
  \/ op = "settle" /\ Settle(Handoff, Agent, "SETTLED")
  \/ op = "unavailable" /\ Settle(Handoff, Agent, "UNAVAILABLE")
  \/ op = "timeout" /\ TimeOut(Handoff, Agent)
  \/ op = "reveal" /\ Reveal(Handoff, Agent)
  \/ op = "report" /\ \E x \in Results : VerdictOf[x] = stored /\ Report(Handoff, Agent, x)

Reply(op, d, text) ==
  answer' = IF d = doc /\ wait = op /\ answer = "none" THEN text ELSE answer

\* A request is served and answered, or served and its answer lost.
Serve(op, d) ==
  /\ <<op, d>> \in wire
  /\ Accepted(op)
  /\ wire' = wire \ {<<op, d>>}
  /\ \E text \in {"ok", "failed"} : Reply(op, d, text)
  /\ UNCHANGED <<doc, page, stopped, wait, tools, gate, clock, ending, admitted>>

\* A request is refused by the script, or lost on its way.
Drop(op, d) ==
  /\ <<op, d>> \in wire
  /\ wire' = wire \ {<<op, d>>}
  /\ Reply(op, d, "failed")
  /\ UNCHANGED <<doc, page, stopped, wait, tools, gate, clock, ending, admitted, server>>

\* Time, owners, and every other context: what this page's context does, its
\* page does, but for the claim that opened it.
Elsewhere ==
  /\ \/ Tick
     \/ \E r \in Runs : now = 0 /\ Compile(r)
     \/ \E t \in Tokens : OwnerStep(t)
     \/ \E t \in Tokens, c \in Contexts \ {Agent} : ContextStep(t, c)
     \/ Claim(Handoff, Agent)
  /\ UNCHANGED runner

-----------------------------------------------------------------------------
(* The finalizer: finalizeObserved, finalizeNoInvocation, persistTerminal. *)

Claimable == fin = "idle"

Finalize(kind, op) ==
  /\ fin' = "control" /\ goal' = kind
  /\ Send(op)
  /\ UNCHANGED stored

\* reportFinalizationFailure.
Fail ==
  /\ fin' = "failed" /\ timer' = FALSE /\ heard' = FALSE /\ tools' = "off"
  /\ wait' = NoOp /\ answer' = "none"
  /\ UNCHANGED <<doc, page, stopped, wire, gateOn, claim, armedAt, goal, stored, admitted, server>>

FinalizerFails ==
  /\ Running /\ answer = "failed"
  /\ fin \in {"control", "reveal", "report"}
  /\ Fail

ControlDone ==
  /\ Running /\ fin = "control" /\ answer = "ok"
  /\ fin' = "reveal" /\ Send("reveal")
  /\ UNCHANGED <<doc, page, stopped, tools, gate, clock, goal, stored, admitted, server>>

RevealDone ==
  /\ Running /\ fin = "reveal" /\ answer = "ok"
  /\ fin' = "judge" /\ wait' = NoOp /\ answer' = "none"
  /\ UNCHANGED <<doc, page, stopped, wire, tools, gate, clock, goal, stored, admitted, server>>

\* Faulty variant: whatever ended the observation is evaluated.
EvaluateAnyEnd ==
  /\ Running /\ fin = "judge"
  /\ fin' = "seal" /\ goal' \in {"pass", "issue"}
  /\ UNCHANGED <<doc, page, stopped, network, tools, gate, clock, stored, admitted, server>>

\* evaluateByoaEnvironmentV3 reads the settled call; the verdict is the contract's.
Evaluate ==
  /\ Running /\ fin = "judge" /\ goal = "observed"
  /\ fin' = "seal" /\ goal' \in {"pass", "issue"}
  /\ UNCHANGED <<doc, page, stopped, network, tools, gate, clock, stored, admitted, server>>

\* createNoInvocationResultV3 refuses when the gate has admitted a call.
ConcludeNothing ==
  /\ Running /\ fin = "judge" /\ goal \in {"incomplete", "unavailable"}
  /\ claim = "none"
  /\ fin' = "seal"
  /\ UNCHANGED <<doc, page, stopped, network, tools, gate, clock, goal, stored, admitted, server>>

ConcludeRefused ==
  /\ Running /\ fin = "judge" /\ goal \in {"incomplete", "unavailable"}
  /\ claim # "none"
  /\ Fail

\* The digests of the result are awaited; then persistTerminal closes the gate.
PersistTerminal ==
  /\ Running /\ fin = "seal"
  /\ fin' = "store" /\ timer' = FALSE /\ heard' = FALSE /\ gateOn' = FALSE
  /\ UNCHANGED <<doc, page, stopped, network, tools, claim, armedAt, goal, stored, admitted, server>>

\* The result and the terminal session are stored, then the report is sent.
StoreResult ==
  /\ Running /\ fin = "store"
  /\ stored' = goal /\ page' = PageOf[goal]
  /\ fin' = "report" /\ Send("report")
  /\ UNCHANGED <<doc, stopped, tools, gate, clock, goal, admitted, server>>

ReportDone ==
  /\ Running /\ fin = "report" /\ answer = "ok"
  /\ fin' = "done" /\ tools' = "off" /\ wait' = NoOp /\ answer' = "none"
  /\ UNCHANGED <<doc, page, stopped, wire, gate, clock, goal, stored, admitted, server>>

FinalizerStep == FinalizerFails \/ ControlDone \/ RevealDone \/ Evaluate \/ ConcludeNothing
                 \/ ConcludeRefused \/ PersistTerminal \/ StoreResult \/ ReportDone

-----------------------------------------------------------------------------
(* The page before the end. *)

Quiet == Running /\ wait = NoOp

Bootstrap ==
  /\ Quiet /\ page = "LANDED" /\ context[Run] = Agent
  /\ Send("receive")
  /\ UNCHANGED <<doc, page, stopped, tools, gate, clock, ending, admitted, server>>

Bootstrapped ==
  /\ Running /\ wait = "receive" /\ answer # "none"
  /\ wait' = NoOp /\ answer' = "none"
  /\ page' = IF answer = "ok" THEN "RECEIVED" ELSE page
  /\ stopped' = (answer # "ok" \/ now >= expiry[Run])
  /\ UNCHANGED <<doc, wire, tools, gate, clock, ending, admitted, server>>

MarkReady ==
  /\ Quiet /\ page = "RECEIVED"
  /\ page' = "READY_TO_ARM"
  /\ UNCHANGED <<doc, stopped, network, tools, gate, clock, ending, admitted, server>>

\* startLiveObservation, up to its control request.
ClickStart ==
  /\ Quiet /\ page = "READY_TO_ARM" /\ now < expiry[Run]
  /\ Send("start")
  /\ UNCHANGED <<doc, page, stopped, tools, gate, clock, ending, admitted, server>>

\* A failed start only shows an error: the button is still there.
Started ==
  /\ Running /\ wait = "start" /\ answer # "none"
  /\ wait' = NoOp /\ answer' = "none"
  /\ page' = IF answer = "ok" THEN "PREPARING" ELSE page
  /\ UNCHANGED <<doc, stopped, wire, tools, gate, clock, ending, admitted, server>>

Preparing == Running /\ page = "PREPARING" /\ tools = "off" /\ fin = "idle"

EnvironmentFails ==
  /\ Preparing
  /\ stopped' = TRUE
  /\ UNCHANGED <<doc, page, network, tools, gate, clock, ending, admitted, server>>

NoProvider ==
  /\ Preparing
  /\ Finalize("unavailable", "unavailable")
  /\ UNCHANGED <<doc, page, stopped, tools, gate, clock, admitted, server>>

Register ==
  /\ Preparing
  /\ tools' = "registering" /\ gateOn' = TRUE /\ heard' = TRUE
  /\ UNCHANGED <<doc, page, stopped, network, claim, clock, ending, admitted, server>>

\* armRegisteredStep; MaxNow bounds how late the catalog becomes ready.
Ready ==
  /\ Running /\ tools = "registering" /\ ~TerminalRef
  /\ now + Timeout <= MaxNow
  /\ tools' = "on"
  /\ IF page = "PREPARING"
     THEN page' = "ARMED" /\ armedAt' = now /\ timer' = TRUE
     ELSE UNCHANGED <<page, clock>>
  /\ UNCHANGED <<doc, stopped, network, gate, ending, admitted, server>>

\* The registry reports an error while registering or after.
RegistryError ==
  /\ Running /\ tools \in {"registering", "on"} /\ ~TerminalRef
  /\ tools' = "broken"
  /\ IF Claimable THEN Finalize("unavailable", "unavailable") ELSE UNCHANGED <<network, ending>>
  /\ UNCHANGED <<doc, page, stopped, gate, clock, admitted, server>>

\* Faulty variant: an admitted call is left to its settlement.
TimerFiresWhenArmed ==
  /\ Running /\ timer /\ now >= armedAt + Timeout
  /\ timer' = FALSE
  /\ IF page = "ARMED" /\ Claimable
     THEN Finalize("incomplete", "timeout")
     ELSE UNCHANGED <<network, ending>>
  /\ UNCHANGED <<doc, page, stopped, tools, gate, armedAt, admitted, server>>

TimerFires ==
  /\ Running /\ timer /\ now >= armedAt + Timeout
  /\ timer' = FALSE
  /\ IF ~TerminalRef /\ Claimable
     THEN Finalize("incomplete", "timeout")
     ELSE UNCHANGED <<network, ending>>
  /\ UNCHANGED <<doc, page, stopped, tools, gate, armedAt, admitted, server>>

\* The agent calls a registered tool: the gate admits the first call only.
Invoke ==
  /\ Running /\ tools \in {"registering", "on"}
  /\ gateOn /\ claim = "none"
  /\ claim' = "in-flight" /\ admitted' = admitted + 1
  /\ page' = IF heard /\ ~TerminalRef /\ page = "ARMED" THEN "OBSERVING" ELSE page
  /\ UNCHANGED <<doc, stopped, network, tools, gateOn, heard, clock, ending, server>>

\* The handler returns or throws; finalizeObserved takes it up if it may.
CallSettles ==
  /\ Running /\ claim = "in-flight"
  /\ claim' = "settled"
  /\ IF heard /\ ~TerminalRef /\ page = "OBSERVING" /\ Claimable
     THEN page' = "EVALUATING" /\ Finalize("observed", "settle")
     ELSE UNCHANGED <<page, network, ending>>
  /\ UNCHANGED <<doc, stopped, tools, gateOn, heard, clock, admitted, server>>

\* Faulty variant: with a run whose catalog was being registered.
ResumableWhilePreparing == {"RECEIVED", "READY_TO_ARM", "PREPARING"} \cup Ended

Resumable == {"RECEIVED", "READY_TO_ARM"} \cup Ended

\* A reload keeps the session storage; an expired run and one that was being
\* observed are given up, an ended one shows its stored result.
Reload ==
  /\ doc < MaxDocs
  /\ doc' = doc + 1
  /\ stopped' = (page # "LANDED" /\ (now >= expiry[Run] \/ page \notin Resumable))
  /\ wait' = NoOp /\ answer' = "none"
  /\ tools' = "off" /\ gateOn' = FALSE /\ claim' = "none" /\ heard' = FALSE
  /\ timer' = FALSE
  /\ fin' = IF page \in Ended THEN "done" ELSE "idle"
  /\ goal' = "none"
  /\ UNCHANGED <<page, wire, armedAt, stored, admitted, server>>

PageStep == Bootstrap \/ Bootstrapped \/ MarkReady \/ ClickStart \/ Started
            \/ EnvironmentFails \/ NoProvider \/ Register \/ Ready \/ RegistryError \/ Reload

RunnerNext ==
  \/ Elsewhere
  \/ \E op \in Ops, d \in 1 .. MaxDocs : Serve(op, d) \/ Drop(op, d)
  \/ PageStep
  \/ TimerFires
  \/ Invoke
  \/ CallSettles
  \/ FinalizerStep

RunnerSpec == RunnerInit /\ [][RunnerNext]_<<server, runner>>

\* The clock runs, an armed timer fires, a request is served or fails, and the
\* page's continuations run.  Nothing obliges the agent to call, a handler to
\* return, or the catalog to become ready.
FairRunner ==
  /\ RunnerSpec
  /\ WF_<<server, runner>>(Tick /\ UNCHANGED runner)
  /\ WF_<<server, runner>>(TimerFires)
  /\ WF_<<server, runner>>(\E op \in Ops, d \in 1 .. MaxDocs : Serve(op, d) \/ Drop(op, d))
  /\ WF_<<server, runner>>(FinalizerStep)

-----------------------------------------------------------------------------
\* A case admits at most one native call, over every document of the page: a
\* reload can not open the gate a second time, because the run was started.  A
\* verdict on the agent's action rests on a call that was admitted and that the
\* ledger ended as settled; a run the ledger timed out is never judged.
JudgedCallWasMade ==
  /\ admitted <= 1
  /\ stored \in {"pass", "issue"} => admitted = 1 /\ state[Run] = "SETTLED"

\* An armed observation is decided: the result is delivered, or the page
\* stops without a verdict, or the document was replaced.
ArmedIsDecided ==
  page \in {"ARMED", "OBSERVING", "EVALUATING"} ~> fin \in {"done", "failed"} \/ stopped
=============================================================================
