------------------------- MODULE HandoffPagesProofs -------------------------
(***************************************************************************)
(* Proofs about the two users of the handoff ledger: the agent's page of a *)
(* handed-off run, for every ledger it runs over, every number of reloads, *)
(* and any requests lost or late; and a continuous journey, for every      *)
(* plan, every number of requests served at once, every fault and every    *)
(* reload.                                                                 *)
(***************************************************************************)
EXTENDS AgentRunner, ContinuousJourney, HandoffLedgerProofs, SequenceTheorems

-----------------------------------------------------------------------------
(* The agent's page.                                                         *)

runnerVars == <<server, runner>>

Answers == {"none", "ok", "failed"}
Early == {"LANDED", "RECEIVED", "READY_TO_ARM"}
Places == {"idle", "control", "reveal", "judge", "seal", "store", "report", "done", "failed"}
Goals == {"none", "observed", "pass", "issue", "incomplete", "unavailable"}

PageTypes ==
  /\ doc \in Nat \ {0} /\ page \in Pages /\ stopped \in BOOLEAN
  /\ wait \in Ops \cup {NoOp} /\ answer \in Answers /\ wire \subseteq Ops \X (Nat \ {0})
  /\ tools \in {"off", "registering", "on", "broken"}
  /\ gateOn \in BOOLEAN /\ claim \in {"none", "in-flight", "settled"} /\ heard \in BOOLEAN
  /\ armedAt \in Nat /\ timer \in BOOLEAN
  /\ fin \in Places /\ goal \in Goals /\ stored \in Verdicts \cup {NoVerdict}
  /\ admitted \in Nat

\* What is awaited belongs to the page that is shown.
Awaited ==
  /\ wait = "receive" => page = "LANDED"
  /\ wait = "start" => page = "READY_TO_ARM"

\* A gate that may admit a call has followed none: until the catalog of the run was
\* registered there was no gate, and the session remembers that it was.
GateFresh ==
  /\ page \in Early =>
       /\ admitted = 0 /\ fin = "idle" /\ tools = "off" /\ ~gateOn /\ claim = "none" /\ ~timer
  /\ Running /\ page = "PREPARING" /\ tools = "off" /\ fin = "idle" =>
       admitted = 0 /\ claim = "none"
  /\ gateOn /\ claim = "none" => admitted = 0
  /\ claim # "none" => admitted = 1
  /\ admitted <= 1

\* The finalizer of a call that was observed has the ledger's word that it settled.
VerdictEarned ==
  /\ goal \in {"observed", "pass", "issue"} => admitted = 1
  /\ fin = "control" /\ goal = "observed" => wait = "settle"
  /\ wait = "settle" /\ answer = "ok" => state[Run] = "SETTLED"
  /\ fin \in {"reveal", "judge"} /\ goal = "observed" => state[Run] = "SETTLED"
  /\ goal \in {"pass", "issue"} => state[Run] = "SETTLED"
  /\ fin \in {"seal", "store"} => goal \in Verdicts
  /\ stored \in {"pass", "issue"} => admitted = 1 /\ state[Run] = "SETTLED"

Own == PageTypes /\ Awaited /\ GateFresh /\ VerdictEarned

\* The inductive invariant.
RInv == IInv /\ Own

-----------------------------------------------------------------------------
(* The ledger under the page. *)

LEMMA RunnerConstants ==
  Handoff \in Tokens /\ Agent \in Contexts /\ MaxDocs \in Nat \ {0} /\ Run \in Runs
BY RunnerAssumption, ConstantTypes DEF Run

LEMMA RunnerStart == RunnerInit => RInv
<1> SUFFICES ASSUME RunnerInit PROVE RInv
  OBVIOUS
<1>1. IInv
  BY InitInvariant DEF RunnerInit
<1>2. PageTypes
  <2>1. doc \in Nat \ {0}
    BY DEF RunnerInit
  <2>2. page \in Pages /\ stopped \in BOOLEAN /\ wait \in Ops \cup {NoOp} /\ answer \in Answers
    BY DEF RunnerInit, Pages, Answers
  <2>3. wire \subseteq Ops \X (Nat \ {0})
    BY DEF RunnerInit
  <2>4. /\ tools \in {"off", "registering", "on", "broken"}
        /\ gateOn \in BOOLEAN /\ claim \in {"none", "in-flight", "settled"}
        /\ heard \in BOOLEAN /\ armedAt \in Nat /\ timer \in BOOLEAN
    BY DEF RunnerInit
  <2>5. /\ fin \in Places /\ goal \in Goals /\ stored \in Verdicts \cup {NoVerdict}
        /\ admitted \in Nat
    BY DEF RunnerInit, Places, Goals
  <2> QED BY <2>1, <2>2, <2>3, <2>4, <2>5 DEF PageTypes
<1>3. Awaited /\ GateFresh
  BY DEF RunnerInit, Awaited, GateFresh, NoOp, Early
<1>4. VerdictEarned
  BY DEF RunnerInit, VerdictEarned, NoOp, NoVerdict
<1> QED BY <1>1, <1>2, <1>3, <1>4 DEF RInv, Own

\* The steps of the page that ask nothing of the ledger leave it alone.
LEMMA PageStepsKeepLedger ==
  ASSUME PageStep \/ TimerFires \/ Invoke \/ CallSettles \/ FinalizerStep
  PROVE  UNCHANGED server
BY DEF PageStep, Bootstrap, Bootstrapped, MarkReady, ClickStart, Started, EnvironmentFails,
       NoProvider, Register, Ready, RegistryError, Reload, TimerFires, Invoke, CallSettles,
       FinalizerStep, FinalizerFails, ControlDone, RevealDone, Evaluate, ConcludeNothing, ConcludeRefused,
       PersistTerminal, StoreResult, ReportDone, Fail

LEMMA ServedByLedger ==
  ASSUME NEW op, Accepted(op) PROVE [Next]_vars
BY RunnerConstants DEF Accepted, Next, ContextStep, server, vars

LEMMA ElsewhereInLedger ==
  ASSUME Elsewhere PROVE Next /\ UNCHANGED runner
BY RunnerConstants DEF Elsewhere, Next, ContextStep

\* Every step of the composed system is a step of the ledger or leaves it alone.
LEMMA RunnerLedgerStep == [RunnerNext]_runnerVars => [Next]_vars
<1> SUFFICES ASSUME [RunnerNext]_runnerVars PROVE [Next]_vars
  OBVIOUS
<1>1. ASSUME NEW op \in Ops, NEW d \in 1 .. MaxDocs, Serve(op, d) PROVE [Next]_vars
  BY <1>1, ServedByLedger DEF Serve
<1>2. ASSUME NEW op \in Ops, NEW d \in 1 .. MaxDocs, Drop(op, d) PROVE [Next]_vars
  BY <1>2 DEF Drop, server, vars
<1>3. CASE Elsewhere
  BY <1>3, ElsewhereInLedger
<1>4. CASE PageStep \/ TimerFires \/ Invoke \/ CallSettles \/ FinalizerStep
  BY <1>4, PageStepsKeepLedger DEF server, vars
<1>5. CASE UNCHANGED runnerVars
  BY <1>5 DEF runnerVars, server, vars
<1> QED BY <1>1, <1>2, <1>3, <1>4, <1>5 DEF RunnerNext

LEMMA SettledStays ==
  ASSUME IInv, [RunnerNext]_runnerVars, state[Run] = "SETTLED" PROVE state'[Run] = "SETTLED"
<1>1. [Next]_vars
  BY RunnerLedgerStep
<1> QED BY <1>1, EndedStep, RunnerConstants DEF Terminal

LEMMA SettleSettles ==
  ASSUME IInv, Accepted("settle") PROVE state'[Run] = "SETTLED"
<1>1. Settle(Handoff, Agent, "SETTLED")
  BY DEF Accepted
<1>2. state' = [state EXCEPT ![Run] = "SETTLED"] /\ state \in [Runs -> States]
  BY <1>1 DEF Settle, End, Run, IInv, TypeOK
<1> QED BY <1>2, RunnerConstants

-----------------------------------------------------------------------------
(* What each step of the page does to what the page knows.  The ledger does *)
(* not move under it.                                                      *)

LEMMA BootstrapKeeps == ASSUME Own, Bootstrap PROVE Own'
<1>1. PageTypes'
  BY DEF Own, PageTypes, Bootstrap, Send, gate, clock, ending, Ops, Answers
<1>2. Awaited'
  BY DEF Awaited, Bootstrap, Send
<1>3. GateFresh'
  BY DEF Own, GateFresh, Bootstrap, gate, clock, ending
<1>4. VerdictEarned'
  BY DEF Own, VerdictEarned, Bootstrap, Send, Quiet, ending, server, NoOp
<1> QED BY <1>1, <1>2, <1>3, <1>4 DEF Own

LEMMA BootstrappedKeeps == ASSUME Own, Bootstrapped PROVE Own'
<1>1. PageTypes'
  BY DEF Own, PageTypes, Bootstrapped, gate, clock, ending, Pages, Answers
<1>2. Awaited'
  BY DEF Awaited, Bootstrapped, NoOp
<1>3. GateFresh'
  BY DEF Own, GateFresh, Awaited, Bootstrapped, gate, clock, ending, Early
<1>4. VerdictEarned'
  BY DEF Own, VerdictEarned, Bootstrapped, ending, server
<1> QED BY <1>1, <1>2, <1>3, <1>4 DEF Own

LEMMA MarkReadyKeeps == ASSUME Own, MarkReady PROVE Own'
<1>1. PageTypes'
  BY DEF Own, PageTypes, MarkReady, network, gate, clock, ending, Pages
<1>2. Awaited'
  BY DEF Own, Awaited, MarkReady, network
<1>3. GateFresh'
  BY DEF Own, GateFresh, MarkReady, gate, clock, ending, Early
<1>4. VerdictEarned'
  BY DEF Own, VerdictEarned, MarkReady, network, ending, server
<1> QED BY <1>1, <1>2, <1>3, <1>4 DEF Own

LEMMA ClickStartKeeps == ASSUME Own, ClickStart PROVE Own'
<1>1. PageTypes'
  BY DEF Own, PageTypes, ClickStart, Send, gate, clock, ending, Ops, Answers
<1>2. Awaited'
  BY DEF Awaited, ClickStart, Send
<1>3. GateFresh'
  BY DEF Own, GateFresh, ClickStart, gate, clock, ending
<1>4. VerdictEarned'
  BY DEF Own, VerdictEarned, ClickStart, Send, Quiet, ending, server, NoOp
<1> QED BY <1>1, <1>2, <1>3, <1>4 DEF Own

LEMMA StartedKeeps == ASSUME Own, Started PROVE Own'
<1>1. PageTypes'
  BY DEF Own, PageTypes, Started, gate, clock, ending, Pages, Answers
<1>2. Awaited'
  BY DEF Awaited, Started, NoOp
<1>3. GateFresh'
  BY DEF Own, GateFresh, Awaited, Started, gate, clock, ending, Early
<1>4. VerdictEarned'
  BY DEF Own, VerdictEarned, Started, ending, server
<1> QED BY <1>1, <1>2, <1>3, <1>4 DEF Own

LEMMA EnvironmentFailsKeeps == ASSUME Own, EnvironmentFails PROVE Own'
<1>1. PageTypes'
  BY DEF Own, PageTypes, EnvironmentFails, network, gate, clock, ending
<1>2. Awaited'
  BY DEF Own, Awaited, EnvironmentFails, network
<1>3. GateFresh'
  BY DEF Own, GateFresh, EnvironmentFails, Preparing, gate, clock, ending
<1>4. VerdictEarned'
  BY DEF Own, VerdictEarned, EnvironmentFails, network, ending, server
<1> QED BY <1>1, <1>2, <1>3, <1>4 DEF Own

LEMMA NoProviderKeeps == ASSUME Own, NoProvider PROVE Own'
<1>1. PageTypes'
  BY DEF Own, PageTypes, NoProvider, Finalize, Send, gate, clock, Ops, Answers,
       Places, Goals
<1>2. Awaited'
  BY DEF Awaited, NoProvider, Finalize, Send
<1>3. GateFresh'
  BY DEF Own, GateFresh, NoProvider, Preparing, gate, Early
<1>4. VerdictEarned'
  BY DEF Own, VerdictEarned, GateFresh, NoProvider, Finalize, Send, Preparing
<1> QED BY <1>1, <1>2, <1>3, <1>4 DEF Own

LEMMA RegisterKeeps == ASSUME Own, Register PROVE Own'
<1>1. PageTypes'
  BY DEF Own, PageTypes, Register, network, clock, ending
<1>2. Awaited'
  BY DEF Own, Awaited, Register, network
<1>3. GateFresh'
  BY DEF Own, GateFresh, Register, Preparing, Early
<1>4. VerdictEarned'
  BY DEF Own, VerdictEarned, Register, network, ending, server
<1> QED BY <1>1, <1>2, <1>3, <1>4 DEF Own

LEMMA ReadyKeeps == ASSUME IInv, Own, Ready PROVE Own'
<1>1. PageTypes'
  BY DEF IInv, TypeOK, Own, PageTypes, Ready, network, gate, clock, ending, Pages
<1>2. Awaited'
  BY DEF Own, Awaited, Ready, network
<1>3. GateFresh'
  BY DEF Own, GateFresh, Ready, gate, Early
<1>4. VerdictEarned'
  BY DEF Own, VerdictEarned, Ready, network, ending, server
<1> QED BY <1>1, <1>2, <1>3, <1>4 DEF Own

LEMMA RegistryErrorKeeps == ASSUME Own, RegistryError PROVE Own'
<1>1. PageTypes'
  BY DEF Own, PageTypes, RegistryError, Finalize, Send, network, gate, clock,
       ending, Ops, Answers, Places, Goals
<1>2. Awaited'
  BY DEF Own, Awaited, RegistryError, Finalize, Send, network
<1>3. GateFresh'
  BY DEF Own, GateFresh, RegistryError, gate
<1>4. VerdictEarned'
  BY DEF Own, VerdictEarned, RegistryError, Finalize, Send, network, ending, server
<1> QED BY <1>1, <1>2, <1>3, <1>4 DEF Own

LEMMA ReloadKeeps == ASSUME Own, Reload PROVE Own'
<1>1. PageTypes'
  <2>1. doc' \in Nat \ {0}
    BY DEF Own, PageTypes, Reload
  <2>2. stopped' \in BOOLEAN
    BY DEF Reload
  <2>3. wait' \in Ops \cup {NoOp} /\ answer' \in Answers
    BY DEF Reload, Answers
  <2>4. fin' \in Places /\ goal' \in Goals
    BY DEF Reload, Places, Goals
  <2> QED BY <2>1, <2>2, <2>3, <2>4 DEF Own, PageTypes, Reload
<1>2. Awaited'
  BY DEF Awaited, Reload, NoOp
<1>3. GateFresh'
  BY DEF Own, GateFresh, Reload, Resumable, Ended, Running, Early
<1>4. VerdictEarned'
  BY DEF Own, VerdictEarned, Reload, server
<1> QED BY <1>1, <1>2, <1>3, <1>4 DEF Own

LEMMA TimerFiresKeeps == ASSUME Own, TimerFires PROVE Own'
<1>1. PageTypes'
  <2>1. CASE fin' = fin
    BY <2>1 DEF Own, PageTypes, TimerFires, Finalize, Claimable, network, gate, ending
  <2>2. CASE Finalize("incomplete", "timeout")
    <3>1. wire' \subseteq Ops \X (Nat \ {0})
      BY <2>2 DEF Own, PageTypes, Finalize, Send, Ops
    <3>2. wait' \in Ops \cup {NoOp} /\ answer' \in Answers /\ fin' \in Places /\ goal' \in Goals
      BY <2>2 DEF Finalize, Send, Ops, Answers, Places, Goals
    <3> QED BY <2>2, <3>1, <3>2 DEF Own, PageTypes, TimerFires, Finalize, gate
  <2> QED BY <2>1, <2>2 DEF TimerFires, ending
<1>2. Awaited'
  BY DEF Own, Awaited, TimerFires, Finalize, Send, network
<1>3. GateFresh'
  BY DEF Own, GateFresh, TimerFires, Finalize, gate, ending
<1>4. VerdictEarned'
  BY DEF Own, VerdictEarned, TimerFires, Finalize, Send, network, ending, server
<1> QED BY <1>1, <1>2, <1>3, <1>4 DEF Own

LEMMA InvokeKeeps == ASSUME Own, Invoke PROVE Own'
<1>1. PageTypes'
  BY DEF Own, PageTypes, Invoke, network, clock, ending, Pages
<1>2. Awaited'
  BY DEF Own, Awaited, Invoke, network
<1>3. GateFresh'
  BY DEF Own, GateFresh, Invoke, Early
<1>4. VerdictEarned'
  BY DEF Own, VerdictEarned, GateFresh, Invoke, network, ending, server
<1> QED BY <1>1, <1>2, <1>3, <1>4 DEF Own

LEMMA CallSettlesKeeps == ASSUME Own, CallSettles PROVE Own'
<1>1. PageTypes'
  BY DEF Own, PageTypes, CallSettles, Finalize, Send, network, clock, ending,
       Pages, Ops, Answers, Places, Goals
<1>2. Awaited'
  BY DEF Own, Awaited, CallSettles, Finalize, Send, network
<1>3. GateFresh'
  BY DEF Own, GateFresh, CallSettles, ending, Early
<1>4. VerdictEarned'
  BY DEF Own, VerdictEarned, GateFresh, CallSettles, Finalize, Send, network, ending, server
<1> QED BY <1>1, <1>2, <1>3, <1>4 DEF Own

LEMMA ControlDoneKeeps == ASSUME Own, ControlDone PROVE Own'
<1>1. PageTypes'
  BY DEF Own, PageTypes, ControlDone, Send, gate, clock, Ops, Answers, Places
<1>2. Awaited'
  BY DEF Awaited, ControlDone, Send
<1>3. GateFresh'
  BY DEF Own, GateFresh, ControlDone, gate
<1>4. VerdictEarned'
  BY DEF Own, VerdictEarned, ControlDone, Send, server
<1> QED BY <1>1, <1>2, <1>3, <1>4 DEF Own

LEMMA RevealDoneKeeps == ASSUME Own, RevealDone PROVE Own'
<1>1. PageTypes'
  BY DEF Own, PageTypes, RevealDone, gate, clock, Answers, Places
<1>2. Awaited'
  BY DEF Awaited, RevealDone, NoOp
<1>3. GateFresh'
  BY DEF Own, GateFresh, RevealDone, gate
<1>4. VerdictEarned'
  BY DEF Own, VerdictEarned, RevealDone, server
<1> QED BY <1>1, <1>2, <1>3, <1>4 DEF Own

LEMMA EvaluateKeeps == ASSUME Own, Evaluate PROVE Own'
<1>1. PageTypes'
  BY DEF Own, PageTypes, Evaluate, network, gate, clock, Places, Goals
<1>2. Awaited'
  BY DEF Own, Awaited, Evaluate, network
<1>3. GateFresh'
  BY DEF Own, GateFresh, Evaluate, gate
<1>4. VerdictEarned'
  BY DEF Own, VerdictEarned, Evaluate, server, Verdicts
<1> QED BY <1>1, <1>2, <1>3, <1>4 DEF Own

LEMMA ConcludeNothingKeeps == ASSUME Own, ConcludeNothing PROVE Own'
<1>1. PageTypes'
  BY DEF Own, PageTypes, ConcludeNothing, network, gate, clock, Places
<1>2. Awaited'
  BY DEF Own, Awaited, ConcludeNothing, network
<1>3. GateFresh'
  BY DEF Own, GateFresh, ConcludeNothing, gate
<1>4. VerdictEarned'
  BY DEF Own, VerdictEarned, ConcludeNothing, network, server, Verdicts
<1> QED BY <1>1, <1>2, <1>3, <1>4 DEF Own

LEMMA PersistTerminalKeeps == ASSUME Own, PersistTerminal PROVE Own'
<1>1. PageTypes'
  BY DEF Own, PageTypes, PersistTerminal, network, Places
<1>2. Awaited'
  BY DEF Own, Awaited, PersistTerminal, network
<1>3. GateFresh'
  BY DEF Own, GateFresh, PersistTerminal
<1>4. VerdictEarned'
  BY DEF Own, VerdictEarned, PersistTerminal, network, server
<1> QED BY <1>1, <1>2, <1>3, <1>4 DEF Own

LEMMA StoreResultKeeps == ASSUME Own, StoreResult PROVE Own'
<1>1. PageTypes'
  BY DEF Own, PageTypes, StoreResult, Send, gate, clock, Pages, Ended, Ops,
       Answers, Places, Verdicts, VerdictEarned, PageOf
<1>2. Awaited'
  BY DEF Awaited, StoreResult, Send
<1>3. GateFresh'
  BY DEF Own, GateFresh, StoreResult, gate, Early, PageOf, VerdictEarned, Verdicts
<1>4. VerdictEarned'
  BY DEF Own, VerdictEarned, StoreResult, Send, server
<1> QED BY <1>1, <1>2, <1>3, <1>4 DEF Own

LEMMA ReportDoneKeeps == ASSUME Own, ReportDone PROVE Own'
<1>1. PageTypes'
  BY DEF Own, PageTypes, ReportDone, gate, clock, Answers, Places
<1>2. Awaited'
  BY DEF Awaited, ReportDone, NoOp
<1>3. GateFresh'
  BY DEF Own, GateFresh, ReportDone, gate
<1>4. VerdictEarned'
  BY DEF Own, VerdictEarned, ReportDone, server
<1> QED BY <1>1, <1>2, <1>3, <1>4 DEF Own

LEMMA FailKeeps == ASSUME Own, Fail, fin # "idle" PROVE Own'
<1>1. PageTypes'
  BY DEF Own, PageTypes, Fail, Answers, Places
<1>2. Awaited'
  BY DEF Awaited, Fail, NoOp
<1>3. GateFresh'
  BY DEF Own, GateFresh, Fail
<1>4. VerdictEarned'
  BY DEF Own, VerdictEarned, Fail, server
<1> QED BY <1>1, <1>2, <1>3, <1>4 DEF Own

LEMMA FinalizerKeeps == ASSUME Own, FinalizerStep PROVE Own'
<1>1. CASE FinalizerFails
  BY <1>1, FailKeeps DEF FinalizerFails
<1>2. CASE ConcludeRefused
  BY <1>2, FailKeeps DEF ConcludeRefused
<1> QED
  BY <1>1, <1>2, ControlDoneKeeps, RevealDoneKeeps, EvaluateKeeps, ConcludeNothingKeeps,
     PersistTerminalKeeps, StoreResultKeeps, ReportDoneKeeps DEF FinalizerStep

LEMMA PageStepKeeps == ASSUME IInv, Own, PageStep PROVE Own'
BY BootstrapKeeps, BootstrappedKeeps, MarkReadyKeeps, ClickStartKeeps, StartedKeeps,
   EnvironmentFailsKeeps, NoProviderKeeps, RegisterKeeps, ReadyKeeps, RegistryErrorKeeps, ReloadKeeps
   DEF PageStep

-----------------------------------------------------------------------------
(* What the network and the others do: the page has not moved, and a run that *)
(* the ledger ended stays ended.                                           *)

LEMMA ElsewhereKeeps ==
  ASSUME Own, UNCHANGED runner, state[Run] = "SETTLED" => state'[Run] = "SETTLED" PROVE Own'
<1>1. PageTypes' /\ Awaited' /\ GateFresh'
  BY DEF Own, PageTypes, Awaited, GateFresh, Running, runner, network, gate, clock, ending
<1>2. VerdictEarned'
  BY DEF Own, VerdictEarned, runner, network, gate, clock, ending
<1> QED BY <1>1, <1>2 DEF Own

LEMMA AnswerKeeps ==
  ASSUME Own, NEW op \in Ops, NEW d, NEW text \in {"ok", "failed"},
         Reply(op, d, text), wire' = wire \ {<<op, d>>},
         UNCHANGED <<doc, page, stopped, wait, tools, gate, clock, ending, admitted>>,
         text = "ok" /\ op = "settle" => state'[Run] = "SETTLED",
         state[Run] = "SETTLED" => state'[Run] = "SETTLED"
  PROVE  Own'
<1>1. PageTypes'
  <2>1. answer' \in Answers
    BY DEF Own, PageTypes, Reply, Answers
  <2>2. wire' \subseteq Ops \X (Nat \ {0})
    BY DEF Own, PageTypes
  <2> QED BY <2>1, <2>2 DEF Own, PageTypes, gate, clock, ending
<1>2. Awaited' /\ GateFresh'
  BY DEF Own, Awaited, GateFresh, Running, gate, clock, ending
<1>3. VerdictEarned'
  BY DEF Own, VerdictEarned, Reply, gate, clock, ending
<1> QED BY <1>1, <1>2, <1>3 DEF Own

LEMMA ServeKeeps ==
  ASSUME IInv, Own, [RunnerNext]_runnerVars, NEW op \in Ops, NEW d, Serve(op, d) PROVE Own'
<1>1. PICK text \in {"ok", "failed"} : Reply(op, d, text)
  BY DEF Serve
<1>2. op = "settle" => state'[Run] = "SETTLED"
  BY SettleSettles DEF Serve
<1>3. state[Run] = "SETTLED" => state'[Run] = "SETTLED"
  BY SettledStays
<1> QED BY <1>1, <1>2, <1>3, AnswerKeeps DEF Serve

LEMMA DropKeeps ==
  ASSUME Own, NEW op \in Ops, NEW d, Drop(op, d) PROVE Own'
<1>1. UNCHANGED state
  BY DEF Drop, server
<1>2. state[Run] = "SETTLED" => state'[Run] = "SETTLED"
  BY <1>1
<1> QED BY <1>2, AnswerKeeps DEF Drop

-----------------------------------------------------------------------------
(* The theorems. *)

LEMMA RunnerStep == RInv /\ [RunnerNext]_runnerVars => RInv'
<1> SUFFICES ASSUME RInv, [RunnerNext]_runnerVars PROVE RInv'
  OBVIOUS
<1>1. IInv'
  BY RunnerLedgerStep, NextInvariant DEF RInv
<1>2. Own'
  <2>1. CASE Elsewhere
    BY <2>1, ElsewhereInLedger, ElsewhereKeeps, SettledStays DEF RInv
  <2>2. CASE UNCHANGED runnerVars
    BY <2>2, ElsewhereKeeps, SettledStays DEF RInv, runnerVars
  <2>3. ASSUME NEW op \in Ops, NEW d \in 1 .. MaxDocs, Serve(op, d) \/ Drop(op, d) PROVE Own'
    BY <2>3, ServeKeeps, DropKeeps DEF RInv
  <2>4. CASE PageStep
    BY <2>4, PageStepKeeps DEF RInv
  <2>5. CASE TimerFires \/ Invoke \/ CallSettles \/ FinalizerStep
    BY <2>5, TimerFiresKeeps, InvokeKeeps, CallSettlesKeeps, FinalizerKeeps DEF RInv
  <2> QED BY <2>1, <2>2, <2>3, <2>4, <2>5 DEF RunnerNext
<1> QED BY <1>1, <1>2 DEF RInv

\* The ledger's invariant holds under the page, and with it what the page knows
\* of its run: what it awaits, that its gate is fresh, that its verdict is earned.
THEOREM RunnerInvariance == RunnerSpec => []RInv
BY RunnerStart, RunnerStep, PTL DEF RunnerSpec, runnerVars

\* A case admits at most one native call over all the documents of the page, and
\* a verdict on it rests on a call that was admitted and that the ledger settled,
\* however many reloads, lost answers and late requests there were.
THEOREM JudgedCall == RunnerSpec => []JudgedCallWasMade
<1>1. RInv => JudgedCallWasMade
  BY DEF RInv, Own, GateFresh, VerdictEarned, JudgedCallWasMade
<1> QED BY <1>1, RunnerInvariance, PTL

\* The page is one of the ledger's callers: with everything it does and loses,
\* the ledger under it does only what its scripts allow, so every theorem about
\* the ledger holds of the run the page shows.
THEOREM RunnerKeepsLedger == RunnerSpec => Spec
<1>1. RunnerInit => Init
  BY DEF RunnerInit
<1> QED BY <1>1, RunnerLedgerStep, PTL DEF RunnerSpec, Spec, runnerVars

\* So the slots are exact, a started run has the time to be observed and ended, and
\* the run is a one-time handoff, also with the page's retries and late requests.
THEOREM LedgerHoldsUnderPage ==
  RunnerSpec => []SlotsAreOpenRuns /\ []ObservationFits /\ ImplementsTrial
BY RunnerKeepsLedger, SlotsExact, ObservationsFit, IsOneTimeHandoff, PTL

-----------------------------------------------------------------------------
(* A continuous journey.                                                     *)

MaybeToken == Tokens \cup {NoToken}
MaybeResult == Results \cup {NoResult}
Entries == [run : Runs, result : Results]
PlanRuns == {Plan[k] : k \in Steps}

Reports ==
  [at : {"idle", "ledger", "journey", "answer"}, run : Runs \cup {"none"}, result : MaybeResult,
   cookie : MaybeToken]

Advances ==
  [at : {"idle", "look", "verify", "record", "ensure", "issue", "claim", "receive", "answer"},
   run : Runs \cup {"none"}, result : MaybeResult, cookie : MaybeToken,
   position : 0 .. Len(Plan) - 1, token : MaybeToken]

JourneyTypes ==
  /\ mode \in {"continuous", "regression"} /\ saved \in BOOLEAN
  /\ journey \in [position : Nat, run : Runs, results : Seq(Entries),
                  previous : Entries \cup {NoEntry}, token : MaybeToken]
  /\ cookie \in MaybeToken
  /\ step \in Steps /\ shown \in MaybeResult /\ known \in BOOLEAN /\ live \subseteq Steps
  /\ stage \in {"landed", "opened", "received", "started", "ended", "stopped"}
  /\ report \in Reports
  /\ advance \in [Handlers -> Advances]

\* Time stands still, and every session was compiled before it began to.
Still == now = 0 /\ expiry = [r \in Runs |-> Ttl]

\* The record agrees with the ledger, and carries a token of its current run.
RecordTruth ==
  /\ \A i \in DOMAIN journey.results :
       /\ result[Plan[i]] # NoResult
       /\ journey.results[i].result = result[Plan[i]]
  /\ mode = "continuous" => \A i \in 1 .. journey.position : Passed(result[Plan[i]])
  /\ journey.token # NoToken => RunOf[journey.token] = Plan[journey.position + 1]

\* A later run was handed out when the record had come to it, under its token.
HandedOut ==
  \A k \in Steps \ {1} :
    holder[Plan[k]] # NoToken =>
      /\ k <= journey.position + 1
      /\ k = journey.position + 1 => holder[Plan[k]] = journey.token

\* A report is of a run of the plan that has settled, by a cookie of that run.
ReportTrue ==
  report.at # "idle" =>
    /\ report.run \in PlanRuns /\ report.result \in Results
    /\ report.cookie \in Tokens /\ RunOf[report.cookie] = report.run
    /\ state[report.run] = "SETTLED"
    /\ report.at # "ledger" => result[report.run] = report.result

Delivering(q) == q.at \in {"ensure", "issue", "claim", "receive", "answer"}

\* What a request to advance has seen is still true, and what it delivers is the
\* record's current run or an earlier one.
AdvanceRight(q) ==
  /\ q.at # "idle" => q.run \in PlanRuns /\ q.result \in Results
  /\ q.at \notin {"idle", "look"} => q.position >= 1
  /\ q.at = "record" => result[q.run] = q.result /\ (mode = "continuous" => Passed(q.result))
  /\ q.at = "record" \/ Delivering(q) =>
       q.token \in Tokens /\ RunOf[q.token] = Plan[q.position + 1]
  /\ Delivering(q) =>
       /\ q.position <= journey.position
       /\ q.position = journey.position => q.token = journey.token

AdvanceTrue == \A h \in Handlers : AdvanceRight(advance[h])

\* Only a settled run has a result, and only an issued one a link.
LedgerTruth ==
  /\ \A k \in Steps : result[Plan[k]] # NoResult => state[Plan[k]] = "SETTLED"
  /\ saved => holder[Plan[1]] # NoToken

\* The page's stage is the ledger's, and the cart of a page that knows its
\* journey has the effects of the runs that settled.
PageTrue ==
  /\ stage = "landed" => state[Plan[1]] \in {"NONE", "ISSUED"}
  /\ stage = "opened" => state[Plan[1]] = "CLAIMED" /\ cookie \in Tokens
  /\ stage \in {"landed", "opened"} => step = 1 /\ ~known /\ live = {}
  /\ stage = "started" => state[Plan[step]] = "STARTED"
  /\ known /\ mode = "continuous" => live = {k \in Steps : state[Plan[k]] = "SETTLED"}
  /\ known /\ mode = "regression" /\ stage = "started" => live = {}

\* The inductive invariant.
JInv ==
  /\ IInv /\ Still /\ JourneyTypes /\ Readable /\ RecordTruth /\ HandedOut /\ ReportTrue
  /\ AdvanceTrue /\ LedgerTruth /\ PageTrue

-----------------------------------------------------------------------------
(* The plan and the first state. *)

LEMMA PlanFacts ==
  /\ Len(Plan) \in Nat /\ Len(Plan) >= 2 /\ DOMAIN Plan = Steps
  /\ 1 \in Steps /\ PlanRuns \subseteq Runs
  /\ \A k \in Steps : Plan[k] \in Runs /\ Plan[k] \in PlanRuns
  /\ \A i, j \in Steps : Plan[i] = Plan[j] => i = j
  /\ Browser \in Contexts /\ NoResult \notin Results /\ NoToken \notin Tokens
<1>1. /\ Plan \in Seq(Runs) /\ Len(Plan) >= 2 /\ Browser \in Contexts
      /\ \A i, j \in DOMAIN Plan : Plan[i] = Plan[j] => i = j
  BY JourneyAssumption DEF JourneyAssumption
<1>2. Len(Plan) \in Nat /\ DOMAIN Plan = 1 .. Len(Plan)
  BY <1>1, LenProperties
<1>3. \A k \in 1 .. Len(Plan) : Plan[k] \in Runs
  BY <1>1, <1>2, ElementOfSeq
<1> QED BY <1>1, <1>2, <1>3, ConstantTypes DEF Steps, PlanRuns

LEMMA EntryTypes ==
  /\ \A r \in Runs, x \in Results : Entry(r, x) \in Entries /\ Entry(r, x) # NoEntry
  /\ \A e \in Entries : e # NoEntry
BY PlanFacts DEF Entry, Entries, NoEntry

LEMMA JourneyStart == JourneyInit => JInv
<1> SUFFICES ASSUME JourneyInit PROVE JInv
  OBVIOUS
<1> USE PlanFacts, ConstantTypes DEF JourneyInit
<1>1. TypeOK /\ Coherent /\ Listed /\ ObservationFits
  BY DEF TypeOK, Coherent, Listed, ObservationFits, States, Open, Terminal
<1>2. SlotsAreOpenRuns
  BY DEF SlotsAreOpenRuns, ActiveMember, Exists
<1>3. Recent = {} /\ Live = {}
  BY DEF Recent, Live
<1>4. IInv
  BY <1>1, <1>2, <1>3, FS_EmptySet DEF IInv, Limited
<1>5. JourneyTypes
  <2>1. <<>> \in Seq(Entries)
    BY EmptySeq
  <2>2. report \in Reports /\ advance \in [Handlers -> Advances]
    BY DEF Reports, Advances, IdleReport, IdleAdvance, MaybeToken, MaybeResult
  <2> QED BY <2>1, <2>2 DEF JourneyTypes, MaybeToken, MaybeResult
<1>6. Len(journey.results) = 0 /\ DOMAIN journey.results = {}
  OBVIOUS
<1>7. Readable
  BY <1>6 DEF Readable
<1>8. Still /\ RecordTruth /\ HandedOut /\ ReportTrue /\ AdvanceTrue /\ LedgerTruth
  BY <1>6 DEF Still, RecordTruth, HandedOut, ReportTrue, AdvanceTrue, AdvanceRight, Delivering,
              LedgerTruth,
              IdleReport, IdleAdvance
<1>9. PageTrue
  BY DEF PageTrue
<1> QED BY <1>4, <1>5, <1>7, <1>8, <1>9 DEF JInv

-----------------------------------------------------------------------------
(* Every step of the journey is a step of the ledger, or none. *)

\* A token that a script of the ledger accepts is a token.
LEMMA CookieIsToken == JourneyTypes /\ Exists(RunOf[cookie]) /\ Bound(cookie) => cookie \in Tokens
BY PlanFacts DEF JourneyTypes, MaybeToken, Exists, Bound

LEMMA LedgerStep == JInv /\ [JourneyNext]_all => [Next]_vars
<1> SUFFICES ASSUME JInv, [JourneyNext]_all PROVE [Next]_vars
  OBVIOUS
<1> USE PlanFacts
<1>1. JourneyTypes /\ TypeOK /\ ReportTrue /\ AdvanceTrue /\ LedgerTruth /\ PageTrue
  BY DEF JInv, IInv
<1>2. ASSUME NEW t \in Tokens, Issue(t) \/ ContextStep(t, Browser) PROVE Next
  BY <1>2 DEF Next, OwnerStep
<1>3. CASE UNCHANGED ledger
  BY <1>3 DEF ledger, vars
<1>4. CASE PrepareIssue
  BY <1>2, <1>4 DEF PrepareIssue
<1>5. CASE OpenLink
  <2>1. holder[Plan[1]] \in Tokens
    BY <1>1, <1>5 DEF OpenLink, LedgerTruth, TypeOK
  <2> QED BY <1>2, <1>5, <2>1 DEF OpenLink, ContextStep
<1>6. CASE BootstrapRun
  BY <1>1, <1>2, <1>6 DEF BootstrapRun, PageTrue, ContextStep
<1>7. CASE StartRun
  BY <1>1, <1>2, <1>7, CookieIsToken DEF StartRun, Start, BoundTo, ContextStep
<1>8. ASSUME NEW x \in Results, FinishRun(x) PROVE Next
  <2>1. Settle(cookie, Browser, "SETTLED")
    BY <1>8 DEF FinishRun
  <2>2. cookie \in Tokens
    BY <1>1, <2>1, CookieIsToken DEF Settle, BoundTo
  <2> QED BY <1>2, <2>1, <2>2 DEF ContextStep
<1>9. CASE ReportToLedger
  <2>1. CASE Report(report.cookie, Browser, report.result)
    <3>1. report.cookie \in Tokens /\ report.result \in Results
      BY <1>1, <1>9 DEF ReportToLedger, ReportTrue
    <3> QED BY <1>2, <2>1, <3>1 DEF ContextStep
  <2> QED BY <1>3, <1>9, <2>1 DEF ReportToLedger
<1>10. ASSUME NEW h \in Handlers, IssueNext(h) \/ ClaimNext(h) \/ ReceiveNext(h)
       PROVE  Next \/ UNCHANGED ledger
  <2>1. advance[h].token \in Tokens
    BY <1>1, <1>10 DEF IssueNext, ClaimNext, ReceiveNext, AdvanceTrue, AdvanceRight, Delivering
  <2> QED BY <1>2, <1>10, <2>1 DEF IssueNext, ClaimNext, ReceiveNext, ContextStep
<1>11. CASE \/ PrepareStore \/ ReloadPage \/ ReportToJourney \/ ReportAnswered \/ ReportDies
            \/ \E h \in Handlers : \/ Continue(h) \/ Look(h) \/ Verify(h) \/ Record(h) \/ Ensure(h)
                                   \/ Answer(h) \/ AdvanceDies(h)
  BY <1>3, <1>11
     DEF PrepareStore, ReloadPage, ReportToJourney, ReportAnswered, ReportDies, Continue, Look, Verify,
         Record, Ensure, Answer, AdvanceDies
<1> QED
  BY <1>3, <1>4, <1>5, <1>6, <1>7, <1>8, <1>9, <1>10, <1>11
     DEF JourneyNext, ReportStep, AdvanceStep, all

\* What a step leaves alone for ever: a link, a result, a settled run, the hour.
LEMMA Kept ==
  ASSUME JInv, [JourneyNext]_all
  PROVE  /\ IInv' /\ Still'
         /\ \A r \in Runs :
              /\ holder[r] # NoToken => holder'[r] = holder[r]
              /\ result[r] # NoResult => result'[r] = result[r]
              /\ state[r] = "SETTLED" => state'[r] = "SETTLED"
         /\ mode' = mode
<1> USE PlanFacts
<1>1. IInv /\ Still /\ TypeOK /\ Coherent
  BY DEF JInv, IInv
<1>2. [Next]_vars
  BY LedgerStep
<1>3. IInv'
  BY <1>1, <1>2, NextInvariant
<1>4. \A r \in Runs : /\ holder[r] # NoToken => holder'[r] = holder[r]
                      /\ result[r] # NoResult => result'[r] = result[r]
  BY <1>1, <1>2, OwnedStep
<1>5. \A r \in Runs : state[r] = "SETTLED" => state'[r] = "SETTLED"
  BY <1>1, <1>2, EndedStep DEF Terminal
<1>6. UNCHANGED <<now, expiry, mode>>
  <2> USE DEF record, ledger
  <2>1. CASE PrepareIssue \/ PrepareStore \/ OpenLink \/ BootstrapRun \/ StartRun \/ ReloadPage
    BY <2>1 DEF PrepareIssue, PrepareStore, OpenLink, BootstrapRun, StartRun, ReloadPage, Issue,
                Claim, Receive, Start
  <2>2. CASE \E x \in Results : FinishRun(x)
    BY <2>2 DEF FinishRun, Settle, End
  <2>3. CASE ReportStep \/ ReportDies
    BY <2>3 DEF ReportStep, ReportToLedger, ReportToJourney, ReportAnswered, ReportDies, Report
  <2>4. ASSUME NEW h \in Handlers, Continue(h) \/ AdvanceStep(h) \/ AdvanceDies(h)
        PROVE  UNCHANGED <<now, expiry, mode>>
    <3>1. CASE Continue(h) \/ AdvanceDies(h)
      BY <3>1 DEF Continue, AdvanceDies
    <3>2. CASE AdvanceStep(h)
      BY <3>2 DEF AdvanceStep, Look, Verify, Record, Ensure, IssueNext, ClaimNext, ReceiveNext,
                  Answer, Issue, Claim, Receive
    <3> QED BY <2>4, <3>1, <3>2
  <2>5. CASE UNCHANGED all
    BY <2>5 DEF all
  <2> QED BY <2>1, <2>2, <2>3, <2>4, <2>5 DEF JourneyNext
<1> QED BY <1>1, <1>3, <1>4, <1>5, <1>6 DEF Still

-----------------------------------------------------------------------------
(* Types. *)

\* A request takes another form.
LEMMA AdvanceBecomes ==
  ASSUME JourneyTypes, NEW h \in Handlers, NEW q \in Advances, advance' = [advance EXCEPT ![h] = q]
  PROVE  advance' \in [Handlers -> Advances]
BY DEF JourneyTypes

LEMMA IdleIsAdvance == IdleAdvance \in Advances
BY PlanFacts DEF IdleAdvance, Advances, MaybeToken, MaybeResult

\* What Look and Verify make of a request.
LEMMA AdvanceLooked ==
  ASSUME NEW q \in Advances, NEW at \in {"ensure", "verify"}, NEW n \in 0 .. Len(Plan) - 1,
         NEW t \in MaybeToken
  PROVE  [q EXCEPT !.at = at, !.position = n, !.token = t] \in Advances
BY DEF Advances

LEMMA AdvanceVerified ==
  ASSUME NEW q \in Advances, NEW t \in MaybeToken
  PROVE  [q EXCEPT !.at = "record", !.token = t] \in Advances
BY DEF Advances

\* What Record makes of the record.
LEMMA JourneyMoved ==
  ASSUME JourneyTypes, NEW q \in Advances, Plan[q.position + 1] \in Runs,
         Entry(q.run, q.result) \in Entries
  PROVE  Moved(q) \in [position : Nat, run : Runs, results : Seq(Entries),
                       previous : Entries \cup {NoEntry}, token : MaybeToken]
<1>1. /\ journey \in [position : Nat, run : Runs, results : Seq(Entries),
                      previous : Entries \cup {NoEntry}, token : MaybeToken]
      /\ q.position \in Nat /\ q.token \in MaybeToken
  BY DEF JourneyTypes, Advances
<1> QED BY <1>1 DEF Moved

\* A request goes on at another point, or is over.
LEMMA AdvanceGoes ==
  ASSUME JourneyTypes, NEW h \in Handlers,
         NEW at \in {"ensure", "issue", "claim", "receive", "answer"},
         Goes(h, at) \/ Refused(h)
  PROVE  advance' \in [Handlers -> Advances]
<1>1. CASE advance' = [advance EXCEPT ![h].at = at]
  <2>1. [advance[h] EXCEPT !.at = at] \in Advances
    BY DEF JourneyTypes, Advances
  <2>2. advance' = [advance EXCEPT ![h] = [advance[h] EXCEPT !.at = at]]
    BY <1>1
  <2> QED BY <2>1, <2>2, AdvanceBecomes
<1>2. CASE Refused(h)
  BY <1>2, IdleIsAdvance, AdvanceBecomes DEF Refused
<1> QED BY <1>1, <1>2 DEF Goes, JourneyTypes

LEMMA JourneyTypesStep == JInv /\ [JourneyNext]_all => JourneyTypes'
<1> SUFFICES ASSUME JInv, [JourneyNext]_all PROVE JourneyTypes'
  OBVIOUS
<1> USE PlanFacts
<1>1. JourneyTypes /\ ReportTrue /\ AdvanceTrue /\ TypeOK
  BY DEF JInv, IInv
<1>a. UNCHANGED mode
  BY Kept
<1>2. CASE UNCHANGED <<record, cookie, pageVars, report, advance>>
  BY <1>1, <1>2 DEF JourneyTypes, record, pageVars
<1>3. CASE PrepareStore
  BY <1>1, <1>3 DEF PrepareStore, JourneyTypes, pageVars
<1>4. CASE OpenLink
  BY <1>1, <1>4 DEF OpenLink, JourneyTypes, record, TypeOK, MaybeToken
<1>5. CASE BootstrapRun
  BY <1>1, <1>5 DEF BootstrapRun, JourneyTypes, record
<1>6. CASE StartRun
  BY <1>1, <1>6 DEF StartRun, CartAtStart, JourneyTypes, record
<1>7. ASSUME NEW x \in Results, FinishRun(x) PROVE JourneyTypes'
  BY <1>1, <1>7 DEF FinishRun, JourneyTypes, record, Reports, MaybeResult
<1>8. CASE ReloadPage
  BY <1>1, <1>8 DEF ReloadPage, JourneyTypes, record
<1>9. CASE ReportToLedger \/ ReportDies
  BY <1>1, <1>9 DEF ReportToLedger, ReportDies, ReportGoes, IdleReport, JourneyTypes, record, pageVars,
                    Reports, MaybeToken, MaybeResult
<1>10. CASE ReportToJourney
  <2>1. report' \in Reports
    BY <1>1, <1>10 DEF ReportToJourney, ReportGoes, JourneyTypes, Reports
  <2>2. Entry(report.run, report.result) \in Entries
    BY <1>1, <1>10, EntryTypes DEF ReportToJourney, ReportTrue
  <2>3. Append(journey.results, Entry(report.run, report.result)) \in Seq(Entries)
    BY <1>1, <2>2, AppendProperties DEF JourneyTypes
  <2> QED BY <1>1, <1>10, <2>1, <2>3 DEF ReportToJourney, JourneyTypes, pageVars
<1>11. CASE ReportAnswered
  BY <1>1, <1>11 DEF ReportAnswered, ReportEnds, IdleReport, JourneyTypes, record,
                     Reports, MaybeToken, MaybeResult
<1>b. ASSUME NEW h \in Handlers, NEW q \in Advances, advance' = [advance EXCEPT ![h] = q],
             UNCHANGED <<record, cookie, pageVars, report>>
      PROVE  JourneyTypes'
  BY <1>1, <1>b, AdvanceBecomes DEF JourneyTypes, record, pageVars
<1>12. ASSUME NEW h \in Handlers, Continue(h) PROVE JourneyTypes'
  <2> DEFINE q == [IdleAdvance EXCEPT !.at = "look", !.run = Plan[step], !.result = shown, !.cookie = cookie]
  <2>1. q \in Advances
    BY <1>1, IdleIsAdvance DEF JourneyTypes, Advances
  <2>2. advance' = [advance EXCEPT ![h] = q]
    BY <1>12 DEF Continue
  <2> QED BY <1>b, <1>12, <2>1, <2>2 DEF Continue
<1>13. ASSUME NEW h \in Handlers, Look(h) PROVE JourneyTypes'
  <2> DEFINE next == IF Replays(advance[h]) THEN journey.position ELSE journey.position + 1
             q == [advance[h] EXCEPT !.at = Then(advance[h]), !.position = next,
                                     !.token = IF Replays(advance[h]) THEN journey.token ELSE @]
  <2>1. CASE Refused(h)
    BY <1>b, <1>13, <2>1, IdleIsAdvance DEF Look, Refused
  <2>2. CASE ~Refused(h)
    <3>1. next < Len(Plan) /\ advance' = [advance EXCEPT ![h] = q]
      BY <1>13, <2>2 DEF Look
    <3>2. /\ advance[h] \in Advances /\ Then(advance[h]) \in {"ensure", "verify"}
          /\ next \in 0 .. Len(Plan) - 1
          /\ (IF Replays(advance[h]) THEN journey.token ELSE advance[h].token) \in MaybeToken
      BY <1>1, <3>1 DEF JourneyTypes, Advances, Then
    <3>3. q \in Advances
      BY <3>2, AdvanceLooked
    <3> QED BY <1>b, <1>13, <3>1, <3>3 DEF Look
  <2> QED BY <2>1, <2>2
<1>14. ASSUME NEW h \in Handlers, Verify(h) PROVE JourneyTypes'
  <2>1. CASE Refused(h)
    BY <1>b, <1>14, <2>1, IdleIsAdvance DEF Verify, Refused
  <2>2. CASE ~Refused(h)
    <3>1. PICK t \in Tokens : advance' = [advance EXCEPT ![h].at = "record", ![h].token = t]
      BY <1>14, <2>2 DEF Verify
    <3>2. advance' = [advance EXCEPT ![h] = [advance[h] EXCEPT !.at = "record", !.token = t]]
      BY <1>1, <3>1 DEF JourneyTypes
    <3>3. [advance[h] EXCEPT !.at = "record", !.token = t] \in Advances
      BY <1>1, AdvanceVerified DEF JourneyTypes, MaybeToken
    <3> QED BY <1>b, <1>14, <3>2, <3>3 DEF Verify
  <2> QED BY <2>1, <2>2
<1>15. ASSUME NEW h \in Handlers, Record(h) PROVE JourneyTypes'
  <2>1. advance' \in [Handlers -> Advances]
    BY <1>1, <1>15, AdvanceGoes DEF Record
  <2>2. advance[h] \in Advances /\ advance[h].position + 1 \in Steps
        /\ Entry(advance[h].run, advance[h].result) \in Entries
    BY <1>1, <1>15, EntryTypes DEF Record, JourneyTypes, AdvanceTrue, AdvanceRight, Advances, Steps
  <2>3. Moved(advance[h]) \in [position : Nat, run : Runs, results : Seq(Entries),
                               previous : Entries \cup {NoEntry}, token : MaybeToken]
    BY <1>1, <2>2, JourneyMoved
  <2> QED BY <1>1, <1>15, <2>1, <2>3 DEF Record, JourneyTypes, pageVars
<1>16. ASSUME NEW h \in Handlers, Ensure(h) \/ IssueNext(h) \/ ClaimNext(h) \/ ReceiveNext(h)
       PROVE  JourneyTypes'
  <2>1. advance' \in [Handlers -> Advances]
    BY <1>1, <1>16, AdvanceGoes DEF Ensure, IssueNext, ClaimNext, ReceiveNext
  <2> QED BY <1>1, <1>16, <2>1 DEF Ensure, IssueNext, ClaimNext, ReceiveNext, JourneyTypes, record, pageVars
<1>17. ASSUME NEW h \in Handlers, Answer(h) PROVE JourneyTypes'
  <2>1. advance' \in [Handlers -> Advances]
    BY <1>1, <1>17, AdvanceGoes DEF Answer
  <2>2. advance[h].token \in MaybeToken /\ advance[h].position + 1 \in Steps
    BY <1>1 DEF JourneyTypes, Advances, Steps
  <2> QED BY <1>1, <1>17, <2>1, <2>2 DEF Answer, JourneyTypes, record, pageVars, MaybeResult
<1>18. ASSUME NEW h \in Handlers, AdvanceDies(h) PROVE JourneyTypes'
  <2>1. advance' \in [Handlers -> Advances]
    BY <1>1, <1>18, AdvanceGoes DEF AdvanceDies, IdleAdvance, JourneyTypes, Advances, MaybeToken, MaybeResult
  <2>2. advance[h].token \in MaybeToken
    BY <1>1 DEF JourneyTypes, Advances
  <2> QED BY <1>1, <1>18, <2>1, <2>2 DEF AdvanceDies, JourneyTypes, record, pageVars
<1> QED
  BY <1>2, <1>3, <1>4, <1>5, <1>6, <1>7, <1>8, <1>9, <1>10, <1>11, <1>12, <1>13, <1>14, <1>15, <1>16,
     <1>17, <1>18
     DEF JourneyNext, ReportStep, AdvanceStep, all, PrepareIssue

-----------------------------------------------------------------------------
(* The record. *)

\* The record changes when it takes a result, and when it moves on.
LEMMA RecordChanges ==
  ASSUME JInv, [JourneyNext]_all
  PROVE  \/ UNCHANGED journey
         \/ /\ report.at = "journey" /\ Reported = {} /\ journey.run = report.run
            /\ journey' = [journey EXCEPT !.results = Append(@, Entry(report.run, report.result))]
         \/ \E h \in Handlers :
              advance[h].at = "record" /\ Movable(advance[h]) /\ journey' = Moved(advance[h])
BY DEF JourneyNext, all, record, PrepareIssue, PrepareStore, OpenLink, BootstrapRun, StartRun, FinishRun,
       ReloadPage, ReportStep, ReportToLedger, ReportToJourney, ReportAnswered, ReportDies, AdvanceStep,
       Continue, Look, Verify, Record, Ensure, IssueNext, ClaimNext, ReceiveNext, Answer, AdvanceDies

\* A result is taken at the record's position, which has none yet.
LEMMA RecordTakes ==
  ASSUME JInv, [JourneyNext]_all,
         report.at = "journey", Reported = {}, journey.run = report.run,
         journey' = [journey EXCEPT !.results = Append(@, Entry(report.run, report.result))]
  PROVE  Readable' /\ RecordTruth'
<1> DEFINE p == journey.position
           s == journey.results
           e == Entry(report.run, report.result)
<1> USE PlanFacts
<1>1. /\ JourneyTypes /\ Readable /\ RecordTruth /\ TypeOK
      /\ report.run \in PlanRuns /\ report.result \in Results /\ result[report.run] = report.result
  BY DEF JInv, IInv, ReportTrue
<1>2. /\ p \in Nat /\ s \in Seq(Entries) /\ Len(s) \in Nat /\ DOMAIN s = 1 .. Len(s)
      /\ p + 1 \in Steps /\ Plan[p + 1] = report.run
  BY <1>1, LenProperties DEF JourneyTypes, Readable, Steps
<1>3. Len(s) = p
  <2>1. Len(s) \in {p, p + 1} /\ \A i \in DOMAIN s : s[i].run = Plan[i]
    BY <1>1 DEF Readable
  <2>2. Len(s) = p + 1 => p + 1 \in Reported
    BY <1>2, <2>1 DEF Reported
  <2> QED BY <2>1, <2>2
<1>4. e \in Entries /\ e.run = report.run /\ e.result = report.result
  BY <1>1, EntryTypes DEF Entry
<1>5. /\ Len(Append(s, e)) = p + 1 /\ DOMAIN Append(s, e) = 1 .. p + 1
      /\ Append(s, e)[p + 1] = e /\ \A i \in 1 .. p : Append(s, e)[i] = s[i]
  <2>1. Append(s, e) \in Seq(Entries)
    BY <1>2, <1>4, AppendProperties
  <2> QED BY <1>2, <1>3, <1>4, <2>1, AppendProperties, LenProperties
<1>6. /\ journey'.position = p /\ journey'.run = journey.run /\ journey'.results = Append(s, e)
      /\ journey'.previous = journey.previous /\ journey'.token = journey.token
  BY <1>1 DEF JourneyTypes
<1>7. Readable'
  <2>1. /\ p < Len(Plan) /\ Plan[p + 1] = journey.run /\ \A i \in 1 .. p : s[i].run = Plan[i]
        /\ journey.previous = NoEntry <=> journey.token = NoToken
        /\ journey.previous # NoEntry => p >= 1 /\ journey.previous = s[p]
    BY <1>1, <1>2, <1>3 DEF Readable
  <2> QED BY <1>2, <1>4, <1>5, <1>6, <2>1 DEF Readable
<1>8. RecordTruth'
  <2>1. /\ \A i \in 1 .. p : result[Plan[i]] # NoResult /\ s[i].result = result[Plan[i]]
        /\ mode = "continuous" => \A i \in 1 .. p : Passed(result[Plan[i]])
        /\ journey.token # NoToken => RunOf[journey.token] = Plan[p + 1]
    BY <1>1, <1>2, <1>3 DEF RecordTruth
  <2>2. \A i \in 1 .. p + 1 : i \in Steps /\ (i \in 1 .. p \/ i = p + 1)
    BY <1>2 DEF Steps
  <2>3. \A i \in 1 .. p + 1 : result[Plan[i]] # NoResult /\ Append(s, e)[i].result = result[Plan[i]]
    BY <1>1, <1>2, <1>4, <1>5, <2>1, <2>2
  <2>4. mode' = mode /\ \A i \in 1 .. p + 1 : result'[Plan[i]] = result[Plan[i]]
    BY <2>2, <2>3, Kept
  <2>5. \A i \in 1 .. p : i \in 1 .. p + 1
    BY <1>2
  <2> QED BY <1>5, <1>6, <2>1, <2>3, <2>4, <2>5 DEF RecordTruth, Passed
<1> QED BY <1>7, <1>8

\* The record moves on from a position that has its result, and only there.
LEMMA RecordMoves ==
  ASSUME JInv, [JourneyNext]_all, NEW h \in Handlers,
         advance[h].at = "record", Movable(advance[h]), journey' = Moved(advance[h])
  PROVE  /\ Readable' /\ RecordTruth'
         /\ journey'.position = journey.position + 1 /\ journey.position' \in Nat
<1> DEFINE p == journey.position
           s == journey.results
           q == advance[h]
<1> USE PlanFacts
<1>1. /\ JourneyTypes /\ Readable /\ RecordTruth /\ TypeOK
      /\ q.run \in PlanRuns /\ q.result \in Results /\ result[q.run] = q.result
      /\ mode = "continuous" => Passed(q.result)
      /\ q.token \in Tokens /\ RunOf[q.token] = Plan[q.position + 1]
  BY DEF JInv, IInv, AdvanceTrue, AdvanceRight
<1>2. /\ p \in Nat /\ s \in Seq(Entries) /\ Len(s) \in Nat /\ DOMAIN s = 1 .. Len(s)
      /\ q.position \in 0 .. Len(Plan) - 1
  BY <1>1, LenProperties DEF JourneyTypes, Advances
<1>3. /\ q.position = p + 1 /\ p + 1 \in Steps /\ p + 2 \in Steps /\ Plan[p + 1] = q.run
      /\ s # <<>> /\ s[Len(s)] = Entry(q.run, q.result)
  <2>1. q.position = p + 1 /\ s # <<>> /\ s[Len(s)] = Entry(q.run, q.result)
    BY <1>2 DEF Movable, Last
  <2>2. p + 1 \in Steps /\ p + 2 \in Steps
    BY <1>2, <2>1 DEF Steps
  <2>3. Plan[p + 1] = q.run
    BY <1>1 DEF Movable, Readable
  <2> QED BY <2>1, <2>2, <2>3
<1>4. Len(s) = p + 1
  <2>1. Len(s) \in {p, p + 1} /\ \A i \in DOMAIN s : s[i].run = Plan[i]
    BY <1>1 DEF Readable
  <2>2. Len(s) # 0
    BY <1>2, <1>3, EmptySeq
  <2>3. Len(s) = p => p \in Steps /\ Plan[p] = q.run
    <3> SUFFICES ASSUME Len(s) = p PROVE p \in Steps /\ Plan[p] = q.run
      OBVIOUS
    <3>1. p \in DOMAIN s /\ p \in Steps
      BY <1>2, <1>3, <2>2 DEF Steps
    <3>2. Entry(q.run, q.result).run = q.run
      BY DEF Entry
    <3> QED BY <1>3, <2>1, <3>1, <3>2
  <2> QED BY <1>2, <1>3, <2>1, <2>3
<1>5. /\ journey'.position = p + 1 /\ journey'.run = Plan[p + 2] /\ journey'.results = s
      /\ journey'.previous = Entry(q.run, q.result) /\ journey'.token = q.token
  BY <1>1, <1>2, <1>3 DEF JourneyTypes, Moved
<1>6. Readable'
  <2>1. \A i \in DOMAIN s : s[i].run = Plan[i]
    BY <1>1 DEF Readable
  <2>2. Entry(q.run, q.result) # NoEntry
    BY <1>1, EntryTypes
  <2>3. p + 1 < Len(Plan) /\ Plan[(p + 1) + 1] = Plan[p + 2] /\ p + 1 >= 1
    BY <1>2, <1>3 DEF Steps
  <2>4. q.token # NoToken /\ s[p + 1] = Entry(q.run, q.result) /\ Len(s) \in {p + 1, (p + 1) + 1}
    BY <1>1, <1>3, <1>4
  <2> QED BY <1>5, <2>1, <2>2, <2>3, <2>4 DEF Readable
<1>7. RecordTruth'
  <2>1. /\ \A i \in 1 .. p + 1 : result[Plan[i]] # NoResult /\ s[i].result = result[Plan[i]]
        /\ mode = "continuous" => \A i \in 1 .. p : Passed(result[Plan[i]])
    BY <1>1, <1>2, <1>4 DEF RecordTruth
  <2>2. \A i \in 1 .. p + 1 : i \in Steps /\ (i \in 1 .. p \/ i = p + 1)
    BY <1>2, <1>3 DEF Steps
  <2>3. mode' = mode /\ \A i \in 1 .. p + 1 : result'[Plan[i]] = result[Plan[i]]
    BY <2>1, <2>2, Kept
  <2>4. mode = "continuous" => \A i \in 1 .. p + 1 : Passed(result[Plan[i]])
    BY <1>1, <1>3, <2>1, <2>2
  <2>5. DOMAIN s = 1 .. p + 1 /\ RunOf[q.token] = Plan[(p + 1) + 1]
    BY <1>1, <1>2, <1>3, <1>4
  <2> QED BY <1>5, <2>1, <2>3, <2>4, <2>5 DEF RecordTruth, Passed
<1> QED BY <1>2, <1>5, <1>6, <1>7

LEMMA RecordStep == JInv /\ [JourneyNext]_all => Readable' /\ RecordTruth'
<1> SUFFICES ASSUME JInv, [JourneyNext]_all PROVE Readable' /\ RecordTruth'
  OBVIOUS
<1>1. CASE UNCHANGED journey
  <2>1. JourneyTypes /\ Readable /\ RecordTruth
    BY DEF JInv
  <2>2. Readable'
    BY <1>1, <2>1 DEF Readable
  <2>3. \A i \in DOMAIN journey.results : Plan[i] \in Runs /\ result'[Plan[i]] = result[Plan[i]]
    BY <2>1, PlanFacts, Kept, LenProperties DEF JourneyTypes, Readable, RecordTruth, Steps
  <2>4. \A i \in 1 .. journey.position : i \in DOMAIN journey.results
    BY <2>1, LenProperties DEF JourneyTypes, Readable
  <2>5. mode' = mode
    BY Kept
  <2> QED BY <1>1, <2>1, <2>2, <2>3, <2>4, <2>5 DEF RecordTruth, Passed
<1> QED BY <1>1, RecordChanges, RecordTakes, RecordMoves

-----------------------------------------------------------------------------
(* The ledger as the journey drives it. *)

\* A run other than the first is issued under the token of a request.
LEMMA HolderChanges ==
  ASSUME JInv, [JourneyNext]_all, NEW r \in Runs
  PROVE  \/ holder'[r] = holder[r]
         \/ r = Plan[1]
         \/ \E h \in Handlers : /\ advance[h].at = "issue" /\ UNCHANGED journey
                                /\ r = RunOf[advance[h].token] /\ holder'[r] = advance[h].token
<1>1. TypeOK
  BY DEF JInv, IInv
<1>2. ASSUME NEW t, Issue(t) PROVE r # RunOf[t] => holder'[r] = holder[r]
  BY <1>1, <1>2 DEF Issue, TypeOK
<1>3. ASSUME NEW t, Issue(t) PROVE r = RunOf[t] => holder'[r] = t
  BY <1>1, <1>3 DEF Issue, TypeOK
<1>4. CASE PrepareIssue
  BY <1>2, <1>4 DEF PrepareIssue
<1>5. ASSUME NEW h \in Handlers, IssueNext(h)
      PROVE  \/ holder'[r] = holder[r]
             \/ /\ advance[h].at = "issue" /\ UNCHANGED journey
                /\ r = RunOf[advance[h].token] /\ holder'[r] = advance[h].token
  BY <1>2, <1>3, <1>5 DEF IssueNext, record, ledger
<1>6. CASE UNCHANGED holder
  BY <1>6
<1> QED
  BY <1>4, <1>5, <1>6
     DEF JourneyNext, all, ledger, PrepareStore, OpenLink, BootstrapRun, StartRun, FinishRun, Claim, Receive,
         Start, Settle, End, Report, ReloadPage, ReportStep, ReportToLedger, ReportToJourney, ReportAnswered,
         ReportDies, AdvanceStep, Continue, Look, Verify, Record, Ensure, ClaimNext, ReceiveNext, Answer,
         AdvanceDies

LEMMA HandedOutStep == JInv /\ [JourneyNext]_all => HandedOut'
<1> SUFFICES ASSUME JInv, [JourneyNext]_all, NEW k \in Steps \ {1}, holder'[Plan[k]] # NoToken
             PROVE  /\ k <= journey'.position + 1
                    /\ k = journey'.position + 1 => holder'[Plan[k]] = journey'.token
  BY DEF HandedOut
<1> USE PlanFacts
<1>1. JourneyTypes /\ HandedOut /\ AdvanceTrue /\ k \in Nat /\ journey.position \in Nat
  BY DEF JInv, JourneyTypes, Steps
<1>2. Plan[k] # Plan[1] /\ Plan[k] \in Runs
  OBVIOUS
<1>3. CASE holder'[Plan[k]] = holder[Plan[k]]
  <2>1. /\ k <= journey.position + 1
        /\ k = journey.position + 1 => holder[Plan[k]] = journey.token
    BY <1>1, <1>3 DEF HandedOut
  <2>2. \/ journey'.position = journey.position /\ journey'.token = journey.token
        \/ journey'.position = journey.position + 1
    BY <1>1, RecordChanges, RecordMoves DEF JourneyTypes
  <2> QED BY <1>1, <1>3, <2>1, <2>2
<1>4. ASSUME NEW h \in Handlers, advance[h].at = "issue", UNCHANGED journey,
             Plan[k] = RunOf[advance[h].token], holder'[Plan[k]] = advance[h].token
      PROVE  /\ k <= journey'.position + 1
             /\ k = journey'.position + 1 => holder'[Plan[k]] = journey'.token
  <2> DEFINE q == advance[h]
  <2>1. /\ q.position \in 0 .. Len(Plan) - 1 /\ RunOf[q.token] = Plan[q.position + 1]
        /\ q.position <= journey.position
        /\ q.position = journey.position => q.token = journey.token
    BY <1>1, <1>4 DEF JourneyTypes, Advances, AdvanceTrue, AdvanceRight, Delivering
  <2>2. k = q.position + 1
    BY <1>4, <2>1 DEF Steps
  <2> QED BY <1>1, <1>4, <2>1, <2>2
<1> QED BY <1>2, <1>3, <1>4, HolderChanges

\* The delivery of a run moves that run only, before its start.
LEMMA Delivered ==
  ASSUME TypeOK, Coherent, NEW t \in Tokens, Issue(t) \/ Claim(t, Browser) \/ Receive(t, Browser),
         NEW r \in Runs
  PROVE  \/ state'[r] = state[r]
         \/ /\ r = RunOf[t]
            /\ state[r] \in {"NONE", "ISSUED", "CLAIMED"} /\ state'[r] \in {"ISSUED", "CLAIMED", "RECEIVED"}
<1>1. CASE Issue(t)
  BY <1>1, IssuedAnew DEF Issue, TypeOK
<1>2. CASE Claim(t, Browser)
  BY <1>2 DEF Claim, TypeOK
<1>3. CASE Receive(t, Browser)
  BY <1>3 DEF Receive, TypeOK
<1> QED BY <1>1, <1>2, <1>3

LEMMA LedgerTruthStep == JInv /\ [JourneyNext]_all => LedgerTruth'
<1> SUFFICES ASSUME JInv, [JourneyNext]_all PROVE LedgerTruth'
  OBVIOUS
<1> USE PlanFacts
<1>1. TypeOK /\ LedgerTruth /\ ReportTrue
  BY DEF JInv, IInv
<1>2. ASSUME NEW k \in Steps, result'[Plan[k]] # NoResult PROVE state'[Plan[k]] = "SETTLED"
  <2>1. CASE result'[Plan[k]] = result[Plan[k]]
    BY <1>1, <1>2, <2>1, Kept DEF LedgerTruth
  <2>2. CASE result'[Plan[k]] # result[Plan[k]]
    <3>1. report.at = "ledger" /\ Report(report.cookie, Browser, report.result)
      <4> USE DEF ledger
      <4>1. result' # result
        BY <2>2
      <4>2. ~(PrepareIssue \/ PrepareStore \/ OpenLink \/ BootstrapRun \/ StartRun \/ ReloadPage)
        BY <4>1 DEF PrepareIssue, PrepareStore, OpenLink, BootstrapRun, StartRun, ReloadPage,
                    Issue, Claim, Receive, Start
      <4>3. ~(\E x \in Results : FinishRun(x))
        BY <4>1 DEF FinishRun, Settle, End
      <4>4. \A h \in Handlers : ~(Continue(h) \/ AdvanceStep(h) \/ AdvanceDies(h))
        <5> SUFFICES ASSUME NEW h \in Handlers, Continue(h) \/ AdvanceStep(h) \/ AdvanceDies(h)
                     PROVE  result' = result
          BY <4>1
        <5>1. CASE Continue(h) \/ AdvanceDies(h)
          BY <5>1 DEF Continue, AdvanceDies
        <5>2. CASE AdvanceStep(h)
          BY <5>2 DEF AdvanceStep, Look, Verify, Record, Ensure, IssueNext, ClaimNext,
                      ReceiveNext, Answer, Issue, Claim, Receive
        <5> QED BY <5>1, <5>2
      <4>5. ReportStep \/ ReportDies
        BY <4>1, <4>2, <4>3, <4>4 DEF JourneyNext, all
      <4> QED BY <4>1, <4>5 DEF ReportStep, ReportToLedger, ReportToJourney, ReportAnswered,
                                ReportDies
    <3>2. Plan[k] = report.run
      BY <1>1, <2>2, <3>1 DEF Report, ReportTrue, TypeOK
    <3> QED BY <1>1, <3>1, <3>2, Kept DEF ReportTrue
  <2> QED BY <2>1, <2>2
<1>3. saved' => holder'[Plan[1]] # NoToken
  <2>1. saved' => holder[Plan[1]] # NoToken
    BY <1>1
       DEF LedgerTruth, JourneyNext, all, record, PrepareIssue, PrepareStore, OpenLink, BootstrapRun, StartRun,
           FinishRun, ReloadPage, ReportStep, ReportToLedger, ReportToJourney, ReportAnswered, ReportDies,
           AdvanceStep, Continue, Look, Verify, Record, Ensure, IssueNext, ClaimNext, ReceiveNext, Answer,
           AdvanceDies
  <2> QED BY <2>1, Kept
<1> QED BY <1>2, <1>3 DEF LedgerTruth

-----------------------------------------------------------------------------
(* What the requests have seen. *)

LEMMA ReportTrueStep == JInv /\ [JourneyNext]_all => ReportTrue'
<1> SUFFICES ASSUME JInv, [JourneyNext]_all PROVE ReportTrue'
  OBVIOUS
<1> USE PlanFacts
<1>1. JourneyTypes /\ TypeOK /\ ReportTrue
  BY DEF JInv, IInv
<1>2. CASE report'.at = "idle"
  BY <1>2 DEF ReportTrue
<1>3. ASSUME NEW x \in Results, FinishRun(x) PROVE ReportTrue'
  <2>1. /\ Exists(RunOf[cookie]) /\ Bound(cookie) /\ RunOf[cookie] = Plan[step] /\ step \in Steps
        /\ state'[Plan[step]] = "SETTLED"
    BY <1>1, <1>3 DEF FinishRun, CookieFits, Settle, End, BoundTo, TypeOK, JourneyTypes
  <2>2. cookie \in Tokens
    BY <1>1, <2>1, CookieIsToken
  <2> QED BY <1>3, <2>1, <2>2 DEF FinishRun, ReportTrue
<1>4. CASE report' = report
  BY <1>1, <1>4, Kept DEF ReportTrue
<1>5. CASE ReportToLedger /\ report' # report
  <2>1. report' = [report EXCEPT !.at = "journey"] /\ report.at = "ledger"
    BY <1>5 DEF ReportToLedger, ReportGoes
  <2>2. /\ report'.at = "journey" /\ report'.run = report.run /\ report'.result = report.result
        /\ report'.cookie = report.cookie
    BY <1>1, <2>1 DEF JourneyTypes, Reports
  <2>3. /\ report.run \in PlanRuns /\ report.result \in Results
        /\ report.cookie \in Tokens /\ RunOf[report.cookie] = report.run
        /\ state'[report.run] = "SETTLED"
    BY <1>1, <2>1, Kept DEF ReportTrue
  <2>4. result'[report.run] = report.result
    BY <1>1, <1>5, <2>3 DEF ReportToLedger, Report, KnownToLedger, ledger, TypeOK
  <2> QED BY <2>2, <2>3, <2>4 DEF ReportTrue
<1>6. CASE ReportToJourney /\ report' # report
  <2>1. report' = [report EXCEPT !.at = "answer"] /\ report.at = "journey"
    BY <1>6 DEF ReportToJourney, ReportGoes
  <2>2. /\ report'.at = "answer" /\ report'.run = report.run /\ report'.result = report.result
        /\ report'.cookie = report.cookie
    BY <1>1, <2>1 DEF JourneyTypes, Reports
  <2> QED BY <1>1, <2>1, <2>2, Kept DEF ReportTrue
<1>7. CASE ReportAnswered \/ ReportDies
  BY <1>2, <1>7 DEF ReportAnswered, ReportEnds, ReportDies, IdleReport
<1> QED
  BY <1>3, <1>4, <1>5, <1>6, <1>7
     DEF JourneyNext, all, PrepareIssue, PrepareStore, OpenLink, BootstrapRun, StartRun, ReloadPage, ReportStep,
         AdvanceStep, Continue, Look, Verify, Record, Ensure, IssueNext, ClaimNext, ReceiveNext, Answer,
         AdvanceDies

\* What a request has seen stays true whatever happens.
LEMMA AdvanceKept ==
  ASSUME JInv, [JourneyNext]_all, NEW q \in Advances, AdvanceRight(q)
  PROVE  AdvanceRight(q)'
<1> USE PlanFacts
<1>1. JourneyTypes /\ journey.position \in Nat /\ q.position \in Nat
  BY DEF JInv, JourneyTypes, Advances
<1>2. mode' = mode
  BY Kept
<1>3. q.at = "record" => result'[q.run] = q.result
  BY Kept DEF AdvanceRight
<1>4. Delivering(q) => /\ q.position <= journey'.position
                       /\ q.position = journey'.position => q.token = journey'.token
  BY <1>1, RecordChanges, RecordMoves DEF AdvanceRight, JourneyTypes
<1> QED BY <1>2, <1>3, <1>4 DEF AdvanceRight, Delivering, Passed

\* One request takes another form, which is right.
LEMMA AdvanceUpdated ==
  ASSUME JInv, [JourneyNext]_all, NEW h \in Handlers, NEW q \in Advances,
         AdvanceRight(q)', advance' = [advance EXCEPT ![h] = q]
  PROVE  AdvanceTrue'
<1>1. advance \in [Handlers -> Advances] /\ AdvanceTrue
  BY DEF JInv, JourneyTypes
<1>2. ASSUME NEW g \in Handlers PROVE AdvanceRight(advance[g])'
  <2>1. advance'[g] \in Advances
    BY <1>1
  <2>2. CASE g = h
    <3>1. advance'[g] = q
      BY <1>1, <2>2
    <3> QED BY <3>1 DEF AdvanceRight, Delivering
  <2>3. CASE g # h
    <3>1. advance'[g] = advance[g] /\ AdvanceRight(advance[g])
      BY <1>1, <2>3 DEF AdvanceTrue
    <3>2. PICK p \in Advances : p = advance[g] /\ AdvanceRight(p)
      BY <1>1, <3>1
    <3>3. AdvanceRight(p)'
      BY <3>2, AdvanceKept
    <3>4. advance'[g] = p
      BY <3>1, <3>2
    <3> QED BY <3>3, <3>4 DEF AdvanceRight, Delivering
  <2> QED BY <2>2, <2>3
<1> QED BY <1>2 DEF AdvanceTrue

LEMMA AdvanceTrueStep == JInv /\ [JourneyNext]_all => AdvanceTrue'
<1> SUFFICES ASSUME JInv, [JourneyNext]_all PROVE AdvanceTrue'
  OBVIOUS
<1> USE PlanFacts
<1>1. /\ JourneyTypes /\ Readable /\ RecordTruth /\ AdvanceTrue
      /\ \A h \in Handlers : advance[h] \in Advances
      /\ advance \in [Handlers -> Advances]
  BY DEF JInv, JourneyTypes
<1>2. ASSUME UNCHANGED advance PROVE AdvanceTrue'
  <2>1. ASSUME NEW h \in Handlers PROVE AdvanceRight(advance[h])'
    <3>1. PICK p \in Advances : p = advance[h] /\ AdvanceRight(p)
      BY <1>1 DEF AdvanceTrue
    <3>2. AdvanceRight(p)' /\ advance'[h] = p
      BY <1>2, <3>1, AdvanceKept
    <3> QED BY <3>2 DEF AdvanceRight, Delivering
  <2> QED BY <2>1 DEF AdvanceTrue
<1>3. ASSUME NEW h \in Handlers, NEW q \in Advances, AdvanceRight(q), advance' = [advance EXCEPT ![h] = q]
      PROVE  AdvanceTrue'
  BY <1>3, AdvanceKept, AdvanceUpdated
<1>4. ASSUME NEW h \in Handlers, advance' = [advance EXCEPT ![h] = IdleAdvance] PROVE AdvanceTrue'
  BY <1>3, <1>4, IdleIsAdvance DEF AdvanceRight, Delivering, IdleAdvance
<1>5. ASSUME NEW h \in Handlers, Continue(h) PROVE AdvanceTrue'
  <2> DEFINE q == [IdleAdvance EXCEPT !.at = "look", !.run = Plan[step], !.result = shown, !.cookie = cookie]
  <2>1. /\ Plan[step] \in PlanRuns /\ shown \in Results /\ cookie \in MaybeToken
    BY <1>1, <1>5 DEF Continue, MayContinue, JourneyTypes, MaybeResult
  <2>2. q \in Advances
    BY <2>1, IdleIsAdvance DEF Advances, MaybeResult
  <2>3. AdvanceRight(q)
    BY <2>1 DEF AdvanceRight, Delivering, IdleAdvance
  <2>4. advance' = [advance EXCEPT ![h] = q]
    BY <1>5 DEF Continue
  <2> QED BY <1>3, <2>2, <2>3, <2>4
<1>6. ASSUME NEW h \in Handlers, Look(h) PROVE AdvanceTrue'
  <2> DEFINE o == advance[h]
             next == IF Replays(o) THEN journey.position ELSE journey.position + 1
             q == [o EXCEPT !.at = Then(o), !.position = next,
                            !.token = IF Replays(o) THEN journey.token ELSE @]
  <2>1. CASE Refused(h)
    BY <1>4, <2>1 DEF Refused
  <2>2. CASE ~Refused(h)
    <3>1. next < Len(Plan) /\ advance' = [advance EXCEPT ![h] = q] /\ o.at = "look"
      BY <1>6, <2>2 DEF Look
    <3>2. /\ o \in Advances /\ Then(o) \in {"ensure", "verify"} /\ next \in 0 .. Len(Plan) - 1
          /\ (IF Replays(o) THEN journey.token ELSE o.token) \in MaybeToken
      BY <1>1, <3>1 DEF JourneyTypes, Advances, Then
    <3>3. q \in Advances
      BY <3>2, AdvanceLooked
    <3>4. /\ q.at = Then(o) /\ q.run = o.run /\ q.result = o.result /\ q.position = next
          /\ q.token = IF Replays(o) THEN journey.token ELSE o.token
      BY <1>1 DEF Advances
    <3>5. o.run \in PlanRuns /\ o.result \in Results
      BY <1>1, <3>1 DEF AdvanceTrue, AdvanceRight
    <3>6. CASE Replays(o)
      <4>1. Entry(o.run, o.result) # NoEntry
        BY <3>5, EntryTypes
      <4>2. journey.previous # NoEntry
        BY <3>6, <4>1 DEF Replays
      <4>3. journey.position >= 1 /\ journey.token # NoToken
        BY <1>1, <4>2 DEF Readable
      <4>4. journey.token \in Tokens /\ RunOf[journey.token] = Plan[journey.position + 1]
        BY <1>1, <4>3 DEF RecordTruth, JourneyTypes, MaybeToken
      <4>5. AdvanceRight(q)
        BY <1>1, <3>4, <3>5, <3>6, <4>3, <4>4 DEF AdvanceRight, Delivering, Then, JourneyTypes
      <4> QED BY <1>3, <3>1, <3>3, <4>5
    <3>7. CASE ~Replays(o)
      <4>1. AdvanceRight(q)
        BY <1>1, <3>4, <3>5, <3>7 DEF AdvanceRight, Delivering, Then, JourneyTypes
      <4> QED BY <1>3, <3>1, <3>3, <4>1
    <3> QED BY <3>6, <3>7
  <2> QED BY <2>1, <2>2
<1>7. ASSUME NEW h \in Handlers, Verify(h) PROVE AdvanceTrue'
  <2> DEFINE o == advance[h]
  <2>1. CASE Refused(h)
    BY <1>4, <2>1 DEF Refused
  <2>2. CASE ~Refused(h)
    <3>1. PICK t \in Tokens : /\ RunOf[t] = Plan[o.position + 1]
                              /\ advance' = [advance EXCEPT ![h].at = "record", ![h].token = t]
      BY <1>7, <2>2 DEF Verify
    <3> DEFINE q == [o EXCEPT !.at = "record", !.token = t]
    <3>2. advance' = [advance EXCEPT ![h] = q]
      BY <1>1, <3>1
    <3>3. q \in Advances
      BY <1>1, AdvanceVerified DEF MaybeToken
    <3>4. o.at = "verify" /\ Verified(o)
      BY <1>7, <2>2 DEF Verify
    <3>5. /\ q.at = "record" /\ q.run = o.run /\ q.result = o.result /\ q.position = o.position /\ q.token = t
      BY <1>1 DEF Advances
    <3>6. AdvanceRight(q)
      BY <1>1, <3>1, <3>4, <3>5 DEF AdvanceRight, AdvanceTrue, Delivering, Verified
    <3> QED BY <1>3, <3>2, <3>3, <3>6
  <2> QED BY <2>1, <2>2
\* A request that delivers goes on delivering.
<1>8. ASSUME NEW h \in Handlers, NEW at \in {"ensure", "issue", "claim", "receive", "answer"},
             Delivering(advance[h]), Goes(h, at)
      PROVE  AdvanceTrue'
  <2> DEFINE o == advance[h]
             q == [o EXCEPT !.at = at]
  <2>1. CASE UNCHANGED advance
    BY <1>2, <2>1
  <2>2. CASE advance' = [advance EXCEPT ![h].at = at]
    <3>1. advance' = [advance EXCEPT ![h] = q]
      BY <1>1, <2>2
    <3>2. q \in Advances
      BY <1>1 DEF Advances
    <3>3. q.at = at /\ q.run = o.run /\ q.result = o.result /\ q.position = o.position /\ q.token = o.token
      BY <1>1 DEF Advances
    <3>4. AdvanceRight(q)
      BY <1>1, <1>8, <3>3 DEF AdvanceRight, AdvanceTrue, Delivering
    <3> QED BY <1>3, <3>1, <3>2, <3>4
  <2> QED BY <1>8, <2>1, <2>2 DEF Goes
<1>9. ASSUME NEW h \in Handlers, Record(h) PROVE AdvanceTrue'
  <2> DEFINE o == advance[h]
             q == [o EXCEPT !.at = "ensure"]
  <2>1. CASE UNCHANGED advance
    BY <1>2, <2>1
  <2>2. CASE Refused(h)
    BY <1>4, <2>2 DEF Refused
  <2>3. CASE advance' = [advance EXCEPT ![h].at = "ensure"] /\ journey' = Moved(o)
    <3>1. advance' = [advance EXCEPT ![h] = q]
      BY <1>1, <2>3
    <3>2. q \in Advances
      BY <1>1 DEF Advances
    <3>3. q.at = "ensure" /\ q.run = o.run /\ q.result = o.result /\ q.position = o.position
          /\ q.token = o.token
      BY <1>1 DEF Advances
    <3>4. journey'.position = o.position /\ journey'.token = o.token
      BY <1>1, <2>3 DEF JourneyTypes, Moved
    <3>5. AdvanceRight(o) /\ o.at = "record"
      BY <1>1, <1>9 DEF Record, AdvanceTrue
    <3>6. o.position \in Nat
      BY <1>1 DEF Advances
    <3>7. PICK p \in Advances : p = q
      BY <3>2
    <3>8. AdvanceRight(p)'
      BY <3>3, <3>4, <3>5, <3>6, <3>7 DEF AdvanceRight, Delivering
    <3> QED BY <3>1, <3>7, <3>8, AdvanceUpdated
  <2> QED BY <1>9, <2>1, <2>2, <2>3 DEF Record, Goes
<1>10. ASSUME NEW h \in Handlers, Ensure(h) \/ IssueNext(h) \/ ClaimNext(h) \/ ReceiveNext(h)
       PROVE  AdvanceTrue'
  <2>1. CASE Refused(h)
    BY <1>4, <2>1 DEF Refused
  <2>2. Delivering(advance[h])
    BY <1>10 DEF Ensure, IssueNext, ClaimNext, ReceiveNext, Delivering
  <2>3. Refused(h) \/ \E at \in {"ensure", "issue", "claim", "receive", "answer"} : Goes(h, at)
    BY <1>10 DEF Ensure, IssueNext, ClaimNext, ReceiveNext
  <2> QED BY <1>8, <2>1, <2>2, <2>3
<1>11. ASSUME NEW h \in Handlers, Answer(h) \/ AdvanceDies(h) PROVE AdvanceTrue'
  BY <1>4, <1>11 DEF Answer, AdvanceDies, Refused
<1> QED
  BY <1>2, <1>5, <1>6, <1>7, <1>9, <1>10, <1>11
     DEF JourneyNext, all, PrepareIssue, PrepareStore, OpenLink, BootstrapRun, StartRun, FinishRun, ReloadPage,
         ReportStep, ReportToLedger, ReportToJourney, ReportAnswered, ReportDies, AdvanceStep

-----------------------------------------------------------------------------
(* The page. *)

\* Until the first run has settled no run has.
LEMMA NoneSettled ==
  ASSUME JInv, state[Plan[1]] # "SETTLED", NEW k \in Steps
  PROVE  state[Plan[k]] # "SETTLED"
<1> USE PlanFacts
<1>1. /\ JourneyTypes /\ Readable /\ RecordTruth /\ HandedOut /\ LedgerTruth /\ Coherent
      /\ journey.position \in Nat /\ k \in Nat /\ k >= 1
  BY DEF JInv, IInv, JourneyTypes, Steps
<1> SUFFICES ASSUME state[Plan[k]] = "SETTLED" PROVE FALSE
  OBVIOUS
<1>2. k \in Steps \ {1} /\ holder[Plan[k]] # NoToken
  BY <1>1 DEF Coherent
<1>3. journey.position >= 1
  BY <1>1, <1>2 DEF HandedOut, Steps
<1>4. 1 \in DOMAIN journey.results
  BY <1>1, <1>3, LenProperties DEF JourneyTypes, Readable
<1>5. result[Plan[1]] # NoResult
  BY <1>1, <1>4 DEF RecordTruth
<1> QED BY <1>1, <1>5 DEF LedgerTruth

\* A run on the page is the one its record is at, or an earlier one.
LEMMA SettledBefore ==
  ASSUME JInv, NEW k \in Steps, state[Plan[k]] = "STARTED", NEW j \in Steps
  PROVE  state[Plan[j]] = "SETTLED" <=> j < k
<1> USE PlanFacts
<1>1. /\ JourneyTypes /\ Readable /\ RecordTruth /\ HandedOut /\ LedgerTruth /\ Coherent
      /\ journey.position \in Nat /\ k \in Nat /\ k >= 1 /\ j \in Nat /\ j >= 1
  BY DEF JInv, IInv, JourneyTypes, Steps
<1>2. holder[Plan[k]] # NoToken
  BY <1>1 DEF Coherent
<1>3. k <= journey.position + 1
  BY <1>1, <1>2 DEF HandedOut
<1>4. ASSUME NEW i \in Steps, i <= journey.position PROVE state[Plan[i]] = "SETTLED"
  <2>1. i \in DOMAIN journey.results
    BY <1>1, <1>4, LenProperties DEF JourneyTypes, Readable, Steps
  <2> QED BY <1>1, <2>1 DEF RecordTruth, LedgerTruth
<1>5. k = journey.position + 1
  BY <1>1, <1>3, <1>4
<1>6. j > k => holder[Plan[j]] = NoToken
  BY <1>1, <1>5 DEF HandedOut
<1>7. j > k => state[Plan[j]] # "SETTLED"
  BY <1>1, <1>6 DEF Coherent
<1> QED BY <1>1, <1>4, <1>5, <1>7

LEMMA PageTrueStep == JInv /\ [JourneyNext]_all => PageTrue'
<1> SUFFICES ASSUME JInv, [JourneyNext]_all PROVE PageTrue'
  OBVIOUS
<1> USE PlanFacts
<1>1. JourneyTypes /\ TypeOK /\ Coherent /\ AdvanceTrue /\ PageTrue /\ LedgerTruth
  BY DEF JInv, IInv
<1>a. mode' = mode
  BY Kept
<1>2. CASE UNCHANGED <<state, cookie, pageVars>>
  BY <1>1, <1>a, <1>2 DEF PageTrue, pageVars
<1>3. CASE PrepareIssue
  <2>1. PICK t \in Tokens : RunOf[t] = Plan[1] /\ Issue(t)
    BY <1>3 DEF PrepareIssue
  <2>2. state[Plan[1]] = "NONE" /\ state' = [state EXCEPT ![Plan[1]] = "ISSUED"]
    BY <1>1, <2>1, IssuedAnew DEF Issue
  <2> QED BY <1>1, <1>a, <1>3, <2>2 DEF PrepareIssue, PageTrue, pageVars, TypeOK, JourneyTypes
<1>4. CASE OpenLink
  <2>1. holder[Plan[1]] \in Tokens
    BY <1>1, <1>4 DEF OpenLink, LedgerTruth, TypeOK
  <2>2. RunOf[holder[Plan[1]]] = Plan[1]
    BY <1>1, <2>1 DEF Coherent
  <2>3. state' = [state EXCEPT ![Plan[1]] = "CLAIMED"]
    BY <1>4, <2>2 DEF OpenLink, Claim
  <2> QED BY <1>1, <1>a, <1>4, <2>1, <2>3 DEF OpenLink, PageTrue, TypeOK
<1>5. CASE BootstrapRun
  <2>1. cookie \in Tokens /\ state[Plan[1]] = "CLAIMED" /\ live = {}
    BY <1>1, <1>5 DEF BootstrapRun, PageTrue
  <2>2. \A k \in Steps : state[Plan[k]] # "SETTLED"
    BY <2>1, NoneSettled
  <2>3. \A k \in Steps : state'[Plan[k]] # "SETTLED"
    BY <1>1, <1>5, <2>1, <2>2, Delivered DEF BootstrapRun
  <2> QED BY <1>a, <1>5, <2>1, <2>3 DEF BootstrapRun, PageTrue
<1>6. CASE StartRun
  <2>1. /\ RunOf[cookie] = Plan[step] /\ step \in Steps
        /\ state[Plan[step]] = "RECEIVED" /\ state' = [state EXCEPT ![Plan[step]] = "STARTED"]
        /\ stage' = "started" /\ live' = CartAtStart /\ UNCHANGED <<step, known>>
    BY <1>1, <1>6 DEF StartRun, CookieFits, Start, JourneyTypes
  <2>2. \A k \in Steps : state'[Plan[k]] = "SETTLED" <=> state[Plan[k]] = "SETTLED"
    BY <1>1, <2>1 DEF TypeOK
  <2>3. step = 1 => \A k \in Steps : state[Plan[k]] # "SETTLED"
    BY <2>1, NoneSettled
  <2>4. known /\ mode = "continuous" => live' = {k \in Steps : state[Plan[k]] = "SETTLED"}
    BY <1>1, <2>1, <2>3 DEF PageTrue, CartAtStart, JourneyTypes, Steps
  <2>5. mode = "regression" => live' = {}
    BY <2>1 DEF CartAtStart
  <2>6. state'[Plan[step]] = "STARTED"
    BY <1>1, <2>1 DEF TypeOK
  <2> QED BY <1>a, <2>1, <2>2, <2>4, <2>5, <2>6 DEF PageTrue
<1>7. ASSUME NEW x \in Results, FinishRun(x) PROVE PageTrue'
  <2>1. /\ RunOf[cookie] = Plan[step] /\ step \in Steps /\ state' = [state EXCEPT ![Plan[step]] = "SETTLED"]
        /\ stage' = "ended" /\ live' = live \cup {step} /\ UNCHANGED <<step, known>>
    BY <1>1, <1>7 DEF FinishRun, CookieFits, Settle, End, JourneyTypes
  <2>2. \A k \in Steps : state'[Plan[k]] = "SETTLED" <=> state[Plan[k]] = "SETTLED" \/ k = step
    BY <1>1, <2>1 DEF TypeOK
  <2> QED BY <1>1, <1>a, <2>1, <2>2 DEF PageTrue
<1>8. CASE ReloadPage
  BY <1>1, <1>a, <1>8 DEF ReloadPage, PageTrue
<1>9. CASE ReportAnswered
  BY <1>1, <1>a, <1>9 DEF ReportAnswered, PageTrue, ledger
<1>10. ASSUME NEW h \in Handlers, IssueNext(h) \/ ClaimNext(h) \/ ReceiveNext(h), ~UNCHANGED ledger
       PROVE  PageTrue'
  <2> DEFINE t == advance[h].token
  <2>1. /\ t \in Tokens /\ RunOf[t] = Plan[advance[h].position + 1]
        /\ advance[h].position \in 0 .. Len(Plan) - 1 /\ advance[h].position >= 1
    BY <1>1, <1>10 DEF IssueNext, ClaimNext, ReceiveNext, AdvanceTrue, AdvanceRight, Delivering,
                       JourneyTypes, Advances
  <2>2. RunOf[t] # Plan[1]
    BY <2>1 DEF Steps
  <2>3. Issue(t) \/ Claim(t, Browser) \/ Receive(t, Browser)
    BY <1>10 DEF IssueNext, ClaimNext, ReceiveNext
  <2>4. UNCHANGED <<cookie, pageVars>>
    BY <1>10 DEF IssueNext, ClaimNext, ReceiveNext
  <2>5. \A k \in Steps : \/ state'[Plan[k]] = state[Plan[k]]
                         \/ /\ k # 1 /\ state[Plan[k]] \in {"NONE", "ISSUED", "CLAIMED"}
                            /\ state'[Plan[k]] \in {"ISSUED", "CLAIMED", "RECEIVED"}
    BY <1>1, <2>1, <2>2, <2>3, Delivered
  <2>6. \A k \in Steps : /\ state'[Plan[k]] = "SETTLED" <=> state[Plan[k]] = "SETTLED"
                         /\ state[Plan[k]] = "STARTED" => state'[Plan[k]] = "STARTED"
    BY <2>5
  <2>7. state'[Plan[1]] = state[Plan[1]] /\ step \in Steps
    BY <1>1, <2>5 DEF JourneyTypes
  <2> QED BY <1>1, <1>a, <2>4, <2>6, <2>7 DEF PageTrue, pageVars
<1>11. ASSUME NEW h \in Handlers, IssueNext(h) \/ ClaimNext(h) \/ ReceiveNext(h), UNCHANGED ledger
       PROVE  PageTrue'
  BY <1>2, <1>11 DEF IssueNext, ClaimNext, ReceiveNext, ledger
<1>12. ASSUME NEW h \in Handlers, Answer(h) PROVE PageTrue'
  <2>1. advance[h].token \in Tokens
    BY <1>1, <1>12 DEF Answer, AdvanceTrue, AdvanceRight, Delivering
  <2> QED BY <1>1, <1>a, <1>12, <2>1 DEF Answer, PageTrue, ledger, pageVars
<1>13. ASSUME NEW h \in Handlers, AdvanceDies(h) PROVE PageTrue'
  <2>1. cookie' = cookie \/ (cookie' \in Tokens)
    BY <1>1, <1>13 DEF AdvanceDies, AdvanceTrue, AdvanceRight, Delivering
  <2> QED BY <1>1, <1>a, <1>13, <2>1 DEF AdvanceDies, PageTrue, ledger, pageVars
<1>14. CASE ReportToLedger
  BY <1>2, <1>14 DEF ReportToLedger, Report, ledger
<1> QED
  BY <1>2, <1>3, <1>4, <1>5, <1>6, <1>7, <1>8, <1>9, <1>10, <1>11, <1>12, <1>13, <1>14
     DEF JourneyNext, all, ledger, PrepareStore, ReportStep, ReportToJourney, ReportDies, AdvanceStep,
         Continue, Look, Verify, Record, Ensure

-----------------------------------------------------------------------------
(* The theorems. *)

LEMMA JourneyStep == JInv /\ [JourneyNext]_all => JInv'
BY Kept, JourneyTypesStep, RecordStep, HandedOutStep, ReportTrueStep, AdvanceTrueStep, LedgerTruthStep,
   PageTrueStep DEF JInv

\* The inductive invariant of the journey, of which the invariant of the ledger is a part.
THEOREM JourneyInvariance == JourneySpec => []JInv
BY JourneyStart, JourneyStep, PTL DEF JourneySpec

LEMMA InOrder == JInv => StepsInOrder
<1> SUFFICES ASSUME JInv, NEW k \in Steps \ {1}, holder[Plan[k]] # NoToken, NEW j \in 1 .. k - 1
             PROVE  /\ result[Plan[j]] # NoResult
                    /\ journey.results[j].result = result[Plan[j]]
                    /\ mode = "continuous" => Passed(result[Plan[j]])
                    /\ k = journey.position + 1 => holder[Plan[k]] = journey.token
  <2>1. JInv => Readable
    BY DEF JInv
  <2> QED BY <2>1, PlanFacts DEF StepsInOrder, JInv, HandedOut, Steps
<1>1. JourneyTypes /\ Readable /\ RecordTruth /\ HandedOut /\ journey.position \in Nat
  BY DEF JInv, JourneyTypes
<1>2. k <= journey.position + 1 /\ (k = journey.position + 1 => holder[Plan[k]] = journey.token)
  BY <1>1 DEF HandedOut
<1>3. j \in 1 .. journey.position
  BY <1>1, <1>2 DEF Steps
<1>4. j \in DOMAIN journey.results
  BY <1>1, <1>3, LenProperties DEF JourneyTypes, Readable
<1> QED BY <1>1, <1>2, <1>3, <1>4 DEF RecordTruth

\* Reports and advances in any order, repeated, interrupted and answered late, keep
\* the record readable, and hand out a later run only after the results of all the
\* runs before it, in a continuous journey only after their passes.
THEOREM JourneyInOrder == JourneySpec => []StepsInOrder
BY JourneyInvariance, InOrder, PTL

LEMMA Carried == JInv => KnownJourneyCarries
<1> SUFFICES ASSUME JInv, known, stage = "started" PROVE live = CartOf(step)
  BY DEF KnownJourneyCarries
<1>1. JourneyTypes /\ PageTrue /\ step \in Steps /\ state[Plan[step]] = "STARTED"
  BY DEF JInv, JourneyTypes, PageTrue
<1>2. CASE mode = "continuous"
  <2>1. live = {k \in Steps : state[Plan[k]] = "SETTLED"}
    BY <1>1, <1>2 DEF PageTrue
  <2>2. \A k \in Steps : state[Plan[k]] = "SETTLED" <=> k < step
    BY <1>1, SettledBefore
  <2>3. live = 1 .. step - 1
    BY <1>1, <2>1, <2>2, PlanFacts DEF Steps
  <2> QED BY <1>2, <2>3 DEF CartOf
<1>3. CASE mode = "regression"
  BY <1>1, <1>3 DEF PageTrue, CartOf
<1> QED BY <1>1, <1>2, <1>3 DEF JourneyTypes

\* A run that starts in a document that knows its journey has the cart of the runs
\* before it in a continuous journey, and a clean one in a regression.
THEOREM JourneyCarries == JourneySpec => []KnownJourneyCarries
BY JourneyInvariance, Carried, PTL

LEMMA TrialStart == JourneyInit => Trial!Init
BY Phase DEF JourneyInit, Trial!Init, TrialPhase

\* The ledger under a journey still is a one-time handoff: the requests that repeat,
\* stop half-way and overtake each other try no run twice.
THEOREM JourneyIsOneTimeHandoff == JourneySpec => ImplementsTrial
<1>1. JInv /\ [JourneyNext]_all => [Trial!Next]_(Trial!vars)
  BY LedgerStep, TrialStep DEF JInv
<1> QED BY JourneyInvariance, TrialStart, <1>1, PTL DEF JourneySpec, ImplementsTrial, Trial!Spec

=============================================================================
