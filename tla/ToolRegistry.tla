----------------------------- MODULE ToolRegistry -----------------------------
(***************************************************************************)
(* WebMcpRegistryManager (lib/webmcp/registry-manager.ts): page mounts take *)
(* and give up leases on a catalog of tools; one transition at a time brings *)
(* the browser's native registry to the newest lease's catalog and publishes *)
(* a generation; handler calls and outer consumer calls hold registrations. *)
(*                                                                          *)
(* A transition waits for running calls, for registerTool and for getTools; *)
(* leases come and go during each wait and abort it.  A registration is an   *)
(* object of its own: a tool registered again later is another object.      *)
(***************************************************************************)
EXTENDS Integers, Sequences, FiniteSets, FiniteSetsExt

CONSTANTS
  Tools,       \* tool definitions: a name with one contract and one handler
  NameOf,      \* the name of each
  Catalogs,    \* the sets of tools a lease may ask for
  MaxLeases,   \* bound: leases taken
  MaxObjects,  \* bound: registration objects created
  MaxCalls,    \* bound: handlers and consumer calls at once
  MaxFaults,   \* bound: failures of the native registry
  NoTool

ASSUME RegistryAssumption ==
  /\ \A c \in Catalogs : c \subseteq Tools
       /\ \A s, t \in c : NameOf[s] = NameOf[t] => s = t
  /\ MaxLeases \in Nat /\ MaxObjects \in Nat /\ MaxCalls \in Nat /\ MaxFaults \in Nat
  /\ NoTool \notin Tools

Leases == 1 .. MaxLeases
Objects == 1 .. MaxObjects

VARIABLES
  taken,          \* number of leases taken
  live,           \* leases not yet released
  catalog,        \* tools each lease asks for
  status,         \* the last status it was notified
  wanted,         \* a reconcile of the newest version is queued
  pc,             \* where the running transition is
  lease,          \* its lease, 0 when it withdraws everything
  superseded,     \* its controller was aborted
  canceled,       \* it ended in TransitionCanceledError
  snapshot, staged, removed,  \* objects it found, created and retires
  removalStarted, \* nativeRemovalStarted
  registrations,  \* objects of the manager's map
  published,      \* tools of each generation
  history         \* tools the context has verified (contextFingerprints)

VARIABLES
  tool,        \* the tool each object registers
  accepting, registered, aborted,
  native,      \* its native registration
  running,     \* handlers running on it
  holds,       \* outer consumer calls holding it
  quarantined, \* aborted as soon as it is idle
  faults       \* failures of the native registry so far

locals == <<lease, superseded, snapshot, staged, removed, removalStarted>>
transition == <<locals, canceled>>
objects == <<tool, accepting, registered, aborted, native, quarantined>>
uses == <<running, holds>>
pageVars == <<taken, live, catalog>>
vars == <<pageVars, status, wanted, pc, transition, registrations, published, history,
          objects, uses, faults>>

Native == {o \in Objects : native[o] = "active"}
ToolsOf(S) == {tool[o] : o \in S}
Latest == IF live = {} THEN 0 ELSE Max(live)
Transitioning == pc # "idle"
Desired == IF lease = 0 THEN {} ELSE catalog[lease]
generation == Len(published)

\* Objects nothing refers to any more, or not yet.
Free == {o \in Objects : /\ o \notin registrations \cup snapshot \cup staged
                         /\ native[o] \in {"none", "failed"} /\ running[o] = 0 /\ holds[o] = 0}

\* Faulty variant: a call is over when its handler returned.
HandlerIdle(o) == running[o] = 0

Idle(o) == running[o] = 0 /\ holds[o] = 0

Init ==
  /\ taken = 0 /\ live = {} /\ wanted = FALSE /\ pc = "idle"
  /\ catalog = [l \in Leases |-> {}] /\ status = [l \in Leases |-> "none"]
  /\ lease = 0 /\ superseded = FALSE /\ canceled = FALSE
  /\ snapshot = {} /\ staged = {} /\ removed = {} /\ removalStarted = FALSE
  /\ registrations = {} /\ published = <<>> /\ history = {}
  /\ tool = [o \in Objects |-> NoTool]
  /\ accepting = [o \in Objects |-> FALSE]
  /\ registered = [o \in Objects |-> FALSE]
  /\ aborted = [o \in Objects |-> FALSE]
  /\ native = [o \in Objects |-> "none"]
  /\ quarantined = [o \in Objects |-> FALSE]
  /\ running = [o \in Objects |-> 0] /\ holds = [o \in Objects |-> 0]
  /\ faults = 0

\* f with the value v at every object of S.
Put(f, S, v) == [o \in Objects |-> IF o \in S THEN v ELSE f[o]]

\* Abort the registration signals of S: the browser drops the active ones.
AbortSignals(S) ==
  /\ aborted' = Put(aborted, S, TRUE)
  /\ native' = Put(native, S \cap Native, "none")

-----------------------------------------------------------------------------
(* Leases. *)

\* The transition's signal; the objects it created listen to it.
Supersede ==
  IF Transitioning
  THEN superseded' = TRUE /\ AbortSignals(staged)
  ELSE UNCHANGED <<superseded, aborted, native>>

Acquire(c) ==
  /\ taken < MaxLeases
  /\ taken' = taken + 1 /\ live' = live \cup {taken + 1}
  /\ catalog' = [catalog EXCEPT ![taken + 1] = c]
  /\ wanted' = TRUE
  /\ Supersede
  /\ UNCHANGED <<status, pc, lease, canceled, snapshot, staged, removed, removalStarted,
                 registrations, published, history, tool, accepting, registered,
                 quarantined, uses, faults>>

\* The function acquire returned, called once.
GiveUp(l) ==
  /\ l \in live
  /\ live' = live \ {l}
  /\ wanted' = TRUE
  /\ IF lease = l /\ Transitioning THEN Supersede
     ELSE UNCHANGED <<superseded, aborted, native>>
  /\ UNCHANGED <<taken, catalog, status, pc, lease, canceled, snapshot, staged, removed,
                 removalStarted, registrations, published, history, tool, accepting,
                 registered, quarantined, uses, faults>>

-----------------------------------------------------------------------------
(* Reconciling, up to the transition's first await. *)

\* Faulty variant: only the tools now registered are compared.
ReplacesActive(c) == \E t \in c, u \in ToolsOf(registrations) :
                       NameOf[t] = NameOf[u] /\ t # u

\* prepareDesired and assertNoReplacement: a name keeps its tool for good.
Replaces(c) == \E t \in c, u \in history \cup ToolsOf(registrations) :
                 NameOf[t] = NameOf[u] /\ t # u

\* catalogIsUnchanged; verifiedContext is set exactly while the map is not empty.
Unchanged(c) ==
  /\ registrations # {} /\ ToolsOf(registrations) = c
  /\ \A o \in registrations : registered[o] /\ accepting[o]

BeginTransition(l) ==
  /\ lease' = l /\ pc' = "quiesce" /\ superseded' = FALSE /\ canceled' = FALSE
  /\ snapshot' = registrations /\ staged' = {} /\ removalStarted' = FALSE
  /\ removed' = {o \in registrations : l = 0 \/ tool[o] \notin catalog[l]}

Reconcile ==
  /\ wanted /\ pc = "idle"
  /\ wanted' = FALSE
  /\ IF Latest = 0
     THEN /\ UNCHANGED status
          /\ IF registrations # {} THEN BeginTransition(0) ELSE UNCHANGED <<pc, transition>>
     ELSE LET c == catalog[Latest] IN
          IF Replaces(c)
          THEN status' = [status EXCEPT ![Latest] = "error"] /\ UNCHANGED <<pc, transition>>
          ELSE IF Unchanged(c)
          THEN status' = [status EXCEPT ![Latest] = "ready"] /\ UNCHANGED <<pc, transition>>
          ELSE status' = [status EXCEPT ![Latest] = "registering"] /\ BeginTransition(Latest)
  /\ UNCHANGED <<pageVars, registrations, published, history, objects, uses, faults>>

-----------------------------------------------------------------------------
(* The transition. *)

\* finishTransition: the next reconcile may run.
Finish ==
  /\ pc' = "idle" /\ lease' = 0 /\ superseded' = FALSE /\ canceled' = FALSE
  /\ snapshot' = {} /\ staged' = {} /\ removed' = {} /\ removalStarted' = FALSE

\* Every call admitted before has ended: create objects, call registerTool.
Quiesced ==
  /\ pc = "quiesce" /\ ~superseded
  /\ \A o \in snapshot : Idle(o)
  /\ LET new == Desired \ ToolsOf(snapshot) IN
     /\ Cardinality(new) <= Cardinality(Free)
     /\ \E S \in SUBSET Free :
          /\ Cardinality(S) = Cardinality(new)
          /\ \A o \in S, f \in Free \ S : o < f
          /\ \E f \in [S -> new] :
               /\ {f[o] : o \in S} = new
               /\ tool' = [o \in Objects |-> IF o \in S THEN f[o] ELSE
                                              IF o \in Free THEN NoTool ELSE tool[o]]
          /\ staged' = S
          /\ native' = Put(Put(native, Free, "none"), S, "pending")
          /\ accepting' = Put(accepting, Free, FALSE)
          /\ registered' = Put(registered, Free, FALSE)
          /\ aborted' = Put(aborted, Free, FALSE)
          /\ quarantined' = Put(quarantined, Free, FALSE)
  /\ pc' = "register"
  /\ UNCHANGED <<pageVars, status, wanted, lease, superseded, canceled, snapshot, removed,
                 removalStarted, registrations, published, history, uses, faults>>

\* The browser answers one registerTool call, whoever still waits for it.
NativeRegister(o) ==
  /\ native[o] = "pending"
  /\ \/ /\ ~aborted[o] /\ \A n \in Native : NameOf[tool[n]] # NameOf[tool[o]]
        /\ native' = [native EXCEPT ![o] = "active"]
        /\ registered' = [registered EXCEPT ![o] = TRUE]
        /\ UNCHANGED faults
     \/ /\ aborted[o] \/ \E n \in Native : NameOf[tool[n]] = NameOf[tool[o]]
        /\ native' = [native EXCEPT ![o] = "failed"]
        /\ UNCHANGED <<registered, faults>>
     \/ /\ faults < MaxFaults /\ faults' = faults + 1
        /\ native' = [native EXCEPT ![o] = "failed"]
        /\ UNCHANGED registered
  /\ UNCHANGED <<pageVars, status, wanted, pc, transition, registrations, published, history,
                 tool, accepting, aborted, quarantined, uses>>

\* All are registered: retire what the catalog no longer has.
Registered ==
  /\ pc = "register" /\ ~superseded
  /\ \A o \in staged : native[o] = "active"
  /\ pc' = "verify"
  /\ removalStarted' = (removed # {})
  /\ accepting' = Put(accepting, removed, FALSE)
  /\ registered' = Put(registered, removed, FALSE)
  /\ AbortSignals(removed)
  /\ UNCHANGED <<pageVars, status, wanted, lease, superseded, canceled, snapshot, staged,
                 removed, registrations, published, history, tool, quarantined, uses, faults>>

NextObjects == (snapshot \ removed) \cup staged

\* Faulty variant: discovery is taken for granted.
DiscoversAnything(S) == TRUE

\* verifyDiscovery: getTools shows exactly these tools, or time runs out.
Discovers(S) == ToolsOf(Native) = ToolsOf(S)
DiscoveryFails(S) == \/ ~Discovers(S) /\ UNCHANGED faults
                     \/ faults < MaxFaults /\ faults' = faults + 1

Verified ==
  /\ pc = "verify" /\ ~superseded /\ Discovers(NextObjects)
  /\ pc' = "verified"
  /\ UNCHANGED <<pageVars, status, wanted, transition, registrations, published, history,
                 objects, uses, faults>>

\* Still current after the await: publish a new generation.
Publish ==
  /\ pc = "verified" /\ ~superseded
  /\ registrations' = NextObjects
  /\ accepting' = Put(accepting, NextObjects, TRUE)
  /\ registered' = Put(registered, NextObjects, TRUE)
  /\ published' = Append(published, ToolsOf(NextObjects))
  /\ history' = history \cup Desired
  /\ Finish
  /\ status' = IF lease = 0 THEN status ELSE [status EXCEPT ![lease] = "ready"]
  /\ UNCHANGED <<pageVars, wanted, tool, aborted, native, quarantined, uses,
                 faults>>

-----------------------------------------------------------------------------
(* Its failures. *)

\* quarantineInFlight: forget the objects, abort each when it becomes idle.
Quarantine ==
  /\ registrations' = {}
  /\ accepting' = Put(accepting, snapshot, FALSE)
  /\ quarantined' = Put(quarantined, snapshot, TRUE)
  /\ Finish
  /\ UNCHANGED <<registered, aborted, native>>

\* The first part of rollback: drop the new objects, restore the retired ones.
BeginRollback(error) ==
  /\ pc' = "restore" /\ canceled' = (error = "canceled")
  /\ LET restored == IF removalStarted THEN removed ELSE {} IN
     /\ accepting' = Put(accepting, staged, FALSE)
     /\ registered' = Put(registered, staged \cup restored, FALSE)
     /\ aborted' = Put(Put(aborted, staged, TRUE), restored, FALSE)
     /\ native' = Put(Put(native, staged \cap Native, "none"), restored, "pending")
  /\ UNCHANGED <<registrations, quarantined, locals>>

BeginFailClosed(isCanceled) ==
  /\ pc' = "failClosed" /\ canceled' = isCanceled
  /\ accepting' = Put(accepting, snapshot \cup staged, FALSE)
  /\ UNCHANGED <<registrations, registered, aborted, native, quarantined, locals>>

\* The catch block of transitionCatalog.
Fail(error) ==
  /\ IF lease # 0 THEN BeginRollback(error)
     ELSE IF error = "canceled" /\ Latest # 0
     THEN Finish /\ UNCHANGED <<registrations, accepting, registered, aborted, native,
                                quarantined>>
     ELSE IF error = "timeout" THEN Quarantine
     ELSE BeginFailClosed(error = "canceled")
  /\ UNCHANGED <<pageVars, status, wanted, published, history, tool, uses>>

Canceled ==
  /\ pc \in {"quiesce", "register", "verify", "verified"} /\ superseded
  /\ Fail("canceled")
  /\ UNCHANGED faults

TimedOut ==
  /\ pc = "quiesce" /\ ~superseded
  /\ \E o \in snapshot : ~Idle(o)
  /\ Fail("timeout")
  /\ UNCHANGED faults

\* Faulty variant: a rejected registration is not reported.
RegistrationIgnored == FALSE /\ UNCHANGED vars

\* registerAll, once all have settled.
RegistrationFailed ==
  /\ pc = "register" /\ ~superseded
  /\ \A o \in staged : native[o] # "pending"
  /\ \E o \in staged : native[o] = "failed"
  /\ Fail("registration")
  /\ UNCHANGED faults

\* A getTools call that hangs hides an abort until the deadline has passed.
DiscoveryFailed ==
  /\ pc = "verify"
  /\ DiscoveryFails(NextObjects)
  /\ superseded => faults' > faults
  /\ Fail("discovery")

-----------------------------------------------------------------------------
(* Rollback and failing closed; a newer lease does not interrupt them. *)

\* What the lease is told when its transition did not publish.
TellFailure ==
  status' = IF ~canceled /\ lease # 0 /\ Latest = lease
            THEN [status EXCEPT ![lease] = "error"] ELSE status

\* The restored tools are registered and discovery shows the old catalog.
RolledBack ==
  /\ pc = "restore"
  /\ removalStarted => \A o \in removed : native[o] = "active"
  /\ Discovers(snapshot)
  /\ registrations' = snapshot
  /\ accepting' = Put(accepting, snapshot, TRUE)
  /\ registered' = Put(registered, snapshot, TRUE)
  /\ Finish /\ TellFailure
  /\ UNCHANGED <<pageVars, wanted, published, history, tool, aborted, native, quarantined,
                 uses, faults>>

RollbackFailed ==
  /\ pc = "restore"
  /\ \A o \in removed : removalStarted => native[o] # "pending"
  /\ IF removalStarted /\ \E o \in removed : native[o] = "failed"
     THEN UNCHANGED faults ELSE DiscoveryFails(snapshot)
  /\ BeginFailClosed(canceled)
  /\ UNCHANGED <<pageVars, status, wanted, published, history, tool, uses>>

\* failClosed waits for each object to be idle, without a bound.
FailClosed ==
  /\ pc = "failClosed"
  /\ \A o \in snapshot \cup staged : Idle(o)
  /\ registered' = Put(registered, snapshot \cup staged, FALSE)
  /\ AbortSignals(snapshot \cup staged)
  /\ registrations' = {}
  /\ Finish /\ TellFailure
  /\ UNCHANGED <<pageVars, wanted, published, history, tool, accepting, quarantined, uses,
                 faults>>

\* quarantineInFlight's continuation.
QuarantineEnds(o) ==
  /\ quarantined[o] /\ Idle(o) /\ ~aborted[o]
  /\ registered' = [registered EXCEPT ![o] = FALSE]
  /\ AbortSignals({o})
  /\ UNCHANGED <<pageVars, status, wanted, pc, transition, registrations, published, history,
                 tool, accepting, quarantined, uses, faults>>

-----------------------------------------------------------------------------
(* Calls. *)

CallsInUse == FoldSet(LAMBDA o, n : running[o] + holds[o] + n, 0, Objects)

\* executeRegistered, from a native dispatch that may be late.
Execute(o) ==
  /\ ~Transitioning /\ accepting[o] /\ registered[o]
  /\ CallsInUse < MaxCalls
  /\ running' = [running EXCEPT ![o] = @ + 1]
  /\ UNCHANGED <<pageVars, status, wanted, pc, transition, registrations, published, history,
                 objects, holds, faults>>

HandlerEnds(o) ==
  /\ running[o] > 0
  /\ running' = [running EXCEPT ![o] = @ - 1]
  /\ UNCHANGED <<pageVars, status, wanted, pc, transition, registrations, published, history,
                 objects, holds, faults>>

\* The catalog the caller saw, g, is still the one in place.
Current(g) == g = generation

\* holdConsumerCall, for a tool of generation g that the caller was shown.
Hold(o, g) ==
  /\ ~Transitioning /\ Current(g) /\ g \in 1 .. generation
  /\ o \in registrations /\ accepting[o] /\ registered[o]
  /\ \E t \in published[g] : NameOf[t] = NameOf[tool[o]]
  /\ CallsInUse < MaxCalls
  /\ holds' = [holds EXCEPT ![o] = @ + 1]
  /\ UNCHANGED <<pageVars, status, wanted, pc, transition, registrations, published, history,
                 objects, running, faults>>

\* The release function, which works once.
HoldEnds(o) ==
  /\ holds[o] > 0
  /\ holds' = [holds EXCEPT ![o] = @ - 1]
  /\ UNCHANGED <<pageVars, status, wanted, pc, transition, registrations, published, history,
                 objects, running, faults>>

Manager ==
  \/ Reconcile \/ Quiesced \/ Registered \/ Verified \/ Publish
  \/ Canceled \/ TimedOut \/ RegistrationFailed \/ DiscoveryFailed
  \/ RolledBack \/ RollbackFailed \/ FailClosed

Next ==
  \/ \E c \in Catalogs : Acquire(c)
  \/ \E l \in Leases : GiveUp(l)
  \/ Manager
  \/ \E o \in Objects : \/ NativeRegister(o) \/ QuarantineEnds(o)
                        \/ Execute(o) \/ HandlerEnds(o)
                        \/ HoldEnds(o) \/ \E g \in 1 .. generation : Hold(o, g)

Spec == Init /\ [][Next]_vars

\* Promises and timers of the manager and the browser fire; nothing is assumed
\* of the handlers and consumers, which may hang.
FairSpec == Spec /\ WF_vars(Manager) /\ \A o \in Objects : WF_vars(NativeRegister(o))

\* Handlers return and consumers give up their holds as well.
FairCallsSpec == FairSpec /\ \A o \in Objects : WF_vars(HandlerEnds(o)) /\ WF_vars(HoldEnds(o))

-----------------------------------------------------------------------------
Settled == pc = "idle" /\ ~wanted

\* When the newest lease was told ready and nothing is under way, the browser
\* shows exactly its tools and every one of them is admitted, through any
\* superseded, failed and rolled back transition before (verifyDiscovery).
ReadyMeansExact ==
  Settled /\ Latest # 0 /\ status[Latest] = "ready" =>
    /\ ToolsOf(registrations) = catalog[Latest]
    /\ Native = registrations
    /\ \A o \in registrations : accepting[o] /\ registered[o]

\* While a handler runs or a consumer waits for its result, the registration's
\* signal is not aborted (waitUntilIdle, holdConsumerCall).
HeldStaysRegistered ==
  [][\A o \in Objects :
       /\ (running[o] > 0 /\ running'[o] > 0) \/ (holds[o] > 0 /\ holds'[o] > 0)
       /\ native[o] = "active"
       => native'[o] = "active"]_vars

\* A name never stands for two different tools in the life of a document, even
\* when it was unregistered in between (contextFingerprints).
ToolIdentityStable ==
  \A g, h \in 1 .. generation : \A t \in published[g], u \in published[h] :
    NameOf[t] = NameOf[u] => t = u

\* What the page asked for is eventually done or refused, whatever calls run,
\* fail or are superseded meanwhile (the queue of reconciles).
RequestsSettle == wanted ~> Settled

\* A lease taken while tools are being withdrawn is served: no call runs and the
\* browser does not fail, so it is never told error (acquire's comment).
SupersedingLeaseIsServed == \A l \in live : status[l] # "error"
=============================================================================
