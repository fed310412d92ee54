-------------------------- MODULE ToolRegistryProofs --------------------------
(***************************************************************************)
(* Proofs about the registry manager, for every set of tools, catalogs and  *)
(* leases: whatever calls run, fail or are superseded, a held registration  *)
(* stays, a name keeps its tool, and ready means the exact catalog.         *)
(***************************************************************************)
EXTENDS ToolRegistry, WellFoundedInduction, TLAPS

Pcs == {"idle", "quiesce", "register", "verify", "verified", "restore", "failClosed"}
Phases == {"none", "registering", "ready", "error"}
Natives == {"none", "pending", "active", "failed"}

PageTypes ==
  /\ taken \in 0 .. MaxLeases /\ live \subseteq 1 .. taken
  /\ catalog \in [Leases -> Catalogs \cup {{}}] /\ status \in [Leases -> Phases]
  /\ pc \in Pcs /\ lease \in 0 .. taken

ObjectTypes ==
  /\ registrations \in SUBSET Objects /\ snapshot \in SUBSET Objects
  /\ staged \in SUBSET Objects /\ removed \in SUBSET Objects
  /\ native \in [Objects -> Natives]
  /\ accepting \in [Objects -> BOOLEAN] /\ registered \in [Objects -> BOOLEAN]
  /\ aborted \in [Objects -> BOOLEAN] /\ quarantined \in [Objects -> BOOLEAN]
  /\ tool \in [Objects -> Tools \cup {NoTool}]
  /\ running \in [Objects -> Nat] /\ holds \in [Objects -> Nat]

\* What a transition works on.
Shape ==
  /\ pc = "idle" =>
       lease = 0 /\ snapshot = {} /\ staged = {} /\ removed = {} /\ ~removalStarted
  /\ pc # "idle" =>
       snapshot = registrations
       /\ removed = {o \in registrations : lease = 0 \/ tool[o] \notin catalog[lease]}
  /\ pc = "quiesce" => staged = {}
  /\ pc \in {"quiesce", "register"} => ~removalStarted
  /\ pc \in {"register", "verify", "verified"} => ToolsOf(staged) = Desired \ ToolsOf(snapshot)
  /\ ToolsOf(staged) \subseteq Desired

\* A set of tools in which a name stands for one.
Named(S) == \A t, u \in S : NameOf[t] = NameOf[u] => t = u

Identity ==
  /\ published \in Seq(SUBSET Tools)
  /\ Named(history \cup Desired)
  /\ \A g \in 1 .. generation : published[g] \subseteq history
  /\ ToolsOf(registrations) \subseteq history

\* Nobody uses an object that was not published, or a tool that is being retired.
Unused ==
  /\ \A o \in staged : Idle(o)
  /\ pc \in {"register", "verify", "verified"} \/ removalStarted => \A o \in snapshot : Idle(o)

\* An object that has its name in the browser, or may still get it.
Claims == {o \in Objects : native[o] = "active" \/ (native[o] = "pending" /\ ~aborted[o])}
Waiting(o) ==
  (o \in staged /\ pc = "register") \/ (o \in removed /\ removalStarted /\ pc = "restore")

Exclusive ==
  /\ \A m, n \in Native : NameOf[tool[m]] = NameOf[tool[n]] => m = n
  /\ \A o, p \in registrations : tool[o] = tool[p] => o = p
  /\ \A n \in Claims, o \in registrations : tool[n] = tool[o] => n = o
  /\ \A o \in Objects : native[o] = "pending" /\ ~aborted[o] => Waiting(o)
  /\ \A o \in Objects : quarantined[o] => o \notin registrations \cup staged

Admitted == registrations # {} /\ \A o \in registrations : accepting[o] /\ registered[o]

\* What the browser shows at the points where the manager trusts it.
Shown ==
  /\ pc = "verify" /\ ~superseded => staged \subseteq Native
  /\ pc = "verified" /\ ~superseded => Native = NextObjects
  /\ lease = 0 /\ pc \in {"idle", "quiesce", "register"} /\ Admitted => Native = registrations
  /\ lease = 0 /\ pc \in {"verify", "verified"} => \A o \in registrations : ~accepting[o]

Notified ==
  /\ pc # "idle" /\ ~wanted => lease = Latest
  /\ pc # "idle" /\ lease # 0 => status[lease] = "registering"
  /\ ReadyMeansExact

RInv == PageTypes /\ ObjectTypes /\ Shape /\ Identity /\ Unused /\ Exclusive /\ Shown /\ Notified

-----------------------------------------------------------------------------
(* The newest of some leases. *)

LEMMA MaxExists ==
  ASSUME NEW n \in Nat, NEW S, S \subseteq 1 .. n, S # {}
  PROVE  Max(S) \in S /\ \A x \in S : x <= Max(S)
<1> DEFINE T == {x \in Nat : n - x \in S}
<1>1. T # {} /\ T \subseteq Nat
  <2>1. PICK x \in S : TRUE
    OBVIOUS
  <2>2. n - x \in Nat /\ n - (n - x) = x
    BY <2>1
  <2> QED BY <2>1, <2>2
<1>2. PICK m \in T : \A y \in T : ~(<<y, m>> \in OpToRel(<, Nat))
  BY <1>1, NatLessThanWellFounded, WFMin
<1>3. \A y \in T : m <= y
  <2>1. ASSUME NEW y \in T, y < m PROVE FALSE
    <3>1. <<y, m>> \in Nat \X Nat /\ <<y, m>>[1] < <<y, m>>[2]
      BY <1>1, <1>2, <2>1
    <3>2. <<y, m>> \in OpToRel(<, Nat)
      BY <3>1 DEF OpToRel
    <3> QED BY <1>2, <3>2
  <2>2. m \in Nat /\ m \in T
    BY <1>1, <1>2
  <2> QED BY <1>1, <2>1, <2>2
<1>4. n - m \in S /\ \A x \in S : x <= n - m
  <2>1. ASSUME NEW x \in S PROVE x <= n - m
    <3>1. n - x \in Nat /\ n - (n - x) = x
      BY <2>1
    <3> QED BY <1>1, <1>3, <3>1
  <2> QED BY <2>1
<1> QED BY <1>4 DEF Max

LEMMA MaxIs ==
  ASSUME NEW n \in Nat, NEW S, S \subseteq 1 .. n, NEW m \in S, \A x \in S : x <= m
  PROVE  Max(S) = m
<1>1. Max(S) \in S /\ m <= Max(S)
  BY MaxExists
<1> DEFINE x == Max(S)
<1>2. x \in S /\ m <= x
  BY <1>1
<1> HIDE DEF x
<1>3. x <= m /\ x \in Nat /\ m \in Nat
  BY <1>2
<1>4. x = m
  BY <1>2, <1>3
<1> QED BY <1>4 DEF x

-----------------------------------------------------------------------------
LEMMA RegistryConstants ==
  /\ \A c \in Catalogs \cup {{}} : c \subseteq Tools /\ Named(c)
  /\ MaxLeases \in Nat /\ MaxObjects \in Nat
BY RegistryAssumption DEF RegistryAssumption, Named

LEMMA InitRegistry == Init => RInv
<1> SUFFICES ASSUME Init PROVE RInv
  OBVIOUS
<1>1. PageTypes
  BY RegistryConstants DEF Init, PageTypes, Pcs, Phases, Leases
<1>2. ObjectTypes
  BY DEF Init, ObjectTypes, Natives
<1>3. Shape
  BY DEF Init, Shape, ToolsOf, Desired
<1>4. Identity
  BY DEF Init, Identity, Named, ToolsOf, Desired, generation
<1>5. Unused
  BY DEF Init, Unused
<1>6. Exclusive
  BY DEF Init, Exclusive, Native, Claims
<1>7. Shown
  BY DEF Init, Shown, Native, Admitted
<1>8. Notified
  BY DEF Init, Notified, ReadyMeansExact, Latest
<1> QED BY <1>1, <1>2, <1>3, <1>4, <1>5, <1>6, <1>7, <1>8 DEF RInv

LEMMA NewestLives ==
  ASSUME PageTypes
  PROVE  /\ Latest # 0 => Latest \in live /\ Latest \in 1 .. taken /\ Latest \in Leases
         /\ live # {} => Latest \in live /\ \A l \in live : l <= Latest
         /\ live = {} => Latest = 0
         /\ taken \in Nat /\ 0 \notin live
<1>1. taken \in Nat /\ live \subseteq 1 .. taken /\ 0 \notin live /\ 1 .. taken \subseteq Leases
  BY RegistryConstants DEF PageTypes, Leases
<1>2. live # {} => Max(live) \in live /\ \A l \in live : l <= Max(live)
  BY <1>1, MaxExists
<1> QED BY <1>1, <1>2 DEF Latest

-----------------------------------------------------------------------------
(* Calls: an object in transition gets no new use. *)

LEMMA UseStep ==
  ASSUME RInv, running' \in [Objects -> Nat], holds' \in [Objects -> Nat],
         UNCHANGED <<pageVars, status, wanted, pc, transition, registrations, published,
                     history, objects>>,
         \A o \in Objects : Transitioning /\ Idle(o) => Idle(o)'
  PROVE  RInv'
<1> USE DEF pageVars, transition, locals, objects
<1>1. PageTypes' /\ ObjectTypes'
  BY DEF RInv, PageTypes, ObjectTypes
<1>2. Shape' /\ Identity'
  <2>1. /\ Desired' = Desired /\ ToolsOf(snapshot)' = ToolsOf(snapshot)
        /\ ToolsOf(staged)' = ToolsOf(staged) /\ ToolsOf(registrations)' = ToolsOf(registrations)
    BY DEF Desired, ToolsOf
  <2>2. Shape'
    BY <2>1 DEF RInv, Shape
  <2>3. Identity'
    BY <2>1 DEF RInv, Identity, generation
  <2> QED BY <2>2, <2>3
<1>3. Unused'
  <2>1. ASSUME NEW o \in Objects, pc # "idle", Idle(o) PROVE Idle(o)'
    BY <2>1 DEF Transitioning
  <2> QED BY <2>1 DEF RInv, Unused, Shape, ObjectTypes
<1>4. Exclusive'
  BY DEF RInv, Exclusive, Native, Claims, Waiting
<1>5. Shown'
  BY DEF RInv, Shown, Native, NextObjects, Admitted
<1>6. Notified'
  BY DEF RInv, Notified, ReadyMeansExact, Latest, Settled, Native, ToolsOf
<1> QED BY <1>1, <1>2, <1>3, <1>4, <1>5, <1>6 DEF RInv

LEMMA CallSteps ==
  ASSUME RInv, NEW o \in Objects,
         \/ Execute(o) \/ HandlerEnds(o) \/ HoldEnds(o)
         \/ \E g \in 1 .. generation : Hold(o, g)
  PROVE  RInv'
<1>1. running \in [Objects -> Nat] /\ holds \in [Objects -> Nat]
  BY DEF RInv, ObjectTypes
<1>2. CASE Execute(o)
  BY <1>1, <1>2, UseStep DEF Execute, Idle
<1>3. CASE HandlerEnds(o)
  BY <1>1, <1>3, UseStep DEF HandlerEnds, Idle
<1>4. CASE HoldEnds(o)
  BY <1>1, <1>4, UseStep DEF HoldEnds, Idle
<1>5. ASSUME NEW g \in 1 .. generation, Hold(o, g) PROVE RInv'
  BY <1>1, <1>5, UseStep DEF Hold, Idle
<1> QED BY <1>2, <1>3, <1>4, <1>5

-----------------------------------------------------------------------------
(* Leases: a change supersedes the transition or leaves it alone. *)

LEMMA NothingStagedToWithdraw == ASSUME RInv, lease = 0 PROVE staged = {}
<1>1. ToolsOf(staged) \subseteq {}
  BY DEF RInv, Shape, Desired
<1>2. ASSUME NEW o \in staged PROVE FALSE
  BY <1>1 DEF ToolsOf
<1> QED BY <1>2

LEMMA AbortMoves ==
  ASSUME ObjectTypes, NEW S \in SUBSET Objects, AbortSignals(S)
  PROVE  /\ aborted' \in [Objects -> BOOLEAN] /\ native' \in [Objects -> Natives]
         /\ \A o \in Objects : aborted'[o] = (o \in S \/ aborted[o])
         /\ \A o \in Objects : native'[o] =
              IF o \in S /\ native[o] = "active" THEN "none" ELSE native[o]
BY DEF ObjectTypes, AbortSignals, Put, Native, Natives

LEMMA LeaseStep ==
  ASSUME RInv, PageTypes', wanted',
         Supersede \/ UNCHANGED <<superseded, aborted, native>>,
         UNCHANGED <<pc, lease, canceled, snapshot, staged, removed, removalStarted,
                     registrations, published, history, tool, accepting, registered,
                     quarantined, uses>>,
         lease # 0 => catalog'[lease] = catalog[lease] /\ status'[lease] = status[lease]
  PROVE  RInv'
<1> DEFINE Less == \A o \in Objects : /\ native'[o] = "active" => native[o] = "active"
                                      /\ native'[o] = "pending" => native[o] = "pending"
                                      /\ aborted[o] => aborted'[o]
<1>1. /\ aborted' \in [Objects -> BOOLEAN] /\ native' \in [Objects -> Natives]
      /\ Less
      /\ pc # "idle" /\ ~superseded' => UNCHANGED <<superseded, aborted, native>>
      /\ lease = 0 => UNCHANGED native
  <2>0. aborted \in [Objects -> BOOLEAN] /\ native \in [Objects -> Natives]
    BY DEF RInv, ObjectTypes
  <2>1. CASE UNCHANGED <<superseded, aborted, native>>
    BY <2>0, <2>1
  <2>2. CASE Supersede /\ pc # "idle"
    <3>1. superseded' /\ AbortSignals(staged) /\ ObjectTypes /\ staged \in SUBSET Objects
      BY <2>2 DEF Supersede, Transitioning, RInv, ObjectTypes
    <3>2. lease = 0 => staged = {}
      BY NothingStagedToWithdraw
    <3>3. /\ aborted' \in [Objects -> BOOLEAN] /\ native' \in [Objects -> Natives]
          /\ \A o \in Objects : aborted'[o] = (o \in staged \/ aborted[o])
          /\ \A o \in Objects : native'[o] =
               IF o \in staged /\ native[o] = "active" THEN "none" ELSE native[o]
      BY <3>1, AbortMoves
    <3>4. Less
      BY <3>3
    <3> QED BY <2>0, <3>1, <3>2, <3>3, <3>4
  <2> QED BY <2>1, <2>2 DEF Supersede, Transitioning
<1>2. Native' \subseteq Native /\ Claims' \subseteq Claims /\ Desired' = Desired
  BY <1>1 DEF Native, Claims, Desired
<1>3. ObjectTypes'
  BY <1>1 DEF RInv, ObjectTypes, uses
<1>4. Shape' /\ Identity'
  <2>1. \A o \in registrations :
          (lease = 0 \/ tool[o] \notin catalog'[lease]) <=> (lease = 0 \/ tool[o] \notin catalog[lease])
    OBVIOUS
  <2>2. {o \in registrations : lease = 0 \/ tool[o] \notin catalog'[lease]}
          = {o \in registrations : lease = 0 \/ tool[o] \notin catalog[lease]}
    BY <2>1
  <2>3. ToolsOf(staged)' = ToolsOf(staged) /\ ToolsOf(snapshot)' = ToolsOf(snapshot)
        /\ ToolsOf(registrations)' = ToolsOf(registrations)
    BY DEF ToolsOf
  <2>4. Shape'
    BY <1>2, <2>2, <2>3 DEF RInv, Shape
  <2>5. Identity'
    BY <1>2, <2>3 DEF RInv, Identity, generation
  <2> QED BY <2>4, <2>5
<1>5. Unused'
  BY DEF RInv, Unused, Idle, uses
<1>6. Exclusive'
  <2>1. /\ \A m, n \in Native' : NameOf[tool[m]] = NameOf[tool[n]] => m = n
        /\ \A n \in Claims', o \in registrations : tool[n] = tool[o] => n = o
    BY <1>2 DEF RInv, Exclusive
  <2>2. \A o \in Objects : native'[o] = "pending" /\ ~aborted'[o] => Waiting(o)
    BY <1>1 DEF RInv, Exclusive
  <2>3. \A o, p \in registrations : tool[o] = tool[p] => o = p
    BY DEF RInv, Exclusive
  <2>4. \A o \in Objects : quarantined[o] => o \notin registrations \cup staged
    BY DEF RInv, Exclusive
  <2> QED BY <2>1, <2>2, <2>3, <2>4 DEF Exclusive, Waiting
<1>7. Shown'
  <2>1. CASE pc # "idle" /\ ~superseded'
    BY <1>1, <2>1 DEF RInv, Shown, Native, NextObjects, Admitted
  <2>2. CASE pc = "idle" \/ superseded'
    BY <1>1, <2>2 DEF RInv, Shown, Native, Admitted
  <2> QED BY <2>1, <2>2
<1>8. Notified'
  BY DEF RInv, Notified, ReadyMeansExact, Settled
<1> QED BY <1>3, <1>4, <1>5, <1>6, <1>7, <1>8 DEF RInv

LEMMA AcquireStep == ASSUME RInv, NEW c \in Catalogs, Acquire(c) PROVE RInv'
<1>1. /\ taken \in Nat /\ taken < MaxLeases /\ taken + 1 \in Leases /\ lease \in 0 .. taken
      /\ catalog \in [Leases -> Catalogs \cup {{}}] /\ live \subseteq 1 .. taken
  BY RegistryConstants DEF RInv, PageTypes, Acquire, Leases
<1>2. catalog' = [catalog EXCEPT ![taken + 1] = c] /\ taken' = taken + 1
      /\ live' = live \cup {taken + 1} /\ UNCHANGED <<status, pc, lease>>
  BY DEF Acquire
<1>3. PageTypes'
  <2>1. taken' \in 0 .. MaxLeases /\ live' \subseteq 1 .. taken' /\ lease' \in 0 .. taken'
    BY <1>1, <1>2, RegistryConstants
  <2>2. catalog' \in [Leases -> Catalogs \cup {{}}]
    BY <1>1, <1>2
  <2> QED BY <1>2, <2>1, <2>2 DEF RInv, PageTypes
<1>4. lease # 0 => catalog'[lease] = catalog[lease]
  <2>1. lease # taken + 1
    BY <1>1
  <2>2. lease # 0 => lease \in Leases
    BY <1>1, RegistryConstants DEF Leases
  <2> QED BY <1>1, <1>2, <2>1, <2>2
<1> QED BY <1>2, <1>3, <1>4, LeaseStep DEF Acquire

LEMMA GiveUpStep == ASSUME RInv, NEW l \in Leases, GiveUp(l) PROVE RInv'
<1>1. PageTypes'
  BY DEF RInv, PageTypes, GiveUp
<1> QED BY <1>1, LeaseStep DEF GiveUp

-----------------------------------------------------------------------------
(* Reconciling. *)

\* The browser and the objects are left alone, and so is what the manager has.
Kept == UNCHANGED <<pageVars, registrations, published, history, objects, uses>>

LEMMA AnsweredAtOnce ==
  ASSUME RInv, pc = "idle", Kept, UNCHANGED <<pc, transition>>,
         status' \in [Leases -> Phases], ReadyMeansExact'
  PROVE  RInv'
<1> USE DEF Kept, pageVars, transition, locals, objects, uses
<1>1. PageTypes' /\ ObjectTypes'
  BY DEF RInv, PageTypes, ObjectTypes
<1>2. Shape' /\ Identity'
  BY DEF RInv, Shape, Identity, ToolsOf, Desired, generation
<1>3. Unused'
  BY DEF RInv, Unused, Idle
<1>4. Exclusive'
  BY DEF RInv, Exclusive, Native, Claims, Waiting
<1>5. Shown'
  BY DEF RInv, Shown, Native, NextObjects, Admitted
<1>6. Notified'
  BY DEF RInv, Notified
<1> QED BY <1>1, <1>2, <1>3, <1>4, <1>5, <1>6 DEF RInv

LEMMA BeginStep ==
  ASSUME RInv, pc = "idle", Kept, BeginTransition(Latest),
         Latest = 0 => UNCHANGED status,
         Latest # 0 => ~Replaces(catalog[Latest])
                       /\ status' = [status EXCEPT ![Latest] = "registering"]
  PROVE  RInv'
<1> DEFINE l == Latest
<1>1. /\ l # 0 => l \in 1 .. taken /\ l \in Leases /\ catalog[l] \in Catalogs \cup {{}}
      /\ taken \in Nat
  BY NewestLives DEF RInv, PageTypes
<1>2. /\ pc' = "quiesce" /\ lease' = l /\ snapshot' = registrations /\ staged' = {}
      /\ removed' = {o \in registrations : l = 0 \/ tool[o] \notin catalog[l]}
      /\ ~removalStarted' /\ ~superseded' /\ l' = l
  BY DEF BeginTransition, Kept, pageVars, Latest
<1> HIDE DEF l
<1>3. PageTypes'
  BY <1>1, <1>2 DEF RInv, PageTypes, Kept, pageVars, Pcs, Phases, l
<1>4. ObjectTypes'
  BY <1>2 DEF RInv, ObjectTypes, Kept, objects, uses
<1>5. Shape'
  BY <1>2 DEF Shape, ToolsOf, Kept, objects, pageVars
<1>6. Identity'
  <2>1. Named(history) /\ (l # 0 => Named(catalog[l]))
    BY <1>1, RegistryConstants DEF RInv, Identity, Named
  <2>2. l # 0 => \A t \in catalog[l], u \in history : NameOf[t] = NameOf[u] => t = u
    BY DEF Replaces, l
  <2>3. Desired' = IF l = 0 THEN {} ELSE catalog[l]
    BY <1>2 DEF Desired, Kept, pageVars
  <2>4. Named(history \cup Desired')
    BY <2>1, <2>2, <2>3 DEF Named
  <2> QED BY <2>4 DEF RInv, Identity, ToolsOf, generation, Kept, objects
<1>7. Unused'
  BY <1>2 DEF Unused
<1>8. Exclusive'
  BY <1>2 DEF RInv, Exclusive, Shape, Native, Claims, Waiting, Kept, objects
<1>9. Shown'
  BY <1>2 DEF RInv, Shown, Shape, Native, Admitted, Kept, objects
<1>10. Notified'
  BY <1>1, <1>2 DEF RInv, PageTypes, Notified, ReadyMeansExact, Settled, l
<1> QED BY <1>3, <1>4, <1>5, <1>6, <1>7, <1>8, <1>9, <1>10 DEF RInv

LEMMA ReconcileStep == ASSUME RInv, Reconcile PROVE RInv'
<1>1. pc = "idle" /\ Kept
  BY DEF Reconcile, Kept
<1>2. Latest' = Latest
  BY DEF Reconcile, Latest, pageVars
<1>3. /\ status \in [Leases -> Phases]
      /\ Latest # 0 => Latest \in Leases
  BY NewestLives DEF RInv, PageTypes
<1>4. CASE Latest = 0 /\ registrations # {}
  BY <1>1, <1>4, BeginStep DEF Reconcile
<1>5. CASE Latest = 0 /\ registrations = {}
  <2>1. ReadyMeansExact'
    BY <1>2, <1>5 DEF ReadyMeansExact
  <2> QED BY <1>1, <1>3, <1>5, <2>1, AnsweredAtOnce DEF Reconcile
<1>6. CASE Latest # 0 /\ Replaces(catalog[Latest])
  <2>1. status' = [status EXCEPT ![Latest] = "error"] /\ UNCHANGED <<pc, transition>>
    BY <1>6 DEF Reconcile
  <2>2. status' \in [Leases -> Phases] /\ status'[Latest] = "error"
    BY <1>3, <1>6, <2>1 DEF Phases
  <2>3. ReadyMeansExact'
    BY <1>2, <2>2 DEF ReadyMeansExact
  <2> QED BY <1>1, <2>1, <2>2, <2>3, AnsweredAtOnce
<1>7. CASE Latest # 0 /\ ~Replaces(catalog[Latest]) /\ Unchanged(catalog[Latest])
  <2>1. status' = [status EXCEPT ![Latest] = "ready"] /\ UNCHANGED <<pc, transition>>
    BY <1>7 DEF Reconcile
  <2>2. status' \in [Leases -> Phases]
    BY <1>3, <2>1 DEF Phases
  <2>3. /\ ToolsOf(registrations) = catalog[Latest]
        /\ Native = registrations
        /\ \A o \in registrations : accepting[o] /\ registered[o]
    BY <1>1, <1>7 DEF RInv, Shape, Shown, Admitted, Unchanged
  <2>4. UNCHANGED <<registrations, catalog, tool, accepting, registered, native>>
    BY <1>1 DEF Kept, pageVars, objects
  <2>5. ReadyMeansExact'
    BY <1>2, <2>3, <2>4 DEF ReadyMeansExact, ToolsOf, Native
  <2> QED BY <1>1, <2>1, <2>2, <2>5, AnsweredAtOnce
<1>8. CASE Latest # 0 /\ ~Replaces(catalog[Latest]) /\ ~Unchanged(catalog[Latest])
  BY <1>1, <1>8, BeginStep DEF Reconcile
<1> QED BY <1>4, <1>5, <1>6, <1>7, <1>8

-----------------------------------------------------------------------------
(* The transition, while it goes well. *)

LEMMA DesiredTools == ASSUME PageTypes PROVE Desired \subseteq Tools
<1>1. lease # 0 => lease \in Leases
  BY RegistryConstants DEF PageTypes, Leases
<1> QED BY <1>1, RegistryConstants DEF Desired, PageTypes

\* What Quiesced does to the objects: those nothing refers to are cleared, and the
\* new ones among them wait for the browser with the tools the catalog adds.
LEMMA NewObjects ==
  ASSUME RInv, Quiesced
  PROVE  /\ staged' \subseteq Free /\ ToolsOf(staged)' = Desired \ ToolsOf(snapshot)
         /\ tool' \in [Objects -> Tools \cup {NoTool}] /\ native' \in [Objects -> Natives]
         /\ accepting' \in [Objects -> BOOLEAN] /\ registered' \in [Objects -> BOOLEAN]
         /\ aborted' \in [Objects -> BOOLEAN] /\ quarantined' \in [Objects -> BOOLEAN]
         /\ \A o \in Objects \ Free :
              /\ tool'[o] = tool[o] /\ native'[o] = native[o] /\ accepting'[o] = accepting[o]
              /\ registered'[o] = registered[o] /\ aborted'[o] = aborted[o]
              /\ quarantined'[o] = quarantined[o]
         /\ \A o \in Free : /\ native'[o] = IF o \in staged' THEN "pending" ELSE "none"
                            /\ ~quarantined'[o]
<1> DEFINE new == Desired \ ToolsOf(snapshot)
<1>1. new \subseteq Tools
  BY DesiredTools DEF RInv
<1>2. PICK S \in SUBSET Free :
        /\ \E f \in [S -> new] :
             /\ {f[o] : o \in S} = new
             /\ tool' = [o \in Objects |-> IF o \in S THEN f[o] ELSE
                                            IF o \in Free THEN NoTool ELSE tool[o]]
        /\ staged' = S
        /\ native' = Put(Put(native, Free, "none"), S, "pending")
        /\ accepting' = Put(accepting, Free, FALSE)
        /\ registered' = Put(registered, Free, FALSE)
        /\ aborted' = Put(aborted, Free, FALSE)
        /\ quarantined' = Put(quarantined, Free, FALSE)
  BY DEF Quiesced
<1>3. PICK f \in [S -> new] :
        /\ {f[o] : o \in S} = new
        /\ tool' = [o \in Objects |-> IF o \in S THEN f[o] ELSE
                                       IF o \in Free THEN NoTool ELSE tool[o]]
  BY <1>2
<1>4. /\ accepting \in [Objects -> BOOLEAN] /\ registered \in [Objects -> BOOLEAN]
      /\ aborted \in [Objects -> BOOLEAN] /\ quarantined \in [Objects -> BOOLEAN]
      /\ tool \in [Objects -> Tools \cup {NoTool}] /\ native \in [Objects -> Natives]
      /\ Free \subseteq Objects
  BY DEF RInv, ObjectTypes, Free
<1> HIDE DEF new
<1>5. tool' \in [Objects -> Tools \cup {NoTool}] /\ \A o \in S : tool'[o] = f[o]
  BY <1>1, <1>2, <1>3, <1>4
<1>6. /\ accepting' \in [Objects -> BOOLEAN] /\ registered' \in [Objects -> BOOLEAN]
      /\ aborted' \in [Objects -> BOOLEAN] /\ quarantined' \in [Objects -> BOOLEAN]
  BY <1>2, <1>3, <1>4 DEF Put
<1>7. native' \in [Objects -> Natives]
  BY <1>2, <1>3, <1>4 DEF Put, Natives
<1>8. {tool'[o] : o \in S} = new
  <2>1. {tool'[o] : o \in S} = {f[o] : o \in S}
    BY <1>5
  <2> QED BY <1>3, <2>1
<1>9. \A o \in Objects \ Free :
        /\ tool'[o] = tool[o] /\ native'[o] = native[o] /\ accepting'[o] = accepting[o]
        /\ registered'[o] = registered[o] /\ aborted'[o] = aborted[o]
        /\ quarantined'[o] = quarantined[o]
  BY <1>2, <1>3, <1>4 DEF Put
<1>10. \A o \in Free : /\ native'[o] = IF o \in S THEN "pending" ELSE "none"
                       /\ ~quarantined'[o]
  BY <1>2, <1>3, <1>4 DEF Put
<1> QED BY <1>2, <1>3, <1>5, <1>6, <1>7, <1>8, <1>9, <1>10 DEF ToolsOf, new

LEMMA QuiescedStep == ASSUME RInv, Quiesced PROVE RInv'
<1>1. /\ pc = "quiesce" /\ pc' = "register" /\ \A o \in snapshot : Idle(o)
      /\ UNCHANGED <<pageVars, status, wanted, lease, superseded, canceled, snapshot, removed,
                     removalStarted, registrations, published, history, uses, faults>>
  BY DEF Quiesced
<1>2. /\ staged = {} /\ ~removalStarted /\ snapshot = registrations
      /\ registrations \subseteq Objects
      /\ removed = {o \in registrations : lease = 0 \/ tool[o] \notin catalog[lease]}
  BY <1>1 DEF RInv, Shape, ObjectTypes
<1>3. /\ staged' \subseteq Free /\ ToolsOf(staged)' = Desired \ ToolsOf(snapshot)
      /\ tool' \in [Objects -> Tools \cup {NoTool}] /\ native' \in [Objects -> Natives]
      /\ accepting' \in [Objects -> BOOLEAN] /\ registered' \in [Objects -> BOOLEAN]
      /\ aborted' \in [Objects -> BOOLEAN] /\ quarantined' \in [Objects -> BOOLEAN]
      /\ \A o \in Objects \ Free :
           /\ tool'[o] = tool[o] /\ native'[o] = native[o] /\ accepting'[o] = accepting[o]
           /\ registered'[o] = registered[o] /\ aborted'[o] = aborted[o]
           /\ quarantined'[o] = quarantined[o]
      /\ \A o \in Free : /\ native'[o] = IF o \in staged' THEN "pending" ELSE "none"
                         /\ ~quarantined'[o]
  BY NewObjects
<1>4. \A o \in Free : /\ o \in Objects /\ o \notin registrations /\ native[o] # "active"
                      /\ Idle(o) /\ ~(native[o] = "pending")
  BY DEF Free, Idle
<1>5. \A o \in registrations : tool'[o] = tool[o]
  BY <1>2, <1>3, <1>4
<1>6. /\ ToolsOf(snapshot)' = ToolsOf(snapshot) /\ ToolsOf(registrations)' = ToolsOf(registrations)
      /\ Desired' = Desired
  BY <1>1, <1>2, <1>5 DEF ToolsOf, Desired, pageVars
<1>7. PageTypes'
  BY <1>1 DEF RInv, PageTypes, pageVars, Pcs
<1>8. ObjectTypes'
  BY <1>1, <1>3, <1>4 DEF RInv, ObjectTypes, uses
<1>9. Shape'
  <2>1. removed' = {o \in registrations' : lease' = 0 \/ tool'[o] \notin catalog'[lease']}
    BY <1>1, <1>2, <1>5 DEF pageVars
  <2> QED BY <1>1, <1>2, <1>3, <1>6, <2>1 DEF Shape
<1>10. Identity'
  BY <1>1, <1>6 DEF RInv, Identity, generation
<1>11. Unused'
  BY <1>1, <1>3, <1>4 DEF Unused, Idle, uses
<1>12. Exclusive'
  <2>1. Native' = Native /\ \A n \in Native : n \notin Free /\ tool'[n] = tool[n]
    BY <1>3, <1>4 DEF Native
  <2>2. \A m, n \in Native' : NameOf[tool'[m]] = NameOf[tool'[n]] => m = n
    BY <2>1 DEF RInv, Exclusive
  <2>3. \A o, p \in registrations : tool'[o] = tool'[p] => o = p
    BY <1>5 DEF RInv, Exclusive
  <2>4. \A n \in Claims' : n \in staged' \/ (n \in Claims /\ tool'[n] = tool[n])
    BY <1>3 DEF Claims
  <2>5. \A n \in staged', o \in registrations : tool'[n] # tool'[o]
    <3>1. \A n \in staged' : tool'[n] \notin ToolsOf(snapshot)
      BY <1>3 DEF ToolsOf
    <3> QED BY <1>2, <1>5, <3>1 DEF ToolsOf
  <2>6. \A n \in Claims', o \in registrations : tool'[n] = tool'[o] => n = o
    BY <1>5, <2>4, <2>5 DEF RInv, Exclusive
  <2>7. \A o \in Objects : native'[o] = "pending" /\ ~aborted'[o] => Waiting(o)'
    <3>1. \A o \in Objects : native[o] = "pending" /\ ~aborted[o] => FALSE
      BY <1>1, <1>2 DEF RInv, Exclusive, Waiting
    <3> QED BY <1>1, <1>3, <3>1 DEF Waiting
  <2>8. \A o \in Objects : quarantined'[o] => o \notin registrations \cup staged'
    BY <1>3 DEF RInv, Exclusive
  <2> QED BY <1>1, <2>2, <2>3, <2>6, <2>7, <2>8 DEF Exclusive
<1>13. Shown'
  <2>1. Native' = Native
    BY <1>3, <1>4 DEF Native
  <2>2. \A o \in registrations : accepting'[o] = accepting[o] /\ registered'[o] = registered[o]
    BY <1>2, <1>3, <1>4
  <2> QED BY <1>1, <2>1, <2>2 DEF RInv, Shown, Admitted
<1>14. Notified'
  BY <1>1 DEF RInv, Notified, ReadyMeansExact, Settled, Latest, pageVars
<1> QED BY <1>7, <1>8, <1>9, <1>10, <1>11, <1>12, <1>13, <1>14 DEF RInv

\* The browser's answer is a success only for a registration a transition waits for.
LEMMA AnswerMoves ==
  ASSUME RInv, NEW o \in Objects, NativeRegister(o)
  PROVE  /\ native' \in [Objects -> Natives] /\ registered' \in [Objects -> BOOLEAN]
         /\ \A n \in Objects \ {o} : native'[n] = native[n] /\ registered'[n] = registered[n]
         /\ native[o] = "pending"
         /\ \/ native'[o] = "failed" /\ registered' = registered
            \/ /\ native'[o] = "active" /\ ~aborted[o] /\ Waiting(o)
               /\ \A n \in Native : NameOf[tool[n]] # NameOf[tool[o]]
<1>1. native \in [Objects -> Natives] /\ registered \in [Objects -> BOOLEAN]
      /\ native[o] = "pending"
  BY DEF RInv, ObjectTypes, NativeRegister
<1>2. CASE native' = [native EXCEPT ![o] = "failed"] /\ UNCHANGED registered
  BY <1>1, <1>2 DEF Natives
<1>3. CASE /\ ~aborted[o] /\ \A n \in Native : NameOf[tool[n]] # NameOf[tool[o]]
           /\ native' = [native EXCEPT ![o] = "active"]
           /\ registered' = [registered EXCEPT ![o] = TRUE]
  <2>1. Waiting(o)
    BY <1>1, <1>3 DEF RInv, Exclusive
  <2>2. native' \in [Objects -> Natives] /\ native'[o] = "active"
        /\ \A n \in Objects \ {o} : native'[n] = native[n]
    BY <1>1, <1>3 DEF Natives
  <2>3. registered' \in [Objects -> BOOLEAN]
        /\ \A n \in Objects \ {o} : registered'[n] = registered[n]
    BY <1>1, <1>3
  <2> QED BY <1>1, <1>3, <2>1, <2>2, <2>3
<1> QED BY <1>2, <1>3 DEF NativeRegister

LEMMA NativeRegisterStep == ASSUME RInv, NEW o \in Objects, NativeRegister(o) PROVE RInv'
<1>1. /\ native' \in [Objects -> Natives] /\ registered' \in [Objects -> BOOLEAN]
      /\ \A n \in Objects \ {o} : native'[n] = native[n] /\ registered'[n] = registered[n]
      /\ native[o] = "pending"
      /\ \/ native'[o] = "failed" /\ registered' = registered
         \/ /\ native'[o] = "active" /\ ~aborted[o] /\ Waiting(o)
            /\ \A n \in Native : NameOf[tool[n]] # NameOf[tool[o]]
  BY AnswerMoves
<1>2. UNCHANGED <<pageVars, status, wanted, pc, transition, registrations, published, history,
                  tool, accepting, aborted, quarantined, uses>>
  BY DEF NativeRegister
<1> USE DEF pageVars, transition, locals, uses
<1>3. PageTypes' /\ ObjectTypes'
  BY <1>1, <1>2 DEF RInv, PageTypes, ObjectTypes
<1>4. Shape' /\ Identity'
  BY <1>2 DEF RInv, Shape, Identity, ToolsOf, Desired, generation
<1>5. Unused'
  BY <1>2 DEF RInv, Unused, Idle
<1>6. Waiting(o) => pc = "restore" \/ (pc = "register" /\ lease # 0)
  BY NothingStagedToWithdraw DEF Waiting
<1>7. /\ Native' = Native \/ (Native' = Native \cup {o} /\ Waiting(o))
      /\ Claims' \subseteq Claims
  BY <1>1, <1>2 DEF Native, Claims
<1>8. Exclusive'
  <2>1. \A m, n \in Native' : NameOf[tool[m]] = NameOf[tool[n]] => m = n
    BY <1>1, <1>7 DEF RInv, Exclusive, Native
  <2>2. \A n \in Claims', p \in registrations : tool[n] = tool[p] => n = p
    BY <1>7 DEF RInv, Exclusive
  <2>3. \A n \in Objects : native'[n] = "pending" /\ ~aborted[n] => Waiting(n)
    BY <1>1 DEF RInv, Exclusive
  <2> QED BY <1>2, <2>1, <2>2, <2>3 DEF RInv, Exclusive, Waiting
<1>9. pc \notin {"register", "restore"} \/ (lease = 0 /\ pc = "register")
        => Native' = Native /\ registered' = registered
  BY <1>1, <1>2, <1>6, <1>7 DEF Native
<1>10. Shown'
  <2>1. Native \subseteq Native'
    BY <1>7
  <2> QED BY <1>2, <1>9, <2>1 DEF RInv, Shown, NextObjects, Admitted
<1>11. Notified'
  <2>1. Latest' = Latest /\ ToolsOf(registrations)' = ToolsOf(registrations)
    BY <1>2 DEF Latest, ToolsOf
  <2> QED BY <1>2, <1>9, <2>1 DEF RInv, Notified, ReadyMeansExact, Settled
<1> QED BY <1>3, <1>4, <1>5, <1>8, <1>10, <1>11 DEF RInv

LEMMA StagedIsNew ==
  ASSUME RInv, pc \in {"register", "verify", "verified"}
  PROVE  staged \cap registrations = {}
<1>1. ToolsOf(staged) \cap ToolsOf(registrations) = {}
  BY DEF RInv, Shape
<1> QED BY <1>1 DEF ToolsOf

LEMMA RegisteredStep == ASSUME RInv, Registered PROVE RInv'
<1>1. /\ pc = "register" /\ pc' = "verify" /\ ~superseded
      /\ \A o \in staged : native[o] = "active"
      /\ removalStarted' = (removed # {})
      /\ accepting' = Put(accepting, removed, FALSE)
      /\ registered' = Put(registered, removed, FALSE)
      /\ AbortSignals(removed)
      /\ UNCHANGED <<pageVars, status, wanted, lease, superseded, canceled, snapshot, staged,
                     removed, registrations, published, history, tool, quarantined, uses>>
  BY DEF Registered
<1>2. /\ snapshot = registrations /\ removed \subseteq registrations
      /\ removed = {o \in registrations : lease = 0 \/ tool[o] \notin catalog[lease]}
      /\ ToolsOf(staged) = Desired \ ToolsOf(snapshot) /\ ObjectTypes
  BY <1>1 DEF RInv, Shape
<1>3. /\ aborted' \in [Objects -> BOOLEAN] /\ native' \in [Objects -> Natives]
      /\ \A o \in Objects : aborted'[o] = (o \in removed \/ aborted[o])
      /\ \A o \in Objects : native'[o] =
           IF o \in removed /\ native[o] = "active" THEN "none" ELSE native[o]
  BY <1>1, <1>2, AbortMoves DEF ObjectTypes
<1>4. /\ accepting' \in [Objects -> BOOLEAN] /\ registered' \in [Objects -> BOOLEAN]
      /\ \A o \in removed : ~accepting'[o]
  BY <1>1, <1>2 DEF ObjectTypes, Put
<1>5. PageTypes' /\ ObjectTypes'
  BY <1>1, <1>3, <1>4 DEF RInv, PageTypes, ObjectTypes, pageVars, uses, Pcs
<1>6. Shape' /\ Identity'
  <2>1. ToolsOf(staged)' = ToolsOf(staged) /\ ToolsOf(snapshot)' = ToolsOf(snapshot)
        /\ ToolsOf(registrations)' = ToolsOf(registrations) /\ Desired' = Desired
    BY <1>1 DEF ToolsOf, Desired, pageVars
  <2>2. Shape'
    BY <1>1, <1>2, <2>1 DEF Shape, pageVars
  <2> QED BY <1>1, <2>1, <2>2 DEF RInv, Identity, generation
<1>7. Unused'
  BY <1>1 DEF RInv, Unused, Idle, uses
<1>8. Native' \subseteq Native /\ Claims' \subseteq Claims
  BY <1>3 DEF Native, Claims
<1>9. Exclusive'
  <2>1. \A m, n \in Native' : NameOf[tool[m]] = NameOf[tool[n]] => m = n
    BY <1>8 DEF RInv, Exclusive
  <2>2. \A n \in Claims', p \in registrations : tool[n] = tool[p] => n = p
    BY <1>8 DEF RInv, Exclusive
  <2>3. \A n \in Objects : ~(native'[n] = "pending" /\ ~aborted'[n])
    BY <1>1, <1>3 DEF RInv, Exclusive, Waiting
  <2> QED BY <1>1, <2>1, <2>2, <2>3 DEF RInv, Exclusive
<1>10. Shown'
  <2>1. staged \subseteq Native'
    BY <1>1, <1>2, <1>3, StagedIsNew DEF Native, ObjectTypes
  <2>2. lease = 0 => \A o \in registrations : ~accepting'[o]
    BY <1>2, <1>4
  <2> QED BY <1>1, <2>1, <2>2 DEF Shown
<1>11. Notified'
  BY <1>1 DEF RInv, Notified, ReadyMeansExact, Settled, Latest, pageVars
<1> QED BY <1>5, <1>6, <1>7, <1>9, <1>10, <1>11 DEF RInv

\* Discovery compares tools; that the objects are the same follows from Exclusive.
LEMMA DiscoveredObjects ==
  ASSUME RInv, NEW S \in SUBSET Objects, NEW T \in SUBSET S, T \subseteq Native,
         S \ T \subseteq registrations, Discovers(S)
  PROVE  Native = S
<1>1. \A n \in Native : \E o \in S : tool[n] = tool[o]
  BY DEF Discovers, ToolsOf
<1>2. \A o \in S : \E n \in Native : tool[n] = tool[o]
  BY DEF Discovers, ToolsOf
<1>3. \A m, n \in Native : tool[m] = tool[n] => m = n
  BY DEF RInv, Exclusive
<1>4. \A n \in Native, o \in registrations : tool[n] = tool[o] => n = o
  BY DEF RInv, Exclusive, Native, Claims
<1>5. S \subseteq Native
  BY <1>2, <1>4
<1>6. Native \subseteq S
  BY <1>1, <1>3, <1>5
<1> QED BY <1>5, <1>6

LEMMA VerifiedStep == ASSUME RInv, Verified PROVE RInv'
<1>1. /\ pc = "verify" /\ pc' = "verified" /\ ~superseded /\ Discovers(NextObjects)
      /\ UNCHANGED <<pageVars, status, wanted, transition, registrations, published, history,
                     objects, uses>>
  BY DEF Verified
<1>2. Native = NextObjects
  <2>1. NextObjects \in SUBSET Objects /\ staged \in SUBSET NextObjects /\ staged \subseteq Native
        /\ NextObjects \ staged \subseteq registrations
    BY <1>1 DEF RInv, Shown, Shape, ObjectTypes, NextObjects
  <2> QED BY <1>1, <2>1, DiscoveredObjects
<1> USE DEF pageVars, transition, locals, objects, uses
<1>3. PageTypes' /\ ObjectTypes'
  BY <1>1 DEF RInv, PageTypes, ObjectTypes, Pcs
<1>4. Shape' /\ Identity'
  BY <1>1 DEF RInv, Shape, Identity, ToolsOf, Desired, generation
<1>5. Unused'
  BY <1>1 DEF RInv, Unused, Idle
<1>6. Exclusive'
  BY <1>1 DEF RInv, Exclusive, Native, Claims, Waiting
<1>7. Shown'
  BY <1>1, <1>2 DEF RInv, Shown, Native, NextObjects
<1>8. Notified'
  BY <1>1 DEF RInv, Notified, ReadyMeansExact, Settled, Latest
<1> QED BY <1>3, <1>4, <1>5, <1>6, <1>7, <1>8 DEF RInv

LEMMA QuarantineEndsStep == ASSUME RInv, NEW o \in Objects, QuarantineEnds(o) PROVE RInv'
<1>1. /\ quarantined[o] /\ Idle(o) /\ AbortSignals({o})
      /\ registered' = [registered EXCEPT ![o] = FALSE]
      /\ UNCHANGED <<pageVars, status, wanted, pc, transition, registrations, published,
                     history, tool, accepting, quarantined, uses>>
  BY DEF QuarantineEnds
<1>2. ObjectTypes /\ o \notin registrations \cup staged
  BY <1>1 DEF RInv, Exclusive
<1>3. /\ aborted' \in [Objects -> BOOLEAN] /\ native' \in [Objects -> Natives]
      /\ \A n \in Objects : aborted'[n] = (n \in {o} \/ aborted[n])
      /\ \A n \in Objects : native'[n] =
           IF n \in {o} /\ native[n] = "active" THEN "none" ELSE native[n]
  BY <1>1, <1>2, AbortMoves
<1>4. /\ registered' \in [Objects -> BOOLEAN]
      /\ \A n \in registrations : registered'[n] = registered[n]
  BY <1>1, <1>2 DEF ObjectTypes
<1> USE DEF pageVars, transition, locals, uses
<1>5. PageTypes' /\ ObjectTypes'
  BY <1>1, <1>3, <1>4 DEF RInv, PageTypes, ObjectTypes
<1>6. Shape' /\ Identity'
  BY <1>1 DEF RInv, Shape, Identity, ToolsOf, Desired, generation
<1>7. Unused'
  BY <1>1 DEF RInv, Unused, Idle
<1>8. Native' = Native \ {o} /\ Claims' \subseteq Claims
  BY <1>3 DEF Native, Claims
<1>9. Exclusive'
  <2>1. \A m, n \in Native' : NameOf[tool[m]] = NameOf[tool[n]] => m = n
    BY <1>8 DEF RInv, Exclusive
  <2>2. \A n \in Claims', p \in registrations : tool[n] = tool[p] => n = p
    BY <1>8 DEF RInv, Exclusive
  <2>3. \A n \in Objects : native'[n] = "pending" /\ ~aborted'[n] => Waiting(n)
    BY <1>3 DEF RInv, Exclusive
  <2> QED BY <1>1, <2>1, <2>2, <2>3 DEF RInv, Exclusive, Waiting
<1>10. Shown'
  <2>1. snapshot = registrations \/ pc = "idle"
    BY DEF RInv, Shape
  <2>2. staged \subseteq Native => staged \subseteq Native'
    BY <1>2, <1>8
  <2>3. pc = "verified" /\ Native = NextObjects => Native' = NextObjects
    BY <1>2, <1>8, <2>1 DEF NextObjects
  <2>4. Native = registrations => Native' = registrations
    BY <1>2, <1>8
  <2> QED BY <1>1, <1>4, <2>2, <2>3, <2>4 DEF RInv, Shown, NextObjects, Admitted
<1>11. Notified'
  <2>1. Latest' = Latest /\ ToolsOf(registrations)' = ToolsOf(registrations)
    BY <1>1 DEF Latest, ToolsOf
  <2>2. Native = registrations => Native' = registrations
    BY <1>2, <1>8
  <2> QED BY <1>1, <1>4, <2>1, <2>2 DEF RInv, Notified, ReadyMeansExact, Settled
<1> QED BY <1>5, <1>6, <1>7, <1>9, <1>10, <1>11 DEF RInv

-----------------------------------------------------------------------------
(* The end of a transition. *)

LEMMA NobodyWaits ==
  ASSUME RInv, \A o \in Objects : ~Waiting(o)
  PROVE  Claims = Native /\ \A o \in Objects : ~(native[o] = "pending" /\ ~aborted[o])
BY DEF RInv, Exclusive, Claims, Native

LEMMA FinishShape ==
  ASSUME Finish PROVE Shape' /\ Unused' /\ Desired' = {} /\ pc' = "idle" /\ lease' = 0
<1>1. /\ pc' = "idle" /\ lease' = 0 /\ snapshot' = {} /\ staged' = {} /\ removed' = {}
      /\ ~removalStarted'
  BY DEF Finish
<1>2. Desired' = {} /\ ToolsOf(staged)' = {}
  BY <1>1 DEF Desired, ToolsOf
<1> QED BY <1>1, <1>2 DEF Shape, Unused

LEMMA LeaseAnswered ==
  ASSUME RInv, NEW s \in Phases, NEW t, t = status \/ (lease # 0 /\ t = [status EXCEPT ![lease] = s])
  PROVE  t \in [Leases -> Phases]
<1>1. status \in [Leases -> Phases]
  BY DEF RInv, PageTypes
<1> QED BY <1>1

\* What is left to show of a step that ends a transition and publishes nothing.
LEMMA FinishStep ==
  ASSUME RInv, pc # "idle", Finish,
         UNCHANGED <<pageVars, wanted, published, history, tool, uses>>,
         status' \in [Leases -> Phases], lease # 0 => status'[lease] # "ready",
         ObjectTypes', Exclusive', registrations' \subseteq registrations,
         Admitted' => Native' = registrations'
  PROVE  RInv'
<1>1. Shape' /\ Unused' /\ Desired' = {} /\ pc' = "idle" /\ lease' = 0
  BY FinishShape
<1>2. PageTypes'
  <2>1. taken \in Nat
    BY NewestLives DEF RInv
  <2> QED BY <1>1, <2>1 DEF RInv, PageTypes, pageVars, Pcs
<1>3. Identity'
  <2>1. Named(history)
    BY DEF RInv, Identity, Named
  <2>2. ToolsOf(registrations)' \subseteq ToolsOf(registrations)
    BY DEF ToolsOf
  <2>3. history \cup Desired' = history
    BY <1>1
  <2> QED BY <2>1, <2>2, <2>3 DEF RInv, Identity, generation
<1>4. Shown'
  BY <1>1 DEF Shown
<1>5. Notified'
  <2>1. ~wanted => lease = Latest
    BY DEF RInv, Notified
  <2>2. Latest' = Latest
    BY DEF Latest, pageVars
  <2> QED BY <1>1, <2>1, <2>2 DEF Notified, ReadyMeansExact, Settled
<1> QED BY <1>1, <1>2, <1>3, <1>4, <1>5 DEF RInv

LEMMA PublishStep == ASSUME RInv, Publish PROVE RInv'
<1>1. /\ pc = "verified" /\ ~superseded /\ Finish
      /\ registrations' = NextObjects
      /\ accepting' = Put(accepting, NextObjects, TRUE)
      /\ registered' = Put(registered, NextObjects, TRUE)
      /\ published' = Append(published, ToolsOf(NextObjects))
      /\ history' = history \cup Desired
      /\ status' = IF lease = 0 THEN status ELSE [status EXCEPT ![lease] = "ready"]
      /\ UNCHANGED <<pageVars, wanted, tool, aborted, native, quarantined, uses>>
  BY DEF Publish
<1>2. Shape' /\ Unused' /\ Desired' = {} /\ pc' = "idle" /\ lease' = 0
  BY <1>1, FinishShape
<1>3. /\ snapshot = registrations /\ ToolsOf(staged) = Desired \ ToolsOf(snapshot)
      /\ removed = {o \in registrations : lease = 0 \/ tool[o] \notin catalog[lease]}
      /\ Native = NextObjects /\ ObjectTypes
  BY <1>1 DEF RInv, Shape, Shown
<1>4. ToolsOf(NextObjects) = Desired
  <2>1. ASSUME NEW t \in Desired PROVE \E o \in NextObjects : tool[o] = t
    <3>1. CASE t \in ToolsOf(snapshot)
      <4>1. PICK o \in registrations : tool[o] = t
        BY <1>3, <3>1 DEF ToolsOf
      <4>2. lease # 0 /\ tool[o] \in catalog[lease]
        BY <2>1, <4>1 DEF Desired
      <4> QED BY <1>3, <4>1, <4>2 DEF NextObjects
    <3>2. CASE t \in ToolsOf(staged)
      BY <3>2 DEF ToolsOf, NextObjects
    <3> QED BY <1>3, <2>1, <3>1, <3>2
  <2>2. ASSUME NEW o \in NextObjects PROVE tool[o] \in Desired
    <3>1. CASE o \in staged
      BY <1>3, <3>1 DEF ToolsOf
    <3>2. CASE o \in registrations /\ o \notin removed
      BY <1>3, <3>2 DEF Desired
    <3> QED BY <1>3, <3>1, <3>2 DEF NextObjects
  <2> QED BY <2>1, <2>2 DEF ToolsOf
<1>5. /\ status' \in [Leases -> Phases]
      /\ NextObjects \subseteq Objects
  <2>1. "ready" \in Phases
    BY DEF Phases
  <2> QED BY <1>1, <1>3, <2>1, LeaseAnswered DEF ObjectTypes, NextObjects
<1>6. PageTypes'
  <2>1. taken \in Nat
    BY NewestLives DEF RInv
  <2> QED BY <1>1, <1>2, <1>5, <2>1 DEF RInv, PageTypes, pageVars, Pcs
<1>7. ObjectTypes'
  <2>1. accepting' \in [Objects -> BOOLEAN] /\ registered' \in [Objects -> BOOLEAN]
    BY <1>1, <1>3 DEF ObjectTypes, Put
  <2>2. registrations' \in SUBSET Objects /\ snapshot' \in SUBSET Objects
        /\ staged' \in SUBSET Objects /\ removed' \in SUBSET Objects
    BY <1>1, <1>5 DEF Finish
  <2> QED BY <1>1, <1>3, <2>1, <2>2 DEF ObjectTypes, uses
<1>8. Identity'
  <2>1. Named(history \cup Desired) /\ published \in Seq(SUBSET Tools)
        /\ \A g \in 1 .. Len(published) : published[g] \subseteq history
    BY DEF RInv, Identity, generation
  <2>2. Desired \in SUBSET Tools
    BY DesiredTools DEF RInv
  <2>3. published' = Append(published, Desired)
    BY <1>1, <1>4
  <2>4. /\ published' \in Seq(SUBSET Tools)
        /\ \A g \in 1 .. Len(published') : published'[g] \subseteq history \cup Desired
    BY <2>1, <2>2, <2>3
  <2>5. ToolsOf(registrations)' \subseteq history'
    BY <1>1, <1>4 DEF ToolsOf
  <2>6. history' \cup Desired' = history \cup Desired
    BY <1>1, <1>2
  <2> QED BY <1>1, <2>1, <2>4, <2>5, <2>6 DEF Identity, generation
<1>9. Native' = Native /\ Claims' = Native
  <2>1. \A o \in Objects : ~Waiting(o)
    BY <1>1 DEF Waiting
  <2> QED BY <1>1, <2>1, NobodyWaits DEF Native, Claims
<1>10. Exclusive'
  <2>1. \A m, n \in Native : NameOf[tool[m]] = NameOf[tool[n]] => m = n
    BY DEF RInv, Exclusive
  <2>2. \A o \in Objects : quarantined[o] => o \notin NextObjects
    BY <1>3 DEF RInv, Exclusive, NextObjects
  <2>3. \A o \in Objects : ~(native'[o] = "pending" /\ ~aborted'[o])
    BY <1>1, NobodyWaits DEF Waiting
  <2>4. \A m, n \in Native : tool[m] = tool[n] => m = n
    BY <2>1
  <2>5. staged' = {}
    BY <1>1 DEF Finish
  <2> QED BY <1>1, <1>3, <1>9, <2>1, <2>2, <2>3, <2>4, <2>5 DEF Exclusive
<1>11. Shown'
  BY <1>1, <1>2, <1>3, <1>9 DEF Shown
<1>12. Notified'
  <2>1. ~wanted => lease = Latest
    BY <1>1 DEF RInv, Notified
  <2>2. Latest' = Latest
    BY <1>1 DEF Latest, pageVars
  <2>3. \A o \in NextObjects : accepting'[o] /\ registered'[o]
    BY <1>1, <1>5 DEF Put
  <2>4. lease # 0 => ToolsOf(registrations)' = catalog'[lease]
    BY <1>1, <1>4 DEF ToolsOf, Desired, pageVars
  <2>5. ReadyMeansExact'
    BY <1>1, <1>3, <1>9, <2>1, <2>2, <2>3, <2>4 DEF ReadyMeansExact, Settled
  <2> QED BY <1>2, <2>5 DEF Notified
<1> QED BY <1>2, <1>6, <1>7, <1>8, <1>10, <1>11, <1>12 DEF RInv

-----------------------------------------------------------------------------
(* Its failures. *)

Failing == pc \in {"quiesce", "register", "verify", "verified"}

LEMMA RollbackStep ==
  ASSUME RInv, Failing, lease # 0, NEW error, BeginRollback(error),
         UNCHANGED <<pageVars, status, wanted, published, history, tool, uses>>
  PROVE  RInv'
<1> DEFINE restored == IF removalStarted THEN removed ELSE {}
<1>1. /\ pc' = "restore"
      /\ accepting' = Put(accepting, staged, FALSE)
      /\ registered' = Put(registered, staged \cup restored, FALSE)
      /\ aborted' = Put(Put(aborted, staged, TRUE), restored, FALSE)
      /\ native' = Put(Put(native, staged \cap Native, "none"), restored, "pending")
      /\ UNCHANGED <<registrations, quarantined, locals>>
  BY DEF BeginRollback
<1>2. /\ ObjectTypes /\ restored \subseteq removed /\ removed \subseteq registrations
      /\ registrations \subseteq Objects /\ (restored # {} => removalStarted)
  BY DEF RInv, Shape, ObjectTypes, Failing
<1> HIDE DEF restored
<1>3. /\ accepting' \in [Objects -> BOOLEAN] /\ registered' \in [Objects -> BOOLEAN]
      /\ aborted' \in [Objects -> BOOLEAN]
  BY <1>1, <1>2 DEF ObjectTypes, Put
<1>4. /\ native' \in [Objects -> Natives]
      /\ \A o \in Objects \ restored : /\ native'[o] = "active" => native[o] = "active"
                                       /\ native'[o] = "pending" => native[o] = "pending"
                                       /\ ~aborted'[o] => ~aborted[o] /\ o \notin staged
      /\ \A o \in restored : native'[o] = "pending"
  BY <1>1, <1>2 DEF ObjectTypes, Put, Natives, Native
<1> USE DEF pageVars, locals, uses
<1>5. PageTypes' /\ ObjectTypes'
  BY <1>1, <1>2, <1>3, <1>4 DEF RInv, PageTypes, ObjectTypes, Pcs
<1>6. Shape' /\ Identity'
  BY <1>1 DEF RInv, Shape, Identity, ToolsOf, Desired, generation, Failing
<1>7. Unused'
  BY <1>1 DEF RInv, Unused, Idle
<1>8. Native' \subseteq Native /\ Claims' \subseteq Claims \cup restored
  BY <1>4 DEF Native, Claims
<1>9. Exclusive'
  <2>1. \A m, n \in Native' : NameOf[tool[m]] = NameOf[tool[n]] => m = n
    BY <1>8 DEF RInv, Exclusive
  <2>2. \A n \in Claims', p \in registrations : tool[n] = tool[p] => n = p
    BY <1>2, <1>8 DEF RInv, Exclusive
  <2>3. ASSUME NEW o \in Objects, native'[o] = "pending", ~aborted'[o] PROVE Waiting(o)'
    <3>1. CASE o \in restored
      BY <1>1, <1>2, <3>1 DEF Waiting
    <3>2. CASE o \notin restored
      BY <1>4, <2>3, <3>2 DEF RInv, Exclusive, Waiting, Failing
    <3> QED BY <3>1, <3>2
  <2> QED BY <1>1, <2>1, <2>2, <2>3 DEF RInv, Exclusive
<1>10. Shown'
  BY <1>1 DEF Shown
<1>11. Notified'
  BY <1>1 DEF RInv, Notified, ReadyMeansExact, Settled, Latest, Failing
<1> QED BY <1>5, <1>6, <1>7, <1>9, <1>10, <1>11 DEF RInv

LEMMA FailClosedStep ==
  ASSUME RInv, pc # "idle", NEW c, BeginFailClosed(c),
         \A o \in Objects : ~(native[o] = "pending" /\ ~aborted[o]),
         UNCHANGED <<pageVars, status, wanted, published, history, tool, uses>>
  PROVE  RInv'
<1>1. /\ pc' = "failClosed" /\ accepting' = Put(accepting, snapshot \cup staged, FALSE)
      /\ UNCHANGED <<registrations, registered, aborted, native, quarantined, locals>>
  BY DEF BeginFailClosed
<1>2. accepting' \in [Objects -> BOOLEAN]
  BY <1>1 DEF RInv, ObjectTypes, Put
<1> USE DEF pageVars, locals, uses
<1>3. PageTypes' /\ ObjectTypes'
  BY <1>1, <1>2 DEF RInv, PageTypes, ObjectTypes, Pcs
<1>4. Shape' /\ Identity'
  BY <1>1 DEF RInv, Shape, Identity, ToolsOf, Desired, generation
<1>5. Unused'
  BY <1>1 DEF RInv, Unused, Idle
<1>6. Exclusive'
  BY <1>1 DEF RInv, Exclusive, Native, Claims
<1>7. Shown'
  BY <1>1 DEF Shown
<1>8. Notified'
  BY <1>1 DEF RInv, Notified, ReadyMeansExact, Settled, Latest
<1> QED BY <1>3, <1>4, <1>5, <1>6, <1>7, <1>8 DEF RInv

\* A withdrawal has nothing staged, and nobody waits for the browser.
LEMMA WithdrawalStep ==
  ASSUME RInv, Failing, lease = 0, NEW error, Fail(error)
  PROVE  RInv'
<1>1. staged = {} /\ (\A o \in Objects : ~Waiting(o)) /\ pc # "idle"
  BY NothingStagedToWithdraw DEF Waiting, Failing
<1>2. UNCHANGED <<pageVars, status, wanted, published, history, tool, uses>>
  BY DEF Fail
<1>3. /\ status \in [Leases -> Phases] /\ ObjectTypes /\ Exclusive /\ snapshot = registrations
  BY <1>1 DEF RInv, PageTypes, Shape
<1>4. CASE Finish /\ UNCHANGED <<registrations, accepting, registered, aborted, native, quarantined>>
  <2>1. ObjectTypes'
    BY <1>2, <1>3, <1>4 DEF ObjectTypes, uses, Finish
  <2>2. Exclusive'
    <3>1. \A o \in Objects : ~(native[o] = "pending" /\ ~aborted[o])
      BY <1>1, NobodyWaits
    <3>2. staged' = {}
      BY <1>4 DEF Finish
    <3> QED BY <1>2, <1>3, <1>4, <3>1, <3>2 DEF Exclusive, Native, Claims
  <2>3. Admitted' => Native' = registrations'
    BY <1>4 DEF RInv, Shown, Admitted, Native, Failing
  <2> QED BY <1>1, <1>2, <1>3, <1>4, <2>1, <2>2, <2>3, FinishStep
<1>5. CASE Quarantine
  <2>1. /\ registrations' = {} /\ Finish /\ UNCHANGED <<registered, aborted, native>>
        /\ accepting' = Put(accepting, snapshot, FALSE)
        /\ quarantined' = Put(quarantined, snapshot, TRUE)
    BY <1>5 DEF Quarantine
  <2>2. accepting' \in [Objects -> BOOLEAN] /\ quarantined' \in [Objects -> BOOLEAN]
    BY <1>3, <2>1 DEF ObjectTypes, Put
  <2>3. ObjectTypes'
    BY <1>2, <1>3, <2>1, <2>2 DEF ObjectTypes, uses, Finish
  <2>4. Exclusive'
    <3>1. \A o \in Objects : ~(native[o] = "pending" /\ ~aborted[o])
      BY <1>1, NobodyWaits
    <3>2. staged' = {}
      BY <2>1 DEF Finish
    <3> QED BY <1>2, <1>3, <2>1, <3>1, <3>2 DEF Exclusive, Native, Claims
  <2>5. ~Admitted'
    BY <2>1 DEF Admitted
  <2> QED BY <1>1, <1>2, <1>3, <2>1, <2>3, <2>4, <2>5, FinishStep
<1>6. CASE \E c \in BOOLEAN : BeginFailClosed(c)
  <2>1. \A o \in Objects : ~(native[o] = "pending" /\ ~aborted[o])
    BY <1>1, NobodyWaits
  <2> QED BY <1>1, <1>2, <1>6, <2>1, FailClosedStep
<1> QED BY <1>4, <1>5, <1>6 DEF Fail

LEMMA FailStep ==
  ASSUME RInv, Failing, NEW error, Fail(error) PROVE RInv'
<1>1. CASE lease = 0
  BY <1>1, WithdrawalStep
<1>2. CASE lease # 0
  BY <1>2, RollbackStep DEF Fail
<1> QED BY <1>1, <1>2

LEMMA TellsNoReadiness ==
  ASSUME RInv, pc # "idle", TellFailure
  PROVE  status' \in [Leases -> Phases] /\ (lease # 0 => status'[lease] # "ready")
<1>1. /\ status \in [Leases -> Phases] /\ (lease # 0 => lease \in Leases)
      /\ lease # 0 => status[lease] = "registering"
  BY RegistryConstants DEF RInv, PageTypes, Leases, Notified
<1>2. status' = status \/ (lease # 0 /\ status' = [status EXCEPT ![lease] = "error"])
  BY DEF TellFailure
<1>3. lease # 0 => status'[lease] \in {"registering", "error"}
  BY <1>1, <1>2
<1>4. status' \in [Leases -> Phases]
  BY <1>2, LeaseAnswered DEF Phases
<1> QED BY <1>3, <1>4

LEMMA RolledBackStep == ASSUME RInv, RolledBack PROVE RInv'
<1>1. /\ pc = "restore" /\ (removalStarted => \A o \in removed : native[o] = "active")
      /\ Discovers(snapshot) /\ registrations' = snapshot
      /\ accepting' = Put(accepting, snapshot, TRUE)
      /\ registered' = Put(registered, snapshot, TRUE)
      /\ Finish /\ TellFailure
      /\ UNCHANGED <<pageVars, wanted, published, history, tool, aborted, native, quarantined,
                     uses>>
  BY DEF RolledBack
<1>2. ObjectTypes /\ snapshot = registrations /\ registrations \subseteq Objects
  BY <1>1 DEF RInv, Shape, ObjectTypes
<1>3. Native = registrations
  <2>1. {} \in SUBSET snapshot /\ {} \subseteq Native /\ snapshot \ {} \subseteq registrations
    BY <1>2
  <2> QED BY <1>1, <1>2, <2>1, DiscoveredObjects
<1>4. status' \in [Leases -> Phases] /\ (lease # 0 => status'[lease] # "ready")
  BY <1>1, TellsNoReadiness
<1>5. ObjectTypes'
  <2>1. accepting' \in [Objects -> BOOLEAN] /\ registered' \in [Objects -> BOOLEAN]
    BY <1>1, <1>2 DEF ObjectTypes, Put
  <2> QED BY <1>1, <1>2, <2>1 DEF ObjectTypes, uses, Finish
<1>6. Exclusive'
  <2>1. \A o \in Objects : ~(native[o] = "pending" /\ ~aborted[o])
    BY <1>1 DEF RInv, Exclusive, Waiting
  <2>2. staged' = {}
    BY <1>1 DEF Finish
  <2> QED BY <1>1, <1>2, <2>1, <2>2 DEF RInv, Exclusive, Native, Claims
<1>7. Native' = registrations' /\ registrations' = registrations
  BY <1>1, <1>2, <1>3 DEF Native
<1> QED BY <1>1, <1>4, <1>5, <1>6, <1>7, FinishStep

LEMMA RollbackFailedStep == ASSUME RInv, RollbackFailed PROVE RInv'
<1>1. /\ pc = "restore" /\ \A o \in removed : removalStarted => native[o] # "pending"
      /\ BeginFailClosed(canceled)
      /\ UNCHANGED <<pageVars, status, wanted, published, history, tool, uses>>
  BY DEF RollbackFailed
<1>2. \A o \in Objects : ~(native[o] = "pending" /\ ~aborted[o])
  BY <1>1 DEF RInv, Exclusive, Waiting
<1> QED BY <1>1, <1>2, FailClosedStep

LEMMA FailClosedEndsStep == ASSUME RInv, FailClosed PROVE RInv'
<1>1. /\ pc = "failClosed" /\ AbortSignals(snapshot \cup staged)
      /\ registered' = Put(registered, snapshot \cup staged, FALSE)
      /\ registrations' = {} /\ Finish /\ TellFailure
      /\ UNCHANGED <<pageVars, wanted, published, history, tool, accepting, quarantined, uses>>
  BY DEF FailClosed
<1>2. ObjectTypes /\ snapshot \cup staged \in SUBSET Objects
  BY DEF RInv, ObjectTypes
<1>3. /\ aborted' \in [Objects -> BOOLEAN] /\ native' \in [Objects -> Natives]
      /\ \A o \in Objects : aborted'[o] = (o \in snapshot \cup staged \/ aborted[o])
      /\ \A o \in Objects : native'[o] =
           IF o \in snapshot \cup staged /\ native[o] = "active" THEN "none" ELSE native[o]
  BY <1>1, <1>2, AbortMoves
<1>4. status' \in [Leases -> Phases] /\ (lease # 0 => status'[lease] # "ready")
  BY <1>1, TellsNoReadiness
<1>5. ObjectTypes'
  <2>1. registered' \in [Objects -> BOOLEAN]
    BY <1>1, <1>2 DEF ObjectTypes, Put
  <2> QED BY <1>1, <1>2, <1>3, <2>1 DEF ObjectTypes, uses, Finish
<1>6. Exclusive'
  <2>1. Native' \subseteq Native
    BY <1>3 DEF Native
  <2>2. \A m, n \in Native' : NameOf[tool[m]] = NameOf[tool[n]] => m = n
    BY <2>1 DEF RInv, Exclusive
  <2>3. \A o \in Objects : ~(native'[o] = "pending" /\ ~aborted'[o])
    BY <1>1, <1>3 DEF RInv, Exclusive, Waiting
  <2>4. staged' = {}
    BY <1>1 DEF Finish
  <2> QED BY <1>1, <2>2, <2>3, <2>4 DEF Exclusive
<1>7. registrations' \subseteq registrations /\ ~Admitted'
  BY <1>1 DEF Admitted
<1> QED BY <1>1, <1>4, <1>5, <1>6, <1>7, FinishStep

-----------------------------------------------------------------------------
LEMMA RegistryStep == RInv /\ [Next]_vars => RInv'
<1> SUFFICES ASSUME RInv, [Next]_vars PROVE RInv'
  OBVIOUS
<1>1. ASSUME NEW c \in Catalogs, Acquire(c) PROVE RInv'
  BY <1>1, AcquireStep
<1>2. ASSUME NEW l \in Leases, GiveUp(l) PROVE RInv'
  BY <1>2, GiveUpStep
<1>3. CASE Manager
  <2>1. CASE Reconcile \/ Quiesced \/ Registered \/ Verified \/ Publish
    BY <2>1, ReconcileStep, QuiescedStep, RegisteredStep, VerifiedStep, PublishStep
  <2>2. CASE Canceled \/ TimedOut \/ RegistrationFailed \/ DiscoveryFailed
    BY <2>2, FailStep DEF Canceled, TimedOut, RegistrationFailed, DiscoveryFailed, Failing
  <2>3. CASE RolledBack \/ RollbackFailed \/ FailClosed
    BY <2>3, RolledBackStep, RollbackFailedStep, FailClosedEndsStep
  <2> QED BY <1>3, <2>1, <2>2, <2>3 DEF Manager
<1>4. ASSUME NEW o \in Objects, NativeRegister(o) \/ QuarantineEnds(o) PROVE RInv'
  BY <1>4, NativeRegisterStep, QuarantineEndsStep
<1>5. ASSUME NEW o \in Objects,
             \/ Execute(o) \/ HandlerEnds(o) \/ HoldEnds(o)
             \/ \E g \in 1 .. generation : Hold(o, g)
      PROVE  RInv'
  BY <1>5, CallSteps
<1>6. CASE UNCHANGED vars
  <2>1. running \in [Objects -> Nat] /\ holds \in [Objects -> Nat]
    BY DEF RInv, ObjectTypes
  <2> QED BY <1>6, <2>1, UseStep DEF vars, uses, Idle
<1> QED BY <1>1, <1>2, <1>3, <1>4, <1>5, <1>6 DEF Next

LEMMA RegistryInvariant == Spec => []RInv
<1> QED BY InitRegistry, RegistryStep, PTL DEF Spec

\* Type correctness of the leases, of the transition and of the registrations.
THEOREM RegistryTypes == Spec => [](PageTypes /\ ObjectTypes)
<1>1. RInv => PageTypes /\ ObjectTypes
  BY DEF RInv
<1> QED BY <1>1, RegistryInvariant, PTL

\* When the newest lease was told ready and nothing is under way, the browser shows
\* exactly its tools and all of them are admitted, whatever was superseded, withdrawn,
\* rolled back or quarantined before (catalogIsUnchanged, verifyDiscovery).
THEOREM ReadyIsExact == Spec => []ReadyMeansExact
<1>1. RInv => ReadyMeansExact
  BY DEF RInv, Notified
<1> QED BY <1>1, RegistryInvariant, PTL

\* A name never stands for two tools in any two catalogs the page ever showed, whoever
\* asked for them and whatever was withdrawn in between (contextFingerprints).
THEOREM IdentityHolds == Spec => []ToolIdentityStable
<1>1. RInv => ToolIdentityStable
  BY DEF RInv, Identity, Named, ToolIdentityStable
<1> QED BY <1>1, RegistryInvariant, PTL

-----------------------------------------------------------------------------
(* Whoever holds a registration keeps it. *)

LEMMA InUse ==
  ASSUME ObjectTypes, NEW o \in Objects,
         (running[o] > 0 /\ running'[o] > 0) \/ (holds[o] > 0 /\ holds'[o] > 0)
  PROVE  ~Idle(o)
<1>1. running[o] \in Nat /\ holds[o] \in Nat
  BY DEF ObjectTypes
<1> QED BY <1>1 DEF Idle

LEMMA KeptUnderAbort ==
  ASSUME ObjectTypes, NEW S \in SUBSET Objects, AbortSignals(S), \A n \in S : Idle(n),
         NEW o \in Objects, ~Idle(o), native[o] = "active"
  PROVE  native'[o] = "active"
BY AbortMoves

LEMMA KeptUnderFailure ==
  ASSUME RInv, Failing, NEW error, Fail(error),
         NEW o \in Objects, ~Idle(o), native[o] = "active"
  PROVE  native'[o] = "active"
<1>1. CASE UNCHANGED native
  BY <1>1
<1>2. CASE BeginRollback(error)
  <2> DEFINE restored == IF removalStarted THEN removed ELSE {}
  <2>1. native' = Put(Put(native, staged \cap Native, "none"), restored, "pending")
    BY <1>2 DEF BeginRollback
  <2>2. o \notin staged /\ o \notin restored
    BY DEF RInv, Unused, Shape, Failing
  <2> HIDE DEF restored
  <2> QED BY <2>1, <2>2 DEF Put
<1> QED BY <1>1, <1>2 DEF Fail, Quarantine, BeginFailClosed

LEMMA HeldStep ==
  ASSUME RInv, Next, NEW o \in Objects, ~Idle(o), native[o] = "active"
  PROVE  native'[o] = "active"
<1>1. ObjectTypes /\ staged \in SUBSET Objects /\ (\A n \in staged : Idle(n))
  BY DEF RInv, ObjectTypes, Unused
<1>2. ASSUME Supersede \/ UNCHANGED native PROVE native'[o] = "active"
  BY <1>1, <1>2, KeptUnderAbort DEF Supersede
<1>3. ASSUME NEW c \in Catalogs, Acquire(c) PROVE native'[o] = "active"
  BY <1>2, <1>3 DEF Acquire
<1>4. ASSUME NEW l \in Leases, GiveUp(l) PROVE native'[o] = "active"
  BY <1>2, <1>4 DEF GiveUp
<1>5. CASE Reconcile \/ Verified \/ Publish \/ RolledBack \/ RollbackFailed
  <2>1. UNCHANGED native
    BY <1>5 DEF Reconcile, Verified, Publish, RolledBack, RollbackFailed, BeginFailClosed, objects
  <2> QED BY <2>1
<1>6. CASE Quiesced
  <2>1. o \in Objects \ Free
    BY DEF Free
  <2> QED BY <1>6, <2>1, NewObjects
<1>7. CASE Registered
  <2>1. removed \in SUBSET Objects /\ (\A n \in removed : Idle(n)) /\ AbortSignals(removed)
    BY <1>7 DEF Registered, RInv, ObjectTypes, Unused, Shape
  <2> QED BY <1>1, <2>1, KeptUnderAbort
<1>8. CASE Canceled \/ TimedOut \/ RegistrationFailed \/ DiscoveryFailed
  BY <1>8, KeptUnderFailure DEF Canceled, TimedOut, RegistrationFailed, DiscoveryFailed, Failing
<1>9. CASE FailClosed
  <2>1. /\ snapshot \cup staged \in SUBSET Objects /\ AbortSignals(snapshot \cup staged)
        /\ \A n \in snapshot \cup staged : Idle(n)
    BY <1>1, <1>9 DEF FailClosed, ObjectTypes
  <2> QED BY <1>1, <2>1, KeptUnderAbort
<1>10. ASSUME NEW n \in Objects, NativeRegister(n) PROVE native'[o] = "active"
  <2>1. n # o
    BY <1>10, AnswerMoves
  <2> QED BY <1>10, <2>1, AnswerMoves
<1>11. ASSUME NEW n \in Objects, QuarantineEnds(n) PROVE native'[o] = "active"
  <2>1. {n} \in SUBSET Objects /\ (\A x \in {n} : Idle(x)) /\ AbortSignals({n})
    BY <1>11 DEF QuarantineEnds
  <2> QED BY <1>1, <2>1, KeptUnderAbort
<1>12. ASSUME NEW n \in Objects,
              \/ Execute(n) \/ HandlerEnds(n) \/ HoldEnds(n)
              \/ \E g \in 1 .. generation : Hold(n, g)
       PROVE  native'[o] = "active"
  <2>1. UNCHANGED native
    BY <1>12 DEF Execute, HandlerEnds, HoldEnds, Hold, objects
  <2> QED BY <2>1
<1> QED BY <1>3, <1>4, <1>5, <1>6, <1>7, <1>8, <1>9, <1>10, <1>11, <1>12 DEF Next, Manager

\* While a handler runs or a consumer waits for its result, no step of the manager, not
\* even one that fails, is superseded or runs out of time, takes the registration away
\* (waitUntilIdle, holdConsumerCall).
THEOREM HeldKeepsRegistration == Spec => HeldStaysRegistered
<1>1. RInv /\ [Next]_vars =>
        [\A o \in Objects :
           /\ (running[o] > 0 /\ running'[o] > 0) \/ (holds[o] > 0 /\ holds'[o] > 0)
           /\ native[o] = "active"
           => native'[o] = "active"]_vars
  <2> SUFFICES ASSUME RInv, Next, NEW o \in Objects, native[o] = "active",
                      (running[o] > 0 /\ running'[o] > 0) \/ (holds[o] > 0 /\ holds'[o] > 0)
               PROVE  native'[o] = "active"
    OBVIOUS
  <2>1. ~Idle(o)
    BY InUse DEF RInv
  <2> QED BY <2>1, HeldStep
<1> QED BY <1>1, RegistryInvariant, PTL DEF Spec, HeldStaysRegistered

=============================================================================
