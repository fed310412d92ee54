--------------------------- MODULE OwnerTabsProofs ---------------------------
(***************************************************************************)
(* Proofs about the owner's tabs, for every set of tabs, cases and         *)
(* handoffs, and any bounds on what a behaviour may use.                   *)
(***************************************************************************)
EXTENDS OwnerTabs, FiniteSetTheorems, SequenceTheorems, TLAPS

Pages == {"closed", "away", "loading", "asking", "refused", "workspace", "source"}
Asks == {"none", "asked", "granted", "denied"}
Modes == {"regression", "continuous"}
States == {"ISSUED", "STARTED", "SETTLED", "TIMED_OUT", "REVOKED"}
Phases == {"unused", "sent", "ready", "failed", "linked"}
Entries == [case : Cases, verdict : Verdicts, of : Handoffs]
Queues == [mode : Modes, plan : Seq(Cases), done : Seq(Entries)]
Stores == [suite : SUBSET Cases, queue : Queues \cup {None}, run : Handoffs \cup {0},
           link : Handoffs \cup {0}]
Selections == [suite : SUBSET Cases, plan : Seq(Cases), mode : Modes]
Saves == [suite : SUBSET Cases, armed : BOOLEAN]
Arms == [step : {"idle", "measure", "save", "post"}, suite : SUBSET Cases, plan : Seq(Cases),
         mode : Modes \cup {None}, run : Handoffs \cup {0}]
Works == [suite : SUBSET Cases, queue : Queues \cup {None}, review : BOOLEAN,
          selection : Selections \cup {None}, saves : Seq(Saves), arm : Arms]
Watchings ==
  [run : Handoffs, link : Handoffs, plan : Seq(Cases), fails : Nat, state : States \cup {None},
   refused : BOOLEAN, seen : Seq(Verdicts), complete : BOOLEAN, verdict : Verdicts \cup {None},
   over : {"no", "stop", "error"}]
Hands ==
  [phase : Phases, plan : Seq(Cases), mode : Modes \cup {None}, state : States \cup {None},
   results : Seq(Verdicts), refused : BOOLEAN, opened : BOOLEAN, gone : BOOLEAN]
Reports == [run : Handoffs, plan : Seq(Cases), results : Seq(Verdicts)]

TypeOK ==
  /\ page \in [Tabs -> Pages] /\ store \in [Tabs -> Stores]
  /\ work \in [Tabs -> Works \cup {None}] /\ watch \in [Tabs -> Watchings \cup {None}]
  /\ report \in [Tabs -> Reports \cup {None}] /\ hand \in [Handoffs -> Hands]
  /\ lock \in (Tabs \X Kinds) \cup {None} /\ ask \in [Tabs -> [Kinds -> Asks]]
  /\ bound \in Bounds /\ edits \in Nat /\ moves \in Nat /\ faults \in Nat

-----------------------------------------------------------------------------
(* The lock.                                                                *)

\* A grant is the lock, and only a workspace that is asking waits for its answer.
Locked ==
  /\ OneWorkspace
  /\ \A t \in Tabs, k \in Kinds : ask[t][k] = "granted" => lock = <<t, k>>
  /\ \A t \in Tabs : ask[t]["page"] # "none" => page[t] = "asking"

-----------------------------------------------------------------------------
(* What a tab keeps of a run, against the runs as the server knows them.    *)

Used(hd, h) == hd[h].phase # "unused"
Ended(x) ==
  \/ x.mode = "continuous" /\ \E i \in DOMAIN x.results : x.results[i] # "pass"
  \/ Len(x.results) = Len(x.plan)

HandFits(x) ==
  /\ x \in Hands
  /\ x.phase = "unused" => x.state = "ISSUED" /\ x.results = <<>>
  /\ x.phase # "unused" => Len(x.plan) > 0
  /\ x.phase # "unused" /\ x.state \notin {"SETTLED", "TIMED_OUT"} => ~Ended(x)
  /\ Len(x.results) <= Len(x.plan)

EntryFits(d, hd) ==
  /\ Used(hd, d.of) /\ hd[d.of].results # <<>>
  /\ d.case = hd[d.of].plan[1] /\ d.verdict = hd[d.of].results[1]
QueueFits(q, hd) == q # None => \A i \in DOMAIN q.done : EntryFits(q.done[i], hd)

StoreFits(s, hd) ==
  /\ s \in Stores /\ QueueFits(s.queue, hd)
  /\ s.run # 0 => Used(hd, s.run)
  /\ s.link # 0 => Used(hd, s.link)

\* At most one of the saves that wait is the prepare's own.
SavesFit(sv, step) ==
  /\ \A i \in DOMAIN sv : sv[i].armed => step = "save"
  /\ \A i, j \in DOMAIN sv : sv[i].armed /\ sv[j].armed => i = j

WorkFits(k, hd) ==
  /\ k \in Works /\ QueueFits(k.queue, hd)
  /\ k.review => k.selection \in Selections /\ Len(k.selection.plan) > 0
  /\ k.arm.step # "idle" => k.arm.mode \in Modes /\ Len(k.arm.plan) > 0
  /\ k.arm.step = "post" => k.arm.run \in Handoffs /\ Used(hd, k.arm.run)
  /\ SavesFit(k.saves, k.arm.step)

WatchFits(w, hd) ==
  /\ w \in Watchings /\ Used(hd, w.run) /\ Used(hd, w.link)
  /\ IsPrefix(w.seen, hd[w.run].results)
  /\ w.verdict # None => hd[w.run].results # <<>> /\ w.verdict = hd[w.run].results[1]
  /\ w.complete => Ended(hd[w.run]) /\ w.seen = hd[w.run].results

ReportFits(r, hd) ==
  /\ r \in Reports /\ Used(hd, r.run) /\ Ended(hd[r.run])
  /\ r.plan = hd[r.run].plan /\ r.results = hd[r.run].results

TabFits(p, s, k, w, r, hd) ==
  /\ StoreFits(s, hd)
  /\ p = "workspace" => WorkFits(k, hd) /\ (k.arm.step = "post" => s.run # 0)
  /\ p = "source" => WatchFits(w, hd) /\ HasSource(s)
  /\ r # None => ReportFits(r, hd)

HandsFit == \A h \in Handoffs : HandFits(hand[h])
TabsFit == \A t \in Tabs : TabFits(page[t], store[t], work[t], watch[t], report[t], hand)

\* The inductive invariant.
IInv == TypeOK /\ Locked /\ HandsFit /\ TabsFit

-----------------------------------------------------------------------------
(* Sequences, and the values the pages compute from them.                   *)

LEMMA ConstantTypes ==
  /\ First \in Tabs /\ Handoffs \subseteq Nat \ {0} /\ Cases \subseteq Nat
  /\ IsFiniteSet(Cases) /\ Bounds \subseteq Bound /\ None \notin Tabs \X Kinds
  /\ None \notin States
  /\ "page" \in Kinds /\ "left" \in Kinds
BY OwnerAssumption DEF Kinds, States

\* A prefix stays one as the sequence grows, and shares its first element.
LEMMA PrefixSelf ==
  ASSUME NEW S, NEW s \in Seq(S) PROVE IsPrefix(<<>>, s) /\ IsPrefix(s, s)
BY DEF IsPrefix

LEMMA PrefixAppend ==
  ASSUME NEW S, NEW s \in Seq(S), NEW e \in S PROVE IsPrefix(s, Append(s, e))
BY DEF IsPrefix

LEMMA PrefixHead ==
  ASSUME NEW S, NEW s \in Seq(S), NEW r \in Seq(S), IsPrefix(r, s), r # <<>>
  PROVE  s # <<>> /\ s[1] = r[1]
BY DEF IsPrefix

LEMMA PrefixTrans ==
  ASSUME NEW S, NEW s \in Seq(S), NEW r \in Seq(S), NEW q \in Seq(S),
         IsPrefix(q, r), IsPrefix(r, s)
  PROVE  IsPrefix(q, s)
BY DEF IsPrefix

\* Every rank is that of one member of a finite set of numbers.
LEMMA Ranked ==
  ASSUME NEW A \in SUBSET Nat, IsFiniteSet(A), NEW k \in 1 .. Cardinality(A)
  PROVE  \E i \in A : Cardinality({j \in A : j <= i}) = k
<1> DEFINE Upto(i) == {j \in A : j <= i}
           n == Cardinality(A)
           f == [i \in A |-> Cardinality(Upto(i))]
<1>1. n \in Nat
  BY FS_CardinalityType
<1>2. \A i \in A : Upto(i) \in SUBSET A /\ IsFiniteSet(Upto(i)) /\ i \in Upto(i)
  BY FS_Subset
<1>3. \A i \in A : Cardinality(Upto(i)) \in 1 .. n
  <2> SUFFICES ASSUME NEW i \in A PROVE Cardinality(Upto(i)) \in 1 .. n
    OBVIOUS
  <2>1. Cardinality(Upto(i)) \in Nat /\ Cardinality(Upto(i)) <= n
    BY <1>2, FS_Subset, FS_CardinalityType
  <2>2. Cardinality(Upto(i)) # 0
    BY <1>2, FS_EmptySet
  <2> QED  BY <2>1, <2>2, <1>1
<1>4. ASSUME NEW i \in A, NEW j \in A, i < j PROVE Cardinality(Upto(i)) # Cardinality(Upto(j))
  <2>1. Upto(i) \in SUBSET Upto(j) /\ j \notin Upto(i)
    <3>1. \A x \in A : x <= i => x <= j
      BY <1>4
    <3>2. ~(j <= i)
      BY <1>4
    <3> QED  BY <3>1, <3>2
  <2>2. Upto(i) # Upto(j)
    BY <2>1, <1>2
  <2> QED  BY <2>1, <2>2, <1>2, FS_Subset
<1>5. f \in Injection(A, 1 .. n)
  <2>1. f \in [A -> 1 .. n]
    BY <1>3
  <2>2. ASSUME NEW i \in A, NEW j \in A, i # j PROVE f[i] # f[j]
    <3>1. i < j \/ j < i
      BY <2>2
    <3>2. Cardinality(Upto(i)) # Cardinality(Upto(j))
      BY <3>1, <1>4
    <3> QED  BY <3>2
  <2> QED  BY <2>1, <2>2 DEF Injection, IsInjective
<1>6. IsFiniteSet(1 .. n) /\ Cardinality(1 .. n) = n
  BY <1>1, FS_Interval
<1>7. f \in Surjection(A, 1 .. n)
  BY <1>5, <1>6, FS_Injection
<1> QED  BY <1>7 DEF Surjection

\* What a source page finds of its plan is a sequence of cases.
LEMMA HeldType ==
  ASSUME NEW p \in Seq(Cases), NEW s PROVE Held(p, s) \in Seq(Cases)
<1> DEFINE at == {i \in DOMAIN p : p[i] \in s}
<1>1. at \in SUBSET Nat /\ IsFiniteSet(at) /\ Cardinality(at) \in Nat
  <2>1. DOMAIN p = 1 .. Len(p) /\ Len(p) \in Nat
    OBVIOUS
  <2>2. IsFiniteSet(DOMAIN p)
    BY <2>1, FS_Interval
  <2> QED  BY <2>1, <2>2, FS_Subset, FS_CardinalityType
<1> DEFINE place(k) == CHOOSE i \in at : Cardinality({j \in at : j <= i}) = k
<1>2. ASSUME NEW k \in 1 .. Cardinality(at) PROVE place(k) \in at
  <2> HIDE DEF at
  <2>1. \E i \in at : Cardinality({j \in at : j <= i}) = k
    BY <1>1, Ranked
  <2> QED  BY <2>1
<1>3. \A k \in 1 .. Cardinality(at) : p[place(k)] \in Cases
  <2> SUFFICES ASSUME NEW k \in 1 .. Cardinality(at) PROVE p[place(k)] \in Cases
    OBVIOUS
  <2>1. place(k) \in at
    BY <1>2
  <2> HIDE DEF place
  <2> QED  BY <2>1
<1>4. Held(p, s) = [k \in 1 .. Cardinality(at) |-> p[place(k)]]
  BY DEF Held
<1> HIDE DEF at, place
<1> QED  BY <1>1, <1>3, <1>4

\* The orders a run may have are sequences of the suite's cases.
LEMMA PlanTypes ==
  ASSUME NEW s \in SUBSET Cases, NEW m, NEW p \in Plans(s, m) PROVE p \in Seq(Cases)
<1>1. Cardinality(s) \in Nat
  BY ConstantTypes, FS_Subset, FS_CardinalityType
<1>2. p \in [1 .. Cardinality(s) -> s]
  BY DEF Plans, SetToSeqs
<1> QED  BY <1>1, <1>2

-----------------------------------------------------------------------------
(* The lock: a step that opens a document, and the steps of asking.         *)

LockState ==
  /\ page \in [Tabs -> Pages] /\ lock \in (Tabs \X Kinds) \cup {None}
  /\ ask \in [Tabs -> [Kinds -> Asks]] /\ Locked

\* Tab t shows a new document, and what the old one held or asked for is gone.
Opens(t, p) ==
  /\ page' = [page EXCEPT ![t] = p] /\ p \in {"loading", "source", "away"}
  /\ lock' = IF lock # None /\ lock[1] = t THEN None ELSE lock
  /\ ask' = [ask EXCEPT ![t] = [k \in Kinds |-> "none"]]

\* The lock has one owner, of those who were granted it.
LEMMA LockFacts ==
  ASSUME LockState
  PROVE  /\ \A t \in Tabs : In(t) => lock = <<t, "page">>
         /\ \A t \in Tabs, k \in Kinds : ask[t][k] = "granted" => lock = <<t, k>>
         /\ \A t \in Tabs : ask[t]["page"] # "none" => page[t] = "asking"
         /\ lock # None => /\ lock[1] \in Tabs /\ lock[2] \in Kinds
                           /\ lock = <<lock[1], lock[2]>>
                           /\ \/ ask[lock[1]][lock[2]] = "granted"
                              \/ lock[2] = "page" /\ In(lock[1])
BY DEF LockState, Locked, OneWorkspace

\* The same, of the next state.
LEMMA LockShape ==
  ASSUME page' \in [Tabs -> Pages], lock' \in (Tabs \X Kinds) \cup {None},
         ask' \in [Tabs -> [Kinds -> Asks]],
         \A u \in Tabs : page'[u] = "workspace" => lock' = <<u, "page">>,
         \A u \in Tabs, k \in Kinds : ask'[u][k] = "granted" => lock' = <<u, k>>,
         \A u \in Tabs : ask'[u]["page"] # "none" => page'[u] = "asking",
         lock' # None => \/ ask'[lock'[1]][lock'[2]] = "granted"
                         \/ lock'[2] = "page" /\ page'[lock'[1]] = "workspace"
  PROVE  LockState'
BY DEF LockState, Locked, OneWorkspace, In

LEMMA OpensKeepsLock ==
  ASSUME LockState, NEW t \in Tabs, NEW p, Opens(t, p) PROVE LockState'
<1>1. \A u \in Tabs : page'[u] = IF u = t THEN p ELSE page[u]
  BY DEF Opens, LockState
<1>2. \A u \in Tabs, k \in Kinds : ask'[u][k] = IF u = t THEN "none" ELSE ask[u][k]
  BY DEF Opens, LockState
<1>3. page' \in [Tabs -> Pages] /\ ask' \in [Tabs -> [Kinds -> Asks]]
  BY DEF Opens, LockState, Pages, Asks
<1>4. lock' \in (Tabs \X Kinds) \cup {None}
  BY DEF Opens, LockState
<1>5. ASSUME NEW u \in Tabs, NEW k \in Kinds, lock = <<u, k>> PROVE u # t => lock' = lock
  BY <1>5 DEF Opens
<1>6. \A u \in Tabs : page'[u] = "workspace" => lock' = <<u, "page">>
  BY <1>1, <1>5, LockFacts, ConstantTypes DEF In, Opens
<1>7. \A u \in Tabs, k \in Kinds : ask'[u][k] = "granted" => lock' = <<u, k>>
  BY <1>2, <1>5, LockFacts
<1>8. \A u \in Tabs : ask'[u]["page"] # "none" => page'[u] = "asking"
  BY <1>1, <1>2, LockFacts, ConstantTypes
<1>9. lock' # None => \/ ask'[lock'[1]][lock'[2]] = "granted"
                      \/ lock'[2] = "page" /\ page'[lock'[1]] = "workspace"
  <2> SUFFICES ASSUME lock' # None
               PROVE  \/ ask'[lock'[1]][lock'[2]] = "granted"
                      \/ lock'[2] = "page" /\ page'[lock'[1]] = "workspace"
    OBVIOUS
  <2>1. lock' = lock /\ lock # None /\ lock[1] # t
    BY DEF Opens
  <2>2. lock[1] \in Tabs /\ lock[2] \in Kinds
    BY <2>1, LockFacts
  <2>3. ask'[lock[1]][lock[2]] = ask[lock[1]][lock[2]] /\ page'[lock[1]] = page[lock[1]]
    BY <2>1, <2>2, <1>1, <1>2
  <2> QED  BY <2>1, <2>2, <2>3, LockFacts DEF In
<1> QED
  BY <1>3, <1>4, <1>6, <1>7, <1>8, <1>9, LockShape

LEMMA LockUnchanged ==
  ASSUME LockState, UNCHANGED <<page, lock, ask>> PROVE LockState'
BY DEF LockState, Locked, OneWorkspace, In

LEMMA LoadKeepsLock ==
  ASSUME LockState, NEW t \in Tabs, Load(t) PROVE LockState'
<1>1. \A u \in Tabs : page'[u] = IF u = t THEN "asking" ELSE page[u]
  BY DEF Load, LockState
<1>2. \A u \in Tabs, k \in Kinds :
        ask'[u][k] = IF u = t /\ k = "page" THEN "asked" ELSE ask[u][k]
  BY DEF Load, LockState, Kinds
<1>3. page' \in [Tabs -> Pages] /\ ask' \in [Tabs -> [Kinds -> Asks]]
  BY DEF Load, LockState, Pages, Asks, Kinds
<1>4. lock' = lock /\ lock \in (Tabs \X Kinds) \cup {None} /\ page[t] = "loading"
  BY DEF Load, LockState
<1>5. \A u \in Tabs : page'[u] = "workspace" => lock' = <<u, "page">>
  BY <1>1, <1>4, LockFacts DEF In
<1>6. \A u \in Tabs, k \in Kinds : ask'[u][k] = "granted" => lock' = <<u, k>>
  BY <1>2, <1>4, LockFacts
<1>7. \A u \in Tabs : ask'[u]["page"] # "none" => page'[u] = "asking"
  BY <1>1, <1>2, LockFacts, ConstantTypes
<1>8. lock' # None => \/ ask'[lock'[1]][lock'[2]] = "granted"
                      \/ lock'[2] = "page" /\ page'[lock'[1]] = "workspace"
  <2> SUFFICES ASSUME lock # None
               PROVE  \/ ask'[lock[1]][lock[2]] = "granted"
                      \/ lock[2] = "page" /\ page'[lock[1]] = "workspace"
    BY <1>4
  <2>1. lock[1] \in Tabs /\ lock[2] \in Kinds
    BY LockFacts
  <2>2. CASE ask[lock[1]][lock[2]] = "granted"
    <3>1. ~(lock[1] = t /\ lock[2] = "page")
      BY <1>4, <2>2, LockFacts, ConstantTypes
    <3> QED  BY <2>1, <2>2, <3>1, <1>2
  <2>3. CASE lock[2] = "page" /\ page[lock[1]] = "workspace"
    BY <2>1, <2>3, <1>1, <1>4
  <2> QED  BY <2>2, <2>3, LockFacts DEF In
<1> QED  BY <1>3, <1>4, <1>5, <1>6, <1>7, <1>8, LockShape

LEMMA DecideKeepsLock ==
  ASSUME LockState, NEW t \in Tabs, NEW k \in Kinds, Decide(t, k) PROVE LockState'
<1>1. page' = page /\ page \in [Tabs -> Pages] /\ ask[t][k] = "asked"
  BY DEF Decide, LockState
<1>2. PICK a \in {"granted", "denied"} :
        /\ ask' = [ask EXCEPT ![t][k] = a]
        /\ \/ a = "granted" /\ lock = None /\ lock' = <<t, k>>
           \/ a = "denied" /\ lock # None /\ lock' = lock
  BY DEF Decide
<1>3. \A u \in Tabs, l \in Kinds : ask'[u][l] = IF u = t /\ l = k THEN a ELSE ask[u][l]
  BY <1>2 DEF LockState
<1>4. ask' \in [Tabs -> [Kinds -> Asks]]
  BY <1>2 DEF LockState, Asks
<1>5. lock' \in (Tabs \X Kinds) \cup {None}
  BY <1>2 DEF LockState
<1>6. lock = None => \A u \in Tabs : page[u] # "workspace" /\ \A l \in Kinds : ask[u][l] # "granted"
  BY LockFacts, ConstantTypes DEF In
<1>7. \A u \in Tabs : page'[u] = "workspace" => lock' = <<u, "page">>
  BY <1>1, <1>2, <1>6, LockFacts DEF In
<1>8. \A u \in Tabs, l \in Kinds : ask'[u][l] = "granted" => lock' = <<u, l>>
  BY <1>2, <1>3, <1>6, LockFacts
<1>9. \A u \in Tabs : ask'[u]["page"] # "none" => page'[u] = "asking"
  BY <1>1, <1>3, LockFacts, ConstantTypes
<1>10. lock' # None => \/ ask'[lock'[1]][lock'[2]] = "granted"
                       \/ lock'[2] = "page" /\ page'[lock'[1]] = "workspace"
  <2>1. CASE a = "granted"
    BY <2>1, <1>2, <1>3
  <2>2. CASE a = "denied"
    <3>1. lock' = lock /\ lock # None
      BY <2>2, <1>2
    <3>2. lock[1] \in Tabs /\ lock[2] \in Kinds
      BY <3>1, LockFacts
    <3>3. CASE ask[lock[1]][lock[2]] = "granted"
      <4>1. ~(lock[1] = t /\ lock[2] = k)
        BY <3>3, <1>1
      <4> QED  BY <3>1, <3>2, <3>3, <4>1, <1>3
    <3>4. CASE lock[2] = "page" /\ page[lock[1]] = "workspace"
      BY <3>1, <3>4, <1>1
    <3> QED  BY <3>1, <3>3, <3>4, LockFacts DEF In
  <2> QED  BY <2>1, <2>2
<1> QED  BY <1>1, <1>4, <1>5, <1>7, <1>8, <1>9, <1>10, LockShape

LEMMA EnterKeepsLock ==
  ASSUME LockState, NEW t \in Tabs, Enter(t) PROVE LockState'
<1>1. lock' = lock /\ page[t] = "asking" /\ ask[t]["page"] \in {"granted", "denied"}
  BY DEF Enter
<1>2. PICK p \in {"workspace", "refused"} :
        page' = [page EXCEPT ![t] = p] /\ (p = "workspace" => ask[t]["page"] = "granted")
                                       /\ (p = "refused" => ask[t]["page"] = "denied")
  BY DEF Enter
<1>3. \A u \in Tabs : page'[u] = IF u = t THEN p ELSE page[u]
  BY <1>2 DEF LockState
<1>4. \A u \in Tabs, k \in Kinds :
        ask'[u][k] = IF u = t /\ k = "page" THEN "none" ELSE ask[u][k]
  BY DEF Enter, LockState, Kinds
<1>5. page' \in [Tabs -> Pages] /\ ask' \in [Tabs -> [Kinds -> Asks]]
  BY <1>2 DEF Enter, LockState, Pages, Asks, Kinds
<1>6. lock' \in (Tabs \X Kinds) \cup {None}
  BY <1>1 DEF LockState
<1>7. p = "workspace" => lock = <<t, "page">>
  BY <1>2, LockFacts, ConstantTypes
<1>8. \A u \in Tabs : page'[u] = "workspace" => lock' = <<u, "page">>
  BY <1>1, <1>3, <1>7, LockFacts DEF In
<1>9. \A u \in Tabs, k \in Kinds : ask'[u][k] = "granted" => lock' = <<u, k>>
  BY <1>1, <1>4, LockFacts
<1>10. \A u \in Tabs : ask'[u]["page"] # "none" => page'[u] = "asking"
  BY <1>3, <1>4, LockFacts, ConstantTypes
<1>11. lock' # None => \/ ask'[lock'[1]][lock'[2]] = "granted"
                       \/ lock'[2] = "page" /\ page'[lock'[1]] = "workspace"
  <2> SUFFICES ASSUME lock # None
               PROVE  \/ ask'[lock[1]][lock[2]] = "granted"
                      \/ lock[2] = "page" /\ page'[lock[1]] = "workspace"
    BY <1>1
  <2>1. lock[1] \in Tabs /\ lock[2] \in Kinds /\ lock = <<lock[1], lock[2]>>
    BY LockFacts
  <2>2. CASE lock[1] = t /\ lock[2] = "page"
    <3>1. ask[t]["page"] = "granted"
      BY <2>2, <1>1, LockFacts DEF In
    <3> QED  BY <2>2, <3>1, <1>2, <1>3
  <2>3. CASE ~(lock[1] = t /\ lock[2] = "page") /\ ask[lock[1]][lock[2]] = "granted"
    BY <2>1, <2>3, <1>4
  <2>4. CASE lock[1] # t /\ lock[2] = "page" /\ page[lock[1]] = "workspace"
    BY <2>1, <2>4, <1>3
  <2> QED  BY <2>2, <2>3, <2>4, LockFacts DEF In
<1> QED  BY <1>5, <1>6, <1>8, <1>9, <1>10, <1>11, LockShape

LEMMA LateAnswerKeepsLock ==
  ASSUME LockState, NEW t \in Tabs, AfterLeave(t) PROVE LockState'
<1>1. page' = page /\ page \in [Tabs -> Pages] /\ ask[t]["left"] \in {"granted", "denied"}
  BY DEF AfterLeave, LockState
<1>2. \A u \in Tabs, k \in Kinds :
        ask'[u][k] = IF u = t /\ k = "left" THEN "none" ELSE ask[u][k]
  BY DEF AfterLeave, LockState, Kinds
<1>3. ask' \in [Tabs -> [Kinds -> Asks]]
  BY DEF AfterLeave, LockState, Asks, Kinds
<1>4. lock' = IF ask[t]["left"] = "granted" THEN None ELSE lock
  BY DEF AfterLeave
<1>5. lock' \in (Tabs \X Kinds) \cup {None}
  BY <1>4 DEF LockState
<1>6. ask[t]["left"] = "granted" => lock = <<t, "left">>
  BY LockFacts, ConstantTypes
<1>7. \A u \in Tabs : page'[u] = "workspace" => lock' = <<u, "page">>
  <2> SUFFICES ASSUME NEW u \in Tabs, page'[u] = "workspace" PROVE lock' = <<u, "page">>
    OBVIOUS
  <2>1. lock = <<u, "page">>
    BY <1>1, LockFacts DEF In
  <2> QED  BY <2>1, <1>4, <1>6
<1>8. \A u \in Tabs, k \in Kinds : ask'[u][k] = "granted" => lock' = <<u, k>>
  <2> SUFFICES ASSUME NEW u \in Tabs, NEW k \in Kinds, ask'[u][k] = "granted"
               PROVE  lock' = <<u, k>>
    OBVIOUS
  <2>1. ask[u][k] = "granted" /\ ~(u = t /\ k = "left")
    BY <1>2
  <2>2. lock = <<u, k>>
    BY <2>1, LockFacts
  <2> QED  BY <2>1, <2>2, <1>4, <1>6
<1>9. \A u \in Tabs : ask'[u]["page"] # "none" => page'[u] = "asking"
  BY <1>1, <1>2, LockFacts, ConstantTypes
<1>10. lock' # None => \/ ask'[lock'[1]][lock'[2]] = "granted"
                       \/ lock'[2] = "page" /\ page'[lock'[1]] = "workspace"
  <2> SUFFICES ASSUME lock' # None
               PROVE  \/ ask'[lock'[1]][lock'[2]] = "granted"
                      \/ lock'[2] = "page" /\ page'[lock'[1]] = "workspace"
    OBVIOUS
  <2>1. lock' = lock /\ lock # None /\ ask[t]["left"] # "granted"
    BY <1>4
  <2>2. lock[1] \in Tabs /\ lock[2] \in Kinds
    BY <2>1, LockFacts
  <2>3. CASE ask[lock[1]][lock[2]] = "granted"
    <3>1. ~(lock[1] = t /\ lock[2] = "left")
      BY <2>1, <2>3
    <3> QED  BY <2>1, <2>2, <2>3, <3>1, <1>2
  <2>4. CASE lock[2] = "page" /\ page[lock[1]] = "workspace"
    BY <2>1, <2>4, <1>1
  <2> QED  BY <2>1, <2>3, <2>4, LockFacts DEF In
<1> QED  BY <1>1, <1>3, <1>5, <1>7, <1>8, <1>9, <1>10, LockShape

\* A workspace that is left while it asks takes its question, and the lock it may
\* already have, with it.
LEMMA LeaveKeepsLock ==
  ASSUME LockState, NEW t \in Tabs, Leave(t) PROVE LockState'
<1>1. /\ page[t] \notin {"closed", "away"} /\ ask[t]["left"] = "none"
      /\ page' = [page EXCEPT ![t] = "away"]
      /\ ask' = [ask EXCEPT ![t] = [page |-> "none", left |-> ask[t]["page"]]]
  BY DEF Leave
<1>2. lock' = IF lock # <<t, "page">> THEN lock
              ELSE IF page[t] = "asking" THEN <<t, "left">> ELSE None
  BY DEF Leave
<1>3. \A u \in Tabs : page'[u] = IF u = t THEN "away" ELSE page[u]
  BY <1>1 DEF LockState
<1>4. /\ ask'[t]["page"] = "none" /\ ask'[t]["left"] = ask[t]["page"]
      /\ \A u \in Tabs : u # t => ask'[u] = ask[u]
  BY <1>1 DEF LockState
<1>5. page' \in [Tabs -> Pages] /\ ask' \in [Tabs -> [Kinds -> Asks]]
  <2>1. [page |-> "none", left |-> ask[t]["page"]] \in [Kinds -> Asks]
    BY ConstantTypes DEF LockState, Kinds, Asks
  <2> QED  BY <2>1, <1>1 DEF LockState, Pages
<1>6. lock' \in (Tabs \X Kinds) \cup {None}
  BY <1>2, ConstantTypes DEF LockState
<1>7. ASSUME NEW u \in Tabs, NEW k \in Kinds, lock = <<u, k>>, u # t PROVE lock' = lock
  BY <1>7, <1>2
<1>8. \A u \in Tabs : page'[u] = "workspace" => lock' = <<u, "page">>
  BY <1>3, <1>7, LockFacts, ConstantTypes DEF In
<1>9. \A u \in Tabs, k \in Kinds : ask'[u][k] = "granted" => lock' = <<u, k>>
  <2> SUFFICES ASSUME NEW u \in Tabs, NEW k \in Kinds, ask'[u][k] = "granted"
               PROVE  lock' = <<u, k>>
    OBVIOUS
  <2>1. CASE u # t
    BY <2>1, <1>4, <1>7, LockFacts
  <2>2. CASE u = t
    <3>1. k = "left" /\ ask[t]["page"] = "granted"
      BY <2>2, <1>4 DEF Kinds
    <3>2. lock = <<t, "page">> /\ page[t] = "asking"
      BY <3>1, LockFacts, ConstantTypes
    <3> QED  BY <2>2, <3>1, <3>2, <1>2
  <2> QED  BY <2>1, <2>2
<1>10. \A u \in Tabs : ask'[u]["page"] # "none" => page'[u] = "asking"
  BY <1>3, <1>4, LockFacts, ConstantTypes
<1>11. lock' # None => \/ ask'[lock'[1]][lock'[2]] = "granted"
                       \/ lock'[2] = "page" /\ page'[lock'[1]] = "workspace"
  <2> SUFFICES ASSUME lock' # None
               PROVE  \/ ask'[lock'[1]][lock'[2]] = "granted"
                      \/ lock'[2] = "page" /\ page'[lock'[1]] = "workspace"
    OBVIOUS
  <2>1. CASE lock = <<t, "page">>
    <3>1. page[t] = "asking" /\ lock' = <<t, "left">>
      BY <2>1, <1>2
    <3>2. ask[t]["page"] = "granted"
      BY <2>1, <3>1, LockFacts, ConstantTypes DEF In
    <3> QED  BY <3>1, <3>2, <1>4
  <2>2. CASE lock # <<t, "page">>
    <3>1. lock' = lock /\ lock # None
      BY <2>2, <1>2
    <3>2. lock[1] \in Tabs /\ lock[2] \in Kinds /\ lock = <<lock[1], lock[2]>>
      BY <3>1, LockFacts
    <3>3. lock[1] # t
      <4>1. lock[1] = t => lock[2] = "left"
        BY <2>2, <3>2 DEF Kinds
      <4> QED  BY <4>1, <3>1, <1>1, LockFacts DEF In
    <3>4. CASE ask[lock[1]][lock[2]] = "granted"
      BY <3>1, <3>2, <3>3, <3>4, <1>4
    <3>5. CASE lock[2] = "page" /\ page[lock[1]] = "workspace"
      BY <3>1, <3>2, <3>3, <3>5, <1>3
    <3> QED  BY <3>1, <3>4, <3>5, LockFacts DEF In
  <2> QED  BY <2>1, <2>2
<1> QED  BY <1>5, <1>6, <1>8, <1>9, <1>10, <1>11, LockShape

LEMMA ReturnKeepsLock ==
  ASSUME LockState, NEW t \in Tabs, Return(t) PROVE LockState'
<1>1. page[t] = "away" /\ lock' = lock /\ ask' = ask
  BY DEF Return
<1>2. PICK p \in {"loading", "source"} : page' = [page EXCEPT ![t] = p]
  BY DEF Return
<1>3. \A u \in Tabs : page'[u] = IF u = t THEN p ELSE page[u]
  BY <1>2 DEF LockState
<1>4. /\ page' \in [Tabs -> Pages] /\ ask' \in [Tabs -> [Kinds -> Asks]]
      /\ lock' \in (Tabs \X Kinds) \cup {None}
  BY <1>1, <1>2 DEF LockState, Pages
<1>5. \A u \in Tabs : page'[u] = "workspace" <=> page[u] = "workspace"
  BY <1>1, <1>3
<1>6. \A u \in Tabs : page[u] = "asking" => page'[u] = "asking"
  BY <1>1, <1>3
<1> QED  BY <1>1, <1>4, <1>5, <1>6, LockFacts, LockShape DEF In

\* The lock and what is known of it after any step.
LEMMA LockStep ==
  ASSUME LockState, [Next]_vars PROVE LockState'
<1>1. ASSUME NEW t \in Tabs, OwnerStep(t) PROVE LockState'
  <2>1. CASE Load(t)
    BY <2>1, LoadKeepsLock
  <2>2. CASE Enter(t)
    BY <2>2, EnterKeepsLock
  <2>3. CASE AfterLeave(t)
    BY <2>3, LateAnswerKeepsLock
  <2>4. CASE Leave(t)
    BY <2>4, LeaveKeepsLock
  <2>5. CASE Return(t)
    BY <2>5, ReturnKeepsLock
  <2>6. CASE \/ Reload(t) \/ CancelSource(t) \/ RecoverFromClaimFailure(t)
             \/ ContinueRun(t) \/ FinishJourney(t) \/ ReturnToStopped(t)
    <3>1. \E p : Opens(t, p)
      BY <2>6 DEF Reload, CancelSource, RecoverFromClaimFailure, ContinueRun, FinishJourney,
                  ReturnToStopped, ToWorkspace, ToSource, Unload, Opens
    <3> QED  BY <3>1, OpensKeepsLock
  <2>7. CASE Edit(t) \/ OpenReview(t) \/ CloseReview(t) \/ Confirm(t) \/ Measured(t) \/ Saved(t)
    BY <2>7, LockUnchanged DEF Edit, OpenReview, CloseReview, Confirm, Measured, Saved
  <2>8. CASE Prepared(t)
    <3>1. (\E p : Opens(t, p)) \/ UNCHANGED <<page, lock, ask>>
      BY <2>8 DEF Prepared, ToSource, Unload, Opens
    <3> QED  BY <3>1, OpensKeepsLock, LockUnchanged
  <2> QED  BY <1>1, <2>1, <2>2, <2>3, <2>4, <2>5, <2>6, <2>7, <2>8 DEF OwnerStep
<1>2. ASSUME NEW t \in Tabs, Poll(t) PROVE LockState'
  BY <1>2, LockUnchanged DEF Poll
<1>3. ASSUME NEW t \in Tabs, NEW k \in Kinds, Decide(t, k) PROVE LockState'
  BY <1>3, DecideKeepsLock
<1>4. ASSUME NEW t \in Tabs, NEW u \in Tabs, Duplicate(t, u) PROVE LockState'
  <2>1. \E p : Opens(u, p)
    BY <1>4 DEF Duplicate, ToWorkspace, ToSource, Unload, Opens
  <2> QED  BY <2>1, OpensKeepsLock
<1>5. ASSUME NEW h \in Handoffs,
             \/ Serve(h) \/ Claim(h) \/ ClaimFails(h) \/ EndRun(h)
             \/ Advance(h) \/ IssueNext(h) \/ ClaimNext(h) \/ Expire(h)
      PROVE  LockState'
  <2>1. UNCHANGED <<page, lock, ask>>
    BY <1>5 DEF Serve, Claim, ClaimFails, EndRun, Advance, IssueNext, ClaimNext, Expire, Server, tabVars
  <2> QED  BY <2>1, LockUnchanged
<1>6. CASE UNCHANGED vars
  BY <1>6, LockUnchanged DEF vars, tabVars
<1> QED  BY <1>1, <1>2, <1>3, <1>4, <1>5, <1>6 DEF Next

-----------------------------------------------------------------------------
(* The server's side: a handoff in use keeps its plan, its results grow, and *)
(* an ended one keeps them.                                                  *)

GrowsAt(x, y) ==
  x.phase # "unused" =>
    /\ y.phase # "unused" /\ y.plan = x.plan /\ y.mode = x.mode
    /\ IsPrefix(x.results, y.results)
    /\ Ended(x) => y.results = x.results
Grows(hd, he) == \A h \in Handoffs : GrowsAt(hd[h], he[h])

LEMMA EndedIsComplete ==
  ASSUME NEW h \in Handoffs PROVE Complete(h) <=> Ended(hand[h])
BY DEF Complete, Ended

LEMMA GrowsSelf ==
  ASSUME NEW hd \in [Handoffs -> Hands] PROVE Grows(hd, hd)
<1> SUFFICES ASSUME NEW h \in Handoffs PROVE GrowsAt(hd[h], hd[h])
  BY DEF Grows
<1>1. hd[h].results \in Seq(Verdicts)
  BY DEF Hands
<1> QED  BY <1>1, PrefixSelf DEF GrowsAt

\* One handoff moves.
LEMMA HandUpdate ==
  ASSUME hand \in [Handoffs -> Hands], HandsFit, NEW h \in Handoffs, NEW x,
         hand' = [hand EXCEPT ![h] = x], HandFits(x), GrowsAt(hand[h], x)
  PROVE  hand' \in [Handoffs -> Hands] /\ HandsFit' /\ Grows(hand, hand')
<1>1. \A g \in Handoffs : hand'[g] = IF g = h THEN x ELSE hand[g]
  OBVIOUS
<1>2. hand' \in [Handoffs -> Hands]
  BY DEF HandFits
<1>3. HandsFit'
  BY <1>1 DEF HandsFit
<1>4. ASSUME NEW g \in Handoffs PROVE GrowsAt(hand[g], hand'[g])
  <2>1. Grows(hand, hand)
    BY GrowsSelf
  <2> QED  BY <2>1, <1>1 DEF Grows
<1> QED  BY <1>2, <1>3, <1>4 DEF Grows

\* A handoff whose first run is still to be had has no results.
LEMMA FirstIssued ==
  ASSUME NEW h \in Handoffs, FirstState(h) = "ISSUED"
  PROVE  hand[h].state = "ISSUED" /\ hand[h].results = <<>>
BY DEF FirstState

\* A handoff that the agent opens, runs, or sees refused or expired.
LEMMA ServerStep ==
  ASSUME hand \in [Handoffs -> Hands], HandsFit, bound \in Bounds, NEW h \in Handoffs,
         \/ Serve(h) \/ Claim(h) \/ ClaimFails(h) \/ EndRun(h)
         \/ Advance(h) \/ IssueNext(h) \/ ClaimNext(h) \/ Expire(h)
  PROVE  hand' \in [Handoffs -> Hands] /\ HandsFit' /\ Grows(hand, hand')
<1> DEFINE o == hand[h]
<1>1. o \in Hands /\ HandFits(o)
  BY DEF HandsFit
<1>2. GrowsAt(o, o)
  BY GrowsSelf DEF Grows
<1>3. ASSUME NEW x, hand' = [hand EXCEPT ![h] = x], HandFits(x), GrowsAt(o, x)
      PROVE  hand' \in [Handoffs -> Hands] /\ HandsFit' /\ Grows(hand, hand')
  BY <1>3, HandUpdate
<1>4. CASE Serve(h)
  <2>1. PICK f \in {"ready", "failed"} : hand' = [hand EXCEPT ![h] = [o EXCEPT !.phase = f]]
    BY <1>4 DEF Serve
  <2>2. o.phase = "sent"
    BY <1>4 DEF Serve
  <2>3. HandFits([o EXCEPT !.phase = f])
    BY <1>1, <2>2 DEF HandFits, Hands, Phases, Ended
  <2>4. GrowsAt(o, [o EXCEPT !.phase = f])
    BY <1>1, <1>2, <2>2 DEF GrowsAt, Hands
  <2> QED  BY <2>1, <2>3, <2>4, <1>3
<1>5. CASE Claim(h)
  <2> DEFINE x == [o EXCEPT !.state = "STARTED", !.opened = TRUE]
  <2>1. hand' = [hand EXCEPT ![h] = x] /\ FirstState(h) = "ISSUED" /\ o.phase = "linked"
    BY <1>5 DEF Claim, Server
  <2>2. o.results = <<>> /\ Len(o.plan) > 0
    BY <1>1, <2>1, FirstIssued DEF HandFits
  <2>3. ~Ended(x)
    BY <1>1, <2>2 DEF Ended, Hands
  <2>4. HandFits(x)
    BY <1>1, <2>1, <2>2, <2>3 DEF HandFits, Hands, States
  <2>5. GrowsAt(o, x)
    BY <1>1, <1>2, <2>1 DEF GrowsAt, Hands
  <2> QED  BY <2>1, <2>4, <2>5, <1>3
<1>6. CASE ClaimFails(h)
  <2> DEFINE x == [o EXCEPT !.refused = TRUE]
  <2>1. hand' = [hand EXCEPT ![h] = x]
    BY <1>6 DEF ClaimFails, Server
  <2>2. HandFits(x)
    BY <1>1 DEF HandFits, Hands, Ended
  <2>3. GrowsAt(o, x)
    BY <1>1, <1>2 DEF GrowsAt, Hands
  <2> QED  BY <2>1, <2>2, <2>3, <1>3
<1>7. CASE EndRun(h)
  <2>1. PICK v \in Verdicts, z \in {"TIMED_OUT", "SETTLED"} :
          hand' = [hand EXCEPT ![h] = [o EXCEPT !.state = z, !.results = Append(o.results, v)]]
    <3>1. bound.verdicts \subseteq Verdicts
      BY ConstantTypes DEF Bound
    <3>2. PICK v \in bound.verdicts :
            hand' = [hand EXCEPT ![h].state = IF v = "incomplete" THEN "TIMED_OUT" ELSE "SETTLED",
                                 ![h].results = Append(@, v)]
      BY <1>7 DEF EndRun, Server
    <3>3. v \in Verdicts BY <3>1
    <3>4. CASE v = "incomplete"
      <4>1. hand' = [hand EXCEPT ![h] = [o EXCEPT !.state = "TIMED_OUT", !.results = Append(o.results, v)]]
        BY <3>2, <3>4
      <4> QED BY <3>3, <4>1
    <3>5. CASE v # "incomplete"
      <4>1. hand' = [hand EXCEPT ![h] = [o EXCEPT !.state = "SETTLED", !.results = Append(o.results, v)]]
        BY <3>2, <3>5
      <4> QED BY <3>3, <4>1
    <3> QED BY <3>4, <3>5
  <2> DEFINE x == [o EXCEPT !.state = z, !.results = Append(o.results, v)]
  <2>2. o.state = "STARTED" /\ o.phase = "linked" /\ ~Ended(o)
    BY <1>1, <1>7 DEF EndRun, Server, HandFits
  <2>3. Len(o.results) < Len(o.plan)
    BY <1>1, <2>2 DEF HandFits, Hands, Ended
  <2>4. /\ x \in Hands /\ x.plan = o.plan /\ x.mode = o.mode /\ x.phase = "linked" /\ x.state = z
        /\ x.results = Append(o.results, v)
    <3>1. o.results \in Seq(Verdicts) /\ z \in States
      BY <1>1 DEF Hands, States
    <3>2. Append(o.results, v) \in Seq(Verdicts)
      BY <3>1
    <3> DEFINE rs == Append(o.results, v)
    <3>3. rs \in Seq(Verdicts)
      BY <3>2
    <3> HIDE DEF rs
    <3>4. /\ [o EXCEPT !.state = z, !.results = rs] \in Hands
          /\ [o EXCEPT !.state = z, !.results = rs].plan = o.plan
          /\ [o EXCEPT !.state = z, !.results = rs].mode = o.mode
          /\ [o EXCEPT !.state = z, !.results = rs].phase = o.phase
          /\ [o EXCEPT !.state = z, !.results = rs].state = z
          /\ [o EXCEPT !.state = z, !.results = rs].results = rs
      BY <1>1, <3>1, <3>3 DEF Hands
    <3> QED  BY <3>4, <2>2 DEF rs
  <2>5. Len(x.results) <= Len(x.plan) /\ Len(x.plan) > 0
    BY <1>1, <2>3, <2>4 DEF Hands
  <2>6. HandFits(x)
    BY <2>4, <2>5 DEF HandFits
  <2>7. IsPrefix(o.results, x.results)
    BY <1>1, <2>4, PrefixAppend DEF Hands
  <2>8. GrowsAt(o, x)
    BY <2>2, <2>4, <2>7 DEF GrowsAt
  <2> QED  BY <2>1, <2>6, <2>8, <1>3
<1>8. ASSUME NEW z \in States \cup {None}, hand' = [hand EXCEPT ![h] = [o EXCEPT !.state = z]],
             ~Ended(o), o.phase = "linked"
      PROVE  hand' \in [Handoffs -> Hands] /\ HandsFit' /\ Grows(hand, hand')
  <2> DEFINE x == [o EXCEPT !.state = z]
  <2>1. hand' = [hand EXCEPT ![h] = x] /\ ~Ended(o) /\ o.phase = "linked"
    BY <1>8
  <2>2. ~Ended(x)
    BY <1>1, <2>1 DEF Ended, Hands
  <2>3. HandFits(x)
    BY <1>1, <2>1, <2>2 DEF HandFits, Hands, States
  <2>4. GrowsAt(o, x)
    BY <1>1, <1>2, <2>1 DEF GrowsAt, Hands
  <2> QED  BY <2>1, <2>3, <2>4, <1>3
<1>9. CASE Expire(h)
  <2> DEFINE x == [o EXCEPT !.gone = TRUE]
  <2>1. hand' = [hand EXCEPT ![h] = x]
    BY <1>9 DEF Expire, Server
  <2>2. HandFits(x)
    BY <1>1 DEF HandFits, Hands, Ended
  <2>3. GrowsAt(o, x)
    BY <1>1, <1>2 DEF GrowsAt, Hands
  <2> QED  BY <2>1, <2>2, <2>3, <1>3
<1>10. CASE Advance(h)
  <2>1. ~Ended(o) /\ o.phase = "linked" /\ hand' = [hand EXCEPT ![h] = [o EXCEPT !.state = None]]
    BY <1>10, EndedIsComplete DEF Advance, Server
  <2> QED  BY <2>1, <1>8
<1>11. CASE IssueNext(h)
  <2>1. o.phase = "linked" /\ o.state = None /\ hand' = [hand EXCEPT ![h] = [o EXCEPT !.state = "ISSUED"]]
    BY <1>11 DEF IssueNext, Server
  <2>2. ~Ended(o) /\ "ISSUED" \in States
    BY <1>1, <2>1, ConstantTypes DEF HandFits, States
  <2> QED  BY <2>1, <2>2, <1>8
<1>12. CASE ClaimNext(h)
  <2>1. o.phase = "linked" /\ o.state = "ISSUED" /\ hand' = [hand EXCEPT ![h] = [o EXCEPT !.state = "STARTED"]]
    BY <1>12 DEF ClaimNext, Server
  <2>2. ~Ended(o) /\ "STARTED" \in States
    BY <1>1, <2>1 DEF HandFits, States
  <2> QED  BY <2>1, <2>2, <1>8
<1> QED  BY <1>4, <1>5, <1>6, <1>7, <1>9, <1>10, <1>11, <1>12

-----------------------------------------------------------------------------
(* What a tab keeps stays true as the handoffs grow.                        *)

LEMMA GrowthFacts ==
  ASSUME NEW hd \in [Handoffs -> Hands], NEW he \in [Handoffs -> Hands], Grows(hd, he),
         NEW h \in Handoffs, Used(hd, h)
  PROVE  /\ Used(he, h) /\ he[h].plan = hd[h].plan
         /\ Ended(hd[h]) => Ended(he[h]) /\ he[h].results = hd[h].results
         /\ hd[h].results # <<>> => he[h].results # <<>> /\ he[h].results[1] = hd[h].results[1]
         /\ \A s \in Seq(Verdicts) :
              IsPrefix(s, hd[h].results) => IsPrefix(s, he[h].results)
<1>1. /\ he[h].phase # "unused" /\ he[h].plan = hd[h].plan /\ he[h].mode = hd[h].mode
      /\ IsPrefix(hd[h].results, he[h].results)
      /\ Ended(hd[h]) => he[h].results = hd[h].results
  BY DEF Grows, GrowsAt, Used
<1>2. hd[h].results \in Seq(Verdicts) /\ he[h].results \in Seq(Verdicts)
  BY DEF Hands
<1>3. Ended(hd[h]) => Ended(he[h])
  BY <1>1 DEF Ended
<1>4. hd[h].results # <<>> => he[h].results # <<>> /\ he[h].results[1] = hd[h].results[1]
  BY <1>1, <1>2, PrefixHead
<1>5. \A s \in Seq(Verdicts) : IsPrefix(s, hd[h].results) => IsPrefix(s, he[h].results)
  BY <1>1, <1>2, PrefixTrans
<1> QED  BY <1>1, <1>3, <1>4, <1>5 DEF Used

LEMMA QueueKept ==
  ASSUME NEW hd \in [Handoffs -> Hands], NEW he \in [Handoffs -> Hands], Grows(hd, he),
         NEW q \in Queues \cup {None}, QueueFits(q, hd)
  PROVE  QueueFits(q, he)
<1> SUFFICES ASSUME q # None, NEW i \in DOMAIN q.done PROVE EntryFits(q.done[i], he)
  BY DEF QueueFits
<1>1. q.done[i] \in Entries
  BY DEF Queues
<1> DEFINE d == q.done[i]
<1>2. d.of \in Handoffs /\ EntryFits(d, hd)
  BY <1>1 DEF Entries, QueueFits
<1> QED  BY <1>2, GrowthFacts DEF EntryFits

LEMMA StoreKept ==
  ASSUME NEW hd \in [Handoffs -> Hands], NEW he \in [Handoffs -> Hands], Grows(hd, he),
         NEW s, StoreFits(s, hd)
  PROVE  StoreFits(s, he)
<1>1. s \in Stores /\ s.queue \in Queues \cup {None} /\ QueueFits(s.queue, hd)
  BY DEF StoreFits, Stores
<1>2. s.run \in Handoffs \cup {0} /\ s.link \in Handoffs \cup {0}
  BY <1>1 DEF Stores
<1>3. QueueFits(s.queue, he)
  BY <1>1, QueueKept
<1> QED  BY <1>1, <1>2, <1>3, GrowthFacts DEF StoreFits

LEMMA WorkKept ==
  ASSUME NEW hd \in [Handoffs -> Hands], NEW he \in [Handoffs -> Hands], Grows(hd, he),
         NEW k, WorkFits(k, hd)
  PROVE  WorkFits(k, he)
<1>1. k \in Works /\ k.queue \in Queues \cup {None} /\ QueueFits(k.queue, hd)
  BY DEF WorkFits, Works
<1>2. QueueFits(k.queue, he)
  BY <1>1, QueueKept
<1>3. k.arm.step = "post" => k.arm.run \in Handoffs /\ Used(he, k.arm.run)
  BY GrowthFacts DEF WorkFits
<1> QED  BY <1>1, <1>2, <1>3 DEF WorkFits

LEMMA WatchKept ==
  ASSUME NEW hd \in [Handoffs -> Hands], NEW he \in [Handoffs -> Hands], Grows(hd, he),
         NEW w, WatchFits(w, hd)
  PROVE  WatchFits(w, he)
<1>1. w \in Watchings /\ w.run \in Handoffs /\ w.link \in Handoffs /\ w.seen \in Seq(Verdicts)
  BY DEF WatchFits, Watchings
<1>2. Used(hd, w.run) /\ Used(hd, w.link) /\ IsPrefix(w.seen, hd[w.run].results)
  BY DEF WatchFits
<1>3. Used(he, w.run) /\ Used(he, w.link) /\ IsPrefix(w.seen, he[w.run].results)
  BY <1>1, <1>2, GrowthFacts
<1>4. w.verdict # None => he[w.run].results # <<>> /\ w.verdict = he[w.run].results[1]
  BY <1>1, <1>2, GrowthFacts DEF WatchFits
<1>5. w.complete => Ended(he[w.run]) /\ w.seen = he[w.run].results
  BY <1>1, <1>2, GrowthFacts DEF WatchFits
<1> QED  BY <1>1, <1>3, <1>4, <1>5 DEF WatchFits

LEMMA ReportKept ==
  ASSUME NEW hd \in [Handoffs -> Hands], NEW he \in [Handoffs -> Hands], Grows(hd, he),
         NEW r, ReportFits(r, hd)
  PROVE  ReportFits(r, he)
<1>1. r \in Reports /\ r.run \in Handoffs /\ Used(hd, r.run) /\ Ended(hd[r.run])
  BY DEF ReportFits, Reports
<1> QED  BY <1>1, GrowthFacts DEF ReportFits

LEMMA TabKept ==
  ASSUME NEW hd \in [Handoffs -> Hands], NEW he \in [Handoffs -> Hands], Grows(hd, he),
         NEW p, NEW s, NEW k, NEW w, NEW r, TabFits(p, s, k, w, r, hd)
  PROVE  TabFits(p, s, k, w, r, he)
BY StoreKept, WorkKept, WatchKept, ReportKept DEF TabFits

-----------------------------------------------------------------------------
(* One tab moves, or only the server does.                                  *)

TabsTyped ==
  /\ page \in [Tabs -> Pages] /\ store \in [Tabs -> Stores]
  /\ work \in [Tabs -> Works \cup {None}] /\ watch \in [Tabs -> Watchings \cup {None}]
  /\ report \in [Tabs -> Reports \cup {None}]
HandsTyped == hand \in [Handoffs -> Hands] /\ HandsFit
RunState == TabsTyped /\ HandsTyped /\ TabsFit

\* Tab t now shows page p, with this storage, state and report.
Shows(t, p, s, k, w, r) ==
  /\ page' = [page EXCEPT ![t] = p] /\ store' = [store EXCEPT ![t] = s]
  /\ work' = [work EXCEPT ![t] = k] /\ watch' = [watch EXCEPT ![t] = w]
  /\ report' = [report EXCEPT ![t] = r]

LEMMA TabUpdate ==
  ASSUME RunState, HandsTyped', Grows(hand, hand'), NEW t \in Tabs,
         NEW p \in Pages, NEW s \in Stores, NEW k \in Works \cup {None},
         NEW w \in Watchings \cup {None}, NEW r \in Reports \cup {None},
         Shows(t, p, s, k, w, r), TabFits(p, s, k, w, r, hand')
  PROVE  RunState'
<1>1. TabsTyped'
  BY DEF RunState, TabsTyped, Shows
<1>2. ASSUME NEW u \in Tabs
      PROVE  TabFits(page'[u], store'[u], work'[u], watch'[u], report'[u], hand')
  <2>1. CASE u = t
    <3>1. page'[u] = p /\ store'[u] = s /\ work'[u] = k /\ watch'[u] = w /\ report'[u] = r
      BY <2>1 DEF RunState, TabsTyped, Shows
    <3> QED  BY <3>1
  <2>2. CASE u # t
    <3>1. /\ page'[u] = page[u] /\ store'[u] = store[u] /\ work'[u] = work[u]
          /\ watch'[u] = watch[u] /\ report'[u] = report[u]
      BY <2>2 DEF RunState, TabsTyped, Shows
    <3>2. TabFits(page[u], store[u], work[u], watch[u], report[u], hand)
      BY DEF RunState, TabsFit
    <3>3. TabFits(page[u], store[u], work[u], watch[u], report[u], hand')
      BY <3>2, TabKept DEF RunState, HandsTyped
    <3> QED  BY <3>1, <3>3
  <2> QED  BY <2>1, <2>2
<1>3. TabsFit'
  BY <1>2 DEF TabsFit
<1> QED  BY <1>1, <1>3 DEF RunState

LEMMA TabsUnchanged ==
  ASSUME RunState, HandsTyped', Grows(hand, hand'), UNCHANGED <<page, store, work, watch, report>>
  PROVE  RunState'
<1>1. ASSUME NEW u \in Tabs
      PROVE  TabFits(page[u], store[u], work[u], watch[u], report[u], hand')
  <2>1. TabFits(page[u], store[u], work[u], watch[u], report[u], hand)
    BY DEF RunState, TabsFit
  <2> QED  BY <2>1, TabKept DEF RunState, HandsTyped
<1>2. TabsFit'
  BY <1>1 DEF TabsFit
<1> QED  BY <1>2 DEF RunState, TabsTyped

LEMMA TabAlone ==
  ASSUME RunState, hand' = hand, NEW t \in Tabs,
         NEW p \in Pages, NEW s \in Stores, NEW k \in Works \cup {None},
         NEW w \in Watchings \cup {None}, NEW r \in Reports \cup {None},
         Shows(t, p, s, k, w, r), TabFits(p, s, k, w, r, hand)
  PROVE  RunState'
<1>1. HandsTyped' /\ Grows(hand, hand')
  BY GrowsSelf DEF RunState, HandsTyped, HandsFit
<1> QED  BY <1>1, TabUpdate

LEMMA TabFacts ==
  ASSUME RunState, NEW t \in Tabs
  PROVE  /\ page[t] \in Pages /\ store[t] \in Stores /\ work[t] \in Works \cup {None}
         /\ watch[t] \in Watchings \cup {None} /\ report[t] \in Reports \cup {None}
         /\ TabFits(page[t], store[t], work[t], watch[t], report[t], hand)
         /\ page = [page EXCEPT ![t] = page[t]] /\ store = [store EXCEPT ![t] = store[t]]
         /\ work = [work EXCEPT ![t] = work[t]] /\ watch = [watch EXCEPT ![t] = watch[t]]
         /\ report = [report EXCEPT ![t] = report[t]]
BY DEF RunState, TabsTyped, TabsFit

LEMMA FittingKeeps ==
  ASSUME NEW q \in Queues \cup {None}, NEW s, NEW hd, QueueFits(q, hd)
  PROVE  Fitting(q, s) \in Queues \cup {None} /\ QueueFits(Fitting(q, s), hd)
BY DEF Fitting, QueueFits

\* A source page begins without an answer.
LEMMA WatchingFits ==
  ASSUME NEW hd \in [Handoffs -> Hands], NEW s, StoreFits(s, hd), HasSource(s)
  PROVE  Watching(s) \in Watchings /\ WatchFits(Watching(s), hd)
<1> DEFINE plan == IF s.queue = None THEN <<>> ELSE Held(s.queue.plan, s.suite)
<1>1. s \in Stores /\ s.run \in Handoffs /\ s.link \in Handoffs /\ s.queue \in Queues \cup {None}
  BY DEF StoreFits, HasSource, Stores
<1>2. plan \in Seq(Cases)
  <2>1. CASE s.queue = None
    BY <2>1
  <2>2. CASE s.queue # None
    <3>1. s.queue.plan \in Seq(Cases)
      BY <1>1, <2>2 DEF Queues
    <3> QED  BY <2>2, <3>1, HeldType
  <2> QED  BY <2>1, <2>2
<1>3. Watching(s) = [run |-> s.run, link |-> s.link, plan |-> plan, fails |-> 0, state |-> None,
                     refused |-> FALSE, seen |-> <<>>, complete |-> FALSE, verdict |-> None,
                     over |-> "no"]
  BY DEF Watching
<1>4. <<>> \in Seq(Verdicts) /\ hd[s.run].results \in Seq(Verdicts)
  BY <1>1 DEF Hands
<1>5. IsPrefix(<<>>, hd[s.run].results)
  BY <1>4, PrefixSelf
<1> HIDE DEF plan
<1>6. Watching(s) \in Watchings
  BY <1>1, <1>2, <1>3, <1>4 DEF Watchings
<1> QED  BY <1>1, <1>3, <1>5, <1>6 DEF WatchFits, StoreFits, HasSource

LEMMA WorkspaceOpens ==
  ASSUME RunState, HandsTyped', Grows(hand, hand'), NEW t \in Tabs, NEW s, StoreFits(s, hand'),
         ToWorkspace(t, s), report' = report
  PROVE  RunState'
<1>1. Shows(t, "loading", s, None, None, report[t])
  BY TabFacts DEF ToWorkspace, Unload, NotWorking, Shows
<1>2. report[t] \in Reports \cup {None} /\ (report[t] # None => ReportFits(report[t], hand'))
  BY TabFacts, ReportKept DEF TabFits, RunState, HandsTyped
<1>3. TabFits("loading", s, None, None, report[t], hand')
  BY <1>2 DEF TabFits
<1>4. "loading" \in Pages /\ s \in Stores
  BY DEF Pages, StoreFits
<1> QED  BY <1>1, <1>2, <1>3, <1>4, TabUpdate

LEMMA SourceOpens ==
  ASSUME RunState, HandsTyped', Grows(hand, hand'), NEW t \in Tabs, NEW s, StoreFits(s, hand'),
         HasSource(s), ToSource(t, s), report' = report
  PROVE  RunState'
<1> DEFINE w == Watching(s)
<1>1. Shows(t, "source", s, None, w, report[t])
  BY TabFacts DEF ToSource, Unload, NotWorking, Shows
<1>2. report[t] \in Reports \cup {None} /\ (report[t] # None => ReportFits(report[t], hand'))
  BY TabFacts, ReportKept DEF TabFits, RunState, HandsTyped
<1>3. w \in Watchings /\ WatchFits(w, hand')
  BY WatchingFits DEF HandsTyped
<1> HIDE DEF w
<1>4. TabFits("source", s, None, w, report[t], hand')
  BY <1>2, <1>3 DEF TabFits
<1>5. "source" \in Pages /\ s \in Stores
  BY DEF Pages, StoreFits
<1> QED  BY <1>1, <1>2, <1>3, <1>4, <1>5, TabUpdate

-----------------------------------------------------------------------------
(* Documents.                                                               *)

LEMMA LoadKeeps ==
  ASSUME RunState, NEW t \in Tabs, Load(t) PROVE RunState'
<1>1. hand' = hand /\ Shows(t, "asking", store[t], work[t], watch[t], report[t])
  BY TabFacts DEF Load, Shows
<1>2. TabFits("asking", store[t], work[t], watch[t], report[t], hand)
  BY TabFacts DEF TabFits
<1> QED  BY <1>1, <1>2, TabFacts, TabAlone DEF Pages

LEMMA EnterKeeps ==
  ASSUME RunState, NEW t \in Tabs, Enter(t) PROVE RunState'
<1> DEFINE st == store[t]
           s == [st EXCEPT !.queue = Fitting(st.queue, st.suite)]
           k == Shown(st)
<1>1. hand' = hand /\ watch' = watch /\ report' = report
  BY DEF Enter
<1>2. CASE page' = [page EXCEPT ![t] = "refused"] /\ UNCHANGED <<work, store>>
  <2>1. Shows(t, "refused", store[t], work[t], watch[t], report[t])
    BY <1>1, <1>2, TabFacts DEF Shows
  <2>2. TabFits("refused", store[t], work[t], watch[t], report[t], hand)
    BY TabFacts DEF TabFits
  <2> QED  BY <1>1, <2>1, <2>2, TabFacts, TabAlone DEF Pages
<1>3. CASE /\ page' = [page EXCEPT ![t] = "workspace"] /\ work' = [work EXCEPT ![t] = k]
           /\ store' = [store EXCEPT ![t].queue = Fitting(@, store[t].suite)]
  <2> DEFINE q == Fitting(st.queue, st.suite)
  <2>1. st \in Stores /\ StoreFits(st, hand) /\ st.queue \in Queues \cup {None}
    BY TabFacts DEF TabFits, Stores
  <2>2. q \in Queues \cup {None} /\ QueueFits(q, hand)
    BY <2>1, FittingKeeps DEF StoreFits
  <2>3. Shows(t, "workspace", s, k, watch[t], report[t])
    BY <1>1, <1>3, TabFacts DEF Shows
  <2>4. k = [suite |-> st.suite, queue |-> q, review |-> FALSE, selection |-> None,
             saves |-> <<>>, arm |-> Idle]
    BY DEF Shown
  <2>5. Idle \in Arms /\ Idle.step = "idle"
    BY DEF Idle, Arms
  <2> HIDE DEF q, st, k
  <2>6. s \in Stores /\ StoreFits(s, hand)
    BY <2>1, <2>2 DEF StoreFits, Stores, q
  <2>7. <<>> \in Seq(Saves) /\ SavesFit(<<>>, "idle")
    BY DEF SavesFit
  <2>8. k \in Works
    BY <2>1, <2>2, <2>4, <2>5, <2>7 DEF Works, Stores
  <2>9. WorkFits(k, hand) /\ k.arm.step = "idle"
    BY <2>2, <2>4, <2>5, <2>7, <2>8 DEF WorkFits
  <2>10. report[t] # None => ReportFits(report[t], hand)
    BY TabFacts DEF TabFits
  <2>11. TabFits("workspace", s, k, watch[t], report[t], hand)
    BY <2>6, <2>9, <2>10 DEF TabFits
  <2> HIDE DEF s
  <2> QED  BY <1>1, <2>3, <2>6, <2>8, <2>11, TabFacts, TabAlone DEF Pages
<1> QED  BY <1>2, <1>3 DEF Enter

LEMMA LeaveKeeps ==
  ASSUME RunState, NEW t \in Tabs, Leave(t) PROVE RunState'
<1>1. hand' = hand /\ Shows(t, "away", store[t], None, None, report[t])
  BY TabFacts DEF Leave, Shows, NotWorking
<1>2. TabFits("away", store[t], None, None, report[t], hand)
  BY TabFacts DEF TabFits
<1> QED  BY <1>1, <1>2, TabFacts, TabAlone DEF Pages

LEMMA ReturnKeeps ==
  ASSUME RunState, NEW t \in Tabs, Return(t) PROVE RunState'
<1>1. hand' = hand /\ store' = store /\ work' = work /\ report' = report
  BY DEF Return
<1>2. CASE page' = [page EXCEPT ![t] = "loading"] /\ UNCHANGED watch
  <2>1. Shows(t, "loading", store[t], work[t], watch[t], report[t])
    BY <1>1, <1>2, TabFacts DEF Shows
  <2>2. TabFits("loading", store[t], work[t], watch[t], report[t], hand)
    BY TabFacts DEF TabFits
  <2> QED  BY <1>1, <2>1, <2>2, TabFacts, TabAlone DEF Pages
<1>3. CASE /\ HasSource(store[t]) /\ page' = [page EXCEPT ![t] = "source"]
           /\ watch' = [watch EXCEPT ![t] = Watching(store[t])]
  <2> DEFINE w == Watching(store[t])
  <2>1. Shows(t, "source", store[t], work[t], w, report[t])
    BY <1>1, <1>3, TabFacts DEF Shows
  <2>2. w \in Watchings /\ WatchFits(w, hand)
    BY <1>3, TabFacts, WatchingFits DEF TabFits, RunState, HandsTyped
  <2> HIDE DEF w
  <2>3. TabFits("source", store[t], work[t], w, report[t], hand)
    BY <1>3, <2>2, TabFacts DEF TabFits
  <2> QED  BY <1>1, <2>1, <2>2, <2>3, TabFacts, TabAlone DEF Pages
<1> QED  BY <1>2, <1>3 DEF Return

\* A reloaded or duplicated document begins from the storage there is.
LEMMA DocumentKeeps ==
  ASSUME RunState, NEW t \in Tabs, NEW u \in Tabs, UNCHANGED <<report, hand>>,
         IF page[t] = "source" THEN ToSource(u, store[t]) ELSE ToWorkspace(u, store[t])
  PROVE  RunState'
<1>1. HandsTyped' /\ Grows(hand, hand') /\ StoreFits(store[t], hand')
  BY TabFacts, GrowsSelf DEF RunState, HandsTyped, HandsFit, TabFits
<1>2. page[t] = "source" => HasSource(store[t])
  BY TabFacts DEF TabFits
<1>3. report' = report
  OBVIOUS
<1> QED  BY <1>1, <1>2, <1>3, SourceOpens, WorkspaceOpens

-----------------------------------------------------------------------------
(* The workspace.                                                           *)

LEMMA SavesFacts ==
  ASSUME NEW sv \in Seq(Saves), NEW step, SavesFit(sv, step), NEW s \in SUBSET Cases
  PROVE  /\ Append(sv, Save(s, FALSE)) \in Seq(Saves) /\ SavesFit(Append(sv, Save(s, FALSE)), step)
         /\ Append(sv, Save(s, TRUE)) \in Seq(Saves)
         /\ step # "save" => SavesFit(Append(sv, Save(s, TRUE)), "save")
<1>1. \A a \in BOOLEAN : Save(s, a) \in Saves /\ Save(s, a).armed = a
  BY DEF Save, Saves
<1>2. \A a \in BOOLEAN : /\ Append(sv, Save(s, a)) \in Seq(Saves)
                         /\ Len(Append(sv, Save(s, a))) = Len(sv) + 1
                         /\ Append(sv, Save(s, a))[Len(sv) + 1] = Save(s, a)
                         /\ \A i \in 1 .. Len(sv) : Append(sv, Save(s, a))[i] = sv[i]
  BY <1>1
<1>3. DOMAIN sv = 1 .. Len(sv) /\ Len(sv) \in Nat
  OBVIOUS
<1>4. SavesFit(Append(sv, Save(s, FALSE)), step)
  <2> DEFINE a == Append(sv, Save(s, FALSE))
  <2>1. DOMAIN a = 1 .. Len(sv) + 1 /\ \A i \in 1 .. Len(sv) : a[i] = sv[i]
    BY <1>1, <1>2
  <2>2. a[Len(sv) + 1] = Save(s, FALSE)
    BY <1>2
  <2>3. ~Save(s, FALSE).armed
    BY DEF Save
  <2> HIDE DEF a
  <2>4. ~a[Len(sv) + 1].armed
    BY <2>2, <2>3
  <2>5. \A i \in DOMAIN a : a[i].armed => i \in DOMAIN sv /\ a[i] = sv[i]
    <3> SUFFICES ASSUME NEW i \in DOMAIN a, a[i].armed PROVE i \in DOMAIN sv /\ a[i] = sv[i]
      OBVIOUS
    <3>1. i # Len(sv) + 1
      BY <2>4
    <3>2. i \in 1 .. Len(sv)
      BY <3>1, <2>1, <1>3
    <3> QED  BY <3>2, <2>1, <1>3
  <2>6. SavesFit(a, step)
    BY <2>5 DEF SavesFit
  <2> QED  BY <2>6 DEF a
<1>5. ASSUME step # "save" PROVE SavesFit(Append(sv, Save(s, TRUE)), "save")
  <2> DEFINE a == Append(sv, Save(s, TRUE))
  <2>1. /\ DOMAIN a = 1 .. Len(sv) + 1
        /\ \A i \in 1 .. Len(sv) : a[i] = sv[i]
    BY <1>1, <1>2
  <2> HIDE DEF a
  <2>2. \A i \in DOMAIN a : a[i].armed => i = Len(sv) + 1
    BY <2>1, <1>3, <1>5 DEF SavesFit
  <2>3. SavesFit(a, "save")
    BY <2>2 DEF SavesFit
  <2> QED  BY <2>3 DEF a
<1> QED  BY <1>2, <1>4, <1>5

LEMMA SavesTail ==
  ASSUME NEW sv \in Seq(Saves), NEW step, SavesFit(sv, step), sv # <<>>
  PROVE  /\ Tail(sv) \in Seq(Saves) /\ SavesFit(Tail(sv), step) /\ Head(sv) \in Saves
         /\ Head(sv).armed => step = "save" /\ \A s : SavesFit(Tail(sv), s)
<1>1. /\ Tail(sv) \in Seq(Saves) /\ Len(Tail(sv)) = Len(sv) - 1 /\ Head(sv) = sv[1] /\ Len(sv) > 0
      /\ \A i \in 1 .. Len(sv) - 1 : Tail(sv)[i] = sv[i + 1]
  OBVIOUS
<1>2. DOMAIN sv = 1 .. Len(sv) /\ Len(sv) \in Nat /\ DOMAIN Tail(sv) = 1 .. Len(sv) - 1
  BY <1>1
<1>3. SavesFit(Tail(sv), step)
  BY <1>1, <1>2 DEF SavesFit
<1>4. ASSUME Head(sv).armed PROVE step = "save" /\ \A i \in DOMAIN Tail(sv) : ~Tail(sv)[i].armed
  BY <1>1, <1>2, <1>4 DEF SavesFit
<1>5. ASSUME Head(sv).armed, NEW s PROVE SavesFit(Tail(sv), s)
  BY <1>4, <1>5 DEF SavesFit
<1>6. Head(sv) \in Saves
  BY <1>1, <1>2
<1> QED  BY <1>1, <1>3, <1>4, <1>5, <1>6

LEMMA WorkspaceFacts ==
  ASSUME RunState, NEW t \in Tabs, In(t)
  PROVE  /\ StoreFits(store[t], hand) /\ store[t] \in Stores
         /\ store[t].queue \in Queues \cup {None} /\ QueueFits(store[t].queue, hand)
         /\ WorkFits(work[t], hand) /\ work[t] \in Works
         /\ work[t].queue \in Queues \cup {None} /\ QueueFits(work[t].queue, hand)
         /\ work[t].saves \in Seq(Saves) /\ SavesFit(work[t].saves, work[t].arm.step)
         /\ work[t].suite \in SUBSET Cases /\ work[t].arm \in Arms
         /\ work[t].arm.step = "post" => store[t].run # 0
         /\ report[t] # None => ReportFits(report[t], hand)
BY TabFacts DEF In, TabFits, StoreFits, Stores, WorkFits, Works

\* A step within the workspace: new storage and state, the same page.
LEMMA WorkspaceMoves ==
  ASSUME RunState, hand' = hand, NEW t \in Tabs, In(t), NEW s, NEW k,
         StoreFits(s, hand), WorkFits(k, hand), k.arm.step = "post" => s.run # 0,
         UNCHANGED <<page, watch, report>>,
         store' = [store EXCEPT ![t] = s], work' = [work EXCEPT ![t] = k]
  PROVE  RunState'
<1>1. Shows(t, "workspace", s, k, watch[t], report[t])
  BY TabFacts DEF Shows, In
<1>2. TabFits("workspace", s, k, watch[t], report[t], hand)
  BY WorkspaceFacts DEF TabFits
<1>3. "workspace" \in Pages /\ s \in Stores /\ k \in Works
  BY DEF Pages, StoreFits, WorkFits
<1> QED  BY <1>1, <1>2, <1>3, TabFacts, TabAlone

LEMMA QueueStored ==
  ASSUME NEW st, NEW hd, StoreFits(st, hd), NEW q \in Queues \cup {None}, QueueFits(q, hd)
  PROVE  StoreFits([st EXCEPT !.queue = q], hd) /\ [st EXCEPT !.queue = q].run = st.run
BY DEF StoreFits, Stores

LEMMA EditKeeps ==
  ASSUME RunState, NEW t \in Tabs, Edit(t) PROVE RunState'
<1> DEFINE kt == work[t]
           st == store[t]
<1>1. In(t) /\ ~kt.review /\ hand' = hand /\ UNCHANGED <<page, watch, report>>
  BY DEF Edit
<1>2. PICK c \in Cases, s \in SUBSET Cases :
        /\ work' = [work EXCEPT ![t].suite = s, ![t].saves = Append(@, Save(s, FALSE)),
                                ![t].queue = Fitting(store[t].queue, s)]
        /\ store' = [store EXCEPT ![t].queue = Fitting(@, s)]
  <2>1. kt.suite \in SUBSET Cases
    BY <1>1, WorkspaceFacts
  <2> QED  BY <2>1 DEF Edit
<1> DEFINE q == Fitting(st.queue, s)
           sv == Append(kt.saves, Save(s, FALSE))
<1>3. q \in Queues \cup {None} /\ QueueFits(q, hand)
  BY <1>1, WorkspaceFacts, FittingKeeps
<1>4. sv \in Seq(Saves) /\ SavesFit(sv, kt.arm.step)
  BY <1>1, WorkspaceFacts, SavesFacts
<1>5. /\ work' = [work EXCEPT ![t] = [kt EXCEPT !.suite = s, !.saves = sv, !.queue = q]]
      /\ store' = [store EXCEPT ![t] = [st EXCEPT !.queue = q]]
  BY <1>2
<1>6. WorkFits(kt, hand) /\ kt \in Works /\ StoreFits(st, hand) /\ (kt.arm.step = "post" => st.run # 0)
  BY <1>1, WorkspaceFacts
<1> HIDE DEF q, sv, kt, st
<1> DEFINE k == [kt EXCEPT !.suite = s, !.saves = sv, !.queue = q]
<1>7. /\ k \in Works /\ k.review = kt.review /\ k.selection = kt.selection /\ k.arm = kt.arm
      /\ k.saves = sv /\ k.queue = q
  BY <1>3, <1>4, <1>6 DEF Works
<1> HIDE DEF k
<1>8. WorkFits(k, hand)
  BY <1>3, <1>4, <1>6, <1>7 DEF WorkFits
<1>9. /\ StoreFits([st EXCEPT !.queue = q], hand)
      /\ k.arm.step = "post" => [st EXCEPT !.queue = q].run # 0
  BY <1>3, <1>6, <1>7, QueueStored
<1> QED  BY <1>1, <1>5, <1>8, <1>9, WorkspaceMoves DEF k

LEMMA OfferedFits ==
  ASSUME NEW o \in Queues \cup {None}, NEW s \in SUBSET Cases, NEW hd, QueueFits(o, hd),
         NEW q \in Offered(o, s), Remaining(q) # {}
  PROVE  q \in Queues /\ QueueFits(q, hd) /\ Len(q.plan) > 0
<1>1. q \in Queues /\ QueueFits(q, hd)
  <2>1. CASE o # None
    BY <2>1 DEF Offered
  <2>2. CASE o = None
    <3>1. PICK m \in Modes : \E p \in Plans(s, m) : q = [mode |-> m, plan |-> p, done |-> <<>>]
      BY <2>2 DEF Offered, NewQueue, Modes
    <3>2. PICK p \in Plans(s, m) : q = [mode |-> m, plan |-> p, done |-> <<>>]
      BY <3>1
    <3>3. p \in Seq(Cases) /\ <<>> \in Seq(Entries)
      BY PlanTypes
    <3> QED  BY <3>2, <3>3 DEF Queues, QueueFits
  <2> QED  BY <2>1, <2>2
<1>2. q.plan \in Seq(Cases) /\ DOMAIN q.plan # {}
  BY <1>1 DEF Queues, Remaining
<1> QED  BY <1>1, <1>2

LEMMA OpenReviewKeeps ==
  ASSUME RunState, NEW t \in Tabs, OpenReview(t) PROVE RunState'
<1> DEFINE kt == work[t]
           st == store[t]
<1>1. In(t) /\ hand' = hand /\ UNCHANGED <<page, watch, report>>
  BY DEF OpenReview
<1>2. PICK q \in Offered(kt.queue, kt.suite) :
        /\ Remaining(q) # {}
        /\ store' = [store EXCEPT ![t].queue = q]
        /\ work' = [work EXCEPT ![t].queue = q, ![t].review = TRUE,
                      ![t].selection = [suite |-> work[t].suite, plan |-> q.plan, mode |-> q.mode],
                      ![t].saves = Append(@, Save(work[t].suite, FALSE))]
  BY DEF OpenReview
<1> DEFINE sv == Append(kt.saves, Save(kt.suite, FALSE))
           sel == [suite |-> kt.suite, plan |-> q.plan, mode |-> q.mode]
<1>3. q \in Queues /\ QueueFits(q, hand) /\ Len(q.plan) > 0
  BY <1>1, <1>2, WorkspaceFacts, OfferedFits
<1>4. sv \in Seq(Saves) /\ SavesFit(sv, kt.arm.step)
  BY <1>1, WorkspaceFacts, SavesFacts
<1>5. sel \in Selections /\ sel.plan = q.plan
  BY <1>1, <1>3, WorkspaceFacts DEF Selections, Queues
<1>6. /\ work' = [work EXCEPT ![t] = [kt EXCEPT !.queue = q, !.review = TRUE, !.selection = sel,
                                                !.saves = sv]]
      /\ store' = [store EXCEPT ![t] = [st EXCEPT !.queue = q]]
  BY <1>2
<1>7. WorkFits(kt, hand) /\ kt \in Works /\ StoreFits(st, hand) /\ (kt.arm.step = "post" => st.run # 0)
  BY <1>1, WorkspaceFacts
<1> HIDE DEF sel, sv, kt, st
<1> DEFINE k == [kt EXCEPT !.queue = q, !.review = TRUE, !.selection = sel, !.saves = sv]
<1>8. /\ k \in Works /\ k.selection = sel /\ k.arm = kt.arm /\ k.saves = sv /\ k.queue = q
  BY <1>3, <1>4, <1>5, <1>7 DEF Works
<1> HIDE DEF k
<1>9. WorkFits(k, hand)
  BY <1>3, <1>4, <1>5, <1>7, <1>8 DEF WorkFits
<1>10. /\ StoreFits([st EXCEPT !.queue = q], hand)
       /\ k.arm.step = "post" => [st EXCEPT !.queue = q].run # 0
  BY <1>3, <1>7, <1>8, QueueStored
<1> QED  BY <1>1, <1>6, <1>9, <1>10, WorkspaceMoves DEF k

LEMMA CloseReviewKeeps ==
  ASSUME RunState, NEW t \in Tabs, CloseReview(t) PROVE RunState'
<1> DEFINE kt == work[t]
           st == store[t]
           q == kt.queue
           kept == IF q # None /\ q.done # <<>> THEN q ELSE None
           s == IF q # None /\ q.done = <<>> THEN [st EXCEPT !.queue = None] ELSE st
           k == [kt EXCEPT !.review = FALSE, !.selection = None, !.queue = kept]
<1>1. In(t) /\ hand' = hand /\ UNCHANGED <<page, watch, report>>
  BY DEF CloseReview
<1>2. work' = [work EXCEPT ![t] = k]
  BY DEF CloseReview
<1>3. store' = [store EXCEPT ![t] = s]
  <2>1. store = [store EXCEPT ![t] = st]
    BY TabFacts
  <2> QED  BY <2>1 DEF CloseReview
<1>4. WorkFits(kt, hand) /\ kt \in Works /\ StoreFits(st, hand) /\ (kt.arm.step = "post" => st.run # 0)
  BY <1>1, WorkspaceFacts
<1>5. kept \in Queues \cup {None} /\ QueueFits(kept, hand) /\ QueueFits(None, hand)
  BY <1>1, WorkspaceFacts DEF QueueFits
<1>6. StoreFits(s, hand) /\ s.run = st.run
  BY <1>4, <1>5, QueueStored
<1> HIDE DEF kept, st, s, kt
<1>7. /\ k \in Works /\ k.review = FALSE /\ k.arm = kt.arm /\ k.saves = kt.saves /\ k.queue = kept
  BY <1>4, <1>5 DEF Works
<1> HIDE DEF k
<1>8. WorkFits(k, hand)
  BY <1>4, <1>5, <1>7 DEF WorkFits
<1> QED  BY <1>1, <1>2, <1>3, <1>4, <1>6, <1>7, <1>8, WorkspaceMoves

\* A run may be prepared once at a time; a second confirmation changes nothing.
LEMMA ConfirmKeeps ==
  ASSUME RunState, NEW t \in Tabs, Confirm(t) PROVE RunState'
<1> DEFINE kt == work[t]
           sel == kt.selection
           a == IF kt.arm # Idle THEN kt.arm
                ELSE [Idle EXCEPT !.step = "measure", !.suite = sel.suite, !.plan = sel.plan,
                                  !.mode = sel.mode]
           k == [kt EXCEPT !.review = FALSE, !.arm = a]
<1>1. In(t) /\ kt.review /\ hand' = hand /\ UNCHANGED <<page, store, watch, report>>
  BY DEF Confirm
<1>2. work' = [work EXCEPT ![t] = k]
  BY DEF Confirm
<1>3. WorkFits(kt, hand) /\ kt \in Works /\ StoreFits(store[t], hand)
      /\ (kt.arm.step = "post" => store[t].run # 0)
  BY <1>1, WorkspaceFacts
<1>4. sel \in Selections /\ Len(sel.plan) > 0
  BY <1>1, <1>3 DEF WorkFits
<1>5. kt.arm \in Arms
  BY <1>3 DEF Works
<1> HIDE DEF kt, sel
<1>6. CASE kt.arm # Idle
  <2>1. a = kt.arm
    BY <1>6
  <2> HIDE DEF a
  <2>2. k \in Works /\ k.review = FALSE /\ k.arm = kt.arm /\ k.saves = kt.saves /\ k.queue = kt.queue
    BY <1>3, <2>1, <1>5 DEF Works
  <2> HIDE DEF k
  <2>3. WorkFits(k, hand)
    BY <1>3, <2>2 DEF WorkFits
  <2>4. store' = [store EXCEPT ![t] = store[t]]
    BY <1>1, TabFacts
  <2> QED  BY <1>1, <1>2, <1>3, <2>2, <2>3, <2>4, WorkspaceMoves
<1>7. CASE kt.arm = Idle
  <2>1. a = [step |-> "measure", suite |-> sel.suite, plan |-> sel.plan, mode |-> sel.mode, run |-> 0]
    BY <1>7 DEF Idle
  <2>2. a \in Arms /\ a.mode \in Modes /\ Len(a.plan) > 0 /\ a.step = "measure"
    <3>1. sel.suite \in SUBSET Cases /\ sel.plan \in Seq(Cases) /\ sel.mode \in Modes
      BY <1>4 DEF Selections
    <3> HIDE DEF a
    <3>2. a \in Arms
      BY <2>1, <3>1 DEF Arms
    <3>3. a.mode = sel.mode /\ a.plan = sel.plan /\ a.step = "measure"
      BY <2>1
    <3> QED  BY <1>4, <3>1, <3>2, <3>3
  <2>3. SavesFit(kt.saves, a.step)
    BY <1>3, <1>7, <2>2 DEF WorkFits, SavesFit, Idle
  <2> HIDE DEF a
  <2>4. k \in Works /\ k.review = FALSE /\ k.arm = a /\ k.saves = kt.saves /\ k.queue = kt.queue
    BY <1>3, <2>2 DEF Works
  <2> HIDE DEF k
  <2>5. WorkFits(k, hand) /\ k.arm.step # "post"
    BY <1>3, <2>2, <2>3, <2>4 DEF WorkFits
  <2>6. store' = [store EXCEPT ![t] = store[t]]
    BY <1>1, TabFacts
  <2> QED  BY <1>1, <1>2, <1>3, <2>5, <2>6, WorkspaceMoves
<1> QED  BY <1>6, <1>7

LEMMA MeasuredKeeps ==
  ASSUME RunState, NEW t \in Tabs, Measured(t) PROVE RunState'
<1> DEFINE kt == work[t]
           sv == Append(kt.saves, Save(kt.arm.suite, TRUE))
           a == [kt.arm EXCEPT !.step = "save"]
           k == [kt EXCEPT !.arm = a, !.saves = sv]
<1>1. In(t) /\ kt.arm.step = "measure" /\ hand' = hand /\ UNCHANGED <<page, store, watch, report>>
  BY DEF Measured
<1>2. work' = [work EXCEPT ![t] = k] \/ work' = [work EXCEPT ![t] = [kt EXCEPT !.arm = Idle]]
  BY DEF Measured
<1>3. WorkFits(kt, hand) /\ kt \in Works /\ StoreFits(store[t], hand) /\ kt.arm \in Arms
      /\ kt.saves \in Seq(Saves) /\ SavesFit(kt.saves, kt.arm.step)
  BY <1>1, WorkspaceFacts
<1>10. store' = [store EXCEPT ![t] = store[t]]
  BY <1>1, TabFacts
<1>11. CASE work' = [work EXCEPT ![t] = [kt EXCEPT !.arm = Idle]]
  <2> HIDE DEF kt
  <2> DEFINE z == [kt EXCEPT !.arm = Idle]
  <2>1. Idle \in Arms /\ Idle.step = "idle"
    BY DEF Idle, Arms
  <2>2. /\ z \in Works /\ z.review = kt.review /\ z.selection = kt.selection /\ z.arm = Idle
        /\ z.saves = kt.saves /\ z.queue = kt.queue
    BY <1>3, <2>1 DEF Works
  <2> HIDE DEF z
  <2>3. SavesFit(z.saves, "idle")
    BY <1>1, <1>3, <2>2 DEF SavesFit
  <2>4. WorkFits(z, hand) /\ z.arm.step # "post"
    BY <1>3, <2>1, <2>2, <2>3 DEF WorkFits
  <2>5. work' = [work EXCEPT ![t] = z]
    BY <1>11 DEF z
  <2> QED  BY <1>1, <1>3, <2>4, <2>5, <1>10, WorkspaceMoves
<1>4. sv \in Seq(Saves) /\ SavesFit(sv, "save")
  <2>1. kt.arm.suite \in SUBSET Cases
    BY <1>3 DEF Arms
  <2> QED  BY <2>1, <1>1, <1>3, SavesFacts
<1>5. a \in Arms /\ a.step = "save" /\ a.mode = kt.arm.mode /\ a.plan = kt.arm.plan
  BY <1>3 DEF Arms
<1>6. kt.arm.mode \in Modes /\ Len(kt.arm.plan) > 0
  BY <1>1, <1>3 DEF WorkFits
<1> HIDE DEF sv, a, kt
<1>7. /\ k \in Works /\ k.review = kt.review /\ k.selection = kt.selection /\ k.arm = a
      /\ k.saves = sv /\ k.queue = kt.queue
  BY <1>3, <1>4, <1>5 DEF Works
<1> HIDE DEF k
<1>8. WorkFits(k, hand) /\ k.arm.step # "post"
  BY <1>3, <1>4, <1>5, <1>6, <1>7 DEF WorkFits
<1>12. CASE work' = [work EXCEPT ![t] = k]
  BY <1>1, <1>3, <1>8, <1>10, <1>12, WorkspaceMoves
<1> QED  BY <1>2, <1>11, <1>12 DEF k

\* The same while the server learns of a handoff.
LEMMA WorkspaceSends ==
  ASSUME RunState, HandsTyped', Grows(hand, hand'), NEW t \in Tabs, In(t), NEW s, NEW k,
         StoreFits(s, hand'), WorkFits(k, hand'), k.arm.step = "post" => s.run # 0,
         UNCHANGED <<page, watch, report>>,
         store' = [store EXCEPT ![t] = s], work' = [work EXCEPT ![t] = k]
  PROVE  RunState'
<1>1. Shows(t, "workspace", s, k, watch[t], report[t])
  BY TabFacts DEF Shows, In
<1>2. report[t] # None => ReportFits(report[t], hand')
  BY WorkspaceFacts, ReportKept DEF RunState, HandsTyped
<1>3. TabFits("workspace", s, k, watch[t], report[t], hand')
  BY <1>2 DEF TabFits
<1>4. "workspace" \in Pages /\ s \in Stores /\ k \in Works
  BY DEF Pages, StoreFits, WorkFits
<1> QED  BY <1>1, <1>3, <1>4, TabFacts, TabUpdate

LEMMA SavedKeeps ==
  ASSUME RunState, NEW t \in Tabs, Saved(t) PROVE RunState'
<1> DEFINE kt == work[t]
           st == store[t]
           next == Head(kt.saves)
           rest == Tail(kt.saves)
<1>1. In(t) /\ kt.saves # <<>> /\ UNCHANGED <<page, watch, report>>
  BY DEF Saved
<1>2. /\ WorkFits(kt, hand) /\ kt \in Works /\ StoreFits(st, hand) /\ kt.arm \in Arms
      /\ kt.arm.step = "post" => st.run # 0
  BY <1>1, WorkspaceFacts
<1>3. /\ rest \in Seq(Saves) /\ SavesFit(rest, kt.arm.step) /\ next \in Saves
      /\ next.armed => kt.arm.step = "save" /\ \A z : SavesFit(rest, z)
  BY <1>1, WorkspaceFacts, SavesTail
<1>4. next.suite \in SUBSET Cases
  BY <1>3 DEF Saves
<1>5. CASE /\ work' = [work EXCEPT ![t].saves = Tail(@)] /\ UNCHANGED hand
           /\ store' = [store EXCEPT ![t].suite = next.suite]
  <2> DEFINE s == [st EXCEPT !.suite = next.suite]
             k == [kt EXCEPT !.saves = rest]
  <2>1. store' = [store EXCEPT ![t] = s] /\ work' = [work EXCEPT ![t] = k]
    BY <1>5
  <2> HIDE DEF next, rest, st, kt
  <2>2. StoreFits(s, hand) /\ s.run = st.run
    BY <1>2, <1>4 DEF StoreFits, Stores
  <2>3. /\ k \in Works /\ k.review = kt.review /\ k.selection = kt.selection /\ k.arm = kt.arm
        /\ k.saves = rest /\ k.queue = kt.queue
    BY <1>2, <1>3 DEF Works
  <2> HIDE DEF k, s
  <2>4. WorkFits(k, hand)
    BY <1>2, <1>3, <2>3 DEF WorkFits
  <2> QED  BY <1>1, <1>2, <1>5, <2>1, <2>2, <2>3, <2>4, WorkspaceMoves
<1>6. ASSUME NEW h \in Handoffs, next.armed,
             \A g \in Handoffs : (hand[g].phase = "unused") = (g >= h),
             work' = [work EXCEPT ![t].saves = Tail(@),
                                  ![t].arm = [@ EXCEPT !.step = "post", !.run = h]],
             store' = [store EXCEPT ![t].suite = next.suite, ![t].run = h],
             hand' = [hand EXCEPT ![h].phase = "sent", ![h].plan = work[t].arm.plan,
                                  ![h].mode = work[t].arm.mode]
      PROVE  RunState'
  <2> DEFINE s == [st EXCEPT !.suite = next.suite, !.run = h]
             a == [kt.arm EXCEPT !.step = "post", !.run = h]
             k == [kt EXCEPT !.saves = rest, !.arm = a]
             x == [hand[h] EXCEPT !.phase = "sent", !.plan = kt.arm.plan, !.mode = kt.arm.mode]
  <2>1. /\ store' = [store EXCEPT ![t] = s] /\ work' = [work EXCEPT ![t] = k]
        /\ hand' = [hand EXCEPT ![h] = x]
    <3>1. work' = [work EXCEPT ![t] = k]
      BY <1>6
    <3>2. store' = [store EXCEPT ![t] = s]
      BY <1>6
    <3>3. hand' = [hand EXCEPT ![h] = x]
      BY <1>6
    <3> QED  BY <3>1, <3>2, <3>3
  <2>2. hand[h] \in Hands /\ HandFits(hand[h]) /\ hand[h].phase = "unused"
    <3>1. h \in Nat
      BY ConstantTypes
    <3>2. h >= h
      BY <3>1
    <3> QED  BY <1>6, <3>2 DEF RunState, HandsTyped, HandsFit
  <2>3. kt.arm.step = "save" /\ kt.arm.plan \in Seq(Cases) /\ Len(kt.arm.plan) > 0 /\ kt.arm.mode \in Modes
    BY <1>2, <1>3, <1>6 DEF WorkFits, Arms
  <2> HIDE DEF next, rest, st, kt
  <2>4. /\ x \in Hands /\ x.phase = "sent" /\ x.plan = kt.arm.plan /\ x.state = "ISSUED"
        /\ x.results = <<>>
    BY <2>2, <2>3 DEF HandFits, Hands, Phases
  <2> HIDE DEF x
  <2>5. HandFits(x) /\ GrowsAt(hand[h], x)
    <3>1. ~Ended(x)
      BY <2>3, <2>4 DEF Ended
    <3> QED  BY <2>2, <2>3, <2>4, <3>1 DEF HandFits, GrowsAt
  <2>6. HandsTyped' /\ Grows(hand, hand')
    BY <2>1, <2>5, HandUpdate DEF RunState, HandsTyped
  <2>7. Used(hand', h)
    BY <2>1, <2>4 DEF Used, RunState, HandsTyped
  <2>8. StoreFits(st, hand') /\ WorkFits(kt, hand')
    BY <1>2, <2>6, StoreKept, WorkKept DEF RunState, HandsTyped
  <2>9. StoreFits(s, hand') /\ s.run = h
    BY <1>4, <2>7, <2>8 DEF StoreFits, Stores
  <2>10. /\ a \in Arms /\ a.step = "post" /\ a.run = h /\ a.mode = kt.arm.mode
         /\ a.plan = kt.arm.plan
    BY <1>2 DEF Arms
  <2> HIDE DEF a, s
  <2>11. /\ k \in Works /\ k.review = kt.review /\ k.selection = kt.selection /\ k.arm = a
         /\ k.saves = rest /\ k.queue = kt.queue
    BY <1>2, <1>3, <2>10 DEF Works
  <2> HIDE DEF k
  <2>12. WorkFits(k, hand')
    BY <1>3, <1>6, <2>3, <2>7, <2>8, <2>10, <2>11 DEF WorkFits
  <2>13. s.run # 0
    BY <2>9, ConstantTypes
  <2> QED  BY <1>1, <2>1, <2>6, <2>9, <2>12, <2>13, WorkspaceSends
<1> QED  BY <1>5, <1>6 DEF Saved

\* The answer of the prepare: the link is kept, or the workspace stays.
LEMMA PreparedKeeps ==
  ASSUME RunState, NEW t \in Tabs, Prepared(t) PROVE RunState'
<1> DEFINE kt == work[t]
           st == store[t]
           h == kt.arm.run
<1>1. In(t) /\ kt.arm.step = "post" /\ hand[h].phase \in {"ready", "failed"} /\ report' = report
  BY DEF Prepared
<1>2. /\ WorkFits(kt, hand) /\ kt \in Works /\ StoreFits(st, hand) /\ st.run # 0
      /\ SavesFit(kt.saves, "post")
  BY <1>1, WorkspaceFacts
<1>3. h \in Handoffs /\ Used(hand, h)
  BY <1>1, <1>2 DEF WorkFits
<1>4. CASE /\ hand[h].phase = "ready" /\ hand' = [hand EXCEPT ![h].phase = "linked"]
           /\ ToSource(t, [store[t] EXCEPT !.link = h])
  <2> DEFINE x == [hand[h] EXCEPT !.phase = "linked"]
             s == [st EXCEPT !.link = h]
  <2>1. hand' = [hand EXCEPT ![h] = x] /\ ToSource(t, s)
    BY <1>4
  <2>2. hand[h] \in Hands /\ HandFits(hand[h]) /\ GrowsAt(hand[h], hand[h])
    BY <1>3, GrowsSelf DEF RunState, HandsTyped, HandsFit, Grows
  <2>3. HandFits(x) /\ GrowsAt(hand[h], x)
    BY <1>4, <2>2 DEF HandFits, GrowsAt, Hands, Phases, Ended
  <2> HIDE DEF h, st
  <2>4. HandsTyped' /\ Grows(hand, hand')
    BY <1>3, <2>1, <2>3, HandUpdate DEF RunState, HandsTyped
  <2>5. StoreFits(st, hand') /\ Used(hand', h)
    BY <1>2, <1>3, <2>4, StoreKept, GrowthFacts DEF RunState, HandsTyped
  <2>6. StoreFits(s, hand') /\ s.run # 0 /\ s.link = h
    BY <1>2, <1>3, <2>5 DEF StoreFits, Stores
  <2>7. HasSource(s)
    BY <1>3, <2>6, ConstantTypes DEF HasSource
  <2> HIDE DEF s
  <2> QED  BY <1>1, <2>1, <2>4, <2>6, <2>7, SourceOpens
<1>5. CASE work' = [work EXCEPT ![t].arm = Idle] /\ UNCHANGED <<page, store, watch, hand>>
  <2> DEFINE k == [kt EXCEPT !.arm = Idle]
  <2>1. work' = [work EXCEPT ![t] = k] /\ store' = [store EXCEPT ![t] = st]
    BY <1>5, TabFacts
  <2>2. Idle \in Arms /\ Idle.step = "idle"
    BY DEF Idle, Arms
  <2>3. SavesFit(kt.saves, "idle")
    BY <1>2 DEF SavesFit
  <2> HIDE DEF kt, st
  <2>4. /\ k \in Works /\ k.review = kt.review /\ k.selection = kt.selection /\ k.arm = Idle
        /\ k.saves = kt.saves /\ k.queue = kt.queue
    BY <1>2, <2>2 DEF Works
  <2> HIDE DEF k
  <2>5. WorkFits(k, hand)
    BY <1>2, <2>2, <2>3, <2>4 DEF WorkFits
  <2> QED  BY <1>1, <1>2, <1>5, <2>1, <2>5, WorkspaceMoves
<1> QED  BY <1>1, <1>4, <1>5 DEF Prepared

-----------------------------------------------------------------------------
(* The source page.                                                         *)

LEMMA SourceFacts ==
  ASSUME RunState, NEW t \in Tabs, page[t] = "source"
  PROVE  /\ StoreFits(store[t], hand) /\ HasSource(store[t]) /\ store[t] \in Stores
         /\ WatchFits(watch[t], hand) /\ watch[t] \in Watchings
         /\ watch[t].run \in Handoffs /\ watch[t].link \in Handoffs
         /\ hand[watch[t].run] \in Hands /\ HandFits(hand[watch[t].run])
         /\ hand[watch[t].link] \in Hands /\ HandFits(hand[watch[t].link])
         /\ Len(hand[watch[t].run].plan) > 0
<1>1. StoreFits(store[t], hand) /\ HasSource(store[t]) /\ WatchFits(watch[t], hand)
  BY TabFacts DEF TabFits
<1>2. watch[t] \in Watchings /\ watch[t].run \in Handoffs /\ watch[t].link \in Handoffs
  BY <1>1 DEF WatchFits, Watchings
<1>3. Used(hand, watch[t].run)
  BY <1>1 DEF WatchFits
<1> QED  BY <1>1, <1>2, <1>3, TabFacts DEF RunState, HandsTyped, HandsFit, HandFits, Used

LEMMA SourceMoves ==
  ASSUME RunState, hand' = hand, NEW t \in Tabs, page[t] = "source", NEW w, WatchFits(w, hand),
         UNCHANGED <<page, store, work, report>>, watch' = [watch EXCEPT ![t] = w]
  PROVE  RunState'
<1>1. Shows(t, "source", store[t], work[t], w, report[t])
  BY TabFacts DEF Shows
<1>2. TabFits("source", store[t], work[t], w, report[t], hand)
  BY TabFacts DEF TabFits
<1>3. "source" \in Pages /\ w \in Watchings
  BY DEF Pages, WatchFits
<1> QED  BY <1>1, <1>2, <1>3, TabFacts, TabAlone

LEMMA FirstStateType ==
  ASSUME NEW h \in Handoffs, hand[h] \in Hands PROVE FirstState(h) \in States \cup {None}
<1>1. hand[h].state \in States \cup {None}
  BY DEF Hands
<1> QED  BY <1>1 DEF FirstState, States

\* A poll that is answered shows the results there are; any other changes no verdict.
LEMMA PollKeeps ==
  ASSUME RunState, NEW t \in Tabs, Poll(t) PROVE RunState'
<1> DEFINE w == watch[t]
           o == hand[w.run]
<1>1. page[t] = "source" /\ hand' = hand /\ UNCHANGED <<page, store, work, report>>
  BY DEF Poll
<1>2. /\ WatchFits(w, hand) /\ w \in Watchings /\ w.run \in Handoffs
      /\ o \in Hands /\ o.results \in Seq(Verdicts) /\ IsPrefix(w.seen, o.results)
      /\ w.seen \in Seq(Verdicts)
  BY <1>1, SourceFacts DEF WatchFits, Watchings, Hands
<1>3. ASSUME NEW n \in Nat, NEW e \in {"no", "stop", "error"},
             watch' = [watch EXCEPT ![t] = [w EXCEPT !.fails = n, !.over = e]]
      PROVE  RunState'
  <2> DEFINE x == [w EXCEPT !.fails = n, !.over = e]
  <2> HIDE DEF w, o
  <2>1. /\ x \in Watchings /\ x.run = w.run /\ x.link = w.link /\ x.seen = w.seen
        /\ x.complete = w.complete /\ x.verdict = w.verdict
    BY <1>2 DEF Watchings
  <2>2. watch' = [watch EXCEPT ![t] = x]
    BY <1>3
  <2> HIDE DEF x
  <2>3. WatchFits(x, hand)
    BY <1>2, <2>1 DEF WatchFits
  <2> QED  BY <1>1, <2>2, <2>3, SourceMoves
<1>4. CASE Missed(t)
  <2>1. w.fails \in Nat /\ w.over \in {"no", "stop", "error"}
    BY <1>2 DEF Watchings
  <2> DEFINE e == IF w.fails + 1 = Misses THEN "error" ELSE w.over
  <2>2. watch' = [watch EXCEPT ![t] = [w EXCEPT !.fails = w.fails + 1, !.over = e]]
    BY <1>4 DEF Missed
  <2>3. e \in {"no", "stop", "error"} /\ w.fails + 1 \in Nat
    BY <2>1
  <2> HIDE DEF e, w
  <2> QED  BY <1>3, <2>2, <2>3
<1>5. CASE watch' = [watch EXCEPT ![t].over = "error"]
  <2>1. [w EXCEPT !.over = "error"] = [w EXCEPT !.fails = w.fails, !.over = "error"] /\ w.fails \in Nat
    BY <1>2 DEF Watchings
  <2>2. watch' = [watch EXCEPT ![t] = [w EXCEPT !.over = "error"]]
    BY <1>5
  <2> QED  BY <1>3, <2>1, <2>2
<1>6. ASSUME NEW state \in States \cup {None}, NEW stops,
             watch' = [watch EXCEPT ![t] =
             [w EXCEPT !.fails = 0, !.state = state, !.refused = @ \/ o.refused,
                       !.seen = IF Batched(t) THEN o.results ELSE @,
                       !.complete = Batched(t) /\ Complete(w.run),
                       !.verdict = IF ~Batched(t) /\ ~stops /\ o.results # <<>>
                                   THEN o.results[1] ELSE @,
                       !.over = IF stops \/ (~Batched(t) /\ o.results # <<>>) THEN "stop" ELSE @]]
      PROVE  RunState'
  <2> DEFINE rf == w.refused \/ o.refused
             sn == IF Batched(t) THEN o.results ELSE w.seen
             cp == Batched(t) /\ Complete(w.run)
             vd == IF ~Batched(t) /\ ~stops /\ o.results # <<>> THEN o.results[1] ELSE w.verdict
             ov == IF stops \/ (~Batched(t) /\ o.results # <<>>) THEN "stop" ELSE w.over
             x == [w EXCEPT !.fails = 0, !.state = state, !.refused = rf, !.seen = sn,
                            !.complete = cp, !.verdict = vd, !.over = ov]
  <2>1. watch' = [watch EXCEPT ![t] = x]
    BY <1>6
  <2>2. sn \in Seq(Verdicts) /\ IsPrefix(sn, o.results)
    BY <1>2, PrefixSelf
  <2>3. cp \in BOOLEAN /\ (cp => Ended(o) /\ sn = o.results)
    BY <1>2, EndedIsComplete
  <2>4. vd \in Verdicts \cup {None} /\ (vd # None => o.results # <<>> /\ vd = o.results[1])
    <3>1. w.verdict \in Verdicts \cup {None}
      BY <1>2 DEF Watchings
    <3>2. w.verdict # None => o.results # <<>> /\ w.verdict = o.results[1]
      BY <1>2 DEF WatchFits
    <3>3. o.results # <<>> => o.results[1] \in Verdicts
      BY <1>2
    <3> HIDE DEF o, w
    <3> QED  BY <3>1, <3>2, <3>3
  <2>5. rf \in BOOLEAN /\ ov \in {"no", "stop", "error"}
    <3>1. w.over \in {"no", "stop", "error"}
      BY <1>2 DEF Watchings
    <3> HIDE DEF o, w
    <3> QED  BY <3>1
  <2> HIDE DEF rf, sn, cp, vd, ov, w, o
  <2>6. /\ x \in Watchings /\ x.run = w.run /\ x.link = w.link /\ x.seen = sn
        /\ x.complete = cp /\ x.verdict = vd
    BY <1>2, <1>6, <2>2, <2>3, <2>4, <2>5 DEF Watchings
  <2> HIDE DEF x
  <2>7. WatchFits(x, hand)
    BY <1>2, <2>2, <2>3, <2>4, <2>6 DEF WatchFits, o
  <2> QED  BY <1>1, <2>1, <2>7, SourceMoves
<1>7. FirstState(w.run) \in States \cup {None} /\ o.state \in States \cup {None}
  BY <1>2, FirstStateType DEF Hands
<1> DEFINE state == IF Batched(t) THEN o.state ELSE FirstState(w.run)
           stops == Stops(Batched(t), o.refused, state, Complete(w.run))
           answered == watch' = [watch EXCEPT ![t] =
             [w EXCEPT !.fails = 0, !.state = state, !.refused = @ \/ o.refused,
                       !.seen = IF Batched(t) THEN o.results ELSE @,
                       !.complete = Batched(t) /\ Complete(w.run),
                       !.verdict = IF ~Batched(t) /\ ~stops /\ o.results # <<>>
                                   THEN o.results[1] ELSE @,
                       !.over = IF stops \/ (~Batched(t) /\ o.results # <<>>) THEN "stop" ELSE @]]
<1>8. answered \/ Missed(t) \/ watch' = [watch EXCEPT ![t].over = "error"]
  BY DEF Poll
<1>9. state \in States \cup {None}
  BY <1>7
<1>10. CASE answered
  <2> HIDE DEF state, stops, w, o
  <2> QED  BY <1>6, <1>9, <1>10, Zenon
<1> HIDE DEF answered
<1> QED  BY <1>4, <1>5, <1>8, <1>10

\* A tab that forgets its session keeps its queue.
LEMMA ClearedFits ==
  ASSUME NEW s, NEW hd, StoreFits(s, hd)
  PROVE  StoreFits(Cleared(s), hd)
<1>1. s \in Stores /\ Cleared(s) = [s EXCEPT !.run = 0, !.link = 0]
  BY DEF Cleared, StoreFits
<1>2. Cleared(s) \in Stores /\ Cleared(s).queue = s.queue /\ Cleared(s).run = 0 /\ Cleared(s).link = 0
  BY <1>1 DEF Stores
<1> QED  BY <1>2 DEF StoreFits

LEMMA CancelSourceKeeps ==
  ASSUME RunState, NEW t \in Tabs, CancelSource(t) PROVE RunState'
<1> DEFINE h == watch[t].link
           o == hand[h]
           x == [o EXCEPT !.state = "REVOKED"]
<1>1. page[t] = "source" /\ FirstState(h) = "ISSUED" /\ report' = report
  BY DEF CancelSource
<1>2. hand' = [hand EXCEPT ![h] = x] /\ ToWorkspace(t, Cleared(store[t]))
  BY DEF CancelSource
<1>3. h \in Handoffs /\ o \in Hands /\ HandFits(o) /\ Used(hand, h) /\ StoreFits(store[t], hand)
  BY <1>1, SourceFacts DEF WatchFits
<1>4. GrowsAt(o, o) /\ o.phase # "unused" /\ o.results = <<>>
  BY <1>1, <1>3, GrowsSelf, FirstIssued DEF RunState, HandsTyped, Grows, Used
<1> HIDE DEF h, o
<1>5. /\ x \in Hands /\ x.phase = o.phase /\ x.plan = o.plan /\ x.mode = o.mode
      /\ x.results = o.results /\ x.state = "REVOKED"
  BY <1>3 DEF Hands, States
<1> HIDE DEF x
<1>6. HandFits(x) /\ GrowsAt(o, x)
  BY <1>1, <1>3, <1>4, <1>5 DEF HandFits, GrowsAt, Ended
<1>7. HandsTyped' /\ Grows(hand, hand')
  BY <1>2, <1>3, <1>6, HandUpdate DEF RunState, HandsTyped, o
<1>8. StoreFits(Cleared(store[t]), hand')
  BY <1>3, <1>7, StoreKept, ClearedFits DEF RunState, HandsTyped
<1> QED  BY <1>1, <1>2, <1>7, <1>8, WorkspaceOpens

\* A page that goes back to the workspace while nothing changes at the server.
LEMMA BackKeeps ==
  ASSUME RunState, NEW t \in Tabs, NEW s, StoreFits(s, hand), ToWorkspace(t, Cleared(s)),
         UNCHANGED <<report, hand>>
  PROVE  RunState'
<1>1. HandsTyped' /\ Grows(hand, hand') /\ StoreFits(Cleared(s), hand')
  BY ClearedFits, GrowsSelf DEF RunState, HandsTyped, HandsFit
<1>2. report' = report
  OBVIOUS
<1> QED  BY <1>1, <1>2, WorkspaceOpens

LEMMA RecoverKeeps ==
  ASSUME RunState, NEW t \in Tabs, RecoverFromClaimFailure(t) PROVE RunState'
<1>1. ToWorkspace(t, Cleared(store[t])) /\ UNCHANGED <<report, hand>>
  BY DEF RecoverFromClaimFailure
<1>2. StoreFits(store[t], hand)
  BY TabFacts DEF TabFits
<1> QED  BY <1>1, <1>2, BackKeeps

LEMMA ReturnToStoppedKeeps ==
  ASSUME RunState, NEW t \in Tabs, ReturnToStopped(t) PROVE RunState'
<1> DEFINE st == store[t]
           s == [st EXCEPT !.queue = None]
<1>1. ToWorkspace(t, Cleared(s)) /\ UNCHANGED <<report, hand>>
  BY DEF ReturnToStopped
<1>2. StoreFits(st, hand) /\ st \in Stores
  BY TabFacts DEF TabFits
<1> HIDE DEF st
<1>3. s \in Stores /\ s.queue = None /\ s.run = st.run /\ s.link = st.link
  BY <1>2 DEF Stores
<1> HIDE DEF s
<1>4. StoreFits(s, hand)
  BY <1>2, <1>3 DEF StoreFits, QueueFits
<1> QED  BY <1>1, <1>4, BackKeeps

\* What a single run adds to the queue is its case and the verdict its page was given.
LEMMA ContinueRunKeeps ==
  ASSUME RunState, NEW t \in Tabs, ContinueRun(t) PROVE RunState'
<1> DEFINE w == watch[t]
           st == store[t]
           q == st.queue
           o == hand[w.run]
           e == [case |-> o.plan[1], verdict |-> w.verdict, of |-> w.run]
           qn == [q EXCEPT !.done = Append(q.done, e)]
           s == [st EXCEPT !.queue = qn]
<1>1. /\ page[t] = "source" /\ w.verdict # None /\ q # None /\ UNCHANGED <<report, hand>>
      /\ ToWorkspace(t, Cleared([st EXCEPT !.queue.done = Append(@, e)]))
  BY DEF ContinueRun
<1>2. [st EXCEPT !.queue.done = Append(@, e)] = s
  OBVIOUS
<1>3. /\ StoreFits(st, hand) /\ st \in Stores /\ WatchFits(w, hand) /\ w \in Watchings
      /\ w.run \in Handoffs /\ o \in Hands /\ Len(o.plan) > 0
  BY <1>1, SourceFacts
<1>4. o.plan[1] \in Cases /\ w.verdict \in Verdicts
  <2>1. o.plan \in Seq(Cases) /\ Len(o.plan) > 0
    BY <1>3 DEF Hands
  <2>2. w.verdict \in Verdicts \cup {None}
    BY <1>3 DEF Watchings
  <2> HIDE DEF o, w
  <2> QED  BY <2>1, <2>2, <1>1
<1>5. e \in Entries /\ EntryFits(e, hand)
  BY <1>1, <1>3, <1>4 DEF Entries, EntryFits, WatchFits
<1>6. q \in Queues /\ QueueFits(q, hand)
  BY <1>1, <1>3 DEF Stores, StoreFits
<1> HIDE DEF e, q, o, w
<1>7. qn \in Queues /\ qn.done = Append(q.done, e) /\ q.done \in Seq(Entries)
  <2>1. q.done \in Seq(Entries) BY <1>6 DEF Queues
  <2>2. Append(q.done, e) \in Seq(Entries) BY <1>5, <2>1, AppendProperties
  <2> QED BY <1>6, <2>1, <2>2 DEF Queues
<1>8. QueueFits(qn, hand)
  <2> SUFFICES ASSUME NEW i \in DOMAIN qn.done PROVE EntryFits(qn.done[i], hand)
    BY DEF QueueFits
  <2>1. CASE i = Len(q.done) + 1
    <3>1. qn.done[i] = e
      BY <1>5, <1>7, <2>1
    <3> QED  BY <1>5, <3>1
  <2>2. CASE i # Len(q.done) + 1
    <3>1. i \in DOMAIN q.done /\ qn.done[i] = q.done[i]
      BY <1>5, <1>7, <2>2
    <3> QED  BY <1>1, <1>6, <3>1 DEF QueueFits
  <2> QED  BY <2>1, <2>2
<1> HIDE DEF qn, st
<1>9. s \in Stores /\ s.queue = qn /\ s.run = st.run /\ s.link = st.link
  BY <1>3, <1>7 DEF Stores
<1>10. StoreFits(s, hand)
  BY <1>3, <1>8, <1>9 DEF StoreFits
<1> HIDE DEF s
<1> QED  BY <1>1, <1>2, <1>10, BackKeeps

\* A plan the report accepted is that of the run: it has its length and its cases.
LEMMA SamePlan ==
  ASSUME NEW a \in Seq(Cases), NEW b \in Seq(Cases), Len(a) = Len(b),
         \A i \in 1 .. Len(b) : a[i] = b[i]
  PROVE  a = b
OBVIOUS

LEMMA FinishJourneyKeeps ==
  ASSUME RunState, NEW t \in Tabs, FinishJourney(t) PROVE RunState'
<1> DEFINE w == watch[t]
           st == store[t]
           o == hand[w.run]
           r == [run |-> w.run, plan |-> w.plan, results |-> w.seen]
           s == Cleared([st EXCEPT !.queue = None])
<1>1. /\ page[t] = "source" /\ w.complete /\ ~StoppedShort(w) /\ MatchesPlan(w)
      /\ report' = [report EXCEPT ![t] = r] /\ Unload(t)
      /\ page' = [page EXCEPT ![t] = "away"] /\ watch' = [watch EXCEPT ![t] = None]
      /\ store' = [store EXCEPT ![t] = s] /\ hand' = hand
  BY DEF FinishJourney, Closable
<1>2. /\ StoreFits(st, hand) /\ st \in Stores /\ WatchFits(w, hand) /\ w \in Watchings
      /\ w.run \in Handoffs /\ o \in Hands
  BY <1>1, SourceFacts
<1>3. Ended(o) /\ w.seen = o.results /\ Used(hand, w.run)
  BY <1>1, <1>2 DEF WatchFits
<1>4. Len(o.results) = Len(o.plan)
  BY <1>1, <1>3 DEF Ended, StoppedShort
<1>5. w.plan = o.plan
  <2>1. w.plan \in Seq(Cases) /\ o.plan \in Seq(Cases) /\ o.results \in Seq(Verdicts)
    BY <1>2 DEF Watchings, Hands
  <2>2. Len(w.plan) = Len(o.plan) /\ \A i \in DOMAIN w.seen : w.plan[i] = o.plan[i]
    BY <1>1 DEF MatchesPlan
  <2>3. DOMAIN w.seen = 1 .. Len(o.plan)
    BY <1>3, <1>4, <2>1
  <2> HIDE DEF w, o
  <2> QED  BY <2>1, <2>2, <2>3, SamePlan
<1>6. r \in Reports
  BY <1>2 DEF Reports, Watchings
<1>7. r.run = w.run /\ r.plan = w.plan /\ r.results = w.seen
  OBVIOUS
<1>8. ReportFits(r, hand)
  <2> HIDE DEF r, w, o
  <2> QED  BY <1>3, <1>5, <1>6, <1>7 DEF ReportFits, o
<1>9. StoreFits(s, hand)
  <2> DEFINE z == [st EXCEPT !.queue = None]
  <2> HIDE DEF st
  <2>1. z \in Stores /\ z.queue = None /\ z.run = st.run /\ z.link = st.link
    BY <1>2 DEF Stores
  <2> HIDE DEF z
  <2>2. StoreFits(z, hand)
    BY <1>2, <2>1 DEF StoreFits, QueueFits
  <2> QED  BY <2>2, ClearedFits DEF z
<1>10. Shows(t, "away", s, None, None, r)
  BY <1>1 DEF Unload, NotWorking, Shows
<1> HIDE DEF r, s
<1>11. TabFits("away", s, None, None, r, hand)
  BY <1>8, <1>9 DEF TabFits
<1>12. "away" \in Pages /\ s \in Stores
  BY <1>9 DEF Pages, StoreFits
<1> QED  BY <1>1, <1>6, <1>10, <1>11, <1>12, TabAlone


-----------------------------------------------------------------------------
(* Every step, and what it means for the specification.                     *)

LEMMA OwnerStepKeeps ==
  ASSUME RunState, NEW t \in Tabs, OwnerStep(t) PROVE RunState'
<1>1. CASE Load(t)
  BY <1>1, LoadKeeps
<1>2. CASE Enter(t)
  BY <1>2, EnterKeeps
<1>3. CASE AfterLeave(t)
  <2>1. UNCHANGED <<page, store, work, watch, report, hand>>
    BY <1>3 DEF AfterLeave
  <2>2. HandsTyped' /\ Grows(hand, hand')
    BY <2>1, GrowsSelf DEF RunState, HandsTyped, HandsFit
  <2> QED  BY <2>1, <2>2, TabsUnchanged
<1>4. CASE Leave(t)
  BY <1>4, LeaveKeeps
<1>5. CASE Return(t)
  BY <1>5, ReturnKeeps
<1>6. CASE Reload(t)
  BY <1>6, DocumentKeeps DEF Reload
<1>7. CASE Edit(t)
  BY <1>7, EditKeeps
<1>8. CASE OpenReview(t)
  BY <1>8, OpenReviewKeeps
<1>9. CASE CloseReview(t)
  BY <1>9, CloseReviewKeeps
<1>10. CASE Confirm(t)
  BY <1>10, ConfirmKeeps
<1>11. CASE Measured(t)
  BY <1>11, MeasuredKeeps
<1>12. CASE Saved(t)
  BY <1>12, SavedKeeps
<1>13. CASE Prepared(t)
  BY <1>13, PreparedKeeps
<1>14. CASE CancelSource(t)
  BY <1>14, CancelSourceKeeps
<1>15. CASE RecoverFromClaimFailure(t)
  BY <1>15, RecoverKeeps
<1>16. CASE ContinueRun(t)
  BY <1>16, ContinueRunKeeps
<1>17. CASE FinishJourney(t)
  BY <1>17, FinishJourneyKeeps
<1>18. CASE ReturnToStopped(t)
  BY <1>18, ReturnToStoppedKeeps
<1> QED
  BY <1>1, <1>2, <1>3, <1>4, <1>5, <1>6, <1>7, <1>8, <1>9, <1>10, <1>11, <1>12, <1>13, <1>14,
     <1>15, <1>16, <1>17, <1>18 DEF OwnerStep

LEMMA RunStep ==
  ASSUME RunState, bound \in Bounds, [Next]_vars PROVE RunState'
<1>1. ASSUME NEW t \in Tabs, OwnerStep(t) PROVE RunState'
  BY <1>1, OwnerStepKeeps
<1>2. ASSUME NEW t \in Tabs, Poll(t) PROVE RunState'
  BY <1>2, PollKeeps
<1>3. ASSUME NEW t \in Tabs, NEW k \in Kinds, Decide(t, k) PROVE RunState'
  <2>1. UNCHANGED <<page, store, work, watch, report, hand>>
    BY <1>3 DEF Decide
  <2>2. HandsTyped' /\ Grows(hand, hand')
    BY <2>1, GrowsSelf DEF RunState, HandsTyped, HandsFit
  <2> QED  BY <2>1, <2>2, TabsUnchanged
<1>4. ASSUME NEW t \in Tabs, NEW u \in Tabs, Duplicate(t, u) PROVE RunState'
  BY <1>4, DocumentKeeps DEF Duplicate
<1>5. ASSUME NEW h \in Handoffs,
             \/ Serve(h) \/ Claim(h) \/ ClaimFails(h) \/ EndRun(h)
             \/ Advance(h) \/ IssueNext(h) \/ ClaimNext(h) \/ Expire(h)
      PROVE  RunState'
  <2>1. UNCHANGED <<page, store, work, watch, report>>
    BY <1>5 DEF Serve, Claim, ClaimFails, EndRun, Advance, IssueNext, ClaimNext, Expire, Server, tabVars
  <2>2. HandsTyped' /\ Grows(hand, hand')
    BY <1>5, ServerStep DEF RunState, HandsTyped
  <2> QED  BY <2>1, <2>2, TabsUnchanged
<1>6. CASE UNCHANGED vars
  <2>1. UNCHANGED <<page, store, work, watch, report, hand>>
    BY <1>6 DEF vars, tabVars
  <2>2. HandsTyped' /\ Grows(hand, hand')
    BY <2>1, GrowsSelf DEF RunState, HandsTyped, HandsFit
  <2> QED  BY <2>1, <2>2, TabsUnchanged
<1> QED  BY <1>1, <1>2, <1>3, <1>4, <1>5, <1>6 DEF Next

\* What a behaviour has spent is counted; its bounds stay.
Counters == bound \in Bounds /\ edits \in Nat /\ moves \in Nat /\ faults \in Nat

LEMMA CountersStep ==
  ASSUME Counters, [Next]_vars PROVE Counters'
<1>1. ASSUME NEW t \in Tabs, OwnerStep(t) PROVE Counters'
  <2>1. CASE Load(t) \/ Enter(t) \/ AfterLeave(t) \/ Return(t)
    BY <2>1 DEF Load, Enter, AfterLeave, Return, Counters, spent
  <2>2. CASE Leave(t) \/ Reload(t)
    BY <2>2 DEF Leave, Reload, Move, Counters
  <2>3. CASE Edit(t)
    BY <2>3 DEF Edit, Counters
  <2>4. CASE OpenReview(t) \/ CloseReview(t) \/ Confirm(t) \/ Measured(t) \/ Saved(t)
    BY <2>4 DEF OpenReview, CloseReview, Confirm, Measured, Saved, Counters, spent
  <2>5. CASE Prepared(t)
    BY <2>5 DEF Prepared, Fault, Counters, spent
  <2>6. CASE \/ CancelSource(t) \/ RecoverFromClaimFailure(t) \/ ContinueRun(t)
             \/ FinishJourney(t) \/ ReturnToStopped(t)
    BY <2>6 DEF CancelSource, RecoverFromClaimFailure, ContinueRun, FinishJourney,
                ReturnToStopped, Counters, spent
  <2> QED  BY <1>1, <2>1, <2>2, <2>3, <2>4, <2>5, <2>6 DEF OwnerStep
<1>2. ASSUME NEW t \in Tabs, Poll(t) PROVE Counters'
  BY <1>2 DEF Poll, Fault, Counters, spent
<1>3. ASSUME NEW t \in Tabs, NEW k \in Kinds, Decide(t, k) PROVE Counters'
  BY <1>3 DEF Decide, Counters, spent
<1>4. ASSUME NEW t \in Tabs, NEW u \in Tabs, Duplicate(t, u) PROVE Counters'
  BY <1>4 DEF Duplicate, Counters, spent
<1>5. ASSUME NEW h \in Handoffs,
             \/ Serve(h) \/ Claim(h) \/ ClaimFails(h) \/ EndRun(h)
             \/ Advance(h) \/ IssueNext(h) \/ ClaimNext(h) \/ Expire(h)
      PROVE  Counters'
  <2>1. UNCHANGED spent
    BY <1>5 DEF Serve, Claim, ClaimFails, EndRun, Advance, IssueNext, ClaimNext, Expire, Server, tabVars
  <2>2. UNCHANGED faults \/ Fault
    BY <1>5 DEF Serve, Claim, ClaimFails, EndRun, Advance, IssueNext, ClaimNext, Expire
  <2> QED  BY <2>1, <2>2 DEF Fault, spent, Counters
<1>6. CASE UNCHANGED vars
  BY <1>6 DEF vars, tabVars, spent, Counters
<1> QED  BY <1>1, <1>2, <1>3, <1>4, <1>5, <1>6 DEF Next

LEMMA Parts ==
  IInv <=> LockState /\ RunState /\ Counters
BY DEF IInv, TypeOK, LockState, RunState, TabsTyped, HandsTyped, Counters

LEMMA Starts ==
  ASSUME Init PROVE IInv
<1>1. LockState
  <2>1. /\ \A u \in Tabs : page[u] \in {"loading", "closed"}
        /\ \A u \in Tabs, k \in Kinds : ask[u][k] = "none"
        /\ lock = None /\ page \in [Tabs -> Pages] /\ ask \in [Tabs -> [Kinds -> Asks]]
    BY DEF Init, Pages, Asks
  <2> QED  BY <2>1, ConstantTypes DEF LockState, Locked, OneWorkspace, In
<1>2. Counters
  BY DEF Init, Counters
<1>3. HandsTyped
  <2>1. Unused \in Hands /\ Unused.phase = "unused" /\ Unused.state = "ISSUED"
        /\ Unused.results = <<>> /\ Unused.plan = <<>>
    BY DEF Unused, Hands, Phases, States
  <2>2. HandFits(Unused)
    BY <2>1 DEF HandFits
  <2>3. hand = [h \in Handoffs |-> Unused]
    BY DEF Init
  <2> QED  BY <2>1, <2>2, <2>3 DEF HandsTyped, HandsFit
<1>4. bound.suite \in SUBSET Cases
  BY <1>2, ConstantTypes DEF Counters, Bound
<1>5. ASSUME NEW t \in Tabs
      PROVE  /\ store[t] \in Stores /\ store[t].queue = None
             /\ store[t].run = 0 /\ store[t].link = 0
  <2>1. store[t] = [suite |-> IF t = First THEN bound.suite ELSE {}, queue |-> None,
                    run |-> 0, link |-> 0]
    BY DEF Init
  <2> QED  BY <1>4, <2>1 DEF Stores
<1>6. TabsTyped
  <2>1. store \in [Tabs -> Stores]
    BY <1>5 DEF Init
  <2>2. page \in [Tabs -> Pages] /\ work \in [Tabs -> Works \cup {None}]
        /\ watch \in [Tabs -> Watchings \cup {None}] /\ report \in [Tabs -> Reports \cup {None}]
    BY DEF Init, Pages, NotWorking
  <2> QED  BY <2>1, <2>2 DEF TabsTyped
<1>7. TabsFit
  <2> SUFFICES ASSUME NEW t \in Tabs
               PROVE  TabFits(page[t], store[t], work[t], watch[t], report[t], hand)
    BY DEF TabsFit
  <2>1. page[t] \in {"loading", "closed"} /\ report[t] = None
    BY DEF Init
  <2>2. StoreFits(store[t], hand)
    BY <1>5 DEF StoreFits, QueueFits
  <2> QED  BY <2>1, <2>2 DEF TabFits
<1> QED  BY <1>1, <1>2, <1>3, <1>6, <1>7, Parts DEF RunState

\* Every state of the owner's tabs is typed, its lock is that of the workspace in view or
\* of an answer on its way, and whatever a tab stores, shows or reports of a run is true
\* of that run: useDemoWorkspaceLease, the workspace's queue and the source page's polls.
THEOREM Invariance == Spec => []IInv
<1>1. Init => IInv
  BY Starts
<1>2. IInv /\ [Next]_vars => IInv'
  <2> SUFFICES ASSUME IInv, [Next]_vars PROVE IInv'
    OBVIOUS
  <2>1. LockState /\ RunState /\ Counters /\ bound \in Bounds
    BY Parts DEF Counters
  <2>2. LockState' /\ RunState' /\ Counters'
    BY <2>1, LockStep, RunStep, CountersStep
  <2> QED
    BY <2>2 DEF IInv, TypeOK, LockState, RunState, TabsTyped, HandsTyped, Counters
<1> QED  BY <1>1, <1>2, PTL DEF Spec

\* Every variable has its type in every reachable state, for any sets of tabs, cases and
\* handoffs: what sessionStorage, the page's state and the server's records may hold.
THEOREM TypeCorrect == Spec => []TypeOK
<1>1. IInv => TypeOK
  BY DEF IInv
<1> QED  BY <1>1, Invariance, PTL

\* The suite's Web Lock belongs to the one workspace that shows the suite or to a request
\* just granted, however tabs are left, reloaded or duplicated while they ask
\* (useDemoWorkspaceLease).
THEOREM LockIsTheWorkspaces == Spec => []OneWorkspace
<1>1. IInv => OneWorkspace
  BY DEF IInv, Locked
<1> QED  BY <1>1, Invariance, PTL

\* No owner is told a verdict that is not the agent's: what the queue records, the source
\* page shows and the report lists is what the run of that handoff ended with, for the
\* cases of its plan, whatever queue, session and link the tab happened to hold
\* (continueRun, finishJourney, createOwnerJourneyReport).
THEOREM VerdictsAreTrue == Spec => []VerdictsAreTheRuns
<1>1. IInv => VerdictsAreTheRuns
  <2> SUFFICES ASSUME IInv, NEW t \in Tabs
               PROVE  /\ page[t] = "source" => LET w == watch[t] IN
                           /\ IsPrefix(w.seen, hand[w.run].results)
                           /\ w.verdict # None => w.verdict = hand[w.run].results[1]
                      /\ store[t].queue # None => \A i \in DOMAIN store[t].queue.done :
                           LET d == store[t].queue.done[i] IN
                           d.case = hand[d.of].plan[1] /\ d.verdict = hand[d.of].results[1]
                      /\ report[t] # None =>
                           /\ report[t].plan = hand[report[t].run].plan
                           /\ report[t].results = hand[report[t].run].results
    BY DEF VerdictsAreTheRuns
  <2>1. TabFits(page[t], store[t], work[t], watch[t], report[t], hand)
    BY DEF IInv, TabsFit
  <2>2. page[t] = "source" => WatchFits(watch[t], hand)
    BY <2>1 DEF TabFits
  <2>3. QueueFits(store[t].queue, hand)
    BY <2>1 DEF TabFits, StoreFits
  <2>4. report[t] # None => ReportFits(report[t], hand)
    BY <2>1 DEF TabFits
  <2>5. store[t].queue # None => \A i \in DOMAIN store[t].queue.done :
          EntryFits(store[t].queue.done[i], hand)
    BY <2>3 DEF QueueFits
  <2> QED  BY <2>2, <2>4, <2>5 DEF WatchFits, ReportFits, EntryFits
<1> QED  BY <1>1, Invariance, PTL

=============================================================================
