------------------------- MODULE CalibrationRunProofs -------------------------
(***************************************************************************)
(* Proofs about a calibration run, for every number of cases and documents: *)
(* one inference and one execution per case, rows that tell the truth, and  *)
(* an index that shows what is sealed and paid.                             *)
(***************************************************************************)
EXTENDS CalibrationRun, FiniteSetTheorems, SequenceTheorems, TLAPS

Requests == {"none", "recover", "reveal", "confirm", "issue", "decide", "act", "native",
             "execute", "complete", "acknowledge", "over", "crashed"}
Steps == {"start", "owner", "look", "authorize", "grant", "infer", "record", "doubt", "admit",
          "seal", "settle", "advance"}
Results == {"none", "executed", "failed", "clarified", "drifted", "indeterminate"}
Undispatched == {"clarified", "drifted"}
RowRecords == [doc : 1 .. EarlierDoc, result : Results]

RunTypes ==
  /\ index \in Seq(RowRecords) /\ owner \in 0 .. EarlierDoc
  /\ decision \in [Ordinals -> {"none", "call", "clarify"}]
  /\ native \in [Ordinals -> 0 .. EarlierDoc]
  /\ completion \in [Ordinals -> Seq(RowRecords)]
  /\ phase \in [Ordinals -> {"idle", "pending", "doubtful", "settled"}]
  /\ inferences \in [Ordinals -> {0, 1}] /\ executions \in [Ordinals -> {0, 1}]
  /\ request \in [Docs -> Requests] /\ step \in [Docs -> Steps]
  /\ marker \in [Docs -> Seq(RowRecords)] /\ result \in [Docs -> Results]

\* The rows s are a completion record, or there are none yet.
Shown(s) == s # <<>> => Len(s) \in Ordinals /\ s = completion[Len(s)]

\* Each completion record extends the one before it.
Chained ==
  \A o \in Ordinals : completion[o] # <<>> =>
    Len(completion[o]) = o /\ (o > 1 => SubSeq(completion[o], 1, o - 1) = completion[o - 1])

Paid ==
  /\ \A o \in 1 .. Revision : phase[o] = "settled"
  /\ \A o \in Ordinals : phase[o] # "idle" => o <= Revision + 1

AskedOnce ==
  \A o \in Ordinals :
    /\ phase[o] = "idle" => inferences[o] = 0
    /\ decision[o] # "none" => inferences[o] = 1

Truthful ==
  \A o \in Ordinals :
    /\ native[o] = NoDoc => executions[o] = 0
    /\ completion[o] # <<>> /\ completion[o][o].result = "executed" =>
         executions[o] = 1 /\ native[o] = completion[o][o].doc
    /\ completion[o] # <<>> /\ completion[o][o].result \in Undispatched => native[o] = NoDoc

Working(d) ==
  request[d] \in {"issue", "decide", "act", "native", "execute", "complete"}
  \/ step[d] \in {"settle", "advance"}

\* What a document may still rely on, wherever it is.
Stands(d) ==
  LET o == Ordinal(d) IN
  /\ Shown(marker[d])
  /\ Working(d) => o \in Ordinals
  /\ step[d] = "advance" => completion[o] # <<>> /\ phase[o] = "settled"
  /\ At(d, "decide", "infer") => phase[o] # "idle" /\ inferences[o] = 0
  /\ At(d, "decide", "record") => inferences[o] = 1
  /\ At(d, "native", "admit") /\ owner = d => completion[o] = <<>>
  /\ request[d] = "execute" => native[o] = d /\ executions[o] = 0
  /\ request[d] = "complete" /\ result[d] = "executed" => native[o] = d /\ executions[o] = 1
  /\ At(d, "complete", "seal") /\ result[d] \in Undispatched /\ owner = d => native[o] = NoDoc

OneAsks ==
  \A d, e \in Docs : /\ At(d, "decide", "infer") /\ At(e, "decide", "infer")
                     /\ Ordinal(d) = Ordinal(e)
                     => d = e

Recorded == Shown(index) /\ Chained /\ Paid /\ AskedOnce /\ Truthful
CInv == RunTypes /\ Recorded /\ (\A d \in Docs : Stands(d)) /\ OneAsks

-----------------------------------------------------------------------------
(* A step of one document.                                                   *)

\* A step of d leaves the other documents where they are.
OthersRest(d) ==
  \A e \in Docs : e # d =>
    request'[e] = request[e] /\ step'[e] = step[e] /\ marker'[e] = marker[e]
    /\ result'[e] = result[e]

\* Records are written once, and by whom; a call only moves on.
OnlyGrows(d) ==
  /\ owner' \in {owner, d}
  /\ \A o \in Ordinals :
       /\ completion'[o] = completion[o] \/ (completion[o] = <<>> /\ owner = d)
       /\ native'[o] = native[o] \/ (native[o] = NoDoc /\ owner = d)
       /\ phase[o] = "settled" => phase'[o] = "settled"
       /\ phase[o] # "idle" => phase'[o] # "idle"
       /\ inferences'[o] = inferences[o] \/ (At(d, "decide", "infer") /\ Ordinal(d) = o)
       /\ executions'[o] = executions[o] \/ (request[d] = "execute" /\ Ordinal(d) = o)

\* Nobody else is asking the model for the case of d.
AsksAlone(d) ==
  At(d, "decide", "infer")' =>
    \A e \in Docs : e # d /\ At(e, "decide", "infer") => Ordinal(e) # Ordinal(d)'

DocStep(d) == RunTypes' /\ Recorded' /\ OthersRest(d) /\ OnlyGrows(d) /\ AsksAlone(d)

LEMMA DocNumbers == /\ NoDoc \notin Docs /\ EarlierDoc \notin Docs /\ EarlierDoc # NoDoc
                    /\ \A d \in Docs : d \in 1 .. EarlierDoc /\ d \in 0 .. EarlierDoc
                    /\ EarlierDoc \in 0 .. EarlierDoc /\ NoDoc \in 0 .. EarlierDoc
                    /\ EarlierDoc \in 1 .. EarlierDoc
BY RunAssumption DEF RunAssumption, NoDoc, Docs, EarlierDoc

\* What a document relies on is not taken from it by a step of another.
LEMMA OthersStand ==
  ASSUME CInv, NEW d \in Docs, DocStep(d), NEW e \in Docs, e # d
  PROVE  Stands(e)'
<1> DEFINE o == Ordinal(e)
<1>1. Stands(e) /\ Stands(d) BY DEF CInv
<1>2. /\ request'[e] = request[e] /\ step'[e] = step[e] /\ marker'[e] = marker[e]
      /\ result'[e] = result[e] /\ Ordinal(e)' = o
  BY DEF DocStep, OthersRest, Ordinal
<1>3. marker[e] \in Seq(RowRecords) /\ marker[d] \in Seq(RowRecords)
  BY DEF CInv, RunTypes
<1>4. Shown(marker[e])'
  <2>1. CASE marker[e] = <<>> BY <2>1, <1>2 DEF Shown
  <2>2. CASE marker[e] # <<>>
    <3>1. Len(marker[e]) \in Ordinals /\ marker[e] = completion[Len(marker[e])]
      BY <2>2, <1>1 DEF Stands, Shown
    <3>2. completion'[Len(marker[e])] = completion[Len(marker[e])]
      BY <3>1, <2>2 DEF DocStep, OnlyGrows
    <3> QED BY <3>1, <3>2, <1>2 DEF Shown
  <2> QED BY <2>1, <2>2
<1>5. (Working(e) => o \in Ordinals)'
  BY <1>1, <1>2 DEF Stands, Working
<1>6. CASE ~Working(e)
  BY <1>6, <1>4, <1>5, <1>2 DEF Stands, Working, At
<1>7. CASE Working(e)
  <2>1. o \in Ordinals BY <1>7, <1>1 DEF Stands
  <2>2. /\ completion'[o] = completion[o] \/ (completion[o] = <<>> /\ owner = d)
        /\ native'[o] = native[o] \/ (native[o] = NoDoc /\ owner = d)
        /\ phase[o] = "settled" => phase'[o] = "settled"
        /\ phase[o] # "idle" => phase'[o] # "idle"
        /\ inferences'[o] = inferences[o] \/ (At(d, "decide", "infer") /\ Ordinal(d) = o)
        /\ executions'[o] = executions[o] \/ (request[d] = "execute" /\ Ordinal(d) = o)
        /\ owner' \in {owner, d}
    BY <2>1 DEF DocStep, OnlyGrows
  <2>3. At(e, "decide", "infer") => ~(At(d, "decide", "infer") /\ Ordinal(d) = o)
    BY DEF CInv, OneAsks
  <2>4. (step[e] = "advance" => completion[o] # <<>> /\ phase[o] = "settled")'
    BY <2>2, <1>1, <1>2 DEF Stands
  <2>5. (At(e, "decide", "infer") => phase[o] # "idle" /\ inferences[o] = 0)'
    BY <2>2, <2>3, <1>1, <1>2 DEF Stands, At
  <2>6. (At(e, "decide", "record") => inferences[o] = 1)'
    BY <2>2, <1>1, <1>2 DEF Stands, At
  <2>7. (At(e, "native", "admit") /\ owner = e => completion[o] = <<>>)'
    BY <2>2, <1>1, <1>2 DEF Stands, At
  <2>8. (request[e] = "execute" => native[o] = e /\ executions[o] = 0)'
    BY <2>2, <1>1, <1>2, DocNumbers DEF Stands
  <2>9. (request[e] = "complete" /\ result[e] = "executed" => native[o] = e /\ executions[o] = 1)'
    BY <2>2, <1>1, <1>2, DocNumbers DEF Stands
  <2>10. (At(e, "complete", "seal") /\ result[e] \in Undispatched /\ owner = e
            => native[o] = NoDoc)'
    BY <2>2, <1>1, <1>2 DEF Stands, At, Undispatched
  <2> QED BY <1>4, <1>5, <2>4, <2>5, <2>6, <2>7, <2>8, <2>9, <2>10 DEF Stands
<1> QED BY <1>6, <1>7

LEMMA DocKeeps ==
  ASSUME CInv, NEW d \in Docs, DocStep(d), Stands(d)'
  PROVE  CInv'
<1>1. (\A e \in Docs : Stands(e))' BY OthersStand
<1>2. OneAsks'
  <2> SUFFICES ASSUME NEW a \in Docs, NEW b \in Docs, a # b, At(a, "decide", "infer")',
                      At(b, "decide", "infer")'
               PROVE  Ordinal(a)' # Ordinal(b)'
    BY DEF OneAsks
  <2>1. \A e \in Docs : e # d => /\ At(e, "decide", "infer")' => At(e, "decide", "infer")
                                 /\ Ordinal(e)' = Ordinal(e)
    BY DEF DocStep, OthersRest, At, Ordinal
  <2>2. CASE a = d BY <2>1, <2>2 DEF DocStep, AsksAlone
  <2>3. CASE b = d BY <2>1, <2>3 DEF DocStep, AsksAlone
  <2>4. CASE a # d /\ b # d BY <2>1, <2>4 DEF CInv, OneAsks
  <2> QED BY <2>2, <2>3, <2>4
<1> QED BY <1>1, <1>2 DEF CInv, DocStep

-----------------------------------------------------------------------------
(* How a document gets from step to step.                                    *)

\* Where document d is after the step: its request and its step.
Now(d, r, s) ==
  /\ request' \in [Docs -> Requests] /\ step' \in [Docs -> Steps]
  /\ \A e \in Docs : e # d => request'[e] = request[e] /\ step'[e] = step[e]
  /\ request'[d] = r /\ step'[d] = s

LEMMA Making ==
  ASSUME CInv, NEW d \in Docs, NEW r \in Requests, Makes(d, r)
  PROVE  Now(d, r, "start")
BY DEF CInv, RunTypes, Makes, Now, Steps

LEMMA Going ==
  ASSUME CInv, NEW d \in Docs, NEW s \in Steps, Goes(d, s)
  PROVE  Now(d, request[d], s)
BY DEF CInv, RunTypes, Goes, Now

LEMMA Ending ==
  ASSUME CInv, NEW d \in Docs, Ends(d)
  PROVE  Now(d, "over", "start")
BY Making DEF Ends, Requests

\* A refused request ends the document, or its case as a failed execution.
LEMMA Refusing ==
  ASSUME CInv, NEW d \in Docs, Refused(d)
  PROVE  /\ \/ Now(d, "over", "start") /\ result' = result
            \/ /\ request[d] = "native" /\ Now(d, "complete", "start")
               /\ result'[d] = "failed"
               /\ \A e \in Docs : e # d => result'[e] = result[e]
         /\ result' \in [Docs -> Results]
<1>1. result \in [Docs -> Results] BY DEF CInv, RunTypes
<1>2. CASE request[d] = "native"
  <2>1. Makes(d, "complete") /\ result' = [result EXCEPT ![d] = "failed"]
    BY <1>2 DEF Refused
  <2>2. Now(d, "complete", "start") BY <2>1, Making DEF Requests
  <2> QED BY <2>1, <2>2, <1>1, <1>2 DEF Results
<1>3. CASE request[d] # "native"
  <2>1. Ends(d) /\ result' = result BY <1>3 DEF Refused
  <2> QED BY <2>1, Ending, <1>1
<1> QED BY <1>2, <1>3

\* A step that writes no record, for whichever reason.
Writes == <<index, decision, native, completion, phase, inferences, executions>>

LEMMA Moves ==
  ASSUME CInv, NEW d \in Docs, UNCHANGED Writes, owner' \in {owner, d},
         NEW r, NEW s, Now(d, r, s), ~(r = "decide" /\ s = "infer"),
         marker' \in [Docs -> Seq(RowRecords)], result' \in [Docs -> Results],
         \A e \in Docs : e # d => marker'[e] = marker[e] /\ result'[e] = result[e],
         Stands(d)'
  PROVE  CInv'
<1>1. OthersRest(d) BY DEF Now, OthersRest
<1>2. OnlyGrows(d) BY DEF Writes, OnlyGrows
<1>3. AsksAlone(d) BY DEF AsksAlone, Now, At
<1>4. RunTypes' BY DocNumbers DEF CInv, RunTypes, Writes, Now
<1>5. Recorded'
  BY DEF CInv, Writes, Recorded, Shown, Chained, Paid, AskedOnce, Truthful, Revision
<1> QED BY <1>1, <1>2, <1>3, <1>4, <1>5, DocKeeps DEF DocStep

\* The same for a step after which the document still holds the rows and the
\* result it held.
LEMMA Proceeds ==
  ASSUME CInv, NEW d \in Docs, UNCHANGED Writes, owner' \in {owner, d},
         NEW r, NEW s, Now(d, r, s), ~(r = "decide" /\ s = "infer"),
         UNCHANGED <<marker, result>>, Stands(d)'
  PROVE  CInv'
BY Moves DEF CInv, RunTypes

\* At the start of a request a document relies on little.
LEMMA StandsFresh ==
  ASSUME CInv, NEW d \in Docs, UNCHANGED Writes, UNCHANGED marker,
         NEW r, NEW s, Now(d, r, s), s \in {"start", "owner", "look", "authorize", "grant"},
         r \in {"issue", "decide", "act", "native", "complete"} => Working(d),
         r # "execute",
         r = "complete" /\ result'[d] = "executed" =>
           request[d] = "complete" /\ result[d] = "executed"
  PROVE  Stands(d)'
<1>1. Stands(d) BY DEF CInv
<1>2. request'[d] = r /\ step'[d] = s /\ Ordinal(d)' = Ordinal(d) /\ marker' = marker
      /\ completion' = completion /\ native' = native /\ executions' = executions
  BY DEF Now, Ordinal, Writes
<1> QED BY <1>1, <1>2 DEF Stands, Working, At, Shown

-----------------------------------------------------------------------------
(* The steps that write no record.                                           *)

LEMMA UnchangedWrites ==
  ASSUME UNCHANGED <<index, records, phase, history>>
  PROVE  UNCHANGED Writes
BY DEF records, history, Writes

\* A request that is refused before it has written.
LEMMA RefusalKeeps ==
  ASSUME CInv, NEW d \in Docs, UNCHANGED Writes, UNCHANGED marker, owner' = owner, Refused(d)
  PROVE  CInv'
<1>1. marker \in [Docs -> Seq(RowRecords)] BY DEF CInv, RunTypes
<1>2. CASE Now(d, "over", "start") /\ result' = result
  <2>1. Stands(d)' BY <1>2, StandsFresh
  <2> QED BY <1>2, <2>1, Proceeds
<1>3. CASE /\ request[d] = "native" /\ Now(d, "complete", "start")
           /\ result'[d] = "failed"
           /\ \A e \in Docs : e # d => result'[e] = result[e]
  <2>1. Stands(d)' BY <1>3, StandsFresh DEF Working
  <2>2. result' \in [Docs -> Results] BY Refusing
  <2> QED BY <1>1, <1>3, <2>1, <2>2, Moves
<1> QED BY <1>2, <1>3, Refusing

\* A document that ends.
LEMMA EndKeeps ==
  ASSUME CInv, NEW d \in Docs, UNCHANGED Writes, UNCHANGED <<marker, result>>, owner' = owner,
         Ends(d)
  PROVE  CInv'
<1>1. Now(d, "over", "start") BY Ending
<1>2. Stands(d)' BY <1>1, StandsFresh
<1> QED BY <1>1, <1>2, Proceeds

\* A document whose request goes on, or that makes its next one.
Early == {"start", "owner", "look", "authorize", "grant"}

LEMMA GoKeeps ==
  ASSUME CInv, NEW d \in Docs, UNCHANGED Writes, UNCHANGED <<marker, result>>,
         owner' \in {owner, d}, NEW s \in Early, Goes(d, s), request[d] # "execute"
  PROVE  CInv'
<1>1. Now(d, request[d], s) BY Going DEF Early, Steps
<1>2. Stands(d)' BY <1>1, StandsFresh DEF Early, Working
<1> QED BY <1>1, <1>2, Proceeds DEF Early

LEMMA MakeKeeps ==
  ASSUME CInv, NEW d \in Docs, UNCHANGED Writes, UNCHANGED <<marker, result>>,
         owner' = owner, NEW r \in Requests, Makes(d, r), r \notin {"execute", "complete"},
         r \in {"issue", "decide", "act", "native"} => Working(d)
  PROVE  CInv'
<1>1. Now(d, r, "start") BY Making
<1>2. Stands(d)' BY <1>1, StandsFresh
<1> QED BY <1>1, <1>2, Proceeds

LEMMA ReadGuardKeeps == ASSUME CInv, NEW d \in Docs, ReadGuard(d) PROVE CInv'
<1>1. /\ UNCHANGED Writes /\ marker' = marker /\ owner' = owner /\ request[d] # "execute"
  BY DEF ReadGuard, indexVars, records, guard, history, Writes, ownerVars, Recovering
<1>2. CASE GuardOpen BY <1>1, <1>2, GoKeeps DEF ReadGuard, Early
<1>3. CASE ~GuardOpen BY <1>1, <1>3, RefusalKeeps DEF ReadGuard
<1> QED BY <1>2, <1>3

LEMMA AssertOwnerKeeps == ASSUME CInv, NEW d \in Docs, AssertOwner(d) PROVE CInv'
<1>1. /\ UNCHANGED Writes /\ marker' = marker /\ owner' = owner /\ request[d] # "execute"
  BY DEF AssertOwner, indexVars, records, guard, history, Writes, ownerVars
<1>2. CASE Owns(d) BY <1>1, <1>2, GoKeeps DEF AssertOwner, Early
<1>3. CASE ~Owns(d) BY <1>1, <1>3, RefusalKeeps DEF AssertOwner
<1> QED BY <1>2, <1>3

LEMMA OpenKeeps == ASSUME CInv, NEW d \in Docs, Open(d) PROVE CInv'
<1>1. /\ UNCHANGED Writes /\ UNCHANGED <<marker, result>> /\ owner' = owner
  BY DEF Open, indexVars, records, guard, history, Writes, ownerVars, client
<1>2. PICK r \in {"recover", "reveal"} : Makes(d, r) BY DEF Open
<1> QED BY <1>1, <1>2, MakeKeeps DEF Requests

LEMMA ClaimKeeps == ASSUME CInv, NEW d \in Docs, Claim(d) PROVE CInv'
<1>1. /\ UNCHANGED Writes /\ UNCHANGED <<marker, result>> /\ request[d] # "execute"
  BY DEF Claim, indexVars, records, guard, history, Writes, client, Recovering
<1>2. CASE owner' = d /\ Goes(d, "look") BY <1>1, <1>2, GoKeeps DEF Early
<1>3. CASE Ends(d) /\ UNCHANGED ownerVars BY <1>1, <1>3, EndKeeps DEF ownerVars
<1> QED BY <1>2, <1>3 DEF Claim

LEMMA AuthorizeKeeps == ASSUME CInv, NEW d \in Docs, Authorize(d) PROVE CInv'
<1>1. /\ UNCHANGED Writes /\ UNCHANGED <<marker, result>> /\ owner' = owner /\ Working(d)
  BY DEF Authorize, At, indexVars, records, guard, history, Writes, ownerVars, client, Working
<1>2. CASE Makes(d, "decide") BY <1>1, <1>2, MakeKeeps DEF Requests
<1>3. CASE Ends(d) BY <1>1, <1>3, EndKeeps
<1> QED BY <1>2, <1>3 DEF Authorize

LEMMA DecideLookKeeps == ASSUME CInv, NEW d \in Docs, DecideLook(d) PROVE CInv'
<1>1. /\ UNCHANGED Writes /\ UNCHANGED <<marker, result>> /\ owner' = owner /\ Working(d)
      /\ request[d] # "execute"
  BY DEF DecideLook, At, indexVars, records, guard, history, Writes, ownerVars, client, Working
<1>2. CASE Makes(d, "act") BY <1>1, <1>2, MakeKeeps DEF Requests
<1>3. CASE Goes(d, "grant") BY <1>1, <1>3, GoKeeps DEF Early
<1>4. CASE Ends(d) BY <1>1, <1>4, EndKeeps
<1> QED BY <1>2, <1>3, <1>4 DEF DecideLook

LEMMA AcknowledgeKeeps == ASSUME CInv, NEW d \in Docs, Acknowledge(d) PROVE CInv'
<1>1. /\ UNCHANGED Writes /\ UNCHANGED <<marker, result>> /\ owner' = owner
  BY DEF Acknowledge, records, guard, history, Writes, ownerVars, client
<1> QED BY <1>1, EndKeeps DEF Acknowledge

LEMMA CrashKeeps == ASSUME CInv, NEW d \in Docs, Crash(d) PROVE CInv'
<1>1. /\ UNCHANGED Writes /\ UNCHANGED <<marker, result>> /\ owner' = owner
  BY DEF Crash, indexVars, records, guard, history, Writes, ownerVars, client
<1> QED BY <1>1, MakeKeeps DEF Crash, Requests

LEMMA ActKeeps == ASSUME CInv, NEW d \in Docs, Act(d) PROVE CInv'
<1>1. /\ UNCHANGED Writes /\ marker' = marker /\ owner' = owner /\ Working(d)
      /\ marker \in [Docs -> Seq(RowRecords)] /\ result \in [Docs -> Results]
  BY DEF Act, indexVars, records, guard, history, Writes, ownerVars, Working, CInv, RunTypes
<1>2. CASE Makes(d, "native") /\ UNCHANGED result BY <1>1, <1>2, MakeKeeps DEF Requests
<1>3. CASE /\ Makes(d, "complete")
           /\ result' = [result EXCEPT ![d] =
                IF decision[Ordinal(d)] = "clarify" THEN "clarified" ELSE "drifted"]
  <2>1. Now(d, "complete", "start") BY <1>3, Making DEF Requests
  <2>2. /\ result' \in [Docs -> Results] /\ result'[d] # "executed"
        /\ \A e \in Docs : e # d => result'[e] = result[e]
    BY <1>1, <1>3 DEF Results
  <2>3. Stands(d)' BY <1>1, <2>1, <2>2, StandsFresh
  <2> QED BY <1>1, <2>1, <2>2, <2>3, Moves
<1> QED BY <1>2, <1>3 DEF Act

LEMMA NativeLookKeeps == ASSUME CInv, NEW d \in Docs, NativeLook(d) PROVE CInv'
<1>1. /\ UNCHANGED Writes /\ marker' = marker /\ owner' = owner /\ At(d, "native", "look")
      /\ Stands(d)
  BY DEF NativeLook, indexVars, records, guard, history, Writes, ownerVars, CInv
<1>2. CASE Refused(d) BY <1>1, <1>2, RefusalKeeps
<1>3. CASE Goes(d, "admit") /\ UNCHANGED result /\ completion[Ordinal(d)] = <<>>
  <2>1. Now(d, "native", "admit") BY <1>1, <1>3, Going DEF Steps, At
  <2>2. Ordinal(d)' = Ordinal(d) /\ completion' = completion
    BY <1>1 DEF Ordinal, Writes
  <2>3. Stands(d)' BY <1>1, <1>3, <2>1, <2>2 DEF Stands, Now, At, Working, Shown
  <2> QED BY <1>1, <1>3, <2>1, <2>3, Proceeds
<1> QED BY <1>2, <1>3 DEF NativeLook

LEMMA CompleteLookKeeps == ASSUME CInv, NEW d \in Docs, CompleteLook(d) PROVE CInv'
<1>1. /\ UNCHANGED Writes /\ UNCHANGED <<marker, result>> /\ owner' = owner
      /\ At(d, "complete", "look") /\ Stands(d)
  BY DEF CompleteLook, indexVars, records, guard, history, Writes, ownerVars, client, CInv
<1>2. CASE Ends(d) BY <1>1, <1>2, EndKeeps
<1>3. CASE Goes(d, "seal") /\ Evidence(d)
  <2>1. Now(d, "complete", "seal") BY <1>1, <1>3, Going DEF Steps, At
  <2>2. /\ Ordinal(d)' = Ordinal(d) /\ completion' = completion /\ native' = native
        /\ executions' = executions
    BY <1>1 DEF Ordinal, Writes
  <2>3. result[d] \in Undispatched => native[Ordinal(d)] = NoDoc
    BY <1>3 DEF Evidence, Undispatched
  <2>4. Stands(d)' BY <1>1, <1>3, <2>1, <2>2, <2>3 DEF Stands, Now, At, Working, Shown
  <2> QED BY <1>1, <1>3, <2>1, <2>4, Proceeds
<1> QED BY <1>2, <1>3 DEF CompleteLook

\* What a recovery answers with.
LEMMA RecoveredKeeps ==
  ASSUME CInv, NEW d \in Docs, NEW rows \in Seq(RowRecords), Shown(rows),
         Recovered(d, rows), Recovering(d)
  PROVE  /\ \E r \in Requests : Now(d, r, "start")
         /\ marker' \in [Docs -> Seq(RowRecords)] /\ marker'[d] = rows
         /\ \A e \in Docs : e # d => marker'[e] = marker[e]
         /\ ~(At(d, "decide", "infer")')
         /\ UNCHANGED <<completion, result>> => Stands(d)'
<1> DEFINE r == NextRequest(request[d], rows)
<1>1. r \in Requests /\ r \in {"issue", "confirm", "acknowledge", "over"}
      /\ (r = "issue" => Len(rows) # Cases)
  BY DEF NextRequest, Requests
<1>2. Now(d, r, "start") BY <1>1, Making DEF Recovered
<1>3. marker \in [Docs -> Seq(RowRecords)] BY DEF CInv, RunTypes
<1>4. /\ marker' \in [Docs -> Seq(RowRecords)] /\ marker'[d] = rows
      /\ \A e \in Docs : e # d => marker'[e] = marker[e]
  BY <1>3 DEF Recovered
<1>5. request'[d] = r /\ step'[d] = "start" BY <1>2 DEF Now
<1> HIDE DEF r
<1>6. r = "issue" => Len(rows) + 1 \in Ordinals
  <2>1. rows = <<>> => Len(rows) = 0 OBVIOUS
  <2>2. Len(rows) \in Nat /\ Cases \in Nat \ {0} BY RunAssumption DEF RunAssumption
  <2>3. rows = <<>> \/ Len(rows) \in 1 .. Cases BY DEF Shown, Ordinals
  <2> QED BY <2>1, <2>2, <2>3, <1>1 DEF Ordinals
<1>7. UNCHANGED <<completion, result>> => Stands(d)'
  BY <1>1, <1>4, <1>5, <1>6 DEF Stands, Working, At, Shown, Ordinal
<1> QED BY <1>1, <1>2, <1>4, <1>5, <1>7 DEF At

LEMMA ReconcileKeeps == ASSUME CInv, NEW d \in Docs, Reconcile(d) PROVE CInv'
<1>1. /\ UNCHANGED Writes /\ result' = result /\ owner' = owner /\ Recovering(d)
      /\ completion' = completion
      /\ marker \in [Docs -> Seq(RowRecords)] /\ result \in [Docs -> Results]
      /\ index \in Seq(RowRecords) /\ Shown(index)
  BY DEF Reconcile, indexVars, records, guard, history, Writes, ownerVars, CInv, RunTypes,
         Recorded
<1>2. CASE Ends(d) /\ UNCHANGED marker BY <1>1, <1>2, EndKeeps
<1>3. CASE Recovered(d, index)
  <2>1. PICK r \in Requests : Now(d, r, "start") BY <1>1, <1>3, RecoveredKeeps
  <2>2. /\ marker' \in [Docs -> Seq(RowRecords)] /\ Stands(d)'
        /\ \A e \in Docs : e # d => marker'[e] = marker[e]
    BY <1>1, <1>3, RecoveredKeeps
  <2> QED BY <1>1, <2>1, <2>2, Moves
<1>4. CASE /\ Goes(d, "settle") /\ marker' = [marker EXCEPT ![d] = index]
           /\ Revision # Cases
  <2>1. Now(d, request[d], "settle") BY <1>4, Going DEF Steps
  <2>2. /\ marker' \in [Docs -> Seq(RowRecords)] /\ marker'[d] = index
        /\ \A e \in Docs : e # d => marker'[e] = marker[e]
    BY <1>1, <1>4
  <2>3. Len(index) + 1 \in Ordinals
    <3>1. index = <<>> => Len(index) = 0 OBVIOUS
    <3>2. Len(index) \in Nat /\ Cases \in Nat \ {0} BY <1>1, RunAssumption DEF RunAssumption
    <3>3. index = <<>> \/ Len(index) \in 1 .. Cases BY <1>1 DEF Shown, Ordinals
    <3> QED BY <3>1, <3>2, <3>3, <1>4 DEF Ordinals, Revision
  <2>4. Stands(d)'
    BY <1>1, <2>1, <2>2, <2>3 DEF Stands, Working, At, Shown, Ordinal, Now, Recovering
  <2> QED BY <1>1, <2>1, <2>2, <2>4, Moves
<1> QED
  <2> DEFINE ahead == seen[d].calls - Revision
             caught == \/ ~seen[d].idle /\ ahead = 1 /\ ~(Revision = Cases)
                       \/ seen[d].idle /\ ahead = 0
             behind == seen[d].idle /\ ahead = 1 /\ ~(Revision = Cases)
  <2> HIDE DEF ahead
  <2>1. CASE run # "active" BY <2>1, <1>2 DEF Reconcile
  <2>2. CASE run = "active" /\ caught BY <2>2, <1>3 DEF Reconcile, ahead
  <2>3. CASE run = "active" /\ ~caught /\ behind BY <2>3, <1>4 DEF Reconcile, ahead
  <2>4. CASE run = "active" /\ ~caught /\ ~behind BY <2>4, <1>2 DEF Reconcile, ahead
  <2> QED BY <2>1, <2>2, <2>3, <2>4

-----------------------------------------------------------------------------
(* The guard.                                                                *)

Phases == {"idle", "pending", "doubtful", "settled"}

\* One call moves on in the guard.
LEMMA PhaseSteps ==
  ASSUME CInv, NEW d \in Docs, NEW o \in Ordinals, NEW p \in {"pending", "doubtful", "settled"},
         phase' = [phase EXCEPT ![o] = p],
         phase[o] = "settled" => p = "settled",
         phase[o] = "idle" => o = Revision + 1,
         UNCHANGED <<index, decision, native, completion, inferences, executions, marker, result>>,
         owner' = owner,
         NEW r, NEW s, Now(d, r, s),
         AsksAlone(d), Stands(d)'
  PROVE  CInv'
<1>1. OthersRest(d) BY DEF Now, OthersRest
<1>2. phase \in [Ordinals -> Phases] BY DEF CInv, RunTypes, Phases
<1>3. /\ phase' \in [Ordinals -> Phases] /\ phase'[o] = p /\ p # "idle"
      /\ \A c \in Ordinals : c # o => phase'[c] = phase[c]
  BY <1>2 DEF Phases
<1>4. OnlyGrows(d) BY <1>3 DEF OnlyGrows
<1>5. RunTypes' BY <1>3 DEF CInv, RunTypes, Now, Phases
<1>6. index \in Seq(RowRecords) /\ Revision' = Revision BY DEF CInv, RunTypes, Revision
<1>7. Recorded'
  <2>1. Shown(index)' /\ Chained' /\ Truthful'
    BY DEF CInv, Recorded, Shown, Chained, Truthful
  <2>2. AskedOnce' BY <1>3 DEF CInv, Recorded, AskedOnce
  <2>3. Paid'
    <3>1. ASSUME NEW c \in 1 .. Revision PROVE phase'[c] = "settled"
      <4>1. Revision \in Nat BY <1>6 DEF Revision
      <4>2. Revision <= Cases
        <5>1. index = <<>> => Len(index) = 0 OBVIOUS
        <5> QED BY <5>1, RunAssumption DEF CInv, Recorded, Shown, Ordinals, Revision,
                                           RunAssumption
      <4>3. c \in Ordinals
        BY <4>1, <4>2, RunAssumption DEF Ordinals, RunAssumption
      <4>4. phase[c] = "settled" BY DEF CInv, Recorded, Paid
      <4> QED BY <4>3, <4>4, <1>3
    <3>2. ASSUME NEW c \in Ordinals, phase'[c] # "idle" PROVE c <= Revision + 1
      <4>1. CASE c = o /\ phase[o] = "idle"
        <5>1. c \in Int /\ Revision \in Nat BY <1>6 DEF Ordinals, Revision
        <5> QED BY <4>1, <5>1
      <4>2. CASE ~(c = o /\ phase[o] = "idle")
        BY <4>2, <3>2, <1>3 DEF CInv, Recorded, Paid
      <4> QED BY <4>1, <4>2
    <3> QED BY <3>1, <3>2, <1>6 DEF Paid
  <2> QED BY <2>1, <2>2, <2>3 DEF Recorded
<1> QED BY <1>1, <1>4, <1>5, <1>7, DocKeeps DEF DocStep

\* Settling a sealed case, by whoever finds it sealed.
LEMMA SettleKeeps ==
  ASSUME CInv, NEW d \in Docs, NEW o \in Ordinals, Settle(o), phase[o] # "idle",
         UNCHANGED <<index, decision, native, completion, inferences, executions, marker, result>>,
         owner' = owner, NEW r, NEW s, Now(d, r, s), ~(r = "decide" /\ s = "infer"),
         phase'[o] = "settled" /\ (\A c \in Ordinals : c # o => phase'[c] = phase[c])
           => Stands(d)'
  PROVE  CInv'
<1>1. phase \in [Ordinals -> Phases] BY DEF CInv, RunTypes, Phases
<1>2. phase' = [phase EXCEPT ![o] = "settled"]
  <2>1. CASE phase[o] \in {"pending", "doubtful"} /\ Budget!Settle(o)
    BY <2>1 DEF Budget!Settle
  <2>2. CASE phase[o] = "settled" /\ phase' = phase BY <2>2, <1>1
  <2> QED BY <2>1, <2>2 DEF Settle
<1>3. Stands(d)' BY <1>1, <1>2
<1>4. AsksAlone(d) BY DEF AsksAlone, Now, At
<1> QED BY <1>2, <1>3, <1>4, PhaseSteps

LEMMA IssueLookKeeps == ASSUME CInv, NEW d \in Docs, IssueLook(d) PROVE CInv'
<1> DEFINE o == Ordinal(d)
<1>1. /\ UNCHANGED <<index, decision, native, completion, inferences, executions, marker, result>>
      /\ owner' = owner /\ At(d, "issue", "look") /\ Stands(d) /\ Working(d) /\ o \in Ordinals
      /\ request[d] # "execute"
  BY DEF IssueLook, indexVars, records, history, ownerVars, client, CInv, Stands, At, Working
<1>2. CASE UNCHANGED guard /\ Ends(d) BY <1>1, <1>2, EndKeeps DEF Writes, guard
<1>3. CASE completion[o] # <<>> /\ phase[o] # "idle" /\ Settle(o) /\ Ends(d)
  <2>1. Now(d, "over", "start") BY <1>3, Ending
  <2>2. Stands(d)' BY <1>1, <2>1 DEF Stands, Shown, Working, At, Now
  <2> QED BY <1>1, <1>3, <2>1, <2>2, SettleKeeps
<1>4. CASE UNCHANGED guard /\ Goes(d, "authorize")
  BY <1>1, <1>4, GoKeeps DEF Writes, guard, Early
<1>5. CASE UNCHANGED guard /\ Makes(d, "decide")
  BY <1>1, <1>5, MakeKeeps DEF Writes, guard, Requests
<1> QED
  <2>1. CASE completion[o] # <<>> BY <2>1, <1>2, <1>3 DEF IssueLook
  <2>2. CASE completion[o] = <<>> BY <2>2, <1>2, <1>4, <1>5 DEF IssueLook
  <2> QED BY <2>1, <2>2

LEMMA SettleSealedKeeps == ASSUME CInv, NEW d \in Docs, SettleSealed(d) PROVE CInv'
<1> DEFINE o == Ordinal(d)
<1>1. /\ UNCHANGED <<index, decision, native, completion, inferences, executions, marker, result>>
      /\ owner' = owner /\ step[d] = "settle" /\ Stands(d) /\ o \in Ordinals
      /\ request[d] # "execute" /\ request[d] # "decide" /\ o' = o
  BY DEF SettleSealed, indexVars, records, history, ownerVars, client, CInv, Stands, At, Working,
         Recovering, Ordinal
<1>2. CASE UNCHANGED guard /\ Ends(d) BY <1>1, <1>2, EndKeeps DEF Writes, guard
<1>3. CASE completion[o] # <<>> /\ phase[o] # "idle" /\ Settle(o) /\ Goes(d, "advance")
  <2>1. Now(d, request[d], "advance") BY <1>3, Going DEF Steps
  <2>2. phase'[o] = "settled" => Stands(d)'
    BY <1>1, <1>3, <2>1 DEF Stands, Shown, Working, At, Now
  <2> QED BY <1>1, <1>3, <2>1, <2>2, SettleKeeps
<1> QED
  <2>1. CASE completion[o] # <<>> /\ phase[o] # "idle" BY <2>1, <1>3 DEF SettleSealed
  <2>2. CASE ~(completion[o] # <<>> /\ phase[o] # "idle") BY <2>2, <1>2 DEF SettleSealed
  <2> QED BY <2>1, <2>2

LEMMA GrantKeeps == ASSUME CInv, NEW d \in Docs, Grant(d) PROVE CInv'
<1> DEFINE o == Ordinal(d)
<1>1. /\ UNCHANGED <<index, decision, native, completion, inferences, executions, marker, result>>
      /\ owner' = owner /\ At(d, "decide", "grant") /\ Stands(d) /\ o \in Ordinals /\ o' = o
  BY DEF Grant, indexVars, records, history, ownerVars, client, CInv, Stands, At, Working, Ordinal
<1>2. CASE UNCHANGED <<phase, cost>> /\ Ends(d) BY <1>1, <1>2, EndKeeps DEF Writes
<1>3. CASE Grantable(d) /\ Budget!Make(o) /\ Goes(d, "infer")
  <2>1. Now(d, "decide", "infer") BY <1>1, <1>3, Going DEF Steps, At
  <2>2. phase[o] = "idle" /\ phase' = [phase EXCEPT ![o] = "pending"]
    BY <1>3 DEF Budget!Make
  <2>3. o = Revision + 1 BY <1>3 DEF Grantable, Admitted, Ordinal
  <2>4. phase'[o] = "pending" BY <2>2, <1>1 DEF CInv, RunTypes
  <2>5. inferences[o] = 0 BY <2>2, <1>1 DEF CInv, Recorded, AskedOnce
  <2>6. AsksAlone(d) BY <2>2, <1>1 DEF AsksAlone, CInv, Stands
  <2>7. Stands(d)' BY <1>1, <2>1, <2>4, <2>5 DEF Stands, Shown, Working, At, Now
  <2> QED BY <1>1, <2>1, <2>2, <2>3, <2>6, <2>7, PhaseSteps
<1> QED BY <1>2, <1>3 DEF Grant

LEMMA DoubtKeeps == ASSUME CInv, NEW d \in Docs, Doubt(d) PROVE CInv'
<1> DEFINE o == Ordinal(d)
<1>1. /\ UNCHANGED <<index, decision, native, completion, inferences, executions, marker, result>>
      /\ owner' = owner /\ At(d, "decide", "doubt") /\ Stands(d) /\ o \in Ordinals /\ Ends(d)
  BY DEF Doubt, indexVars, records, history, ownerVars, client, CInv, Stands, At, Working
<1>2. CASE phase[o] = "pending" /\ Quarantines(o)
  <2>1. Now(d, "over", "start") BY <1>1, Ending
  <2>2. phase' = [phase EXCEPT ![o] = "doubtful"] BY <1>2 DEF Quarantines, Budget!Doubt
  <2>3. AsksAlone(d) BY <2>1 DEF AsksAlone, Now, At
  <2>4. Stands(d)' BY <1>1, <2>1 DEF Stands, Shown, Working, At, Now
  <2> QED BY <1>1, <1>2, <2>1, <2>2, <2>3, <2>4, PhaseSteps
<1>3. CASE UNCHANGED <<phase, cost>> BY <1>1, <1>3, EndKeeps DEF Writes
<1> QED BY <1>2, <1>3 DEF Doubt

-----------------------------------------------------------------------------
(* The model is asked, and its decision recorded.                            *)

LEMMA InferKeeps == ASSUME CInv, NEW d \in Docs, Infer(d) PROVE CInv'
<1> DEFINE o == Ordinal(d)
<1>1. /\ UNCHANGED <<index, decision, native, completion, phase, executions, marker, result>>
      /\ owner' = owner /\ At(d, "decide", "infer") /\ Stands(d) /\ o \in Ordinals /\ o' = o
      /\ phase[o] # "idle" /\ inferences[o] = 0
  BY DEF Infer, indexVars, records, guard, ownerVars, client, CInv, Stands, At, Working, Ordinal
<1>2. PICK s \in {"record", "doubt"} : Goes(d, s) BY DEF Infer
<1>3. Now(d, "decide", s) BY <1>1, <1>2, Going DEF Steps, At
<1>4. /\ inferences' \in [Ordinals -> {0, 1}] /\ inferences'[o] = 1
      /\ \A c \in Ordinals : c # o => inferences'[c] = inferences[c]
  <2>1. inferences' = [inferences EXCEPT ![o] = inferences[o] + 1] BY DEF Infer
  <2> QED BY <2>1, <1>1 DEF CInv, RunTypes
<1>5. OthersRest(d) BY <1>1, <1>3 DEF Now, OthersRest
<1>6. OnlyGrows(d) BY <1>1, <1>4 DEF OnlyGrows
<1>7. AsksAlone(d) BY <1>3 DEF AsksAlone, Now, At
<1>8. RunTypes' BY <1>1, <1>3, <1>4 DEF CInv, RunTypes, Now
<1>9. Recorded'
  <2>1. AskedOnce' BY <1>1, <1>4 DEF CInv, Recorded, AskedOnce
  <2>2. Shown(index)' /\ Chained' /\ Truthful' /\ Paid'
    BY <1>1 DEF CInv, Recorded, Shown, Chained, Truthful, Paid, Revision
  <2> QED BY <2>1, <2>2 DEF Recorded
<1>10. Stands(d)' BY <1>1, <1>3, <1>4 DEF Stands, Shown, Working, At, Now
<1> QED BY <1>5, <1>6, <1>7, <1>8, <1>9, <1>10, DocKeeps DEF DocStep

LEMMA RecordKeeps == ASSUME CInv, NEW d \in Docs, Record(d) PROVE CInv'
<1> DEFINE o == Ordinal(d)
<1>1. /\ UNCHANGED <<index, native, completion, phase, inferences, executions, marker, result>>
      /\ owner' = owner /\ At(d, "decide", "record") /\ Stands(d) /\ o \in Ordinals /\ o' = o
      /\ inferences[o] = 1
  BY DEF Record, indexVars, records, history, guard, ownerVars, client, CInv, Stands, At,
         Working, Ordinal
<1>2. PICK r \in {"act", "decide"}, s \in {"start", "doubt"} : Now(d, r, s)
  <2>1. CASE Makes(d, "act") BY <2>1, Making DEF Requests
  <2>2. CASE Goes(d, "doubt") BY <2>2, <1>1, Going DEF Steps, At
  <2> QED BY <2>1, <2>2 DEF Record
<1>3. /\ decision' \in [Ordinals -> {"none", "call", "clarify"}]
      /\ \A c \in Ordinals : c # o => decision'[c] = decision[c]
  <2>1. decision \in [Ordinals -> {"none", "call", "clarify"}] BY DEF CInv, RunTypes
  <2>2. CASE decision' = decision BY <2>1, <2>2
  <2>3. CASE \E kind \in {"call", "clarify"} : decision' = [decision EXCEPT ![o] = kind]
    BY <2>1, <2>3
  <2> QED BY <2>2, <2>3 DEF Record
<1>4. OthersRest(d) BY <1>1, <1>2 DEF Now, OthersRest
<1>5. OnlyGrows(d) BY <1>1 DEF OnlyGrows
<1>6. AsksAlone(d) BY <1>2 DEF AsksAlone, Now, At
<1>7. RunTypes' BY <1>1, <1>2, <1>3 DEF CInv, RunTypes, Now
<1>8. Recorded'
  <2>1. AskedOnce' BY <1>1, <1>3 DEF CInv, Recorded, AskedOnce
  <2>2. Shown(index)' /\ Chained' /\ Truthful' /\ Paid'
    BY <1>1 DEF CInv, Recorded, Shown, Chained, Truthful, Paid, Revision
  <2> QED BY <2>1, <2>2 DEF Recorded
<1>9. Stands(d)' BY <1>1, <1>2 DEF Stands, Shown, Working, At, Now
<1> QED BY <1>4, <1>5, <1>6, <1>7, <1>8, <1>9, DocKeeps DEF DocStep

-----------------------------------------------------------------------------
(* The native admission and the execution.                                   *)

LEMMA AdmitKeeps == ASSUME CInv, NEW d \in Docs, Admit(d) PROVE CInv'
<1> DEFINE o == Ordinal(d)
<1>1. /\ UNCHANGED <<index, decision, completion, phase, inferences, executions, marker>>
      /\ owner' = owner /\ At(d, "native", "admit") /\ Stands(d) /\ o \in Ordinals /\ o' = o
  BY DEF Admit, indexVars, records, history, guard, ownerVars, CInv, Stands, At, Working,
         Ordinal
<1>2. /\ result \in [Docs -> Results] /\ marker \in [Docs -> Seq(RowRecords)]
      /\ native \in [Ordinals -> 0 .. EarlierDoc]
  BY DEF CInv, RunTypes
<1>3. CASE native' = native /\ Refused(d)
  BY <1>1, <1>3, RefusalKeeps DEF Writes
<1>4. CASE /\ Makes(d, "complete") /\ result' = [result EXCEPT ![d] = "indeterminate"]
           /\ native' = native
  <2>1. Now(d, "complete", "start") BY <1>4, Making DEF Requests
  <2>2. UNCHANGED Writes BY <1>1, <1>4 DEF Writes
  <2>3. /\ result' \in [Docs -> Results] /\ result'[d] # "executed"
        /\ \A e \in Docs : e # d => result'[e] = result[e]
    BY <1>2, <1>4 DEF Results
  <2>4. Stands(d)' BY <1>1, <2>1, <2>2, <2>3, StandsFresh DEF Working, At
  <2> QED BY <1>1, <1>2, <2>1, <2>2, <2>3, <2>4, Moves
<1>5. CASE /\ Admitted(d) /\ FirstAdmitted(o) /\ native' = [native EXCEPT ![o] = d]
           /\ \/ Makes(d, "execute") /\ result' = result
              \/ Refused(d)
  <2>1. /\ owner = d /\ native[o] = NoDoc /\ completion[o] = <<>> /\ executions[o] = 0
        /\ d # NoDoc
    BY <1>1, <1>5, DocNumbers DEF Admitted, Owns, FirstAdmitted, Stands, CInv, Recorded, Truthful
  <2>2. /\ native' \in [Ordinals -> 0 .. EarlierDoc] /\ native'[o] = d
        /\ \A c \in Ordinals : c # o => native'[c] = native[c]
    BY <1>1, <1>2, <1>5, DocNumbers
  <2>3. PICK r \in {"execute", "complete", "over"} :
          /\ Now(d, r, "start") /\ result' \in [Docs -> Results]
          /\ (r = "complete" => result'[d] = "failed")
          /\ \A e \in Docs : e # d => result'[e] = result[e]
    <3>1. CASE Makes(d, "execute") /\ result' = result
      BY <3>1, <1>2, Making DEF Requests
    <3>2. CASE Refused(d) BY <3>2, <1>2, Refusing
    <3> QED BY <1>5, <3>1, <3>2
  <2>4. OthersRest(d) BY <1>1, <2>3 DEF Now, OthersRest
  <2>5. OnlyGrows(d) BY <1>1, <2>1, <2>2 DEF OnlyGrows
  <2>6. AsksAlone(d) BY <2>3 DEF AsksAlone, Now, At
  <2>7. RunTypes' BY <1>1, <2>2, <2>3 DEF CInv, RunTypes, Now
  <2>8. Recorded'
    <3>1. Truthful' BY <1>1, <2>1, <2>2 DEF CInv, Recorded, Truthful
    <3>2. Shown(index)' /\ Chained' /\ AskedOnce' /\ Paid'
      BY <1>1 DEF CInv, Recorded, Shown, Chained, AskedOnce, Paid, Revision
    <3> QED BY <3>1, <3>2 DEF Recorded
  <2>9. Stands(d)' BY <1>1, <2>1, <2>2, <2>3 DEF Stands, Shown, Working, At, Now
  <2> QED BY <2>4, <2>5, <2>6, <2>7, <2>8, <2>9, DocKeeps DEF DocStep
<1> QED BY <1>3, <1>4, <1>5 DEF Admit

LEMMA ExecuteKeeps == ASSUME CInv, NEW d \in Docs, Execute(d) PROVE CInv'
<1> DEFINE o == Ordinal(d)
<1>1. /\ UNCHANGED <<index, decision, native, completion, phase, inferences, marker>>
      /\ owner' = owner /\ request[d] = "execute" /\ Stands(d) /\ o \in Ordinals /\ o' = o
      /\ native[o] = d /\ executions[o] = 0 /\ d # NoDoc
  BY DocNumbers DEF Execute, indexVars, records, guard, ownerVars, CInv, Stands, Working, Ordinal
<1>2. Now(d, "complete", "start") BY Making DEF Execute, Requests
<1>3. /\ result' \in [Docs -> Results] /\ \A e \in Docs : e # d => result'[e] = result[e]
  <2>1. result \in [Docs -> Results] BY DEF CInv, RunTypes
  <2>2. PICK x \in Results : result' = [result EXCEPT ![d] = x] BY DEF Execute, Results
  <2> QED BY <2>1, <2>2
<1>4. /\ executions' \in [Ordinals -> {0, 1}] /\ executions'[o] = 1
      /\ \A c \in Ordinals : c # o => executions'[c] = executions[c]
  <2>1. executions' = [executions EXCEPT ![o] = executions[o] + 1] BY DEF Execute
  <2> QED BY <2>1, <1>1 DEF CInv, RunTypes
<1>5. OthersRest(d) BY <1>1, <1>2, <1>3 DEF Now, OthersRest
<1>6. OnlyGrows(d) BY <1>1, <1>4 DEF OnlyGrows
<1>7. AsksAlone(d) BY <1>2 DEF AsksAlone, Now, At
<1>8. RunTypes' BY <1>1, <1>2, <1>3, <1>4 DEF CInv, RunTypes, Now
<1>9. Recorded'
  <2>1. Truthful' BY <1>1, <1>4 DEF CInv, Recorded, Truthful
  <2>2. Shown(index)' /\ Chained' /\ AskedOnce' /\ Paid'
    BY <1>1 DEF CInv, Recorded, Shown, Chained, AskedOnce, Paid, Revision
  <2> QED BY <2>1, <2>2 DEF Recorded
<1>10. Stands(d)' BY <1>1, <1>2, <1>4 DEF Stands, Shown, Working, At, Now
<1> QED BY <1>5, <1>6, <1>7, <1>8, <1>9, <1>10, DocKeeps DEF DocStep

-----------------------------------------------------------------------------
(* The row is sealed, and the index moves on.                                *)

\* A row added to the rows before it.
LEMMA RowAdded ==
  ASSUME NEW rows \in Seq(RowRecords), NEW row \in RowRecords
  PROVE  /\ Append(rows, row) \in Seq(RowRecords)
         /\ Append(rows, row) # <<>>
         /\ Len(Append(rows, row)) = Len(rows) + 1
         /\ Append(rows, row)[Len(rows) + 1] = row
         /\ SubSeq(Append(rows, row), 1, Len(rows)) = rows
<1> DEFINE all == Append(rows, row)
<1>1. /\ all \in Seq(RowRecords) /\ all # <<>> /\ Len(all) = Len(rows) + 1
      /\ \A i \in 1 .. Len(rows) : all[i] = rows[i]
      /\ all[Len(rows) + 1] = row
  BY AppendProperties
<1>2. Len(rows) \in Nat OBVIOUS
<1> HIDE DEF all
<1>3. \A i \in 1 .. Len(rows) : all[i] \in RowRecords
  BY <1>1, <1>2
<1>4. /\ SubSeq(all, 1, Len(rows)) \in Seq(RowRecords)
      /\ Len(SubSeq(all, 1, Len(rows))) = Len(rows)
      /\ \A i \in 1 .. Len(rows) : SubSeq(all, 1, Len(rows))[i] = all[i]
  <2>1. 1 \in Int /\ Len(rows) \in Int BY <1>2
  <2>2. /\ SubSeq(all, 1, Len(rows)) \in Seq(RowRecords)
        /\ Len(SubSeq(all, 1, Len(rows))) = IF 1 <= Len(rows) THEN Len(rows) - 1 + 1 ELSE 0
        /\ \A i \in 1 .. Len(rows) - 1 + 1 : SubSeq(all, 1, Len(rows))[i] = all[1 + i - 1]
    BY <1>3, <2>1, SubSeqProperties
  <2>3. Len(rows) - 1 + 1 = Len(rows) BY <1>2
  <2>4. \A i \in 1 .. Len(rows) : 1 + i - 1 = i BY <1>2
  <2> QED BY <2>2, <2>3, <2>4, <1>2
<1>5. SubSeq(all, 1, Len(rows)) = rows
  BY <1>1, <1>4, SeqEqual
<1> QED BY <1>1, <1>5 DEF all

LEMMA SealKeeps == ASSUME CInv, NEW d \in Docs, Seal(d) PROVE CInv'
<1> DEFINE o == Ordinal(d)
           rows == marker[d]
           row == [doc |-> d, result |-> result[d]]
<1>1. /\ UNCHANGED <<index, decision, native, phase, inferences, executions, marker, result>>
      /\ owner' = owner /\ At(d, "complete", "seal") /\ Stands(d) /\ o \in Ordinals /\ o' = o
  BY DEF Seal, indexVars, records, guard, history, ownerVars, client, CInv, Stands, At,
         Working, Ordinal
<1>2. CASE Ends(d) /\ completion' = completion BY <1>1, <1>2, EndKeeps DEF Writes
<1>3. CASE /\ Sealable(d) /\ completion' = [completion EXCEPT ![o] = Append(rows, row)]
           /\ Goes(d, "settle")
  <2>1. Now(d, "complete", "settle") BY <1>1, <1>3, Going DEF Steps, At
  <2>2. owner = d /\ completion[o] = <<>> BY <1>3 DEF Sealable, Admitted, Owns
  <2>3. rows \in Seq(RowRecords) /\ row \in RowRecords /\ o = Len(rows) + 1 /\ o \in Nat
        /\ row.doc = d /\ row.result = result[d] /\ Len(rows) \in Nat
    <3>1. rows \in Seq(RowRecords) /\ result[d] \in Results BY DEF CInv, RunTypes
    <3>2. row \in RowRecords BY <3>1, DocNumbers DEF RowRecords
    <3>3. o \in Nat BY <1>1 DEF Ordinals
    <3> QED BY <3>1, <3>2, <3>3 DEF Ordinal
  <2>4. /\ completion' \in [Ordinals -> Seq(RowRecords)]
        /\ completion'[o] = Append(rows, row)
        /\ \A c \in Ordinals : c # o => completion'[c] = completion[c]
    BY <1>1, <1>3, <2>3, RowAdded DEF CInv, RunTypes
  <2>5. /\ completion'[o] # <<>> /\ Len(completion'[o]) = o /\ completion'[o][o] = row
        /\ SubSeq(completion'[o], 1, o - 1) = rows
    <3>1. o - 1 = Len(rows) BY <2>3
    <3> QED BY <2>3, <2>4, <3>1, RowAdded
  <2>6. Shown(rows) BY <1>1 DEF Stands
  <2>7. /\ result[d] = "executed" => native[o] = d /\ executions[o] = 1
        /\ result[d] \in Undispatched => native[o] = NoDoc
    BY <1>1, <2>2 DEF Stands, At
  <2> HIDE DEF o, rows, row
  <2>8. OthersRest(d) BY <1>1, <2>1 DEF Now, OthersRest
  <2>9. OnlyGrows(d) BY <1>1, <2>2, <2>4 DEF OnlyGrows
  <2>10. AsksAlone(d) BY <2>1 DEF AsksAlone, Now, At
  <2>11. RunTypes' BY <1>1, <2>1, <2>4 DEF CInv, RunTypes, Now
  <2>12. \A s \in {index, marker[d]} : Shown(s) => Shown(s)'
    BY <1>1, <2>2, <2>4 DEF Shown
  <2>13. Chained'
    <3> SUFFICES ASSUME NEW c \in Ordinals, completion'[c] # <<>>
                 PROVE  /\ Len(completion'[c]) = c
                        /\ c > 1 => SubSeq(completion'[c], 1, c - 1) = completion'[c - 1]
      BY DEF Chained
    <3>1. CASE c = o
      <4>1. ASSUME o > 1 PROVE rows = completion'[o - 1]
        <5>1. o - 1 = Len(rows) /\ o - 1 # o BY <2>3
        <5>2. rows # <<>> BY <4>1, <2>3
        <5>3. Len(rows) \in Ordinals /\ rows = completion[Len(rows)]
          BY <2>6, <5>2 DEF Shown
        <5> QED BY <5>1, <5>3, <2>4
      <4> QED BY <3>1, <4>1, <2>5
    <3>2. CASE c # o
      <4>1. completion'[c] = completion[c] /\ completion[c] # <<>> BY <3>2, <2>4
      <4>2. Len(completion[c]) = c /\ (c > 1 => SubSeq(completion[c], 1, c - 1) = completion[c - 1])
        BY <4>1 DEF CInv, Recorded, Chained
      <4>3. ASSUME c > 1 PROVE completion'[c - 1] = completion[c - 1]
        <5>1. completion[c] \in Seq(RowRecords) /\ c - 1 \in Ordinals
          <6>1. completion[c] \in Seq(RowRecords) BY DEF CInv, RunTypes
          <6>2. c - 1 \in Ordinals BY <4>3, RunAssumption DEF Ordinals, RunAssumption
          <6> QED BY <6>1, <6>2
        <5>2. SubSeq(completion[c], 1, c - 1) # <<>>
          <6>1. c \in Nat BY DEF Ordinals
          <6>2. \A i \in 1 .. c - 1 : completion[c][i] \in RowRecords
            BY <5>1, <4>2, <6>1
          <6>3. 1 \in Int /\ c - 1 \in Int BY <6>1
          <6>4. Len(SubSeq(completion[c], 1, c - 1)) = IF 1 <= c - 1 THEN c - 1 - 1 + 1 ELSE 0
            BY <6>2, <6>3, SubSeqProperties
          <6> DEFINE sub == SubSeq(completion[c], 1, c - 1)
          <6> HIDE DEF sub
          <6>5. Len(sub) # 0 BY <6>4, <6>1, <4>3 DEF sub
          <6>6. sub # <<>> BY <6>5
          <6> QED BY <6>6 DEF sub
        <5>3. c - 1 # o BY <5>2, <4>2, <4>3, <2>2
        <5> QED BY <5>1, <5>3, <2>4
      <4> QED BY <4>1, <4>2, <4>3
    <3> QED BY <3>1, <3>2
  <2>14. Truthful'
    <3> SUFFICES ASSUME NEW c \in Ordinals
                 PROVE  /\ native'[c] = NoDoc => executions'[c] = 0
                        /\ completion'[c] # <<>> /\ completion'[c][c].result = "executed" =>
                             executions'[c] = 1 /\ native'[c] = completion'[c][c].doc
                        /\ completion'[c] # <<>> /\ completion'[c][c].result \in Undispatched =>
                             native'[c] = NoDoc
      BY DEF Truthful, Undispatched
    <3>1. CASE c = o
      <4>1. native[o] = NoDoc => executions[o] = 0 BY <1>1 DEF CInv, Recorded, Truthful
      <4>2. /\ completion'[c][c].result = result[d] /\ completion'[c][c].doc = d
            /\ native'[c] = native[o] /\ executions'[c] = executions[o]
        BY <3>1, <1>1, <2>5 DEF row
      <4> QED BY <3>1, <4>1, <4>2, <2>7
    <3>2. CASE c # o
      <4>1. completion'[c] = completion[c] BY <3>2, <2>4
      <4> QED BY <4>1, <1>1 DEF CInv, Recorded, Truthful
    <3> QED BY <3>1, <3>2
  <2>15. Recorded'
    <3>1. AskedOnce' /\ Paid'
      BY <1>1 DEF CInv, Recorded, AskedOnce, Paid, Revision
    <3>2. Shown(index)' BY <1>1, <2>12 DEF CInv, Recorded, Shown
    <3> QED BY <2>13, <2>14, <3>1, <3>2 DEF Recorded
  <2>16. Stands(d)'
    <3>1. Shown(marker[d])' BY <1>1, <2>6, <2>12 DEF rows
    <3>2. o = Ordinal(d) /\ Ordinal(d)' = o BY <1>1 DEF o
    <3> QED BY <1>1, <2>1, <3>1, <3>2 DEF Stands, Working, At, Now
  <2> QED BY <2>8, <2>9, <2>10, <2>11, <2>15, <2>16, DocKeeps DEF DocStep
<1> QED BY <1>2, <1>3 DEF Seal, PaidFirst

LEMMA AdvanceKeeps == ASSUME CInv, NEW d \in Docs, Advance(d) PROVE CInv'
<1> DEFINE o == Ordinal(d)
           rows == completion[o]
<1>1. /\ UNCHANGED <<decision, native, completion, phase, inferences, executions, result>>
      /\ owner' = owner /\ step[d] = "advance" /\ Stands(d) /\ o \in Ordinals
      /\ request[d] # "decide" /\ rows # <<>> /\ phase[o] = "settled"
  BY DEF Advance, records, guard, history, ownerVars, CInv, Stands, At, Working, Ordinal,
         Recovering
<1>2. CASE Ends(d) /\ UNCHANGED <<index, marker>>
  BY <1>1, <1>2, EndKeeps DEF Writes
<1>3. CASE /\ Advances(d) /\ index' = rows
           /\ \/ Recovering(d) /\ Recovered(d, rows)
              \/ Ends(d) /\ UNCHANGED marker
  <2>1. rows \in Seq(RowRecords) /\ Len(rows) = o /\ Shown(rows)
    BY <1>1 DEF CInv, RunTypes, Recorded, Chained, Shown
  <2>2. /\ marker \in [Docs -> Seq(RowRecords)] /\ result \in [Docs -> Results]
        /\ o = Len(marker[d]) + 1 /\ Len(marker[d]) \in Nat /\ o \in Nat
    BY <1>1 DEF CInv, RunTypes, Ordinal, Ordinals
  <2> HIDE DEF o, rows
  <2>3. PICK r \in Requests : /\ Now(d, r, "start") /\ ~(At(d, "decide", "infer")')
                              /\ marker' \in [Docs -> Seq(RowRecords)] /\ Stands(d)'
                              /\ \A e \in Docs : e # d => marker'[e] = marker[e]
    <3>1. CASE Recovering(d) /\ Recovered(d, rows)
      BY <3>1, <1>1, <2>1, RecoveredKeeps
    <3>2. CASE Ends(d) /\ UNCHANGED marker
      <4>1. Now(d, "over", "start") BY <3>2, Ending
      <4>2. Stands(d)' BY <1>1, <3>2, <4>1 DEF Stands, Shown, Working, At, Now
      <4>3. ~(At(d, "decide", "infer")') BY <4>1 DEF At, Now
      <4>4. "over" \in Requests BY DEF Requests
      <4> QED BY <3>2, <2>2, <4>1, <4>2, <4>3, <4>4
    <3> QED BY <1>3, <3>1, <3>2
  <2>4. OthersRest(d) BY <1>1, <2>3 DEF Now, OthersRest
  <2>5. OnlyGrows(d) BY <1>1 DEF OnlyGrows
  <2>6. AsksAlone(d) BY <2>3 DEF AsksAlone
  <2>7. RunTypes' BY <1>1, <1>3, <2>1, <2>3 DEF CInv, RunTypes, Now
  <2>8. Recorded'
    <3>1. Shown(index)' BY <1>1, <1>3, <2>1 DEF Shown
    <3>2. Paid'
      <4>1. Revision' = o BY <1>3, <2>1 DEF Revision
      <4>2. Revision \in {o - 1, o}
        <5>1. index = marker[d] \/ index = rows BY <1>3 DEF Advances, rows, o
        <5>2. Len(marker[d]) = o - 1 BY <2>2
        <5> QED BY <5>1, <5>2, <2>1 DEF Revision
      <4>3. ASSUME NEW c \in 1 .. o PROVE phase[c] = "settled"
        <5>1. CASE c = o BY <5>1, <1>1 DEF o
        <5>2. CASE c # o
          <6>1. c \in 1 .. Revision BY <5>2, <4>2, <2>2
          <6> QED BY <6>1 DEF CInv, Recorded, Paid
        <5> QED BY <5>1, <5>2
      <4>4. ASSUME NEW c \in Ordinals, phase[c] # "idle" PROVE c <= o + 1
        <5>1. c <= Revision + 1 BY <4>4 DEF CInv, Recorded, Paid
        <5>2. c \in Int BY DEF Ordinals
        <5> QED BY <5>1, <5>2, <4>2, <2>2
      <4> QED BY <1>1, <4>1, <4>3, <4>4 DEF Paid
    <3>3. Chained' /\ AskedOnce' /\ Truthful'
      BY <1>1 DEF CInv, Recorded, Chained, AskedOnce, Truthful
    <3> QED BY <3>1, <3>2, <3>3 DEF Recorded
  <2> QED BY <2>3, <2>4, <2>5, <2>6, <2>7, <2>8, DocKeeps DEF DocStep
<1> QED
  <2>1. CASE Advances(d) BY <2>1, <1>3 DEF Advance
  <2>2. CASE ~Advances(d) BY <2>2, <1>2 DEF Advance
  <2> QED BY <2>1, <2>2

-----------------------------------------------------------------------------
(* Every step, and the initial states.                                       *)

\* Steps that belong to no document leave all of this alone.
LEMMA SurroundingsKeep ==
  ASSUME CInv, UNCHANGED <<Writes, owner, request, step, marker, result>>
  PROVE  CInv'
BY DEF CInv, Writes, RunTypes, Recorded, Shown, Chained, Paid, AskedOnce, Truthful, Revision,
       Stands, Working, At, Ordinal, OneAsks

LEMMA NextKeeps == ASSUME CInv, [Next]_vars PROVE CInv'
<1>1. ASSUME NEW d \in Docs, Open(d) \/ Runs(d) \/ Crash(d) PROVE CInv'
  BY <1>1, OpenKeeps, CrashKeeps, ReadGuardKeeps, AssertOwnerKeeps, ClaimKeeps, ReconcileKeeps,
     IssueLookKeeps, AuthorizeKeeps, DecideLookKeeps, GrantKeeps, InferKeeps, RecordKeeps,
     DoubtKeeps, ActKeeps, NativeLookKeeps, AdmitKeeps, ExecuteKeeps, CompleteLookKeeps,
     SealKeeps, SettleSealedKeeps, AdvanceKeeps, AcknowledgeKeeps DEF Runs
<1>2. ASSUME Clear PROVE CInv'
  <2>1. UNCHANGED <<Writes, owner, request, step, marker, result>>
    BY <1>2 DEF Clear, ownerVars, records, guard, client, history, Writes
  <2> QED BY <2>1, SurroundingsKeep
<1>3. ASSUME LeaseExpires PROVE CInv'
  <2>1. UNCHANGED <<Writes, owner, request, step, marker, result>>
    BY <1>3 DEF LeaseExpires, indexVars, records, guard, client, history, Writes
  <2> QED BY <2>1, SurroundingsKeep
<1>4. ASSUME NEW o \in Ordinals, TokenExpires(o) PROVE CInv'
  <2>1. UNCHANGED <<Writes, owner, request, step, marker, result>>
    BY <1>4 DEF TokenExpires, indexVars, ownerVars, records, guard, client, history, Writes
  <2> QED BY <2>1, SurroundingsKeep
<1>5. ASSUME UNCHANGED vars PROVE CInv'
  <2>1. UNCHANGED <<Writes, owner, request, step, marker, result>>
    BY <1>5 DEF vars, indexVars, ownerVars, records, guard, client, history, Writes
  <2> QED BY <2>1, SurroundingsKeep
<1> QED BY <1>1, <1>2, <1>3, <1>4, <1>5 DEF Next

LEMMA RowsAre ==
  ASSUME NEW n \in 0 .. Cases
  PROVE  /\ Rows(n) \in Seq(RowRecords) /\ Len(Rows(n)) = n
         /\ n # 0 => Rows(n) # <<>> /\ Rows(n)[n] = [doc |-> EarlierDoc, result |-> "executed"]
         /\ n = 0 => Rows(n) = <<>>
         /\ n > 1 => SubSeq(Rows(n), 1, n - 1) = Rows(n - 1)
<1> DEFINE row == [doc |-> EarlierDoc, result |-> "executed"]
<1>1. row \in RowRecords BY DocNumbers DEF RowRecords, Results
<1>2. n \in Nat /\ Cases \in Nat BY RunAssumption DEF RunAssumption
<1>3. ASSUME NEW k \in Nat
      PROVE  /\ Rows(k) \in Seq(RowRecords) /\ Len(Rows(k)) = k
             /\ \A i \in 1 .. k : Rows(k)[i] = row
  <2>1. Rows(k) = [i \in 1 .. k |-> row] BY DEF Rows
  <2> HIDE DEF row
  <2> QED BY <2>1, <1>1
<1>4. n # 0 => Rows(n) # <<>> /\ Rows(n)[n] = row
  <2>1. Len(<<>>) = 0 OBVIOUS
  <2> QED BY <2>1, <1>2, <1>3
<1>5. n = 0 => Rows(n) = <<>> BY <1>3
<1>6. ASSUME n > 1 PROVE SubSeq(Rows(n), 1, n - 1) = Rows(n - 1)
  <2>1. n - 1 \in Nat /\ 1 \in Int /\ n - 1 \in Int BY <1>6, <1>2
  <2>2. \A i \in 1 .. n - 1 : Rows(n)[i] \in RowRecords /\ Rows(n)[i] = row
    <3>1. \A i \in 1 .. n - 1 : i \in 1 .. n BY <1>2
    <3> QED BY <3>1, <1>1, <1>2, <1>3
  <2>3. /\ SubSeq(Rows(n), 1, n - 1) \in Seq(RowRecords)
        /\ Len(SubSeq(Rows(n), 1, n - 1)) = IF 1 <= n - 1 THEN n - 1 - 1 + 1 ELSE 0
        /\ \A i \in 1 .. n - 1 - 1 + 1 : SubSeq(Rows(n), 1, n - 1)[i] = Rows(n)[1 + i - 1]
    BY <2>1, <2>2, SubSeqProperties
  <2>4. n - 1 - 1 + 1 = n - 1 /\ 1 <= n - 1 /\ \A i \in 1 .. n - 1 : 1 + i - 1 = i
    BY <1>6, <1>2
  <2>5. /\ Len(SubSeq(Rows(n), 1, n - 1)) = Len(Rows(n - 1))
        /\ \A i \in 1 .. Len(SubSeq(Rows(n), 1, n - 1)) :
             SubSeq(Rows(n), 1, n - 1)[i] = Rows(n - 1)[i]
    BY <2>1, <2>2, <2>3, <2>4, <1>3
  <2>6. Rows(n - 1) \in Seq(RowRecords) BY <2>1, <1>3
  <2> QED BY <2>3, <2>5, <2>6, SeqEqual
<1> QED BY <1>2, <1>3, <1>4, <1>5, <1>6

LEMMA InitRun == Init => CInv
<1> SUFFICES ASSUME Init PROVE CInv
  OBVIOUS
<1> DEFINE Of(n, yes, no) == [o \in Ordinals |-> IF o <= n THEN yes ELSE no]
           Sealed(n) == [o \in Ordinals |-> IF o <= n THEN Rows(o) ELSE <<>>]
<1>1. PICK n \in 0 .. Cases :
        /\ index = Rows(n) /\ owner = (IF n = 0 THEN NoDoc ELSE EarlierDoc)
        /\ decision = Of(n, "call", "none") /\ native = Of(n, EarlierDoc, NoDoc)
        /\ completion = Sealed(n) /\ phase = Of(n, "settled", "idle")
        /\ inferences = Of(n, 1, 0) /\ executions = Of(n, 1, 0)
  BY DEF Init
<1>2. /\ request = [d \in Docs |-> "none"] /\ step = [d \in Docs |-> "start"]
      /\ marker = [d \in Docs |-> <<>>] /\ result = [d \in Docs |-> "none"]
  BY DEF Init
<1>3. n \in Nat /\ Cases \in Nat /\ \A o \in Ordinals : o \in Nat /\ o >= 1 /\ o \in 0 .. Cases
  BY RunAssumption DEF RunAssumption, Ordinals
<1>4. \A o \in Ordinals :
        /\ Rows(o) \in Seq(RowRecords) /\ Len(Rows(o)) = o /\ Rows(o) # <<>>
        /\ Rows(o)[o] = [doc |-> EarlierDoc, result |-> "executed"]
        /\ o > 1 => SubSeq(Rows(o), 1, o - 1) = Rows(o - 1)
  <2> SUFFICES ASSUME NEW o \in Ordinals
               PROVE  /\ Rows(o) \in Seq(RowRecords) /\ Len(Rows(o)) = o /\ Rows(o) # <<>>
                      /\ Rows(o)[o] = [doc |-> EarlierDoc, result |-> "executed"]
                      /\ o > 1 => SubSeq(Rows(o), 1, o - 1) = Rows(o - 1)
    OBVIOUS
  <2>1. o \in 0 .. Cases /\ o # 0 BY <1>3
  <2> QED BY <2>1, RowsAre
<1>5. \A o \in Ordinals :
        /\ completion[o] = (IF o <= n THEN Rows(o) ELSE <<>>)
        /\ decision[o] = (IF o <= n THEN "call" ELSE "none")
        /\ native[o] = (IF o <= n THEN EarlierDoc ELSE NoDoc)
        /\ phase[o] = (IF o <= n THEN "settled" ELSE "idle")
        /\ inferences[o] = (IF o <= n THEN 1 ELSE 0) /\ executions[o] = (IF o <= n THEN 1 ELSE 0)
  BY <1>1
<1>6. /\ index \in Seq(RowRecords) /\ Revision = n
      /\ index # <<>> => n \in Ordinals /\ index = completion[n]
  <2>1. Rows(n) \in Seq(RowRecords) /\ Len(Rows(n)) = n /\ (n = 0 => Rows(n) = <<>>)
    BY RowsAre
  <2>2. index # <<>> => n \in Ordinals BY <2>1, <1>1, <1>3 DEF Ordinals
  <2> QED BY <2>1, <2>2, <1>1, <1>3, <1>5 DEF Revision
<1>7. RunTypes
  <2>1. completion \in [Ordinals -> Seq(RowRecords)]
    <3>1. \A o \in Ordinals : (IF o <= n THEN Rows(o) ELSE <<>>) \in Seq(RowRecords)
      BY <1>4
    <3> QED BY <1>1, <3>1
  <2>2. /\ decision \in [Ordinals -> {"none", "call", "clarify"}]
        /\ native \in [Ordinals -> 0 .. EarlierDoc]
        /\ phase \in [Ordinals -> {"idle", "pending", "doubtful", "settled"}]
        /\ inferences \in [Ordinals -> {0, 1}] /\ executions \in [Ordinals -> {0, 1}]
        /\ owner \in 0 .. EarlierDoc
    BY <1>1, DocNumbers
  <2>3. /\ request \in [Docs -> Requests] /\ step \in [Docs -> Steps]
        /\ marker \in [Docs -> Seq(RowRecords)] /\ result \in [Docs -> Results]
    BY <1>2 DEF Requests, Steps, Results
  <2> QED BY <2>1, <2>2, <2>3, <1>6 DEF RunTypes
<1> HIDE DEF Of, Sealed
<1>8. Recorded
  <2>1. Shown(index) BY <1>6, <1>4 DEF Shown, Revision
  <2>2. Chained
    <3>1. ASSUME NEW o \in Ordinals, completion[o] # <<>>, o > 1
          PROVE  completion[o - 1] = Rows(o - 1)
      <4>1. o <= n /\ o - 1 <= n BY <3>1, <1>5, <1>3
      <4>2. o - 1 \in Ordinals BY <3>1, <1>3 DEF Ordinals
      <4> QED BY <4>1, <4>2, <1>5
    <3>2. ASSUME NEW o \in Ordinals, completion[o] # <<>> PROVE completion[o] = Rows(o)
      BY <3>2, <1>5
    <3> QED BY <3>1, <3>2, <1>4 DEF Chained
  <2>3. Paid BY <1>3, <1>5, <1>6 DEF Paid, Ordinals
  <2>4. AskedOnce BY <1>5 DEF AskedOnce
  <2>5. Truthful
    <3>1. ASSUME NEW o \in Ordinals, completion[o] # <<>>
          PROVE  /\ completion[o][o].result = "executed" /\ completion[o][o].doc = EarlierDoc
                 /\ native[o] = EarlierDoc /\ executions[o] = 1
      BY <3>1, <1>4, <1>5
    <3>2. ASSUME NEW o \in Ordinals, native[o] = NoDoc PROVE executions[o] = 0
      BY <3>2, <1>5, DocNumbers
    <3> QED BY <3>1, <3>2 DEF Truthful, Undispatched
  <2> QED BY <2>1, <2>2, <2>3, <2>4, <2>5 DEF Recorded
<1>9. (\A d \in Docs : Stands(d)) /\ OneAsks
  BY <1>2 DEF Stands, Shown, Working, At, OneAsks
<1> QED BY <1>7, <1>8, <1>9 DEF CInv

LEMMA RunKept == Spec => []CInv
<1> QED BY InitRun, NextKeeps, PTL DEF Spec

-----------------------------------------------------------------------------
\* The model is asked once for a case, and the page's tools see it once, for any
\* number of cases and documents.
THEOREM AskedOncePerCase == Spec => []OncePerCase
<1>1. CInv => OncePerCase
  <2> SUFFICES ASSUME CInv, NEW o \in Ordinals
               PROVE  /\ inferences[o] <= 1 /\ executions[o] <= 1
                      /\ decision[o] # "none" => inferences[o] = 1
    BY DEF OncePerCase
  <2>1. inferences[o] \in {0, 1} /\ executions[o] \in {0, 1} BY DEF CInv, RunTypes
  <2>2. decision[o] # "none" => inferences[o] = 1 BY DEF CInv, Recorded, AskedOnce
  <2> QED BY <2>1, <2>2
<1> QED BY <1>1, RunKept, PTL

\* A sealed row tells what happened to its case, and nothing that happens later
\* makes it untrue.
THEOREM RowsAreTrue == Spec => []RowTruth
<1>1. CInv => RowTruth
  <2> SUFFICES ASSUME CInv, NEW o \in Ordinals, completion[o] # <<>>
               PROVE  LET row == completion[o][o] IN
                      /\ row.result = "executed" => executions[o] = 1 /\ native[o] = row.doc
                      /\ row.result \in {"clarified", "drifted"} =>
                           /\ executions[o] = 0
                           /\ \A d \in Docs : request[d] = "execute" => Ordinal(d) # o
    BY DEF RowTruth
  <2>1. \A d \in Docs : native[o] = NoDoc => ~(request[d] = "execute" /\ Ordinal(d) = o)
    BY DocNumbers DEF CInv, Stands
  <2> QED BY <2>1 DEF CInv, Recorded, Truthful, Undispatched
<1> QED BY <1>1, RunKept, PTL

\* The index shows what is sealed and paid, and the guard is at most one call ahead.
THEOREM IndexShowsSealed == Spec => []IndexIsSealed
<1>1. CInv => IndexIsSealed
  <2> SUFFICES ASSUME CInv PROVE IndexIsSealed
    OBVIOUS
  <2>1. index # <<>> => index = completion[Revision]
    BY DEF CInv, Recorded, Shown, Revision
  <2>2. Cardinality(Budget!Made) <= Revision + 1
    <3>1. Revision \in Nat BY DEF CInv, RunTypes, Revision
    <3>2. Budget!Made \subseteq 1 .. Revision + 1
      <4> SUFFICES ASSUME NEW o \in Ordinals, phase[o] # "idle" PROVE o \in 1 .. Revision + 1
        BY DEF Budget!Made
      <4>1. o <= Revision + 1 BY DEF CInv, Recorded, Paid
      <4> QED BY <4>1, <3>1 DEF Ordinals
    <3>3. /\ IsFiniteSet(1 .. Revision + 1)
          /\ Cardinality(1 .. Revision + 1) = Revision + 1
      BY <3>1, FS_Interval
    <3> QED BY <3>2, <3>3, FS_Subset
  <2> QED BY <2>1, <2>2 DEF CInv, Recorded, Paid, Chained, IndexIsSealed
<1> QED BY <1>1, RunKept, PTL

=============================================================================
