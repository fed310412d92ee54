----------------------- MODULE CheckoutSessionProofs -----------------------
(***************************************************************************)
(* Proofs about the checkout store, for every set of calls, commands and   *)
(* operations, and every capacity of the operation ledger.                 *)
(***************************************************************************)
EXTENDS CheckoutSession, SequenceTheorems, TLAPS

Active == {"hashing", "subscribers", "archiving", "sink"}
Finished == {"resolved", "rejected"}
Stages == Active \cup Finished \cup {"idle", "refused", "queued", "rejecting"}
Codes ==
  {"none", "invalid_item", "no_change", "updated", "checkout_pending", "already_pending",
   "pending_human_approval", "no_pending_checkout", "checkout_canceled", "session_halted",
   "validation_error", "read", "operation_id_conflict", "operation_ledger_full", "fixture_reset"}
Answers == [code : Codes, rev : Nat]
Rejections == {Reject("AbortError"), Reject("Error")}
Outcomes ==
  {"none", "completed", "expected_error", "validation_error", "canceled", "unexpected_error",
   "duplicate", "partial"}
Dispositions == {"none", "committed", "replayed", "partial"}
Latches == {"none", "before_commit", "after_completion"}
Events == [seq : Nat, outcome : Outcomes, disposition : Dispositions, cancellation : Latches]
Carts == [Items -> Nat]
Waiting == [op : Ops \cup {NoOp}, rev : Nat, lines : Carts]
Tombs == [command : {Canonical(c) : c \in Commands} \cup {NoCommand}, result : Answers]

TypeOK ==
  /\ lines \in Carts /\ revision \in Nat /\ pending \in Waiting
  /\ tombstones \in [Ops -> Tombs] /\ currentOps \subseteq Ops
  /\ entries \in Seq(Requests) /\ archives \in Seq(Seq(Requests))
  /\ lastReset \in Requests \cup {Nobody}
  /\ halted \in BOOLEAN /\ sequence \in Nat
  /\ summary \in [Requests -> Events] /\ event \in [Requests -> Events]
  /\ admission \in Requests \cup {"open", "closed"}
  /\ queue \in Seq(Requests) /\ stage \in [Requests -> Stages]
  /\ command \in [Requests -> Commands \cup {NoCommand}]
  /\ latch \in [Requests -> Latches] /\ linearized \in [Requests -> BOOLEAN]
  /\ hash \in [Requests -> Waiting]
  /\ answer \in [Requests -> Answers \cup Rejections]
  /\ receipt \in [Requests -> {"none", "verified", "invalid"}]
  /\ failed \in [Requests -> BOOLEAN]

\* One call at a time: whatever awaits something is the head of the queue, where
\* every unfinished call is once.
Queued ==
  /\ \A i, j \in DOMAIN queue : queue[i] = queue[j] => i = j
  /\ \A i \in DOMAIN queue : stage[queue[i]] \in Active \cup {"queued"}
  /\ \A r \in Requests :
       /\ stage[r] \in Active => Running(r)
       /\ stage[r] # "idle" <=> command[r] # NoCommand
       /\ stage[r] \in {"archiving", "rejecting"} => IsReset(r)

\* The cart a checkout request hashed is the cart, and its operation is unused.
HashCurrent ==
  \A r \in Requests :
    stage[r] = "hashing" /\ ~IsReset(r) =>
      /\ hash[r] = [op |-> NoOp, rev |-> revision, lines |-> lines]
      /\ command[r].tool = "checkout_request" /\ command[r].op \notin Consumed

PendingTrue == (pending = NoPending <=> pending.op = NoOp) /\ PendingMatchesCart

\* The latch knows whether the call took effect.
Latched ==
  \A r \in Requests :
    /\ ~linearized[r] => latch[r] # "after_completion"
    /\ stage[r] \in {"idle", "refused", "queued", "hashing"} =>
         ~linearized[r] /\ answer[r].code = "none"
    /\ answer[r].code = "AbortError" => latch[r] = "before_commit" /\ event[r].disposition = "none"
    /\ stage[r] \in {"subscribers", "archiving", "sink", "resolved"} /\ ~Rejects(r) =>
         linearized[r] /\ latch[r] # "before_commit"
    /\ stage[r] \in {"subscribers", "archiving", "resolved"} => ~Rejects(r)

Excluded == {"session_halted", "operation_ledger_full", "operation_id_conflict"}

\* A mutation that got past the guards and was not rejected.
Past(r) ==
  /\ stage[r] \in {"subscribers", "sink", "resolved"} /\ ~Rejects(r)
  /\ ~IsReset(r) /\ command[r].tool \in Mutations /\ answer[r].code \notin Excluded

Told(r) ==
  /\ command[r].op \in Consumed
  /\ tombstones[command[r].op] = [command |-> Canonical(command[r]), result |-> answer[r]]

\* Such a mutation is answered from the tombstone of its operation.
Entombed == \A r \in Requests : Past(r) => Told(r)

Newest(r) == lastReset = r \/ (entries # <<>> /\ Last(entries) = r)

\* Until a call is finished the summary that is replaced is its own.
Traced ==
  \A r \in Requests :
    /\ stage[r] \in {"idle", "refused", "queued", "hashing"} => event[r] = NoEvent /\ ~failed[r]
    /\ stage[r] \in {"subscribers", "archiving", "sink"} =>
         Newest(r) /\ summary[r] = event[r] /\ (failed[r] <=> event[r].outcome = "partial")
    /\ stage[r] \in {"rejecting"} \cup Finished /\ event[r] # NoEvent =>
         (failed[r] <=> summary[r].outcome = "partial") /\ summary[r].cancellation = latch[r]

Halts == \A i \in DOMAIN entries : failed[entries[i]] => halted

OpenReset(r) == IsReset(r) /\ stage[r] \notin Finished

\* One reset at a time, and a reset without a hold leaves admission open.
OneReset ==
  /\ \A r, q \in Requests : OpenReset(r) /\ OpenReset(q) => r = q
  /\ \A r \in Requests : OpenReset(r) /\ ~command[r].hold => admission = "open"

\* Who has closed admission: a reset that is the last call in the queue, alone
\* there from its commit until the page lets go of it.
Held ==
  /\ admission = "closed" =>
       \E r \in Requests : /\ OpenReset(r) /\ command[r].hold
                           /\ stage[r] = "rejecting" \/ (queue # <<>> /\ Last(queue) = r)
  /\ \A r \in Requests :
       /\ admission = r =>
            /\ IsReset(r) /\ command[r].hold
            /\ \A q \in Requests \ {r} : ~OpenReset(q)
            /\ \/ queue = <<r>> /\ stage[r] \in {"subscribers", "archiving", "sink"}
               \/ queue = <<>> /\ stage[r] = "resolved"
       /\ OpenReset(r) /\ command[r].hold /\ stage[r] \in {"queued", "hashing"} =>
            admission = "closed"
       /\ OpenReset(r) /\ command[r].hold /\ stage[r] \in {"subscribers", "archiving", "sink"} =>
            admission = IF Rejects(r) THEN "closed" ELSE r

\* What a receipt certifies is still so while the hold lasts.
Certified ==
  \A r \in Requests :
    /\ receipt[r] # "none" => stage[r] = "resolved"
    /\ admission = r /\ receipt[r] = "verified" => Verified(r)

\* The inductive invariant.
IInv ==
  /\ TypeOK /\ Queued /\ HashCurrent /\ PendingTrue /\ Latched /\ Entombed /\ Traced /\ Halts
  /\ OneReset /\ Held /\ Certified

-----------------------------------------------------------------------------
(* Constants and the first state. *)

LEMMA ConstantTypes ==
  /\ MaxTombstones \in Nat \ {0} /\ Fixture \in Carts
  /\ \A c \in Commands :
       /\ c \in [tool : Tools, op : Ops \cup {NoOp}, item : Items, qty : Nat, hold : BOOLEAN,
                 fault : BOOLEAN]
       /\ c.tool \in Mutations => c.op \in Ops
  /\ NoOp \notin Ops /\ Nobody \notin Requests /\ NoCommand \notin Commands
  /\ "open" \notin Requests /\ "closed" \notin Requests
BY SessionAssumption DEF SessionAssumption, Carts

LEMMA ValueTypes ==
  /\ NoPending \in Waiting /\ NoEvent \in Events /\ NoTombstone \in Tombs
  /\ NoTombstone.result.code = "none"
BY ConstantTypes
   DEF NoPending, Waiting, NoEvent, Events, Outcomes, Dispositions, Latches, NoTombstone, Tombs, Answers,
       Codes

LEMMA InitInvariant == Init => IInv
<1> SUFFICES ASSUME Init PROVE IInv
  OBVIOUS
<1> USE ConstantTypes, ValueTypes DEF Init
<1>1. /\ <<>> \in Seq(Requests) /\ <<>> \in Seq(Seq(Requests))
      /\ DOMAIN queue = {} /\ DOMAIN entries = {}
  BY EmptySeq
<1>2. [code |-> "none", rev |-> 0] \in Answers
  BY DEF Answers, Codes
<1>3. TypeOK
  BY <1>1, <1>2 DEF TypeOK, Latches, Stages
<1>4. Queued /\ HashCurrent /\ Halts
  BY <1>1 DEF Queued, HashCurrent, Halts, Active, IsReset
<1>5. PendingTrue
  BY DEF PendingTrue, PendingMatchesCart, NoPending
<1>6. Latched /\ Entombed /\ Traced
  BY DEF Latched, Entombed, Past, Traced, Finished
<1>7. OneReset /\ Held /\ Certified
  BY DEF OneReset, Held, Certified, OpenReset, IsReset
<1> QED BY <1>3, <1>4, <1>5, <1>6, <1>7 DEF IInv

-----------------------------------------------------------------------------
(* The steps, by what they do to the state. *)

\* The head ends in one trace.
Ends(r, res, outcome, disposition, lin) ==
  /\ Running(r) /\ stage[r] \in {"queued", "hashing"}
  /\ res.code = "AbortError" => latch[r] # "none" /\ disposition = "none"
  /\ res \in Answers => latch[r] = "none" /\ lin = TRUE /\ ~IsReset(r)
  /\ res \in Answers /\ ~IsReset(r) /\ command[r].tool \in Mutations /\ res.code \notin Excluded =>
       /\ command[r].op \in Consumed
       /\ tombstones[command[r].op] = [command |-> Canonical(command[r]), result |-> res]
  /\ Terminal(r, res, outcome, disposition, lin)

\* The head awaits a digest: of the cart for a checkout request.
HashStarts(r) ==
  /\ Running(r) /\ stage[r] = "queued" /\ stage' = [stage EXCEPT ![r] = "hashing"]
  /\ \/ IsReset(r) /\ UNCHANGED hash
     \/ /\ ~IsReset(r) /\ command[r].tool = "checkout_request" /\ command[r].op \notin Consumed
        /\ hash' = [hash EXCEPT ![r] = [op |-> NoOp, rev |-> revision, lines |-> lines]]
  /\ UNCHANGED <<cart, ledger, trace, halted, admission, queue, command, answer, latch, linearized,
                 receipt, failed>>

Commits(r) ==
  /\ Running(r) /\ ~IsReset(r) /\ latch[r] = "none" /\ command[r].op \notin Consumed
  /\ \/ stage[r] = "queued" /\ command[r].tool \in {"cart_update", "checkout_cancel"}
     \/ stage[r] = "hashing" /\ command[r].tool = "checkout_request"
  /\ CommitMutation(r)

Resets(r) ==
  Running(r) /\ IsReset(r) /\ latch[r] = "none" /\ stage[r] = "hashing" /\ CommitReset(r)

ResetFails(r) == Running(r) /\ IsReset(r) /\ stage[r] = "hashing" /\ HashFailed(r)

\* What the head awaited after its commit has settled: the event is e.
Settles(r, bad, e) ==
  /\ Running(r) /\ Failure(r, bad, e) /\ UNCHANGED admission
  /\ e.outcome = IF bad THEN "partial" ELSE event[r].outcome
  /\ event[r].disposition = "none" => e.disposition = "none"
  /\ \/ /\ stage[r] \in {"subscribers", "archiving"} /\ UNCHANGED queue
        /\ \E s \in {"archiving", "sink"} :
             (s = "archiving" => IsReset(r)) /\ stage' = [stage EXCEPT ![r] = s]
     \/ /\ stage[r] = "sink" /\ queue' = Tail(queue) /\ e.cancellation = latch[r]
        /\ \E s \in Finished \cup {"rejecting"} :
             /\ s = "resolved" <=> ~Rejects(r)
             /\ s = "rejecting" <=> Rejects(r) /\ IsReset(r)
             /\ stage' = [stage EXCEPT ![r] = s]

Steps(r) ==
  \/ \E c \in Commands : Call(r, c) \/ HardReset(r, c)
  \/ Abort(r) \/ Catch(r) \/ Page(r) \/ Abandon(r)
  \/ HashStarts(r) \/ Commits(r) \/ Resets(r) \/ ResetFails(r)
  \/ \E res \in Answers \cup Rejections, o \in Outcomes \ {"partial"}, d \in {"none", "replayed"},
        lin \in BOOLEAN : Ends(r, res, o, d, lin)
  \/ \E bad \in BOOLEAN, e \in Events : Settles(r, bad, e)

\* A trace is marked partial or left as it is, and takes the word on its cancellation.
LEMMA Marked ==
  ASSUME NEW e \in Events, NEW bad \in BOOLEAN, NEW c \in Latches
  PROVE  LET m == Partial(e, bad) IN
         /\ m \in Events /\ [m EXCEPT !.cancellation = c] \in Events
         /\ m.outcome = IF bad THEN "partial" ELSE e.outcome
         /\ e.disposition = "none" => m.disposition = "none"
         /\ [m EXCEPT !.cancellation = c].outcome = m.outcome
         /\ [m EXCEPT !.cancellation = c].disposition = m.disposition
         /\ [m EXCEPT !.cancellation = c].cancellation = c
<1>1. CASE bad
  BY <1>1 DEF Partial, Events, Outcomes, Dispositions, Latches
<1>2. CASE ~bad
  BY <1>2 DEF Partial, Events
<1> QED BY <1>1, <1>2

\* What a call of the queue is, and that its command is one.
LEMMA HeadCommand ==
  ASSUME IInv, NEW r \in Requests, stage[r] # "idle"
  PROVE  command[r] \in Commands /\ (IsReset(r) <=> command[r].tool = "fixture_reset")
BY ConstantTypes DEF IInv, TypeOK, Queued, IsReset

LEMMA EndsByStart ==
  ASSUME IInv, NEW r \in Requests, Start(r)
  PROVE  Steps(r)
<1> USE ConstantTypes
<1>1. /\ TypeOK /\ command[r] \in Commands /\ Running(r) /\ stage[r] = "queued"
      /\ IsReset(r) <=> command[r].tool = "fixture_reset"
  BY HeadCommand DEF IInv, Start
<1>2. CASE latch[r] # "none"
  <2>1. Terminal(r, Reject("AbortError"), "canceled", "none", FALSE)
    BY <1>2 DEF Start, TraceCancellation
  <2>2. Reject("AbortError") \in Rejections /\ Reject("AbortError") \notin Answers
    BY DEF Rejections, Reject, Answers
  <2>3. Ends(r, Reject("AbortError"), "canceled", "none", FALSE)
    BY <1>1, <1>2, <2>1, <2>2 DEF Ends
  <2> QED BY <2>2, <2>3 DEF Steps, Outcomes
<1>3. CASE latch[r] = "none" /\ IsReset(r)
  BY <1>1, <1>3 DEF Start, Steps, HashStarts
<1>4. ASSUME latch[r] = "none", ~IsReset(r), NEW res \in Answers,
             NEW o \in {"completed", "expected_error", "validation_error", "duplicate"},
             NEW d \in {"none", "replayed"}, Terminal(r, res, o, d, TRUE),
             command[r].tool \in Mutations /\ res.code \notin Excluded =>
               /\ command[r].op \in Consumed
               /\ tombstones[command[r].op] = [command |-> Canonical(command[r]), result |-> res]
      PROVE  Steps(r)
  <2>1. res.code # "AbortError"
    BY DEF Answers, Codes
  <2>2. Ends(r, res, o, d, TRUE)
    BY <1>1, <1>4, <2>1 DEF Ends
  <2> QED BY <2>2 DEF Steps, Outcomes
<1>5. /\ \A code \in Codes : Result(code) \in Answers /\ Result(code).code = code
      /\ Excluded \subseteq Codes /\ "validation_error" \in Codes /\ "read" \in Codes
  BY <1>1 DEF Result, Answers, Excluded, Codes, TypeOK
<1>6. CASE latch[r] = "none" /\ ~IsReset(r)
  <2>1. CASE SessionHalted
    <3>1. Terminal(r, Result("session_halted"), "expected_error", "none", TRUE)
      BY <1>6, <2>1 DEF Start
    <3> QED BY <1>4, <1>5, <1>6, <3>1 DEF Excluded
  <2>2. CASE ~SessionHalted /\ command[r].tool = "invalid"
    <3>1. Terminal(r, Result("validation_error"), "validation_error", "none", TRUE)
      BY <1>6, <2>2 DEF Start
    <3> QED BY <1>4, <1>5, <1>6, <2>2, <3>1 DEF Mutations
  <2>3. CASE ~SessionHalted /\ command[r].tool = "read"
    <3>1. Terminal(r, Result("read"), "completed", "none", TRUE)
      BY <1>6, <2>3 DEF Start, Read
    <3> QED BY <1>4, <1>5, <1>6, <2>3, <3>1 DEF Mutations
  <2>4. CASE ~SessionHalted /\ command[r].tool \in Mutations /\ command[r].op \in Consumed
    <3> DEFINE t == tombstones[command[r].op]
    <3>1. Replay(r)
      BY <1>6, <2>4 DEF Start, Mutations
    <3>2. t \in Tombs /\ t.result \in Answers
      BY <1>1, <2>4 DEF TypeOK, Consumed, Tombs
    <3>3. CASE t.command = Canonical(command[r])
      <4>1. Terminal(r, t.result, "duplicate", "replayed", TRUE)
        BY <3>1, <3>3 DEF Replay
      <4>2. t = [command |-> Canonical(command[r]), result |-> t.result]
        BY <3>2, <3>3 DEF Tombs
      <4> HIDE DEF t
      <4>3. tombstones[command[r].op] = [command |-> Canonical(command[r]), result |-> t.result]
        BY <4>2 DEF t
      <4> QED BY <1>4, <1>6, <2>4, <3>2, <4>1, <4>3
    <3>4. CASE t.command # Canonical(command[r])
      <4>1. Terminal(r, Result("operation_id_conflict"), "expected_error", "none", TRUE)
        BY <3>1, <3>4 DEF Replay
      <4> QED BY <1>4, <1>5, <1>6, <4>1 DEF Excluded
    <3> QED BY <3>3, <3>4
  <2>5. CASE /\ ~SessionHalted /\ command[r].tool \in Mutations /\ command[r].op \notin Consumed
             /\ Cardinality(Consumed) >= MaxTombstones
    <3>1. Terminal(r, Result("operation_ledger_full"), "expected_error", "none", TRUE)
      BY <1>6, <2>5 DEF Start, Mutations
    <3> QED BY <1>4, <1>5, <1>6, <3>1 DEF Excluded
  <2>6. CASE /\ ~SessionHalted /\ command[r].tool \in Mutations /\ command[r].op \notin Consumed
             /\ ~(Cardinality(Consumed) >= MaxTombstones)
    <3>1. Mutate(r)
      BY <1>6, <2>6 DEF Start, Mutations
    <3> QED BY <1>1, <1>6, <2>6, <3>1 DEF Mutate, Mutations, Steps, HashStarts, Commits
  <2>7. command[r].tool \in Mutations \cup {"invalid", "read"}
    BY <1>1, <1>6 DEF Tools
  <2> QED BY <2>1, <2>2, <2>3, <2>4, <2>5, <2>6, <2>7
<1> QED BY <1>2, <1>3, <1>6

LEMMA NextCases == IInv /\ Next => \E r \in Requests : Steps(r)
<1> SUFFICES ASSUME IInv, NEW r \in Requests,
                    \/ \E c \in Commands : Call(r, c) \/ HardReset(r, c)
                    \/ Abort(r) \/ HashFailed(r) \/ Abandon(r) \/ Step(r) \/ Page(r)
             PROVE  Steps(r)
  BY DEF Next
<1>1. TypeOK /\ HashCurrent
  BY DEF IInv
<1>2. CASE Hashed(r)
  <2>1. Running(r) /\ stage[r] = "hashing"
    BY <1>2 DEF Hashed
  <2>2. CASE latch[r] # "none"
    <3>1. Terminal(r, Reject("AbortError"), "canceled", "none", FALSE)
      BY <1>2, <2>2 DEF Hashed, CanceledBeforeCommit, TraceCancellation
    <3>2. Reject("AbortError") \in Rejections /\ Reject("AbortError") \notin Answers
      BY DEF Rejections, Reject, Answers
    <3>3. Ends(r, Reject("AbortError"), "canceled", "none", FALSE)
      BY <2>1, <2>2, <3>1, <3>2 DEF Ends
    <3> QED BY <3>2, <3>3 DEF Steps, Outcomes
  <2>3. CASE latch[r] = "none"
    BY <1>1, <1>2, <2>1, <2>3
       DEF Hashed, CanceledBeforeCommit, HashCurrent, Steps, Commits, Resets
  <2> QED BY <2>2, <2>3
<1>3. CASE HashFailed(r)
  <2>1. CASE IsReset(r)
    BY <1>3, <2>1 DEF HashFailed, Steps, ResetFails
  <2>2. CASE ~IsReset(r)
    <3>1. Terminal(r, Reject("Error"), "unexpected_error", "none", TRUE) /\ Running(r) /\ stage[r] = "hashing"
      BY <1>3, <2>2 DEF HashFailed, TraceUnexpectedError
    <3>2. Reject("Error") \in Rejections /\ Reject("Error") \notin Answers /\ Reject("Error").code = "Error"
      BY DEF Rejections, Reject, Answers
    <3>3. Ends(r, Reject("Error"), "unexpected_error", "none", TRUE)
      BY <3>1, <3>2 DEF Ends
    <3> QED BY <3>2, <3>3 DEF Steps, Outcomes
  <2> QED BY <2>1, <2>2
<1>4. event[r] \in Events /\ latch[r] \in Latches
  BY <1>1 DEF TypeOK
<1>5. ASSUME NEW bad \in BOOLEAN, Notified(r, bad) PROVE Steps(r)
  <2> DEFINE c == IF latch[r] = "after_completion" THEN latch[r] ELSE Partial(event[r], bad).cancellation
             e == [Partial(event[r], bad) EXCEPT !.cancellation = c]
  <2>1. Failure(r, bad, e) /\ Running(r) /\ stage[r] = "subscribers"
    BY <1>5 DEF Notified
  <2>2. c \in Latches
    BY <1>4, Marked DEF Events
  <2>3. e \in Events /\ e.outcome = (IF bad THEN "partial" ELSE event[r].outcome)
        /\ (event[r].disposition = "none" => e.disposition = "none")
    BY <1>4, <2>2, Marked
  <2> HIDE DEF e
  <2>4. Settles(r, bad, e)
    BY <1>5, <2>1, <2>3 DEF Notified, Settles
  <2> QED BY <2>3, <2>4 DEF Steps
<1>6. ASSUME NEW bad \in BOOLEAN, Archived(r, bad) PROVE Steps(r)
  <2> DEFINE e == Partial(event[r], bad)
  <2>1. Failure(r, bad, e) /\ Running(r) /\ stage[r] = "archiving"
    BY <1>6 DEF Archived
  <2>2. e \in Events /\ e.outcome = (IF bad THEN "partial" ELSE event[r].outcome)
        /\ (event[r].disposition = "none" => e.disposition = "none")
    BY <1>4, Marked
  <2> HIDE DEF e
  <2>3. Settles(r, bad, e)
    BY <1>6, <2>1, <2>2 DEF Archived, Settles
  <2> QED BY <2>2, <2>3 DEF Steps
<1>7. ASSUME NEW bad \in BOOLEAN, Delivered(r, bad) PROVE Steps(r)
  <2> DEFINE e == [Partial(event[r], bad) EXCEPT !.cancellation = latch[r]]
  <2>1. Failure(r, bad, e) /\ Running(r) /\ stage[r] = "sink"
    BY <1>7 DEF Delivered
  <2>2. e \in Events /\ e.outcome = (IF bad THEN "partial" ELSE event[r].outcome)
        /\ (event[r].disposition = "none" => e.disposition = "none") /\ e.cancellation = latch[r]
    BY <1>4, Marked
  <2> HIDE DEF e
  <2>3. Settles(r, bad, e)
    BY <1>7, <2>1, <2>2 DEF Delivered, Advance, Settles, Finished
  <2> QED BY <2>2, <2>3 DEF Steps
<1> QED BY <1>2, <1>3, <1>5, <1>6, <1>7, EndsByStart DEF Step, Steps

-----------------------------------------------------------------------------
(* The reducers. *)

Transitions == [code : Codes \ {"none"}, effect : BOOLEAN, lines : Carts, pending : Waiting]

\* A reducer that refuses leaves the cart; one that has an effect moves no cart that
\* waits, except to withdraw the wait, and makes only an idle cart wait for itself.
LEMMA Reduced ==
  ASSUME IInv, NEW r \in Requests, Commits(r)
  PROVE  LET t == Reduce(r) IN
         /\ t \in Transitions
         /\ ~t.effect => t.lines = lines /\ t.pending = pending
         /\ t.effect => \/ t.pending = NoPending
                        \/ /\ pending = NoPending /\ t.lines = lines
                           /\ t.pending = [op |-> command[r].op, rev |-> revision, lines |-> lines]
<1> DEFINE c == command[r]
           asked == [op |-> c.op, rev |-> revision, lines |-> lines]
           Good(t) == /\ t \in Transitions
                      /\ ~t.effect => t.lines = lines /\ t.pending = pending
                      /\ t.effect => \/ t.pending = NoPending
                                     \/ /\ pending = NoPending /\ t.lines = lines
                                        /\ t.pending = asked
<1> SUFFICES Good(Reduce(r))
  OBVIOUS
<1> USE ConstantTypes
<1>1. TypeOK /\ HashCurrent /\ c \in Commands /\ stage[r] # "idle"
  BY HeadCommand DEF IInv, Commits
<1>2. /\ lines \in Carts /\ pending \in Waiting /\ NoPending \in Waiting /\ asked \in Waiting
      /\ c.item \in Items /\ c.qty \in Nat
  BY <1>1, ValueTypes DEF TypeOK, Waiting
<1>3. ASSUME NEW code \in Codes \ {"none"} PROVE Good(Refusal(code))
  BY <1>2 DEF Refusal, Transitions
<1>4. ASSUME NEW code \in Codes \ {"none"}, NEW l \in Carts PROVE Good(Effect(code, l, NoPending))
  BY <1>2 DEF Effect, Transitions
<1>5. ASSUME NEW code \in Codes \ {"none"}, pending = NoPending PROVE Good(Effect(code, lines, asked))
  BY <1>2, <1>5 DEF Effect, Transitions
<1> HIDE DEF Good
<1>6. CASE c.tool = "cart_update"
  <2> DEFINE qty == IF c.fault /\ lines[c.item] > 0 THEN lines[c.item] ELSE c.qty
  <2>1. Reduce(r) = CartUpdate(c)
    BY <1>6 DEF Reduce
  <2>2. [lines EXCEPT ![c.item] = qty] \in Carts
    BY <1>2 DEF Carts
  <2>3. \/ CartUpdate(c) = Refusal("checkout_pending")
        \/ CartUpdate(c) = Refusal("invalid_item")
        \/ CartUpdate(c) = Refusal("no_change")
        \/ CartUpdate(c) = Effect("updated", [lines EXCEPT ![c.item] = qty], NoPending)
    BY DEF CartUpdate
  <2>4. \A l \in Carts : Good(Effect("updated", l, NoPending))
    BY <1>4 DEF Codes
  <2> HIDE DEF c, qty
  <2> QED BY <1>3, <2>1, <2>2, <2>3, <2>4 DEF Codes
<1>7. CASE c.tool = "checkout_request"
  <2>1. Reduce(r) = CheckoutRequest(c, hash[r])
    BY <1>7 DEF Reduce
  <2>2. hash[r] = [op |-> NoOp, rev |-> revision, lines |-> lines]
    BY <1>1, <1>7 DEF HashCurrent, Commits
  <2>3. [hash[r] EXCEPT !.op = c.op] = asked
    BY <2>2
  <2>4. \/ CheckoutRequest(c, hash[r]) = Refusal("already_pending")
        \/ /\ pending = NoPending
           /\ CheckoutRequest(c, hash[r]) = Effect("pending_human_approval", lines, asked)
    BY <2>3 DEF CheckoutRequest
  <2>5. pending = NoPending => Good(Effect("pending_human_approval", lines, asked))
    BY <1>5 DEF Codes
  <2> HIDE DEF c, asked
  <2> QED BY <1>3, <2>1, <2>4, <2>5 DEF Codes
<1>8. CASE c.tool = "checkout_cancel"
  <2>1. Reduce(r) = CheckoutCancel
    BY <1>8 DEF Reduce
  <2>2. \/ CheckoutCancel = Refusal("no_pending_checkout")
        \/ CheckoutCancel = Effect("checkout_canceled", lines, NoPending)
    BY DEF CheckoutCancel
  <2>3. Good(Effect("checkout_canceled", lines, NoPending))
    BY <1>2, <1>4 DEF Codes
  <2> HIDE DEF c
  <2> QED BY <1>3, <2>1, <2>2, <2>3 DEF Codes
<1> QED BY <1>6, <1>7, <1>8 DEF Commits

-----------------------------------------------------------------------------
(* Types. *)

LEMMA RecordTypes ==
  ASSUME TypeOK, NEW r \in Requests, NEW o \in Outcomes, NEW d \in Dispositions, Record(r, o, d)
  PROVE  /\ sequence' \in Nat /\ summary' \in [Requests -> Events] /\ event' \in [Requests -> Events]
         /\ entries' \in Seq(Requests) /\ UNCHANGED <<archives, lastReset>>
         /\ summary'[r] = event'[r] /\ event'[r].outcome = o /\ event'[r].disposition = d
         /\ \A q \in Requests \ {r} : summary'[q] = summary[q] /\ event'[q] = event[q]
         /\ entries' = Append(entries, r)
<1> DEFINE e == [seq |-> sequence + 1, outcome |-> o, disposition |-> d, cancellation |-> latch[r]]
<1>1. e \in Events /\ e.outcome = o /\ e.disposition = d
  BY DEF TypeOK, Events
<1>2. /\ sequence' = sequence + 1 /\ event' = [event EXCEPT ![r] = e]
      /\ summary' = [summary EXCEPT ![r] = e] /\ entries' = Append(entries, r)
      /\ UNCHANGED <<archives, lastReset>>
  BY DEF Record
<1>3. entries' \in Seq(Requests)
  BY <1>2, AppendProperties DEF TypeOK
<1> HIDE DEF e
<1> QED BY <1>1, <1>2, <1>3 DEF TypeOK

\* What a commit changes, by the transition t its reducer made.
CommitsAs(r, t, rev, o, d) ==
  /\ t = Reduce(r) /\ rev = (IF t.effect THEN revision + 1 ELSE revision)
  /\ lines' = t.lines /\ pending' = t.pending /\ revision' = rev
  /\ [code |-> t.code, rev |-> rev] \in Answers
  /\ command[r].op \in Ops /\ Canonical(command[r]) \in {Canonical(c) : c \in Commands}
  /\ tombstones' = [tombstones EXCEPT ![command[r].op] =
       [command |-> Canonical(command[r]), result |-> [code |-> t.code, rev |-> rev]]]
  /\ currentOps' = currentOps \cup {command[r].op}
  /\ answer' = [answer EXCEPT ![r] = [code |-> t.code, rev |-> rev]]
  /\ linearized' = [linearized EXCEPT ![r] = TRUE]
  /\ Record(r, o, d)
  /\ \E s \in {"subscribers", "sink"} : stage' = [stage EXCEPT ![r] = s]
  /\ UNCHANGED <<halted, admission, queue, command, latch, hash, receipt, failed>>

LEMMA Committed ==
  ASSUME IInv, NEW r \in Requests, Commits(r)
  PROVE  \E t \in Transitions, rev \in Nat, o \in {"completed", "expected_error"},
            d \in {"committed", "none"} : CommitsAs(r, t, rev, o, d)
<1> DEFINE t == Reduce(r)
           rev == IF t.effect THEN revision + 1 ELSE revision
<1>1. t \in Transitions
  BY Reduced
<1>2. t.code \in Codes /\ t.effect \in BOOLEAN
  BY <1>1 DEF Transitions
<1>3. revision \in Nat /\ command[r] \in Commands /\ command[r].op \in Ops
  BY HeadCommand, ConstantTypes DEF IInv, TypeOK, Commits, Mutations
<1>4. rev \in Nat /\ [code |-> t.code, rev |-> rev] \in Answers
  BY <1>2, <1>3 DEF Answers
<1>5. /\ lines' = t.lines /\ pending' = t.pending /\ revision' = rev
      /\ tombstones' = [tombstones EXCEPT ![command[r].op] =
           [command |-> Canonical(command[r]), result |-> [code |-> t.code, rev |-> rev]]]
      /\ currentOps' = currentOps \cup {command[r].op}
      /\ answer' = [answer EXCEPT ![r] = [code |-> t.code, rev |-> rev]]
      /\ linearized' = [linearized EXCEPT ![r] = TRUE]
      /\ Record(r, IF t.effect \/ t.code = "no_change" THEN "completed" ELSE "expected_error",
                IF t.effect THEN "committed" ELSE "none")
      /\ stage' = [stage EXCEPT ![r] = IF t.effect THEN "subscribers" ELSE "sink"]
      /\ UNCHANGED <<halted, admission, queue, command, latch, hash, receipt, failed>>
  BY DEF Commits, CommitMutation
<1> DEFINE o == IF t.effect \/ t.code = "no_change" THEN "completed" ELSE "expected_error"
           d == IF t.effect THEN "committed" ELSE "none"
           s == IF t.effect THEN "subscribers" ELSE "sink"
<1>6. o \in {"completed", "expected_error"} /\ d \in {"committed", "none"} /\ s \in {"subscribers", "sink"}
  OBVIOUS
<1>7. Record(r, o, d) /\ stage' = [stage EXCEPT ![r] = s]
  BY <1>5
<1>8. rev = IF t.effect THEN revision + 1 ELSE revision
  OBVIOUS
<1> HIDE DEF t, rev, o, d, s
<1>9. t = Reduce(r)
  BY DEF t
<1>10. CommitsAs(r, t, rev, o, d)
  BY <1>3, <1>4, <1>5, <1>6, <1>7, <1>8, <1>9 DEF CommitsAs
<1> QED BY <1>1, <1>4, <1>6, <1>10

LEMMA TypeStep == IInv /\ [Next]_vars => TypeOK'
<1> SUFFICES ASSUME IInv, [Next]_vars PROVE TypeOK'
  OBVIOUS
<1> USE ConstantTypes, ValueTypes DEF cart, ledger, trace, calls
<1>1. TypeOK
  BY DEF IInv
<1>2. CASE UNCHANGED vars
  BY <1>1, <1>2 DEF TypeOK, vars
<1>3. ASSUME NEW r \in Requests, NEW c \in Commands, Call(r, c) \/ HardReset(r, c) PROVE TypeOK'
  <2>1. Append(queue, r) \in Seq(Requests)
    BY <1>1, AppendProperties DEF TypeOK
  <2>2. command' \in [Requests -> Commands \cup {NoCommand}]
    BY <1>1, <1>3 DEF Call, HardReset, TypeOK
  <2>3. stage' \in [Requests -> Stages]
    <3>1. stage \in [Requests -> Stages] BY <1>1 DEF TypeOK
    <3>2. stage' = [stage EXCEPT ![r] = "refused"] \/ stage' = [stage EXCEPT ![r] = "queued"]
      BY <1>3 DEF Call, HardReset
    <3> QED BY <3>1, <3>2 DEF Stages
  <2>4. queue' \in Seq(Requests) /\ admission' \in Requests \cup {"open", "closed"}
    BY <1>1, <1>3, <2>1 DEF Call, HardReset, TypeOK
  <2> QED BY <1>1, <1>3, <2>2, <2>3, <2>4 DEF Call, HardReset, TypeOK
<1>4. ASSUME NEW r \in Requests, Abort(r) PROVE TypeOK'
  <2>1. latch' \in [Requests -> Latches]
    BY <1>1, <1>4 DEF Abort, TypeOK, Latches
  <2> QED BY <1>1, <1>4, <2>1 DEF Abort, TypeOK
<1>5. ASSUME NEW r \in Requests, Catch(r) PROVE TypeOK'
  <2>1. stage' \in [Requests -> Stages] /\ admission' \in Requests \cup {"open", "closed"}
    BY <1>1, <1>5 DEF Catch, TypeOK, Stages, Finished
  <2> QED BY <1>1, <1>5, <2>1 DEF Catch, TypeOK
<1>6. ASSUME NEW r \in Requests, Page(r) PROVE TypeOK'
  <2>1. receipt' \in [Requests -> {"none", "verified", "invalid"}]
    BY <1>1, <1>6 DEF Page, Inspect, Release, TypeOK
  <2> QED BY <1>1, <1>6, <2>1 DEF Page, Inspect, Release, TypeOK
<1>7. ASSUME NEW r \in Requests, Abandon(r) PROVE TypeOK'
  BY <1>1, <1>7 DEF Abandon, TypeOK
<1>8. ASSUME NEW r \in Requests, HashStarts(r) PROVE TypeOK'
  <2>1. [op |-> NoOp, rev |-> revision, lines |-> lines] \in Waiting
    BY <1>1 DEF Waiting, TypeOK
  <2>2. stage' \in [Requests -> Stages]
    BY <1>1, <1>8 DEF HashStarts, TypeOK, Stages, Active
  <2> DEFINE h == [op |-> NoOp, rev |-> revision, lines |-> lines]
  <2>3. hash' = hash \/ hash' = [hash EXCEPT ![r] = h]
    BY <1>8 DEF HashStarts
  <2> HIDE DEF h
  <2>4. hash' \in [Requests -> Waiting]
    BY <1>1, <2>1, <2>3 DEF TypeOK, h
  <2> QED BY <1>1, <1>8, <2>2, <2>4 DEF HashStarts, TypeOK
<1>9. ASSUME NEW r \in Requests, Commits(r) PROVE TypeOK'
  <2>1. PICK t \in Transitions, rev \in Nat, o \in {"completed", "expected_error"},
             d \in {"committed", "none"} : CommitsAs(r, t, rev, o, d)
    BY <1>9, Committed
  <2>2. t.lines \in Carts /\ t.pending \in Waiting
    BY DEF Transitions
  <2>3. [command |-> Canonical(command[r]), result |-> [code |-> t.code, rev |-> rev]] \in Tombs
    BY <2>1 DEF CommitsAs, Tombs
  <2>4. o \in Outcomes /\ d \in Dispositions
    BY DEF Outcomes, Dispositions
  <2>5. /\ sequence' \in Nat /\ summary' \in [Requests -> Events] /\ event' \in [Requests -> Events]
        /\ entries' \in Seq(Requests) /\ UNCHANGED <<archives, lastReset>>
    BY <1>1, <2>1, <2>4, RecordTypes DEF CommitsAs
  <2>6. /\ tombstones' \in [Ops -> Tombs] /\ currentOps' \subseteq Ops
        /\ answer' \in [Requests -> Answers \cup Rejections] /\ linearized' \in [Requests -> BOOLEAN]
    BY <1>1, <2>1, <2>3 DEF CommitsAs, TypeOK
  <2>7. stage' \in [Requests -> Stages]
    BY <1>1, <2>1 DEF CommitsAs, TypeOK, Stages, Active
  <2> QED BY <1>1, <2>1, <2>2, <2>5, <2>6, <2>7 DEF CommitsAs, TypeOK
<1>10. ASSUME NEW r \in Requests, Resets(r) PROVE TypeOK'
  <2> DEFINE e == [seq |-> sequence + 1, outcome |-> "completed", disposition |-> "committed",
                   cancellation |-> latch[r]]
  <2>1. e \in Events /\ sequence + 1 \in Nat
    BY <1>1 DEF TypeOK, Events, Outcomes, Dispositions
  <2>2. event' = [event EXCEPT ![r] = e] /\ summary' = [summary EXCEPT ![r] = e]
    BY <1>10 DEF Resets, CommitReset
  <2>3. event' \in [Requests -> Events] /\ summary' \in [Requests -> Events]
    BY <1>1, <2>1, <2>2 DEF TypeOK
  <2>4. archives' \in Seq(Seq(Requests)) /\ entries' \in Seq(Requests)
    BY <1>1, <1>10, EmptySeq, AppendProperties DEF TypeOK, Resets, CommitReset
  <2>5. answer' \in [Requests -> Answers \cup Rejections]
    <3>1. [code |-> "fixture_reset", rev |-> 0] \in Answers
      BY DEF Answers, Codes
    <3> QED BY <1>1, <1>10, <3>1 DEF TypeOK, Resets, CommitReset
  <2>6. stage' \in [Requests -> Stages] /\ linearized' \in [Requests -> BOOLEAN]
    BY <1>1, <1>10 DEF TypeOK, Resets, CommitReset, Stages, Active
  <2>7. /\ lines' = Fixture /\ revision' = 0 /\ pending' = NoPending /\ currentOps' = {}
        /\ tombstones' = tombstones /\ lastReset' = r /\ halted' = FALSE /\ sequence' = sequence + 1
        /\ admission' = IF command[r].hold THEN r ELSE admission
        /\ UNCHANGED <<queue, command, latch, hash, receipt, failed>>
    BY <1>10 DEF Resets, CommitReset, Retained
  <2> QED BY <1>1, <2>1, <2>3, <2>4, <2>5, <2>6, <2>7 DEF TypeOK
<1>11. ASSUME NEW r \in Requests, queue # <<>> PROVE Tail(queue) \in Seq(Requests)
  BY <1>1, <1>11, HeadTailProperties DEF TypeOK
<1>12. ASSUME NEW r \in Requests, ResetFails(r) PROVE TypeOK'
  <2>1. answer' \in [Requests -> Answers \cup Rejections] /\ stage' \in [Requests -> Stages]
    BY <1>1, <1>12 DEF ResetFails, HashFailed, TypeOK, Rejections, Stages
  <2>2. queue' \in Seq(Requests)
    BY <1>11, <1>12 DEF ResetFails, HashFailed, Advance, Running
  <2> QED BY <1>1, <1>12, <2>1, <2>2 DEF ResetFails, HashFailed, TypeOK
<1>13. ASSUME NEW r \in Requests, NEW res \in Answers \cup Rejections, NEW o \in Outcomes \ {"partial"},
              NEW d \in {"none", "replayed"}, NEW lin \in BOOLEAN, Ends(r, res, o, d, lin)
       PROVE  TypeOK'
  <2>1. Record(r, o, d) /\ d \in Dispositions
    BY <1>13 DEF Ends, Terminal, Dispositions
  <2>2. /\ sequence' \in Nat /\ summary' \in [Requests -> Events] /\ event' \in [Requests -> Events]
        /\ entries' \in Seq(Requests) /\ UNCHANGED <<archives, lastReset>>
    BY <1>1, <2>1, RecordTypes
  <2>3. /\ answer' \in [Requests -> Answers \cup Rejections] /\ stage' \in [Requests -> Stages]
        /\ linearized' \in [Requests -> BOOLEAN]
    BY <1>1, <1>13 DEF Ends, Terminal, TypeOK, Stages, Active
  <2> QED BY <1>1, <1>13, <2>2, <2>3 DEF Ends, Terminal, TypeOK
<1>14. ASSUME NEW r \in Requests, NEW bad \in BOOLEAN, NEW e \in Events, Settles(r, bad, e) PROVE TypeOK'
  <2>1. /\ event' \in [Requests -> Events] /\ summary' \in [Requests -> Events]
        /\ halted' \in BOOLEAN /\ failed' \in [Requests -> BOOLEAN]
    BY <1>1, <1>14 DEF Settles, Failure, Replace, TypeOK
  <2>2. stage' \in [Requests -> Stages]
    <3>1. PICK s \in Active \cup Finished \cup {"rejecting"} : stage' = [stage EXCEPT ![r] = s]
      BY <1>14 DEF Settles, Active
    <3>2. s \in Stages BY DEF Stages
    <3> QED BY <1>1, <3>1, <3>2 DEF TypeOK
  <2>3. queue' \in Seq(Requests)
    BY <1>1, <1>11, <1>14 DEF Settles, Running, TypeOK
  <2> QED BY <1>1, <1>14, <2>1, <2>2, <2>3 DEF Settles, Failure, TypeOK
<1> QED
  BY <1>2, <1>3, <1>4, <1>5, <1>6, <1>7, <1>8, <1>9, <1>10, <1>12, <1>13, <1>14, NextCases DEF Steps

-----------------------------------------------------------------------------
(* The queue. *)

\* How a step moves the call r between the queue and its stages.
Joins(r) ==
  /\ stage[r] = "idle" /\ \E c \in Commands : command' = [command EXCEPT ![r] = c]
  /\ \/ queue' = Append(queue, r) /\ stage' = [stage EXCEPT ![r] = "queued"]
     \/ UNCHANGED queue /\ stage' = [stage EXCEPT ![r] = "refused"]

Works(r) ==
  /\ Running(r) /\ UNCHANGED <<queue, command>> /\ stage[r] \in Active \cup {"queued"}
  /\ \E s \in Active : (s = "archiving" => IsReset(r)) /\ stage' = [stage EXCEPT ![r] = s]

Leaves(r) ==
  /\ Running(r) /\ queue' = Tail(queue) /\ UNCHANGED command /\ stage[r] \in {"hashing", "sink"}
  /\ \E s \in Finished \cup {"rejecting"} :
       (s = "rejecting" => IsReset(r)) /\ stage' = [stage EXCEPT ![r] = s]

Rests(r) ==
  /\ UNCHANGED <<queue, command>>
  /\ \/ stage[r] = "rejecting" /\ stage' = [stage EXCEPT ![r] = "rejected"]
     \/ UNCHANGED stage

LEMMA Shapes ==
  ASSUME IInv, NEW r \in Requests, Steps(r)
  PROVE  Joins(r) \/ Works(r) \/ Leaves(r) \/ Rests(r)
<1> USE DEF cart, ledger, trace, calls
<1>1. ASSUME NEW c \in Commands, Call(r, c) \/ HardReset(r, c) PROVE Joins(r)
  BY <1>1 DEF Call, HardReset, Joins
<1>2. CASE Abort(r) \/ Catch(r) \/ Page(r) \/ Abandon(r)
  BY <1>2 DEF Abort, Catch, Page, Inspect, Release, Abandon, Rests
<1>3. CASE HashStarts(r)
  BY <1>3 DEF HashStarts, Works, Active
<1>4. CASE Commits(r)
  <2>1. Running(r) /\ stage[r] \in Active \cup {"queued"} BY <1>4 DEF Commits, Active
  <2>2. PICK s \in {"subscribers", "sink"} :
          UNCHANGED <<queue, command>> /\ stage' = [stage EXCEPT ![r] = s]
    BY <1>4, Committed DEF CommitsAs
  <2> QED BY <2>1, <2>2 DEF Works, Active
<1>5. CASE Resets(r)
  BY <1>5 DEF Resets, CommitReset, Works, Active
<1>6. CASE ResetFails(r)
  BY <1>6 DEF ResetFails, HashFailed, Advance, Leaves
<1>7. ASSUME NEW res, NEW o, NEW d, NEW lin, Ends(r, res, o, d, lin) PROVE Works(r)
  BY <1>7 DEF Ends, Terminal, Works, Active
<1>8. ASSUME NEW bad, NEW e, Settles(r, bad, e) PROVE Works(r) \/ Leaves(r)
  BY <1>8 DEF Settles, Failure, Works, Leaves, Active
<1> QED BY <1>1, <1>2, <1>3, <1>4, <1>5, <1>6, <1>7, <1>8 DEF Steps

LEMMA QueueGrows ==
  ASSUME TypeOK, NEW r \in Requests
  PROVE  LET q == Append(queue, r) IN
         /\ q # <<>> /\ Len(q) = Len(queue) + 1 /\ Last(q) = r /\ q[Len(queue) + 1] = r
         /\ DOMAIN q = 1 .. Len(queue) + 1 /\ DOMAIN queue = 1 .. Len(queue) /\ Len(queue) \in Nat
         /\ \A i \in DOMAIN queue : q[i] = queue[i]
         /\ queue # <<>> => Head(q) = Head(queue)
         /\ queue = <<>> => Head(q) = r
<1>1. queue \in Seq(Requests)
  BY DEF TypeOK
<1>2. Append(queue, r) \in Seq(Requests) /\ Append(queue, r) # <<>>
  BY <1>1, AppendProperties
<1>3. /\ Len(Append(queue, r)) = Len(queue) + 1 /\ Append(queue, r)[Len(queue) + 1] = r
      /\ \A i \in 1 .. Len(queue) : Append(queue, r)[i] = queue[i]
  BY <1>1, AppendProperties
<1>4. DOMAIN queue = 1 .. Len(queue) /\ Len(queue) \in Nat /\ (queue = <<>> <=> Len(queue) = 0)
  BY <1>1, LenProperties, EmptySeq
<1>5. Head(Append(queue, r)) = Append(queue, r)[1] /\ (queue # <<>> => Head(queue) = queue[1])
  BY <1>1, <1>2, HeadTailProperties
<1> QED BY <1>2, <1>3, <1>4, <1>5, LenProperties DEF Last

LEMMA QueueShrinks ==
  ASSUME TypeOK, queue # <<>>
  PROVE  /\ Head(queue) = queue[1] /\ 1 \in DOMAIN queue /\ Len(queue) \in Nat \ {0}
         /\ Tail(queue) \in Seq(Requests) /\ Len(Tail(queue)) = Len(queue) - 1
         /\ \A i \in DOMAIN Tail(queue) : i + 1 \in DOMAIN queue /\ i \in Nat /\ Tail(queue)[i] = queue[i + 1]
<1>1. queue \in Seq(Requests)
  BY DEF TypeOK
<1>2. DOMAIN queue = 1 .. Len(queue) /\ Len(queue) \in Nat \ {0}
  BY <1>1, LenProperties, EmptySeq
<1>3. /\ Head(queue) = queue[1] /\ Tail(queue) \in Seq(Requests) /\ Len(Tail(queue)) = Len(queue) - 1
      /\ \A i \in 1 .. Len(Tail(queue)) : Tail(queue)[i] = queue[i + 1]
  BY <1>1, HeadTailProperties
<1>4. DOMAIN Tail(queue) = 1 .. Len(Tail(queue))
  BY <1>3, LenProperties
<1> QED BY <1>2, <1>3, <1>4

LEMMA QueuedStep == IInv /\ [Next]_vars => Queued'
<1> SUFFICES ASSUME IInv, [Next]_vars PROVE Queued'
  OBVIOUS
<1> USE ConstantTypes
<1>1. TypeOK /\ Queued /\ HashCurrent
  BY DEF IInv
<1>2. CASE UNCHANGED vars
  BY <1>1, <1>2 DEF Queued, vars, calls, Running, IsReset
<1>3. ASSUME NEW r \in Requests, Joins(r) PROVE Queued'
  <2>1. PICK c \in Commands : command' = [command EXCEPT ![r] = c]
    BY <1>3 DEF Joins
  <2>2. \A q \in Requests : /\ stage'[q] # "idle" <=> command'[q] # NoCommand
                            /\ stage'[q] \in {"archiving", "rejecting"} => IsReset(q)'
    BY <1>1, <1>3, <2>1 DEF Joins, Queued, TypeOK, IsReset
  <2>3. CASE queue' = Append(queue, r) /\ stage' = [stage EXCEPT ![r] = "queued"]
    <3>1. \A i \in DOMAIN queue : queue[i] # r /\ queue[i] \in Requests
      <4>1. queue \in Seq(Requests) /\ DOMAIN queue = 1 .. Len(queue)
        BY <1>1, LenProperties DEF TypeOK
      <4>2. \A i \in DOMAIN queue : queue[i] \in Requests
        BY <4>1, ElementOfSeq
      <4>3. stage[r] \notin Active \cup {"queued"}
        BY <1>3 DEF Joins, Active
      <4> QED BY <1>1, <4>2, <4>3 DEF Queued
    <3>2. \A i, j \in DOMAIN queue' : queue'[i] = queue'[j] => i = j
      BY <1>1, <2>3, <3>1, QueueGrows DEF Queued
    <3>3. \A i \in DOMAIN queue' : stage'[queue'[i]] \in Active \cup {"queued"}
      BY <1>1, <2>3, <3>1, QueueGrows DEF Queued, TypeOK
    <3>4. \A q \in Requests : stage'[q] \in Active => Running(q)'
      BY <1>1, <2>3, QueueGrows DEF Queued, TypeOK, Running, Active
    <3> QED BY <2>2, <3>2, <3>3, <3>4 DEF Queued
  <2>4. CASE UNCHANGED queue /\ stage' = [stage EXCEPT ![r] = "refused"]
    <3>1. \A i \in DOMAIN queue : queue[i] # r
      BY <1>1, <1>3 DEF Joins, Queued, Active
    <3> QED BY <1>1, <2>2, <2>4, <3>1 DEF Queued, TypeOK, Running, Active
  <2> QED BY <1>3, <2>3, <2>4 DEF Joins
<1>4. ASSUME NEW r \in Requests, Works(r) PROVE Queued'
  BY <1>1, <1>4 DEF Works, Queued, TypeOK, Running, IsReset, Active
<1>5. ASSUME NEW r \in Requests, Leaves(r) PROVE Queued'
  <2>1. queue # <<>> /\ queue[1] = r /\ queue' = Tail(queue)
    BY <1>1, <1>5, QueueShrinks DEF Leaves, Running
  <2>2. PICK s \in Finished \cup {"rejecting"} :
          (s = "rejecting" => IsReset(r)) /\ stage' = [stage EXCEPT ![r] = s]
    BY <1>5 DEF Leaves
  <2>3. \A i \in DOMAIN queue' : queue'[i] = queue[i + 1] /\ queue[i + 1] # r /\ i + 1 \in DOMAIN queue /\ i \in Nat
    BY <1>1, <2>1, QueueShrinks DEF Queued
  <2>4. \A i, j \in DOMAIN queue' : queue'[i] = queue'[j] => i = j
    BY <1>1, <2>3 DEF Queued
  <2>5. \A i \in DOMAIN queue' : stage'[queue'[i]] \in Active \cup {"queued"}
    BY <1>1, <2>2, <2>3 DEF Queued, TypeOK
  <2>6. \A q \in Requests : stage'[q] \notin Active
    BY <1>1, <1>5, <2>2 DEF Leaves, Queued, TypeOK, Running, Active, Finished
  <2>7. \A q \in Requests : /\ stage'[q] # "idle" <=> command'[q] # NoCommand
                            /\ stage'[q] \in {"archiving", "rejecting"} => IsReset(q)'
    BY <1>1, <1>5, <2>2 DEF Leaves, Queued, TypeOK, IsReset, Finished, Active
  <2>8. \A q \in Requests : stage'[q] \in Active => Running(q)' BY <2>6
  <2>9. \A q \in Requests : /\ stage'[q] \in Active => Running(q)'
                            /\ stage'[q] # "idle" <=> command'[q] # NoCommand
                            /\ stage'[q] \in {"archiving", "rejecting"} => IsReset(q)'
    BY <2>7, <2>8
  <2> QED BY <2>4, <2>5, <2>9, Zenon DEF Queued
<1>6. ASSUME NEW r \in Requests, Rests(r) PROVE Queued'
  <2>1. queue' = queue /\ command' = command BY <1>6 DEF Rests
  <2>2. CASE UNCHANGED stage BY <1>1, <2>1, <2>2 DEF Queued, Running, IsReset
  <2>3. CASE stage[r] = "rejecting" /\ stage' = [stage EXCEPT ![r] = "rejected"]
    <3>1. stage'[r] = "rejected" /\ \A q \in Requests : q # r => stage'[q] = stage[q]
      BY <1>1, <2>3 DEF TypeOK
    <3>2. \A i \in DOMAIN queue : queue[i] # r BY <1>1, <2>3 DEF Queued, Active
    <3>3. \A i \in DOMAIN queue : queue[i] \in Requests BY <1>1 DEF TypeOK
    <3>4. \A i \in DOMAIN queue : stage'[queue[i]] \in Active \cup {"queued"}
      BY <1>1, <3>1, <3>2, <3>3 DEF Queued
    <3>5. \A q \in Requests : /\ stage'[q] \in Active => stage[q] \in Active
                              /\ stage'[q] # "idle" <=> stage[q] # "idle"
                              /\ stage'[q] \in {"archiving", "rejecting"} =>
                                   stage[q] \in {"archiving", "rejecting"}
      BY <2>3, <3>1 DEF Active
    <3> QED BY <1>1, <2>1, <3>4, <3>5 DEF Queued, Running, IsReset
  <2> QED BY <1>6, <2>2, <2>3 DEF Rests
<1> QED BY <1>2, <1>3, <1>4, <1>5, <1>6, NextCases, Shapes

-----------------------------------------------------------------------------
(* What a step leaves alone. *)

\* The steps of callers and of the page: none of them is the store's.
Quiet(r) == (\E c \in Commands : Call(r, c) \/ HardReset(r, c)) \/ Abort(r) \/ Catch(r) \/ Page(r) \/ Abandon(r)

\* A step of one call is a step of the head, or the store does not move.
LEMMA Quiets ==
  ASSUME NEW r \in Requests, Steps(r)
  PROVE  \/ Quiet(r) /\ UNCHANGED <<cart, ledger, trace, halted, answer, linearized, hash, failed>>
         \/ ~Quiet(r) /\ Running(r) /\ UNCHANGED <<command, latch, receipt>>
<1> USE DEF cart, ledger, trace, calls
<1>1. CASE Quiet(r)
  BY <1>1 DEF Quiet, Call, HardReset, Abort, Catch, Page, Inspect, Release, Abandon
<1>2. CASE Commits(r)
  BY <1>1, <1>2 DEF Commits, CommitMutation
<1>3. CASE HashStarts(r) \/ Resets(r) \/ ResetFails(r)
  BY <1>1, <1>3 DEF HashStarts, Resets, CommitReset, ResetFails, HashFailed
<1>4. ASSUME NEW res, NEW o, NEW d, NEW lin, Ends(r, res, o, d, lin)
      PROVE  Running(r) /\ UNCHANGED <<command, latch, receipt>>
  BY <1>4 DEF Ends, Terminal
<1>5. ASSUME NEW bad, NEW e, Settles(r, bad, e) PROVE Running(r) /\ UNCHANGED <<command, latch, receipt>>
  BY <1>5 DEF Settles, Failure
<1> QED BY <1>1, <1>2, <1>3, <1>4, <1>5 DEF Steps, Quiet

\* A step of one call leaves alone what the document holds for the others.
LEMMA Others ==
  ASSUME IInv, NEW r \in Requests, Steps(r), NEW q \in Requests \ {r}
  PROVE  /\ stage'[q] = stage[q] /\ command'[q] = command[q] /\ latch'[q] = latch[q]
         /\ linearized'[q] = linearized[q] /\ answer'[q] = answer[q] /\ hash'[q] = hash[q]
         /\ event'[q] = event[q] /\ summary'[q] = summary[q] /\ failed'[q] = failed[q]
         /\ receipt'[q] = receipt[q]
<1> USE DEF cart, ledger, trace, calls
<1>1. TypeOK
  BY DEF IInv
<1>2. CASE Quiet(r)
  BY <1>1, <1>2 DEF Quiet, Call, HardReset, Abort, Catch, Page, Inspect, Release, Abandon, TypeOK
<1>3. CASE HashStarts(r)
  BY <1>1, <1>3 DEF HashStarts, TypeOK
<1>4. CASE Commits(r)
  BY <1>1, <1>4 DEF Commits, CommitMutation, Record, TypeOK
<1>5. CASE Resets(r)
  BY <1>1, <1>5 DEF Resets, CommitReset, TypeOK
<1>6. CASE ResetFails(r)
  BY <1>1, <1>6 DEF ResetFails, HashFailed, TypeOK
<1>7. ASSUME NEW res, NEW o, NEW d, NEW lin, Ends(r, res, o, d, lin)
      PROVE  /\ stage'[q] = stage[q] /\ linearized'[q] = linearized[q] /\ answer'[q] = answer[q]
             /\ event'[q] = event[q] /\ summary'[q] = summary[q]
             /\ UNCHANGED <<command, latch, hash, failed, receipt>>
  BY <1>1, <1>7 DEF Ends, Terminal, Record, TypeOK
<1>8. ASSUME NEW bad, NEW e, Settles(r, bad, e)
      PROVE  /\ stage'[q] = stage[q] /\ event'[q] = event[q] /\ summary'[q] = summary[q]
             /\ failed'[q] = failed[q]
             /\ UNCHANGED <<command, latch, linearized, answer, hash, receipt>>
  BY <1>1, <1>8 DEF Settles, Failure, Replace, TypeOK
<1> QED BY <1>2, <1>3, <1>4, <1>5, <1>6, <1>7, <1>8 DEF Steps, Quiet

-----------------------------------------------------------------------------
(* The cart and its tombstones. *)

\* Only a commit uses an operation up, and it uses its own.
LEMMA Consumes ==
  ASSUME IInv, NEW r \in Requests, Steps(r)
  PROVE  \/ UNCHANGED tombstones
         \/ /\ Commits(r) /\ command[r].op \in Ops
            /\ \A o \in Ops \ {command[r].op} : tombstones'[o] = tombstones[o]
<1> USE DEF cart, ledger, trace, calls
<1>1. CASE Quiet(r) \/ HashStarts(r) \/ Resets(r) \/ ResetFails(r)
  BY <1>1, Quiets DEF Steps, HashStarts, Resets, CommitReset, Retained, ResetFails, HashFailed
<1>2. CASE Commits(r)
  <2>1. PICK t \in Transitions, rev \in Nat, o \in {"completed", "expected_error"},
             d \in {"committed", "none"} : CommitsAs(r, t, rev, o, d)
    BY <1>2, Committed
  <2> QED BY <1>2, <2>1 DEF CommitsAs, IInv, TypeOK
<1>3. ASSUME NEW res, NEW o, NEW d, NEW lin, Ends(r, res, o, d, lin) PROVE UNCHANGED tombstones
  BY <1>3 DEF Ends, Terminal
<1>4. ASSUME NEW bad, NEW e, Settles(r, bad, e) PROVE UNCHANGED tombstones
  BY <1>4 DEF Settles, Failure
<1> QED BY <1>1, <1>2, <1>3, <1>4 DEF Steps, Quiet

\* While a digest is awaited, only the call that awaits it may move the cart.
LEMMA HashCurrentStep == IInv /\ [Next]_vars => HashCurrent'
<1> SUFFICES ASSUME IInv, [Next]_vars, NEW q \in Requests, stage'[q] = "hashing", ~IsReset(q)'
             PROVE  /\ hash'[q] = [op |-> NoOp, rev |-> revision', lines |-> lines']
                    /\ command'[q].tool = "checkout_request" /\ command'[q].op \notin Consumed'
  BY DEF HashCurrent
<1> USE DEF cart, ledger, trace, calls
<1>1. TypeOK /\ Queued /\ HashCurrent
  BY DEF IInv
<1>2. CASE UNCHANGED vars
  BY <1>1, <1>2 DEF HashCurrent, vars, IsReset, Consumed
<1>3. ASSUME NEW r \in Requests, Steps(r), r # q
      PROVE  /\ hash'[q] = [op |-> NoOp, rev |-> revision', lines |-> lines']
             /\ command'[q].tool = "checkout_request" /\ command'[q].op \notin Consumed'
  <2>1. stage[q] = "hashing" /\ ~IsReset(q) /\ command'[q] = command[q]
    BY <1>3, Others DEF IsReset
  <2>2. ~Running(r)
    BY <1>1, <1>3, <2>1 DEF Queued, Running, Active
  <2>3. UNCHANGED <<cart, ledger, hash>>
    BY <1>3, <2>2, Quiets
  <2> QED BY <1>1, <2>1, <2>3 DEF HashCurrent, Consumed
<1>4. CASE Steps(q)
  <2>1. CASE Quiet(q)
    <3>1. UNCHANGED <<cart, ledger, hash>>
      BY <1>4, <2>1, Quiets
    <3>2. stage[q] = "hashing" /\ UNCHANGED command
      BY <1>1, <2>1 DEF Quiet, Call, HardReset, Abort, Catch, Page, Inspect, Release, Abandon, TypeOK
    <3> QED BY <1>1, <3>1, <3>2 DEF HashCurrent, Consumed, IsReset
  <2>2. CASE HashStarts(q)
    <3>1. UNCHANGED <<cart, ledger, command>>
      BY <2>2 DEF HashStarts
    <3>2. /\ ~IsReset(q) /\ command[q].tool = "checkout_request" /\ command[q].op \notin Consumed
          /\ hash' = [hash EXCEPT ![q] = [op |-> NoOp, rev |-> revision, lines |-> lines]]
      BY <2>2, <3>1 DEF HashStarts, IsReset
    <3> QED BY <1>1, <3>1, <3>2 DEF Consumed, TypeOK
  <2>3. CASE Commits(q) \/ Resets(q) \/ ResetFails(q)
    BY <1>1, <2>3 DEF Commits, CommitMutation, Resets, CommitReset, ResetFails, HashFailed, TypeOK
  <2>4. ASSUME NEW res, NEW o, NEW d, NEW lin, Ends(q, res, o, d, lin) PROVE FALSE
    BY <1>1, <2>4 DEF Ends, Terminal, TypeOK
  <2>5. ASSUME NEW bad, NEW e, Settles(q, bad, e) PROVE FALSE
    BY <1>1, <2>5 DEF Settles, TypeOK, Finished
  <2> QED BY <1>4, <2>1, <2>2, <2>3, <2>4, <2>5 DEF Steps, Quiet
<1> QED BY <1>2, <1>3, <1>4, NextCases

\* How the cart moves: by the commit of a mutation, by a reset, or not at all.
LEMMA CartMoves ==
  ASSUME IInv, NEW r \in Requests, Steps(r)
  PROVE  Commits(r) \/ Resets(r) \/ UNCHANGED <<cart, ledger>>
<1> USE DEF cart, ledger, trace, calls
<1>1. ASSUME NEW res, NEW o, NEW d, NEW lin, Ends(r, res, o, d, lin) PROVE UNCHANGED <<cart, ledger>>
  BY <1>1 DEF Ends, Terminal
<1>2. ASSUME NEW bad, NEW e, Settles(r, bad, e) PROVE UNCHANGED <<cart, ledger>>
  BY <1>2 DEF Settles, Failure
<1>3. CASE Quiet(r) \/ HashStarts(r) \/ ResetFails(r)
  BY <1>3, Quiets DEF HashStarts, ResetFails, HashFailed
<1> QED BY <1>1, <1>2, <1>3 DEF Steps, Quiet

LEMMA PendingStep == IInv /\ [Next]_vars => PendingTrue'
<1> SUFFICES ASSUME IInv, [Next]_vars PROVE PendingTrue'
  OBVIOUS
<1> USE ConstantTypes DEF cart, ledger
<1>1. TypeOK /\ PendingTrue
  BY DEF IInv
<1>2. CASE UNCHANGED <<cart, ledger>>
  BY <1>1, <1>2 DEF PendingTrue, PendingMatchesCart
<1>3. ASSUME NEW r \in Requests, Commits(r) PROVE PendingTrue'
  <2>1. PICK t \in Transitions, rev \in Nat, o \in {"completed", "expected_error"},
             d \in {"committed", "none"} : CommitsAs(r, t, rev, o, d)
    BY <1>3, Committed
  <2>2. /\ ~t.effect => t.lines = lines /\ t.pending = pending
        /\ t.effect => \/ t.pending = NoPending
                       \/ /\ pending = NoPending /\ t.lines = lines
                          /\ t.pending = [op |-> command[r].op, rev |-> revision, lines |-> lines]
    BY <1>3, <2>1, Reduced DEF CommitsAs
  <2>3. /\ lines' = t.lines /\ pending' = t.pending /\ command[r].op \in Ops
        /\ revision' = IF t.effect THEN revision + 1 ELSE revision
    BY <2>1 DEF CommitsAs
  <2>4. revision \in Nat /\ t.effect \in BOOLEAN
    BY <1>1 DEF TypeOK, Transitions
  <2> QED BY <1>1, <2>2, <2>3, <2>4 DEF PendingTrue, PendingMatchesCart, NoPending
<1>4. ASSUME NEW r \in Requests, Resets(r) PROVE PendingTrue'
  BY <1>4 DEF Resets, CommitReset, PendingTrue, PendingMatchesCart, NoPending
<1> QED BY <1>2, <1>3, <1>4, NextCases, CartMoves DEF vars

-----------------------------------------------------------------------------
(* Answers and cancellations. *)

\* What the head holds after its commit.
LEMMA CommitHolds ==
  ASSUME IInv, NEW r \in Requests, Commits(r)
  PROVE  /\ stage'[r] \in {"subscribers", "sink"} /\ linearized'[r] /\ latch'[r] = "none"
         /\ answer'[r] \in Answers /\ command' = command /\ command[r].op \in Ops
         /\ tombstones'[command[r].op] = [command |-> Canonical(command[r]), result |-> answer'[r]]
         /\ answer'[r].code # "none"
         /\ event'[r].outcome # "partial" /\ summary'[r] = event'[r] /\ failed' = failed
         /\ halted' = halted /\ entries' = Append(entries, r)
<1>1. TypeOK
  BY DEF IInv
<1>2. PICK t \in Transitions, rev \in Nat, o \in {"completed", "expected_error"},
           d \in {"committed", "none"} : CommitsAs(r, t, rev, o, d)
  BY Committed
<1>3. o \in Outcomes /\ d \in Dispositions /\ Record(r, o, d)
  BY <1>2 DEF CommitsAs, Outcomes, Dispositions
<1>4. event'[r].outcome = o /\ summary'[r] = event'[r] /\ entries' = Append(entries, r)
  BY <1>1, <1>3, RecordTypes
<1>5. /\ stage'[r] \in {"subscribers", "sink"} /\ linearized'[r] /\ latch' = latch /\ command' = command
      /\ failed' = failed /\ halted' = halted
  BY <1>1, <1>2 DEF CommitsAs, TypeOK
<1>6. latch[r] = "none"
  BY DEF Commits
<1> DEFINE a == [code |-> t.code, rev |-> rev]
<1>7. a \in Answers /\ a.code # "none"
  BY <1>2 DEF CommitsAs, Transitions
<1>8. /\ answer' = [answer EXCEPT ![r] = a] /\ command[r].op \in Ops
      /\ tombstones' = [tombstones EXCEPT ![command[r].op] =
           [command |-> Canonical(command[r]), result |-> a]]
  BY <1>2 DEF CommitsAs
<1> HIDE DEF a
<1>9. answer'[r] = a
  BY <1>1, <1>8 DEF TypeOK
<1>10. tombstones'[command[r].op] = [command |-> Canonical(command[r]), result |-> a]
  BY <1>1, <1>8 DEF TypeOK
<1> QED BY <1>4, <1>5, <1>6, <1>7, <1>8, <1>9, <1>10

\* What it holds after a trace that ends it without an effect.
LEMMA EndHolds ==
  ASSUME IInv, NEW r \in Requests, NEW res \in Answers \cup Rejections, NEW o \in Outcomes \ {"partial"},
         NEW d \in {"none", "replayed"}, NEW lin \in BOOLEAN, Ends(r, res, o, d, lin)
  PROVE  /\ stage'[r] = "sink" /\ linearized'[r] = lin /\ answer'[r] = res
         /\ event'[r].outcome # "partial" /\ event'[r].disposition = d /\ summary'[r] = event'[r]
         /\ entries' = Append(entries, r)
         /\ UNCHANGED <<cart, ledger, halted, admission, queue, command, latch, hash, receipt, failed>>
<1>1. TypeOK
  BY DEF IInv
<1>2. d \in Dispositions /\ Record(r, o, d)
  BY DEF Ends, Terminal, Dispositions
<1>3. /\ event'[r].outcome = o /\ event'[r].disposition = d /\ summary'[r] = event'[r]
      /\ entries' = Append(entries, r)
  BY <1>1, <1>2, RecordTypes
<1>4. /\ stage'[r] = "sink" /\ linearized'[r] = lin /\ answer'[r] = res
      /\ UNCHANGED <<cart, ledger, halted, admission, queue, command, latch, hash, receipt, failed>>
  BY <1>1 DEF Ends, Terminal, TypeOK
<1> QED BY <1>3, <1>4

LEMMA Reals == /\ \A x \in Answers : x.rev # -1 /\ x.code # "AbortError"
               /\ \A x \in Rejections : x.rev = -1
BY DEF Answers, Codes, Rejections, Reject

LEMMA LatchedStep == IInv /\ [Next]_vars => Latched'
<1> DEFINE L(q) ==
      /\ ~linearized[q] => latch[q] # "after_completion"
      /\ stage[q] \in {"idle", "refused", "queued", "hashing"} =>
           ~linearized[q] /\ answer[q].code = "none"
      /\ answer[q].code = "AbortError" => latch[q] = "before_commit" /\ event[q].disposition = "none"
      /\ stage[q] \in {"subscribers", "archiving", "sink", "resolved"} /\ ~Rejects(q) =>
           linearized[q] /\ latch[q] # "before_commit"
      /\ stage[q] \in {"subscribers", "archiving", "resolved"} => ~Rejects(q)
<1> SUFFICES ASSUME IInv, [Next]_vars, NEW q \in Requests PROVE L(q)'
  BY DEF Latched
<1> USE DEF cart, ledger, trace, calls
<1>1. TypeOK /\ L(q)
  BY DEF IInv, Latched
<1>2. CASE UNCHANGED vars
  BY <1>1, <1>2 DEF vars, Rejects
<1>3. ASSUME NEW r \in Requests, Steps(r), r # q PROVE L(q)'
  BY <1>1, <1>3, Others DEF Rejects
<1>4. CASE Quiet(q)
  <2>1. UNCHANGED <<answer, linearized, event>>
    BY <1>4 DEF Quiet, Call, HardReset, Abort, Catch, Page, Inspect, Release, Abandon
  <2>2. CASE Abort(q)
    BY <1>1, <2>1, <2>2 DEF Abort, TypeOK, Rejects
  <2>3. CASE ~Abort(q)
    <3>1. UNCHANGED latch
      BY <1>4, <2>3 DEF Quiet, Call, HardReset, Catch, Page, Inspect, Release, Abandon
    <3>2. \/ stage'[q] = stage[q] \/ stage'[q] = "rejected"
          \/ stage[q] = "idle" /\ stage'[q] \in {"queued", "refused"}
      BY <1>1, <1>4, <2>3 DEF Quiet, Call, HardReset, Catch, Page, Inspect, Release, Abandon, TypeOK
    <3> QED BY <1>1, <2>1, <3>1, <3>2 DEF Rejects
  <2> QED BY <2>2, <2>3
<1>5. CASE HashStarts(q)
  BY <1>1, <1>5 DEF HashStarts, TypeOK, Rejects
<1>6. CASE Commits(q)
  BY <1>6, CommitHolds, Reals DEF Rejects
<1>7. CASE Resets(q)
  <2>1. /\ stage'[q] = "subscribers" /\ linearized'[q] /\ latch'[q] = "none"
        /\ answer'[q] = [code |-> "fixture_reset", rev |-> 0]
    BY <1>1, <1>7 DEF Resets, CommitReset, TypeOK
  <2> QED BY <2>1 DEF Rejects
<1>8. CASE ResetFails(q)
  <2>1. /\ stage'[q] = "rejecting" /\ linearized' = linearized /\ latch' = latch
        /\ answer'[q] = Reject("Error")
    BY <1>1, <1>8 DEF ResetFails, HashFailed, TypeOK
  <2> QED BY <1>1, <2>1 DEF Reject
<1>9. ASSUME NEW res \in Answers \cup Rejections, NEW o \in Outcomes \ {"partial"},
             NEW d \in {"none", "replayed"}, NEW lin \in BOOLEAN, Ends(q, res, o, d, lin)
      PROVE  L(q)'
  <2>1. /\ stage'[q] = "sink" /\ linearized'[q] = lin /\ answer'[q] = res /\ event'[q].disposition = d
        /\ latch' = latch
    BY <1>9, EndHolds
  <2>2. /\ stage[q] \in {"queued", "hashing"}
        /\ res.code = "AbortError" => latch[q] # "none" /\ d = "none"
        /\ res \in Answers => latch[q] = "none" /\ lin = TRUE
    BY <1>9 DEF Ends
  <2>3. latch[q] \in {"none", "before_commit"}
    BY <1>1, <2>2 DEF TypeOK, Latches
  <2> QED BY <2>1, <2>2, <2>3, Reals DEF Rejects
<1>10. ASSUME NEW bad \in BOOLEAN, NEW e \in Events, Settles(q, bad, e) PROVE L(q)'
  <2>1. UNCHANGED <<answer, linearized, latch>> /\ event'[q] = e
    BY <1>1, <1>10 DEF Settles, Failure, TypeOK
  <2>2. stage[q] \in {"subscribers", "archiving", "sink"} /\ (event[q].disposition = "none" => e.disposition = "none")
    BY <1>10 DEF Settles
  <2>3. \/ stage[q] \in {"subscribers", "archiving"} /\ stage'[q] \in {"archiving", "sink"}
        \/ /\ stage[q] = "sink" /\ stage'[q] \in {"resolved", "rejected", "rejecting"}
           /\ stage'[q] = "resolved" <=> ~Rejects(q)
    BY <1>1, <1>10 DEF Settles, TypeOK, Finished
  <2> QED BY <1>1, <2>1, <2>2, <2>3 DEF Rejects
<1> QED BY <1>2, <1>3, <1>4, <1>5, <1>6, <1>7, <1>8, <1>9, <1>10, NextCases DEF Steps, Quiet

\* An operation is used up with the answer its first call is given, and no later
\* step answers another of its calls differently.
LEMMA EntombedStep == IInv /\ [Next]_vars => Entombed'
<1> SUFFICES ASSUME IInv, [Next]_vars, NEW q \in Requests, Past(q)' PROVE Told(q)'
  BY DEF Entombed
<1> USE DEF cart, ledger, trace, calls
<1>1. TypeOK /\ Queued /\ Entombed /\ Latched
  BY DEF IInv
<1>2. CASE UNCHANGED vars
  BY <1>1, <1>2 DEF vars, Past, Told, Entombed, Rejects, IsReset, Consumed
<1>3. ASSUME NEW r \in Requests, Steps(r), Past(q), command'[q] = command[q], answer'[q] = answer[q]
      PROVE  Told(q)'
  <2>1. Told(q) /\ command[q].op \in Ops
    BY <1>1, <1>3 DEF Entombed, Told, Consumed
  <2>2. CASE UNCHANGED tombstones
    BY <1>3, <2>1, <2>2 DEF Told, Consumed
  <2>3. CASE Commits(r)
    <3>1. command[r].op # command[q].op
      BY <2>1, <2>3 DEF Commits, Told
    <3>2. tombstones'[command[q].op] = tombstones[command[q].op]
      BY <1>3, <2>1, <2>3, <3>1, Consumes
    <3> QED BY <1>3, <2>1, <3>2 DEF Told, Consumed
  <2> QED BY <1>3, <2>2, <2>3, Consumes
<1>4. ASSUME NEW r \in Requests, Steps(r), r # q PROVE Told(q)'
  BY <1>3, <1>4, Others DEF Past, Rejects, IsReset
<1>5. ASSUME Steps(q), command' = command, answer' = answer,
             stage[q] \in {"subscribers", "archiving", "sink", "resolved"},
             stage[q] = "archiving" => IsReset(q)
      PROVE  Told(q)'
  BY <1>3, <1>5 DEF Past, Rejects, IsReset
<1>6. CASE Steps(q) /\ Quiet(q)
  <2>1. answer' = answer
    BY <1>6, Quiets
  <2>2. stage'[q] = stage[q] /\ command' = command
    BY <1>1, <1>6 DEF Quiet, Call, HardReset, Abort, Catch, Page, Inspect, Release, Abandon, TypeOK, Past
  <2> QED BY <1>5, <1>6, <2>1, <2>2 DEF Past
<1>7. CASE HashStarts(q) \/ Resets(q) \/ ResetFails(q)
  BY <1>1, <1>7 DEF HashStarts, Resets, CommitReset, ResetFails, HashFailed, TypeOK, Past, IsReset
<1>8. CASE Commits(q)
  <2>1. Told(q)' <=> /\ command[q].op \in Consumed'
                     /\ tombstones'[command[q].op] =
                          [command |-> Canonical(command[q]), result |-> answer'[q]]
    BY <1>8, CommitHolds DEF Told
  <2>2. tombstones'[command[q].op].result.code # "none"
    <3>1. /\ tombstones'[command[q].op] = [command |-> Canonical(command[q]), result |-> answer'[q]]
          /\ answer'[q].code # "none"
      BY <1>8, CommitHolds
    <3> QED BY <3>1
  <2> QED BY <1>8, <2>1, <2>2, CommitHolds, ValueTypes DEF Consumed
<1>9. ASSUME NEW res \in Answers \cup Rejections, NEW o \in Outcomes \ {"partial"},
             NEW d \in {"none", "replayed"}, NEW lin \in BOOLEAN, Ends(q, res, o, d, lin)
      PROVE  Told(q)'
  <2>1. answer'[q] = res /\ UNCHANGED <<command, tombstones>>
    BY <1>9, EndHolds
  <2>2. res \in Answers /\ ~IsReset(q) /\ command[q].tool \in Mutations /\ res.code \notin Excluded
    BY <2>1, Reals DEF Past, Rejects, IsReset
  <2>3. /\ command[q].op \in Consumed
        /\ tombstones[command[q].op] = [command |-> Canonical(command[q]), result |-> res]
    BY <1>9, <2>2 DEF Ends
  <2> QED BY <2>1, <2>3 DEF Told, Consumed
<1>10. ASSUME NEW bad \in BOOLEAN, NEW e \in Events, Settles(q, bad, e), Steps(q) PROVE Told(q)'
  <2>1. UNCHANGED <<answer, command>> /\ stage[q] \in {"subscribers", "archiving", "sink"}
    BY <1>10 DEF Settles, Failure
  <2> QED BY <1>1, <1>5, <1>10, <2>1 DEF Queued
<1> QED BY <1>2, <1>4, <1>6, <1>7, <1>8, <1>9, <1>10, NextCases DEF Steps, Quiet

-----------------------------------------------------------------------------
(* The trace. *)

LEMMA Lasts ==
  ASSUME TypeOK, NEW r \in Requests
  PROVE  /\ Append(entries, r) # <<>> /\ Last(Append(entries, r)) = r
         /\ DOMAIN Append(entries, r) = 1 .. Len(entries) + 1 /\ DOMAIN entries = 1 .. Len(entries)
         /\ \A i \in DOMAIN entries : Append(entries, r)[i] = entries[i]
         /\ Append(entries, r)[Len(entries) + 1] = r /\ Len(entries) \in Nat
<1>1. entries \in Seq(Requests)
  BY DEF TypeOK
<1>2. /\ Append(entries, r) \in Seq(Requests) /\ Append(entries, r) # <<>>
      /\ Len(Append(entries, r)) = Len(entries) + 1 /\ Append(entries, r)[Len(entries) + 1] = r
      /\ \A i \in 1 .. Len(entries) : Append(entries, r)[i] = entries[i]
  BY <1>1, AppendProperties
<1> QED BY <1>1, <1>2, LenProperties DEF Last

LEMMA TracedStep == IInv /\ [Next]_vars => Traced'
<1> DEFINE T(q) ==
      /\ stage[q] \in {"idle", "refused", "queued", "hashing"} => event[q] = NoEvent /\ ~failed[q]
      /\ stage[q] \in {"subscribers", "archiving", "sink"} =>
           Newest(q) /\ summary[q] = event[q] /\ (failed[q] <=> event[q].outcome = "partial")
      /\ stage[q] \in {"rejecting"} \cup Finished /\ event[q] # NoEvent =>
           (failed[q] <=> summary[q].outcome = "partial") /\ summary[q].cancellation = latch[q]
<1> SUFFICES ASSUME IInv, [Next]_vars, NEW q \in Requests PROVE T(q)'
  BY DEF Traced
<1> USE DEF cart, ledger, trace, calls, Finished
<1>1. TypeOK /\ Queued /\ T(q)
  BY DEF IInv, Traced
<1>2. CASE UNCHANGED vars
  BY <1>1, <1>2 DEF vars, Newest
<1>3. ASSUME NEW r \in Requests, Steps(r), r # q PROVE T(q)'
  <2>1. CASE stage[q] \in {"subscribers", "archiving", "sink"}
    <3>1. ~Running(r)
      BY <1>1, <1>3, <2>1 DEF Queued, Running, Active
    <3>2. Newest(q)' = Newest(q)
      BY <1>3, <3>1, Quiets DEF Newest
    <3> QED BY <1>1, <1>3, <2>1, <3>2, Others
  <2>2. CASE stage[q] \notin {"subscribers", "archiving", "sink"}
    BY <1>1, <1>3, <2>2, Others
  <2> QED BY <2>1, <2>2
<1>4. CASE Steps(q) /\ Quiet(q)
  <2>1. UNCHANGED <<event, summary, failed, entries, lastReset>>
    BY <1>4, Quiets
  <2>2. CASE Abort(q)
    <3>1. /\ UNCHANGED stage /\ stage[q] \notin {"rejecting", "resolved", "rejected"}
      BY <2>2 DEF Abort
    <3> QED BY <1>1, <2>1, <3>1 DEF Newest
  <2>3. CASE ~Abort(q)
    <3>1. UNCHANGED latch
      BY <1>4, <2>3 DEF Quiet, Call, HardReset, Catch, Page, Inspect, Release, Abandon
    <3>2. \/ stage'[q] = stage[q]
          \/ stage[q] = "rejecting" /\ stage'[q] = "rejected"
          \/ stage[q] = "idle" /\ stage'[q] \in {"queued", "refused"}
      BY <1>1, <1>4, <2>3 DEF Quiet, Call, HardReset, Catch, Page, Inspect, Release, Abandon, TypeOK
    <3> QED BY <1>1, <2>1, <3>1, <3>2 DEF Newest
  <2> QED BY <2>2, <2>3
<1>5. CASE HashStarts(q)
  <2>1. stage[q] = "queued" /\ stage'[q] = "hashing" /\ UNCHANGED <<event, failed>>
    BY <1>1, <1>5 DEF HashStarts, TypeOK
  <2> QED BY <1>1, <2>1
<1>6. CASE Commits(q)
  <2>1. Newest(q)'
    <3>1. entries' = Append(entries, q)
      BY <1>6, CommitHolds
    <3>2. entries' # <<>> /\ Last(entries') = q
      BY <1>1, <3>1, Lasts
    <3> QED BY <3>2 DEF Newest
  <2>2. ~failed[q]
    BY <1>1, <1>6 DEF Commits
  <2> QED BY <1>6, <2>1, <2>2, CommitHolds
<1>7. CASE Resets(q)
  <2> DEFINE e == [seq |-> sequence + 1, outcome |-> "completed", disposition |-> "committed",
                   cancellation |-> latch[q]]
  <2>1. /\ event' = [event EXCEPT ![q] = e] /\ summary' = [summary EXCEPT ![q] = e]
        /\ stage' = [stage EXCEPT ![q] = "subscribers"] /\ lastReset' = q /\ failed' = failed
    BY <1>7 DEF Resets, CommitReset
  <2>2. e.outcome # "partial"
    OBVIOUS
  <2> HIDE DEF e
  <2>3. /\ event'[q] = e /\ summary'[q] = e /\ stage'[q] = "subscribers" /\ Newest(q)' /\ ~failed'[q]
    BY <1>1, <1>7, <2>1 DEF TypeOK, Newest, Resets
  <2> QED BY <2>2, <2>3
<1>8. CASE ResetFails(q)
  <2>1. stage[q] = "hashing" /\ stage'[q] = "rejecting" /\ event' = event
    BY <1>1, <1>8 DEF ResetFails, HashFailed, TypeOK
  <2> QED BY <1>1, <2>1
<1>9. ASSUME NEW res \in Answers \cup Rejections, NEW o \in Outcomes \ {"partial"},
             NEW d \in {"none", "replayed"}, NEW lin \in BOOLEAN, Ends(q, res, o, d, lin)
      PROVE  T(q)'
  <2>1. /\ stage'[q] = "sink" /\ event'[q].outcome # "partial" /\ summary'[q] = event'[q]
        /\ failed' = failed /\ entries' = Append(entries, q)
    BY <1>9, EndHolds
  <2>2. ~failed[q]
    BY <1>1, <1>9 DEF Ends
  <2>3. Newest(q)'
    BY <1>1, <2>1, Lasts DEF Newest
  <2> QED BY <2>1, <2>2, <2>3
<1>10. ASSUME NEW bad \in BOOLEAN, NEW e \in Events, Settles(q, bad, e) PROVE T(q)'
  <2>1. stage[q] \in {"subscribers", "archiving", "sink"} /\ UNCHANGED <<entries, lastReset, latch>>
    BY <1>10 DEF Settles, Failure
  <2>2. Newest(q) /\ Newest(q)'
    BY <1>1, <2>1 DEF Newest
  <2>3. event'[q] = e /\ summary'[q] = e /\ (failed'[q] <=> failed[q] \/ bad)
    BY <1>1, <1>10, <2>2 DEF Settles, Failure, Replace, Newest, TypeOK
  <2>4. e.outcome = IF bad THEN "partial" ELSE event[q].outcome
    BY <1>10 DEF Settles
  <2>5. \/ stage'[q] \in {"archiving", "sink"}
        \/ stage'[q] \in {"resolved", "rejected", "rejecting"} /\ e.cancellation = latch[q]
    BY <1>1, <1>10 DEF Settles, TypeOK
  <2> QED BY <1>1, <2>1, <2>2, <2>3, <2>4, <2>5
<1> QED BY <1>2, <1>3, <1>4, <1>5, <1>6, <1>7, <1>8, <1>9, <1>10, NextCases DEF Steps, Quiet

LEMMA HaltsStep == IInv /\ [Next]_vars => Halts'
<1> SUFFICES ASSUME IInv, [Next]_vars PROVE Halts'
  OBVIOUS
<1> USE DEF cart, ledger, trace, calls
<1>1. TypeOK /\ Traced /\ Halts
  BY DEF IInv
<1>2. CASE UNCHANGED <<entries, failed, halted>>
  BY <1>1, <1>2 DEF Halts
<1>3. ASSUME NEW r \in Requests, stage[r] \in {"queued", "hashing"}, entries' = Append(entries, r),
             UNCHANGED <<failed, halted>>
      PROVE  Halts'
  <2>1. ~failed[r]
    BY <1>1, <1>3 DEF Traced
  <2>2. \A i \in DOMAIN entries' : entries'[i] = r \/ (i \in DOMAIN entries /\ entries'[i] = entries[i])
    BY <1>1, <1>3, Lasts
  <2> QED BY <1>1, <1>3, <2>1, <2>2 DEF Halts
<1>4. ASSUME NEW r \in Requests, Commits(r) PROVE Halts'
  <2>1. stage[r] \in {"queued", "hashing"}
    BY <1>4 DEF Commits
  <2>2. entries' = Append(entries, r) /\ UNCHANGED <<failed, halted>>
    BY <1>4, CommitHolds
  <2> QED BY <1>3, <2>1, <2>2
<1>5. ASSUME NEW r \in Requests, Resets(r) PROVE Halts'
  <2>1. entries' = <<>> /\ DOMAIN <<>> = {}
    BY <1>5, EmptySeq DEF Resets, CommitReset
  <2> QED BY <2>1 DEF Halts
<1>6. ASSUME NEW r \in Requests, NEW res \in Answers \cup Rejections, NEW o \in Outcomes \ {"partial"},
             NEW d \in {"none", "replayed"}, NEW lin \in BOOLEAN, Ends(r, res, o, d, lin)
      PROVE  Halts'
  <2>1. stage[r] \in {"queued", "hashing"}
    BY <1>6 DEF Ends
  <2>2. entries' = Append(entries, r) /\ UNCHANGED <<failed, halted>>
    BY <1>6, EndHolds
  <2> QED BY <1>3, <2>1, <2>2
<1>7. ASSUME NEW r \in Requests, NEW bad \in BOOLEAN, NEW e \in Events, Settles(r, bad, e) PROVE Halts'
  <2>1. /\ entries' = entries /\ halted' = (halted \/ bad)
        /\ failed' = [failed EXCEPT ![r] = failed[r] \/ bad]
    BY <1>7 DEF Settles, Failure
  <2>2. \A q \in Requests : failed'[q] => failed[q] \/ bad
    BY <1>1, <2>1 DEF TypeOK
  <2>3. \A i \in DOMAIN entries : entries[i] \in Requests
    BY <1>1, LenProperties, ElementOfSeq DEF TypeOK
  <2> QED BY <1>1, <2>1, <2>2, <2>3 DEF Halts
<1>8. ASSUME NEW r \in Requests, Steps(r), Quiet(r) \/ HashStarts(r) \/ ResetFails(r)
      PROVE  UNCHANGED <<entries, failed, halted>>
  BY <1>8, Quiets DEF HashStarts, ResetFails, HashFailed
<1>9. CASE UNCHANGED vars
  BY <1>2, <1>9 DEF vars
<1> QED BY <1>2, <1>4, <1>5, <1>6, <1>7, <1>8, <1>9, NextCases DEF Steps, Quiet

-----------------------------------------------------------------------------
(* Resets and the admission they hold. *)

\* Who changes admission, and how.
LEMMA Admits ==
  ASSUME IInv, NEW r \in Requests, Steps(r)
  PROVE  \/ UNCHANGED admission
         \/ \E c \in Commands : HardReset(r, c) /\ c.hold /\ admission' = "closed"
         \/ Resets(r) /\ command[r].hold /\ admission' = r
         \/ admission' = "open" /\ Catch(r)
         \/ admission' = "open" /\ admission = r /\ stage[r] = "resolved"
<1> USE DEF cart, ledger, trace, calls
<1>1. CASE Quiet(r)
  <2>1. Certified
    BY DEF IInv
  <2> QED BY <1>1, <2>1 DEF Quiet, Call, HardReset, Abort, Catch, Page, Inspect, Release, Abandon, Certified
<1>2. CASE HashStarts(r) \/ Commits(r) \/ Resets(r) \/ ResetFails(r)
  BY <1>2 DEF HashStarts, Commits, CommitMutation, Resets, CommitReset, ResetFails, HashFailed
<1>3. ASSUME NEW res, NEW o, NEW d, NEW lin, Ends(r, res, o, d, lin) PROVE UNCHANGED admission
  BY <1>3 DEF Ends, Terminal
<1>4. ASSUME NEW bad, NEW e, Settles(r, bad, e) PROVE UNCHANGED admission
  BY <1>4 DEF Settles
<1> QED BY <1>1, <1>2, <1>3, <1>4 DEF Steps, Quiet

\* An unfinished reset was unfinished before, unless the step makes it.
LEMMA Opens ==
  ASSUME IInv, NEW r \in Requests, Steps(r), NEW q \in Requests, OpenReset(q)'
  PROVE  \/ OpenReset(q) /\ command'[q] = command[q]
         \/ q = r /\ \E c \in Commands : HardReset(r, c) /\ command'[q] = c
<1> USE DEF cart, ledger, trace, calls
<1>1. TypeOK /\ Queued
  BY DEF IInv
<1>2. CASE q # r
  BY <1>2, Others DEF OpenReset, IsReset
<1>3. ASSUME q = r, NEW c \in Commands, HardReset(r, c)
      PROVE  \E x \in Commands : HardReset(r, x) /\ command'[q] = x
  BY <1>1, <1>3 DEF HardReset, TypeOK
<1>4. ASSUME q = r, NEW c \in Commands, Call(r, c) PROVE FALSE
  BY <1>1, <1>4 DEF Call, TypeOK, OpenReset, IsReset
<1>5. CASE q = r /\ UNCHANGED command /\ stage[r] \notin Finished
  BY <1>5 DEF OpenReset, IsReset
<1>6. ASSUME Works(r) \/ Leaves(r) \/ Rests(r)
      PROVE  UNCHANGED command /\ (stage[r] \in Finished => UNCHANGED stage)
  BY <1>6 DEF Works, Leaves, Rests, Active, Finished
<1>7. CASE q = r /\ ~ \E c \in Commands : Call(r, c) \/ HardReset(r, c)
  <2>1. UNCHANGED command
    <3>1. CASE Abort(r) \/ Catch(r) \/ Page(r) \/ Abandon(r)
      BY <3>1 DEF Abort, Catch, Page, Inspect, Release, Abandon
    <3> QED BY <1>7, <3>1, Quiets DEF Quiet
  <2>2. ~Joins(r)
    BY <1>1, <2>1, ConstantTypes DEF Joins, Queued, TypeOK
  <2>3. stage[r] \in Finished => UNCHANGED stage
    BY <1>6, <2>2, Shapes
  <2> QED BY <1>5, <1>7, <2>1, <2>3 DEF OpenReset, IsReset
<1> QED BY <1>2, <1>3, <1>4, <1>7

\* A reset is made only when no other is unfinished and nobody holds admission.
LEMMA ResetAlone ==
  ASSUME NEW r \in Requests, NEW c \in Commands, HardReset(r, c)
  PROVE  admission = "open" /\ \A q \in Requests : ~OpenReset(q)
BY DEF HardReset, ResetFree, OpenReset, Finished

LEMMA OneResetStep == IInv /\ [Next]_vars => OneReset'
<1> SUFFICES ASSUME IInv, [Next]_vars PROVE OneReset'
  OBVIOUS
<1>1. TypeOK /\ Queued /\ OneReset
  BY DEF IInv
<1>2. CASE UNCHANGED vars
  BY <1>1, <1>2 DEF vars, calls, OneReset, OpenReset, IsReset
<1>3. ASSUME NEW r \in Requests, Steps(r) PROVE OneReset'
  <2>1. ASSUME NEW p \in Requests, NEW q \in Requests, OpenReset(p)', OpenReset(q)' PROVE p = q
    BY <1>1, <1>3, <2>1, Opens, ResetAlone DEF OneReset
  <2>2. ASSUME NEW q \in Requests, OpenReset(q)', ~command'[q].hold PROVE admission' = "open"
    <3>1. CASE OpenReset(q) /\ command'[q] = command[q]
      <4>1. admission = "open"
        BY <1>1, <2>2, <3>1 DEF OneReset
      <4>2. ASSUME Resets(r), command[r].hold PROVE FALSE
        <5>1. OpenReset(r)
          BY <4>2 DEF Resets, OpenReset, Finished
        <5> QED BY <1>1, <2>2, <3>1, <4>2, <5>1 DEF OneReset
      <4> QED BY <1>3, <3>1, <4>1, <4>2, Admits, ResetAlone
    <3>2. ASSUME NEW c \in Commands, HardReset(r, c), command'[q] = c PROVE admission' = "open"
      BY <2>2, <3>2, ResetAlone DEF HardReset
    <3> QED BY <1>3, <2>2, <3>1, <3>2, Opens
  <2> QED BY <2>1, <2>2 DEF OneReset
<1> QED BY <1>2, <1>3, NextCases

\* The first and the last call of the queue, when they are the same and not.
LEMMA QueueEnds ==
  ASSUME TypeOK, Queued, queue # <<>>
  PROVE  /\ Head(queue) = Last(queue) => queue = <<Head(queue)>>
         /\ Head(queue) # Last(queue) => Tail(queue) # <<>> /\ Last(Tail(queue)) = Last(queue)
         /\ \A r : Head(<<r>>) = r /\ Tail(<<r>>) = <<>> /\ <<r>> # <<>>
<1>1. /\ queue \in Seq(Requests) /\ Head(queue) = queue[1] /\ Len(queue) \in Nat \ {0}
      /\ Tail(queue) \in Seq(Requests) /\ Len(Tail(queue)) = Len(queue) - 1
      /\ \A i \in DOMAIN Tail(queue) : Tail(queue)[i] = queue[i + 1]
      /\ DOMAIN queue = 1 .. Len(queue)
      /\ DOMAIN Tail(queue) = 1 .. Len(queue) - 1
  BY QueueShrinks, LenProperties DEF TypeOK
<1>2. Last(queue) = queue[Len(queue)] /\ Last(Tail(queue)) = Tail(queue)[Len(queue) - 1]
  BY <1>1 DEF Last
<1>3. Head(queue) = Last(queue) => Len(queue) = 1
  BY <1>1, <1>2 DEF Queued
<1>4. Len(queue) = 1 => queue = <<Head(queue)>>
  <2> SUFFICES ASSUME Len(queue) = 1 PROVE queue = <<Head(queue)>>
    OBVIOUS
  <2>1. Head(queue) \in Requests /\ <<Head(queue)>> \in Seq(Requests)
    BY <1>1, ElementOfSeq
  <2>2. Len(<<Head(queue)>>) = 1 /\ <<Head(queue)>>[1] = Head(queue)
    OBVIOUS
  <2> QED BY <1>1, <2>1, <2>2, SeqEqual
<1>5. Len(queue) # 1 => Tail(queue) # <<>> /\ Last(Tail(queue)) = Last(queue)
  <2> SUFFICES ASSUME Len(queue) # 1 PROVE Tail(queue) # <<>> /\ Last(Tail(queue)) = Last(queue)
    OBVIOUS
  <2>1. Len(queue) - 1 \in DOMAIN Tail(queue) /\ (Len(queue) - 1) + 1 = Len(queue)
    BY <1>1
  <2>2. Tail(queue)[Len(queue) - 1] = queue[Len(queue)]
    BY <1>1, <2>1
  <2>3. Len(Tail(queue)) # 0
    BY <1>1
  <2>4. Tail(queue) # <<>>
    BY <1>1, <2>3, EmptySeq
  <2> QED BY <1>2, <2>2, <2>4
<1>6. Len(queue) = 1 => Last(queue) = Head(queue)
  BY <1>1, <1>2
<1> QED BY <1>3, <1>4, <1>5, <1>6

LEMMA HeldStep == IInv /\ [Next]_vars => Held'
<1> SUFFICES ASSUME IInv, [Next]_vars PROVE Held'
  OBVIOUS
<1> USE ConstantTypes DEF cart, ledger, trace, calls
<1>1. TypeOK /\ Queued /\ Latched /\ OneReset /\ Held /\ Certified
  BY DEF IInv
<1>2. CASE UNCHANGED vars
  BY <1>1, <1>2 DEF vars, Held, OpenReset, IsReset, Rejects
<1>3. ASSUME NEW r \in Requests, NEW c \in Commands, HardReset(r, c) PROVE Held'
  <2>1. admission' = IF c.hold THEN "closed" ELSE "open"
    BY <1>3, ResetAlone DEF HardReset
  <2>2. command'[r] = c /\ stage'[r] = "queued" /\ queue' = Append(queue, r) /\ IsReset(r)'
    BY <1>1, <1>3 DEF HardReset, TypeOK, IsReset
  <2>3. OpenReset(r)' /\ queue' # <<>> /\ Last(queue') = r
    BY <1>1, <2>2, QueueGrows DEF OpenReset, Finished
  <2>4. \A q \in Requests : OpenReset(q)' => q = r
    <3>1. Steps(r)
      BY <1>3 DEF Steps
    <3> QED BY <1>3, <3>1, Opens, ResetAlone
  <2>5. \A q \in Requests : admission' # q
    BY <2>1
  <2> QED BY <2>1, <2>2, <2>3, <2>4, <2>5 DEF Held
<1>4. ASSUME NEW r \in Requests, Steps(r), ~ \E c \in Commands : HardReset(r, c) PROVE Held'
  <2>1. \A q \in Requests : OpenReset(q)' => OpenReset(q) /\ command'[q] = command[q]
    BY <1>4, Opens
  <2>2. \A p, q \in Requests : OpenReset(p) /\ OpenReset(q) => p = q
    BY <1>1 DEF OneReset
  <2>3. Catch(r) \/ Resets(r) => OpenReset(r) /\ stage[r] \in {"rejecting", "hashing"}
    BY <1>1 DEF Catch, Resets, OpenReset, Finished, Queued
  <2>4. ASSUME admission' = "closed"
        PROVE  \E q \in Requests : /\ OpenReset(q)' /\ command'[q].hold
                                   /\ stage'[q] = "rejecting" \/ (queue' # <<>> /\ Last(queue') = q)
    <3>1. admission = "closed" /\ ~Catch(r)
      BY <1>4, <2>4, Admits DEF Catch
    <3>2. PICK q \in Requests : /\ OpenReset(q) /\ command[q].hold
                                /\ stage[q] = "rejecting" \/ (queue # <<>> /\ Last(queue) = q)
      BY <1>1, <3>1 DEF Held
    <3>3. ASSUME stage'[q] \notin Finished, command'[q] = command[q] PROVE OpenReset(q)' /\ command'[q].hold
      BY <3>2, <3>3 DEF OpenReset, IsReset
    <3>4. CASE q # r
      <4>1. stage'[q] = stage[q] /\ OpenReset(q)' /\ command'[q].hold
        BY <1>4, <3>2, <3>3, <3>4, Others DEF OpenReset
      <4>2. CASE stage[q] = "rejecting"
        BY <4>1, <4>2
      <4>3. CASE queue # <<>> /\ Last(queue) = q /\ UNCHANGED queue
        BY <4>1, <4>3
      <4>4. CASE Joins(r)
        <5>1. ASSUME NEW c \in Commands, Call(r, c) PROVE UNCHANGED queue
          BY <3>1, <5>1 DEF Call
        <5>2. ~Quiet(r) => FALSE
          BY <1>1, <1>4, <4>4, Quiets DEF Joins, TypeOK, Queued, Running, Active
        <5>3. UNCHANGED queue
          BY <1>4, <5>1, <5>2 DEF Quiet, Abort, Catch, Page, Inspect, Release, Abandon
        <5> QED BY <3>2, <4>2, <4>3, <5>3
      <4>5. CASE Works(r) \/ Rests(r)
        BY <3>2, <4>2, <4>3, <4>5 DEF Works, Rests
      <4>6. CASE Leaves(r) /\ queue # <<>> /\ Last(queue) = q
        <5>1. Head(queue) # Last(queue) /\ queue' = Tail(queue)
          BY <3>4, <4>6 DEF Leaves, Running
        <5> QED BY <1>1, <4>1, <4>6, <5>1, QueueEnds
      <4> QED BY <1>4, <3>2, <4>2, <4>4, <4>5, <4>6, Shapes
    <3>5. CASE q = r
      <4>1. IsReset(r) /\ stage[r] \notin {"idle", "resolved", "rejected"}
        BY <1>1, <3>2, <3>5, ConstantTypes DEF OpenReset, IsReset, Queued, Finished
      <4>2. CASE Works(r)
        <5>1. /\ UNCHANGED <<queue, command>> /\ stage'[r] \in Active /\ stage[r] # "rejecting"
          BY <1>1, <4>2 DEF Works, TypeOK, Active
        <5> QED BY <3>2, <3>3, <3>5, <5>1 DEF Active, Finished
      <4>3. CASE Rests(r)
        <5>1. UNCHANGED <<queue, command>>
          BY <4>3 DEF Rests
        <5>2. CASE UNCHANGED stage
          BY <3>2, <3>3, <5>1, <5>2 DEF OpenReset
        <5>3. CASE stage[r] = "rejecting" /\ ~UNCHANGED stage
          <6>1. ~Running(r)
            BY <1>1, <5>3, QueueShrinks DEF Queued, Running, Active
          <6>2. Quiet(r)
            BY <1>4, <6>1, Quiets
          <6> QED BY <1>1, <3>1, <5>3, <6>2
                  DEF Quiet, Call, HardReset, Abort, Page, Inspect, Release, Abandon
        <5> QED BY <4>3, <5>2, <5>3 DEF Rests
      <4>4. CASE Leaves(r)
        <5>1. stage'[r] = "rejecting" /\ UNCHANGED command
          <6>1. CASE ResetFails(r)
            BY <1>1, <6>1 DEF ResetFails, HashFailed, TypeOK
          <6>2. ASSUME NEW bad, NEW e, Settles(r, bad, e)
                PROVE  stage'[r] = "rejecting" /\ UNCHANGED command
            <7>1. stage[r] = "sink" /\ UNCHANGED command
              BY <1>1, <4>4, <6>2 DEF Leaves, Settles, Failure
            <7>2. Rejects(r)
              BY <1>1, <3>1, <3>2, <3>5, <7>1 DEF Held
            <7>3. PICK s \in Finished \cup {"rejecting"} :
                    (s = "rejecting" <=> Rejects(r) /\ IsReset(r)) /\ stage' = [stage EXCEPT ![r] = s]
              BY <6>2, <7>1 DEF Settles
            <7> QED BY <1>1, <4>1, <7>1, <7>2, <7>3 DEF TypeOK
          <6>3. ~Quiet(r)
            BY <1>1, <1>4, <3>1, <4>1, <4>4
               DEF Leaves, Quiet, Call, Abort, Catch, Page, Inspect, Release, Abandon, TypeOK, Finished
          <6>4. CASE HashStarts(r) \/ Commits(r) \/ Resets(r)
            BY <1>1, <4>1, <4>4, <6>4
               DEF Leaves, HashStarts, Commits, Resets, CommitReset, TypeOK, Finished
          <6>5. ASSUME NEW res, NEW o, NEW d, NEW lin, Ends(r, res, o, d, lin) PROVE FALSE
            BY <1>1, <4>4, <6>5 DEF Leaves, Ends, Terminal, TypeOK, Finished
          <6> QED BY <1>4, <6>1, <6>2, <6>3, <6>4, <6>5 DEF Steps, Quiet
        <5> QED BY <3>3, <3>5, <5>1 DEF Finished
      <4> QED BY <1>4, <4>1, <4>2, <4>3, <4>4, Shapes DEF Joins
    <3> QED BY <3>4, <3>5
  <2>5. ASSUME NEW q \in Requests, admission' = q
        PROVE  /\ IsReset(q)' /\ command'[q].hold
               /\ \A p \in Requests \ {q} : ~OpenReset(p)'
               /\ \/ queue' = <<q>> /\ stage'[q] \in {"subscribers", "archiving", "sink"}
                  \/ queue' = <<>> /\ stage'[q] = "resolved"
    <3>1. CASE Resets(r) /\ command[r].hold /\ q = r
      <4>1. OpenReset(r) /\ stage[r] = "hashing" /\ admission = "closed"
        BY <1>1, <3>1 DEF Resets, OpenReset, Finished, Held
      <4>2. queue # <<>> /\ Head(queue) = r /\ Last(queue) = r
        BY <1>1, <2>2, <3>1, <4>1 DEF Held, Resets, Running
      <4>3. queue' = <<r>>
        BY <1>1, <3>1, <4>2, QueueEnds DEF Resets, CommitReset
      <4>4. stage'[r] = "subscribers" /\ UNCHANGED command
        BY <1>1, <3>1 DEF Resets, CommitReset, TypeOK
      <4>5. \A p \in Requests \ {q} : ~OpenReset(p)'
        BY <2>1, <2>2, <3>1, <4>1
      <4> QED BY <3>1, <4>1, <4>3, <4>4, <4>5 DEF IsReset, OpenReset
    <3>2. CASE admission = q
      <4>1. /\ IsReset(q) /\ command[q].hold /\ \A p \in Requests \ {q} : ~OpenReset(p)
            /\ \/ queue = <<q>> /\ stage[q] \in {"subscribers", "archiving", "sink"}
               \/ queue = <<>> /\ stage[q] = "resolved"
        BY <1>1, <3>2 DEF Held
      <4>2. ~Joins(r) \/ UNCHANGED queue
        <5>1. ASSUME NEW c \in Commands, Call(r, c) PROVE UNCHANGED queue
          BY <3>2, <5>1 DEF Call
        <5>2. Joins(r) => Quiet(r)
          BY <1>1, <1>4, Quiets DEF Joins, TypeOK, Queued, Running, Active
        <5> QED BY <1>4, <5>1, <5>2 DEF Quiet, Abort, Catch, Page, Inspect, Release, Abandon
      <4>4. CASE r # q
        <5>1. ~Running(r)
          BY <4>1, <4>4 DEF Running
        <5>2. UNCHANGED queue
          BY <1>4, <4>2, <5>1, Shapes DEF Works, Leaves, Rests
        <5>3. stage'[q] = stage[q] /\ command'[q] = command[q]
          BY <1>4, <4>4, Others
        <5> QED BY <2>1, <4>1, <5>2, <5>3 DEF IsReset
      <4>5. CASE r = q
        <5>1. UNCHANGED command /\ ~Joins(r) /\ stage[r] \in {"subscribers", "archiving", "sink", "resolved"}
          <6>1. ~Joins(r)
            BY <4>1, <4>5 DEF Joins
          <6> QED BY <1>4, <4>1, <4>5, <6>1, Shapes DEF Works, Leaves, Rests
        <5>2. CASE Rests(r)
          BY <2>1, <4>1, <4>5, <5>1, <5>2 DEF Rests, IsReset
        <5>3. CASE ~Rests(r)
          <6>1. Running(r) /\ queue = <<q>> /\ stage[q] \in {"subscribers", "archiving", "sink"}
            BY <1>4, <4>1, <4>5, <5>1, <5>3, Shapes DEF Works, Leaves, Running
          <6>2. ~Quiet(r)
            BY <1>4, <4>5, <5>1, <5>3, <6>1
               DEF Quiet, Call, Abort, Catch, Page, Inspect, Release, Abandon, Rests
          <6>3. PICK bad \in BOOLEAN, e \in Events : Settles(r, bad, e)
            BY <1>4, <4>5, <6>1, <6>2
               DEF Steps, Quiet, HashStarts, Commits, Resets, ResetFails, HashFailed, Ends
          <6>4. ~Rejects(q)
            <7>1. OpenReset(q)
              BY <4>1, <6>1 DEF OpenReset, Finished
            <7> QED BY <1>1, <3>2, <4>1, <6>1, <7>1 DEF Held
          <6>5. \/ UNCHANGED queue /\ stage'[q] \in {"archiving", "sink"}
                \/ queue' = Tail(queue) /\ stage'[q] = "resolved"
            BY <1>1, <4>5, <6>3, <6>4 DEF Settles, TypeOK, Finished
          <6>6. Tail(<<q>>) = <<>>
            BY <1>1, <6>1, QueueEnds DEF Running
          <6> QED BY <2>1, <4>1, <4>5, <5>1, <6>1, <6>5, <6>6 DEF IsReset
        <5> QED BY <5>2, <5>3
      <4> QED BY <4>4, <4>5
    <3> QED BY <1>4, <2>5, <3>1, <3>2, Admits
  <2>6. ASSUME NEW q \in Requests, OpenReset(q)', command'[q].hold, stage'[q] \in {"queued", "hashing"}
        PROVE  admission' = "closed"
    <3>1. OpenReset(q) /\ command[q].hold
      BY <2>1, <2>6
    <3>2. stage[q] \in {"queued", "hashing"}
      <4>1. CASE r # q
        BY <1>4, <2>6, <4>1, Others
      <4>2. CASE r = q
        <5>1. ~Joins(r)
          BY <1>1, <3>1, <4>2 DEF Joins, OpenReset, IsReset, Queued
        <5>2. stage'[r] # stage[r] => stage[r] = "queued"
          <6>1. CASE Works(r)
            <7>1. ASSUME Quiet(r) PROVE stage'[r] = stage[r]
              BY <1>1, <1>4, <5>1, <6>1, <7>1
                 DEF Works, Active, Quiet, Call, Abort, Catch, Page, Inspect, Release, Abandon
            <7>2. ASSUME Commits(r) \/ Resets(r) \/ ResetFails(r) PROVE stage'[r] # "hashing"
              <8>1. CASE Commits(r)
                BY <8>1, CommitHolds
              <8>2. CASE Resets(r) \/ ResetFails(r)
                BY <1>1, <8>2 DEF Resets, CommitReset, ResetFails, HashFailed, TypeOK
              <8> QED BY <7>2, <8>1, <8>2
            <7>3. ASSUME NEW res, NEW o, NEW d, NEW lin, Ends(r, res, o, d, lin) PROVE stage'[r] # "hashing"
              BY <1>1, <7>3 DEF Ends, Terminal, TypeOK
            <7>4. ASSUME NEW bad, NEW e, Settles(r, bad, e) PROVE stage'[r] # "hashing"
              BY <1>1, <7>4 DEF Settles, TypeOK, Finished
            <7>5. HashStarts(r) => stage[r] = "queued"
              BY DEF HashStarts
            <7>6. stage'[r] # "queued"
              BY <1>1, <6>1 DEF Works, TypeOK, Active
            <7> QED BY <1>4, <2>6, <4>2, <7>1, <7>2, <7>3, <7>4, <7>5, <7>6 DEF Steps, Quiet
          <6>2. CASE Leaves(r) \/ Rests(r)
            BY <1>1, <2>6, <4>2, <6>2 DEF Leaves, Rests, TypeOK, Finished
          <6> QED BY <1>4, <5>1, <6>1, <6>2, Shapes
        <5> QED BY <2>6, <4>2, <5>2
      <4> QED BY <4>1, <4>2
    <3>3. admission = "closed"
      BY <1>1, <3>1, <3>2 DEF Held
    <3>4. ~Catch(r)
      BY <2>2, <2>3, <3>1, <3>2 DEF Catch
    <3>5. ~(Resets(r) /\ command[r].hold /\ admission' = r)
      <4>1. Resets(r) => r = q
        BY <2>2, <2>3, <3>1
      <4>2. Resets(r) => stage'[r] = "subscribers"
        BY <1>1 DEF Resets, CommitReset, TypeOK
      <4> QED BY <2>6, <4>1, <4>2
    <3> QED BY <1>4, <3>3, <3>4, <3>5, Admits
  <2>7. ASSUME NEW q \in Requests, OpenReset(q)', command'[q].hold,
               stage'[q] \in {"subscribers", "archiving", "sink"}
        PROVE  admission' = IF Rejects(q)' THEN "closed" ELSE q
    <3>1. OpenReset(q) /\ command[q].hold
      BY <2>1, <2>7
    <3>2. CASE r # q
      <4>1. stage[q] = stage'[q] /\ answer'[q] = answer[q]
        BY <1>4, <3>2, Others
      <4>2. ~Running(r)
        BY <1>1, <2>7, <3>2, <4>1 DEF Queued, Running, Active
      <4>3. admission = IF Rejects(q) THEN "closed" ELSE q
        BY <1>1, <2>7, <3>1, <4>1 DEF Held
      <4>4. UNCHANGED admission
        BY <1>4, <2>2, <2>3, <2>7, <3>1, <3>2, <4>2, <4>3, Admits DEF Resets, Catch
      <4> QED BY <4>1, <4>3, <4>4 DEF Rejects
    <3>3. CASE r = q
      <4>1. IsReset(q)
        BY <3>1 DEF OpenReset
      <4>2. CASE Quiet(r)
        <5>1. answer' = answer
          BY <1>4, <4>2, Quiets
        <5>2. stage'[q] = stage[q] /\ stage[q] # "resolved" /\ ~Catch(r)
          BY <1>1, <1>4, <2>7, <3>3, <4>2
             DEF Quiet, Call, Abort, Catch, Page, Inspect, Release, Abandon, TypeOK
        <5>3. ~Resets(r)
          BY <2>7, <3>3, <5>2 DEF Resets
        <5>4. UNCHANGED admission
          BY <1>4, <3>3, <5>2, <5>3, Admits
        <5> QED BY <1>1, <2>7, <3>1, <5>1, <5>2, <5>4 DEF Held, Rejects
      <4>3. CASE HashStarts(r) \/ Commits(r) \/ ResetFails(r)
        <5>1. stage \in [Requests -> Stages] /\ stage'[r] \in {"subscribers", "archiving", "sink"}
          BY <1>1, <2>7, <3>3 DEF TypeOK
        <5>2. ~HashStarts(r) BY <5>1 DEF HashStarts
        <5>3. ~Commits(r) BY <3>3, <4>1 DEF Commits
        <5>4. ~ResetFails(r) BY <5>1 DEF ResetFails, HashFailed
        <5> QED BY <4>3, <5>2, <5>3, <5>4
      <4>4. CASE Resets(r)
        <5>1. answer'[r] = [code |-> "fixture_reset", rev |-> 0] /\ admission' = r
          BY <1>1, <3>1, <3>3, <4>4 DEF Resets, CommitReset, TypeOK
        <5> QED BY <3>3, <5>1 DEF Rejects
      <4>5. ASSUME NEW res \in Answers \cup Rejections, NEW o \in Outcomes \ {"partial"},
                   NEW d \in {"none", "replayed"}, NEW lin \in BOOLEAN, Ends(r, res, o, d, lin)
            PROVE  admission' = "closed" /\ Rejects(r)'
        <5>1. answer'[r] = res /\ UNCHANGED admission
          BY <4>5, EndHolds
        <5>2. res \in Rejections /\ stage[r] \in {"queued", "hashing"}
          BY <3>3, <4>1, <4>5 DEF Ends
        <5> QED BY <1>1, <3>1, <3>3, <5>1, <5>2, Reals DEF Held, Rejects
      <4>6. ASSUME NEW bad \in BOOLEAN, NEW e \in Events, Settles(r, bad, e)
            PROVE  admission' = IF Rejects(q)' THEN "closed" ELSE q
        <5>1. UNCHANGED <<admission, answer>> /\ stage[r] \in {"subscribers", "archiving", "sink"}
          BY <4>6 DEF Settles, Failure
        <5> QED BY <1>1, <3>1, <3>3, <5>1 DEF Held, Rejects
      <4> QED BY <1>4, <3>3, <4>2, <4>3, <4>4, <4>5, <4>6 DEF Steps, Quiet
    <3> QED BY <3>2, <3>3
  <2> QED BY <2>4, <2>5, <2>6, <2>7 DEF Held
<1>5. ASSUME NEW r \in Requests, Steps(r) PROVE Held'
  BY <1>3, <1>4, <1>5
<1> QED BY <1>2, <1>5, NextCases

\* From its inspection to its release nothing runs, so what a receipt certifies stays.
LEMMA CertifiedStep == IInv /\ [Next]_vars => Certified'
<1> SUFFICES ASSUME IInv, [Next]_vars PROVE Certified'
  OBVIOUS
<1> USE DEF cart, ledger, trace, calls
<1>1. TypeOK /\ Queued /\ Held /\ Certified
  BY DEF IInv
<1>2. CASE UNCHANGED vars
  BY <1>1, <1>2 DEF vars, Certified, Verified
<1>3. ASSUME NEW r \in Requests, Steps(r) PROVE Certified'
  <2>1. ASSUME NEW q \in Requests, stage[q] = "resolved" PROVE stage'[q] = "resolved"
    <3>1. CASE r # q
      BY <1>3, <2>1, <3>1, Others
    <3>2. CASE r = q
      BY <1>3, <2>1, <3>2, Shapes DEF Joins, Works, Leaves, Rests, Active
    <3> QED BY <3>1, <3>2
  <2>2. ASSUME NEW q \in Requests, receipt'[q] # "none" PROVE stage'[q] = "resolved"
    <3>1. CASE receipt[q] # "none"
      BY <1>1, <2>1, <3>1 DEF Certified
    <3>2. CASE receipt[q] = "none"
      <4>1. r = q /\ Quiet(r)
        BY <1>3, <2>2, <3>2, Others, Quiets
      <4>2. stage[q] = "resolved"
        BY <2>2, <3>2, <4>1 DEF Quiet, Call, HardReset, Abort, Catch, Page, Inspect, Release, Abandon
      <4> QED BY <2>1, <4>2
    <3> QED BY <3>1, <3>2
  <2>3. ASSUME NEW q \in Requests, admission' = q, receipt'[q] = "verified" PROVE Verified(q)'
    <3>1. stage[q] = "resolved"
      <4>1. CASE receipt[q] # "none"
        BY <1>1, <4>1 DEF Certified
      <4>2. CASE receipt[q] = "none"
        <5>1. r = q /\ Quiet(r)
          BY <1>3, <2>3, <4>2, Others, Quiets
        <5> QED BY <2>3, <4>2, <5>1 DEF Quiet, Call, HardReset, Abort, Catch, Page, Inspect, Release, Abandon
      <4> QED BY <4>1, <4>2
    <3>2. admission = q
      <4>1. ~(Resets(r) /\ admission' = r)
        BY <2>3, <3>1 DEF Resets
      <4> QED BY <1>3, <2>3, <4>1, ConstantTypes, Admits
    <3>3. queue = <<>>
      BY <1>1, <3>1, <3>2 DEF Held
    <3>4. Quiet(r) /\ UNCHANGED <<cart, ledger, trace, halted>>
      BY <1>3, <3>3, Quiets DEF Running
    <3>5. Verified(q)' <=> Verified(q)
      BY <3>4 DEF Verified
    <3>6. CASE receipt[q] = "verified"
      BY <1>1, <3>2, <3>5, <3>6 DEF Certified
    <3>7. CASE receipt[q] # "verified"
      <4>1. r = q
        BY <1>3, <2>3, <3>7, Others
      <4>2. PICK v \in BOOLEAN : Inspect(q, v)
        BY <2>3, <3>4, <3>7, <4>1 DEF Quiet, Call, HardReset, Abort, Catch, Page, Release, Abandon
      <4>3. Verified(q)
        BY <1>1, <2>3, <4>2 DEF Inspect, TypeOK
      <4> QED BY <3>5, <4>3
    <3> QED BY <3>6, <3>7
  <2> QED BY <2>2, <2>3 DEF Certified
<1> QED BY <1>2, <1>3, NextCases

-----------------------------------------------------------------------------
(* What the store and the page may rely on. *)

\* The inductive invariant holds in every state of every behaviour.
THEOREM Invariance == Spec => []IInv
<1>1. IInv /\ [Next]_vars => IInv'
  BY TypeStep, QueuedStep, HashCurrentStep, PendingStep, LatchedStep, EntombedStep, TracedStep, HaltsStep,
     OneResetStep, HeldStep, CertifiedStep
     DEF IInv
<1> QED BY InitInvariant, <1>1, PTL DEF Spec

\* No call answers, traces or stores anything but values of its type (the store's
\* and the reducers' signatures).
THEOREM TypeCorrect == Spec => []TypeOK
<1>1. IInv => TypeOK
  BY DEF IInv
<1> QED BY Invariance, <1>1, PTL

\* Two calls of one operation that got past the guards were answered alike and asked
\* alike, whatever ran between them and however often the fixture was reset (withReplay,
\* performReset).
THEOREM OneAnswer == Spec => []RepliesAgree
<1>1. IInv => RepliesAgree
  <2> SUFFICES ASSUME IInv, NEW r \in Requests, NEW q \in Requests,
                      stage[r] = "resolved", ~IsReset(r), command[r].tool \in Mutations,
                      answer[r].code \notin Excluded,
                      stage[q] = "resolved", ~IsReset(q), command[q].tool \in Mutations,
                      answer[q].code \notin Excluded,
                      command[r].op = command[q].op
               PROVE  answer[r] = answer[q] /\ Canonical(command[r]) = Canonical(command[q])
    BY DEF RepliesAgree, Excluded
  <2>1. Past(r) /\ Past(q)
    BY DEF IInv, Latched, Past
  <2>2. Told(r) /\ Told(q)
    BY <2>1 DEF IInv, Entombed
  <2> QED BY <2>2 DEF Told
<1> QED BY Invariance, <1>1, PTL

\* A checkout that waits for its human was asked of the cart it waits on, though its
\* digest was awaited in between (checkoutRequest, cartUpdate).
THEOREM WaitsOnItsCart == Spec => []PendingMatchesCart
<1>1. IInv => PendingMatchesCart
  BY DEF IInv, PendingTrue
<1> QED BY Invariance, <1>1, PTL

\* Whoever is told AbortError changed nothing, and what resolved was not canceled
\* before it took effect (CancellationLatch).
THEOREM HonestAborts == Spec => []AbortIsHonest
<1>1. IInv => AbortIsHonest
  BY DEF IInv, Latched, AbortIsHonest
<1> QED BY Invariance, <1>1, PTL

\* A failed subscriber or sink stays visible: on the stored summary of its call and as
\* the halt of its session (replaceTraceSummary, halt).
THEOREM FailuresStay == Spec => []FailureIsKept
<1>1. IInv => FailureIsKept
  <2> SUFFICES ASSUME IInv PROVE FailureIsKept
    OBVIOUS
  <2>1. DOMAIN entries = 1 .. Len(entries)
    BY LenProperties DEF IInv, TypeOK
  <2> QED BY <2>1 DEF IInv, Traced, Halts, FailureIsKept, Finished
<1> QED BY Invariance, <1>1, PTL

\* A verified receipt is given up in the state it certifies (verifyCheckoutReset,
\* releaseResetAdmission, abandonResetAdmission).
THEOREM ReceiptsHold == Spec => ReleasedFromFixture
<1>1. IInv => [\A r \in Requests : admission = r /\ admission' # r /\ receipt[r] = "verified" =>
                 Verified(r)]_vars
  BY DEF IInv, Certified
<1> QED BY Invariance, <1>1, PTL DEF ReleasedFromFixture

\* A commit uses its operation up and moves the promised cart.
LEMMA CommitKeepsPromise ==
  ASSUME IInv, NEW r \in Requests, Commits(r)
  PROVE  Promise!Refuse(command[r].op) \/ Promise!Change(command[r].op)
<1>1. PICK t \in Transitions, rev \in Nat, o \in {"completed", "expected_error"},
           d \in {"committed", "none"} : CommitsAs(r, t, rev, o, d)
  BY Committed
<1> DEFINE op == command[r].op
<1>2. /\ ~t.effect => t.lines = lines /\ t.pending = pending
      /\ t.effect => \/ t.pending = NoPending
                     \/ /\ pending = NoPending /\ t.lines = lines
                        /\ t.pending = [op |-> op, rev |-> revision, lines |-> lines]
  BY <1>1, Reduced DEF CommitsAs
<1>3. /\ pending' = t.pending /\ op \in Ops
      /\ revision' = IF t.effect THEN revision + 1 ELSE revision
  BY <1>1 DEF CommitsAs
<1>4. op \notin Consumed /\ TypeOK /\ PendingTrue
  BY DEF Commits, IInv
<1>5. Consumed' = Consumed \cup {op}
  <2> DEFINE a == [command |-> Canonical(command[r]), result |-> [code |-> t.code, rev |-> rev]]
  <2>1. tombstones' = [tombstones EXCEPT ![op] = a]
    BY <1>1 DEF CommitsAs
  <2>2. a.result.code # "none"
    BY DEF Transitions
  <2>3. a # NoTombstone
    BY <2>2, ValueTypes
  <2> HIDE DEF a, op
  <2> QED BY <1>3, <1>4, <2>1, <2>3 DEF Consumed, TypeOK
<1>6. NoPending.op = NoOp /\ t.effect \in BOOLEAN
  BY DEF NoPending, Transitions
<1>7. CASE t.effect
  <2>1. revision' = revision + 1
    BY <1>3, <1>7
  <2>2. \/ pending.op = NoOp /\ pending'.op \in {NoOp, op}
        \/ pending.op # NoOp /\ pending'.op = NoOp
    BY <1>2, <1>3, <1>4, <1>6, <1>7
  <2> QED BY <1>4, <1>5, <2>1, <2>2 DEF Promise!Change
<1>8. CASE ~t.effect
  BY <1>2, <1>3, <1>4, <1>5, <1>8 DEF Promise!Refuse
<1> QED BY <1>6, <1>7, <1>8

\* The store implements a cart whose operations are used at most once (performMutation,
\* performReset).
THEOREM IsOnceOnlyCheckout == Spec => ImplementsOnceOnly
<1>1. Init => Promise!Init
  BY DEF Init, Promise!Init, Consumed, NoPending
<1>2. IInv /\ [Next]_vars => [Promise!Next]_<<Consumed, revision, pending.op>>
  <2> SUFFICES ASSUME IInv, [Next]_vars PROVE [Promise!Next]_<<Consumed, revision, pending.op>>
    OBVIOUS
  <2>1. CASE UNCHANGED <<cart, ledger>>
    BY <2>1 DEF cart, ledger, Consumed
  <2>2. ASSUME NEW r \in Requests, Commits(r) PROVE Promise!Next
    <3>1. command[r].op \in Ops
      BY <2>2, CommitHolds
    <3> QED BY <2>2, <3>1, CommitKeepsPromise DEF Promise!Next
  <2>3. ASSUME NEW r \in Requests, Resets(r) PROVE Promise!Reset
    BY <2>3 DEF Resets, CommitReset, Retained, Consumed, NoPending, Promise!Reset
  <2> QED BY <2>1, <2>2, <2>3, NextCases, CartMoves DEF vars, Promise!Next
<1> QED BY Invariance, <1>1, <1>2, PTL DEF Spec, ImplementsOnceOnly, Promise!Spec

=============================================================================
