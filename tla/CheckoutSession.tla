--------------------------- MODULE CheckoutSession ---------------------------
(***************************************************************************)
(* The checkout store of one document (lib/domain/checkout-session.ts) with *)
(* the reducers of lib/domain/checkout.ts, the reset verifier of            *)
(* lib/domain/checkout-reset.ts, and the page that calls it.                *)
(*                                                                          *)
(* Calls queue on one promise tail; the head runs, and what it awaits (a    *)
(* digest, the subscribers, the archive sink, the trace sink) separates its *)
(* steps.  Each call has its own abort signal, which may fire at any time.  *)
(***************************************************************************)
EXTENDS Integers, Sequences, FiniteSets, SequencesExt

CONSTANTS
  Requests,       \* the calls made on the store
  Commands,       \* what a call may ask for: [tool, op, item, qty, hold, fault]
  Ops,            \* operation identifiers
  Items,          \* item identifiers, Fixture's and others
  Fixture,        \* the fixture's quantities; 0 where the cart has no line
  MaxTombstones,  \* maxTombstones, the document-lifetime ledger's capacity
  NoOp, NoCommand, Nobody

Mutations == {"cart_update", "checkout_request", "checkout_cancel"}
Tools == Mutations \cup {"read", "invalid", "fixture_reset"}

\* A mutation that parses has an operation identifier.
ASSUME SessionAssumption ==
  /\ MaxTombstones \in Nat \ {0}
  /\ Fixture \in [Items -> Nat]
  /\ Commands \subseteq [tool : Tools, op : Ops \cup {NoOp}, item : Items, qty : Nat,
                         hold : BOOLEAN, fault : BOOLEAN]
  /\ \A c \in Commands : c.tool \in Mutations => c.op \in Ops
  /\ NoOp \notin Ops /\ Nobody \notin Requests /\ NoCommand \notin Commands
  /\ {"open", "closed"} \cap Requests = {}

VARIABLES
  lines, revision,  \* CheckoutState: quantities by item, and the revision
  pending,          \* pendingCheckout: the request and the snapshot it hashed
  tombstones,       \* by operation: the command that consumed it and its result
  currentOps,       \* currentOperationIds
  entries,          \* calls traced in the current trajectory, in order
  archives,         \* entries of the trajectories archived by resets
  lastReset,        \* the call whose trace is lastResetTrace
  halted,           \* haltedReason is set
  sequence,         \* trace sequence number
  summary,          \* the trace summary stored for each call
  admission         \* resetAdmission: "open", "closed" ({}), or the reset's call

VARIABLES
  queue,      \* unfinished calls in the order they were made; the head runs
  stage,      \* where each call is
  command,    \* what it asks for
  latch,      \* its CancellationLatch: none, before_commit, after_completion
  linearized, \* the latch was told the call took effect
  event,      \* the trace event it is building
  hash,       \* the state whose digest it awaited
  answer,     \* what it will resolve to
  receipt     \* what the page's verifier made of a reset

VARIABLES
  failed      \* history: a subscriber or a sink failed on this call

cart == <<lines, revision, pending>>
ledger == <<tombstones, currentOps>>
trace == <<entries, archives, lastReset, sequence, summary, event>>
calls == <<queue, stage, command, answer>>
vars == <<cart, ledger, trace, halted, admission, calls, latch, linearized, hash,
          receipt, failed>>

NoPending == [op |-> NoOp, rev |-> 0, lines |-> Fixture]
NoTombstone == [command |-> NoCommand, result |-> [code |-> "none", rev |-> 0]]
NoEvent == [seq |-> 0, outcome |-> "none", disposition |-> "none", cancellation |-> "none"]
Canonical(c) == [c EXCEPT !.fault = FALSE]
Consumed == {o \in Ops : tombstones[o] # NoTombstone}
IsReset(r) == command[r] # NoCommand /\ command[r].tool = "fixture_reset"

Init ==
  /\ lines = Fixture /\ revision = 0 /\ pending = NoPending
  /\ tombstones = [o \in Ops |-> NoTombstone] /\ currentOps = {}
  /\ entries = <<>> /\ archives = <<>> /\ lastReset = Nobody
  /\ halted = FALSE /\ sequence = 0
  /\ summary = [r \in Requests |-> NoEvent]
  /\ admission = "open" /\ queue = <<>>
  /\ stage = [r \in Requests |-> "idle"]
  /\ command = [r \in Requests |-> NoCommand]
  /\ latch = [r \in Requests |-> "none"]
  /\ linearized = [r \in Requests |-> FALSE]
  /\ event = [r \in Requests |-> NoEvent]
  /\ hash = [r \in Requests |-> NoPending]
  /\ answer = [r \in Requests |-> [code |-> "none", rev |-> 0]]
  /\ receipt = [r \in Requests |-> "none"]
  /\ failed = [r \in Requests |-> FALSE]

-----------------------------------------------------------------------------
(* The reducers. *)

Refusal(code) == [code |-> code, effect |-> FALSE, lines |-> lines, pending |-> pending]
Effect(code, l, p) == [code |-> code, effect |-> TRUE, lines |-> l, pending |-> p]

\* Faulty variant: the cart may change while a checkout is pending.
CartUpdateWhilePending(c) ==
  CASE lines[c.item] = 0 -> Refusal("invalid_item")
    [] lines[c.item] > 0 /\ lines[c.item] = c.qty -> Refusal("no_change")
    [] OTHER -> Effect("updated", [lines EXCEPT ![c.item] = c.qty], pending)

CartUpdate(c) ==
  LET qty == IF c.fault /\ lines[c.item] > 0 THEN lines[c.item] ELSE c.qty
  IN CASE pending # NoPending -> Refusal("checkout_pending")
       [] pending = NoPending /\ lines[c.item] = 0 -> Refusal("invalid_item")
       [] pending = NoPending /\ lines[c.item] > 0 /\ lines[c.item] = qty ->
            Refusal("no_change")
       [] OTHER -> Effect("updated", [lines EXCEPT ![c.item] = qty], NoPending)

CheckoutRequest(c, h) ==
  IF pending # NoPending THEN Refusal("already_pending")
  ELSE Effect("pending_human_approval", lines, [h EXCEPT !.op = c.op])

CheckoutCancel ==
  IF pending = NoPending THEN Refusal("no_pending_checkout")
  ELSE Effect("checkout_canceled", lines, NoPending)

Reduce(r) ==
  CASE command[r].tool = "cart_update" -> CartUpdate(command[r])
    [] command[r].tool = "checkout_request" -> CheckoutRequest(command[r], hash[r])
    [] OTHER -> CheckoutCancel

-----------------------------------------------------------------------------
(* Making a call, and aborting one. *)

\* Faulty variant: the page starts a reset while another is being verified.
ResetUnguarded == TRUE

\* The page makes one reset at a time and waits for its verification.
ResetFree == admission = "open"
             /\ \A r \in Requests : IsReset(r) => stage[r] \in {"resolved", "rejected"}

\* A tool call, refused at once while a reset holds admission.
Call(r, c) ==
  /\ stage[r] = "idle" /\ c.tool # "fixture_reset"
  /\ command' = [command EXCEPT ![r] = c]
  /\ \/ /\ admission # "open"
        /\ stage' = [stage EXCEPT ![r] = "refused"]
        /\ UNCHANGED queue
     \/ /\ admission = "open"
        /\ stage' = [stage EXCEPT ![r] = "queued"]
        /\ queue' = Append(queue, r)
  /\ UNCHANGED <<cart, ledger, trace, halted, admission, answer, latch, linearized, hash,
                 receipt, failed>>

\* hardReset: a held reset closes admission when it is called.
HardReset(r, c) ==
  /\ stage[r] = "idle" /\ c.tool = "fixture_reset" /\ ResetFree
  /\ command' = [command EXCEPT ![r] = c]
  /\ admission' = IF c.hold THEN "closed" ELSE admission
  /\ stage' = [stage EXCEPT ![r] = "queued"]
  /\ queue' = Append(queue, r)
  /\ UNCHANGED <<cart, ledger, trace, halted, answer, latch, linearized, hash, receipt,
                 failed>>

\* The caller's signal fires; the latch listens until the call settles.
Abort(r) ==
  /\ stage[r] \notin {"idle", "refused", "rejecting", "resolved", "rejected"}
  /\ latch[r] = "none"
  /\ latch' = [latch EXCEPT ![r] = IF linearized[r] THEN "after_completion"
                                                    ELSE "before_commit"]
  /\ UNCHANGED <<cart, ledger, trace, halted, admission, calls, linearized, hash, receipt,
                 failed>>

-----------------------------------------------------------------------------
(* Tracing. *)

\* nextTraceBase and appendTraceOnly: one more summary in the trajectory.
Record(r, outcome, disposition) ==
  LET e == [seq |-> sequence + 1, outcome |-> outcome, disposition |-> disposition,
            cancellation |-> latch[r]]
  IN /\ sequence' = sequence + 1
     /\ event' = [event EXCEPT ![r] = e]
     /\ summary' = [summary EXCEPT ![r] = e]
     /\ entries' = Append(entries, r)
     /\ UNCHANGED <<archives, lastReset>>

\* replaceTraceSummary: only the newest entry or the last reset is replaced.
Replace(r, e) ==
  IF lastReset = r \/ (entries # <<>> /\ Last(entries) = r)
  THEN summary' = [summary EXCEPT ![r] = e]
  ELSE UNCHANGED summary

\* Ends in one trace, no effect: errors, replays, reads and cancellations.
Terminal(r, result, outcome, disposition, linearizes) ==
  /\ linearized' = [linearized EXCEPT ![r] = linearizes]
  /\ answer' = [answer EXCEPT ![r] = result]
  /\ Record(r, outcome, disposition)
  /\ stage' = [stage EXCEPT ![r] = "sink"]
  /\ UNCHANGED <<cart, ledger, halted, admission, queue, command, latch, hash, receipt,
                 failed>>

Reject(code) == [code |-> code, rev |-> -1]
Result(code) == [code |-> code, rev |-> revision]

TraceCancellation(r) == Terminal(r, Reject("AbortError"), "canceled", "none", FALSE)
TraceUnexpectedError(r) == Terminal(r, Reject("Error"), "unexpected_error", "none", TRUE)

-----------------------------------------------------------------------------
(* The head of the queue runs up to its first await. *)

\* Faulty variant: calls do not wait for the calls before them.
RunningAny(r) == \E i \in 1 .. Len(queue) : queue[i] = r

Running(r) == queue # <<>> /\ Head(queue) = r

SessionHalted == halted

\* commitMutation up to notifySubscribers: state, ledger and trace together.
CommitMutation(r) ==
  LET t == Reduce(r)
      o == command[r].op
      rev == IF t.effect THEN revision + 1 ELSE revision
      ok == t.effect \/ t.code = "no_change"
  IN /\ lines' = t.lines /\ pending' = t.pending /\ revision' = rev
     /\ tombstones' = [tombstones EXCEPT ![o] =
          [command |-> Canonical(command[r]), result |-> [code |-> t.code, rev |-> rev]]]
     /\ currentOps' = currentOps \cup {o}
     /\ answer' = [answer EXCEPT ![r] = [code |-> t.code, rev |-> rev]]
     /\ linearized' = [linearized EXCEPT ![r] = TRUE]
     /\ Record(r, IF ok THEN "completed" ELSE "expected_error",
               IF t.effect THEN "committed" ELSE "none")
     /\ stage' = [stage EXCEPT ![r] = IF t.effect THEN "subscribers" ELSE "sink"]
     /\ UNCHANGED <<halted, admission, queue, command, latch, hash, receipt, failed>>

Read(r) == Terminal(r, Result("read"), "completed", "none", TRUE)

\* A mutation past its guards: a checkout request awaits the digest first.
Mutate(r) ==
  IF command[r].tool = "checkout_request"
  THEN /\ stage' = [stage EXCEPT ![r] = "hashing"]
       /\ hash' = [hash EXCEPT ![r] = [op |-> NoOp, rev |-> revision, lines |-> lines]]
       /\ UNCHANGED <<cart, ledger, trace, halted, admission, queue, command, answer, latch,
                      linearized, receipt, failed>>
  ELSE CommitMutation(r)

\* Faulty variant: a consumed identifier is replayed whatever it is reused for.
ReplayByIdentifier(r) ==
  LET t == tombstones[command[r].op]
  IN Terminal(r, t.result, "duplicate", "replayed", TRUE)

\* A consumed identifier: the same command replays, another one conflicts.
Replay(r) ==
  LET t == tombstones[command[r].op]
  IN IF t.command = Canonical(command[r])
     THEN Terminal(r, t.result, "duplicate", "replayed", TRUE)
     ELSE Terminal(r, Result("operation_id_conflict"), "expected_error", "none", TRUE)

Start(r) ==
  /\ Running(r) /\ stage[r] = "queued"
  /\ IF latch[r] # "none" THEN TraceCancellation(r)
     ELSE IF IsReset(r)
     THEN /\ stage' = [stage EXCEPT ![r] = "hashing"]
          /\ UNCHANGED <<cart, ledger, trace, halted, admission, queue, command, answer,
                         latch, linearized, hash, receipt, failed>>
     ELSE IF SessionHalted
     THEN Terminal(r, Result("session_halted"), "expected_error", "none", TRUE)
     ELSE IF command[r].tool = "invalid"
     THEN Terminal(r, Result("validation_error"), "validation_error", "none", TRUE)
     ELSE IF command[r].tool = "read" THEN Read(r)
     ELSE IF command[r].op \in Consumed THEN Replay(r)
     ELSE IF Cardinality(Consumed) >= MaxTombstones
     THEN Terminal(r, Result("operation_ledger_full"), "expected_error", "none", TRUE)
     ELSE Mutate(r)

\* Faulty variant: a reset also forgets the operations it has seen.
NoneRetained == [o \in Ops |-> NoTombstone]

\* What a reset keeps of the operation ledger: everything.
Retained == tombstones

\* performReset: fixture, new trajectory, the old one archived, in one step;
\* the tombstones stay.
CommitReset(r) ==
  LET e == [seq |-> sequence + 1, outcome |-> "completed", disposition |-> "committed",
            cancellation |-> latch[r]]
  IN /\ lines' = Fixture /\ revision' = 0 /\ pending' = NoPending
     /\ currentOps' = {} /\ tombstones' = Retained
     /\ archives' = Append(archives, entries) /\ entries' = <<>>
     /\ lastReset' = r /\ halted' = FALSE
     /\ sequence' = sequence + 1
     /\ event' = [event EXCEPT ![r] = e] /\ summary' = [summary EXCEPT ![r] = e]
     /\ admission' = IF command[r].hold THEN r ELSE admission
     /\ linearized' = [linearized EXCEPT ![r] = TRUE]
     /\ answer' = [answer EXCEPT ![r] = [code |-> "fixture_reset", rev |-> 0]]
     /\ stage' = [stage EXCEPT ![r] = "subscribers"]
     /\ UNCHANGED <<queue, command, latch, hash, receipt, failed>>

-----------------------------------------------------------------------------
(* What the head awaits settles. *)

\* Faulty variant: the tail stays rejected after a rejected call.
AdvanceResolved(r, ok) ==
  queue' = IF ok THEN Tail(queue) ELSE queue

\* enqueue: the tail goes on whether the call resolved or rejected.
Advance(r, ok) == queue' = Tail(queue)

\* Faulty variant: the signal is not looked at again after the digest.
CanceledUnseen(r) == FALSE

CanceledBeforeCommit(r) == latch[r] # "none"

Hashed(r) ==
  /\ Running(r) /\ stage[r] = "hashing"
  /\ IF CanceledBeforeCommit(r) THEN TraceCancellation(r)
     ELSE IF IsReset(r) THEN CommitReset(r)
     ELSE CommitMutation(r)

\* The digest fails: a mutation traces it, a reset just rejects.
HashFailed(r) ==
  /\ Running(r) /\ stage[r] = "hashing"
  /\ IF ~IsReset(r) THEN TraceUnexpectedError(r)
     ELSE /\ stage' = [stage EXCEPT ![r] = "rejecting"]
          /\ answer' = [answer EXCEPT ![r] = Reject("Error")]
          /\ Advance(r, FALSE)
          /\ UNCHANGED <<cart, ledger, trace, halted, admission, command, latch, linearized,
                         hash, receipt, failed>>

\* A failure after the commit halts the session and marks the trace partial.
Failure(r, bad, e) ==
  /\ halted' = (halted \/ bad)
  /\ failed' = [failed EXCEPT ![r] = @ \/ bad]
  /\ event' = [event EXCEPT ![r] = e]
  /\ Replace(r, e)
  /\ UNCHANGED <<cart, ledger, entries, archives, lastReset, sequence, command, answer,
                 latch, linearized, hash, receipt>>

\* Faulty variant: a trace the sink refused keeps its first summary.
PartialUnmarked(e, bad) == e

Partial(e, bad) ==
  IF ~bad THEN e
  ELSE [e EXCEPT !.outcome = "partial",
                 !.disposition = IF @ = "committed" THEN "partial" ELSE @]

\* notifySubscribers: all have settled, and one may have failed.
Notified(r, bad) ==
  /\ Running(r) /\ stage[r] = "subscribers"
  /\ Failure(r, bad, [Partial(event[r], bad) EXCEPT
        !.cancellation = IF latch[r] = "after_completion" THEN latch[r] ELSE @])
  /\ stage' = [stage EXCEPT ![r] = IF IsReset(r) THEN "archiving" ELSE "sink"]
  /\ UNCHANGED <<queue, admission>>

\* traceSink.archive
Archived(r, bad) ==
  /\ Running(r) /\ stage[r] = "archiving"
  /\ Failure(r, bad, Partial(event[r], bad))
  /\ stage' = [stage EXCEPT ![r] = "sink"]
  /\ UNCHANGED <<queue, admission>>

Rejects(r) == answer[r].rev = -1

\* deliverTrace, the last step of every call.
Delivered(r, bad) ==
  /\ Running(r) /\ stage[r] = "sink"
  /\ Failure(r, bad, [Partial(event[r], bad) EXCEPT !.cancellation = latch[r]])
  /\ stage' = [stage EXCEPT ![r] = IF ~Rejects(r) THEN "resolved"
                                    ELSE IF IsReset(r) THEN "rejecting" ELSE "rejected"]
  /\ Advance(r, ~Rejects(r))
  /\ UNCHANGED admission

\* Faulty variant: a rejected reset leaves its hold behind.
CatchHolding(r) ==
  /\ stage[r] = "rejecting"
  /\ stage' = [stage EXCEPT ![r] = "rejected"]
  /\ UNCHANGED <<cart, ledger, trace, halted, queue, command, answer, latch, linearized,
                 hash, receipt, failed, admission>>

\* hardReset's catch, one step after the queue moved on.
Catch(r) ==
  /\ stage[r] = "rejecting"
  /\ admission' = "open"
  /\ stage' = [stage EXCEPT ![r] = "rejected"]
  /\ UNCHANGED <<cart, ledger, trace, halted, queue, command, answer, latch, linearized,
                 hash, receipt, failed>>

-----------------------------------------------------------------------------
(* The page verifies a held reset and gives its hold up. *)

Verified(r) ==
  /\ ~halted /\ lastReset = r
  /\ [summary[r] EXCEPT !.seq = 0] = [seq |-> 0, outcome |-> "completed",
        disposition |-> "committed", cancellation |-> "none"]
  /\ entries = <<>> /\ archives # <<>> /\ currentOps = {}
  /\ lines = Fixture /\ revision = 0 /\ pending = NoPending

\* verifyCheckoutReset; the registry may have failed its own check.
Inspect(r, registryVerified) ==
  /\ stage[r] = "resolved" /\ admission = r /\ receipt[r] = "none"
  /\ receipt' = [receipt EXCEPT ![r] =
       IF Verified(r) /\ registryVerified THEN "verified" ELSE "invalid"]
  /\ UNCHANGED <<cart, ledger, trace, halted, admission, calls, latch, linearized, hash,
                 failed>>

\* releaseResetAdmission: verified or not, the page calls it once it knows.
Release(r) ==
  /\ receipt[r] # "none" /\ admission = r
  /\ admission' = "open"
  /\ UNCHANGED <<cart, ledger, trace, halted, calls, latch, linearized, hash, receipt,
                 failed>>

\* abandonResetAdmission, when the page fails between reset and receipt.
Abandon(r) ==
  /\ stage[r] = "resolved" /\ admission = r
  /\ admission' = "open"
  /\ UNCHANGED <<cart, ledger, trace, halted, calls, latch, linearized, hash, receipt,
                 failed>>

Step(r) == \/ Start(r) \/ Hashed(r)
           \/ \E bad \in BOOLEAN : Notified(r, bad) \/ Archived(r, bad) \/ Delivered(r, bad)
           \/ Catch(r)

Page(r) == (\E v \in BOOLEAN : Inspect(r, v)) \/ Release(r)

\* Requests have no identity of their own: a new call takes the next unused name.
NextName == CHOOSE r \in Requests : stage[r] = "idle"

Next == \E r \in Requests :
  \/ /\ stage[r] = "idle" /\ r = NextName
     /\ \E c \in Commands : Call(r, c) \/ HardReset(r, c)
  \/ Abort(r) \/ HashFailed(r) \/ Abandon(r)
  \/ Step(r) \/ Page(r)

Spec == Init /\ [][Next]_vars
-----------------------------------------------------------------------------
\* Two calls of the same command that both got past the guards were given the
\* same result, however much happened between them (withReplay).
RepliesAgree == \A r, q \in Requests :
  LET told(x) == /\ stage[x] = "resolved" /\ ~IsReset(x) /\ command[x].tool \in Mutations
                 /\ answer[x].code \notin {"session_halted", "operation_ledger_full",
                                         "operation_id_conflict"}
  IN told(r) /\ told(q) /\ command[r].op = command[q].op =>
       answer[r] = answer[q] /\ Canonical(command[r]) = Canonical(command[q])

\* A pending checkout was requested from the very cart it now waits on, although
\* its digest was awaited before it took effect (checkoutRequest, cartUpdate).
PendingMatchesCart ==
  pending # NoPending => pending.lines = lines /\ pending.rev = revision - 1

\* A caller who is told AbortError has changed nothing, and a call that resolves
\* was not canceled before it took effect (CancellationLatch).
AbortIsHonest == \A r \in Requests :
  /\ answer[r].code = "AbortError" =>
       latch[r] = "before_commit" /\ event[r].disposition = "none"
  /\ stage[r] = "resolved" => latch[r] # "before_commit"

\* A subscriber or sink failure is neither hidden nor forgotten: the stored
\* summary of a finished call says partial exactly when one failed on it and
\* carries the final word on its cancellation (replaceTraceSummary), and the
\* session stays halted until the next reset takes effect (halt, performReset).
FailureIsKept ==
  /\ \A r \in Requests :
       stage[r] \in {"resolved", "rejected"} /\ event[r] # NoEvent =>
         /\ failed[r] <=> summary[r].outcome = "partial"
         /\ summary[r].cancellation = latch[r]
  /\ \A i \in 1 .. Len(entries) : failed[entries[i]] => halted

\* A verified receipt is released from the state it certifies, though digests
\* are awaited between the inspection and the release (verifyCheckoutReset).
ReleasedFromFixture ==
  [][\A r \in Requests : admission = r /\ admission' # r /\ receipt[r] = "verified" =>
       Verified(r)]_vars

\* Nothing waits for good: while a call is queued or a reset holds admission, the
\* store or the page has a step to take, also after a rejected call or a failed
\* reset.  No step is ever repeated, so every call is answered and every hold on
\* admission ends (enqueue, hardReset).
NothingIsStuck ==
  queue # <<>> \/ admission # "open" => ENABLED (\E r \in Requests : Step(r) \/ Page(r))

Promise == INSTANCE OnceOnlyCheckout WITH
  Operations <- Ops, Nothing <- NoOp,
  consumed <- Consumed, waiting <- pending.op

\* The store implements a cart whose operations are used at most once.
ImplementsOnceOnly == Promise!Spec
=============================================================================
