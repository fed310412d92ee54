--------------------------- MODULE PolicyMigration ---------------------------
(***************************************************************************)
(* The operator's policy migrations (lib/probe/ledger.ts,                   *)
(* policy-v04-migration.server.ts, policy-v05-migration.server.ts), run     *)
(* against the guard of ProbeLedger while the servers go on serving.  A run *)
(* of the command reads the guard's status, scans its authorizations, reads *)
(* them one by one, and sends what it found to a script that compares all   *)
(* of it again before it replaces the policy and stores a receipt.  The     *)
(* command may stop anywhere, be repeated, and run in two builds at once.   *)
(*                                                                          *)
(* The anchor of the acknowledged run, which the last script also compares, *)
(* belongs to the run index: here a script it refuses takes no step.        *)
(***************************************************************************)
EXTENDS ProbeLedger

CONSTANTS Runs,       \* runs of the migration command
          Commits,    \* commits those builds are made from
          Lenient,    \* versions whose command passes over calls not known (v03)
          Sealed,     \* versions whose script takes the inventory again (v05)
          Tombstones, \* unused expired tokens each migration expects
          NoReceipt

ASSUME MigrationAssumption ==
  /\ 0 \notin Versions
  /\ Lenient \subseteq Versions /\ Sealed \subseteq Versions
  /\ Tombstones \in [Versions -> {0, 1}]

\* What a command keeps of a call, and what its receipt is made of.
CallRecords == [jti : Jtis, sequence : Nat, cost : Nat,
                response : Responses \cup {NoResponse}, digest : Digests \cup {NoDigest}]
Receipts == [commit : Commits, calls : SUBSET CallRecords, tombs : SUBSET Jtis]

ASSUME ReceiptAssumption == NoReceipt \notin Receipts

VARIABLES under,   \* policy_hash of each authorization, 0 before it is issued
          receipt, \* the permanent receipt of each migration
          run      \* what each run of the command has read

migrationVars == <<receipt, run>>
all == <<vars, under, migrationVars>>

NotRunning == [pc |-> "idle"]

MigrationInit ==
  /\ Init
  /\ under = [j \in Jtis |-> 0]
  /\ receipt = [v \in Versions |-> NoReceipt]
  /\ run = [b \in Runs |-> NotRunning]

-----------------------------------------------------------------------------
(* The servers. *)

ServeIssue(j) == Issue(j) /\ under' = [under EXCEPT ![j] = policy] /\ UNCHANGED migrationVars

\* Faulty variant: a token is good under any policy.
AnyToken(j) == under[j] # 0

\* verifyEnvelopeAgainstClaims: a server takes only tokens of its own policy.
OwnToken(j) == under[j] = policy

ServeCall(j) ==
  /\ OwnToken(j)
  /\ \/ Begin(j)
     \/ \E c \in Costs, r \in Responses, d \in Digests : SettleKnown(j, c, r, d)
     \/ \E d \in Digests : SettleUncertain(j, d)
  /\ UNCHANGED <<under, migrationVars>>

ServeOther ==
  /\ \/ Initialize
     \/ \E j \in Jtis, d \in Digests : Reap(j, d)
     \/ Tick
  /\ UNCHANGED <<under, migrationVars>>

-----------------------------------------------------------------------------
(* What a migration of version v compares. *)

Call(j) == [jti |-> j, sequence |-> sequence[j], cost |-> actual[j],
            response |-> response[j], digest |-> digest[j]]
Authorizations == {j \in Jtis : token[j] # "absent"}

\* historicalIdentity: the policy a call was authorized under, by its ordinal.
HistoricalPolicy(n) ==
  1 + Cardinality({v \in Versions : v + 1 \in Versions /\ MigrationCalls[v] < n})

\* core_state_matches and config_matches, for the policy before or after.
CoreMatches(v, p) ==
  /\ status = "open" /\ ~ConfigDrift /\ policy = p
  /\ claimed = MigrationCalls[v] /\ known = claimed /\ counts["calibration"] = claimed
  /\ pending = 0 /\ uncertain = 0 /\ InFlight = {}

PredecessorMatches(v) == v > 1 => receipt[v - 1] # NoReceipt

KnownCall(j) ==
  /\ token[j] = "KNOWN" /\ PurposeOf[j] = "calibration"
  /\ under[j] = HistoricalPolicy(sequence[j])
  /\ provider[response[j]] = j

\* An authorization that was never used and has expired is left as it is.
Tombstone(j, v) ==
  /\ token[j] = "ISSUED" /\ PurposeOf[j] = "calibration" /\ under[j] = v
  /\ Expired(j) /\ subject[SubjectOf[j]] = j

CallsMatch(calls) == \A call \in calls : KnownCall(call.jti) /\ Call(call.jti) = call

InventoryMatches(v, m) ==
  v \in Sealed =>
    /\ Authorizations = {call.jti : call \in m.calls} \cup m.tombs
    /\ {r \in Responses : provider[r] # NoJti} = {call.response : call \in m.calls}
    /\ \A j \in m.tombs : Tombstone(j, v)

-----------------------------------------------------------------------------
(* The command. *)

Manifest(b) == [commit |-> run[b].commit, calls |-> run[b].calls, tombs |-> run[b].tombs]
Become(b, r) == run' = [run EXCEPT ![b] = r]

\* discover...PolicyMigrationSource, up to the status it asks for.
ReadStatus(b, c) ==
  /\ run[b].pc = "idle"
  /\ policy + 1 \in Versions /\ PredecessorMatches(policy)
  /\ CoreMatches(policy, policy) /\ now < ClosesAt
  /\ Become(b, [pc |-> "scan", from |-> policy, commit |-> c, left |-> {}, calls |-> {},
                tombs |-> {}])
  /\ UNCHANGED <<vars, under, receipt>>

\* The scan of the authorization keys, which unless it is lenient counts them.
ScanKeys(b) ==
  LET v == run[b].from IN
  /\ run[b].pc = "scan"
  /\ v \in Lenient \/ Cardinality(Authorizations) = MigrationCalls[v] + Tombstones[v]
  /\ Become(b, [run[b] EXCEPT !.pc = "read", !.left = Authorizations])
  /\ UNCHANGED <<vars, under, receipt>>

\* One hgetall of the loop; a record it does not expect ends the command.
ReadRecord(b, j) ==
  /\ run[b].pc = "read" /\ j \in run[b].left
  /\ \/ /\ KnownCall(j)
        /\ Become(b, [run[b] EXCEPT !.left = @ \ {j}, !.calls = @ \cup {Call(j)}])
     \/ /\ Tombstone(j, run[b].from) /\ Tombstones[run[b].from] = 1 /\ run[b].tombs = {}
        /\ Become(b, [run[b] EXCEPT !.left = @ \ {j}, !.tombs = {j}])
     \/ /\ run[b].from \in Lenient /\ token[j] # "KNOWN"
        /\ Become(b, [run[b] EXCEPT !.left = @ \ {j}])
  /\ UNCHANGED <<vars, under, receipt>>

\* Every call is there, and the predecessor's among them.
Complete(b) ==
  /\ run[b].pc = "read" /\ run[b].left = {}
  /\ {call.sequence : call \in run[b].calls} = 1 .. MigrationCalls[run[b].from]
  /\ run[b].from > 1 => receipt[run[b].from - 1].calls \subseteq run[b].calls

\* The migration scripts, for a receipt that is not there yet and one that is.
MigrateNew(b) ==
  LET v == run[b].from IN
  /\ Complete(b) /\ receipt[v] = NoReceipt
  /\ CoreMatches(v, v) /\ PredecessorMatches(v)
  /\ CallsMatch(run[b].calls) /\ InventoryMatches(v, run[b])
  /\ MigratePolicy
  /\ receipt' = [receipt EXCEPT ![v] = Manifest(b)]
  /\ Become(b, [run[b] EXCEPT !.pc = "migrated"])
  /\ UNCHANGED under

MigrateExisting(b) ==
  LET v == run[b].from IN
  /\ Complete(b) /\ receipt[v] = Manifest(b)
  /\ CoreMatches(v, v + 1) /\ PredecessorMatches(v)
  /\ CallsMatch(run[b].calls) /\ InventoryMatches(v, run[b])
  /\ Become(b, [run[b] EXCEPT !.pc = "migrated"])
  /\ UNCHANGED <<vars, under, receipt>>

\* The receipt and the status are read back before the command reports success.
Confirm(b) ==
  LET v == run[b].from IN
  /\ run[b].pc = "migrated"
  /\ receipt[v] = Manifest(b) /\ CoreMatches(v, v + 1)
  /\ Become(b, [run[b] EXCEPT !.pc = "done"])
  /\ UNCHANGED <<vars, under, receipt>>

\* An error, a lost answer or the end of the build: the command may be repeated.
Stop(b) ==
  /\ run[b].pc # "idle"
  /\ Become(b, NotRunning)
  /\ UNCHANGED <<vars, under, receipt>>

MigrationNext ==
  \/ \E j \in Jtis : ServeIssue(j) \/ ServeCall(j)
  \/ ServeOther
  \/ \E b \in Runs : \/ \E c \in Commits : ReadStatus(b, c)
                     \/ ScanKeys(b)
                     \/ \E j \in Jtis : ReadRecord(b, j)
                     \/ MigrateNew(b) \/ MigrateExisting(b)
                     \/ Confirm(b) \/ Stop(b)

MigrationSpec == MigrationInit /\ [][MigrationNext]_all

-----------------------------------------------------------------------------
\* However the command's reads interleave with calls, other builds and restarts,
\* each migration leaves one receipt, which lists every call made before it as
\* that call is kept today; and a call carries the policy it was granted under, as
\* the ordinals of the next migration presume, although a token may be issued
\* between the command's scan and its script (calls_match, historicalIdentity).
HistoryIsKept ==
  /\ \A v \in Versions : receipt[v] # NoReceipt <=> v < policy
  /\ \A v \in Versions : receipt[v] # NoReceipt =>
       /\ receipt[v].calls = {Call(j) : j \in {i \in Dispatched : sequence[i] <= MigrationCalls[v]}}
       /\ \A call \in receipt[v].calls : token[call.jti] = "KNOWN"
       /\ \A j \in Dispatched : under[j] <= v <=> sequence[j] <= MigrationCalls[v]
  /\ \A b \in Runs : run[b].pc \in {"migrated", "done"} => receipt[run[b].from] = Manifest(b)
=============================================================================
