--------------------------- MODULE Qualification ---------------------------
(***************************************************************************)
(* The v8 A800 qualification of one Model x policy: frozen documents       *)
(* (RuntimeCostProfile, SelectorPolicyProfile, job manifest), the runner   *)
(* that appends one result per job to an output directory and may be       *)
(* resumed there, the audits it writes, the Gate computed from them and    *)
(* the H1 pilot the Gate unlocks.  A document binds what it was made from: *)
(* commit stands for the code SHA, patch, tokenizer and model revision,    *)
(* which the code compares together.                                       *)
(***************************************************************************)
EXTENDS Naturals, Sequences, FiniteSets

CONSTANTS Commits, Gpus,
          JobCount,      \* the frozen matrix (140 jobs in the code)
          MaxMoves       \* bound on the checkouts and machines the operator moves to

ASSUME MatrixHasJobs == JobCount \in Nat \ {0}

VARIABLES here,          \* the checkout and the GPU the scripts run on
          moves,
          cost, profile, manifest,   \* the frozen documents, or Absent
          results,       \* rows of results.jsonl; at: where each was measured
          torn,          \* a kill left a torn last line
          running,       \* a qualification session is running
          prefix, audit, \* native_prefix_cache_audit.json and runtime_audit.json
          gate,          \* the schema-5 Gate
          h1             \* where the H1 pilot was unlocked, and the Gate it showed

qualVars == <<here, moves, cost, profile, manifest, results, torn, running,
              prefix, audit, gate, h1>>
documents == <<cost, profile, manifest>>

Absent == [absent |-> TRUE]
Places == [commit : Commits, gpu : Gpus]

QualInit ==
  /\ here \in Places /\ moves = 0
  /\ cost = Absent /\ profile = Absent /\ manifest = Absent
  /\ results = <<>> /\ torn = FALSE /\ running = FALSE
  /\ prefix = Absent /\ audit = Absent /\ gate = Absent /\ h1 = Absent

(* The operator checks out another commit or rents another GPU. *)
Move(place) ==
  /\ ~running /\ moves < MaxMoves /\ place # here
  /\ here' = place /\ moves' = moves + 1
  /\ UNCHANGED <<documents, results, torn, running, prefix, audit, gate, h1>>

FreezeCost ==
  /\ ~running
  /\ cost' = [commit |-> here.commit, gpu |-> here.gpu]
  /\ UNCHANGED <<here, moves, profile, manifest, results, torn, running, prefix, audit, gate, h1>>

(* The measured development rows left a feasible candidate. *)
FreezeSelector ==
  /\ ~running /\ cost # Absent
  /\ profile' = [commit |-> cost.commit, cost |-> cost]
  /\ UNCHANGED <<here, moves, cost, manifest, results, torn, running, prefix, audit, gate, h1>>

Valid(document, commit) == document # Absent /\ document.commit = commit

BuildManifest ==
  /\ ~running /\ Valid(profile, here.commit) /\ Valid(cost, here.commit)
  /\ manifest' = [commit |-> here.commit, profile |-> profile, cost |-> cost]
  /\ UNCHANGED <<here, moves, cost, profile, results, torn, running, prefix, audit, gate, h1>>

Launchable ==
  /\ ~running /\ ~torn
  /\ Valid(manifest, here.commit) /\ manifest.profile = profile
  /\ Valid(profile, here.commit) /\ Valid(cost, here.commit)
  /\ cost.gpu = here.gpu

Passed(rs) == \A k \in DOMAIN rs : rs[k].passed
AnyPrefix(rs) == Len(rs) <= JobCount
(* --resume accepts a prefix of the matrix without failures; a row names its job only. *)
Resumable(rs) == Passed(rs) /\ Len(rs) <= JobCount

AuditNow(rs) ==
  [commit |-> here.commit, gpu |-> here.gpu, profile |-> manifest.profile,
   cost |-> manifest.cost, completed |-> Len(rs),
   failed |-> Cardinality({k \in DOMAIN rs : ~rs[k].passed})]

(* The runner writes the Prefix Cache audit, and stops when its sentinel failed. *)
Launch ==
  /\ Launchable
  /\ \E passed \in BOOLEAN :
       /\ prefix' = [commit |-> here.commit, passed |-> passed]
       /\ running' = (passed /\ Resumable(results))
  /\ UNCHANGED <<here, moves, documents, results, torn, audit, gate, h1>>

(* executor.execute(job): the row is appended and fsynced; a failure ends the session. *)
RunJob(passed) ==
  /\ running /\ Len(results) < JobCount
  /\ results' = Append(results, [passed |-> passed, at |-> here])
  /\ running' = passed
  /\ audit' = IF passed THEN audit ELSE AuditNow(results')
  /\ UNCHANGED <<here, moves, documents, torn, prefix, gate, h1>>

(* The matrix is complete, or --job-limit is reached. *)
Finish ==
  /\ running /\ running' = FALSE
  /\ audit' = AuditNow(results)
  /\ UNCHANGED <<here, moves, documents, results, torn, prefix, gate, h1>>

Killed ==
  /\ running /\ running' = FALSE
  /\ torn' \in IF Len(results) < JobCount THEN BOOLEAN ELSE {FALSE}
  /\ UNCHANGED <<here, moves, documents, results, prefix, audit, gate, h1>>

(* evaluate_v8_runtime_qualification, on the files as they are now. *)
JobsPassed == audit.completed = JobCount /\ audit.failed = 0
Qualified ==
  /\ Valid(profile, manifest.commit) /\ Valid(cost, manifest.commit)
  /\ manifest.profile = profile /\ manifest.cost = cost
  /\ audit.profile = profile /\ audit.cost = cost
  /\ audit.commit = manifest.commit /\ audit.gpu = manifest.cost.gpu
  /\ JobsPassed
  /\ prefix.passed /\ prefix.commit = manifest.commit

VerifyGate ==
  /\ ~running /\ Absent \notin {cost, profile, manifest, prefix, audit}
  /\ gate' = [commit |-> manifest.commit, profile |-> manifest.profile,
              cost |-> manifest.cost, gpu |-> audit.gpu, qualified |-> Qualified]
  /\ UNCHANGED <<here, moves, documents, results, torn, running, prefix, audit, h1>>

(* validate_v8_h1_gate and the H1 runner's own checks before it loads the model. *)
UnlockH1 ==
  /\ ~running /\ gate # Absent /\ gate.qualified
  /\ gate.gpu = here.gpu
  /\ Valid(gate, here.commit) /\ Valid(profile, here.commit) /\ Valid(cost, here.commit)
  /\ gate.profile = profile /\ gate.cost = cost
  /\ h1' = [at |-> here, gate |-> gate]
  /\ UNCHANGED <<here, moves, documents, results, torn, running, prefix, audit, gate>>

QualNext ==
  \/ \E place \in Places : Move(place)
  \/ FreezeCost \/ FreezeSelector \/ BuildManifest
  \/ Launch \/ Finish \/ Killed
  \/ \E passed \in BOOLEAN : RunJob(passed)
  \/ VerifyGate \/ UnlockH1

QualSpec == QualInit /\ [][QualNext]_qualVars

----------------------------------------------------------------------------
(* H1 is unlocked only over a complete matrix without a failure: whatever was
   killed, resumed, rebuilt or verified again in between
   (v8_runtime_qualification.py, run_v8_a800_qualification.py). *)
UnlockedAfterAllPassed ==
  h1 # Absent => Len(results) = JobCount /\ Passed(results)

(* A recorded failure is final: nothing is ever appended after it
   (docs/A800_V8_RUNBOOK.md, Failure rules). *)
FailureIsFinal == [][~Passed(results) => results' = results]_qualVars

(* docs/A800_V8_RUNBOOK.md: an older code SHA or qualification runtime profile
   "cannot unlock schema-v5 H1": what unlocks H1 was measured where H1 runs. *)
MeasuredWhereUnlocked ==
  h1 # Absent => \A k \in DOMAIN results : results[k].at = h1.at
=============================================================================
