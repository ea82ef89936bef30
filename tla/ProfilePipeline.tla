-------------------------- MODULE ProfilePipeline --------------------------
(***************************************************************************)
(* The schema-10 Profile of one model: the runner that measures the frozen *)
(* job list in bounded sessions and may be killed and resumed              *)
(* (scripts/server/run_v8_schema10_a800_profile.py), the aggregation of    *)
(* its rows, the freeze that writes the Profile bundle file by file, and   *)
(* the dual-model Gate made of two bundles.  A row holds what it is        *)
(* evidence of, and like the row of the code not the commit it was         *)
(* measured at; no value it measured is kept.                              *)
(***************************************************************************)
EXTENDS Naturals, Sequences, SequencesExt

CONSTANTS CodeCommits,
          Shards,          \* shards of a development sweep (15 in the code)
          BundleDirs,      \* the output directories a freeze is given
          MaxKills         \* bound on the processes that are killed

VARIABLES checkout,        \* the clean checkout, whose handoff binds its commit
          resultRows,            \* results.jsonl
          tornRow,         \* a kill left a torn last line
          initFailure,     \* initialization_failure.json exists
          runtimeAudit,    \* runtime_audit.json
          profiling,       \* the running session
          measured,        \* the aggregated measurements
          bundles,         \* the files of each output directory, as written
          freezing,        \* the running freeze
          dualGate,        \* the commits of the two models' bundles, and the directory
          kills

profileVars == <<checkout, resultRows, tornRow, initFailure, runtimeAudit, profiling,
                 measured, bundles, freezing, dualGate, kills>>
evidence == <<resultRows, tornRow, initFailure, runtimeAudit>>
frozen == <<measured, bundles, freezing, dualGate>>

None == [none |-> TRUE]

(* Stage A, selection sweeps and timings, precedes the sweeps of Stage B;  *)
(* the jobs of one kind that differ by their coordinates only are one.     *)
ProfileJobs ==
  <<"correctness_sentinel">>
    \o [k \in 1..Shards |-> "selection_admission_sweep"] \o <<"factorized_selection">>
    \o [k \in 1..Shards |-> "repair_policy_development_sweep"] \o <<"joint_anchor">>
StageA == {"selection_admission_sweep", "factorized_selection"}

ProfileFiles == <<"profiles", "auxiliary", "summary", "manifest">>

ProfileInit ==
  /\ checkout \in CodeCommits
  /\ resultRows = <<>> /\ tornRow = FALSE /\ initFailure = FALSE /\ runtimeAudit = None
  /\ profiling = None /\ measured = None /\ freezing = None /\ dualGate = None
  /\ bundles = [d \in BundleDirs |-> <<>>]
  /\ kills = 0

Idle == profiling = None /\ freezing = None

CheckOut(commit) ==
  /\ Idle /\ commit # checkout /\ checkout' = commit
  /\ UNCHANGED <<evidence, profiling, frozen, kills>>

-----------------------------------------------------------------------------
(* A session of the runner *)

Successful(rs) == \A k \in DOMAIN rs : rs[k].outcome = "passed"

(* Without --resume the directory must be empty; with it, the rows must be *)
(* a prefix of the jobs, all passed, and the first session must not have   *)
(* failed to initialize.                                                   *)
MayRun ==
  /\ Idle /\ ~tornRow /\ ~initFailure
  /\ Successful(resultRows) /\ Len(resultRows) <= Len(ProfileJobs)

(* Mutant: a resumed session starts like the first one.                    *)
ModeOfFirst(rs) == "qualification_full"
(* The executor hashes all of a Source until the sentinel has passed, in   *)
(* this session or in an earlier one.                                      *)
ModeOfSession(rs) ==
  IF \E k \in DOMAIN rs : rs[k].kind = "correctness_sentinel" THEN "online_immutable"
  ELSE "qualification_full"

SessionStarts ==
  /\ MayRun
  /\ profiling' = [mode |-> ModeOfSession(resultRows), reference |-> 0]
  /\ UNCHANGED <<checkout, evidence, frozen, kills>>

AuditOf(rs) ==
  [commit |-> checkout,
   completed |-> Len(SelectSeq(rs, LAMBDA r : r.outcome = "passed")),
   failed |-> Len(SelectSeq(rs, LAMBDA r : r.outcome # "passed"))]

(* The executor cannot be built: the failure is evidence, in two files.    *)
InitializationFails ==
  /\ MayRun
  /\ initFailure' = TRUE
  /\ \/ /\ runtimeAudit' = [commit |-> checkout, completed |-> 0, failed |-> 1]
        /\ UNCHANGED kills
     \/ /\ kills < MaxKills /\ kills' = kills + 1
        /\ UNCHANGED runtimeAudit
  /\ UNCHANGED <<checkout, resultRows, tornRow, profiling, frozen>>

(* frozen_reference_selection: the dispatch of Stage A, computed from the  *)
(* Stage-A rows at hand, once a session (0 before).                      *)
StageARows(rs) == Len(SelectSeq(rs, LAMBDA r : r.kind \in StageA))
ReferenceNow ==
  IF profiling.reference > 0 THEN profiling.reference ELSE StageARows(resultRows)
EvidenceComplete == ReferenceNow = Shards + 1

Job == ProfileJobs[Len(resultRows) + 1]
Outcomes(kind) ==
  CASE kind = "correctness_sentinel" -> {"passed", "unmeasured", "raised"}
    [] kind = "repair_policy_development_sweep" /\ ~EvidenceComplete -> {"raised"}
    [] OTHER -> {"passed", "raised"}

(* A job that raises ends the loop; the sentinel may complete without CUDA *)
(* timing, a row that has not passed either but does not end the loop.     *)
JobEnds(outcome, intact) ==
  /\ profiling # None /\ Len(resultRows) < Len(ProfileJobs)
  /\ LET sweep == Job = "repair_policy_development_sweep" /\ outcome # "raised"
     IN  /\ resultRows' = Append(resultRows,
              [kind |-> Job, outcome |-> outcome, mode |-> profiling.mode,
               reference |-> IF sweep THEN ReferenceNow ELSE 0,
               intact |-> sweep => intact])
         /\ profiling' = [mode |-> IF Job = "correctness_sentinel" /\ outcome # "raised"
                                   THEN "online_immutable" ELSE profiling.mode,
                          reference |-> IF sweep THEN ReferenceNow ELSE profiling.reference]
  /\ UNCHANGED <<checkout, tornRow, initFailure, runtimeAudit, frozen, kills>>
Advance ==
  /\ profiling # None /\ (resultRows # <<>> => Last(resultRows).outcome # "raised")
  /\ Len(resultRows) < Len(ProfileJobs)
  /\ \E outcome \in Outcomes(Job), intact \in BOOLEAN : JobEnds(outcome, intact)

(* After the last job, a job that raised, or one that would not end before *)
(* the deadline.                                                           *)
SessionCloses ==
  /\ profiling # None
  /\ runtimeAudit' = AuditOf(resultRows) /\ profiling' = None
  /\ UNCHANGED <<checkout, resultRows, tornRow, initFailure, frozen, kills>>

(* A kill, between two writes or inside the append of a row.               *)
SessionKilled ==
  /\ profiling # None /\ kills < MaxKills
  /\ profiling' = None /\ kills' = kills + 1
  /\ tornRow' \in {FALSE, Len(resultRows) < Len(ProfileJobs)}
  /\ UNCHANGED <<checkout, resultRows, initFailure, runtimeAudit, frozen>>

-----------------------------------------------------------------------------
(* aggregate_v8_schema10_profile.py *)

Bound(rs) ==
  \A k \in DOMAIN rs :
    rs[k].kind = "repair_policy_development_sweep" => rs[k].reference = StageARows(rs)

Aggregate ==
  /\ Idle /\ ~tornRow /\ runtimeAudit # None
  /\ runtimeAudit.failed = 0 /\ runtimeAudit.completed = Len(ProfileJobs)
  /\ Bound(resultRows)
  /\ measured' = [commit |-> runtimeAudit.commit,
                  consistent |-> \A k \in DOMAIN resultRows : resultRows[k].intact]
  /\ UNCHANGED <<checkout, evidence, profiling, bundles, freezing, dualGate, kills>>

(* freeze_v8_schema10_profiles.py: everything is validated before the      *)
(* first file is written.                                                  *)
FreezeStarts(d) ==
  /\ Idle /\ measured # None
  /\ measured.commit = checkout /\ measured.consistent
  /\ bundles[d] = <<>>
  /\ freezing' = [dir |-> d, of |-> measured]
  /\ UNCHANGED <<checkout, evidence, profiling, measured, bundles, dualGate, kills>>

WriteFile ==
  /\ freezing # None
  /\ LET d == freezing.dir
         file == ProfileFiles[Len(bundles[d]) + 1]
     IN  /\ bundles' = [bundles EXCEPT ![d] = Append(@, [file |-> file, of |-> freezing.of])]
         /\ freezing' = IF file = Last(ProfileFiles) THEN None ELSE freezing
  /\ UNCHANGED <<checkout, evidence, profiling, measured, dualGate, kills>>

FreezeKilled ==
  /\ freezing # None /\ kills < MaxKills
  /\ freezing' = None /\ kills' = kills + 1
  /\ UNCHANGED <<checkout, evidence, profiling, measured, bundles, dualGate>>

(* combine_v8_schema10_profile_bundles.py reads the two manifests; the one *)
(* of the other model, frozen elsewhere, is of any commit.                 *)
Manifest(d) == {k \in DOMAIN bundles[d] : bundles[d][k].file = "manifest"}
Combine(d, other) ==
  /\ Idle
  /\ \E k \in Manifest(d) :
       /\ bundles[d][k].of.commit = other
       /\ dualGate' = [commit |-> other, dir |-> d]
  /\ UNCHANGED <<checkout, evidence, profiling, measured, bundles, freezing, kills>>

ProfileNext ==
  \/ \E commit \in CodeCommits : CheckOut(commit)
  \/ SessionStarts \/ InitializationFails \/ Advance \/ SessionCloses \/ SessionKilled
  \/ Aggregate \/ WriteFile \/ FreezeKilled
  \/ \E d \in BundleDirs : FreezeStarts(d) \/ \E c \in CodeCommits : Combine(d, c)

ProfileSpec == ProfileInit /\ [][ProfileNext]_profileVars

-----------------------------------------------------------------------------
(* "The performance path never hashes the full KV" (the audit the runner   *)
(* writes): what is timed after the sentinel is timed in online_immutable, *)
(* in whichever session.                                                   *)
TimedWithoutHashing ==
  \A k \in DOMAIN resultRows :
    resultRows[k].kind # "correctness_sentinel" => resultRows[k].mode = "online_immutable"

(* What is aggregated stays complete: a row per job, in order, all passed, *)
(* every sweep of Stage B bound to the whole of Stage A.                   *)
AggregatedIsComplete ==
  measured # None =>
    /\ ~tornRow /\ Successful(resultRows)
    /\ [k \in DOMAIN resultRows |-> resultRows[k].kind] = ProfileJobs
    /\ \A k \in DOMAIN resultRows :
         resultRows[k].kind = "repair_policy_development_sweep" => resultRows[k].reference = Shards + 1

(* "a failed freeze cannot masquerade as a partial bundle": a directory    *)
(* with a manifest, hence what the Gate names, has every file, of one      *)
(* consistent measurement.                                                 *)
BundleIsWhole ==
  /\ \A d \in BundleDirs :
       Manifest(d) # {} =>
         /\ [k \in DOMAIN bundles[d] |-> bundles[d][k].file] = ProfileFiles
         /\ \A j, k \in DOMAIN bundles[d] :
              bundles[d][j].of = bundles[d][k].of /\ bundles[d][k].of.consistent
  /\ dualGate # None =>
       /\ Manifest(dualGate.dir) # {}
       /\ \A k \in Manifest(dualGate.dir) : bundles[dualGate.dir][k].of.commit = dualGate.commit
=============================================================================
