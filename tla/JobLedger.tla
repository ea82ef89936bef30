----------------------------- MODULE JobLedger -----------------------------
(***************************************************************************)
(* The E1/H1 result file and the workers that append to it.  A worker      *)
(* session reads the file, computes the pending jobs and their attempt     *)
(* numbers once, and appends the rows of one case x Source group at a      *)
(* time.  A session ends at its deadline, at a kill (possibly in the       *)
(* middle of an append) or, for the H1 runners, at the first failed group. *)
(***************************************************************************)
EXTENDS Naturals, FiniteSets, Sequences, SequencesExt

CONSTANTS Groups,       \* the groups in the order a session visits them: [case, jobs]
          Runners,      \* "pilot": run_cacheblend_h1_pilot; "h1": run_v6/v7/v8_h1_pilot
          MaxFailures,  \* bound on groups that raise
          MaxCrashes    \* bound on kills

(* A job is in one group: the runners group the manifest by case and Source. *)
ASSUME GroupsAreDisjoint ==
  /\ Runners \subseteq {"pilot", "h1"} /\ Groups \in Seq(ToSet(Groups))
  /\ \A g \in DOMAIN Groups :
       Groups[g].jobs \in Seq(ToSet(Groups[g].jobs)) /\ Groups[g].jobs # <<>>
  /\ \A g, h \in DOMAIN Groups :
       g # h => ToSet(Groups[g].jobs) \cap ToSet(Groups[h].jobs) = {}

VARIABLES runner,       \* which worker program appends to this file
          rows,         \* per job, the rows on file in the order they were appended
          tail,         \* the end of the file: "clean", "open" (no newline), "torn"
          session,      \* what a running session computed at its start, or NoSession
          failures, crashes

ledgerVars == <<runner, rows, tail, session, failures, crashes>>

Retryable == {"process_crash", "gpu_reset", "transient_io"}
Failing == {"oom", "gpu_reset", "data_error", "transient_io"}
Terminal == {"completed", "oom", "data_error"}

Jobs == UNION {ToSet(Groups[g].jobs) : g \in DOMAIN Groups}
NoSession == [todo |-> {}, jobs |-> {}, attempt |-> [j \in Jobs |-> 0], live |-> FALSE]

(* resumable_e1_jobs *)
Numbers(rs) == {r.attempt : r \in ToSet(rs)}
NumbersUnique(rs) == Cardinality(Numbers(rs)) = Len(rs)
Latest(rs) == CHOOSE r \in ToSet(rs) : \A n \in Numbers(rs) : n <= r.attempt
OnlyUnseen(rs) == rs = <<>>
Unresolved(rs) == rs = <<>> \/ Latest(rs).status \in Retryable
SameAttempt(rs) == IF rs = <<>> THEN 0 ELSE Latest(rs).attempt
NextAttempt(rs) == IF rs = <<>> THEN 0 ELSE Latest(rs).attempt + 1

(* The H1 runners' own resume: a group is done when each job has a completed row. *)
HasCompleted(rs) == \E r \in ToSet(rs) : r.status = "completed"
H1Redo(g) == ~ \A j \in ToSet(Groups[g].jobs) : HasCompleted(rows[j])

(* merge_e1_results *)
SelectedJobs(rs) == Latest(rs)
DisagreeingOnly == {j \in Jobs : \E r, s \in ToSet(rows[j]) : r.attempt = s.attempt /\ r # s}
Conflicts == {j \in Jobs : ~ NumbersUnique(rows[j])}
Missing == {j \in Jobs : rows[j] = <<>>}
FailedJobs == {j \in Jobs \ Missing : SelectedJobs(rows[j]).status # "completed"}
ResultSetComplete == Missing = {} /\ FailedJobs = {} /\ Conflicts = {}

LedgerInit ==
  /\ runner \in Runners
  /\ rows = [j \in Jobs |-> <<>>]
  /\ tail = "clean" /\ session = NoSession
  /\ failures = 0 /\ crashes = 0

(* A session starts: the file is read with --resume; a torn line and duplicate
   attempt numbers make the pilot refuse. *)
StartPilot ==
  /\ runner = "pilot"
  /\ \A j \in Jobs : NumbersUnique(rows[j])
  /\ LET js == {j \in Jobs : Unresolved(rows[j])}
     IN session' = [live |-> TRUE, jobs |-> js,
                    todo |-> {g \in DOMAIN Groups : ToSet(Groups[g].jobs) \cap js # {}},
                    attempt |-> [j \in Jobs |-> NextAttempt(rows[j])]]

StartH1 ==
  /\ runner = "h1"
  /\ session' = [live |-> TRUE, jobs |-> Jobs,
                 todo |-> {g \in DOMAIN Groups : H1Redo(g)},
                 attempt |-> [j \in Jobs |-> 0]]

Start ==
  /\ ~session.live /\ tail # "torn"
  /\ StartPilot \/ StartH1
  /\ session'.todo # {}
  /\ UNCHANGED <<runner, rows, tail, failures, crashes>>

Current == CHOOSE g \in session.todo : \A h \in session.todo : g <= h
Assigned(g) == ToSet(Groups[g].jobs) \cap session.jobs
Working == session.live /\ session.todo # {}

(* append_jsonl_fsync: after an unterminated last line the first new row is glued
   to the stored one, and the file can no longer be read. *)
Written(js, status) ==
  rows' = [j \in Jobs |-> IF j \in js
                          THEN Append(rows[j], [attempt |-> session.attempt[j], status |-> status])
                          ELSE rows[j]]
AppendRows(js, status) ==
  /\ Written(js, status)
  /\ tail' = IF tail = "open" /\ js # {} THEN "torn" ELSE tail

GroupCompletes ==
  /\ Working
  /\ AppendRows(Assigned(Current), "completed")
  /\ session' = [session EXCEPT !.todo = @ \ {Current}]
  /\ UNCHANGED <<runner, failures, crashes>>

(* The pilot records the failure of every job of the group and goes on; when the
   case runtime raised, of every job of the case not processed yet. *)
PilotFails(status, gs) ==
  /\ runner = "pilot"
  /\ AppendRows(UNION {Assigned(g) : g \in gs}, status)
  /\ session' = [session EXCEPT !.todo = @ \ gs]

(* An H1 runner records the r = 1 job only, as a data error, and stops. *)
H1Fails ==
  /\ runner = "h1"
  /\ AppendRows({Last(Groups[Current].jobs)}, "data_error")
  /\ session' = NoSession

GroupFails ==
  /\ Working /\ failures < MaxFailures
  /\ \/ \E status \in Failing : PilotFails(status, {Current})
     \/ \E status \in Failing :
          PilotFails(status, {g \in session.todo : Groups[g].case = Groups[Current].case})
     \/ H1Fails
  /\ failures' = failures + 1
  /\ UNCHANGED <<runner, crashes>>

(* A kill: before, or in the middle of, the append of the current group's rows,
   the first of which are whole then. *)
FirstJobs(g, k) == {Groups[g].jobs[i] : i \in 1..k}

Kill ==
  /\ Working /\ crashes < MaxCrashes
  /\ \/ UNCHANGED <<rows, tail>>
     \/ \E k \in 0..Len(Groups[Current].jobs) :
          LET whole == FirstJobs(Current, k) \cap session.jobs
          IN  /\ Written(whole, "completed")
              /\ tail' \in IF tail = "open" \/ whole = {} THEN {"torn"}
                           ELSE {"clean", "open", "torn"}
  /\ session' = NoSession
  /\ crashes' = crashes + 1
  /\ UNCHANGED <<runner, failures>>

(* The session ends: nothing left, or its deadline (or case limit) is reached. *)
SessionEnds ==
  /\ session.live /\ session' = NoSession
  /\ UNCHANGED <<runner, rows, tail, failures, crashes>>

LedgerNext == Start \/ GroupCompletes \/ GroupFails \/ Kill \/ SessionEnds

(* The operator resumes for as long as jobs are pending (docs/E1_JOBS.md), and some
   session is long enough for its next group. *)
LedgerFairness ==
  /\ WF_ledgerVars(Start) /\ WF_ledgerVars(SessionEnds /\ session.todo = {})
  /\ SF_ledgerVars(GroupCompletes)

LedgerSpec == LedgerInit /\ [][LedgerNext]_ledgerVars /\ LedgerFairness

----------------------------------------------------------------------------
(* The pilot's attempts of a job are numbered 0, 1, 2, ... and only the last one may
   be terminal: no kill, failure or stale session state makes it lose, repeat or
   renumber an attempt (experiment_jobs.py, run_cacheblend_h1_pilot.py). *)
AttemptsChain ==
  runner = "pilot" =>
    \A j \in Jobs : \A k \in DOMAIN rows[j] :
      /\ rows[j][k].attempt = k - 1
      /\ k < Len(rows[j]) => rows[j][k].status \in Retryable

(* A result set that the merge calls complete holds exactly one completed row per
   job, and a resumed pilot has nothing left to run (merge_e1_results and
   resumable_e1_jobs read the same file independently). *)
CompleteMeansOnce ==
  ResultSetComplete =>
    \A j \in Jobs :
      /\ Cardinality({k \in DOMAIN rows[j] : rows[j][k].status = "completed"}) = 1
      /\ ~ Unresolved(rows[j])

(* What the result file means: attempts follow each other, a job is completed once. *)
LedgerHolds == AttemptsChain /\ CompleteMeansOnce

(* While the file stays readable, every job ends with a terminal row: retryable
   failures are run again after every kill and deadline. *)
EveryJobResolved ==
  <>(\/ tail = "torn"
     \/ \A j \in Jobs : \E r \in ToSet(rows[j]) : r.status \in Terminal)
=============================================================================
