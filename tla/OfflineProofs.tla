---------------------------- MODULE OfflineProofs ----------------------------
(***************************************************************************)
(* Theorems about the programs that keep no Replica pool: the              *)
(* qualification of a checkout, the job ledger of an experiment, the load  *)
(* window of the scheduler, the rows a layer executes and the closed loop  *)
(* of a request of protocols v4 to v6.                                     *)
(***************************************************************************)
EXTENDS JobLedger, Qualification, LoadWindow, RepairMasks, ClosedLoop, FoldLemmas, TLAPS

(***************************************************************************)
(* Qualification.  A complete matrix without a failure can no longer       *)
(* change, since a session appends only while jobs are missing: so what an *)
(* audit, a Gate or an unlocked H1 says of it stays true.                  *)
(***************************************************************************)
Row == [passed : BOOLEAN, at : Places]
Complete == Len(results) = JobCount /\ Passed(results)

(* The invariant of the qualification.                                     *)
QualFits ==
    /\ results \in Seq(Row) /\ here \in Places
    /\ running \in BOOLEAN /\ (running => Passed(results))
    /\ audit # Absent /\ JobsPassed => Complete
    /\ gate # Absent /\ gate.qualified => Complete
    /\ h1 # Absent => Complete

(* Nothing qualifies before the first session.                             *)
LEMMA QualStarts == QualInit => QualFits
<1> SUFFICES ASSUME QualInit PROVE QualFits
  OBVIOUS
<1>1. results = <<>> /\ here \in Places /\ running = FALSE /\ audit = Absent /\ gate = Absent
      /\ h1 = Absent
  BY DEF QualInit
<1>2. results \in Seq(Row) /\ Passed(results)
  BY <1>1 DEF Passed
<1> QED BY <1>1, <1>2 DEF QualFits

(* An audit without a failure is one of rows that all passed.              *)
LEMMA AuditCounts ==
    ASSUME NEW rs \in Seq(Row), Cardinality({k \in DOMAIN rs : ~rs[k].passed}) = 0
    PROVE  Passed(rs)
<1> DEFINE F == {k \in DOMAIN rs : ~rs[k].passed}
<1>1. IsFiniteSet(F)
  <2>1. IsFiniteSet(1..Len(rs))
    BY FS_Interval
  <2> QED BY <2>1, FS_Subset
<1>2. F = {}
  BY <1>1, FS_EmptySet
<1> QED BY <1>2 DEF Passed

(* No step of a session, of the operator or of the Gate breaks it.         *)
LEMMA QualStep ==
    ASSUME QualFits, [QualNext]_qualVars PROVE QualFits'
<1> USE DEF QualFits
<1>0. CASE UNCHANGED qualVars
  BY <1>0 DEF qualVars, documents, JobsPassed, Passed, Complete
<1>1. ASSUME NEW place \in Places, Move(place) PROVE QualFits'
  BY <1>1 DEF Move, documents, JobsPassed, Passed, Complete
<1>2. CASE FreezeCost
  BY <1>2 DEF FreezeCost, documents, JobsPassed, Passed, Complete
<1>3. CASE FreezeSelector
  BY <1>3 DEF FreezeSelector, documents, JobsPassed, Passed, Complete
<1>4. CASE BuildManifest
  BY <1>4 DEF BuildManifest, documents, JobsPassed, Passed, Complete
<1>5. CASE Launch
  BY <1>5 DEF Launch, Resumable, documents, JobsPassed, Passed, Complete
<1>6. CASE Finish
  <2>1. results' = results /\ Passed(results) /\ running' = FALSE /\ here' = here
        /\ UNCHANGED <<gate, h1>> /\ audit' = AuditNow(results)
    BY <1>6 DEF Finish, documents
  <2>2. audit'.completed = Len(results)
    BY <2>1 DEF AuditNow
  <2> QED BY <2>1, <2>2 DEF JobsPassed, Passed, Complete
<1>7. CASE Killed
  BY <1>7 DEF Killed, documents, JobsPassed, Passed, Complete
<1>8. ASSUME NEW passed \in BOOLEAN, RunJob(passed) PROVE QualFits'
  <2>1. /\ Passed(results) /\ results \in Seq(Row) /\ Len(results) < JobCount /\ here \in Places
        /\ results' = Append(results, [passed |-> passed, at |-> here])
        /\ running' = passed /\ here' = here /\ UNCHANGED <<gate, h1>>
        /\ audit' = IF passed THEN audit ELSE AuditNow(results')
    BY <1>8 DEF RunJob, documents
  <2>2. results' \in Seq(Row) /\ Len(results') = Len(results) + 1
    BY <2>1 DEF Row
  <2>3. ~Complete
    BY <2>1, MatrixHasJobs DEF Complete
  <2>4. running' => Passed(results')
    BY <2>1 DEF Passed, Row
  <2>5. ASSUME ~passed PROVE ~JobsPassed'
    <3>1. audit'.failed = Cardinality({k \in DOMAIN results' : ~results'[k].passed})
      BY <2>1, <2>5 DEF AuditNow
    <3>2. ~Passed(results')
      BY <2>1, <2>5 DEF Passed, Row
    <3> QED BY <3>1, <3>2, <2>2, AuditCounts DEF JobsPassed
  <2>6. CASE passed
    BY <2>1, <2>2, <2>3, <2>4, <2>6 DEF JobsPassed
  <2>7. CASE ~passed
    BY <2>1, <2>2, <2>3, <2>4, <2>5, <2>7
  <2> QED BY <2>6, <2>7
<1>9. CASE VerifyGate
  <2>1. /\ audit # Absent /\ gate'.qualified = Qualified
        /\ UNCHANGED <<here, results, running, audit, h1>>
    BY <1>9 DEF VerifyGate, documents
  <2>2. Qualified => Complete
    BY <2>1 DEF Qualified
  <2> QED BY <2>1, <2>2 DEF JobsPassed, Passed, Complete
<1>10. CASE UnlockH1
  BY <1>10 DEF UnlockH1, documents, JobsPassed, Passed, Complete
<1> QED BY <1>0, <1>1, <1>2, <1>3, <1>4, <1>5, <1>6, <1>7, <1>8, <1>9, <1>10 DEF QualNext

(* It holds throughout a qualification.                                    *)
LEMMA QualInvariant == QualSpec => []QualFits
  BY QualStarts, QualStep, PTL DEF QualSpec

(* H1 is unlocked only by a complete matrix without a failure, through     *)
(* every order of kills, resumptions, rebuilt documents and Gates, for any *)
(* number of jobs, checkouts and machines.                                 *)
THEOREM UnlockedOnlyComplete == QualSpec => []UnlockedAfterAllPassed
<1>1. QualFits => UnlockedAfterAllPassed
  BY DEF QualFits, UnlockedAfterAllPassed, Complete
<1> QED BY <1>1, QualInvariant, PTL

(* Nothing is ever appended after a failure.                               *)
THEOREM FailureStays == QualSpec => FailureIsFinal
<1>1. ASSUME QualFits, [QualNext]_qualVars, ~Passed(results) PROVE results' = results
  BY <1>1 DEF QualFits, QualNext, qualVars, Move, FreezeCost, FreezeSelector, BuildManifest,
              Launch, Finish, Killed, RunJob, VerifyGate, UnlockH1
<1>2. QualFits /\ [QualNext]_qualVars => [~Passed(results) => results' = results]_qualVars
  BY <1>1
<1> QED BY <1>2, QualInvariant, PTL DEF QualSpec, FailureIsFinal

-----------------------------------------------------------------------------
(***************************************************************************)
(* The job ledger.  While a pilot session is under way, what it computed   *)
(* at its start still fits the file for every job it has yet to write, and *)
(* it writes each job once, since a job is in one group.                   *)
(***************************************************************************)
Entry == [attempt : Nat, status : Retryable \cup Terminal]
Sessions == [live : BOOLEAN, jobs : SUBSET Jobs, todo : SUBSET DOMAIN Groups,
             attempt : [Jobs -> Nat]]

Chained(rs) ==
    \A k \in DOMAIN rs : /\ rs[k].attempt = k - 1
                         /\ k < Len(rs) => rs[k].status \in Retryable

(* The next attempt of a job is the one the session has computed for it.   *)
Due(j) ==
    /\ session.attempt[j] = Len(rows[j])
    /\ \A k \in DOMAIN rows[j] : rows[j][k].status \in Retryable

(* The invariant of the ledger.                                            *)
LedgerFits ==
    /\ runner \in {"pilot", "h1"}
    /\ rows \in [Jobs -> Seq(Entry)]
    /\ session \in Sessions
    /\ runner = "pilot" =>
         /\ \A j \in Jobs : Chained(rows[j])
         /\ session.live => \A g \in session.todo : \A j \in Assigned(g) : Due(j)
    /\ runner = "h1" =>
         \A j \in Jobs : /\ session.attempt[j] = 0
                         /\ \A k \in DOMAIN rows[j] : rows[j][k].attempt = 0

(* The row with the latest attempt of a chain is its last.                 *)
LEMMA LatestIsLast ==
    ASSUME NEW rs \in Seq(Entry), rs # <<>>, Chained(rs)
    PROVE  Latest(rs) = rs[Len(rs)] /\ Len(rs) \in DOMAIN rs
<1>1. Len(rs) \in DOMAIN rs /\ DOMAIN rs = 1..Len(rs) /\ Len(rs) \in Nat
  OBVIOUS
<1>2. ASSUME NEW r \in ToSet(rs)
      PROVE  (\A n \in Numbers(rs) : n <= r.attempt) <=> r = rs[Len(rs)]
  <2>1. PICK i \in DOMAIN rs : r = rs[i]
    BY <1>2 DEF ToSet
  <2>2. r.attempt = i - 1
    BY <2>1 DEF Chained
  <2>3. Numbers(rs) = {k - 1 : k \in DOMAIN rs}
    BY DEF Numbers, ToSet, Chained
  <2>4. ASSUME \A n \in Numbers(rs) : n <= r.attempt PROVE i = Len(rs)
    <3>1. Len(rs) - 1 \in Numbers(rs)
      BY <1>1, <2>3
    <3> QED BY <3>1, <2>4, <2>2, <1>1
  <2>5. ASSUME r = rs[Len(rs)], NEW n \in Numbers(rs) PROVE n <= r.attempt
    <3>1. r.attempt = Len(rs) - 1
      BY <2>5, <1>1 DEF Chained
    <3> QED BY <3>1, <2>3, <2>5, <1>1
  <2> QED BY <2>1, <2>4, <2>5
<1>3. rs[Len(rs)] \in ToSet(rs)
  BY <1>1 DEF ToSet
<1>4. Latest(rs) \in ToSet(rs) /\ \A n \in Numbers(rs) : n <= Latest(rs).attempt
  BY <1>2, <1>3, Zenon DEF Latest
<1> QED BY <1>1, <1>2, <1>4

(* A session with groups left has a next one.                              *)
LEMMA CurrentIsLeft ==
    ASSUME session \in Sessions, session.todo # {}
    PROVE  Current \in session.todo
<1>1. session.todo \subseteq Nat
  BY GroupsAreDisjoint DEF Sessions
<1>2. \E n \in session.todo : \A m \in session.todo : n <= m
  BY <1>1, LeastNumber
<1> QED BY <1>2, Zenon DEF Current

(* Rows of jobs that are due extend their chains.                          *)
LEMMA WrittenRows ==
    ASSUME LedgerFits, NEW js \in SUBSET Jobs, NEW status \in Retryable \cup Terminal,
           Written(js, status),
           runner = "pilot" => \A j \in js : Due(j)
    PROVE  /\ rows' \in [Jobs -> Seq(Entry)]
           /\ runner = "pilot" => \A j \in Jobs : Chained(rows'[j])
           /\ runner = "h1" =>
                \A j \in Jobs : \A k \in DOMAIN rows'[j] : rows'[j][k].attempt = 0
           /\ \A j \in Jobs \ js : rows'[j] = rows[j]
<1> DEFINE new(j) == [attempt |-> session.attempt[j], status |-> status]
<1>1. \A j \in Jobs : new(j) \in Entry /\ rows[j] \in Seq(Entry)
  BY DEF LedgerFits, Sessions, Entry
<1>2. rows' = [j \in Jobs |-> IF j \in js THEN Append(rows[j], new(j)) ELSE rows[j]]
  BY DEF Written
<1>3. \A j \in Jobs : new(j).attempt = session.attempt[j]
  OBVIOUS
<1> HIDE DEF new
<1>4. rows' \in [Jobs -> Seq(Entry)]
  BY <1>1, <1>2
<1>5. ASSUME NEW j \in Jobs, runner = "pilot" PROVE Chained(rows'[j])
  <2>1. CASE j \notin js
    BY <1>2, <1>5, <2>1 DEF LedgerFits
  <2>2. CASE j \in js
    <3>1. rows'[j] = Append(rows[j], new(j)) /\ rows[j] \in Seq(Entry)
      BY <1>1, <1>2, <2>2
    <3>2. Due(j) /\ Chained(rows[j])
      BY <1>5, <2>2 DEF LedgerFits
    <3>3. ASSUME NEW k \in DOMAIN rows'[j]
          PROVE  /\ rows'[j][k].attempt = k - 1
                 /\ k < Len(rows'[j]) => rows'[j][k].status \in Retryable
      <4>1. CASE k <= Len(rows[j])
        <5>1. k \in DOMAIN rows[j] /\ rows'[j][k] = rows[j][k]
          BY <3>1, <3>3, <4>1
        <5> QED BY <5>1, <3>2 DEF Due, Chained
      <4>2. CASE k > Len(rows[j])
        <5>1. k = Len(rows[j]) + 1 /\ rows'[j][k] = new(j) /\ Len(rows'[j]) = k
          BY <3>1, <3>3, <4>2
        <5> QED BY <5>1, <1>3, <3>1, <3>2 DEF Due
      <4> QED BY <3>1, <3>3, <4>1, <4>2
    <3> QED BY <3>3 DEF Chained
  <2> QED BY <2>1, <2>2
<1>6. ASSUME NEW j \in Jobs, runner = "h1", NEW k \in DOMAIN rows'[j]
      PROVE  rows'[j][k].attempt = 0
  <2>1. rows[j] \in Seq(Entry) /\ session.attempt[j] = 0
        /\ \A i \in DOMAIN rows[j] : rows[j][i].attempt = 0
    BY <1>1, <1>6 DEF LedgerFits
  <2>2. CASE j \notin js
    BY <1>2, <1>6, <2>1, <2>2
  <2>3. CASE j \in js
    <3>1. rows'[j] = Append(rows[j], new(j))
      BY <1>2, <2>3
    <3>2. CASE k <= Len(rows[j])
      BY <1>6, <2>1, <3>1, <3>2
    <3>3. CASE k > Len(rows[j])
      <4>1. rows'[j][k] = new(j)
        BY <1>6, <2>1, <3>1, <3>3
      <4> QED BY <4>1, <1>3, <2>1
    <3> QED BY <1>6, <2>1, <3>1, <3>2, <3>3
  <2> QED BY <2>2, <2>3
<1>7. \A j \in Jobs \ js : rows'[j] = rows[j]
  BY <1>2
<1> QED BY <1>4, <1>5, <1>6, <1>7

(* What a group is assigned are jobs, and of that group alone.             *)
LEMMA AssignedApart ==
    ASSUME LedgerFits
    PROVE  /\ \A g \in DOMAIN Groups : Assigned(g) \in SUBSET Jobs
           /\ \A g, h \in DOMAIN Groups : g # h => Assigned(g) \cap Assigned(h) = {}
<1>1. \A g \in DOMAIN Groups : ToSet(Groups[g].jobs) \subseteq Jobs
  BY DEF Jobs
<1> QED BY <1>1, GroupsAreDisjoint DEF Assigned

(* An empty ledger satisfies it.                                           *)
LEMMA LedgerStarts == LedgerInit => LedgerFits
<1> SUFFICES ASSUME LedgerInit PROVE LedgerFits
  OBVIOUS
<1>1. /\ runner \in {"pilot", "h1"} /\ rows = [j \in Jobs |-> <<>>]
      /\ session = [todo |-> {}, jobs |-> {}, attempt |-> [j \in Jobs |-> 0], live |-> FALSE]
  BY GroupsAreDisjoint DEF LedgerInit, NoSession
<1>2. rows \in [Jobs -> Seq(Entry)] /\ session \in Sessions /\ session.live = FALSE
      /\ \A j \in Jobs : session.attempt[j] = 0 /\ DOMAIN rows[j] = {}
  BY <1>1 DEF Sessions
<1> QED BY <1>1, <1>2 DEF LedgerFits, Chained

(* A session that writes the jobs of some groups, and goes on without them.*)
LEMMA GroupsWritten ==
    ASSUME LedgerFits, session.live, NEW gs \in SUBSET session.todo,
           NEW js \in SUBSET Jobs, \A j \in js : \E g \in gs : j \in Assigned(g),
           NEW status \in Retryable \cup Terminal, Written(js, status),
           session' = [session EXCEPT !.todo = @ \ gs], runner' = runner
    PROVE  LedgerFits'
<1>1. session \in Sessions /\ session.todo \subseteq DOMAIN Groups
  BY DEF LedgerFits, Sessions
<1>2. runner = "pilot" => \A j \in js : Due(j)
  BY DEF LedgerFits
<1>3. /\ rows' \in [Jobs -> Seq(Entry)]
      /\ runner = "pilot" => \A j \in Jobs : Chained(rows'[j])
      /\ runner = "h1" => \A j \in Jobs : \A k \in DOMAIN rows'[j] : rows'[j][k].attempt = 0
      /\ \A j \in Jobs \ js : rows'[j] = rows[j]
  BY <1>2, WrittenRows
<1>4. /\ session' \in Sessions /\ session'.live = session.live
      /\ session'.todo = session.todo \ gs
      /\ session'.jobs = session.jobs /\ session'.attempt = session.attempt
  BY <1>1 DEF Sessions
<1>5. ASSUME runner = "pilot", NEW g \in session'.todo, NEW j \in Assigned(g)' PROVE Due(j)'
  <2>1. g \in session.todo /\ g \notin gs /\ j \in Assigned(g) /\ j \in Jobs
    BY <1>1, <1>4, <1>5, AssignedApart DEF Assigned
  <2>2. j \notin js
    BY <1>1, <2>1, AssignedApart
  <2>3. Due(j)
    BY <1>5, <2>1 DEF LedgerFits
  <2> QED BY <1>3, <1>4, <2>1, <2>2, <2>3 DEF Due
<1>6. runner = "h1" => \A j \in Jobs : session'.attempt[j] = 0
  BY <1>4 DEF LedgerFits
<1> QED BY <1>3, <1>4, <1>5, <1>6 DEF LedgerFits

(* A session that writes some rows and is over.                            *)
LEMMA SessionOver ==
    ASSUME LedgerFits, session.live,
           NEW js \in SUBSET Jobs, NEW status \in Retryable \cup Terminal, Written(js, status),
           runner = "pilot" => \A j \in js : \E g \in session.todo : j \in Assigned(g),
           session' = NoSession, runner' = runner
    PROVE  LedgerFits'
<1>1. runner = "pilot" => \A j \in js : Due(j)
  BY DEF LedgerFits
<1>2. /\ rows' \in [Jobs -> Seq(Entry)]
      /\ runner = "pilot" => \A j \in Jobs : Chained(rows'[j])
      /\ runner = "h1" => \A j \in Jobs : \A k \in DOMAIN rows'[j] : rows'[j][k].attempt = 0
  BY <1>1, WrittenRows
<1>3. /\ session' \in Sessions /\ session'.live = FALSE
      /\ \A j \in Jobs : session'.attempt[j] = 0
  BY DEF NoSession, Sessions
<1> QED BY <1>2, <1>3 DEF LedgerFits

(* A pilot session computes the attempts that are due.                     *)
LEMMA SessionStarts ==
    ASSUME LedgerFits, Start PROVE LedgerFits'
<1>1. UNCHANGED <<runner, rows>>
  BY DEF Start
<1>2. CASE StartPilot
  <2> DEFINE js == {j \in Jobs : Unresolved(rows[j])}
             gs == {g \in DOMAIN Groups : ToSet(Groups[g].jobs) \cap js # {}}
             next == [j \in Jobs |-> NextAttempt(rows[j])]
  <2>1. runner = "pilot" /\ session' = [live |-> TRUE, jobs |-> js, todo |-> gs, attempt |-> next]
    BY <1>2 DEF StartPilot
  <2>2. ASSUME NEW j \in Jobs
        PROVE  /\ NextAttempt(rows[j]) = Len(rows[j])
               /\ Unresolved(rows[j]) => \A k \in DOMAIN rows[j] : rows[j][k].status \in Retryable
    <3>1. rows[j] \in Seq(Entry) /\ Chained(rows[j])
      BY <2>1 DEF LedgerFits
    <3>2. CASE rows[j] = <<>>
      BY <3>2 DEF NextAttempt
    <3>3. CASE rows[j] # <<>>
      <4>1. Latest(rows[j]) = rows[j][Len(rows[j])] /\ Len(rows[j]) \in DOMAIN rows[j]
        BY <3>1, <3>3, LatestIsLast
      <4>2. Latest(rows[j]).attempt = Len(rows[j]) - 1
        BY <4>1, <3>1 DEF Chained
      <4>3. NextAttempt(rows[j]) = Len(rows[j])
        BY <3>1, <3>3, <4>2 DEF NextAttempt
      <4>4. ASSUME Unresolved(rows[j]), NEW k \in DOMAIN rows[j]
            PROVE  rows[j][k].status \in Retryable
        <5>1. rows[j][Len(rows[j])].status \in Retryable
          BY <3>3, <4>1, <4>4 DEF Unresolved
        <5>2. k < Len(rows[j]) \/ k = Len(rows[j])
          BY <3>1, <4>4
        <5> QED BY <3>1, <4>4, <5>1, <5>2 DEF Chained
      <4> QED BY <4>3, <4>4
    <3> QED BY <3>2, <3>3
  <2>3. next \in [Jobs -> Nat]
    BY <2>2 DEF LedgerFits
  <2> HIDE DEF next
  <2>4. /\ session' \in Sessions /\ session'.jobs = js /\ session'.attempt = next
        /\ session'.todo \subseteq DOMAIN Groups
    BY <2>1, <2>3 DEF Sessions
  <2>5. ASSUME NEW g \in session'.todo, NEW j \in Assigned(g)' PROVE Due(j)'
    <3>1. j \in js
      BY <2>4, <2>5 DEF Assigned
    <3>2. next[j] = Len(rows[j]) /\ \A k \in DOMAIN rows[j] : rows[j][k].status \in Retryable
      BY <3>1, <2>2 DEF next
    <3> QED BY <3>2, <2>4, <1>1 DEF Due
  <2> QED BY <1>1, <2>1, <2>4, <2>5 DEF LedgerFits
<1>3. CASE StartH1
  <2> DEFINE gs == {g \in DOMAIN Groups : H1Redo(g)}
  <2>1. /\ runner = "h1"
        /\ session' = [live |-> TRUE, jobs |-> Jobs, todo |-> gs, attempt |-> [j \in Jobs |-> 0]]
    BY <1>3 DEF StartH1
  <2>2. session' \in Sessions /\ \A j \in Jobs : session'.attempt[j] = 0
    BY <2>1 DEF Sessions
  <2> QED BY <1>1, <2>1, <2>2 DEF LedgerFits
<1> QED BY <1>2, <1>3 DEF Start

(* A kill leaves the first rows of the current group, or none.             *)
LEMMA KillFits ==
    ASSUME LedgerFits, Kill PROVE LedgerFits'
<1>1. /\ session.live /\ session.todo # {} /\ session' = NoSession /\ runner' = runner
      /\ \/ rows' = rows
         \/ \E k \in 0..Len(Groups[Current].jobs) :
              Written(FirstJobs(Current, k) \cap session.jobs, "completed")
  BY DEF Kill, Working
<1>2. CASE rows' = rows
  <2>1. session' \in Sessions /\ session'.live = FALSE /\ \A j \in Jobs : session'.attempt[j] = 0
    BY <1>1 DEF NoSession, Sessions
  <2> QED BY <1>1, <1>2, <2>1 DEF LedgerFits
<1>3. ASSUME NEW k \in 0..Len(Groups[Current].jobs),
             Written(FirstJobs(Current, k) \cap session.jobs, "completed")
      PROVE  LedgerFits'
  <2> DEFINE js == FirstJobs(Current, k) \cap session.jobs
  <2>1. Current \in session.todo /\ Current \in DOMAIN Groups
    BY <1>1, CurrentIsLeft DEF LedgerFits, Sessions
  <2>2. js \subseteq Assigned(Current)
    <3>1. Groups[Current].jobs \in Seq(ToSet(Groups[Current].jobs))
      BY <2>1, GroupsAreDisjoint
    <3>2. 1..k \subseteq DOMAIN Groups[Current].jobs
      BY <3>1, <1>3
    <3> QED BY <3>2 DEF FirstJobs, Assigned, ToSet
  <2>3. js \in SUBSET Jobs
    BY <2>1, <2>2, AssignedApart
  <2> HIDE DEF js
  <2>4. Written(js, "completed")
    BY <1>3 DEF js
  <2>5. "completed" \in Retryable \cup Terminal
    BY DEF Terminal
  <2>6. \A j \in js : \E g \in session.todo : j \in Assigned(g)
    BY <2>1, <2>2
  <2> QED BY <1>1, <2>3, <2>4, <2>5, <2>6, SessionOver
<1> QED BY <1>1, <1>2, <1>3

(* No session, attempt or kill breaks it.                                  *)
LEMMA LedgerStep ==
    ASSUME LedgerFits, [LedgerNext]_ledgerVars PROVE LedgerFits'
<1> USE DEF Retryable, Terminal, Failing
<1>0. CASE UNCHANGED ledgerVars
  BY <1>0 DEF ledgerVars, LedgerFits, Due, Assigned
<1>1. CASE Start
  BY <1>1, SessionStarts
<1>2. CASE GroupCompletes
  <2>1. /\ session.live /\ session.todo # {} /\ runner' = runner
        /\ Written(Assigned(Current), "completed")
        /\ session' = [session EXCEPT !.todo = @ \ {Current}]
    BY <1>2 DEF GroupCompletes, Working, AppendRows
  <2>2. Current \in session.todo /\ Current \in DOMAIN Groups
    BY <2>1, CurrentIsLeft DEF LedgerFits, Sessions
  <2>3. Assigned(Current) \in SUBSET Jobs
    BY <2>2, AssignedApart
  <2>4. \A j \in Assigned(Current) : \E g \in {Current} : j \in Assigned(g)
    OBVIOUS
  <2> DEFINE js == Assigned(Current)  gs == {Current}
  <2>5. gs \in SUBSET session.todo /\ js \in SUBSET Jobs /\ Written(js, "completed")
        /\ (\A j \in js : \E g \in gs : j \in Assigned(g))
        /\ session' = [session EXCEPT !.todo = @ \ gs]
    BY <2>1, <2>2, <2>3, <2>4
  <2> HIDE DEF js, gs
  <2> QED BY <2>1, <2>5, GroupsWritten
<1>3. CASE GroupFails
  <2>1. session.live /\ session.todo # {} /\ runner' = runner
    BY <1>3 DEF GroupFails, Working
  <2>2. Current \in session.todo /\ session.todo \subseteq DOMAIN Groups
    BY <2>1, CurrentIsLeft DEF LedgerFits, Sessions
  <2>3. ASSUME NEW status \in Failing, NEW gs \in SUBSET session.todo, PilotFails(status, gs)
        PROVE  LedgerFits'
    <3> DEFINE js == UNION {Assigned(g) : g \in gs}
    <3>1. Written(js, status) /\ session' = [session EXCEPT !.todo = @ \ gs]
      BY <2>3 DEF PilotFails, AppendRows
    <3>2. js \in SUBSET Jobs
      BY <2>2, AssignedApart
    <3>3. \A j \in js : \E g \in gs : j \in Assigned(g)
      OBVIOUS
    <3> HIDE DEF js
    <3> QED BY <2>1, <2>3, <3>1, <3>2, <3>3, GroupsWritten
  <2>4. ASSUME NEW status \in Failing, PilotFails(status, {Current}) PROVE LedgerFits'
    BY <2>2, <2>3, <2>4
  <2>5. ASSUME NEW status \in Failing,
               PilotFails(status, {g \in session.todo : Groups[g].case = Groups[Current].case})
        PROVE  LedgerFits'
    BY <2>3, <2>5
  <2>6. CASE H1Fails
    <3>1. /\ runner = "h1" /\ Written({Last(Groups[Current].jobs)}, "data_error")
          /\ session' = NoSession
      BY <2>6 DEF H1Fails, AppendRows
    <3>2. Last(Groups[Current].jobs) \in Jobs
      <4>1. Groups[Current].jobs \in Seq(ToSet(Groups[Current].jobs)) /\ Groups[Current].jobs # <<>>
        BY <2>2, GroupsAreDisjoint
      <4>2. Last(Groups[Current].jobs) \in ToSet(Groups[Current].jobs)
        BY <4>1 DEF Last
      <4> QED BY <2>2, <4>2 DEF Jobs
    <3> DEFINE js == {Last(Groups[Current].jobs)}
    <3>3. js \in SUBSET Jobs /\ Written(js, "data_error")
      BY <3>1, <3>2
    <3> HIDE DEF js
    <3> QED BY <2>1, <3>1, <3>3, SessionOver
  <2> QED BY <1>3, <2>4, <2>5, <2>6 DEF GroupFails
<1>4. CASE Kill
  BY <1>4, KillFits
<1>5. CASE SessionEnds
  <2>1. UNCHANGED <<runner, rows>> /\ session' = NoSession
    BY <1>5 DEF SessionEnds
  <2>2. session' \in Sessions /\ session'.live = FALSE /\ \A j \in Jobs : session'.attempt[j] = 0
    BY <2>1 DEF NoSession, Sessions
  <2> QED BY <2>1, <2>2 DEF LedgerFits
<1> QED BY <1>0, <1>1, <1>2, <1>3, <1>4, <1>5 DEF LedgerNext

(* It holds throughout the life of a ledger.                               *)
LEMMA LedgerInvariant == LedgerSpec => []LedgerFits
  BY LedgerStarts, LedgerStep, PTL DEF LedgerSpec

(* A file of an H1 runner in which the numbers of a job are unique has one *)
(* row of it, since every row has attempt 0.                               *)
LEMMA OneRowOfH1 ==
    ASSUME NEW rs \in Seq(Entry), rs # <<>>, NumbersUnique(rs),
           \A k \in DOMAIN rs : rs[k].attempt = 0
    PROVE  Len(rs) = 1 /\ Chained(rs)
<1>1. Numbers(rs) = {0}
  <2>1. 1 \in DOMAIN rs
    OBVIOUS
  <2> QED BY <2>1 DEF Numbers, ToSet
<1>2. Cardinality({0}) = 1
  BY FS_Singleton
<1>3. Len(rs) = 1
  BY <1>1, <1>2 DEF NumbersUnique
<1> QED BY <1>3 DEF Chained

(* The one completed row of a chain whose latest row is completed.         *)
LEMMA CompletedOnce ==
    ASSUME NEW rs \in Seq(Entry), rs # <<>>, Chained(rs), Latest(rs).status = "completed"
    PROVE  /\ Cardinality({k \in DOMAIN rs : rs[k].status = "completed"}) = 1
           /\ ~Unresolved(rs)
<1>1. Latest(rs) = rs[Len(rs)] /\ Len(rs) \in DOMAIN rs /\ DOMAIN rs = 1..Len(rs)
      /\ Len(rs) \in Nat
  BY LatestIsLast
<1>2. {k \in DOMAIN rs : rs[k].status = "completed"} = {Len(rs)}
  BY <1>1 DEF Chained, Retryable
<1>3. Cardinality({Len(rs)}) = 1
  BY FS_Singleton
<1> QED BY <1>2, <1>3 DEF Unresolved, Retryable

(* For any jobs, groups, failures and kills: the attempts of a job on file *)
(* follow each other, and the result set the merge calls complete has one  *)
(* completed row for each job and leaves the pilot nothing to run.         *)
THEOREM LedgerIsSound == LedgerSpec => []LedgerHolds
<1>1. LedgerFits => AttemptsChain
  BY DEF LedgerFits, AttemptsChain, Chained
<1>2. ASSUME LedgerFits, ResultSetComplete, NEW j \in Jobs
      PROVE  /\ Cardinality({k \in DOMAIN rows[j] : rows[j][k].status = "completed"}) = 1
             /\ ~Unresolved(rows[j])
  <2>1. /\ rows[j] \in Seq(Entry) /\ rows[j] # <<>> /\ NumbersUnique(rows[j])
        /\ Latest(rows[j]).status = "completed"
    BY <1>2 DEF LedgerFits, ResultSetComplete, Missing, FailedJobs, Conflicts, SelectedJobs
  <2>2. Chained(rows[j])
    BY <1>2, <2>1, OneRowOfH1 DEF LedgerFits
  <2> QED BY <2>1, <2>2, CompletedOnce
<1>3. LedgerFits => LedgerHolds
  BY <1>1, <1>2 DEF LedgerHolds, CompleteMeansOnce
<1> QED BY <1>3, LedgerInvariant, PTL

-----------------------------------------------------------------------------
(***************************************************************************)
(* The load window.  A step is begun before source-ready only and ends in  *)
(* time or within the bounded overrun; the window closes while requests    *)
(* wait only when none of them has such a step.                            *)
(***************************************************************************)
LEMMA MinOf ==
    ASSUME NEW T, T \subseteq Nat, T # {}
    PROVE  Min(T) \in T /\ \A n \in T : Min(T) <= n
<1>1. \E n \in T : \A m \in T : n <= m
  BY LeastNumber
<1> QED BY <1>1, Zenon DEF Min

(* A difference bounded from below by zero is a time.                      *)
LEMMA MaxWithZero == ASSUME NEW d \in Int PROVE Max({0, d}) \in Nat
<1>1. \E n \in {0, d} : \A m \in {0, d} : n >= m
  OBVIOUS
<1>2. Max({0, d}) \in {0, d} /\ \A m \in {0, d} : Max({0, d}) >= m
  BY <1>1, Zenon DEF Max
<1> QED BY <1>2

(* The invariant of the window.                                            *)
WindowFits ==
    /\ ScenarioLegal(scenario) /\ QueueLegal(queue) /\ WinnersLegal(winners)
    /\ ready \in Nat /\ now \in Nat /\ service \in [DOMAIN queue -> Nat]
    /\ stage \in {"locked", "nothing_loaded", "dense", "queue", "resumed"}
    /\ stage \in {"locked", "nothing_loaded"} => now = 0
    /\ BlockingBounded /\ IdleJustified

(* Before the loads start nothing has been delayed.                        *)
LEMMA WindowStarts == WindowInit => WindowFits
<1> SUFFICES ASSUME NEW s \in Scenarios, NEW q \in ReadyQueues, NEW W \in Winners,
                    NEW p \in SchedulerPolicies, Waiting(p, s, q, W)
             PROVE  WindowFits
  BY DEF WindowInit
<1>1. ScenarioLegal(s) /\ QueueLegal(q) /\ WinnersLegal(W)
  BY WindowInputs
<1> QED BY <1>1 DEF Waiting, WindowFits, BlockingBounded, IdleJustified

(* The work, arrival and service of a waiting request are times.           *)
LEMMA QueueIsTyped ==
    ASSUME WindowFits
    PROVE  \A i \in DOMAIN queue : queue[i].work \in Nat /\ queue[i].ready_at \in Nat
                                   /\ service[i] \in Nat
<1> DEFINE R == [ready_at : Nat, layer : Nat, work : Nat]
<1>1. queue \in Seq(R)
  BY DEF WindowFits, QueueLegal
<1>2. \A x \in R : x.work \in Nat /\ x.ready_at \in Nat
  OBVIOUS
<1> HIDE DEF R
<1>3. \A i \in DOMAIN queue : queue[i] \in R
  BY <1>1
<1>4. service \in [DOMAIN queue -> Nat]
  BY DEF WindowFits
<1> QED BY <1>2, <1>3, <1>4

(* A step that ends earlier is allowed as well.                            *)
LEMMA EarlierAllowed ==
    ASSUME WindowFits, NEW m \in Nat, NEW n \in Nat, m <= n, StepAllowed(n)
    PROVE  StepAllowed(m)
  BY DEF StepAllowed, WindowFits, ScenarioLegal

(* What a batch runs for is no more than any of its members has left.      *)
LEMMA StepOfBatch ==
    ASSUME WindowFits, NEW lead \in ReadyNow
    PROVE  /\ StepOf(Batch(lead)) \in Nat /\ StepOf(Batch(lead)) <= scenario.micro
           /\ StepOf(Batch(lead)) <= queue[lead].work - service[lead]
           /\ scenario.micro > 0 => StepOf(Batch(lead)) > 0
           /\ queue[lead].work - service[lead] \in Nat /\ scenario.micro \in Nat
<1> DEFINE left(i) == queue[i].work - service[i]
           T == {scenario.micro} \cup {left(i) : i \in Batch(lead)}
<1>1. \A i \in Batch(lead) : left(i) \in Nat /\ left(i) > 0
  BY QueueIsTyped DEF Batch, ReadyNow, Unfinished
<1>2. scenario.micro \in Nat
  BY DEF WindowFits, ScenarioLegal
<1>3. T \subseteq Nat /\ T # {}
  BY <1>1, <1>2
<1>4. Min(T) \in T /\ \A n \in T : Min(T) <= n
  BY <1>3, MinOf
<1>5. lead \in Batch(lead)
  BY DEF Batch
<1>6. left(lead) \in T /\ scenario.micro \in T
  BY <1>5
<1>7. scenario.micro > 0 => Min(T) > 0
  BY <1>1, <1>4
<1>8. StepOf(Batch(lead)) = Min(T)
  BY DEF StepOf
<1> QED BY <1>1, <1>2, <1>3, <1>4, <1>5, <1>6, <1>7, <1>8

(* The window opens at the earliest load, which is not before now.         *)
LEMMA FirstReadyIsNat ==
    ASSUME NEW W, W # {}, \A w \in W : w.load \in Nat, NEW s, ScenarioLegal(s)
    PROVE  FirstReady(W, s) \in Nat
<1> DEFINE T == {w.load + s.interference : w \in W}
<1>1. s.interference \in Nat
  BY DEF ScenarioLegal
<1>2. T \subseteq Nat /\ T # {}
  BY <1>1
<1> HIDE DEF T
<1>3. Min(T) \in Nat
  BY <1>2, MinOf
<1> DEFINE d == Min(T) - s.interference
<1>4. d \in Int
  BY <1>1, <1>3
<1> HIDE DEF d
<1>5. Max({0, d}) \in Nat
  BY <1>4, MaxWithZero
<1>6. FirstReady(W, s) = Max({0, d}) + s.interference
  BY DEF FirstReady, T, d
<1> QED BY <1>1, <1>5, <1>6

(* Starting the prefetch takes no time.                                    *)
LEMMA StartLoadsFits == ASSUME WindowFits, StartLoads PROVE WindowFits'
<1>1. /\ stage = "locked" /\ now = 0 /\ loading' \subseteq winners
      /\ UNCHANGED <<policy, scenario, queue, winners, now, service>>
  BY DEF StartLoads, LockedPrefetch, WindowFits
<1>2. stage' \in {"nothing_loaded", "dense"} /\ ready' \in Nat
  <2>1. CASE loading' = {}
    BY <2>1 DEF StartLoads, WindowFits
  <2>2. CASE loading' # {}
    <3>1. FirstReady(loading', scenario) \in Nat
      BY <1>1, <2>2, FirstReadyIsNat DEF WindowFits, WinnersLegal
    <3> QED BY <2>2, <3>1 DEF StartLoads
  <2> QED BY <2>1, <2>2
<1> QED BY <1>1, <1>2 DEF WindowFits, BlockingBounded, IdleJustified

(* The dense layers of A itself take time A needs anyway.                  *)
LEMMA DenseLayersFit == ASSUME WindowFits, DenseLayer \/ DenseOver PROVE WindowFits'
<1>1. CASE DenseLayer
  <2>1. /\ stage = "dense" /\ StepAllowed(now + scenario.dense) /\ now' = now + scenario.dense
        /\ stage' \in {"queue", "dense"}
        /\ UNCHANGED <<policy, scenario, queue, winners, ready, service>>
    BY <1>1 DEF DenseLayer, DenseFits
  <2>2. now' \in Nat
    BY <2>1 DEF WindowFits, ScenarioLegal
  <2>3. BlockingBounded'
    BY <2>1, <2>2 DEF StepAllowed, BlockingBounded, WindowFits
  <2> QED BY <2>1, <2>2, <2>3 DEF WindowFits, IdleJustified
<1>2. CASE DenseOver
  BY <1>2 DEF DenseOver, WindowFits, BlockingBounded, IdleJustified
<1> QED BY <1>1, <1>2

(* A batch is run only where its step is allowed.                          *)
LEMMA RunBatchFits == ASSUME WindowFits, RunBatch PROVE WindowFits'
<1>1. PICK lead \in Leads :
        /\ now' = now + StepOf(Batch(lead))
        /\ service' = [i \in DOMAIN queue |->
                         service[i] + (IF i \in Batch(lead) THEN StepOf(Batch(lead)) ELSE 0)]
  BY DEF RunBatch
<1>2. /\ stage = "queue"
      /\ UNCHANGED <<stage, policy, scenario, queue, winners, ready>>
  BY DEF RunBatch
<1>3. lead \in ReadyNow /\ StepAllowed(now + StepOf(Batch(lead)))
  BY DEF Leads
<1>4. StepOf(Batch(lead)) \in Nat
  BY <1>3, StepOfBatch
<1>5. now' \in Nat
  BY <1>1, <1>4 DEF WindowFits
<1>6. service' \in [DOMAIN queue -> Nat]
  BY <1>1, <1>4 DEF WindowFits
<1>7. BlockingBounded'
  BY <1>1, <1>2, <1>3, <1>5 DEF StepAllowed, BlockingBounded, WindowFits
<1> QED BY <1>2, <1>5, <1>6, <1>7 DEF WindowFits, IdleJustified

(* Idling to the next arrival ends no later than the load.                 *)
LEMMA AwaitFits == ASSUME WindowFits, AwaitArrival PROVE WindowFits'
<1>1. /\ stage = "queue" /\ now' = IdleUntil(Arrivals) /\ Unfinished # {}
      /\ UNCHANGED <<stage, policy, scenario, queue, winners, ready, service>>
  BY DEF AwaitArrival
<1>2. Arrivals \subseteq Nat /\ Arrivals # {}
  BY <1>1, QueueIsTyped DEF Arrivals, Unfinished
<1>3. Min(Arrivals) \in Nat
  BY <1>2, MinOf
<1>4. {Min(Arrivals), ready} \subseteq Nat /\ {Min(Arrivals), ready} # {}
  BY <1>3 DEF WindowFits
<1>5. now' \in Nat /\ now' <= ready
  BY <1>1, <1>4, MinOf DEF IdleUntil
<1> QED BY <1>1, <1>5 DEF WindowFits, BlockingBounded, IdleJustified

(* A's window closes early only when nobody's step would fit.              *)
LEMMA ResumeFits == ASSUME WindowFits, Resume PROVE WindowFits'
<1>1. /\ stage = "queue" /\ stage' = "resumed"
      /\ UNCHANGED <<policy, scenario, queue, winners, ready, now, service>>
      /\ \/ ~ServesOthers \/ now >= ready \/ Unfinished = {}
         \/ Leads = {}
  BY DEF Resume
<1>2. ASSUME ServesOthers, now < ready, scenario.micro > 0, NEW i \in ReadyNow
      PROVE  ~StepAllowed(now + Min({scenario.micro, queue[i].work - service[i]}))
  <2>1. Leads = {}
    BY <1>1, <1>2 DEF ReadyNow, WindowFits
  <2> DEFINE least == Min({scenario.micro, queue[i].work - service[i]})
             took == StepOf(Batch(i))
  <2>2. /\ took \in Nat /\ took <= scenario.micro /\ took <= queue[i].work - service[i]
        /\ took > 0 /\ queue[i].work - service[i] \in Nat /\ scenario.micro \in Nat
    BY <1>2, StepOfBatch
  <2>3. least \in {scenario.micro, queue[i].work - service[i]}
    BY <2>2, MinOf
  <2>4. ~StepAllowed(now + took)
    BY <2>1, <2>2 DEF Leads
  <2> HIDE DEF took, least
  <2>5. now + took \in Nat /\ now + least \in Nat /\ now + took <= now + least
    BY <2>2, <2>3 DEF WindowFits
  <2>6. ~StepAllowed(now + least)
    <3> DEFINE a == now + took  b == now + least
    <3>1. a \in Nat /\ b \in Nat /\ a <= b /\ ~StepAllowed(a)
      BY <2>4, <2>5
    <3> HIDE DEF a, b
    <3>2. ~StepAllowed(b)
      BY <3>1, EarlierAllowed
    <3> QED BY <3>2 DEF b
  <2> QED BY <2>6 DEF least
<1>3. /\ ReadyNow' = ReadyNow /\ ServesOthers' = ServesOthers
      /\ \A n : StepAllowed(n)' = StepAllowed(n)
  BY <1>1 DEF ReadyNow, Unfinished, ServesOthers, Hybrid, StepAllowed
<1>4. IdleJustified'
  BY <1>1, <1>2, <1>3 DEF IdleJustified
<1> QED BY <1>1, <1>4 DEF WindowFits, BlockingBounded

(* No step of the scheduler breaks the invariant.                          *)
LEMMA WindowKept ==
    ASSUME WindowFits, [WindowStep]_windowVars PROVE WindowFits'
<1>1. CASE UNCHANGED windowVars
  BY <1>1 DEF windowVars, WindowFits, BlockingBounded, IdleJustified, ReadyNow, Unfinished,
              ServesOthers, Hybrid, StepAllowed
<1> QED BY <1>1, StartLoadsFits, DenseLayersFit, RunBatchFits, AwaitFits, ResumeFits DEF WindowStep

(* For every scheduler policy, every set of winners and every queue: A is  *)
(* held up only within the bounded overrun, and the time before its Source *)
(* is ready is left idle only where no waiting request's step fits in it.  *)
THEOREM WindowsWellSpent == WindowSpec => []WindowWellSpent
<1>1. WindowFits => WindowWellSpent
  BY DEF WindowFits, WindowWellSpent
<1> QED BY <1>1, WindowStarts, WindowKept, PTL DEF WindowSpec

-----------------------------------------------------------------------------
(***************************************************************************)
(* The rows of a layer.  TopPositions picks as many rows as it is asked    *)
(* for, since drift and position together rank them; so a support of a     *)
(* schema-7 policy only shrinks, and never below its floor.                *)
(***************************************************************************)
LEMMA RowsAreFinite ==
    ASSUME MasksInputs, NEW S \in SUBSET AllRows
    PROVE  IsFiniteSet(S) /\ Cardinality(S) \in Nat
  BY FS_Subset, FS_CardinalityType DEF MasksInputs

(* One row of every set is ranked below all the others.                    *)
LEMMA LowestRow ==
    ASSUME MasksInputs, NEW d \in DriftScores, NEW S \in SUBSET AllRows, S # {}
    PROVE  \E m \in S : \A q \in S \ {m} : RanksAbove(d, q, m)
<1> DEFINE F == {s \in SUBSET S : s = {} \/ \E m \in s : \A q \in s \ {m} : RanksAbove(d, q, m)}
<1>0. \A p \in S : p \in Nat /\ d[p] \in Int
  BY DEF MasksInputs
<1>1. {} \in F
  OBVIOUS
<1>2. ASSUME NEW s \in SUBSET S, s # {}, \A x \in s : s \ {x} \in F PROVE s \in F
  <2>1. PICK x \in s : TRUE
    BY <1>2
  <2> DEFINE r == s \ {x}
  <2>2. CASE r = {}
    BY <2>1, <2>2
  <2>3. CASE r # {}
    <3>1. PICK m \in r : \A q \in r \ {m} : RanksAbove(d, q, m)
      BY <1>2, <2>1, <2>3
    <3>2. CASE RanksAbove(d, x, m)
      BY <2>1, <3>1, <3>2
    <3>3. CASE ~RanksAbove(d, x, m)
      <4>1. RanksAbove(d, m, x)
        BY <1>0, <2>1, <3>1, <3>3 DEF RanksAbove
      <4>2. ASSUME NEW q \in r \ {m} PROVE RanksAbove(d, q, x)
        <5>1. RanksAbove(d, q, m)
          BY <3>1
        <5> QED BY <5>1, <4>1, <1>0, <2>1 DEF RanksAbove
      <4>3. \A q \in s \ {x} : RanksAbove(d, q, x)
        BY <4>1, <4>2
      <4> QED BY <2>1, <4>3
    <3> QED BY <3>2, <3>3
  <2> QED BY <2>2, <2>3
<1>3. IsFiniteSet(S)
  BY RowsAreFinite
<1> HIDE DEF F
<1>4. S \in F
  BY <1>1, <1>2, <1>3, SubsetInduction
<1> QED BY <1>4 DEF F

(* TopPositions has the size it is asked for.                              *)
LEMMA TopCount ==
    ASSUME MasksInputs, NEW d \in DriftScores, NEW S \in SUBSET AllRows
    PROVE  \A n \in 0..Cardinality(S) : Cardinality(TopPositions(S, d, n)) = n
<1> DEFINE F == {s \in SUBSET S : \A n \in 0..Cardinality(s) :
                                     Cardinality(TopPositions(s, d, n)) = n}
           above(s, p) == {q \in s \ {p} : RanksAbove(d, q, p)}
<1>0. \A p \in S : p \in Nat /\ d[p] \in Int
  BY DEF MasksInputs
<1>1. {} \in F
  <2>1. \A n : TopPositions({}, d, n) = {}
    BY DEF TopPositions
  <2> QED BY <2>1, FS_EmptySet
<1>2. ASSUME NEW s \in SUBSET S, s # {}, \A x \in s : s \ {x} \in F PROVE s \in F
  <2>1. PICK m \in s : \A q \in s \ {m} : RanksAbove(d, q, m)
    BY <1>2, LowestRow
  <2> DEFINE r == s \ {m}
  <2>2. IsFiniteSet(s) /\ Cardinality(s) \in Nat /\ Cardinality(r) = Cardinality(s) - 1
        /\ Cardinality(r) \in Nat /\ IsFiniteSet(r)
    BY RowsAreFinite, FS_RemoveElement
  <2>3. above(s, m) = r
    BY <2>1
  <2>4. ASSUME NEW p \in r PROVE above(s, p) = above(r, p)
    <3>1. ~RanksAbove(d, m, p)
      BY <1>0, <2>1 DEF RanksAbove
    <3> QED BY <3>1
  <2>5. \A n \in Nat, p \in s : p \in TopPositions(s, d, n) <=> Cardinality(above(s, p)) < n
    BY DEF TopPositions
  <2>9. \A n \in Nat, p \in r : p \in TopPositions(r, d, n) <=> Cardinality(above(r, p)) < n
    BY DEF TopPositions
  <2>10. \A n : TopPositions(s, d, n) \subseteq s /\ TopPositions(r, d, n) \subseteq r
    BY DEF TopPositions
  <2>8. \A p \in s : Cardinality(above(s, p)) \in Nat
    BY RowsAreFinite
  <2> HIDE DEF above
  <2>6. ASSUME NEW n \in 0..Cardinality(s), n # Cardinality(s)
        PROVE  Cardinality(TopPositions(s, d, n)) = n
    <3> n \in Nat /\ ~(Cardinality(r) < n)
      BY <2>2, <2>6
    <3>1. m \notin TopPositions(s, d, n)
      <4>1. Cardinality(above(s, m)) = Cardinality(r)
        BY <2>3
      <4> HIDE DEF r
      <4>2. m \in TopPositions(s, d, n) <=> Cardinality(above(s, m)) < n
        BY <2>5
      <4> QED BY <4>1, <4>2, Zenon
    <3>2. TopPositions(s, d, n) = TopPositions(r, d, n)
      <4>1. ASSUME NEW p \in r PROVE p \in TopPositions(s, d, n) <=> p \in TopPositions(r, d, n)
        <5>1. Cardinality(above(s, p)) = Cardinality(above(r, p)) /\ p \in s
          BY <2>4
        <5>2. /\ p \in TopPositions(s, d, n) <=> Cardinality(above(s, p)) < n
              /\ p \in TopPositions(r, d, n) <=> Cardinality(above(r, p)) < n
          BY <2>5, <2>9, <5>1
        <5> QED BY <5>1, <5>2, Zenon
      <4> QED BY <2>10, <3>1, <4>1
    <3>3. n \in 0..Cardinality(r) /\ r \in F
      BY <1>2, <2>2, <2>6
    <3> QED BY <3>2, <3>3
  <2>7. TopPositions(s, d, Cardinality(s)) = s
    <3> SUFFICES ASSUME NEW p \in s PROVE Cardinality(above(s, p)) < Cardinality(s)
      BY <2>2, <2>5, <2>10
    <3>1. above(s, p) \in SUBSET (s \ {p})
      BY DEF above
    <3>2. IsFiniteSet(s \ {p}) /\ Cardinality(s \ {p}) = Cardinality(s) - 1
      BY <2>2, FS_RemoveElement
    <3>3. Cardinality(above(s, p)) <= Cardinality(s \ {p}) /\ Cardinality(above(s, p)) \in Nat
      BY <3>1, <3>2, FS_Subset, FS_CardinalityType
    <3> QED BY <2>2, <3>2, <3>3
  <2> QED BY <2>2, <2>6, <2>7
<1>3. IsFiniteSet(S)
  BY RowsAreFinite
<1> HIDE DEF F
<1>4. S \in F
  BY <1>1, <1>2, <1>3, SubsetInduction
<1> QED BY <1>4 DEF F

-----------------------------------------------------------------------------
(* The smaller and the larger of two counts.                               *)
LEMMA OfTwoCounts ==
    ASSUME NEW a \in Nat, NEW b \in Nat
    PROVE  /\ Min({a, b}) \in {a, b} /\ Min({a, b}) <= a
           /\ Max({a, b}) \in {a, b} /\ Max({a, b}) >= a
<1>1. {a, b} \subseteq Nat /\ {a, b} # {} /\ a \in {a, b}
  OBVIOUS
<1>2. Min({a, b}) \in {a, b} /\ Min({a, b}) <= a
  BY <1>1, MinOf
<1>3. \E n \in {a, b} : \A m \in {a, b} : n >= m
  OBVIOUS
<1>4. Max({a, b}) \in {a, b} /\ \A m \in {a, b} : Max({a, b}) >= m
  BY <1>3, Zenon DEF Max
<1> QED BY <1>2, <1>4

(* A count rounded up from a ratio is no less than the ratio of the rows.  *)
LEMMA CeilCovers ==
    ASSUME NEW ratio \in Nat, NEW n \in Nat
    PROVE  CeilOf(ratio, n) \in Nat /\ 100 * CeilOf(ratio, n) >= ratio * n
<1> DEFINE p == ratio * n
<1>1. p \in Nat
  OBVIOUS
<1> HIDE DEF p
<1>2. (p + 99) \div 100 \in Nat /\ 100 * ((p + 99) \div 100) >= p
  BY <1>1
<1> QED BY <1>2 DEF CeilOf, p

(* A greater ratio of the same rows is a greater product.                  *)
LEMMA RatioGrows ==
    ASSUME NEW low \in Nat, NEW high \in Nat, low <= high, NEW n \in Nat
    PROVE  low * n <= high * n
<1> DEFINE d == high - low
<1>1. d \in Nat /\ high = low + d
  OBVIOUS
<1> HIDE DEF d
<1>2. high * n = low * n + d * n /\ d * n \in Nat /\ low * n \in Nat
  BY <1>1
<1> QED BY <1>2

(* What a layer executes, given the segments reused there and their rows.  *)
RowsFor(reused, kept) ==
  DenseRows \cup UNION {IF g \in reused THEN kept[g] ELSE RowsOf[g] : g \in Reusable}

FloorKept(g, kept) == 100 * Cardinality(kept) >= Floor * Cardinality(RowsOf[g])

(* The candidates of the last layer are the rows it executed, and those of *)
(* a schema-7 policy hold the floor that lets the next layer shrink them.  *)
MasksFits ==
  /\ maskPolicy \in MaskPolicies /\ layer \in Nat
  /\ Accepted \subseteq Reusable /\ boundaryOf \in [Accepted -> 1..LastLayer]
  /\ executed = RowsFor(ActiveIn(layer), support)
  /\ \A g \in Reusable : support[g] \subseteq RowsOf[g]
  /\ \A g \in Reusable \ ActiveIn(layer) : support[g] = {}
  /\ maskPolicy # "staggered" => \A g \in ActiveIn(layer) : FloorKept(g, support[g])

(* The rows of a segment are rows of the prompt.                           *)
LEMMA SegmentRows ==
    ASSUME MasksInputs, NEW g \in Reusable
    PROVE  RowsOf[g] \in SUBSET AllRows /\ Cardinality(RowsOf[g]) \in Nat
<1>1. RowsOf[g] \in SUBSET AllRows
  BY DEF AllRows
<1> QED BY <1>1, RowsAreFinite

(* Every segment is executed in full before the first layer.               *)
LEMMA MasksStart == ASSUME MasksInputs, MasksInit PROVE MasksFits
<1>1. /\ maskPolicy \in MaskPolicies /\ layer = 0
      /\ support = [g \in Reusable |-> {}] /\ executed = AllRows \ PrefixRows
  BY DEF MasksInit
<1>2. Accepted \subseteq Reusable /\ boundaryOf \in [Accepted -> 1..LastLayer]
  <2>1. PICK accepted \in SUBSET Reusable :
          ratioOf \in [accepted -> RatioChoices] /\ boundaryOf \in [accepted -> 1..LastLayer]
    BY DEF MasksInit
  <2>2. DOMAIN ratioOf = accepted
    BY <2>1
  <2> QED BY <2>1, <2>2 DEF Accepted
<1>3. ActiveIn(layer) = {}
  BY <1>1, <1>2 DEF ActiveIn, MasksInputs
<1>4. RowsFor({}, support) = DenseRows \cup UNION {RowsOf[g] : g \in Reusable}
  BY DEF RowsFor
<1>5. executed = RowsFor(ActiveIn(layer), support)
  BY <1>1, <1>3, <1>4 DEF AllRows, MasksInputs
<1> QED BY <1>1, <1>2, <1>3, <1>5 DEF MasksFits

(* The first candidates of a segment are some of its rows, no fewer than   *)
(* its floor.                                                              *)
LEMMA InitialFits ==
    ASSUME MasksInputs, NEW g \in Reusable, NEW d \in DriftScores
    PROVE  Initial(g, d) \subseteq RowsOf[g] /\ FloorKept(g, Initial(g, d))
<1> DEFINE n == Cardinality(RowsOf[g])
           c == CeilOf(InitialCap, n)
           k == Min({n, c})
<1>1. RowsOf[g] \in SUBSET AllRows /\ n \in Nat
  BY SegmentRows
<1>2. Floor \in Nat /\ InitialCap \in Nat /\ Floor <= InitialCap /\ Floor <= 100
  BY DEF MasksInputs
<1>3. Initial(g, d) = TopPositions(RowsOf[g], d, k)
  BY DEF Initial
<1> HIDE DEF n
<1>4. c \in Nat /\ 100 * c >= InitialCap * n
  BY <1>1, <1>2, CeilCovers
<1>5. Floor * n <= InitialCap * n /\ Floor * n <= 100 * n
  BY <1>1, <1>2, RatioGrows
<1> DEFINE f == Floor * n
           i == InitialCap * n
<1>6. f \in Nat /\ i \in Nat /\ f <= i /\ f <= 100 * n /\ 100 * c >= i
  BY <1>1, <1>2, <1>4, <1>5
<1> HIDE DEF f, i, c
<1>7. k \in {n, c} /\ k <= n
  BY <1>1, <1>4, OfTwoCounts
<1> HIDE DEF k
<1>8. k \in 0..n /\ 100 * k >= f
  BY <1>1, <1>4, <1>6, <1>7
<1>9. Cardinality(Initial(g, d)) = k
  BY <1>1, <1>3, <1>8, TopCount DEF n
<1> QED BY <1>3, <1>8, <1>9 DEF FloorKept, TopPositions, n, f

(* Later candidates are some of those before, no fewer than the floor.     *)
LEMMA ShrinkFits ==
    ASSUME MasksInputs, NEW g \in Reusable, NEW d \in DriftScores, NEW r \in RatioChoices,
           support[g] \subseteq RowsOf[g], FloorKept(g, support[g])
    PROVE  Shrink(g, d, r) \subseteq support[g] /\ FloorKept(g, Shrink(g, d, r))
<1> DEFINE n == Cardinality(RowsOf[g])
           s == Cardinality(support[g])
           a == CeilOf(Floor, n)
           b == CeilOf(r, n)
           m == Max({a, b})
           k == Min({s, m})
<1>1. RowsOf[g] \in SUBSET AllRows /\ n \in Nat
  BY SegmentRows
<1>2. support[g] \in SUBSET AllRows /\ s \in Nat
  BY <1>1, RowsAreFinite
<1>3. Floor \in Nat /\ r \in Nat
  BY DEF MasksInputs
<1>4. Shrink(g, d, r) = TopPositions(support[g], d, k)
  BY DEF Shrink
<1>5. 100 * s >= Floor * n
  BY DEF FloorKept
<1> HIDE DEF n, s
<1>6. a \in Nat /\ b \in Nat /\ 100 * a >= Floor * n
  BY <1>1, <1>3, CeilCovers
<1> HIDE DEF a, b
<1>7. m \in {a, b} /\ m >= a
  BY <1>6, OfTwoCounts
<1> HIDE DEF m
<1>8. k \in {s, m} /\ k <= s
  BY <1>2, <1>6, <1>7, OfTwoCounts
<1> HIDE DEF k
<1> DEFINE f == Floor * n
<1>9. f \in Nat /\ 100 * s >= f /\ 100 * a >= f
  BY <1>1, <1>3, <1>5, <1>6
<1> HIDE DEF f
<1>10. k \in 0..s /\ 100 * k >= f
  BY <1>2, <1>6, <1>7, <1>8, <1>9
<1>11. Cardinality(Shrink(g, d, r)) = k
  BY <1>2, <1>4, <1>10, TopCount DEF s
<1> QED BY <1>4, <1>10, <1>11 DEF FloorKept, TopPositions, n, f

(* Moving on by a layer turns segments from dense to reused, and under a   *)
(* schema-7 policy only takes rows away.                                   *)
LEMMA LayerFits ==
    ASSUME MasksInputs, MasksFits, ExecuteLayer
    PROVE  MasksFits' /\ RowsStay
<1>1. /\ layer' = layer + 1 /\ drift' \in DriftScores
      /\ UNCHANGED <<maskPolicy, ratioOf, boundaryOf>>
  BY DEF ExecuteLayer, asked
<1> DEFINE A == ActiveIn(layer')
<1>2. PICK r \in [A -> RatioChoices] :
        /\ support' = [g \in Reusable |-> IF g \in A THEN SupportIn(g, layer', drift', r[g]) ELSE {}]
        /\ executed' = RowsFor(A, support')
  BY DEF ExecuteLayer, RowsFor
<1>3. ActiveIn(layer)' = A /\ Accepted' = Accepted /\ A \subseteq Reusable
      /\ ActiveIn(layer) \subseteq A
  BY <1>1 DEF ActiveIn, Accepted, MasksFits
<1> DEFINE staggered == maskPolicy = "staggered"
<1>4. ASSUME NEW g \in A
      PROVE  /\ support'[g] \subseteq RowsOf[g]
             /\ maskPolicy # "staggered" => FloorKept(g, support'[g])
             /\ maskPolicy # "staggered" /\ g \in ActiveIn(layer) => support'[g] \subseteq support[g]
  <2>1. /\ support'[g] = SupportIn(g, layer', drift', r[g]) /\ r[g] \in RatioChoices
        /\ g \in Reusable
    BY <1>2, <1>3, <1>4
  <2>2. CASE maskPolicy = "staggered"
    BY <2>1, <2>2 DEF SupportIn, TopPositions
  <2>3. CASE maskPolicy # "staggered" /\ ~Shrinks(g, layer')
    <3>1. support'[g] = Initial(g, drift')
      BY <2>1, <2>3 DEF SupportIn
    <3>2. g \notin ActiveIn(layer)
      BY <1>1, <2>3 DEF Shrinks, ActiveIn, MasksFits
    <3> QED BY <1>1, <2>1, <3>1, <3>2, InitialFits
  <2>4. CASE maskPolicy # "staggered" /\ Shrinks(g, layer')
    <3>1. support'[g] = Shrink(g, drift', r[g])
      BY <2>1, <2>4 DEF SupportIn
    <3>2. g \in ActiveIn(layer)
      BY <1>1, <2>4 DEF Shrinks, ActiveIn, MasksFits
    <3>3. support[g] \subseteq RowsOf[g] /\ FloorKept(g, support[g])
      BY <2>1, <2>4, <3>2 DEF MasksFits
    <3> QED BY <1>1, <2>1, <3>1, <3>3, ShrinkFits
  <2> QED BY <2>2, <2>3, <2>4
<1>5. \A g \in Reusable \ A : support'[g] = {}
  BY <1>2
<1> HIDE DEF A
<1>6. MasksFits'
  <2>1. \A g \in Reusable : support'[g] \subseteq RowsOf[g]
    BY <1>4, <1>5
  <2>2. maskPolicy' # "staggered" => \A g \in A : FloorKept(g, support'[g])
    BY <1>1, <1>4
  <2>3. /\ maskPolicy' \in MaskPolicies /\ layer' \in Nat
        /\ (Accepted \subseteq Reusable)' /\ (boundaryOf \in [Accepted -> 1..LastLayer])'
    BY <1>1, <1>3 DEF MasksFits
  <2>4. RowsFor(ActiveIn(layer), support)' = RowsFor(A, support')
    BY <1>3 DEF RowsFor
  <2>5. \A g : FloorKept(g, support[g])' <=> FloorKept(g, support'[g])
    BY DEF FloorKept
  <2> QED BY <1>2, <1>3, <1>5, <2>1, <2>2, <2>3, <2>4, <2>5 DEF MasksFits
<1>7. maskPolicy # "staggered" => executed' \subseteq executed
  <2> SUFFICES ASSUME maskPolicy # "staggered", NEW p \in executed' PROVE p \in executed
    OBVIOUS
  <2>1. executed = RowsFor(ActiveIn(layer), support)
    BY DEF MasksFits
  <2>2. CASE p \in DenseRows
    BY <2>1, <2>2 DEF RowsFor
  <2>3. CASE \E g \in Reusable : p \in (IF g \in A THEN support'[g] ELSE RowsOf[g])
    <3>1. PICK g \in Reusable : p \in (IF g \in A THEN support'[g] ELSE RowsOf[g])
      BY <2>3
    <3>2. p \in (IF g \in ActiveIn(layer) THEN support[g] ELSE RowsOf[g])
      BY <1>3, <1>4, <3>1
    <3> QED BY <2>1, <3>2 DEF RowsFor
  <2> QED BY <1>2, <2>2, <2>3 DEF RowsFor
<1>8. DenseRows \subseteq executed' /\ executed' \cap PrefixRows = {}
  <2>1. \A g \in Reusable : (IF g \in A THEN support'[g] ELSE RowsOf[g]) \subseteq RowsOf[g]
    BY <1>4
  <2> QED BY <1>2, <2>1 DEF RowsFor, MasksInputs
<1>9. \A g \in Accepted : maskPolicy # "staggered" /\ support'[g] # {} =>
        FloorKept(g, support'[g]) /\ support'[g] \subseteq RowsOf[g]
  BY <1>4, <1>5 DEF MasksFits
<1> QED BY <1>6, <1>7, <1>8, <1>9 DEF RowsStay, FloorKept

(* Under the schema-7 policies no row comes back, each reused segment      *)
(* keeps its floor, and no policy leaves out a row that nothing reuses:    *)
(* for every prompt, every drift and every profile of layer costs.         *)
THEOREM NoRowReturns == MasksSpec => RowsNeverReturn
<1> USE MasksAreLegal
<1>0. MasksInit => MasksFits
  BY MasksStart
<1>1. ASSUME MasksFits, [MasksNext]_maskVars
      PROVE  MasksFits' /\ [RowsStay]_maskVars
  <2>1. CASE UNCHANGED maskVars
    BY <1>1, <2>1 DEF maskVars, MasksFits, Accepted, ActiveIn
  <2>2. CASE ExecuteLayer
    BY <1>1, <2>2, LayerFits
  <2>3. CASE Refuse
    <3>1. UNCHANGED <<maskPolicy, ratioOf, boundaryOf, layer, support, executed>>
      BY <2>3 DEF Refuse, asked
    <3>2. MasksFits'
      BY <1>1, <3>1 DEF MasksFits, Accepted, ActiveIn
    <3>3. \A g \in Reusable : support[g] \subseteq RowsOf[g]
      BY <1>1 DEF MasksFits
    <3>4. DenseRows \subseteq executed /\ executed \cap PrefixRows = {}
      BY <1>1, <3>3 DEF MasksFits, RowsFor, MasksInputs
    <3>5. \A g \in Accepted : maskPolicy # "staggered" /\ support[g] # {} =>
            FloorKept(g, support[g]) /\ support[g] \subseteq RowsOf[g]
      BY <1>1, <3>3 DEF MasksFits
    <3> QED BY <3>1, <3>2, <3>4, <3>5 DEF RowsStay, FloorKept
  <2> QED BY <1>1, <2>1, <2>2, <2>3 DEF MasksNext
<1> QED BY <1>0, <1>1, PTL DEF MasksSpec, RowsNeverReturn

-----------------------------------------------------------------------------

(***************************************************************************)
(* The closed loop.  Floors are only ever added, each the layer after the  *)
(* checkpoint at which its last decision was made: so what was announced   *)
(* stays true, and what was not is due now.                                *)
(***************************************************************************)
LEMMA MaxOf ==
    ASSUME NEW n \in Nat, NEW T, T \subseteq 0..n, T # {}
    PROVE  Max(T) \in T /\ \A m \in T : m <= Max(T)
<1>1. IsFiniteSet(T)
  <2>1. IsFiniteSet(0..n)
    BY FS_Interval
  <2> QED BY <2>1, FS_Subset
<1>2. \E d \in T : \A m \in T : d >= m
  <2>1. T \subseteq Nat
    OBVIOUS
  <2>2. \E d \in T : \A m \in T : m <= d
    BY <1>1, <2>1, LargestNumber
  <2> QED BY <2>1, <2>2
<1>3. Max(T) \in T /\ \A m \in T : Max(T) >= m
  BY <1>2, Zenon DEF Max
<1> QED BY <1>1, <1>3

(* The decisions of a request's segments, none made after layer n.         *)
Decisions(S) == [S -> [source : Nat, probe : Nat]]
MadeBy(D, n) == \A g \in DOMAIN D : D[g].probe <= n
Behind(D, g) == {D[i].probe : i \in {j \in DOMAIN D : j >= g}}
Settled(D) == {h \in SelectedIn(D) : \A i \in DOMAIN D : i >= h => i \in Decided(D)}

(* What the floors are, policy by policy.                                  *)
LEMMA FloorsAre ==
    ASSUME NEW D, NEW e, NEW F, F = EligibleFloors(D, e)
    PROVE  /\ e = "legacy_common_after_selection" => DOMAIN F = {}
           /\ e = "immediate_staggered_closed_loop" =>
                DOMAIN F = SelectedIn(D) /\ \A g \in DOMAIN F : F[g] = D[g].probe + 1
           /\ e \notin {"legacy_common_after_selection", "immediate_staggered_closed_loop"} =>
                DOMAIN F = Settled(D) /\ \A g \in DOMAIN F : F[g] = 1 + Max(Behind(D, g))
BY DEF EligibleFloors, Settled, Behind

(* A floor is one of a selected segment.                                   *)
LEMMA FloorsSelected ==
    ASSUME NEW D, NEW e PROVE DOMAIN EligibleFloors(D, e) \subseteq SelectedIn(D)
<1> DEFINE F == EligibleFloors(D, e)
<1>1. F = EligibleFloors(D, e)
  OBVIOUS
<1>2. Settled(D) \subseteq SelectedIn(D)
  BY DEF Settled
<1> HIDE DEF F
<1>3. DOMAIN F = {} \/ DOMAIN F = SelectedIn(D) \/ DOMAIN F = Settled(D)
  BY <1>1, FloorsAre
<1>4. DOMAIN F \subseteq SelectedIn(D)
  BY <1>2, <1>3
<1> QED BY <1>4 DEF F

(* A floor lies after the segment's own decision, under policy A after     *)
(* those of the segments behind it, and no later than the next layer.      *)
LEMMA FloorsAfter ==
    ASSUME NEW S, S \subseteq Nat, NEW D \in Decisions(S), NEW n \in Nat, MadeBy(D, n),
           NEW e, NEW F, F = EligibleFloors(D, e), NEW g \in DOMAIN F
    PROVE  /\ g \in SelectedIn(D) /\ F[g] \in Nat
           /\ D[g].probe < F[g] /\ F[g] <= n + 1
           /\ e # "immediate_staggered_closed_loop" =>
                \A h \in S : h >= g => D[h].probe < F[g]
<1>0. DOMAIN D = S /\ \A h \in S : D[h].probe \in 0..n
  BY DEF Decisions, MadeBy
<1>1. CASE e = "immediate_staggered_closed_loop"
  <2>1. g \in SelectedIn(D) /\ F[g] = D[g].probe + 1
    BY <1>1, FloorsAre
  <2>2. g \in S
    BY <1>0, <2>1 DEF SelectedIn
  <2>3. D[g].probe \in 0..n
    BY <1>0, <2>2
  <2> QED BY <1>1, <2>1, <2>3
<1>2. CASE e # "immediate_staggered_closed_loop"
  <2>1. g \in Settled(D) /\ F[g] = 1 + Max(Behind(D, g))
    BY <1>2, FloorsAre
  <2>2. g \in SelectedIn(D) /\ g \in S
    BY <1>0, <2>1 DEF Settled, SelectedIn
  <2>3. Behind(D, g) \subseteq 0..n /\ \A h \in S : h >= g => D[h].probe \in Behind(D, g)
    BY <1>0 DEF Behind
  <2>4. D[g].probe \in Behind(D, g)
    <3>1. g \in Nat
      BY <2>2
    <3>2. g >= g
      BY <3>1
    <3> QED BY <2>2, <2>3, <3>2
  <2>5. Max(Behind(D, g)) \in 0..n /\ \A m \in Behind(D, g) : m <= Max(Behind(D, g))
    BY <2>3, <2>4, MaxOf
  <2>6. \A m \in Behind(D, g) : m < F[g]
    BY <2>1, <2>3, <2>5
  <2> QED BY <2>1, <2>2, <2>3, <2>4, <2>5, <2>6
<1> QED BY <1>1, <1>2

(* Decisions made at the layer n turn D into E.                            *)
Extends(D, E, n) ==
    \A g \in DOMAIN D :
        /\ D[g] # Undecided => E[g] = D[g]
        /\ D[g] = Undecided /\ E[g] # Undecided => E[g].probe = n

Grows(F, G, n) ==
    /\ \A g \in DOMAIN F : g \in DOMAIN G /\ G[g] = F[g]
    /\ \A g \in DOMAIN G \ DOMAIN F : G[g] = n + 1

(* They leave the floors there were as they are; a new one is the layer    *)
(* after n.                                                                *)
LEMMA FloorsGrow ==
    ASSUME NEW S, S \subseteq Nat, NEW D \in Decisions(S), NEW E \in Decisions(S),
           NEW n \in Nat, MadeBy(D, n), Extends(D, E, n), NEW e
    PROVE  MadeBy(E, n) /\ Grows(EligibleFloors(D, e), EligibleFloors(E, e), n)
<1> DEFINE F == EligibleFloors(D, e)
           G == EligibleFloors(E, e)
<1> SUFFICES MadeBy(E, n) /\ Grows(F, G, n)
  OBVIOUS
<1> USE DEF Grows
<1>a. F = EligibleFloors(D, e) /\ G = EligibleFloors(E, e)
  OBVIOUS
<1> HIDE DEF F, G
<1>0. DOMAIN D = S /\ DOMAIN E = S /\ \A h \in S : D[h].probe \in 0..n
  BY DEF Decisions, MadeBy
<1>1. \A h \in S : /\ D[h] # Undecided => E[h] = D[h]
                   /\ D[h] = Undecided /\ E[h] # Undecided => E[h].probe = n
  BY <1>0 DEF Extends
<1>2. Undecided.probe = 0 /\ Undecided.source = NoSource
  BY DEF Undecided
<1>3. \A h \in S : E[h].probe \in 0..n
  BY <1>0, <1>1, <1>2
<1>4. MadeBy(E, n)
  <2>1. \A h \in S : E[h].probe <= n
    BY <1>3
  <2> QED BY <1>0, <2>1 DEF MadeBy
<1>5. \A h \in SelectedIn(D) : h \in S /\ h \in SelectedIn(E) /\ E[h] = D[h]
  BY <1>0, <1>1, <1>2 DEF SelectedIn
<1>6. \A h \in SelectedIn(E) \ SelectedIn(D) : h \in S /\ E[h].probe = n
  BY <1>0, <1>1, <1>2 DEF SelectedIn
<1>7. CASE e = "legacy_common_after_selection"
  BY <1>a, <1>4, <1>7, FloorsAre
<1>8. CASE e = "immediate_staggered_closed_loop"
  <2>1. DOMAIN F = SelectedIn(D) /\ \A g \in DOMAIN F : F[g] = D[g].probe + 1
    BY <1>a, <1>8, FloorsAre
  <2>2. DOMAIN G = SelectedIn(E) /\ \A g \in DOMAIN G : G[g] = E[g].probe + 1
    BY <1>a, <1>8, FloorsAre
  <2> QED BY <1>4, <1>5, <1>6, <2>1, <2>2
<1>9. CASE e \notin {"legacy_common_after_selection", "immediate_staggered_closed_loop"}
  <2>1. DOMAIN F = Settled(D) /\ \A g \in DOMAIN F : F[g] = 1 + Max(Behind(D, g))
    BY <1>a, <1>9, FloorsAre
  <2>2. DOMAIN G = Settled(E) /\ \A g \in DOMAIN G : G[g] = 1 + Max(Behind(E, g))
    BY <1>a, <1>9, FloorsAre
  <2>3. \A g \in Settled(D) : \A i \in S : i >= g => D[i] # Undecided /\ E[i] = D[i]
    BY <1>0, <1>1 DEF Settled, Decided
  <2>4. \A g \in Settled(D) : g \in Settled(E)
    BY <1>0, <1>5, <2>3 DEF Settled, Decided
  <2>5. \A g \in Settled(D) : Behind(E, g) = Behind(D, g)
    BY <1>0, <2>3 DEF Behind
  <2>6. ASSUME NEW g \in Settled(E), g \notin Settled(D)
        PROVE  Max(Behind(E, g)) = n
    <3>1. g \in S /\ g \in SelectedIn(E) /\ \A i \in S : i >= g => E[i] # Undecided
      BY <1>0, <2>6 DEF Settled, SelectedIn, Decided
    <3>2. PICK i \in S : i >= g /\ E[i].probe = n
      <4>1. CASE g \in SelectedIn(D)
        <5>1. PICK i \in S : i >= g /\ D[i] = Undecided
          BY <1>0, <2>6, <4>1 DEF Settled, Decided
        <5> QED BY <1>1, <3>1, <5>1
      <4>2. CASE g \notin SelectedIn(D)
        BY <1>6, <3>1, <4>2
      <4> QED BY <4>1, <4>2
    <3>3. Behind(E, g) \subseteq 0..n /\ n \in Behind(E, g)
      BY <1>0, <1>3, <3>2 DEF Behind
    <3>4. Max(Behind(E, g)) \in 0..n /\ n <= Max(Behind(E, g))
      BY <3>3, MaxOf
    <3> QED BY <3>4
  <2> QED BY <1>4, <2>1, <2>2, <2>4, <2>5, <2>6
<1> QED BY <1>7, <1>8, <1>9

(* Once every segment is decided, every selected one has its floor.        *)
LEMMA AllFloors ==
    ASSUME NEW D, Decided(D) = DOMAIN D, NEW e, e # "legacy_common_after_selection",
           NEW F, F = EligibleFloors(D, e)
    PROVE  DOMAIN F = SelectedIn(D)
<1>1. Settled(D) = SelectedIn(D)
  BY DEF Settled
<1> QED BY <1>1, FloorsAre

(***************************************************************************)
(* The comparison budget of a request.                                     *)
(***************************************************************************)
Candidates == [segment : Nat, source : Nat, score : Int, saved : Int, upper : Nat,
               eligible : BOOLEAN]

Uppers(C) == [c \in C |-> c.upper]

(* Their comparison time is a sum in the sense of the lemmas.              *)
LEMMA UpperIs == ASSUME NEW C PROVE UpperSum(C) = SumOver(Uppers(C), C)
BY DEF UpperSum, SumFunction, SumFunctionOnSet, FoldFunctionOnSet, SumOver, MapThenSumSet, Uppers

(* The comparison times of a set of candidates add up.                     *)
LEMMA UpperParts ==
    ASSUME NEW C, IsFiniteSet(C), C \subseteq Candidates, NEW B, B \subseteq C
    PROVE  /\ UpperSum(B) \in Nat /\ UpperSum(C) \in Nat /\ UpperSum(B) <= UpperSum(C)
           /\ \A c \in C : UpperSum(C) = c.upper + UpperSum(C \ {c})
<1> DEFINE f == Uppers(C)
<1>1. \A c \in C : f[c] = c.upper /\ f[c] \in Nat /\ f[c] \in Int
  BY DEF Uppers, Candidates
<1>2. ASSUME NEW A, A \subseteq C PROVE UpperSum(A) = SumOver(f, A)
  <2>1. IsFiniteSet(A)
    BY <1>2, FS_Subset
  <2>2. \A c \in A : Uppers(A)[c] = f[c]
    BY <1>2 DEF Uppers
  <2> HIDE DEF f
  <2>3. SumOver(Uppers(A), A) = SumOver(f, A)
    BY <2>1, <2>2, SumSame
  <2> QED BY <2>3, UpperIs
<1> HIDE DEF f
<1>3. /\ SumOver(f, C) = SumOver(f, C \ B) + SumOver(f, B)
      /\ SumOver(f, C \ B) \in Nat /\ SumOver(f, B) \in Nat
  BY <1>1, SumApart
<1>4. ASSUME NEW c \in C PROVE UpperSum(C) = c.upper + UpperSum(C \ {c})
  <2>1. SumOver(f, C) = f[c] + SumOver(f, C \ {c})
    BY <1>1, SumTake
  <2>2. UpperSum(C) = SumOver(f, C) /\ UpperSum(C \ {c}) = SumOver(f, C \ {c})
    BY <1>2
  <2> QED BY <1>1, <2>1, <2>2
<1>5. UpperSum(C) = SumOver(f, C) /\ UpperSum(B) = SumOver(f, B)
  BY <1>2
<1> QED BY <1>3, <1>4, <1>5

(* No candidate takes no time.                                             *)
LEMMA NoUpper == UpperSum({}) = 0
BY UpperIs, SumEmpty

(* Two fractions compared by multiplying out: between two of them in this  *)
(* order no third one fits without standing after the first or before the  *)
(* last.                                                                   *)
LEMMA CrossOrder ==
    ASSUME NEW a \in Nat, NEW b \in Nat, NEW c \in Nat,
           NEW u \in Nat \ {0}, NEW v \in Nat \ {0}, NEW w \in Nat \ {0},
           a * w > c * u
    PROVE  a * v > b * u \/ b * w > c * v
<1> SUFFICES ASSUME a * v <= b * u, b * w <= c * v PROVE FALSE
  <2>1. a * v \in Int /\ b * u \in Int /\ b * w \in Int /\ c * v \in Int
    OBVIOUS
  <2> QED BY <2>1
<1>1. (a * v) * w <= (b * u) * w
  OBVIOUS
<1>2. (b * w) * u <= (c * v) * u
  OBVIOUS
<1>3. (a * w) * v <= (c * u) * v
  BY <1>1, <1>2
<1>4. (a * w) * v >= (c * u + 1) * v
  OBVIOUS
<1> QED BY <1>3, <1>4

(* The density of one candidate.                                           *)
LEMMA Density ==
    ASSUME NEW x \in Candidates
    PROVE  Benefit(x) \in Nat /\ Span(x) \in Nat \ {0} /\ Infinite(x) \in BOOLEAN
BY DEF Benefit, Span, Infinite, Candidates

(* Denser compares two candidates by a weak order.                         *)
LEMMA DenserOrder ==
    ASSUME NEW x \in Candidates, NEW y \in Candidates, NEW z \in Candidates
    PROVE  /\ ~(Denser(x, y) /\ Denser(y, x))
           /\ Denser(x, z) => Denser(x, y) \/ Denser(y, z)
<1>0. /\ Benefit(x) \in Nat /\ Benefit(y) \in Nat /\ Benefit(z) \in Nat
      /\ Span(x) \in Nat \ {0} /\ Span(y) \in Nat \ {0} /\ Span(z) \in Nat \ {0}
  BY Density
<1>1. ~(Denser(x, y) /\ Denser(y, x))
  <2> DEFINE p == Benefit(x) * Span(y)
             q == Benefit(y) * Span(x)
  <2>1. p \in Int /\ q \in Int
    BY <1>0
  <2>2. Denser(x, y) => ~Infinite(y) /\ (Infinite(x) \/ p > q)
    BY DEF Denser
  <2>3. Denser(y, x) => ~Infinite(x) /\ (Infinite(y) \/ q > p)
    BY DEF Denser
  <2> HIDE DEF p, q
  <2> QED BY <2>1, <2>2, <2>3
<1>2. ASSUME Denser(x, z) PROVE Denser(x, y) \/ Denser(y, z)
  <2>1. ~Infinite(z) /\ (Infinite(x) \/ Benefit(x) * Span(z) > Benefit(z) * Span(x))
    BY <1>2 DEF Denser
  <2>2. CASE Infinite(y)
    BY <2>1, <2>2 DEF Denser
  <2>3. CASE ~Infinite(y) /\ Infinite(x)
    BY <2>1, <2>3 DEF Denser
  <2>4. CASE ~Infinite(y) /\ ~Infinite(x)
    <3>1. \/ Benefit(x) * Span(y) > Benefit(y) * Span(x)
          \/ Benefit(y) * Span(z) > Benefit(z) * Span(y)
      BY <1>0, <2>1, <2>4, CrossOrder
    <3> QED BY <2>1, <2>4, <3>1 DEF Denser
  <2> QED BY <2>2, <2>3, <2>4
<1> QED BY <1>1, <1>2

(* The candidates of a request: one of each Source for each segment.       *)
Apart(C) ==
    \A c, d \in C : c.segment = d.segment /\ c.source = d.source => c = d

(* So both passes order them strictly.                                     *)
LEMMA TriedOrder ==
    ASSUME NEW C, C \subseteq Candidates, Apart(C), NEW first
    PROVE  /\ \A x \in C : ~TriedBefore(first, x, x)
           /\ \A x, y \in C : x # y => TriedBefore(first, x, y) \/ TriedBefore(first, y, x)
           /\ \A x, y, z \in C :
                TriedBefore(first, x, y) /\ TriedBefore(first, y, z) => TriedBefore(first, x, z)
<1>0. \A x \in C : x.segment \in Nat /\ x.source \in Nat /\ x.score \in Int
  BY DEF Candidates
<1>1. \A x, y \in C : ~(Denser(x, y) /\ Denser(y, x))
  BY DenserOrder
<1>2. \A x, y, z \in C : Denser(x, z) => Denser(x, y) \/ Denser(y, z)
  BY DenserOrder
<1>3. \A x \in C : ~TriedBefore(first, x, x)
  BY <1>0, <1>1 DEF TriedBefore, ByBenefit, EarlierId
<1>4. ASSUME NEW x \in C, NEW y \in C, x # y
      PROVE  TriedBefore(first, x, y) \/ TriedBefore(first, y, x)
  <2>1. x.segment # y.segment \/ x.source # y.source
    BY <1>4 DEF Apart
  <2>2. EarlierId(x, y) \/ EarlierId(y, x)
    BY <1>0, <2>1 DEF EarlierId
  <2> QED BY <1>0, <1>1, <2>2 DEF TriedBefore, ByBenefit
<1>5. ASSUME NEW x \in C, NEW y \in C, NEW z \in C, ByBenefit(x, y), ByBenefit(y, z)
      PROVE  ByBenefit(x, z)
  <2>1. EarlierId(x, y) /\ EarlierId(y, z) => EarlierId(x, z)
    BY <1>0 DEF EarlierId
  <2>2. x.score \in Int /\ y.score \in Int /\ z.score \in Int
    BY <1>0
  <2>3. /\ ~(Denser(x, y) /\ Denser(y, x)) /\ ~(Denser(y, z) /\ Denser(z, y))
        /\ ~(Denser(x, z) /\ Denser(z, x))
    BY <1>1
  <2>4. /\ Denser(x, y) => Denser(x, z) \/ Denser(z, y)
        /\ Denser(y, z) => Denser(y, x) \/ Denser(x, z)
        /\ Denser(z, x) => Denser(z, y) \/ Denser(y, x)
    BY <1>2
  <2> QED BY <1>5, <2>1, <2>2, <2>3, <2>4 DEF ByBenefit
<1>6. ASSUME NEW x \in C, NEW y \in C, NEW z \in C,
             TriedBefore(first, x, y), TriedBefore(first, y, z)
      PROVE  TriedBefore(first, x, z)
  BY <1>5, <1>6 DEF TriedBefore
<1> QED BY <1>3, <1>4, <1>6

(* The last candidate of a pass.                                           *)
LEMMA LastTried ==
    ASSUME NEW C, IsFiniteSet(C), C \subseteq Candidates, Apart(C), C # {}, NEW first
    PROVE  \E x \in C : \A y \in C \ {x} : TriedBefore(first, y, x)
<1> DEFINE HasLast(s) == \E x \in s : \A y \in s \ {x} : TriedBefore(first, y, x)
           F == {s \in SUBSET C : s = {} \/ HasLast(s)}
<1>1. {} \in F
  OBVIOUS
<1>2. ASSUME NEW s \in SUBSET C, s # {}, \A x \in s : s \ {x} \in F PROVE s \in F
  <2>1. PICK x \in s : TRUE
    BY <1>2
  <2>2. CASE s \ {x} = {}
    <3>1. \A y \in s \ {x} : TriedBefore(first, y, x)
      BY <2>2
    <3> QED BY <2>1, <3>1
  <2>3. CASE s \ {x} # {}
    <3>1. PICK w \in s \ {x} : \A y \in (s \ {x}) \ {w} : TriedBefore(first, y, w)
      BY <1>2, <2>1, <2>3
    <3>2. CASE TriedBefore(first, x, w)
      BY <2>1, <3>1, <3>2
    <3>3. CASE ~TriedBefore(first, x, w)
      <4>1. TriedBefore(first, w, x)
        BY <2>1, <3>1, <3>3, TriedOrder
      <4>2. \A y \in s \ {x} : TriedBefore(first, y, x)
        BY <2>1, <3>1, <4>1, TriedOrder
      <4> QED BY <2>1, <4>2
    <3> QED BY <3>2, <3>3
  <2> QED BY <2>2, <2>3
<1> HIDE DEF F
<1>3. C \in F
  BY <1>1, <1>2, SubsetInduction
<1> QED BY <1>3 DEF F

(* What was taken when a candidate is tried.                               *)
Earlier(first, A, c) == {d \in A : TriedBefore(first, d, c)}

(* The greedy pass comes to an end: what it takes exists.                  *)
LEMMA PassEnds ==
    ASSUME NEW C, IsFiniteSet(C), C \subseteq Candidates, Apart(C), NEW first, NEW available
    PROVE  \E A \in SUBSET C : GreedilyTaken(C, first, available, A)
<1> DEFINE F == {s \in SUBSET C : \E A \in SUBSET s : GreedilyTaken(s, first, available, A)}
<1>1. {} \in F
  BY DEF GreedilyTaken
<1>2. ASSUME NEW s \in SUBSET C, s # {}, \A x \in s : s \ {x} \in F PROVE s \in F
  <2>0. IsFiniteSet(s) /\ s \subseteq Candidates /\ Apart(s)
    BY <1>2, FS_Subset DEF Apart
  <2>1. PICK x \in s : \A y \in s \ {x} : TriedBefore(first, y, x)
    BY <1>2, <2>0, LastTried
  <2> DEFINE r == s \ {x}
             fits(A, c) == TakeIfFits(UpperSum(Earlier(first, A, c)), c, available)
  <2>2. PICK A \in SUBSET r : \A c \in r : c \in A <=> fits(A, c)
    BY <1>2, <2>1 DEF GreedilyTaken, Earlier
  <2>3. \A c \in r : ~TriedBefore(first, x, c)
    BY <2>0, <2>1, TriedOrder
  <2>4. ~TriedBefore(first, x, x)
    BY <2>0, <2>1, TriedOrder
  <2>5. \A c \in s : Earlier(first, A \cup {x}, c) = Earlier(first, A, c)
    BY <2>1, <2>3, <2>4 DEF Earlier
  <2>6. \A c \in s : fits(A \cup {x}, c) <=> fits(A, c)
    BY <2>5
  <2>7. \A B : B \in SUBSET s /\ (\A c \in s : c \in B <=> fits(B, c)) => s \in F
    BY DEF GreedilyTaken, Earlier
  <2> HIDE DEF fits, F
  <2>8. CASE fits(A, x)
    <3>1. \A c \in s : c \in A \cup {x} <=> fits(A \cup {x}, c)
      BY <2>1, <2>2, <2>6, <2>8
    <3>2. A \cup {x} \in SUBSET s
      BY <2>1, <2>2
    <3> QED BY <2>7, <3>1, <3>2
  <2>9. CASE ~fits(A, x)
    <3>1. \A c \in s : c \in A <=> fits(A, c)
      BY <2>1, <2>2, <2>9
    <3>2. A \in SUBSET s
      BY <2>2
    <3> QED BY <2>7, <3>1, <3>2
  <2> QED BY <2>8, <2>9
<1>3. \A s \in SUBSET C : s \in F
  <2> HIDE DEF F
  <2> QED BY <1>1, <1>2, SubsetInduction
<1> QED BY <1>3

(* What it takes fits the budget; nothing it leaves would fit beside it.   *)
LEMMA PassFits ==
    ASSUME NEW C, IsFiniteSet(C), C \subseteq Candidates, Apart(C), NEW first,
           NEW available \in Nat, NEW A, A = Greedy(C, first, available)
    PROVE  /\ A \subseteq C /\ UpperSum(A) <= available
           /\ \A c \in C \ A : UpperSum(A) + c.upper > available
<1>1. A \in SUBSET C /\ GreedilyTaken(C, first, available, A)
  <2>1. \E B \in SUBSET C : GreedilyTaken(C, first, available, B)
    BY PassEnds
  <2> QED BY <2>1, Zenon DEF Greedy
<1>2. \A c \in C : c \in A <=> UpperSum(Earlier(first, A, c)) + c.upper <= available
  BY <1>1 DEF GreedilyTaken, TakeIfFits, Earlier
<1>3. IsFiniteSet(A) /\ A \subseteq Candidates /\ Apart(A)
  BY <1>1, FS_Subset DEF Apart
<1>4. UpperSum(A) <= available
  <2>1. CASE A = {}
    BY <2>1, NoUpper
  <2>2. CASE A # {}
    <3>1. PICK x \in A : \A y \in A \ {x} : TriedBefore(first, y, x)
      BY <1>3, <2>2, LastTried
    <3>2. ~TriedBefore(first, x, x)
      BY <1>3, TriedOrder
    <3>3. Earlier(first, A, x) = A \ {x}
      BY <3>1, <3>2 DEF Earlier
    <3>4. UpperSum(A) = x.upper + UpperSum(A \ {x})
      BY <1>3, UpperParts
    <3>5. UpperSum(A \ {x}) + x.upper <= available
      BY <1>1, <1>2, <3>3
    <3>6. UpperSum(A \ {x}) \in Nat /\ x.upper \in Nat
      <4>1. A \ {x} \subseteq A
        OBVIOUS
      <4>2. UpperSum(A \ {x}) \in Nat
        BY <1>3, <4>1, UpperParts
      <4> QED BY <1>3, <4>2 DEF Candidates
    <3> QED BY <3>4, <3>5, <3>6
  <2> QED BY <2>1, <2>2
<1>5. ASSUME NEW c \in C \ A PROVE UpperSum(A) + c.upper > available
  <2>1. ~(UpperSum(Earlier(first, A, c)) + c.upper <= available)
    BY <1>2
  <2>2. Earlier(first, A, c) \subseteq A
    BY DEF Earlier
  <2>3. /\ UpperSum(Earlier(first, A, c)) \in Nat /\ UpperSum(A) \in Nat
        /\ UpperSum(Earlier(first, A, c)) <= UpperSum(A)
    BY <1>3, <2>2, UpperParts
  <2>4. c.upper \in Nat
    BY DEF Candidates
  <2> QED BY <2>1, <2>3, <2>4
<1> QED BY <1>1, <1>4, <1>5

(* Both ways of allocating do.                                             *)
LEMMA AllocationFits ==
    ASSUME NEW C, IsFiniteSet(C), C \subseteq Candidates, Apart(C),
           NEW available \in Nat, NEW A, A = Allocate(C, available)
    PROVE  /\ A \subseteq C /\ UpperSum(A) <= available
           /\ \A c \in C \ A : c.eligible => UpperSum(A) + c.upper > available
<1> DEFINE E == {c \in C : c.eligible}
<1>1. E \subseteq C /\ \A c \in C \ E : ~c.eligible
  OBVIOUS
<1>2. A = IF UpperSum(E) <= available THEN E ELSE Greedy(E, MetadataBest(E), available)
  BY DEF Allocate
<1> HIDE DEF E
<1>3. IsFiniteSet(E) /\ E \subseteq Candidates /\ Apart(E)
  BY <1>1, FS_Subset DEF Apart
<1>4. CASE UpperSum(E) <= available
  BY <1>1, <1>2, <1>4
<1>5. CASE ~(UpperSum(E) <= available)
  <2>1. A = Greedy(E, MetadataBest(E), available)
    BY <1>2, <1>5
  <2>2. /\ A \subseteq E /\ UpperSum(A) <= available
        /\ \A c \in E \ A : UpperSum(A) + c.upper > available
    BY <1>3, <2>1, PassFits
  <2> QED BY <1>1, <2>2
<1> QED BY <1>4, <1>5

(***************************************************************************)
(* The invariant of the loop, part by part.                                *)
(***************************************************************************)
LoopSelected ==
    /\ request \in Requests /\ step \in DOMAIN Checkpoints
    /\ decision \in Decisions(request.segments) /\ MadeBy(decision, Layer)
    /\ compared \in [request.segments -> SUBSET Nat]
    /\ \A g \in request.segments : decision[g].source \in compared[g] \cup {NoSource}

FloorsNow == EligibleFloors(decision, request.execution)

(* What was announced is a floor, and a floor not announced is due now.    *)
LoopAnnounced ==
    /\ emitted \in [request.segments -> Nat]
    /\ \A g \in request.segments :
         emitted[g] # 0 => g \in DOMAIN FloorsNow /\ emitted[g] = FloorsNow[g]
    /\ \A g \in DOMAIN FloorsNow :
         emitted[g] = 0 => phase \in {"arrived", "probing", "error"} /\ FloorsNow[g] = Layer + 1

LoopArrived ==
    phase = "arrived" =>
        /\ IsFiniteSet(cands) /\ cands \subseteq Candidates /\ Apart(cands)
        /\ \A c \in cands : c.segment \in request.segments
        /\ step = 1 /\ decision = [g \in request.segments |-> Undecided]
        /\ emitted = [g \in request.segments |-> 0]

LoopDecided ==
    phase \in {"selected", "loaded", "planned", "executed"} =>
        Decided(decision) = request.segments

(* A measured plan reuses its segments from one layer on, where all of     *)
(* them are loaded.                                                        *)
StartsAt(p, b) ==
    DOMAIN p.at # {} /\ \A g \in DOMAIN p.at : p.at[g] = b /\ ReadyAt(fb[g], b)

LoopMeasured ==
    /\ \A p \in feasible : /\ p.total \in Nat /\ DOMAIN p.at \subseteq Selected
                           /\ \E b \in 1..(boundary - 1) : StartsAt(p, b)
    /\ \A p, q \in feasible : (\E b \in Nat : StartsAt(p, b) /\ StartsAt(q, b)) => p = q

LoopLoaded ==
    /\ phase \in {"arrived", "probing", "selected"} => feasible = {}
    /\ phase = "loaded" =>
         /\ request.controller # "legacy"
         /\ fb \in [Selected -> {f \in Feedback : LegalFeedback(f)}]
         /\ active \subseteq Selected /\ boundary \in Nat \ {0}
         /\ request.controller = "common" =>
              LoopMeasured /\ \A g \in active : ReadyAt(fb[g], boundary)
         /\ request.controller = "staggered" => active \subseteq DOMAIN StaggeredBoundary(fb)

LoopPlanned == (phase \in {"planned", "executed"} => ExecutionPlanLegal) /\ ReuseReady

LoopFits ==
    /\ LoopSelected /\ LoopAnnounced /\ LoopArrived /\ LoopDecided
    /\ LoopLoaded /\ LoopPlanned

(* The checkpoints and the requests.                                       *)
LEMMA CheckpointsRise ==
    /\ Len(Checkpoints) \in Nat \ {0} /\ DOMAIN Checkpoints = 1..Len(Checkpoints)
    /\ \A i \in DOMAIN Checkpoints : Checkpoints[i] \in Nat \ {0}
    /\ \A i, j \in DOMAIN Checkpoints : i < j => Checkpoints[i] < Checkpoints[j]
<1>1. /\ Checkpoints \in Seq(1..(TotalLayers - 1)) /\ Checkpoints # <<>> /\ TotalLayers \in Nat
      /\ \A i, j \in DOMAIN Checkpoints : i < j => Checkpoints[i] < Checkpoints[j]
  BY LoopShape
<1>2. Len(Checkpoints) \in Nat \ {0} /\ DOMAIN Checkpoints = 1..Len(Checkpoints)
  BY <1>1
<1>3. \A i \in 1..Len(Checkpoints) : Checkpoints[i] \in 1..(TotalLayers - 1)
  BY <1>1
<1> QED BY <1>1, <1>2, <1>3

(* A request has finitely many segments, and staggers exactly when its     *)
(* controller does.                                                        *)
LEMMA RequestsAre ==
    ASSUME NEW r \in Requests
    PROVE  /\ r.segments \subseteq Nat /\ IsFiniteSet(r.segments) /\ r.budget \in Nat
           /\ r.controller \in {"legacy", "two_stage", "common", "staggered"}
           /\ r.controller = "staggered" <=> r.execution # "legacy_common_after_selection"
<1>1. /\ r.controller \in {"legacy", "two_stage", "common", "staggered"}
      /\ r.segments \in {1..1, 1..NSegments} /\ r.budget \in Budgets
      /\ r.controller = "staggered" <=> r.execution # "legacy_common_after_selection"
  BY DEF Requests, Segments
<1>2. NSegments \in Nat /\ Budgets \subseteq Nat
  BY LoopShape
<1>3. IsFiniteSet(1..1) /\ IsFiniteSet(1..NSegments)
  <2>1. 1 \in Int /\ NSegments \in Int
    BY <1>2
  <2>2. \A a, b \in Int : IsFiniteSet(a..b)
    BY FS_Interval
  <2> QED BY <2>1, <2>2
<1>4. r.segments \subseteq Nat
  BY <1>1, <1>2
<1> QED BY <1>1, <1>2, <1>3, <1>4

(* A new request fits: nothing is compared, decided or announced.          *)
LEMMA LoopStarts == ASSUME Init PROVE LoopFits
<1>0. PICK r \in Requests :
        \E f \in [r.segments \X Sources -> CandidateMenu] :
          Arrival(r, {[segment |-> p[1], source |-> p[2], score |-> f[p].score,
                       saved |-> f[p].saved, upper |-> f[p].upper,
                       eligible |-> f[p].eligible] : p \in DOMAIN f})
  BY DEF Init
<1>1. PICK f \in [r.segments \X Sources -> CandidateMenu] :
        Arrival(r, {[segment |-> p[1], source |-> p[2], score |-> f[p].score,
                     saved |-> f[p].saved, upper |-> f[p].upper,
                     eligible |-> f[p].eligible] : p \in DOMAIN f})
  BY <1>0
<1> DEFINE pairs == r.segments \X Sources
           made == [p \in pairs |->
                      [segment |-> p[1], source |-> p[2], score |-> f[p].score,
                       saved |-> f[p].saved, upper |-> f[p].upper, eligible |-> f[p].eligible]]
<1>2. request = r /\ phase = "arrived" /\ step = 1 /\ feasible = {}
      /\ compared = [g \in r.segments |-> {}] /\ decision = [g \in r.segments |-> Undecided]
      /\ emitted = [g \in r.segments |-> 0]
  BY <1>1 DEF Arrival
<1>3. cands = {made[p] : p \in pairs}
  BY <1>1 DEF Arrival
<1>4. r.segments \subseteq Nat /\ IsFiniteSet(r.segments)
  BY RequestsAre
<1>5. Sources \subseteq Nat /\ IsFiniteSet(Sources)
  <2>1. NSources \in Nat
    BY LoopShape
  <2> QED BY <2>1, FS_Interval DEF Sources
<1>6. \A p \in pairs : /\ made[p] \in Candidates
                       /\ made[p].segment = p[1] /\ made[p].source = p[2]
  <2>1. CandidateMenu \subseteq [score : Int, saved : Int, upper : Nat, eligible : BOOLEAN]
    BY LoopShape
  <2>2. \A p \in pairs : f[p] \in [score : Int, saved : Int, upper : Nat, eligible : BOOLEAN]
    BY <2>1
  <2>3. \A p \in pairs : p[1] \in r.segments /\ p[2] \in Sources
    OBVIOUS
  <2> QED BY <1>4, <1>5, <2>2, <2>3 DEF Candidates
<1>7. IsFiniteSet(cands)
  <2>1. IsFiniteSet(pairs)
    BY <1>4, <1>5, FS_Product
  <2>2. made \in Surjection(pairs, cands)
    BY <1>3 DEF Surjection
  <2> QED BY <2>1, <2>2, FS_Surjection
<1>8. cands \subseteq Candidates /\ \A c \in cands : c.segment \in r.segments
  BY <1>3, <1>6
<1>9. Apart(cands)
  <2>1. \A p, q \in pairs : p[1] = q[1] /\ p[2] = q[2] => p = q
    OBVIOUS
  <2> HIDE DEF made, pairs
  <2> QED BY <1>3, <1>6, <2>1 DEF Apart
<1>10. SelectedIn(decision) = {} /\ DOMAIN decision = r.segments
  BY <1>2 DEF SelectedIn, Undecided
<1>11. LoopSelected
  <2>1. step \in DOMAIN Checkpoints /\ Layer \in Nat
    BY <1>2, CheckpointsRise DEF Layer
  <2>2. decision \in Decisions(r.segments)
    BY <1>2 DEF Decisions, Undecided, NoSource
  <2>3. \A g \in r.segments : decision[g].probe = 0 /\ decision[g].source = NoSource
    BY <1>2 DEF Undecided
  <2>4. MadeBy(decision, Layer)
    BY <1>10, <2>1, <2>3 DEF MadeBy
  <2>5. compared \in [r.segments -> SUBSET Nat]
    BY <1>2
  <2> QED BY <1>2, <2>1, <2>2, <2>3, <2>4, <2>5 DEF LoopSelected
<1>12. LoopAnnounced
  <2>1. DOMAIN FloorsNow \subseteq SelectedIn(decision)
    BY FloorsSelected DEF FloorsNow
  <2> QED BY <1>2, <1>10, <2>1 DEF LoopAnnounced
<1>13. LoopArrived
  BY <1>2, <1>7, <1>8, <1>9 DEF LoopArrived
<1> QED BY <1>2, <1>11, <1>12, <1>13
        DEF LoopFits, LoopDecided, LoopLoaded, LoopPlanned, ReuseReady

(* What a checkpoint says of a segment: nothing yet, or a decision of its  *)
(* layer for one of the compared Sources or for none.                      *)
LEMMA CheckpointDecides ==
    ASSUME NEW K \in SUBSET Nat, NEW bounds \in [K -> BoundsMenu], NEW n \in Nat,
           NEW last, NEW how, NEW filter,
           NEW d, d = EvaluateCheckpoint(bounds, n, last, how, filter)
    PROVE  /\ d \in [source : Nat, probe : Nat] /\ d.source \in K \cup {NoSource}
           /\ d # Undecided => d.probe = n
<1> DEFINE early == [s \in {t \in DOMAIN bounds :
                              ~filter \/ (bounds[t].covered /\ Economic(bounds[t].upper))}
                      |-> bounds[s]]
           winner == IF n = last /\ how # "strict_interval"
                     THEN FinalWinners(bounds, how) ELSE ConfidentWinners(early)
<1>1. FinalWinners(bounds, how) \subseteq DOMAIN bounds
  BY Zenon DEF FinalWinners
<1>2. ConfidentWinners(early) \subseteq DOMAIN bounds
  <2>1. DOMAIN early \subseteq DOMAIN bounds
    OBVIOUS
  <2>2. ConfidentWinners(early) \subseteq DOMAIN early
    BY Zenon DEF ConfidentWinners
  <2> QED BY <2>1, <2>2
<1>3. d = IF winner # {} THEN [source |-> CHOOSE s \in winner : TRUE, probe |-> n]
          ELSE IF n = last THEN [source |-> NoSource, probe |-> n] ELSE Undecided
  BY DEF EvaluateCheckpoint
<1>4. winner \subseteq K
  BY <1>1, <1>2
<1> HIDE DEF winner
<1>5. CASE winner # {}
  <2>1. PICK s \in winner : d = [source |-> s, probe |-> n]
    BY <1>3, <1>5
  <2>2. s \in K /\ s \in Nat
    BY <1>4, <2>1
  <2> QED BY <2>1, <2>2
<1>6. CASE winner = {}
  BY <1>3, <1>6 DEF Undecided, NoSource
<1> QED BY <1>5, <1>6

(* While the checkpoint is open, new decisions leave the announced floors  *)
(* true and the others due now.                                            *)
LEMMA FloorsStay ==
    ASSUME LoopSelected, LoopAnnounced, phase \in {"arrived", "probing"}, phase' = "probing",
           decision' \in Decisions(request.segments), Extends(decision, decision', Layer),
           UNCHANGED <<request, step, emitted>>
    PROVE  MadeBy(decision', Layer) /\ LoopAnnounced'
<1> DEFINE F == EligibleFloors(decision, request.execution)
           G == EligibleFloors(decision', request.execution)
<1>0. F = FloorsNow /\ G = FloorsNow'
  BY DEF FloorsNow
<1>1. /\ request.segments \subseteq Nat /\ Layer \in Nat /\ Layer' = Layer
      /\ decision \in Decisions(request.segments) /\ MadeBy(decision, Layer)
  BY RequestsAre, CheckpointsRise DEF LoopSelected, Layer
<1>2. /\ MadeBy(decision', Layer)
      /\ \A g \in DOMAIN F : g \in DOMAIN G /\ G[g] = F[g]
      /\ \A g \in DOMAIN G \ DOMAIN F : G[g] = Layer + 1
  <2>1. MadeBy(decision', Layer) /\ Grows(F, G, Layer)
    BY <1>1, FloorsGrow
  <2> QED BY <2>1 DEF Grows
<1> HIDE DEF F, G
<1>3. /\ emitted \in [request.segments -> Nat]
      /\ \A g \in request.segments : emitted[g] # 0 => g \in DOMAIN F /\ emitted[g] = F[g]
      /\ \A g \in DOMAIN F : emitted[g] = 0 => F[g] = Layer + 1
  BY <1>0 DEF LoopAnnounced
<1>4. \A g \in request.segments : emitted[g] # 0 => g \in DOMAIN G /\ emitted[g] = G[g]
  BY <1>2, <1>3
<1>5. \A g \in DOMAIN G : emitted[g] = 0 => G[g] = Layer + 1
  BY <1>2, <1>3
<1> QED BY <1>0, <1>1, <1>2, <1>3, <1>4, <1>5 DEF LoopAnnounced

(* What is compared is what was given out of the budget.                   *)
LEMMA ComparedIsTaken ==
    ASSUME LoopSelected, LoopArrived, phase = "arrived", NEW taken,
           taken = Allocate(cands, request.budget),
           compared' = [g \in request.segments |-> ComparedOf(taken, g)]
    PROVE  /\ compared' \in [request.segments -> SUBSET Nat]
           /\ taken = {c \in cands : c.source \in compared'[c.segment]}
           /\ UpperSum(taken) <= request.budget
           /\ \A c \in cands \ taken :
                c.eligible => UpperSum(taken) + c.upper > request.budget
<1>1. /\ IsFiniteSet(cands) /\ cands \subseteq Candidates /\ Apart(cands)
      /\ \A c \in cands : c.segment \in request.segments
  BY DEF LoopArrived
<1>2. request.budget \in Nat
  BY RequestsAre DEF LoopSelected
<1>3. /\ taken \subseteq cands /\ UpperSum(taken) <= request.budget
      /\ \A c \in cands \ taken : c.eligible => UpperSum(taken) + c.upper > request.budget
  BY <1>1, <1>2, AllocationFits
<1>4. \A g \in request.segments : compared'[g] = ComparedOf(taken, g)
  OBVIOUS
<1>5. \A c \in taken : c.source \in Nat
  BY <1>1, <1>3 DEF Candidates
<1>6. \A g \in request.segments : ComparedOf(taken, g) \in SUBSET Nat
  BY <1>5 DEF ComparedOf
<1>7. compared' \in [request.segments -> SUBSET Nat]
  BY <1>6
<1>8. \A c \in cands : c.source \in compared'[c.segment] <=> c \in taken
  <2>1. ASSUME NEW c \in cands, c \in taken PROVE c.source \in compared'[c.segment]
    BY <1>1, <1>4, <2>1 DEF ComparedOf
  <2>2. ASSUME NEW c \in cands, c.source \in compared'[c.segment] PROVE c \in taken
    <3>1. PICK d \in taken : d.segment = c.segment /\ d.source = c.source
      BY <1>1, <1>4, <2>2 DEF ComparedOf
    <3>2. d = c
      BY <1>1, <1>3, <3>1 DEF Apart
    <3> QED BY <3>1, <3>2
  <2> QED BY <2>1, <2>2
<1> QED BY <1>3, <1>7, <1>8

(* The budget is given out: what is not compared abstains at once.         *)
LEMMA AllocateBudgetFits == ASSUME LoopFits, AllocateBudget PROVE LoopFits'
<1> USE DEF LoopFits
<1>1. /\ phase = "arrived" /\ phase' = "probing"
      /\ UNCHANGED <<request, step, emitted, feasible>>
  BY DEF AllocateBudget
<1>2. PICK taken : /\ taken = Allocate(cands, request.budget)
                   /\ compared' = [g \in request.segments |-> ComparedOf(taken, g)]
                   /\ decision' = [g \in request.segments |->
                                     IF compared'[g] # {} THEN Undecided
                                     ELSE [source |-> NoSource, probe |-> Checkpoints[1]]]
  BY DEF AllocateBudget
<1>3. compared' \in [request.segments -> SUBSET Nat]
  BY <1>1, <1>2, ComparedIsTaken
<1>4. step = 1 /\ decision = [g \in request.segments |-> Undecided]
  BY <1>1 DEF LoopArrived
<1>5. Layer = Checkpoints[1] /\ Layer \in Nat /\ step \in DOMAIN Checkpoints /\ request \in Requests
  BY <1>4, CheckpointsRise DEF LoopSelected, Layer
<1>6. \A g \in request.segments :
        \/ decision'[g] = Undecided
        \/ decision'[g] = [source |-> NoSource, probe |-> Layer]
  BY <1>2, <1>5
<1>7. decision' \in Decisions(request.segments)
  <2>1. DOMAIN decision' = request.segments /\ decision' = [g \in request.segments |-> decision'[g]]
    BY <1>2
  <2>2. \A g \in request.segments : decision'[g] \in [source : Nat, probe : Nat]
    BY <1>5, <1>6 DEF Undecided, NoSource
  <2> QED BY <2>1, <2>2 DEF Decisions
<1>8. Extends(decision, decision', Layer)
  BY <1>4, <1>6 DEF Extends
<1>9. \A g \in request.segments : decision'[g].source \in compared'[g] \cup {NoSource}
  BY <1>6 DEF Undecided
<1>10. MadeBy(decision', Layer) /\ LoopAnnounced'
  BY <1>1, <1>7, <1>8, FloorsStay
<1>11. LoopSelected'
  BY <1>1, <1>3, <1>5, <1>7, <1>9, <1>10 DEF LoopSelected, Layer
<1> QED BY <1>1, <1>10, <1>11 DEF LoopArrived, LoopDecided, LoopLoaded, LoopPlanned, ReuseReady

(* One segment is evaluated.                                               *)
LEMMA ProbeFits == ASSUME LoopFits, Probe PROVE LoopFits'
<1> USE DEF LoopFits
<1> DEFINE m == Min(PendingSegments)
<1>1. /\ phase = "probing" /\ phase' = "probing" /\ PendingSegments # {}
      /\ UNCHANGED <<request, step, emitted, compared, feasible>>
  BY DEF Probe
<1>2. /\ request \in Requests /\ request.segments \subseteq Nat /\ step \in DOMAIN Checkpoints
      /\ decision \in Decisions(request.segments) /\ compared \in [request.segments -> SUBSET Nat]
      /\ \A g \in request.segments : decision[g].source \in compared[g] \cup {NoSource}
  BY RequestsAre DEF LoopSelected
<1>3. Layer \in Nat
  BY <1>2, CheckpointsRise DEF Layer
<1>4. m \in PendingSegments
  <2>1. PendingSegments \subseteq Nat
    BY <1>2 DEF PendingSegments
  <2> QED BY <1>1, <2>1, MinOf
<1>5. PICK bounds \in [compared[m] -> BoundsMenu] :
        decision' = [decision EXCEPT ![m] =
                       EvaluateCheckpoint(bounds, Layer, request.last,
                                          request.probing[1], request.probing[2])]
  BY DEF Probe
<1> HIDE DEF m
<1>6. m \in request.segments /\ decision[m] = Undecided
  BY <1>2, <1>4 DEF PendingSegments, Decided, Decisions
<1>7. PICK d : /\ d = EvaluateCheckpoint(bounds, Layer, request.last,
                                         request.probing[1], request.probing[2])
               /\ decision' = [decision EXCEPT ![m] = d]
  BY <1>5
<1>8. /\ d \in [source : Nat, probe : Nat] /\ d.source \in compared[m] \cup {NoSource}
      /\ d # Undecided => d.probe = Layer
  <2>1. compared[m] \in SUBSET Nat
    BY <1>2, <1>6
  <2> QED BY <1>3, <1>7, <2>1, CheckpointDecides
<1>9. \A g \in request.segments : decision'[g] = IF g = m THEN d ELSE decision[g]
  BY <1>2, <1>6, <1>7 DEF Decisions
<1>10. decision' \in Decisions(request.segments)
  BY <1>2, <1>6, <1>7, <1>8 DEF Decisions
<1>11. Extends(decision, decision', Layer)
  BY <1>2, <1>6, <1>8, <1>9 DEF Extends, Decisions
<1>12. \A g \in request.segments : decision'[g].source \in compared'[g] \cup {NoSource}
  BY <1>1, <1>2, <1>8, <1>9
<1>13. MadeBy(decision', Layer) /\ LoopAnnounced'
  BY <1>1, <1>10, <1>11, FloorsStay
<1>14. LoopSelected'
  BY <1>1, <1>2, <1>10, <1>12, <1>13 DEF LoopSelected, Layer
<1> QED BY <1>1, <1>13, <1>14 DEF LoopArrived, LoopDecided, LoopLoaded, LoopPlanned, ReuseReady

(* At the end of a checkpoint every floor there is has been announced, the *)
(* new ones for the very next layer.                                       *)
LEMMA AnnouncesAll ==
    ASSUME LoopSelected, LoopAnnounced, phase = "probing",
           NEW dec \in Decisions(request.segments), Extends(decision, dec, Layer),
           emitted' = Announce(dec),
           NEW G, G = EligibleFloors(dec, request.execution)
    PROVE  /\ emitted' \in [request.segments -> Nat] /\ MadeBy(dec, Layer)
           /\ \A g \in request.segments : emitted'[g] # 0 => g \in DOMAIN G /\ emitted'[g] = G[g]
           /\ \A g \in DOMAIN G : emitted'[g] # 0
           /\ \A g \in request.segments : emitted'[g] # emitted[g] => emitted'[g] = Layer + 1
<1> DEFINE F == EligibleFloors(decision, request.execution)
<1>1. /\ request.segments \subseteq Nat /\ Layer \in Nat
      /\ decision \in Decisions(request.segments) /\ MadeBy(decision, Layer)
  BY RequestsAre, CheckpointsRise DEF LoopSelected, Layer
<1>2. MadeBy(dec, Layer) /\ Grows(F, G, Layer)
  BY <1>1, FloorsGrow
<1>3. \A g \in DOMAIN G : g \in request.segments /\ G[g] \in Nat /\ G[g] # 0
  <2>1. ASSUME NEW g \in DOMAIN G
        PROVE  g \in SelectedIn(dec) /\ G[g] \in Nat /\ dec[g].probe < G[g]
    BY <1>1, <1>2, FloorsAfter
  <2>2. \A g \in SelectedIn(dec) : g \in request.segments /\ dec[g].probe \in Nat
    BY DEF SelectedIn, Decisions
  <2> QED BY <2>1, <2>2
<1>4. /\ emitted \in [request.segments -> Nat]
      /\ \A g \in request.segments : emitted[g] # 0 => g \in DOMAIN F /\ emitted[g] = F[g]
      /\ \A g \in DOMAIN F : emitted[g] = 0 => F[g] = Layer + 1
  BY DEF LoopAnnounced, FloorsNow
<1>5. emitted' = [g \in request.segments |->
                    IF emitted[g] = 0 /\ g \in DOMAIN G THEN G[g] ELSE emitted[g]]
  BY DEF Announce
<1> HIDE DEF F
<1>6. /\ \A g \in DOMAIN F : g \in DOMAIN G /\ G[g] = F[g]
      /\ \A g \in DOMAIN G \ DOMAIN F : G[g] = Layer + 1
  BY <1>2 DEF Grows
<1>7. emitted' \in [request.segments -> Nat]
  BY <1>3, <1>4, <1>5
<1>8. \A g \in request.segments :
        /\ emitted'[g] # 0 => g \in DOMAIN G /\ emitted'[g] = G[g]
        /\ g \in DOMAIN G => emitted'[g] # 0
        /\ emitted'[g] # emitted[g] => emitted'[g] = Layer + 1
  BY <1>3, <1>4, <1>5, <1>6
<1> QED BY <1>2, <1>3, <1>7, <1>8

(* The decisions at the end of a checkpoint: what they were, and at the    *)
(* last one an abstention of each segment that has none.                   *)
ClosedDecision ==
    IF step < Len(Checkpoints) THEN decision
    ELSE [g \in request.segments |->
            IF g \in Decided(decision) THEN decision[g]
            ELSE [source |-> NoSource, probe |-> Layer]]

(* Closing a checkpoint changes no decision made before.                   *)
LEMMA CloseExtends ==
    ASSUME LoopSelected, CloseCheckpoint
    PROVE  /\ decision' = ClosedDecision /\ emitted' = Announce(ClosedDecision)
           /\ ClosedDecision \in Decisions(request.segments)
           /\ Extends(decision, ClosedDecision, Layer)
           /\ \A g \in request.segments :
                ClosedDecision[g].source \in {decision[g].source, NoSource}
           /\ ~(step < Len(Checkpoints)) => Decided(ClosedDecision) = request.segments
<1>1. /\ decision \in Decisions(request.segments) /\ step \in DOMAIN Checkpoints
  BY DEF LoopSelected
<1>2. Layer \in Nat \ {0}
  BY <1>1, CheckpointsRise DEF Layer
<1>3. CASE step < Len(Checkpoints)
  <2>1. decision' = decision /\ emitted' = Announce(decision) /\ ClosedDecision = decision
    BY <1>3 DEF CloseCheckpoint, ClosedDecision
  <2>2. Extends(decision, decision, Layer)
    BY DEF Extends
  <2> QED BY <1>1, <1>3, <2>1, <2>2
<1>4. CASE ~(step < Len(Checkpoints))
  <2>1. decision' = ClosedDecision /\ emitted' = Announce(ClosedDecision)
    BY <1>4 DEF CloseCheckpoint, ClosedDecision
  <2>2. ClosedDecision = [g \in request.segments |->
                            IF g \in Decided(decision) THEN decision[g]
                            ELSE [source |-> NoSource, probe |-> Layer]]
    BY <1>4 DEF ClosedDecision
  <2>3. \A g \in request.segments : decision[g] \in [source : Nat, probe : Nat]
    BY <1>1 DEF Decisions
  <2>4. ClosedDecision \in Decisions(request.segments)
    BY <1>2, <2>2, <2>3 DEF Decisions, NoSource
  <2>5. \A g \in request.segments : g \in Decided(decision) <=> decision[g] # Undecided
    BY <1>1 DEF Decided, Decisions
  <2>6. \A g \in request.segments :
          /\ decision[g] # Undecided => ClosedDecision[g] = decision[g]
          /\ decision[g] = Undecided => ClosedDecision[g] = [source |-> NoSource, probe |-> Layer]
    BY <2>2, <2>5
  <2>7. Extends(decision, ClosedDecision, Layer)
    BY <1>1, <2>6 DEF Extends, Decisions
  <2>8. \A g \in request.segments : ClosedDecision[g] # Undecided
    BY <1>2, <2>6 DEF Undecided
  <2>9. Decided(ClosedDecision) = request.segments
    BY <2>2, <2>8 DEF Decided
  <2> QED BY <2>1, <2>4, <2>6, <2>7, <2>9
<1> QED BY <1>3, <1>4

(* A checkpoint is closed.                                                 *)
LEMMA CloseCheckpointFits == ASSUME LoopFits, CloseCheckpoint PROVE LoopFits'
<1> USE DEF LoopFits
<1>1. /\ phase = "probing" /\ UNCHANGED <<request, compared, feasible>>
      /\ IF step < Len(Checkpoints) THEN step' = step + 1 /\ phase' = "probing"
         ELSE step' = step /\ phase' = "selected"
  BY DEF CloseCheckpoint
<1>2. /\ request \in Requests /\ step \in DOMAIN Checkpoints
      /\ compared \in [request.segments -> SUBSET Nat]
      /\ \A g \in request.segments : decision[g].source \in compared[g] \cup {NoSource}
  BY DEF LoopSelected
<1>3. step' \in DOMAIN Checkpoints /\ Layer \in Nat /\ Layer' \in Nat /\ Layer <= Layer'
  <2>1. step' \in DOMAIN Checkpoints
    BY <1>1, <1>2, CheckpointsRise
  <2>2. step' = step \/ step < step'
    BY <1>1, <1>2, CheckpointsRise
  <2> QED BY <1>2, <2>1, <2>2, CheckpointsRise DEF Layer
<1>4. /\ decision' = ClosedDecision /\ emitted' = Announce(ClosedDecision)
      /\ ClosedDecision \in Decisions(request.segments)
      /\ Extends(decision, ClosedDecision, Layer)
      /\ \A g \in request.segments : ClosedDecision[g].source \in {decision[g].source, NoSource}
      /\ ~(step < Len(Checkpoints)) => Decided(ClosedDecision) = request.segments
  BY CloseExtends
<1> DEFINE G == EligibleFloors(decision', request.execution)
<1>5. G = FloorsNow' /\ G = EligibleFloors(ClosedDecision, request.execution)
  BY <1>1, <1>4 DEF FloorsNow
<1> HIDE DEF G
<1>6. /\ emitted' \in [request.segments -> Nat] /\ MadeBy(ClosedDecision, Layer)
      /\ \A g \in request.segments : emitted'[g] # 0 => g \in DOMAIN G /\ emitted'[g] = G[g]
      /\ \A g \in DOMAIN G : emitted'[g] # 0
  BY <1>1, <1>4, <1>5, AnnouncesAll
<1>7. MadeBy(decision', Layer')
  <2>1. \A g \in request.segments : ClosedDecision[g].probe \in Nat
    BY <1>4 DEF Decisions
  <2>2. DOMAIN ClosedDecision = request.segments
    BY <1>4 DEF Decisions
  <2> QED BY <1>3, <1>4, <1>6, <2>1, <2>2 DEF MadeBy
<1>8. \A g \in request.segments : decision'[g].source \in compared'[g] \cup {NoSource}
  BY <1>1, <1>2, <1>4
<1>9. LoopSelected'
  BY <1>1, <1>2, <1>3, <1>4, <1>7, <1>8 DEF LoopSelected
<1>10. LoopAnnounced'
  BY <1>1, <1>5, <1>6 DEF LoopAnnounced
<1>11. LoopDecided'
  BY <1>1, <1>4 DEF LoopDecided
<1> QED BY <1>1, <1>9, <1>10, <1>11 DEF LoopArrived, LoopLoaded, LoopPlanned, ReuseReady

(* Once selected, the plan is one the contract classes accept: a selected  *)
(* segment has a compared Source and, where reuse is staggered, a floor    *)
(* that was announced and lies after the decisions it depends on.          *)
LEMMA SelectionLegal ==
    ASSUME LoopFits, phase \in {"selected", "loaded", "planned", "executed"}
    PROVE  /\ SelectionPlanLegal
           /\ Staggers =>
                /\ emitted = [g \in request.segments |->
                                IF g \in Selected
                                THEN EligibleFloors(decision, request.execution)[g] ELSE 0]
                /\ \A g \in Selected :
                     /\ emitted[g] \in Nat /\ decision[g].probe < emitted[g]
                     /\ request.execution = "causal_commit_wait" =>
                          \A h \in request.segments : h >= g => decision[h].probe < emitted[g]
<1> USE DEF LoopFits
<1> DEFINE F == EligibleFloors(decision, request.execution)
<1>0. F = EligibleFloors(decision, request.execution) /\ F = FloorsNow
  BY DEF FloorsNow
<1>1. /\ request.segments \subseteq Nat /\ Layer \in Nat
      /\ decision \in Decisions(request.segments) /\ MadeBy(decision, Layer)
      /\ \A g \in request.segments : decision[g].source \in compared[g] \cup {NoSource}
  BY RequestsAre, CheckpointsRise DEF LoopSelected, Layer
<1>2. DOMAIN decision = request.segments /\ Decided(decision) = request.segments
  BY <1>1 DEF LoopDecided, Decisions
<1>3. Selected \subseteq request.segments /\ \A g \in Selected : decision[g].source \in compared[g]
  BY <1>1, <1>2 DEF Selected, SelectedIn
<1>4. CASE ~Staggers
  BY <1>3, <1>4 DEF SelectionPlanLegal
<1>5. CASE Staggers
  <2>1. DOMAIN F = Selected
    BY <1>0, <1>2, <1>5, AllFloors DEF Staggers, Selected
  <2>2. ASSUME NEW g \in DOMAIN F
        PROVE  /\ F[g] \in Nat /\ decision[g].probe < F[g]
               /\ request.execution # "immediate_staggered_closed_loop" =>
                    \A h \in request.segments : h >= g => decision[h].probe < F[g]
    BY <1>0, <1>1, FloorsAfter
  <2> HIDE DEF F
  <2>3. /\ emitted \in [request.segments -> Nat]
        /\ \A g \in request.segments : emitted[g] # 0 => g \in DOMAIN F /\ emitted[g] = F[g]
        /\ \A g \in DOMAIN F : emitted[g] # 0
    BY <1>0 DEF LoopAnnounced
  <2>4. \A g \in Selected : emitted[g] = F[g]
    BY <1>3, <2>1, <2>3
  <2>5. \A g \in request.segments : g \notin Selected => emitted[g] = 0
    BY <2>1, <2>3
  <2>6. emitted = [g \in request.segments |-> IF g \in Selected THEN F[g] ELSE 0]
    BY <2>3, <2>4, <2>5
  <2>7. \A g \in Selected : F[g] > decision[g].probe
    <3>1. \A g \in Selected : decision[g].probe \in Nat
      BY <1>1, <1>3 DEF Decisions
    <3> QED BY <2>1, <2>2, <3>1
  <2>8. SelectionPlanLegal
    BY <1>0, <1>3, <2>1, <2>7 DEF SelectionPlanLegal, F
  <2> QED BY <2>1, <2>2, <2>4, <2>6, <2>8 DEF F
<1> QED BY <1>4, <1>5

(* The steps that leave the selection as it is.                            *)
LEMMA SelectionStays ==
    ASSUME LoopFits, UNCHANGED <<request, step, compared, decision, emitted>>,
           \/ phase' = "error"
           \/ /\ phase \in {"selected", "loaded", "planned", "executed"}
              /\ phase' \in {"loaded", "planned", "executed"}
    PROVE  /\ LoopSelected' /\ LoopAnnounced' /\ LoopArrived' /\ LoopDecided'
           /\ Selected' = Selected
<1> USE DEF LoopFits
<1>1. LoopSelected' /\ Layer' = Layer
  BY DEF LoopSelected, Layer
<1>2. FloorsNow' = FloorsNow /\ Selected' = Selected
  BY DEF FloorsNow, Selected
<1>3. LoopAnnounced'
  BY <1>1, <1>2 DEF LoopAnnounced
<1>4. LoopArrived' /\ LoopDecided'
  BY DEF LoopArrived, LoopDecided
<1> QED BY <1>1, <1>2, <1>3, <1>4

(* No plan is legal, and reuses nothing that is not ready.                 *)
LEMMA NoPlanFits == ASSUME plan' = NoPlan PROVE LoopPlanned'
BY DEF NoPlan, LoopPlanned, ExecutionPlanLegal, ReuseReady

(* The request is served dense, or refused.                                *)
LEMMA DensePlanFits ==
    ASSUME LoopFits, PlanDense \/ RefuseSelection \/ RejectBeforeLoad \/ RuntimeRaises
    PROVE  LoopFits'
<1>1. UNCHANGED <<request, step, compared, decision, emitted, feasible>>
  BY DEF PlanDense, RefuseSelection, RejectBeforeLoad, RuntimeRaises
<1>2. \/ phase' = "error"
      \/ phase = "selected" /\ phase' = "planned" /\ plan' = NoPlan
  BY DEF PlanDense, RefuseSelection, RejectBeforeLoad, RuntimeRaises, Becomes
<1>3. LoopSelected' /\ LoopAnnounced' /\ LoopArrived' /\ LoopDecided'
  BY <1>1, <1>2, SelectionStays
<1>4. LoopLoaded'
  BY <1>2 DEF LoopLoaded
<1>5. LoopPlanned'
  BY <1>2, NoPlanFits DEF LoopPlanned, ReuseReady
<1> QED BY <1>3, <1>4, <1>5 DEF LoopFits

(* The plan is executed as it was made.                                    *)
LEMMA ExecuteFits == ASSUME LoopFits, Execute PROVE LoopFits'
<1>1. /\ phase = "planned" /\ phase' = "executed"
      /\ UNCHANGED <<request, step, compared, decision, emitted, fb, plan>>
  BY DEF Execute
<1>2. LoopSelected' /\ LoopAnnounced' /\ LoopArrived' /\ LoopDecided' /\ Selected' = Selected
  BY <1>1, SelectionStays
<1>3. ExecutionPlanLegal /\ ReuseReady
  BY <1>1 DEF LoopFits, LoopPlanned
<1>4. ExecutionPlanLegal'
  BY <1>1, <1>2, <1>3 DEF ExecutionPlanLegal
<1>5. ReuseReady'
  BY <1>1, <1>3 DEF ReuseReady, Staggers
<1> QED BY <1>1, <1>2, <1>4, <1>5 DEF LoopFits, LoopLoaded, LoopPlanned

(* What feedback says of a loaded Source.                                  *)
LEMMA FeedbackIs ==
    ASSUME NEW f \in Feedback, LegalFeedback(f)
    PROVE  /\ f.first \in Nat /\ f.through \in Nat /\ f.ready \in BOOLEAN
           /\ f.ready => f.first # 0 /\ f.first <= f.through
<1>1. TotalLayers \in Nat \ {0}
  BY LoopShape
<1>2. CASE f = [ready |-> FALSE, first |-> 0, through |-> 0]
  BY <1>2
<1>3. CASE f # [ready |-> FALSE, first |-> 0, through |-> 0]
  <2>1. PICK i \in 1..TotalLayers, j \in {TotalLayers - 1, TotalLayers} :
          f = [ready |-> TRUE, first |-> i, through |-> j]
    BY <1>3 DEF Feedback
  <2>2. f.first = i /\ f.through = j /\ f.ready = TRUE /\ i <= j
    BY <2>1 DEF LegalFeedback
  <2> QED BY <1>1, <2>1, <2>2
<1> QED BY <1>2, <1>3

(* The selected Sources are loaded and scheduled.                          *)
LEMMA LoadFits == ASSUME LoopFits, Load PROVE LoopFits'
<1>1. PICK f \in [Selected -> {x \in Feedback : LegalFeedback(x)}],
           answered \in BOOLEAN, low \in FirstCandidates :
        /\ fb' = f /\ boundary' = low
        /\ active' = CASE request.controller = "common" -> {g \in Selected : ReadyAt(f[g], low)}
                       [] request.controller = "staggered" -> DOMAIN StaggeredBoundary(f)
                       [] OTHER -> Selected
        /\ IF ~answered THEN phase' = "error" /\ UNCHANGED plan
           ELSE IF request.controller = "legacy"
           THEN Becomes(Reuse(Selected, [g \in Selected |-> low]))
           ELSE phase' = "loaded" /\ UNCHANGED plan
  BY DEF Load
<1>2. /\ phase = "selected" /\ UNCHANGED <<request, step, compared, decision, emitted, feasible>>
      /\ feasible = {}
  BY DEF Load, LoopFits, LoopLoaded
<1>3. phase' \in {"error", "planned", "loaded"}
  BY <1>1 DEF Becomes
<1>4. LoopSelected' /\ LoopAnnounced' /\ LoopArrived' /\ LoopDecided' /\ Selected' = Selected
  BY <1>2, <1>3, SelectionStays
<1>5. low \in Nat \ {0}
  BY DEF FirstCandidates
<1>6. LoopPlanned'
  <2>1. CASE phase' = "planned"
    <3>1. /\ request.controller = "legacy" /\ request'.controller = "legacy"
          /\ plan' = Reuse(Selected, [g \in Selected |-> low])
      BY <1>1, <1>2, <2>1 DEF Becomes
    <3>2. plan'.reuse = Selected /\ plan'.at = [g \in Selected |-> low]
      BY <3>1 DEF Reuse
    <3>3. ExecutionPlanLegal'
      BY <1>4, <1>5, <3>2 DEF ExecutionPlanLegal
    <3>4. ReuseReady'
      BY <3>1 DEF ReuseReady
    <3> QED BY <3>3, <3>4 DEF LoopPlanned
  <2>2. CASE phase' # "planned"
    BY <1>3, <2>2 DEF LoopPlanned, ReuseReady
  <2> QED BY <2>1, <2>2
<1>7. LoopLoaded'
  <2>1. CASE phase' = "loaded"
    <3>1. request.controller # "legacy"
      BY <1>1, <2>1 DEF Becomes
    <3>2. LoopMeasured'
      BY <1>2 DEF LoopMeasured
    <3>3. DOMAIN StaggeredBoundary(f) \subseteq Selected
      BY DEF StaggeredBoundary
    <3>4. active' = IF request.controller = "common" THEN {g \in Selected : ReadyAt(f[g], low)}
                    ELSE IF request.controller = "staggered" THEN DOMAIN StaggeredBoundary(f)
                    ELSE Selected
      BY <1>1
    <3>5. active' \subseteq Selected
      BY <3>3, <3>4
    <3>6. request.controller = "common" => \A g \in active' : ReadyAt(f[g], low)
      BY <3>4
    <3>7. request.controller = "staggered" => active' \subseteq DOMAIN StaggeredBoundary(fb')
      BY <1>1, <3>4
    <3>8. (DOMAIN StaggeredBoundary(fb))' = DOMAIN StaggeredBoundary(fb')
      BY <1>2 DEF StaggeredBoundary
    <3> QED BY <1>1, <1>2, <1>4, <1>5, <2>1, <3>1, <3>2, <3>5, <3>6, <3>7, <3>8 DEF LoopLoaded
  <2>2. CASE phase' # "loaded"
    BY <1>3, <2>2 DEF LoopLoaded
  <2> QED BY <2>1, <2>2
<1> QED BY <1>4, <1>6, <1>7 DEF LoopFits

(* Dropping segments keeps the plan being measured ready.                  *)
LEMMA DropUnprofitableFits == ASSUME LoopFits, DropUnprofitable PROVE LoopFits'
<1>1. /\ phase = "loaded" /\ UNCHANGED <<request, phase, step, compared, decision, emitted,
                                         fb, boundary, feasible>>
      /\ active' \subseteq active
  BY DEF DropUnprofitable
<1>2. LoopSelected' /\ LoopAnnounced' /\ LoopArrived' /\ LoopDecided' /\ Selected' = Selected
  BY <1>1, SelectionStays
<1>3. LoopMeasured => LoopMeasured'
  BY <1>1, <1>2 DEF LoopMeasured, StartsAt
<1>4. DOMAIN StaggeredBoundary(fb)' = DOMAIN StaggeredBoundary(fb)
  BY <1>1 DEF StaggeredBoundary
<1>5. LoopLoaded'
  BY <1>1, <1>2, <1>3, <1>4 DEF LoopFits, LoopLoaded
<1> QED BY <1>1, <1>2, <1>5 DEF LoopFits, LoopPlanned, ReuseReady

(* Each boundary is measured once.                                         *)
LEMMA MeasureBoundaryFits == ASSUME LoopFits, MeasureBoundary PROVE LoopFits'
<1>1. PICK total \in Totals, covered \in BOOLEAN :
        feasible' = IF active # {} /\ GatesPass(total, covered)
                    THEN feasible \cup {[total |-> total, at |-> Proposed]} ELSE feasible
  BY DEF MeasureBoundary
<1>2. /\ phase = "loaded" /\ UNCHANGED <<request, phase, step, compared, decision, emitted, fb>>
      /\ request.controller = "common" /\ boundary' = boundary + 1
      /\ active' = {g \in Selected : ReadyAt(fb[g], boundary + 1)}
  BY DEF MeasureBoundary
<1>3. LoopSelected' /\ LoopAnnounced' /\ LoopArrived' /\ LoopDecided' /\ Selected' = Selected
  BY <1>2, SelectionStays
<1>4. /\ active \subseteq Selected /\ boundary \in Nat \ {0}
      /\ LoopMeasured /\ \A g \in active : ReadyAt(fb[g], boundary)
      /\ fb \in [Selected -> {f \in Feedback : LegalFeedback(f)}]
  BY <1>2 DEF LoopFits, LoopLoaded
<1> DEFINE new == [total |-> total, at |-> Proposed]
<1>5. Proposed = [g \in active |-> boundary]
  BY <1>2 DEF Proposed
<1>6. new.total \in Nat /\ DOMAIN new.at = active /\ \A g \in active : new.at[g] = boundary
  BY <1>5, LoopShape
<1> HIDE DEF new
<1>7. \A p \in feasible : /\ p.total \in Nat /\ DOMAIN p.at \subseteq Selected
                          /\ \E b \in 1..(boundary - 1) : StartsAt(p, b)
  BY <1>4 DEF LoopMeasured
<1>8. \A p, b : StartsAt(p, b)' <=> StartsAt(p, b)
  BY <1>2 DEF StartsAt
<1>9. CASE active # {} /\ feasible' = feasible \cup {new}
  <2>1. StartsAt(new, boundary)
    BY <1>4, <1>6, <1>9 DEF StartsAt
  <2>2. \A p \in feasible' : /\ p.total \in Nat /\ DOMAIN p.at \subseteq Selected
                             /\ \E b \in 1..boundary : StartsAt(p, b)
    <3>1. 1..(boundary - 1) \subseteq 1..boundary /\ boundary \in 1..boundary
      BY <1>4
    <3> QED BY <1>4, <1>6, <1>7, <1>9, <2>1, <3>1
  <2>3. \A p \in feasible : \A b : ~(StartsAt(p, b) /\ StartsAt(new, b))
    <3>1. SUFFICES ASSUME NEW p \in feasible, NEW b, StartsAt(p, b), StartsAt(new, b) PROVE FALSE
      OBVIOUS
    <3>2. PICK c \in 1..(boundary - 1) : StartsAt(p, c)
      BY <1>7
    <3>3. b = boundary
      BY <1>6, <1>9, <3>1 DEF StartsAt
    <3>4. b = c
      BY <3>1, <3>2 DEF StartsAt
    <3> QED BY <1>4, <3>2, <3>3, <3>4
  <2>4. \A p, q \in feasible' : (\E b \in Nat : StartsAt(p, b) /\ StartsAt(q, b)) => p = q
    BY <1>4, <1>9, <2>3 DEF LoopMeasured
  <2>5. 1..(boundary' - 1) = 1..boundary
    BY <1>2, <1>4
  <2> QED BY <1>3, <1>8, <1>2, <1>4, <2>2, <2>4, <2>5 DEF LoopFits, LoopLoaded, LoopMeasured,
          LoopPlanned, ReuseReady
<1>10. CASE feasible' = feasible
  <2>1. \A b \in 1..(boundary - 1) : b \in 1..(boundary' - 1)
    BY <1>2, <1>4
  <2>2. LoopMeasured'
    BY <1>3, <1>4, <1>7, <1>8, <1>10, <2>1 DEF LoopMeasured
  <2>3. LoopLoaded'
    BY <1>2, <1>3, <1>4, <2>2 DEF LoopLoaded
  <2> QED BY <1>2, <1>3, <2>3 DEF LoopFits, LoopPlanned, ReuseReady
<1> QED BY <1>1, <1>9, <1>10 DEF new

(* Of the measured plans one is the cheapest, and starts first of these.   *)
LEMMA CheapestExists ==
    ASSUME LoopMeasured, boundary \in Nat, feasible # {}
    PROVE  \E p \in feasible : \A q \in feasible : p = q \/ Cheaper(p, q)
<1> DEFINE First(p) == Min({p.at[g] : g \in DOMAIN p.at})
<1>1. \A p \in feasible : p.total \in Nat
  BY DEF LoopMeasured
<1>2. ASSUME NEW p \in feasible PROVE First(p) \in Nat /\ StartsAt(p, First(p))
  <2>1. PICK b \in 1..(boundary - 1) : StartsAt(p, b)
    BY DEF LoopMeasured
  <2>2. {p.at[g] : g \in DOMAIN p.at} = {b} /\ b \in Nat
    BY <2>1 DEF StartsAt
  <2>3. First(p) = b
    BY <2>2, MinOf
  <2> QED BY <2>1, <2>2, <2>3
<1>3. \A p, q \in feasible : First(p) = First(q) => p = q
  <2> HIDE DEF First
  <2> QED BY <1>2 DEF LoopMeasured
<1>4. \A p, q \in feasible :
        Cheaper(p, q) <=> p.total < q.total \/ (p.total = q.total /\ First(p) < First(q))
  BY DEF Cheaper
<1> HIDE DEF First
<1> DEFINE T == {p.total : p \in feasible}
<1>5. PICK t \in T : \A u \in T : t <= u
  <2>1. T \subseteq Nat /\ T # {}
    BY <1>1
  <2> HIDE DEF T
  <2> QED BY <2>1, LeastNumber
<1> DEFINE B == {First(p) : p \in {q \in feasible : q.total = t}}
<1>6. PICK b \in B : \A c \in B : b <= c
  <2>1. B \subseteq Nat /\ B # {}
    BY <1>2, <1>5
  <2> HIDE DEF B
  <2> QED BY <2>1, LeastNumber
<1>7. PICK p \in feasible : p.total = t /\ First(p) = b
  BY <1>6
<1>8. ASSUME NEW q \in feasible PROVE p = q \/ Cheaper(p, q)
  <2>1. t <= q.total /\ t \in Nat /\ q.total \in Nat
    BY <1>1, <1>5
  <2>2. CASE q.total = t
    <3>1. b <= First(q) /\ b \in Nat /\ First(q) \in Nat
      BY <1>2, <1>6, <1>7, <2>2
    <3>2. First(p) = First(q) \/ First(p) < First(q)
      BY <1>7, <3>1
    <3> QED BY <1>3, <1>4, <1>7, <2>2, <3>2
  <2>3. CASE q.total # t
    BY <1>4, <1>7, <2>1, <2>3
  <2> QED BY <2>2, <2>3
<1> QED BY <1>8

(* The cheapest measured plan is legal and ready.                          *)
LEMMA AdmitCommonFits == ASSUME LoopFits, AdmitCommon PROVE LoopFits'
<1>1. /\ phase = "loaded" /\ phase' = "planned" /\ request.controller = "common"
      /\ UNCHANGED <<request, step, compared, decision, emitted, fb>>
  BY DEF AdmitCommon, Becomes
<1>2. LoopSelected' /\ LoopAnnounced' /\ LoopArrived' /\ LoopDecided' /\ Selected' = Selected
  BY <1>1, SelectionStays
<1>3. LoopLoaded'
  BY <1>1 DEF LoopLoaded
<1>4. LoopMeasured /\ boundary \in Nat /\ request \in Requests
  BY <1>1 DEF LoopFits, LoopLoaded, LoopSelected
<1>5. LoopPlanned'
  <2>1. CASE feasible = {}
    <3>1. plan' = NoPlan
      BY <2>1 DEF AdmitCommon, Becomes
    <3> QED BY <3>1, NoPlanFits
  <2>2. CASE feasible # {}
    <3> DEFINE best == CHOOSE p \in feasible : \A q \in feasible : p = q \/ Cheaper(p, q)
    <3>1. best \in feasible
      <4>1. \E p \in feasible : \A q \in feasible : p = q \/ Cheaper(p, q)
        BY <1>4, <2>2, CheapestExists
      <4> QED BY <4>1, Zenon
    <3>2. plan' = Reuse(DOMAIN best.at, best.at)
      BY <2>2 DEF AdmitCommon, Becomes
    <3> HIDE DEF best
    <3>3. DOMAIN best.at \subseteq Selected /\ \E b \in 1..(boundary - 1) : StartsAt(best, b)
      BY <1>4, <3>1 DEF LoopMeasured
    <3>4. PICK b \in Nat \ {0} : StartsAt(best, b)
      BY <1>4, <3>3
    <3>5. \A g \in DOMAIN best.at : best.at[g] = b /\ ReadyAt(fb[g], b)
      BY <3>4 DEF StartsAt
    <3>6. plan'.reuse = DOMAIN best.at /\ plan'.at = best.at
      BY <3>2 DEF Reuse
    <3>7. ExecutionPlanLegal'
      BY <1>2, <3>3, <3>5, <3>6 DEF ExecutionPlanLegal
    <3>8. request.execution = "legacy_common_after_selection"
      BY <1>1, <1>4, RequestsAre
    <3>9. ReuseReady'
      BY <1>1, <3>5, <3>6, <3>8 DEF ReuseReady, Staggers
    <3> QED BY <3>7, <3>9 DEF LoopPlanned
  <2> QED BY <2>1, <2>2
<1> QED BY <1>2, <1>3, <1>5 DEF LoopFits

(* The later of the announced floor and the layer the load is ready at.    *)
LEMMA MaxOfTwo ==
    ASSUME NEW i \in Nat, NEW j \in Nat
    PROVE  Max({i, j}) \in {i, j} /\ i <= Max({i, j}) /\ j <= Max({i, j})
<1>1. \E x \in {i, j} : \A y \in {i, j} : x >= y
  OBVIOUS
<1>2. Max({i, j}) \in {i, j} /\ \A y \in {i, j} : Max({i, j}) >= y
  BY <1>1, Zenon DEF Max
<1> QED BY <1>2

(* The only plan is legal, ready, and late enough.                         *)
LEMMA AdmitOnePlanFits == ASSUME LoopFits, AdmitOnePlan PROVE LoopFits'
<1>1. /\ phase = "loaded" /\ phase' = "planned"
      /\ request.controller \in {"staggered", "two_stage"}
      /\ UNCHANGED <<request, step, compared, decision, emitted, fb>>
  BY DEF AdmitOnePlan, Becomes
<1>2. LoopSelected' /\ LoopAnnounced' /\ LoopArrived' /\ LoopDecided' /\ Selected' = Selected
  BY <1>1, SelectionStays
<1>3. LoopLoaded'
  BY <1>1 DEF LoopLoaded
<1>4. /\ fb \in [Selected -> {f \in Feedback : LegalFeedback(f)}] /\ active \subseteq Selected
      /\ request \in Requests
      /\ request.controller = "staggered" => active \subseteq DOMAIN StaggeredBoundary(fb)
  BY <1>1 DEF LoopFits, LoopLoaded, LoopSelected
<1>5. \/ plan' = NoPlan
      \/ /\ plan' = Reuse(active, Proposed)
         /\ request.controller = "two_stage" => \A g \in active : fb[g].ready
  BY DEF AdmitOnePlan, Becomes
<1>6. \A g \in active : /\ fb[g].first \in Nat /\ fb[g].through \in Nat
                        /\ fb[g].ready => fb[g].first # 0 /\ fb[g].first <= fb[g].through
  BY <1>4, FeedbackIs
<1>7. CASE plan' = NoPlan
  BY <1>2, <1>3, <1>7, NoPlanFits DEF LoopFits
<1>8. CASE /\ plan' = Reuse(active, Proposed) /\ request.controller = "two_stage"
           /\ \A g \in active : fb[g].ready
  <2>1. plan'.reuse = active /\ plan'.at = [g \in active |-> fb[g].first]
    BY <1>8 DEF Reuse, Proposed
  <2>2. ExecutionPlanLegal'
    BY <1>2, <1>4, <1>6, <1>8, <2>1 DEF ExecutionPlanLegal
  <2>3. request.execution = "legacy_common_after_selection"
    BY <1>4, <1>8, RequestsAre
  <2>4. \A g \in active : ReadyAt(fb[g], fb[g].first)
    BY <1>6, <1>8 DEF ReadyAt
  <2>5. ReuseReady'
    BY <1>1, <2>1, <2>3, <2>4 DEF ReuseReady, Staggers
  <2> QED BY <1>2, <1>3, <2>2, <2>5 DEF LoopFits, LoopPlanned
<1>9. CASE plan' = Reuse(active, Proposed) /\ request.controller = "staggered"
  <2>1. Staggers
    BY <1>4, <1>9, RequestsAre DEF Staggers
  <2>2. \A g \in Selected :
          /\ emitted[g] \in Nat /\ decision[g].probe < emitted[g]
          /\ request.execution = "causal_commit_wait" =>
               \A h \in request.segments : h >= g => decision[h].probe < emitted[g]
    BY <1>1, <2>1, SelectionLegal
  <2> DEFINE at(g) == Max({emitted[g], fb[g].first})
  <2>3. plan'.reuse = active /\ plan'.at = [g \in active |-> at(g)]
    <3>1. \A g \in active : StaggeredBoundary(fb)[g] = at(g)
      BY <1>4, <1>9 DEF StaggeredBoundary
    <3>2. plan'.reuse = active /\ plan'.at = [g \in active |-> StaggeredBoundary(fb)[g]]
      BY <1>9 DEF Reuse, Proposed
    <3> QED BY <3>1, <3>2
  <2>4. \A g \in active : fb[g].ready /\ at(g) <= fb[g].through
    BY <1>4, <1>9 DEF StaggeredBoundary
  <2>5. \A g \in active : at(g) \in Nat /\ emitted[g] <= at(g) /\ fb[g].first <= at(g)
    BY <1>4, <1>6, <2>2, MaxOfTwo
  <2> HIDE DEF at
  <2>6. \A g \in active : ReadyAt(fb[g], at(g)) /\ at(g) >= 1
    BY <1>6, <2>4, <2>5 DEF ReadyAt
  <2>7. \A g \in active : \A h \in request.segments : decision[h].probe \in Nat
    BY DEF LoopFits, LoopSelected, Decisions
  <2>8. Selected \subseteq request.segments
    BY DEF Selected, SelectedIn, LoopFits, LoopSelected, Decisions
  <2>9. \A g \in active :
          /\ at(g) > decision[g].probe
          /\ request.execution = "causal_commit_wait" =>
               \A h \in request.segments : h >= g => at(g) > decision[h].probe
    BY <1>4, <2>2, <2>5, <2>7, <2>8
  <2>10. ExecutionPlanLegal'
    BY <1>2, <1>4, <2>3, <2>6 DEF ExecutionPlanLegal
  <2>11. ReuseReady'
    BY <1>1, <2>3, <2>6, <2>9 DEF ReuseReady
  <2> QED BY <1>2, <1>3, <2>10, <2>11 DEF LoopFits, LoopPlanned
<1> QED BY <1>1, <1>5, <1>7, <1>8, <1>9

(* Every step of the loop keeps the invariant.                             *)
LEMMA LoopStep == ASSUME LoopFits, [Next]_vars PROVE LoopFits'
<1>1. CASE AllocateBudget
  BY <1>1, AllocateBudgetFits
<1>2. CASE Probe
  BY <1>2, ProbeFits
<1>3. CASE CloseCheckpoint
  BY <1>3, CloseCheckpointFits
<1>4. CASE PlanDense \/ RefuseSelection \/ RejectBeforeLoad \/ RuntimeRaises
  BY <1>4, DensePlanFits
<1>5. CASE Load
  BY <1>5, LoadFits
<1>6. CASE DropUnprofitable
  BY <1>6, DropUnprofitableFits
<1>7. CASE MeasureBoundary
  BY <1>7, MeasureBoundaryFits
<1>8. CASE AdmitCommon
  BY <1>8, AdmitCommonFits
<1>9. CASE AdmitOnePlan
  BY <1>9, AdmitOnePlanFits
<1>10. CASE Execute
  BY <1>10, ExecuteFits
<1>11. CASE UNCHANGED vars
  <2>1. UNCHANGED <<request, phase, cands, compared, step, decision, emitted, fb, boundary,
                    active, feasible, plan>>
    BY <1>11 DEF vars
  <2>2. LoopSelected' /\ LoopArrived' /\ LoopDecided'
    BY <2>1 DEF LoopFits, LoopSelected, LoopArrived, LoopDecided, Layer
  <2>3. LoopAnnounced'
    BY <2>1 DEF LoopFits, LoopAnnounced, FloorsNow, Layer
  <2>4. LoopLoaded'
    BY <2>1 DEF LoopFits, LoopLoaded, LoopMeasured, StartsAt, Selected, StaggeredBoundary
  <2>5. LoopPlanned'
    BY <2>1 DEF LoopFits, LoopPlanned, ExecutionPlanLegal, ReuseReady, Selected, Staggers
  <2> QED BY <2>2, <2>3, <2>4, <2>5 DEF LoopFits
<1> QED BY <1>1, <1>2, <1>3, <1>4, <1>5, <1>6, <1>7, <1>8, <1>9, <1>10, <1>11 DEF Next, Serve

(* So it holds of every request.                                           *)
LEMMA LoopInvariant == Spec => []LoopFits
<1>1. Init => LoopFits
  BY LoopStarts
<1>2. LoopFits /\ [Next]_vars => LoopFits'
  BY LoopStep
<1> QED BY <1>1, <1>2, PTL DEF Spec

(* The contract classes refuse no plan the selector and the controllers    *)
(* build, no announced floor differs from the plan's, and what is reused   *)
(* is loaded where reuse starts, after the decisions it depends on.        *)
THEOREM LoopIsSound == Spec => []LoopHolds
<1>1. LoopFits => LoopHolds
  <2> SUFFICES ASSUME LoopFits PROVE LoopHolds
    OBVIOUS
  <2>1. phase \in {"selected", "loaded", "planned"} =>
          /\ SelectionPlanLegal
          /\ Staggers => emitted = [g \in request.segments |->
                                      IF g \in Selected
                                      THEN EligibleFloors(decision, request.execution)[g] ELSE 0]
    BY SelectionLegal
  <2>2. (phase \in {"planned", "executed"} => ExecutionPlanLegal) /\ ReuseReady
    BY DEF LoopFits, LoopPlanned
  <2> QED BY <2>1, <2>2 DEF LoopHolds, PlansLegal
<1> QED BY <1>1, LoopInvariant, PTL

(* The comparison budget is given out at once and to the last candidate    *)
(* that fits, and every floor is announced for the very next layer.        *)
THEOREM LoopInTime == Spec => SelectionInTime
<1>1. ASSUME LoopFits, [Next]_vars PROVE [GivenOutInFull /\ AnnouncedInTime]_vars
  <2>1. CASE UNCHANGED vars
    BY <2>1
  <2>2. CASE AllocateBudget
    <3>1. AnnouncedInTime
      BY <2>2 DEF AllocateBudget, AnnouncedInTime
    <3>2. PICK taken : /\ taken = Allocate(cands, request.budget)
                       /\ compared' = [g \in request.segments |-> ComparedOf(taken, g)]
      BY <2>2 DEF AllocateBudget
    <3>3. phase = "arrived" /\ LoopSelected /\ LoopArrived
      BY <1>1, <2>2 DEF AllocateBudget, LoopFits
    <3>4. /\ taken = {c \in cands : c.source \in compared'[c.segment]}
          /\ UpperSum(taken) <= request.budget
          /\ \A c \in cands \ taken :
               c.eligible => UpperSum(taken) + c.upper > request.budget
      BY <3>2, <3>3, ComparedIsTaken
    <3> QED BY <3>1, <3>4 DEF GivenOutInFull
  <2>3. CASE CloseCheckpoint
    <3>1. /\ phase = "probing" /\ LoopSelected /\ LoopAnnounced
      BY <1>1, <2>3 DEF CloseCheckpoint, LoopFits
    <3>2. /\ emitted' = Announce(ClosedDecision)
          /\ ClosedDecision \in Decisions(request.segments)
          /\ Extends(decision, ClosedDecision, Layer)
      BY <2>3, <3>1, CloseExtends
    <3>3. \A g \in request.segments : emitted'[g] # emitted[g] => emitted'[g] = Layer + 1
      BY <3>1, <3>2, AnnouncesAll
    <3> QED BY <3>1, <3>3 DEF GivenOutInFull, AnnouncedInTime
  <2>4. CASE /\ Probe \/ PlanDense \/ RefuseSelection \/ RejectBeforeLoad \/ Load
                \/ DropUnprofitable \/ MeasureBoundary \/ AdmitCommon \/ AdmitOnePlan
                \/ Execute \/ RuntimeRaises
    <3>1. emitted' = emitted /\ phase # "arrived"
      BY <2>4 DEF Probe, PlanDense, RefuseSelection, RejectBeforeLoad, Load, DropUnprofitable,
                  MeasureBoundary, AdmitCommon, AdmitOnePlan, Execute, RuntimeRaises
    <3> QED BY <3>1 DEF GivenOutInFull, AnnouncedInTime
  <2> QED BY <1>1, <2>1, <2>2, <2>3, <2>4 DEF Next, Serve
<1> QED BY <1>1, LoopInvariant, PTL DEF Spec, SelectionInTime
=============================================================================
