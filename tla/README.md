# Verification of ProbeKV

TLA+ models of ProbeKV (`src/probekv/`, with the drivers of `scripts/server/`
and the model patches): what it decides about reusing cached KV, the memory this
takes, the data plane that carries it out, and the programs around it that
measure, resume and unlock one another. TLC checks the modules on small
instances (`MC*.tla`, `MC*.cfg`); TLAPS proves the theorems of the `*Proofs`
modules for every value of the constants. `PROJECT.json` lists components, runs, the
mutant that shows each property can fail, the source lines of every definition,
findings, hazards and theorems.

## The system

ProbeKV is a research harness in which the protocols v3 to v8, and v8 in its
schemas 5 to 10, are kept side by side. The newest path of a request is

```
selector --winner--> request controller --gates 2, 3--> joint planners
   |                   |        |       \
comparison budget  lease manager  HBM    transfer authorizer <- executor
                       |                                          |
      tiered coordinator -- backing manager        online engine, resumable
                       |                           session, patched model
                 Source pool <- materialization
```

and around it stand the programs that measure Profiles, qualify a checkout, run
the H1 pilots and keep their result files. Calls are single-threaded Python, so
one method is one atomic step. What interleaves are the calls of requests and
runtimes over shared managers, the copies that finish between them, and, for the
programs, kills and resumptions under another checkout.

| Component | State it keeps | What makes it correct |
|---|---|---|
| Lease manager `v8_leases.py` | Sources, Replicas with busy counters, leases, the frozen Source of each segment | counters equal live leases; nothing leased is deleted; a release is final, a reclaim respects the grace |
| HBM manager `v8_schema6_hbm.py` | reservations, epoch | the safety reserve survives; every reservation is given back |
| Request controllers `v8_schema6_runtime.py`, `v8_schema8_runtime.py` | four axes per segment; the barrier, detached admissions | legal combinations; preparation owns its lease and reservation; dense before the barrier; final states are final |
| Joint planners of v7, v8 schemas 5 to 7 | none | the best feasible set under their own order, never beyond HBM; a stale plan is refused |
| Schema-5 orchestrator `v8_orchestration.py` | phases, leases of a request | commits in causal order; every failure gives back what was taken |
| Residual selectors `v8_selector.py` and successors | decision per checkpoint | the winner is not dominated; revisions and trace agree |
| Comparison budget, same file | reservations | a request compares only within its share |
| Transfer authorizer `v8_schema6_transfer.py` | authorizations | a held one proves lease and reservation; a released one gave both back |
| Backing manager and coordinator `v8_schema8_storage.py` | entries per tier, tickets of migrations | tiers fit; victims idle and least recent; one backing; tickets valid |
| v7 pool, schema-10 growth, materialization | Variants, Artifacts, Replicas, decisions | capacities, bucket limits, only idle and named victims |
| v6 pool `global_source_pool.py`, v3 store `source_store.py` | Sources, replicas, model namespaces | as above; a model drains before it is purged |
| Online engine, session, executor | active rows, commits, old-KV buffers, authorizations | dropped rows never return; a layer runs what was admitted, on rows that arrived; every request ends |
| Repair plans and masks | rows per layer | plans pass their validation; a support only shrinks |
| The patched model of a process | flags, old-row slots, native prefix cache | each forward in its caller's mode, on its own rows |
| v4-v6 controllers, selector, scheduler | announcements, loads, plans, waiting queue | no segment reuses in a computed layer; plans legal; windows end |
| Reuse runtime adapter | stage of one reuse | what executes is what was loaded and profiled |
| Job ledger, H1 case runner | result rows, attempts, open case | a kill neither loses nor repeats a job; every job of a case gets an outcome |
| Qualification, Profile pipeline, Profile analysis, dispatch | frozen documents, rows, audits, bundles, gates | a gate stands for what was measured |
| Coverage replay | pool of a trace | causal, evicts the oldest |

## Modules

Request path

| Module | Models |
|---|---|
| `LeaseOps`, `Leases` | `V8LeaseManager`: for each method `CanF` (it returns) and `F` (the state it leaves); and driven by any callers with a clock |
| `LeaseOpsProofs`, `LeasesProofs` | what the operators of `LeaseOps` keep, for every model that composes them; the theorems about `Leases` and `RequestOrchestrator` |
| `FoldLemmas` | induction over numbers and finite sets without an operator parameter, and the sums the models use |
| `RequestOps`, `RequestController` | `UnifiedHBMReservationManager`, the workspace microbatch and `Schema6RequestController` as operators, and requests under policies A and C with planners, workspaces, evictions |
| `SegmentFate` | abstract specification: the public chain of a segment's decisions |
| `BarrierController` | `Schema8BarrierRequestController`, extending `RequestController` |
| `RequestProofs` | the theorems about `RequestController`, `BarrierController` and `TransferAuthorizer` |
| `JointPlanners` | the five joint planners as functions of a problem, each loop as the fixpoint it computes, and the reference they are compared with |
| `CommitController`, `RequestOrchestrator` | schema 5: phases, gates and commit policies; the calls that freeze, plan and lease over `LeaseOps` |
| `ResidualSelector` | the selectors of schemas 5 to 10; the budget ledger |
| `SelectionProofs` | the theorems about `ResidualSelector`, `CommitController` and `JointPlanners` |
| `TransferAuthorizer` | authorizations over leases and HBM |

Storage

| Module | Models |
|---|---|
| `BackingOps`, `BackingCoordinator` | the two-tier LRU as operators; driven alone (`policy`), and over the Replica registry with migrations (`backing`) |
| `SourcePool` | `Schema10SourcePool` on `V7SourcePool`, with the decisions of materialization |
| `GlobalPool` | the v6 pool in both serving modes |
| `SourceStore` | the store of v3 to v5 under both eviction policies |
| `StorageProofs` | the theorems about `SourcePool`, `GlobalPool` and `BackingCoordinator` |

Data plane

| Module | Models |
|---|---|
| `PrefillSession` | the resumable session as operators |
| `OnlineEngine`, `ReuseExecutor` | the repair plans of schema 8 and the engine with its class chain, called in any order; the order in which the executor calls it, with authorizations and errors |
| `EngineProofs` | the theorems about `OnlineEngine` and `ReuseExecutor` |
| `RepairMasks`, `JointRepair` | rows executed layer by layer under the staggered and schema-7 policies; the joint repair controller |
| `ModelModes` | the flags, old rows and prefix cache of the one patched model, through all forwards of a process |
| `CaseRunner` | the case runner of the first H1 pilot on the native engine |
| `ReuseRuntime` | the adapter between a controller and an engine that may answer anything |

Closed loop of v4 to v6, and the programs

| Module | Models |
|---|---|
| `ClosedLoop` | the interval selector with the comparison allocation, and selection, scheduling, measurement and admission under the four controllers |
| `LoadWindow` | the waiting-queue scheduler under every policy, with the prefetch choice |
| `JobLedger` | a result file, the workers that append to it and resume, kills inside an append, the merge |
| `Qualification` | frozen documents, resumable qualification, gate, H1 unlock, while the operator moves |
| `ProfilePipeline`, `ProfileAnalysis` | sessions of the Profile runner, aggregation, freeze file by file, dual gate; thresholds, dispatch and its replay |
| `SelectionDispatch`, `CoverageReplay` | the protocol between H2 and dispatch; a coverage curve |
| `OfflineProofs` | the theorems about `JobLedger`, `Qualification`, `LoadWindow` and `RepairMasks` |

The lease manager is described once and composed by four models through its
operators, as the code passes one manager to all of them. A method that raises
before its first assignment is a disabled action; one that raises later leaves
the state it had reached, unless the code rolls back. `RequestController`
implements `SegmentFate` (`FollowsChain`): the fate of a segment is computed from
the four axes of its row, and every step of the controllers moves fates along
the chain of `docs/PROBEKV_V8_PROTOCOL.md` or not at all.

### Modelling assumptions

* In `RequestController` costs are not modelled: a planner may return any
  decision its structural constraints allow, and a Gate-1 threshold may pass or
  fail. What the planners compute is in `JointPlanners`.
* `Wanted`: a runtime starts a prefetch only for a segment not yet committed, and
  plans no segment already refined to dense. The methods do not check either.
* No lease expires in the request, transfer, backing and orchestrator models
  (`Now = 0`); expiry is the subject of `Leases`.
* The runtime of `BackingCoordinator` is left to integration by the code: it
  migrates toward the tier the policy chose, finishes each ticket once and evicts
  the backing of dropped Sources, in any order.
* `SourcePool` keeps the epochs of its clock as orders, sets of pairs of a Variant
  and a newer one, and takes decision and publication for two steps, since
  `register_variant` checks for what may come in between. `GlobalPool` abstracts
  values to any order.
* `JointPlanners` writes a loop by what it leaves: the greedy loop takes a segment
  exactly when it fits beside those taken before it, the gamma loop stops at the
  first set of dropped segments that meets gamma. That such a set exists, so that
  the `CHOOSE` means the loop, is a lemma (`GreedyTakes`, `TrimStops`,
  `AdmissionExists`).
* What the modules are instantiated with is assumed by name: plans handed to the
  engine have passed the validation of a plan (`OfferedPlansAreLegal`), winners are
  Sources (`WinnersAreSources`), a job is in one group (`GroupsAreDisjoint`), a
  matrix has a job (`MatrixHasJobs`), scenarios and queues of the window and the
  segments of the masks are what their constructors accept (`WindowInputs`,
  `MasksAreLegal`), the segments of a request of schema 5 are finitely many in one
  order (`OrchestratedRequests`), capacities and sizes of the v6 pool are natural
  numbers (`GlobalPoolShape`). TLC evaluates each on its instance.
* `GlobalPool` unrolls its two eviction loops `MaxTurns` times, twice the number of
  Sources. `TierLoopEnds` and `CanonicalLoopEnds` prove that this loses nothing: a
  pool that is still full then has nothing left to take.
* The schema-5 planner may raise. Its call is outside both `try` blocks, so the
  logical leases the call has taken stay, and no state names them. The model
  remembers them (`Abandoned`), and `ClosedLoopHolds` claims of them only that
  they are all the request holds and that none is on a Replica.
* Times, residuals and ratios are small integers or whole percentages.
* In `ModelModes` two canonical prompts may or may not share their first cached
  block; every driver stops its process at the first exception.

## Runs

Several models share a run: a variable `part` says which of them a behaviour
exercises. The variables of the others then keep one idle value, and a property
of theirs is stated under its `part` where it would not hold of that value.

| Run | Instance | Shows |
|---|---|---|
| `leases` | 2 requests, 2 Sources in 2 namespaces with a GPU and a CPU Replica, each registrable twice; 2 leases, batches of 2, clock to 2 with TTL and grace 1 | `Accounting`, `Protection`, `FrozenWinner`, `ReclaimedAfterGrace`, `ReleasedForGood`, with sweeps that know any subset of live owners |
| `requests` | 1 request of 2 segments that compete for one Source, under schema 6 or behind the barrier of schema 8 | `PreparationOwned`, `CausalCommit`, `DenseFirst`, `BarrierAccurate`, the refinement `FollowsChain` |
| `request_two` | 2 requests with HBM for about one and a half preparations and stale plans; selectors over 3 Sources and 2 checkpoints; a budget of 4 with batches of 3; planners on 3 segments; commits of 3 segments; a v6 pool of 4 Sources and 2 models | `TwoRequestsHold`, `ChoiceJustified`, `DecisionsAgree`, `BudgetBound`, `PlansExact`, `CommitCausalAndFinal`, `GlobalPoolHolds`, `OnlyIdleIsLost` |
| `storage` | 3 Variants (one of two units) for a bucket of 2 on a GPU tier of 1 and a CPU tier of 2; 3 transfers over 3 Replicas with an HBM of 5, of which 2 are reserve; a policy of 4 Sources of 1 to 3 units on CPU 3, SSD 2, and a coordinator of 3 of them with 6 Replica ids; 3 schema-5 requests, one without a match, over two CPU Replicas of 1 and a GPU Replica of 2 | `CapacityKept`, `VariantLimits`, `EvictionsJustified`, `TransfersBalance`, `CoordinatorHolds`, `PolicyHolds`, `ClosedLoopHolds` |
| `engine` | 2 segments of 3 and 2 rows, 4 layers, three kinds of plan, executor or any caller | `RunsAsAdmitted`, `InstalledWhileAdvancing`, `AuthorizedThroughout`, `NeverReenters`, `RequestEnds` |
| `offline` | fourteen parts: ledger of 4 jobs in 3 groups with 2 failures and 2 crashes; qualification of 2 jobs between 2 commits and 2 GPUs; loop of 2 segments and 2 Sources; windows; Profile sessions; a store of 4 Sources, 3 of one content with 2 versions, under every pair of policies (fixed-resident under both evicting ones); a replay of 4 Variants with K = 2; and so on | `LedgerHolds`, `ProgramsHold`, `LoopHolds`, `WindowWellSpent`, `FailureIsFinal`, `RowsNeverReturn`, `LibraryKeeps`, `SelectionInTime`, `EveryPartEnds` |
| `pool_lru`, `transfer_scoped`, `backing_leased` | parts of `storage` | violated: `LruReplaces`, `LeasesAreRequestScoped`, `LeasedReplicaLives` |
| `engine_rows` | as `engine` | violated: `CommittedRowsInstalled` |
| `case_slots`, `qualification_mixed` | parts of `offline` | violated: `OneSlotPerLayer`, `MeasuredWhereUnlocked` |

Bounds are named constants (`MaxLeases`, `MaxPlans`, `MaxEpoch`, `MaxCrashes`,
`MaxMoves`, `MaxOperations`, `MaxProcesses`, ...) and appear in guards only. They
are large enough for the interesting cases: two leases of one Replica, a lease of
a re-registered Replica, two plans of different ages, a refused reservation, a
cascade CPU to SSD to nothing, a migration there and back, a kill after a resumed
kill, three operations after each other on one model, a third process resuming a
case that failed twice. Each property has a mutant of the code that TLC finds
within the same bounds, so none is out of reach of its instance. `OwnerSymmetry`
and `Symmetric` are used where no property orders what they permute.

The part `pool` has a state constraint (`OneOfThem`), which joins three
explorations: two decisions racing for one bucket; one decision while the model
is switched; one decision and one lease while Replicas are attached and evicted,
with one Variant that has been looked up and no exploration. What the constraint
cuts off is covered by `StorageProofs`, which assumes none of it. So is what it cuts
off of the part `registry`: either one Source goes between the tiers and back while
another takes the CPU and leaves it and a request leases the first, or two migrate
at once without requests. The parts share their Sources and Replicas; in the other
two the constraint names those each is about.
The registry part uses each Replica id once: with ids reused, the release of a
lease that survived the violation of `LeasedReplicaLives` is charged to the new
Replica of that id.

Requests end, files are complete and clocks stop at their bounds, so only
`leases` checks deadlock.

### Fairness and liveness

* `RequestEnds` (`engine`): weak fairness of the executor's next step, since its
  thread runs until it blocks on a copy, and of the copy stream, which finishes
  what was put on it. Errors (`Raise`) are never obliged to happen.
* `EveryPartEnds` (`offline`): the operator resumes a ledger as long as jobs are
  pending, an empty session ends (weak), and some session is long enough for its
  next group (strong fairness of `GroupCompletes`: sessions are cut by deadlines,
  kills and failures, and each is bounded or repeated). The closed loop and the
  load window are plain loops of one thread: weak fairness of their step.
* Heartbeats, sweeps and releases are called from outside the managers and nothing
  in the repository obliges their callers, so nothing is claimed to follow.

## Findings

1. `transfer_scoped`: when the reservation inside `authorize` fails, the logical
   lease taken just before stays (`v8_schema6_transfer.py:135`).
2. `backing_leased`: publishing a migration deletes an old backing that was leased
   while the copy ran (`v8_schema8_storage.py:463`).
3. `pool_lru`: a replacement is planned by request use and checked by value when
   it is published, so an up-to-date plan is refused as stale
   (`v7_source_pool.py:243`).
4. `engine_rows`: `finish_prefill` runs the layers after the last boundary without
   installing the Source rows (`cacheblend_v6_online_engine.py:614`).
5. `case_slots`: closing a case leaves the model with no old-row slot, and the
   dense reference of the next case indexes one per layer, so every case of a
   process after its first is recorded as failed
   (`cacheblend_server_runtime.py:173`, also 603 and
   `run_cacheblend_h1_pilot.py:263`). A resumption gets one case further.
6. `qualification_mixed`: rows measured under another commit count towards the gate
   of a resumed qualification (`run_v8_a800_qualification.py:174`).

Smaller observations, in the models but claimed by no property:

* The runners of v7 and v8 H1 write a group that fails again with attempt 0
  (`run_v7_h1_pilot.py:72`), which the merge reports as a conflict.
* `register` of the tiered coordinator plans with the busy flags of its last
  synchronization (`v8_schema8_storage.py:369`), unlike `access`.
  The entry of a Source being promoted may so be demoted as idle, and publishing
  the promotion sets its tier again (line 470) without making room: the capacities
  `PolicyHolds` keeps for the policy alone do not bound the coordinator's CPU tier.
* Rows of a Profile carry no commit either; a failed initialization on resume, or
  a torn line, makes its directory unresumable.
* A job group longer than every session never progresses.
* At the last depth the trace of the selector proposes the cheapest of the band
  where the decision locks the winner by margin.
* The v6 pool can go below `min_variants` for tier room, since it groups contents
  by resident tier; `activate_model` registers before it raises.
* `ReuseRuntime`: a load that raises after its first call leaves the stage IDLE, so
  a second load may begin; a failed execution may be repeated; the boundary of a
  decision is not compared with the profile.
* The `current` prompt of a fixture has no nonce and its rows are taken as they
  come: after another fixture with the same first block they may be the rest of a
  prefix-cache hit. `ModelModes` records this (`current`); Sources are checked.
* The bare request of the native-prefix sentinel relies on flags earlier turns
  left. Every driver stops at the first exception, so they are clear.
* `run_group` of the H1 runtime takes the digest of its Source before and after
  from one computation made after the runs, so the two can never differ.

## Proofs

Seven modules hold theorems, over `FoldLemmas`. A theorem holds for all values of
the constants its model declares, under that model's named assumptions only:
any number of requests, segments, Sources, Variants, jobs or layers, any sizes,
costs and bounds. No bound of a run is used in a proof, except as a natural number.

| Module | Theorems | Inductive invariant |
|---|---|---|
| `LeasesProofs` | `TypeOK`, `Accounting`, `Protection`, `FrozenWinner`, `ReleasedForGood`, `ReclaimedAfterGrace`; `ClosedLoopHolds` | `IInv`: `Good`, `Timely`; `LoopInv` |
| `RequestProofs` | `PreparationOwned`, `CausalCommit`, `TwoRequestsHold`, `DenseFirst`, `BarrierAccurate`, and the refinement `FollowsChain`, for the schema-6 controller, the barrier controller, and the two as `MCRequests` joins them; `TransfersBalance` | `IInv`: `WorldFits`, `PlanFits`; with `BInv` behind the barrier: `RInv`; `AuthInv` |
| `SelectionProofs` | `BudgetBound`; `CommitCausalAndFinal`; `ChoiceJustified`, `DecisionsAgree`; `PlansExact` | `BudgetFits`; `CommitFits`; `SelectionFits`; `PlannersFit` |
| `EngineProofs` | `RunsAsAdmitted`, `InstalledWhileAdvancing`, `NeverReenters`, `AuthorizedThroughout` | `EngineFits`, `ExecutorFits`; `TransfersHold` |
| `OfflineProofs` | `LedgerHolds`; `UnlockedAfterAllPassed`, `FailureIsFinal`; `WindowWellSpent`; `RowsNeverReturn`; `LoopHolds`, `SelectionInTime` | `LedgerFits`; `QualFits`; `WindowFits`; `MasksFits`; `LoopFits` |
| `StorageProofs` | `CapacityKept`, `VariantLimits`, `EvictionsJustified`; `GlobalPoolHolds`, `OnlyIdleIsLost`; `PolicyHolds`, `CoordinatorHolds` | `PoolFits`; `GlobalInv`; `PolicyInv`, `Coordinated` |

**Lease manager.** `Good` joins the type, `CountersMatch` (each counter is the
number of live leases on the Source or Replica), `Shape` (what a lease record of
each purpose and state looks like) and `LeasesProtect`; `Timely` says a suspect
lease was suspected no earlier than a TTL floor after its last heartbeat.
`Accounting` alone is not inductive: giving a counter back needs to know that a
lease counts as copying only while it is live and on a Replica, which is `Shape`.
`Protection` needs `Accounting`, because eviction looks at counters and not at
leases. `LeaseOpsProofs` proves that each method keeps these, as lemmas about the
operators; `RequestProofs` uses the same lemmas for the manager of its models.

**Requests.** `WorldFits` relates each row of a request to the lease table and the
reservation table in both directions: a row that prepares names a live lease and
reservation of its own, and every live lease or reservation of a segment is the
one its row names. `PreparationOwned` is one direction of it. What makes it
inductive against planners is `PlanFits`: a plan may be applied when its epoch is
the current one, and preparing anything takes a new epoch, so a plan that is still
current closes no segment that was prepared since it was made. The barrier adds
that nothing is admitted or committed before it closes and that all is resolved
afterwards (`BInv`). The refinement is proved per action: each maps, through the
fate computed from the four axes of a row, to `Plan`, `Refine` or a stutter of
`SegmentFate`.

**Selection and planning.** The budget needs its reservations to be finitely many
and natural, so that their sum changes by the one given back. A commit is causal
because a wait that has passed is remembered as an invariant of what is
downstream. A selector's state is its input and the decision computed from it, so
`ChoiceJustified` and `DecisionsAgree` are lemmas about that computation. The
planners have no state beyond the problem; `PlansExact` is a theorem about the
algorithms: the gamma loop drops the segment that saves least, and by an exchange
argument (`Exchanged`: swapping one segment of a plan for one that saves no less
keeps gamma met) a set that serves any plan still serves one after the drop, so a
loop that ends empty-handed has shown that no plan exists (`TrimExact`). That is
Gate 3 and the refined planner. The two greedy planners are not exact: one that ends
empty-handed may have missed a plan of several small segments for one that saves
more and is large. `PlansExact` states, and `MissedForRoom` proves, that this is the
only way: every plan missed has a segment for which the better ones leave no room in
HBM. It also covers that a greedy plan leaves nothing out that saves and fits, and
that when the prefetched segments alone exceed the HBM no plan would do.

**Data plane.** `EngineFits` keeps, for every committed segment, the rows that its
support may still hold and the Source rows on arrival; `ExecutorFits` adds that
the executor admits its segments once. `NeverReenters` is an action property from
the same invariant. `AuthorizedThroughout` is inductive by itself once typed.

**Programs.** `LedgerFits` carries what a session remembers of the file it resumed
(`session.todo` and `session.attempt` against the rows), which is what keeps a
resumption from repeating or skipping an attempt. `QualFits` carries, for every
document, that what it was made from was complete. `WindowFits` and `MasksFits`
type the inputs and carry how the rows executed follow from the supports.

**Closed loop.** `LoopFits` says, beside the types, that every announced floor is
the plan's, and that a floor not yet announced is due at the very next layer: new
decisions only ever add floors (`FloorsGrow`), even under policy A, where a floor is
a maximum over the segments behind. A measured plan starts at one boundary where
all of its segments are loaded, and at most one plan was measured per boundary, so
the cheapest exists. `SelectionInTime` rests on the order of the greedy allocation:
comparing benefit densities by multiplying out is a strict weak order
(`DenserOrder`), so both passes try the candidates one after the other, the pass is
the only solution of its recursion, and what was taken before a refused candidate
is part of what was taken in all. From `LoopShape` the proof uses that checkpoints
are layers in rising order, and that comparison times, budgets and measured totals
are not negative; `ProbePolicy`, `VariantComparisonCandidate` and the refined cost
raise otherwise.

**Source pool.** `PoolFits` needs three facts no property states: a Replica in use
is live; each of the orders ranks exactly the stored Variants, totally; and a
decision waiting for publication names a victim only for a mismatch. From the first,
what a publication or eviction frees is idle; from the second, the protected
Variants of a content are at most as many as its limit, since those beyond the
newest lose their protection, and a set ranked by an order has exactly so many
newest elements; capacity is a sum over the residents of a tier, changed by the
one that comes and those that go.

**Transfer authorizer.** An authorization holds a logical lease, a physical one and
a reservation, as the row of a segment of the schema-6 controller does. `AuthInv`
therefore reads each authorization as such a row (`Ghost`) and asks what
`WorldFits` asks of a table of rows. A released authorization is the one difference:
its record stays uncommitted with nothing prepared, so its ghost is a row refined to
dense. No method looks at the row of another request, so the lemmas about the
controller's methods apply to the ghosts. A failing prefetch leaves a row that names
its logical lease (finding `transfer_scoped`); `TransfersBalance` does not deny it.

**Schema-5 orchestrator.** `LoopInv` says that the live leases of a request are
exactly those its state names, on the Sources it locked, and that a physical one is
on a Replica still placed as when it was chosen: a Replica that is leased
cannot be displaced, by `Good`. Planning takes the leases segment by segment in
rising rank and gives back what it took when one fails; the proof follows that
fold, with the leases taken so far as its invariant.

**v6 pool.** Both eviction loops and `attach_replica` leave a pool that is `Shrunk`:
without some Sources that are idle and past probation, without some idle replicas,
all else as before. `Shrunk` is transitive, so it holds of any number of turns, and
the room a loop was asked for is its exit condition. The invariant `Drains` has to
know of each namespace whether a Source of it is at work, since only the end of that
work retires it; purging and switching look at it before they delete.

**Backing policy.** `PolicyInv` is the type of an entry and `WithinCapacity`. The
loops of `_make_room` are folds of a turn over the states that are still full: a
turn takes the one least recent idle entry off the tier, or raises. Two facts carry
the proof. A loop that goes on has taken one entry off its tier with each turn
(`SsdLoopEnds`, `CpuLoopEnds`), so `LoopTurns` turns reach its end and the model
bounds nothing. And each turn takes only what is idle and older than every idle
entry it leaves on the tier, which stays true of the turns together because a
cascade onto SSD changes the recency of none. `BackingNumbers` is assumed: sizes
and capacities are natural and distinct Sources have distinct ids, which break
ties. TLC evaluates it in `MCStorage`.

**Replica coordinator.** `Coordinated` holds of the registry, the policy and the
tickets together. `OneBacking` is not inductive: a publication deletes
what it holds and makes the destination the backing, so one has to know that the
destination belongs to the ticket's Source and to a tier that backs, that the
tickets of one Source are one and the same (`OnePerSource`), and that no lease of
a request counts as a copy (`Uncopied`), so that the copy counters a ticket holds
are given back by its own end only. `AccessSparesBusy` is the policy's theorem
about idle victims, read after a synchronization that made the flags exact. The
copy counters themselves are not claimed to stay natural: only a Replica id that is
stored again and again under leases of an earlier incarnation could go below zero.

`FoldLemmas` supplies what the library cannot say without an operator parameter:
induction over the numbers up to a bound and over finite sets, as statements
about a set of sets (`LeastNumber`, `SubsetInduction`), and from it sums over
finite sets, with an element taken out, split, bounded and compared.

Model-checked only:

* Liveness (`RequestEnds`, `EveryPartEnds`): outside the prover's reach.
* `LibraryKeeps`, and of `ProgramsHold` all but `UnlockedAfterAllPassed`
  (`UnlockedOnlyComplete`): not proved. They join models a run reaches by INSTANCE.

## Not modelled

* Tensors, kernels, attention and timing: what a residual, a summary or a logit is.
* Configuration, validation of files and manifests, audits of patches: stateless.
* Statistics, labelling, data preparation, text processing: no state outlives a call.
* Simulations and job matrices: they replay the components with made-up timings.
* `v8_selection_state_store.py` and `v8_schema7_transfer.py` (pinned staging pool): used by
  tests only.
* Of the v7 pool: relocation with its placement epochs, the multi-model mode,
  unbounded probation; of materialization: schema 9.
* Of the engine: the measurements that only read a fixture (copy interference,
  comparison batches, transfers) beyond the forwards they share.

## Plan

1. Proofs: the sessions of `ProfilePipeline`; the store of v3 to v5.
2. Relocation of the v7 pool; growth of Variants behind the schema-10 barrier.
3. The pinned staging pool; the oracle curve of `v8_schema10_metrics.py`.
