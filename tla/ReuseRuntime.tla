---------------------------- MODULE ReuseRuntime ----------------------------
(***************************************************************************)
(* The runtime adapter between a two-stage controller and an engine that   *)
(* may answer anything (src/probekv/cacheblend_closed_loop_runtime.py).    *)
(* The adapter belongs to one request.  Its caller may call the methods in *)
(* any order and with any selection or decision, and call again after one  *)
(* raised: what the engine did by then is done, and the state is as before.*)
(* The timings of an observation are kept as whether the checks of         *)
(* load_and_schedule accept them.                                          *)
(***************************************************************************)
EXTENDS Naturals

CONSTANTS KnownSources, UnknownSource, Abstained,
          ProbeLayers, LastBoundary,      \* total_layers
          LoadBytes, SafeRatios,
          MaxEngineCalls                  \* bound on the calls that reach the engine

VARIABLES runtimeState, lockedSource,
          observed,         \* _observation
          profiledAs,       \* _profile
          outcome,          \* the execution returned to the caller
          engineRuns,       \* every reuse the engine executed, returned or not
          engineCalls

runtimeVars == <<runtimeState, lockedSource, observed, profiledAs, outcome, engineRuns, engineCalls>>

AnySource == KnownSources \cup {UnknownSource}
Boundaries == 1..(LastBoundary + 1)
Selections == [source : AnySource \cup {Abstained}, probe : ProbeLayers, ratio : SafeRatios]
Schedules  == [source : AnySource, boundary : Boundaries, bytes : LoadBytes, timed : BOOLEAN]
BoundaryProfiles == [source : AnySource, boundary : Boundaries, ratio : SafeRatios]
(* ExecutionDecision: reuse is accepted for a Source, at a boundary.       *)
Decisions ==
  [source : AnySource, reuse : {TRUE}, boundary : Boundaries]
    \cup [source : AnySource \cup {Abstained}, reuse : {FALSE}, boundary : {0}]
(* CacheBlendExecutionObservation: a full run reports no boundary.         *)
PossibleRuns ==
  [mode : {"reuse"}, source : AnySource, boundary : Boundaries, wasted : {0}]
    \cup [mode : {"full"}, source : AnySource \cup {Abstained}, boundary : {0}, wasted : LoadBytes \cup {0}]

NotYet == [source |-> Abstained]

RuntimeInit ==
  /\ runtimeState = "idle" /\ lockedSource = Abstained
  /\ observed = NotYet /\ profiledAs = NotYet /\ outcome = NotYet
  /\ engineRuns = {} /\ engineCalls = 0

-----------------------------------------------------------------------------
(* _source_for_selection.                                                  *)
MayUse(sel) ==
  /\ sel.source \in KnownSources
  /\ lockedSource # Abstained => lockedSource = sel.source

EngineCalled == engineCalls < MaxEngineCalls /\ engineCalls' = engineCalls + 1

(* The ticket must be for the Source and cover what was transferred.       *)
ScheduleAccepted(sel, ticket, seen) ==
  /\ ticket.source = sel.source /\ seen.source = sel.source
  /\ sel.probe <= seen.boundary /\ seen.boundary <= LastBoundary
  /\ seen.timed /\ seen.bytes <= ticket.bytes

LoadAndSchedule(sel) ==
  /\ runtimeState = "idle" /\ MayUse(sel) /\ EngineCalled
  /\ \E ticket \in [source : AnySource, bytes : LoadBytes], seen \in Schedules :
       IF ScheduleAccepted(sel, ticket, seen)
       THEN /\ lockedSource' = sel.source
            /\ observed' = seen /\ runtimeState' = "scheduled"
       ELSE UNCHANGED <<lockedSource, observed, runtimeState>>
  /\ UNCHANGED <<profiledAs, outcome, engineRuns>>

(* `feedback` is what the caller says was scheduled.                       *)
MeasureRefinedCost(sel, feedback) ==
  /\ runtimeState = "scheduled" /\ MayUse(sel)
  /\ feedback.source = sel.source /\ feedback.boundary = observed.boundary
  /\ EngineCalled
  /\ \E p \in BoundaryProfiles :
       IF p = [source |-> sel.source, boundary |-> feedback.boundary, ratio |-> sel.ratio]
       THEN profiledAs' = p /\ runtimeState' = "profiled"
       ELSE UNCHANGED <<profiledAs, runtimeState>>
  /\ UNCHANGED <<lockedSource, observed, outcome, engineRuns>>

(* What the engine ran is checked once it ran.                             *)
ExecuteReuse(sel, dec) ==
  /\ runtimeState = "profiled"
  /\ dec.source = sel.source /\ MayUse(sel) /\ dec.reuse
  /\ EngineCalled
  /\ engineRuns' = engineRuns \cup {sel.source}
  /\ \E run \in PossibleRuns :
       IF run.mode = "reuse" /\ run.source = sel.source /\ run.boundary = dec.boundary
       THEN outcome' = run /\ runtimeState' = "executed"
       ELSE UNCHANGED <<outcome, runtimeState>>
  /\ UNCHANGED <<lockedSource, observed, profiledAs>>

Wasted == IF observed = NotYet THEN 0 ELSE observed.bytes

ExecuteFull(sel, dec) ==
  /\ runtimeState # "executed"
  /\ dec.source = sel.source /\ ~dec.reuse
  /\ sel.source # Abstained => MayUse(sel)
  /\ EngineCalled
  /\ \E run \in PossibleRuns :
       IF run.mode = "full" /\ run.wasted = Wasted
       THEN outcome' = run /\ runtimeState' = "executed"
       ELSE UNCHANGED <<outcome, runtimeState>>
  /\ UNCHANGED <<lockedSource, observed, profiledAs, engineRuns>>

RuntimeNext ==
  \E sel \in Selections :
    \/ LoadAndSchedule(sel)
    \/ \E s \in AnySource, b \in Boundaries : MeasureRefinedCost(sel, [source |-> s, boundary |-> b])
    \/ \E dec \in Decisions : ExecuteReuse(sel, dec) \/ ExecuteFull(sel, dec)

RuntimeSpec == RuntimeInit /\ [][RuntimeNext]_runtimeVars

-----------------------------------------------------------------------------
(* Whatever engine and caller do, reuse runs from the one Source that was  *)
(* loaded, after it was profiled at the boundary the schedule reached; the *)
(* outcome names that Source; and a request that computes in full after a  *)
(* load accounts for the bytes of that load.                               *)
ReuseOfTheLoaded ==
  /\ engineRuns \subseteq {lockedSource} \ {Abstained}
  /\ engineRuns # {} =>
       /\ profiledAs.source = lockedSource /\ observed.source = lockedSource
       /\ profiledAs.boundary = observed.boundary /\ profiledAs.boundary <= LastBoundary
  /\ runtimeState = "executed" =>
       IF outcome.mode = "reuse" THEN outcome.source = lockedSource
       ELSE outcome.wasted = (IF observed = NotYet THEN 0 ELSE observed.bytes)
=============================================================================
