-------------------------- MODULE SelectionDispatch --------------------------
(***************************************************************************)
(* Which selection protocol a whole run uses                               *)
(* (src/probekv/v8_schema8_fallback.py): a candidate is frozen at H2, from *)
(* what is known before the repair Profile exists, and the final dispatch  *)
(* resolved from it once the later Profiles are.  In between a Profile may *)
(* be measured again and a runtime lose or gain its qualification.         *)
(***************************************************************************)
EXTENDS Naturals

CONSTANTS DispatchChanges   \* bound on what changes between H2 and the dispatch

VARIABLES depthProfile,     \* SelectionDepthProfileV8 as the resolver reads it
          fastQualified,    \* fast_selection_qualification.passed()
          legacyQualified, laterGates,
          h2,               \* H2SelectionCandidate, NoPath where none is frozen
          dispatched,       \* SelectionRuntimeDispatch.path
          changes

dispatchVars == <<depthProfile, fastQualified, legacyQualified, laterGates, h2, dispatched, changes>>

NoPath == "none"
DepthProfiles ==
  [present : BOOLEAN, frozen : BOOLEAN, ofModel : BOOLEAN, depths : {{1}, {1, 2}}]
FastPaths == {"d1_only", "d1_d2_rescue"}
FastPath(p) == IF p.depths = {1} THEN "d1_only" ELSE "d1_d2_rescue"

DispatchInit ==
  /\ depthProfile \in DepthProfiles /\ fastQualified \in BOOLEAN
  /\ legacyQualified \in BOOLEAN
  /\ laterGates \in [repair : BOOLEAN, cost : BOOLEAN, schema8 : BOOLEAN]
  /\ h2 = NoPath /\ dispatched = NoPath /\ changes = 0

(* The Profile fits the model, is frozen, and its selection passed.        *)
FastSelection ==
  depthProfile.present /\ depthProfile.frozen /\ depthProfile.ofModel /\ fastQualified

(* resolve_h2_selection_candidate.                                         *)
FreezeCandidate ==
  /\ h2 = NoPath /\ dispatched = NoPath
  /\ h2' = IF FastSelection THEN FastPath(depthProfile)
           ELSE IF legacyQualified THEN "legacy" ELSE "dense"
  /\ UNCHANGED <<depthProfile, fastQualified, legacyQualified, laterGates, dispatched, changes>>

Remeasure ==
  /\ dispatched = NoPath /\ changes < DispatchChanges /\ changes' = changes + 1
  /\ \/ depthProfile' \in DepthProfiles /\ UNCHANGED <<fastQualified, legacyQualified, laterGates>>
     \/ fastQualified' = ~fastQualified /\ UNCHANGED <<depthProfile, legacyQualified, laterGates>>
     \/ legacyQualified' = ~legacyQualified /\ UNCHANGED <<depthProfile, fastQualified, laterGates>>
     \/ /\ laterGates' \in [repair : BOOLEAN, cost : BOOLEAN, schema8 : BOOLEAN]
        /\ UNCHANGED <<depthProfile, fastQualified, legacyQualified>>
  /\ UNCHANGED <<h2, dispatched>>

(* resolve_selection_runtime_path, with the candidate or without one.      *)
FastReady(candidate) ==
  /\ FastSelection /\ laterGates.repair /\ laterGates.cost /\ laterGates.schema8
  /\ candidate \in FastPaths \cup {NoPath}

LegacyAllowed(candidate) == legacyQualified /\ candidate # "dense"

(* It raises where the fast path is not the one frozen.                    *)
Dispatch(candidate) ==
  /\ dispatched = NoPath
  /\ FastReady(candidate) => candidate \in {NoPath, FastPath(depthProfile)}
  /\ dispatched' = IF FastReady(candidate) THEN FastPath(depthProfile)
                   ELSE IF LegacyAllowed(candidate) THEN "legacy" ELSE "dense"
  /\ UNCHANGED <<depthProfile, fastQualified, legacyQualified, laterGates, h2, changes>>

DispatchNext == FreezeCandidate \/ Remeasure \/ Dispatch(h2)
DispatchSpec == DispatchInit /\ [][DispatchNext]_dispatchVars

-----------------------------------------------------------------------------
(* Of the frozen candidate and the dispatch, the dispatch never reuses     *)
(* more: a dense candidate stays dense, a legacy one does not turn fast,   *)
(* a fast one is used as it was frozen or given up.                        *)
DispatchWithinCandidate ==
  dispatched # NoPath =>
    /\ h2 = "dense" => dispatched = "dense"
    /\ h2 = "legacy" => dispatched \in {"legacy", "dense"}
    /\ h2 \in FastPaths => dispatched \in {h2, "legacy", "dense"}
    /\ dispatched \in FastPaths => fastQualified /\ depthProfile.frozen /\ laterGates.repair
=============================================================================
