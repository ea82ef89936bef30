----------------------------- MODULE RequestOps -----------------------------
(***************************************************************************)
(* Operators of one request of schema 6: the HBM manager it reserves from  *)
(* (UnifiedHBMReservationManager, src/probekv/v8_schema6_hbm.py) and its   *)
(* Schema6RequestController (src/probekv/v8_schema6_runtime.py).           *)
(***************************************************************************)
EXTENDS LeaseOps

CONSTANTS
    HbmCapacity,   \* allocator_capacity_bytes
    HbmExternal,   \* external_reserved_bytes
    HbmSafety      \* safety_bytes

ASSUME HbmShape ==
    /\ {HbmCapacity, HbmExternal, HbmSafety} \subseteq Nat
    /\ HbmExternal + HbmSafety <= HbmCapacity

(***************************************************************************)
(* The HBM manager, on its state h = [rows, epoch]: the reservations ever  *)
(* made, a reservation id being its position, and the epoch planner        *)
(* snapshots are compared by.  Every caller reserves batches of one row.   *)
(***************************************************************************)
ReservationKinds == {"workspace", "prefetch", "execution"}

EmptyHbm == [rows |-> <<>>, epoch |-> 1]

Unreleased(h) == {i \in DOMAIN h.rows : ~h.rows[i].released}
ActiveReservedBytes(h) == MapThenSumSet(LAMBDA i : h.rows[i].bytes, Unreleased(h))

NonNegative(x) == IF x > 0 THEN x ELSE 0

AllocatorFreeReservableBytes(h) ==
    NonNegative(HbmCapacity - HbmExternal - ActiveReservedBytes(h))

(* selector_lease_bytes, also what reserve_batch compares with.            *)
SafeHeadroom(h) == NonNegative(AllocatorFreeReservableBytes(h) - HbmSafety)

CanReserve(h, bytes) == bytes > 0 /\ bytes <= SafeHeadroom(h)

Reserve(h, o, g, bytes, kind) ==
    [rows |-> Append(h.rows, [owner |-> o, segment |-> g, bytes |-> bytes,
                              kind |-> kind, released |-> FALSE]),
     epoch |-> h.epoch + 1]

CanPromoteReservation(h, i) == ~h.rows[i].released /\ h.rows[i].kind = "prefetch"

(* Mutant: plans made before a promotion stay current.                     *)
PromoteSilently(h, i) == [h EXCEPT !.rows[i].kind = "execution"]

PromoteReservation(h, i) ==
    [rows |-> [h.rows EXCEPT ![i].kind = "execution"], epoch |-> h.epoch + 1]

ReleaseReservation(h, i) ==
    IF h.rows[i].released THEN h
    ELSE [rows |-> [h.rows EXCEPT ![i].released = TRUE], epoch |-> h.epoch + 1]

(* acquire_elastic_selection_workspace: how many of k Sources are compared *)
(* at once; 0 stands for its MemoryError.                                  *)
Microbatch(h, k, current, perSource) ==
    LET available == SafeHeadroom(h)
        fitting   == IF available > current
                     THEN (available - current) \div perSource ELSE 0
    IN  IF current + k * perSource <= available THEN k
        ELSE IF fitting < k THEN fitting ELSE k

(***************************************************************************)
(* The request controller, on a world w = [rows, m, h]: the records of     *)
(* every request's controller, the lease manager and the HBM manager they  *)
(* share.  CanF is the condition under which method f does not raise       *)
(* before its first assignment.                                            *)
(***************************************************************************)
NoId == 0   \* None, for a lease or reservation id; ids are positions from 1
Now  == 0   \* no lease expires here: expiry is the subject of Leases

Selections   == {"probing", "decision_ready", "source_frozen", "abstained"}
Dispositions == {"not_evaluated", "deferred", "provisional_reuse", "predicted_dense"}
Preparations == {"none", "prefetching", "ready"}
Commits      == {"uncommitted", "reuse_commit", "refined_dense"}

Rows == [sel : Selections, gate2 : Dispositions, prep : Preparations,
         commit : Commits, source : Sources \cup {NoSource}, depth : Nat,
         logical : Nat, physical : Nat, hbm : Nat, disabled : BOOLEAN]

NewRow == [sel |-> "probing", gate2 |-> "not_evaluated", prep |-> "none",
           commit |-> "uncommitted", source |-> NoSource, depth |-> 0,
           logical |-> NoId, physical |-> NoId, hbm |-> NoId, disabled |-> FALSE]

(* Schema6SegmentRuntimeState.validate, which the methods call last.       *)
Validates(row) ==
    /\ row.sel = "source_frozen" => row.source # NoSource /\ row.logical # NoId
    /\ row.sel = "abstained" => row.source = NoSource /\ row.gate2 = "not_evaluated"
    /\ row.prep # "none" =>
         row.sel = "source_frozen" /\ row.physical # NoId /\ row.hbm # NoId
    /\ row.commit = "reuse_commit" =>
         row.gate2 = "provisional_reuse" /\ row.prep = "ready"

Resolved(row) == row.sel \in {"source_frozen", "abstained"}

(***************************************************************************)
(* Selection.                                                              *)
(***************************************************************************)
CanDecisionReady(w, o, g) == w.rows[o][g].sel = "probing"

DecisionReady(w, o, g, s, depth) ==
    [w EXCEPT !.rows[o][g] =
        [@ EXCEPT !.sel = "decision_ready", !.source = s, !.depth = depth]]

CanGate1(w, o, g) == w.rows[o][g].sel = "decision_ready"

Gate1Failed(w, o, g, atLmax) ==
    [w EXCEPT !.rows[o][g] =
        [@ EXCEPT !.source = NoSource, !.depth = 0,
                  !.sel = IF atLmax THEN "abstained" ELSE "probing"]]

CanGate1Pass(w, o, g) ==
    CanGate1(w, o, g) /\ CanFreeze(w.m, o, g, w.rows[o][g].source)

Gate1Passed(w, o, g) ==
    [w EXCEPT
      !.m = FreezeAndAcquireLogical(@, o, g, w.rows[o][g].source, 0, Now),
      !.rows[o][g] = [@ EXCEPT !.logical = Len(w.m.lease) + 1, !.sel = "source_frozen"]]

CanAbstain(w, o, g) == w.rows[o][g].sel # "source_frozen"

(* decision_completed_depth is kept.                                       *)
AbstainRow(w, o, g) ==
    [w EXCEPT !.rows[o][g] = [@ EXCEPT !.sel = "abstained", !.source = NoSource]]

(***************************************************************************)
(* Releasing what a row owns.                                              *)
(***************************************************************************)
ReleaseLeaseOf(w, id) ==
    IF id = NoId THEN w ELSE [w EXCEPT !.m = Release(@, id, "request")]
ReleaseHbmOf(w, id) ==
    IF id = NoId THEN w ELSE [w EXCEPT !.h = ReleaseReservation(@, id)]

(* logical_lease_id is kept.                                               *)
ReleaseLogicalLease(w, o, g) == ReleaseLeaseOf(w, w.rows[o][g].logical)

ReleasePhysicalPreparation(w, o, g) ==
    [ReleaseHbmOf(ReleaseLeaseOf(w, w.rows[o][g].physical), w.rows[o][g].hbm)
     EXCEPT !.rows[o][g] = [@ EXCEPT !.physical = NoId, !.hbm = NoId, !.prep = "none"]]

CanCompleteReuse(w, o, g) == w.rows[o][g].commit = "reuse_commit"

(* The ids and READY stay in the row as audit evidence.                    *)
CompleteReuse(w, o, g) ==
    ReleaseLogicalLease(
        ReleaseHbmOf(ReleaseLeaseOf(w, w.rows[o][g].physical), w.rows[o][g].hbm),
        o, g)

(***************************************************************************)
(* Gate 2.                                                                 *)
(***************************************************************************)
(* The loop of apply_gate2 raises at such a row and stops there.           *)
Gate2Refuses(row, target) ==
    \/ row.sel # "source_frozen"
    \/ row.gate2 = "predicted_dense" /\ target # "predicted_dense"
    \/ row.gate2 = "provisional_reuse" /\ target = "deferred"

(* Mutant: the prepared lease stays speculative.                           *)
PromoteNothing(w, o, g) == w

PromotePreparation(w, o, g) ==
    LET row == w.rows[o][g]
    IN  IF row.physical # NoId /\ w.m.lease[row.physical].purpose = "speculative"
        THEN [w EXCEPT !.m = PromoteSpeculative(@, row.physical),
                       !.h = PromoteReservation(@, row.hbm)]
        ELSE w

Gate2Row(w, o, g, target) ==
    LET row == w.rows[o][g]
        freed == IF target = "predicted_dense"
                 THEN ReleaseLogicalLease(ReleasePhysicalPreparation(w, o, g), o, g)
                 ELSE IF target = "provisional_reuse" /\ row.gate2 = "deferred"
                 THEN PromotePreparation(w, o, g)
                 ELSE w
    IN  [freed EXCEPT !.rows[o][g].gate2 = target]

(* The rows before the refused one are updated.  The order of the loop is  *)
(* the order of a Python set of names, which is any order: when a row is   *)
(* refused, any set done of the others may have come before it.            *)
Gate2Applied(w, o, to) ==
    LET refused == {g \in DOMAIN to : Gate2Refuses(w.rows[o][g], to[g])}
        others  == DOMAIN to \ refused
    IN  {FoldSet(LAMBDA g, v : Gate2Row(v, o, g, to[g]), w, done) :
            done \in IF refused = {} THEN {others} ELSE SUBSET others}

(***************************************************************************)
(* Preparation.                                                            *)
(***************************************************************************)
PrefetchPurpose(row, admitted) ==
    CASE row.gate2 = "provisional_reuse" -> "execution"
      [] row.gate2 = "deferred" /\ admitted /\ ~row.disabled -> "speculative"
      [] OTHER -> "none"

ReservationKind(purpose) == IF purpose = "execution" THEN "execution" ELSE "prefetch"

Binding(w, o, g, r, purpose) ==
    [segment |-> g, source |-> w.rows[o][g].source, replica |-> r,
     placement |-> w.m.placement[r], purpose |-> purpose]

CanBeginPrefetch(w, o, g, r, admitted) ==
    LET row == w.rows[o][g]
        purpose == PrefetchPurpose(row, admitted)
    IN  /\ row.sel = "source_frozen" /\ row.prep = "none" /\ purpose # "none"
        /\ CanLeaseBatch(w.m, o, <<Binding(w, o, g, r, purpose)>>, NoCap)

(* Mutant: the lease survives the MemoryError of the reservation.          *)
BeginPrefetchNoRollback(w, o, g, r, admitted) ==
    LET purpose == PrefetchPurpose(w.rows[o][g], admitted)
        leased  == LeaseBatch(w.m, o, <<Binding(w, o, g, r, purpose)>>, 0, Now)
    IN  IF CanReserve(w.h, SizeOf[r])
        THEN [w EXCEPT
               !.m = leased,
               !.h = Reserve(@, o, g, SizeOf[r], ReservationKind(purpose)),
               !.rows[o][g] = [@ EXCEPT !.physical = Len(leased.lease),
                                        !.hbm = Len(w.h.rows) + 1,
                                        !.prep = "prefetching"]]
        ELSE [w EXCEPT !.m = leased]

(* A MemoryError of the reservation gives the lease back and is re-raised. *)
BeginPrefetch(w, o, g, r, admitted) ==
    LET purpose == PrefetchPurpose(w.rows[o][g], admitted)
        leased  == LeaseBatch(w.m, o, <<Binding(w, o, g, r, purpose)>>, 0, Now)
        id      == Len(leased.lease)
    IN  IF CanReserve(w.h, SizeOf[r])
        THEN [w EXCEPT
               !.m = leased,
               !.h = Reserve(@, o, g, SizeOf[r], ReservationKind(purpose)),
               !.rows[o][g] = [@ EXCEPT !.physical = id, !.hbm = Len(w.h.rows) + 1,
                                        !.prep = "prefetching"]]
        ELSE [w EXCEPT !.m = Release(leased, id, "request")]

CanMarkWinnerReady(w, o, g) ==
    LET row == w.rows[o][g]
    IN  /\ row.prep = "prefetching"
        /\ w.m.lease[row.physical].copy => CanMarkReady(w.m, row.physical)

(* An execution lease has no copy to finish.                               *)
MarkWinnerReady(w, o, g) ==
    LET id == w.rows[o][g].physical
    IN  [w EXCEPT !.m = IF @.lease[id].copy THEN MarkPhysicalReady(@, id) ELSE @,
                  !.rows[o][g].prep = "ready"]

RecordOverrun(w, o, g) == [w EXCEPT !.rows[o][g].disabled = TRUE]

(***************************************************************************)
(* Gate 3.                                                                 *)
(***************************************************************************)
ReadyToCommit(row) ==
    row.gate2 = "provisional_reuse" /\ row.prep = "ready" /\ row.commit = "uncommitted"

Gate3Accepted(w, o, g) == [w EXCEPT !.rows[o][g].commit = "reuse_commit"]

(* Gate 2's disposition stays "provisional_reuse".                         *)
Gate3Rejected(w, o, g) ==
    ReleaseLogicalLease(
        ReleasePhysicalPreparation(
            [w EXCEPT !.rows[o][g].commit = "refined_dense"], o, g),
        o, g)

Gate3Applied(w, o, accepted, rejected) ==
    FoldSet(LAMBDA g, v : Gate3Rejected(v, o, g),
            FoldSet(LAMBDA g, v : Gate3Accepted(v, o, g), w, accepted),
            rejected)

=============================================================================
