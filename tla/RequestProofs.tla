--------------------------- MODULE RequestProofs ---------------------------
(***************************************************************************)
(* Theorems about the request controllers, for any number of requests and  *)
(* segments, any policy, pool, HBM size and interleaving of their calls:   *)
(* about Spec (schema 6), BSpec (schema 8) and RequestsSpec (either).      *)
(*                                                                         *)
(* The invariants they follow from are about worlds, the arguments of the  *)
(* operators of RequestOps, so that an action composed of several of them  *)
(* needs one lemma for each.  Fit says of one segment what its row, the    *)
(* lease table and the reservations have to do with each other; a method   *)
(* changes what belongs to one segment and leaves the others' alone.       *)
(***************************************************************************)
EXTENDS MCRequests, TransferAuthorizer, LeaseOpsProofs, FoldLemmas

(***************************************************************************)
(* The inductive invariant.                                                *)
(***************************************************************************)
HbmRecords == [owner : Owners, segment : Segments, bytes : Nat \ {0},
               kind : ReservationKinds, released : BOOLEAN]
HbmStates == [rows : Seq(HbmRecords), epoch : Nat]
Worlds == [rows : [Owners -> [Segments -> Rows]], m : ManagerStates, h : HbmStates]

(* No lease expires here, so none is suspect.                              *)
NoSuspects(m) == \A l \in DOMAIN m.lease : m.lease[l].state # "suspect"

ReserveKept(h) == ActiveReservedBytes(h) <= HbmCapacity - HbmExternal - HbmSafety

(* The combinations of states a row can be in; done, when its committed    *)
(* reuse has been executed.                                                *)
RowFits(row, done) ==
    /\ row.sel # "source_frozen" =>
         /\ row.logical = NoId /\ row.gate2 = "not_evaluated"
         /\ row.prep = "none" /\ row.commit = "uncommitted"
    /\ row.sel \in {"decision_ready", "source_frozen"} => row.source \in Sources
    /\ row.sel = "abstained" => row.source = NoSource
    /\ row.prep = "none" => row.physical = NoId /\ row.hbm = NoId
    /\ row.prep # "none" =>
         row.gate2 \in {"deferred", "provisional_reuse"} /\ row.commit # "refined_dense"
    /\ row.commit = "reuse_commit" => row.gate2 = "provisional_reuse" /\ row.prep = "ready"
    /\ row.commit = "refined_dense" => row.gate2 \in {"provisional_reuse", "predicted_dense"}
    /\ done => row.commit = "reuse_commit"

(* Which leases of the table T the segment g of o has, or had.             *)
Leased(row, T, o, g, done) ==
    /\ row.sel = "source_frozen" =>
         /\ row.logical \in DOMAIN T
         /\ T[row.logical].owner = o /\ T[row.logical].segment = g
         /\ T[row.logical].source = row.source
         /\ T[row.logical].purpose = "logical" /\ T[row.logical].replica = NoReplica
         /\ ~Dense(row) /\ ~done => T[row.logical].state # "released"
    /\ row.prep # "none" =>
         /\ row.physical \in DOMAIN T
         /\ T[row.physical].owner = o /\ T[row.physical].segment = g
         /\ T[row.physical].source = row.source
         /\ T[row.physical].replica # NoReplica
         /\ T[row.physical].purpose =
              IF row.gate2 = "deferred" THEN "speculative" ELSE "execution"
         /\ ~done => T[row.physical].state # "released"
    /\ \A l \in DOMAIN T :
         T[l].owner = o /\ T[l].segment = g /\ T[l].state # "released" =>
           /\ l = IF T[l].replica = NoReplica THEN row.logical ELSE row.physical
           /\ ~Dense(row) /\ ~done

(* Which reservations of the table R it has, or had.                       *)
Reserved(row, R, o, g, done) ==
    /\ row.prep # "none" =>
         /\ row.hbm \in DOMAIN R
         /\ R[row.hbm].owner = o /\ R[row.hbm].segment = g
         /\ R[row.hbm].kind = IF row.gate2 = "deferred" THEN "prefetch" ELSE "execution"
         /\ ~done => ~R[row.hbm].released
    /\ \A i \in DOMAIN R :
         R[i].owner = o /\ R[i].segment = g /\ ~R[i].released /\ R[i].kind # "workspace" =>
           i = row.hbm /\ ~Dense(row) /\ ~done

Fit(row, T, R, o, g, done) ==
    RowFits(row, done) /\ Leased(row, T, o, g, done) /\ Reserved(row, R, o, g, done)

WorldFits(w, fin) ==
    /\ w \in Worlds /\ Good(w.m) /\ NoSuspects(w.m) /\ ReserveKept(w.h)
    /\ \A o \in Owners, g \in Segments :
         Fit(w.rows[o][g], w.m.lease, w.h.rows, o, g, g \in fin[o])

(* A decision still current closes no segment that has been prepared for   *)
(* execution since: to prepare one takes a new HBM epoch.                  *)
Prepared(row) == row.gate2 = "provisional_reuse" /\ row.prep # "none"

PlanFits(o, p) ==
    /\ p \in Plans /\ p.epoch <= hbm.epoch
    /\ p.kind = "gate2" =>
         \A g \in DOMAIN p.to :
            /\ p.to[g] # "not_evaluated"
            /\ Current(p) /\ p.to[g] = "predicted_dense" => ~Prepared(rows[o][g])
    /\ p.kind = "gate3" => p.accepted \cap p.rejected = {}

IInv ==
    /\ WorldFits(World, finished)
    /\ finished \in [Owners -> SUBSET Segments] /\ plans \in [Owners -> SUBSET Plans]
    /\ \A o \in Owners : \A p \in plans[o] : PlanFits(o, p)

(* What the barrier adds: until it closes nothing is admitted or committed,*)
(* afterwards every segment is resolved, no deeper than the request has    *)
(* run.                                                                    *)
Barriers == [closed : BOOLEAN, depth : Nat, reuse : SUBSET Segments]

BarrierRow(row, depth, closed) ==
    /\ row.depth <= depth
    /\ row.sel \in {"decision_ready", "source_frozen"} => row.depth > 0
    /\ row.sel = "abstained" /\ row.depth = 0 => depth = 2
    /\ ~closed => row.commit = "uncommitted" /\ row.gate2 # "provisional_reuse"

BInv ==
    /\ layer \in [Owners -> {1, 2}] /\ barrier \in [Owners -> Barriers]
    /\ \A o \in Owners, g \in Segments : BarrierRow(rows[o][g], layer[o], Closed(o))
    /\ BarrierAccurate

RInv ==
    /\ IInv /\ CausalCommit /\ schema \in {6, 8}
    /\ schema = 8 => BInv
    /\ schema = 6 => \A o \in Owners : ~Closed(o)

(***************************************************************************)
(* What belongs to one segment, in the lease table or the reservations.    *)
(***************************************************************************)
Of(T, o, g) == {l \in DOMAIN T : T[l].owner = o /\ T[l].segment = g}

SameOf(T, U, o, g) == Of(U, o, g) = Of(T, o, g) /\ \A l \in Of(T, o, g) : U[l] = T[l]

(* What belongs to a segment decides whether its row fits.                 *)
LEMMA FitKept ==
    ASSUME NEW row, NEW T, NEW U, NEW R, NEW Q, NEW o, NEW g, NEW done,
           Fit(row, T, R, o, g, done), SameOf(T, U, o, g), SameOf(R, Q, o, g)
    PROVE  Fit(row, U, Q, o, g, done)
<1>1. Leased(row, U, o, g, done)
  <2>1. Leased(row, T, o, g, done)
    BY DEF Fit
  <2>2. \A l : l \in DOMAIN T /\ T[l].owner = o /\ T[l].segment = g
               <=> l \in DOMAIN U /\ U[l].owner = o /\ U[l].segment = g
    BY DEF SameOf, Of
  <2>3. \A l : l \in DOMAIN T /\ T[l].owner = o /\ T[l].segment = g => U[l] = T[l]
    BY DEF SameOf, Of
  <2> QED
    BY <2>1, <2>2, <2>3 DEF Leased
<1>2. Reserved(row, Q, o, g, done)
  <2>1. Reserved(row, R, o, g, done)
    BY DEF Fit
  <2>2. \A l : l \in DOMAIN R /\ R[l].owner = o /\ R[l].segment = g
               <=> l \in DOMAIN Q /\ Q[l].owner = o /\ Q[l].segment = g
    BY DEF SameOf, Of
  <2>3. \A l : l \in DOMAIN R /\ R[l].owner = o /\ R[l].segment = g => Q[l] = R[l]
    BY DEF SameOf, Of
  <2> QED
    BY <2>1, <2>2, <2>3 DEF Reserved
<1> QED
  BY <1>1, <1>2 DEF Fit

(* A table compared with itself changes nothing for any owner and segment. *)
LEMMA SameKept == \A T, o, g : SameOf(T, T, o, g)
BY DEF SameOf

(* A record appended for one segment leaves the others alone.              *)
LEMMA Appended ==
    ASSUME NEW X, NEW T \in Seq(X), NEW x \in X
    PROVE  LET U == Append(T, x)
               k == Len(T) + 1
           IN  /\ U \in Seq(X)
               /\ DOMAIN U = DOMAIN T \cup {k} /\ k \notin DOMAIN T /\ k \in Nat \ {0}
               /\ U[k] = x /\ \A l \in DOMAIN T : U[l] = T[l]
               /\ \A o, g : x.owner # o \/ x.segment # g => SameOf(T, U, o, g)
<1> DEFINE U == Append(T, x)
           k == Len(T) + 1
<1>1. U \in Seq(X) /\ Len(T) \in Nat
  OBVIOUS
<1>2. DOMAIN U = DOMAIN T \cup {k} /\ k \notin DOMAIN T
  OBVIOUS
<1>3. U[k] = x /\ \A l \in DOMAIN T : U[l] = T[l]
  OBVIOUS
<1> HIDE DEF U, k
<1>4. \A o, g : x.owner # o \/ x.segment # g => SameOf(T, U, o, g)
  BY <1>2, <1>3 DEF SameOf, Of
<1> QED
  BY <1>1, <1>2, <1>3, <1>4 DEF U, k

(* A record changed keeps its segment, and the others alone.               *)
LEMMA Updated ==
    ASSUME NEW T, NEW U, DOMAIN U = DOMAIN T, NEW l \in DOMAIN T,
           \A k \in DOMAIN T : k # l => U[k] = T[k],
           U[l].owner = T[l].owner, U[l].segment = T[l].segment
    PROVE  \A o, g : T[l].owner # o \/ T[l].segment # g => SameOf(T, U, o, g)
BY DEF SameOf, Of

(* A method called for segment g of o, whose own part is as it should be,  *)
(* keeps the invariant.                                                    *)
LEMMA OneSegment ==
    ASSUME NEW w, NEW fin, WorldFits(w, fin), NEW o \in Owners, NEW g \in Segments,
           NEW v \in Worlds, NEW done,
           Good(v.m), NoSuspects(v.m), ReserveKept(v.h),
           Fit(v.rows[o][g], v.m.lease, v.h.rows, o, g, g \in done[o]),
           \A p \in Owners, k \in Segments :
             p # o \/ k # g => /\ v.rows[p][k] = w.rows[p][k]
                              /\ SameOf(w.m.lease, v.m.lease, p, k)
                              /\ SameOf(w.h.rows, v.h.rows, p, k)
                              /\ (k \in done[p]) = (k \in fin[p])
    PROVE  WorldFits(v, done)
<1> SUFFICES ASSUME NEW p \in Owners, NEW k \in Segments
             PROVE  Fit(v.rows[p][k], v.m.lease, v.h.rows, p, k, k \in done[p])
  BY DEF WorldFits
<1>1. CASE p = o /\ k = g
  BY <1>1
<1>2. CASE p # o \/ k # g
  <2>1. Fit(w.rows[p][k], w.m.lease, w.h.rows, p, k, k \in fin[p])
    BY DEF WorldFits
  <2>2. /\ v.rows[p][k] = w.rows[p][k]
        /\ SameOf(w.m.lease, v.m.lease, p, k)
        /\ SameOf(w.h.rows, v.h.rows, p, k)
        /\ (k \in done[p]) = (k \in fin[p])
    BY <1>2
  <2> QED
    BY <2>1, <2>2, FitKept
<1> QED
  BY <1>1, <1>2

(* What a row consists of.                                                 *)
LEMMA RowTypes ==
    ASSUME NEW w \in Worlds, NEW o \in Owners, NEW g \in Segments
    PROVE  w.rows[o][g] \in Rows
BY DEF Worlds

(* A method that writes one row only.                                      *)
SetRow(w, o, g, row) == [w EXCEPT !.rows = [w.rows EXCEPT ![o] = [w.rows[o] EXCEPT ![g] = row]]]

(* Writing one row gives a world whose other rows, manager and HBM are those it had. *)
LEMMA SetRowWorld ==
    ASSUME NEW w \in Worlds, NEW o \in Owners, NEW g \in Segments, NEW row \in Rows
    PROVE  LET v == SetRow(w, o, g, row)
           IN  /\ v \in Worlds /\ v.m = w.m /\ v.h = w.h
               /\ v.rows[o][g] = row
               /\ \A p \in Owners, k \in Segments :
                    p # o \/ k # g => v.rows[p][k] = w.rows[p][k]
BY DEF SetRow, Worlds

(* Writing a row that fits the manager and HBM of the world keeps the world well formed. *)
LEMMA SetRowFits ==
    ASSUME NEW w, NEW fin, WorldFits(w, fin), NEW o \in Owners, NEW g \in Segments,
           NEW row \in Rows, Fit(row, w.m.lease, w.h.rows, o, g, g \in fin[o])
    PROVE  WorldFits(SetRow(w, o, g, row), fin)
<1>1. w \in Worlds /\ Good(w.m) /\ NoSuspects(w.m) /\ ReserveKept(w.h)
  BY DEF WorldFits
<1> QED
  BY <1>1, SetRowWorld, SameKept, OneSegment

(***************************************************************************)
(* The methods that write one row and nothing else.                        *)
(***************************************************************************)
(* decision_ready (v8_schema6_runtime.py:50).                              *)
LEMMA DecideFits ==
    ASSUME NEW w, NEW fin, WorldFits(w, fin), NEW o \in Owners, NEW g \in Segments,
           NEW s \in Sources, NEW depth \in Nat, CanDecisionReady(w, o, g)
    PROVE  WorldFits(DecisionReady(w, o, g, s, depth), fin)
<1> DEFINE row == w.rows[o][g]
           new == [row EXCEPT !.sel = "decision_ready", !.source = s, !.depth = depth]
<1>1. /\ w \in Worlds /\ row \in Rows
      /\ Fit(row, w.m.lease, w.h.rows, o, g, g \in fin[o])
  BY RowTypes DEF WorldFits
<1>2. new \in Rows
      /\ new.sel = "decision_ready" /\ new.source = s
      /\ new.gate2 = row.gate2 /\ new.prep = row.prep /\ new.commit = row.commit
      /\ new.logical = row.logical /\ new.physical = row.physical /\ new.hbm = row.hbm
  BY <1>1 DEF Rows, Selections, Commits
<1>3. DecisionReady(w, o, g, s, depth) = SetRow(w, o, g, new)
  BY <1>1 DEF SetRow, DecisionReady, Worlds
<1> HIDE DEF new
<1>4. Fit(new, w.m.lease, w.h.rows, o, g, g \in fin[o])
  BY <1>1, <1>2 DEF Fit, RowFits, Leased, Reserved, Dense, CanDecisionReady
<1> QED
  BY <1>1, <1>2, <1>3, <1>4, SetRowFits

(* gate1 with a failed plan.                                               *)
LEMMA Gate1FailFits ==
    ASSUME NEW w, NEW fin, WorldFits(w, fin), NEW o \in Owners, NEW g \in Segments,
           NEW atLmax \in BOOLEAN, CanGate1(w, o, g)
    PROVE  WorldFits(Gate1Failed(w, o, g, atLmax), fin)
<1> DEFINE row == w.rows[o][g]
           new == [row EXCEPT !.source = NoSource, !.depth = 0,
                               !.sel = IF atLmax THEN "abstained" ELSE "probing"]
<1>1. /\ w \in Worlds /\ row \in Rows
      /\ Fit(row, w.m.lease, w.h.rows, o, g, g \in fin[o])
  BY RowTypes DEF WorldFits
<1>2. new \in Rows
      /\ new.sel \in {"abstained", "probing"} /\ new.source = NoSource
      /\ new.gate2 = row.gate2 /\ new.prep = row.prep /\ new.commit = row.commit
      /\ new.logical = row.logical /\ new.physical = row.physical /\ new.hbm = row.hbm
  BY <1>1 DEF Rows, Selections, Commits
<1>3. Gate1Failed(w, o, g, atLmax) = SetRow(w, o, g, new)
  BY <1>1 DEF SetRow, Gate1Failed, Worlds
<1> HIDE DEF new
<1>4. Fit(new, w.m.lease, w.h.rows, o, g, g \in fin[o])
  BY <1>1, <1>2 DEF Fit, RowFits, Leased, Reserved, Dense, CanGate1
<1> QED
  BY <1>1, <1>2, <1>3, <1>4, SetRowFits

(* abstain.                                                                *)
LEMMA AbstainFits ==
    ASSUME NEW w, NEW fin, WorldFits(w, fin), NEW o \in Owners, NEW g \in Segments,
           CanAbstain(w, o, g)
    PROVE  WorldFits(AbstainRow(w, o, g), fin)
<1> DEFINE row == w.rows[o][g]
           new == [row EXCEPT !.sel = "abstained", !.source = NoSource]
<1>1. /\ w \in Worlds /\ row \in Rows
      /\ Fit(row, w.m.lease, w.h.rows, o, g, g \in fin[o])
  BY RowTypes DEF WorldFits
<1>2. new \in Rows
      /\ new.sel = "abstained" /\ new.source = NoSource
      /\ new.gate2 = row.gate2 /\ new.prep = row.prep /\ new.commit = row.commit
      /\ new.depth = row.depth /\ new.logical = row.logical /\ new.physical = row.physical
      /\ new.hbm = row.hbm
  BY <1>1 DEF Rows, Selections, Commits
<1>3. AbstainRow(w, o, g) = SetRow(w, o, g, new)
  BY <1>1 DEF SetRow, AbstainRow, Worlds
<1> HIDE DEF new
<1>4. Fit(new, w.m.lease, w.h.rows, o, g, g \in fin[o])
  BY <1>1, <1>2 DEF Fit, RowFits, Leased, Reserved, Dense, CanAbstain
<1> QED
  BY <1>1, <1>2, <1>3, <1>4, SetRowFits

(* record_realized_overrun.                                                *)
LEMMA OverrunFits ==
    ASSUME NEW w, NEW fin, WorldFits(w, fin), NEW o \in Owners, NEW g \in Segments
    PROVE  WorldFits(RecordOverrun(w, o, g), fin)
<1> DEFINE row == w.rows[o][g]
           new == [row EXCEPT !.disabled = TRUE]
<1>1. /\ w \in Worlds /\ row \in Rows
      /\ Fit(row, w.m.lease, w.h.rows, o, g, g \in fin[o])
  BY RowTypes DEF WorldFits
<1>2. new \in Rows
      /\ new.sel = row.sel /\ new.gate2 = row.gate2 /\ new.prep = row.prep
      /\ new.commit = row.commit /\ new.source = row.source /\ new.depth = row.depth
      /\ new.logical = row.logical /\ new.physical = row.physical /\ new.hbm = row.hbm
  BY <1>1 DEF Rows, Selections, Commits
<1>3. RecordOverrun(w, o, g) = SetRow(w, o, g, new)
  BY <1>1 DEF SetRow, RecordOverrun, Worlds
<1> HIDE DEF new
<1>4. Fit(new, w.m.lease, w.h.rows, o, g, g \in fin[o])
  BY <1>1, <1>2, ZenonT(30) DEF Fit, RowFits, Leased, Reserved, Dense
<1> QED
  BY <1>1, <1>2, <1>3, <1>4, SetRowFits

(* The accepted of apply_gate3_subset.                                     *)
LEMMA AcceptFits ==
    ASSUME NEW w, NEW fin, WorldFits(w, fin), NEW o \in Owners, NEW g \in Segments,
           ReadyToCommit(w.rows[o][g])
    PROVE  WorldFits(Gate3Accepted(w, o, g), fin)
<1> DEFINE row == w.rows[o][g]
           new == [row EXCEPT !.commit = "reuse_commit"]
<1>1. /\ w \in Worlds /\ row \in Rows
      /\ Fit(row, w.m.lease, w.h.rows, o, g, g \in fin[o])
  BY RowTypes DEF WorldFits
<1>2. new \in Rows
      /\ new.commit = "reuse_commit"
      /\ new.sel = row.sel /\ new.gate2 = row.gate2 /\ new.prep = row.prep
      /\ new.source = row.source /\ new.depth = row.depth /\ new.logical = row.logical
      /\ new.physical = row.physical /\ new.hbm = row.hbm
  BY <1>1 DEF Rows, Selections, Commits
<1>3. Gate3Accepted(w, o, g) = SetRow(w, o, g, new)
  BY <1>1 DEF SetRow, Gate3Accepted, Worlds
<1> HIDE DEF new
<1>4. Fit(new, w.m.lease, w.h.rows, o, g, g \in fin[o])
  BY <1>1, <1>2, ZenonT(30) DEF Fit, RowFits, Leased, Reserved, Dense, ReadyToCommit
<1> QED
  BY <1>1, <1>2, <1>3, <1>4, SetRowFits

(***************************************************************************)
(* The HBM manager.                                                        *)
(***************************************************************************)
Bytes(h) == [i \in DOMAIN h.rows |-> h.rows[i].bytes]

BytesSolve(h, S, it) ==
    it = [s \in SUBSET S |-> IF s = {} THEN 0 ELSE h.rows[Pick(s)].bytes + it[s \ {Pick(s)}]]

(* The parts of an HBM state have the types that its record says. *)
LEMMA HbmTypes ==
    ASSUME NEW h \in HbmStates
    PROVE  /\ h.rows \in Seq(HbmRecords) /\ h.epoch \in Nat
           /\ \A i \in DOMAIN h.rows : h.rows[i] \in HbmRecords /\ h.rows[i].bytes \in Nat \ {0}
           /\ IsFiniteSet(Unreleased(h)) /\ Unreleased(h) \subseteq DOMAIN h.rows
<1>1. h.rows \in Seq(HbmRecords) /\ h.epoch \in Nat
  BY DEF HbmStates
<1>2. \A i \in DOMAIN h.rows : h.rows[i] \in HbmRecords /\ h.rows[i].bytes \in Nat \ {0}
  <2>1. \A i \in DOMAIN h.rows : h.rows[i] \in HbmRecords
    BY <1>1
  <2> QED
    BY <2>1 DEF HbmRecords
<1>3. DOMAIN h.rows = 1..Len(h.rows) /\ Len(h.rows) \in Nat
  BY <1>1
<1>4. IsFiniteSet(DOMAIN h.rows)
  BY <1>3, FS_Interval
<1> QED
  BY <1>1, <1>2, <1>4, FS_Subset DEF Unreleased

(* active_reserved_bytes is the sum over the rows not released.            *)
LEMMA ActiveSum ==
    ASSUME NEW h \in HbmStates
    PROVE  /\ ActiveReservedBytes(h) = SumOver(Bytes(h), Unreleased(h))
           /\ ActiveReservedBytes(h) \in Nat
<1> DEFINE U == Unreleased(h)
           f == Bytes(h)
<1>1. IsFiniteSet(U) /\ U \subseteq DOMAIN h.rows
  BY HbmTypes
<1>2. \A s \in SUBSET U : s # {} => f[Pick(s)] = h.rows[Pick(s)].bytes
  BY <1>1, PickIn DEF Bytes
<1>3. \A it : BytesSolve(h, U, it) <=> Solves(f, U, it)
  <2> HIDE DEF f, U
  <2> QED
    BY <1>2 DEF BytesSolve, Solves, Sums
<1>4. ActiveReservedBytes(h) = (CHOOSE it : BytesSolve(h, U, it))[U]
  BY DEF ActiveReservedBytes, MapThenSumSet, MapThenFoldSet, BytesSolve, Pick
<1>5. \E it : BytesSolve(h, U, it)
  BY <1>1, <1>3, SumsExist
<1>6. PICK jt : BytesSolve(h, U, jt) /\ ActiveReservedBytes(h) = jt[U]
  <2> HIDE DEF U
  <2> QED
    BY <1>4, <1>5, Zenon
<1>7. PICK it : Solves(f, U, it) /\ SumOver(f, U) = it[U]
  BY <1>1, SumDef
<1>8. it[U] = jt[U]
  BY <1>1, <1>3, <1>6, <1>7, SumsUnique
<1>9. \A i \in U : f[i] \in Nat
  BY <1>1, HbmTypes DEF Bytes
<1>10. SumOver(f, U) \in Nat
  BY <1>1, <1>9, SumNat
<1> QED
  BY <1>6, <1>7, <1>8, <1>10

(* reserve_batch leaves the safety reserve alone (v8_schema6_hbm.py:71).   *)
Booked(h, n, k, o, g, kind) ==
    /\ n \in HbmStates /\ ReserveKept(n) /\ n.epoch = h.epoch + 1
    /\ DOMAIN n.rows = DOMAIN h.rows \cup {k}
    /\ k \notin DOMAIN h.rows /\ k \in Nat \ {0}
    /\ n.rows[k].owner = o /\ n.rows[k].segment = g
    /\ n.rows[k].kind = kind /\ ~n.rows[k].released
    /\ \A i \in DOMAIN h.rows : n.rows[i] = h.rows[i]
    /\ \A p, q : p # o \/ q # g => SameOf(h.rows, n.rows, p, q)

(* HbmReservationManager.reserve appends one record and leaves every other one as it
   was. *)
LEMMA ReserveStep ==
    ASSUME NEW h \in HbmStates, ReserveKept(h), NEW o \in Owners, NEW g \in Segments,
           NEW bytes \in Nat, NEW kind \in ReservationKinds, CanReserve(h, bytes)
    PROVE  Booked(h, Reserve(h, o, g, bytes, kind), Len(h.rows) + 1, o, g, kind)
<1> DEFINE x == [owner |-> o, segment |-> g, bytes |-> bytes, kind |-> kind, released |-> FALSE]
           n == Reserve(h, o, g, bytes, kind)
           k == Len(h.rows) + 1
<1>1. x \in HbmRecords /\ x.owner = o /\ x.segment = g /\ x.bytes = bytes
      /\ x.kind = kind /\ ~x.released
  BY DEF HbmRecords, CanReserve
<1>2. n.rows = Append(h.rows, x) /\ n.epoch = h.epoch + 1 /\ h.rows \in Seq(HbmRecords)
  BY HbmTypes DEF Reserve
<1> HIDE DEF x
<1>3. /\ n.rows \in Seq(HbmRecords)
      /\ DOMAIN n.rows = DOMAIN h.rows \cup {k} /\ k \notin DOMAIN h.rows /\ k \in Nat \ {0}
      /\ n.rows[k] = x /\ \A i \in DOMAIN h.rows : n.rows[i] = h.rows[i]
      /\ \A p, q : x.owner # p \/ x.segment # q => SameOf(h.rows, n.rows, p, q)
  BY <1>1, <1>2, Appended
<1>4. n \in HbmStates
  BY <1>2, <1>3, HbmTypes DEF HbmStates, Reserve
<1>5. ActiveReservedBytes(n) = ActiveReservedBytes(h) + bytes
  <2> HIDE DEF n, k
  <2>1. Unreleased(n) = Unreleased(h) \cup {k} /\ k \notin Unreleased(h)
    BY <1>1, <1>3 DEF Unreleased
  <2>2. /\ ActiveReservedBytes(n) = SumOver(Bytes(n), Unreleased(n))
        /\ ActiveReservedBytes(h) = SumOver(Bytes(h), Unreleased(h))
        /\ IsFiniteSet(Unreleased(n)) /\ IsFiniteSet(Unreleased(h))
        /\ Unreleased(h) \subseteq DOMAIN h.rows
        /\ \A i \in DOMAIN n.rows : n.rows[i].bytes \in Nat
    BY <1>4, ActiveSum, HbmTypes
  <2>3. \A i \in Unreleased(n) : Bytes(n)[i] = n.rows[i].bytes /\ Bytes(n)[i] \in Nat
    BY <2>2 DEF Bytes, Unreleased
  <2>4. SumOver(Bytes(n), Unreleased(n)) =
          Bytes(n)[k] + SumOver(Bytes(n), Unreleased(n) \ {k})
    BY <2>1, <2>2, <2>3, SumRemove
  <2>5. Unreleased(n) \ {k} = Unreleased(h)
    BY <2>1
  <2>6. \A i \in Unreleased(h) : Bytes(n)[i] = Bytes(h)[i]
    BY <1>3, <2>2 DEF Bytes
  <2>7. SumOver(Bytes(n), Unreleased(h)) = SumOver(Bytes(h), Unreleased(h))
    BY <2>2, <2>6, SumSame
  <2>8. Bytes(n)[k] = bytes
    BY <1>1, <1>3 DEF Bytes
  <2>9. ActiveReservedBytes(h) \in Nat
    BY ActiveSum
  <2>10. SumOver(Bytes(n), Unreleased(n)) = bytes + SumOver(Bytes(h), Unreleased(h))
    BY <2>4, <2>5, <2>7, <2>8
  <2> QED
    BY <2>2, <2>9, <2>10
<1>6. ReserveKept(n)
  <2> HIDE DEF n
  <2>1. ActiveReservedBytes(h) \in Nat
    BY ActiveSum
  <2> QED
    BY <1>5, <2>1, HbmShape
       DEF ReserveKept, CanReserve, SafeHeadroom, AllocatorFreeReservableBytes, NonNegative
<1> HIDE DEF n, k
<1> QED
  BY <1>1, <1>2, <1>3, <1>4, <1>6 DEF n, k, Booked

Rewritten(h, i, x, epoch) == [rows |-> [h.rows EXCEPT ![i] = x], epoch |-> epoch]

(* What release and promote_reservation write to one reservation keeps the *)
(* safety reserve, as neither adds bytes to those not released.            *)
LEMMA RewriteStep ==
    ASSUME NEW h \in HbmStates, ReserveKept(h), NEW i \in DOMAIN h.rows,
           NEW x \in HbmRecords, NEW n, n.epoch \in Nat, n = Rewritten(h, i, x, n.epoch),
           x.owner = h.rows[i].owner, x.segment = h.rows[i].segment,
           x.bytes = h.rows[i].bytes, x.released \in {TRUE, h.rows[i].released}
    PROVE  /\ n \in HbmStates /\ ReserveKept(n)
           /\ DOMAIN n.rows = DOMAIN h.rows /\ n.rows[i] = x
           /\ \A j \in DOMAIN h.rows : j # i => n.rows[j] = h.rows[j]
           /\ \A p, q : p # h.rows[i].owner \/ q # h.rows[i].segment =>
                SameOf(h.rows, n.rows, p, q)
<1>1. /\ n.rows \in Seq(HbmRecords)
      /\ DOMAIN n.rows = DOMAIN h.rows /\ n.rows[i] = x
      /\ \A j \in DOMAIN h.rows : j # i => n.rows[j] = h.rows[j]
  BY HbmTypes DEF Rewritten
<1>2. \A p, q : p # h.rows[i].owner \/ q # h.rows[i].segment => SameOf(h.rows, n.rows, p, q)
  BY <1>1, Updated
<1>3. ASSUME n \in HbmStates PROVE ReserveKept(n)
  <2>1. /\ ActiveReservedBytes(n) = SumOver(Bytes(n), Unreleased(n))
        /\ ActiveReservedBytes(h) = SumOver(Bytes(h), Unreleased(h))
        /\ ActiveReservedBytes(n) \in Nat /\ ActiveReservedBytes(h) \in Nat
        /\ IsFiniteSet(Unreleased(n)) /\ IsFiniteSet(Unreleased(h))
        /\ Unreleased(h) \subseteq DOMAIN h.rows
        /\ \A j \in DOMAIN h.rows : h.rows[j].bytes \in Nat
    BY <1>3, ActiveSum, HbmTypes
  <2>2. \A j \in DOMAIN h.rows : n.rows[j].bytes = h.rows[j].bytes
    BY <1>1
  <2>3. Bytes(n) = Bytes(h)
    BY <1>1, <2>2 DEF Bytes
  <2>4. \/ Unreleased(n) = Unreleased(h)
        \/ i \in Unreleased(h) /\ Unreleased(n) = Unreleased(h) \ {i}
    BY <1>1 DEF Unreleased
  <2>5. \A j \in Unreleased(h) : Bytes(h)[j] \in Nat
    BY <2>1 DEF Bytes
  <2>6. i \in Unreleased(h) => SumOver(Bytes(h), Unreleased(h)) =
                                 Bytes(h)[i] + SumOver(Bytes(h), Unreleased(h) \ {i})
    BY <2>1, <2>5, SumRemove
  <2>7. ActiveReservedBytes(n) <= ActiveReservedBytes(h)
    <3>1. CASE Unreleased(n) = Unreleased(h)
      BY <2>1, <2>3, <3>1
    <3>2. CASE i \in Unreleased(h) /\ Unreleased(n) = Unreleased(h) \ {i}
      <4>1. SumOver(Bytes(h), Unreleased(h)) =
              Bytes(h)[i] + SumOver(Bytes(h), Unreleased(n))
        BY <2>6, <3>2
      <4>2. ActiveReservedBytes(h) = Bytes(h)[i] + ActiveReservedBytes(n) /\ Bytes(h)[i] \in Nat
        BY <2>1, <2>3, <2>5, <3>2, <4>1
      <4> QED
        BY <2>1, <4>2
    <3> QED
      BY <2>4, <3>1, <3>2
  <2> QED
    BY <2>1, <2>7, HbmShape DEF ReserveKept
<1>4. n \in HbmStates
  BY <1>1 DEF HbmStates, Rewritten
<1> QED
  BY <1>1, <1>2, <1>3, <1>4

(* release writes one reservation off, releasing again is a no-op.         *)
LEMMA WriteOffStep ==
    ASSUME NEW h \in HbmStates, ReserveKept(h), NEW i \in DOMAIN h.rows
    PROVE  LET n == ReleaseReservation(h, i)
           IN  /\ n \in HbmStates /\ ReserveKept(n)
               /\ n.epoch >= h.epoch /\ (~h.rows[i].released => n.epoch = h.epoch + 1)
               /\ DOMAIN n.rows = DOMAIN h.rows
               /\ n.rows[i].owner = h.rows[i].owner /\ n.rows[i].segment = h.rows[i].segment
               /\ n.rows[i].kind = h.rows[i].kind /\ n.rows[i].released
               /\ \A j \in DOMAIN h.rows : j # i => n.rows[j] = h.rows[j]
               /\ \A p, q : p # h.rows[i].owner \/ q # h.rows[i].segment =>
                    SameOf(h.rows, n.rows, p, q)
<1> DEFINE n == ReleaseReservation(h, i)
           x == [h.rows[i] EXCEPT !.released = TRUE]
<1>1. CASE h.rows[i].released
  <2>1. n = h
    BY <1>1 DEF ReleaseReservation
  <2> QED
    BY <1>1, <2>1, HbmTypes, SameKept
<1>2. CASE ~h.rows[i].released
  <2>1. h.rows[i] \in HbmRecords
    BY HbmTypes
  <2>2. /\ x \in HbmRecords /\ x.owner = h.rows[i].owner /\ x.segment = h.rows[i].segment
        /\ x.bytes = h.rows[i].bytes /\ x.kind = h.rows[i].kind
        /\ x.released /\ x.released \in {TRUE, h.rows[i].released}
    BY <2>1 DEF HbmRecords
  <2>3. /\ n = Rewritten(h, i, x, n.epoch)
        /\ n.epoch = h.epoch + 1 /\ n.epoch \in Nat /\ n.epoch >= h.epoch
    BY <1>2 DEF ReleaseReservation, HbmStates, Rewritten
  <2> HIDE DEF n, x
  <2>4. /\ n \in HbmStates /\ ReserveKept(n)
        /\ DOMAIN n.rows = DOMAIN h.rows /\ n.rows[i] = x
        /\ \A j \in DOMAIN h.rows : j # i => n.rows[j] = h.rows[j]
        /\ \A p, q : p # h.rows[i].owner \/ q # h.rows[i].segment => SameOf(h.rows, n.rows, p, q)
    BY <1>2, <2>2, <2>3, RewriteStep, ZenonT(30)
  <2>6. /\ n.rows[i].owner = h.rows[i].owner /\ n.rows[i].segment = h.rows[i].segment
        /\ n.rows[i].kind = h.rows[i].kind /\ n.rows[i].released
    BY <2>2, <2>4
  <2> QED
    BY <2>3, <2>4, <2>6 DEF n
<1> QED
  BY <1>1, <1>2

(* promote_reservation keeps what is reserved.                             *)
LEMMA UpgradeStep ==
    ASSUME NEW h \in HbmStates, ReserveKept(h), NEW i \in DOMAIN h.rows
    PROVE  LET n == PromoteReservation(h, i)
           IN  /\ n \in HbmStates /\ ReserveKept(n) /\ n.epoch = h.epoch + 1
               /\ DOMAIN n.rows = DOMAIN h.rows
               /\ n.rows[i].owner = h.rows[i].owner /\ n.rows[i].segment = h.rows[i].segment
               /\ n.rows[i].kind = "execution" /\ n.rows[i].released = h.rows[i].released
               /\ \A j \in DOMAIN h.rows : j # i => n.rows[j] = h.rows[j]
               /\ \A p, q : p # h.rows[i].owner \/ q # h.rows[i].segment =>
                    SameOf(h.rows, n.rows, p, q)
<1> DEFINE n == PromoteReservation(h, i)
           x == [h.rows[i] EXCEPT !.kind = "execution"]
<1>1. h.rows[i] \in HbmRecords
  BY HbmTypes
<1>2. /\ x \in HbmRecords /\ x.owner = h.rows[i].owner /\ x.segment = h.rows[i].segment
      /\ x.bytes = h.rows[i].bytes /\ x.kind = "execution"
      /\ x.released \in {TRUE, h.rows[i].released}
  BY <1>1 DEF HbmRecords, ReservationKinds
<1>6. x.released = h.rows[i].released
  BY <1>1 DEF HbmRecords
<1>3. n = Rewritten(h, i, x, n.epoch) /\ n.epoch = h.epoch + 1 /\ n.epoch \in Nat
  BY DEF PromoteReservation, HbmStates, Rewritten
<1> HIDE DEF n, x
<1>4. /\ n \in HbmStates /\ ReserveKept(n)
      /\ DOMAIN n.rows = DOMAIN h.rows /\ n.rows[i] = x
      /\ \A j \in DOMAIN h.rows : j # i => n.rows[j] = h.rows[j]
      /\ \A p, q : p # h.rows[i].owner \/ q # h.rows[i].segment => SameOf(h.rows, n.rows, p, q)
  BY <1>2, <1>3, RewriteStep
<1>5. /\ n.rows[i].owner = h.rows[i].owner /\ n.rows[i].segment = h.rows[i].segment
      /\ n.rows[i].kind = "execution" /\ n.rows[i].released = h.rows[i].released
  BY <1>2, <1>4, <1>6
<1> QED
  BY <1>3, <1>4, <1>5 DEF n

(***************************************************************************)
(* The lease manager, as a request uses it.                                *)
(***************************************************************************)
(* freeze_and_acquire_logical grants the segment one more lease.           *)
LEMMA FreezeStep ==
    ASSUME NEW m, Good(m), NoSuspects(m), NEW o \in Owners, NEW g \in Segments,
           NEW s \in Sources, CanFreeze(m, o, g, s)
    PROVE  LET n == FreezeAndAcquireLogical(m, o, g, s, 0, Now)
               k == Len(m.lease) + 1
           IN  /\ Good(n) /\ NoSuspects(n)
               /\ DOMAIN n.lease = DOMAIN m.lease \cup {k}
               /\ k \notin DOMAIN m.lease /\ k \in Nat \ {0}
               /\ n.lease[k].owner = o /\ n.lease[k].segment = g /\ n.lease[k].source = s
               /\ n.lease[k].replica = NoReplica /\ n.lease[k].purpose = "logical"
               /\ n.lease[k].state = "active"
               /\ \A l \in DOMAIN m.lease : n.lease[l] = m.lease[l]
               /\ \A p, q : p # o \/ q # g => SameOf(m.lease, n.lease, p, q)
<1> DEFINE n == FreezeAndAcquireLogical(m, o, g, s, 0, Now)
           k == Len(m.lease) + 1
           x == NewLease(o, g, s, NoReplica, "logical", 0, Now)
<1>1. m \in ManagerStates /\ m.lease \in Seq(LeaseRecords)
  BY DEF Good, ManagerStates
<1>2. x \in LeaseRecords
  BY NewLeaseType DEF Purposes, Now
<1>3. /\ x.owner = o /\ x.segment = g /\ x.source = s /\ x.replica = NoReplica
      /\ x.purpose = "logical" /\ x.state = "active"
  BY DEF NewLease
<1>4. n.lease = Append(m.lease, x)
  BY <1>1 DEF FreezeAndAcquireLogical, ManagerStates
<1>5. Good(n)
  BY FreezeGood DEF Now
<1> HIDE DEF n, x
<1>6. /\ DOMAIN n.lease = DOMAIN m.lease \cup {k}
      /\ k \notin DOMAIN m.lease /\ k \in Nat \ {0}
      /\ n.lease[k] = x
      /\ \A l \in DOMAIN m.lease : n.lease[l] = m.lease[l]
      /\ \A p, q : x.owner # p \/ x.segment # q => SameOf(m.lease, n.lease, p, q)
  BY <1>1, <1>2, <1>4, Appended
<1> HIDE DEF k
<1>7. NoSuspects(n)
  BY <1>3, <1>6 DEF NoSuspects
<1> QED
  BY <1>3, <1>5, <1>6, <1>7 DEF n, k

(* lease_batch of one request grants it one more lease, k.                 *)
Granted(m, n, k, o, q) ==
    /\ Good(n) /\ NoSuspects(n) /\ Len(n.lease) = k
    /\ DOMAIN n.lease = DOMAIN m.lease \cup {k}
    /\ k \notin DOMAIN m.lease /\ k \in Nat \ {0}
    /\ n.lease[k].owner = o /\ n.lease[k].segment = q.segment
    /\ n.lease[k].source = q.source
    /\ n.lease[k].replica = q.replica /\ n.lease[k].purpose = q.purpose
    /\ n.lease[k].state = "active" /\ (q.purpose = "execution" => n.lease[k].exec)
    /\ \A l \in DOMAIN m.lease : n.lease[l] = m.lease[l]
    /\ \A p, r : p # o \/ r # q.segment => SameOf(m.lease, n.lease, p, r)

(* A granted batch of one request adds exactly one live lease, for the owner and segment
   that asked. *)
LEMMA GrantStep ==
    ASSUME NEW m, Good(m), NoSuspects(m), NEW o \in Owners, NEW q \in BatchRequests,
           CanLeaseBatch(m, o, <<q>>, NoCap)
    PROVE  Granted(m, LeaseBatch(m, o, <<q>>, 0, Now), Len(m.lease) + 1, o, q)
<1> DEFINE n == LeaseBatch(m, o, <<q>>, 0, Now)
           k == Len(m.lease) + 1
           x == BatchLease(o, q, 0, Now)
<1>1. m \in ManagerStates /\ m.lease \in Seq(LeaseRecords) /\ <<q>> \in Seq(BatchRequests)
  BY DEF Good, ManagerStates
<1>2. x \in LeaseRecords
  BY NewLeaseType DEF BatchLease, BatchRequests, Now, Purposes
<1>3. /\ x.owner = o /\ x.segment = q.segment /\ x.source = q.source /\ x.replica = q.replica
      /\ x.purpose = q.purpose /\ x.state = "active" /\ (q.purpose = "execution" => x.exec)
  BY DEF BatchLease, NewLease
<1>4. n.lease = Append(m.lease, x)
  <2>1. [i \in DOMAIN <<q>> |-> BatchLease(o, <<q>>[i], 0, Now)] = <<x>>
    OBVIOUS
  <2>2. n.lease = m.lease \o [i \in DOMAIN <<q>> |-> BatchLease(o, <<q>>[i], 0, Now)]
    BY <1>1 DEF LeaseBatch, ManagerStates
  <2> HIDE DEF x
  <2> QED
    BY <1>1, <1>2, <2>1, <2>2
<1>5. Good(n)
  BY <1>1, BatchGood DEF Now
<1> HIDE DEF n, x
<1>6. /\ DOMAIN n.lease = DOMAIN m.lease \cup {k}
      /\ k \notin DOMAIN m.lease /\ k \in Nat \ {0} /\ Len(n.lease) = k
      /\ n.lease[k] = x
      /\ \A l \in DOMAIN m.lease : n.lease[l] = m.lease[l]
      /\ \A p, r : x.owner # p \/ x.segment # r => SameOf(m.lease, n.lease, p, r)
  BY <1>1, <1>2, <1>4, Appended
<1> HIDE DEF k
<1>7. NoSuspects(n)
  BY <1>3, <1>6 DEF NoSuspects
<1> QED
  BY <1>3, <1>5, <1>6, <1>7 DEF n, k, Granted

(* What all the updates of one lease have in common.                       *)
SameLease(x, y) ==
    /\ y.owner = x.owner /\ y.segment = x.segment /\ y.source = x.source
    /\ y.replica = x.replica

OneLease(m, n, l) ==
    /\ DOMAIN n.lease = DOMAIN m.lease /\ SameLease(m.lease[l], n.lease[l])
    /\ \A k \in DOMAIN m.lease : k # l => n.lease[k] = m.lease[k]

(* A step that touches one lease leaves the leases of every other owner or segment
   alone. *)
LEMMA OneLeaseSame ==
    ASSUME NEW m, NEW n, NEW l \in DOMAIN m.lease, OneLease(m, n, l)
    PROVE  \A p, q : p # m.lease[l].owner \/ q # m.lease[l].segment =>
             SameOf(m.lease, n.lease, p, q)
BY Updated DEF OneLease, SameLease

(* release by the request.                                                 *)
LEMMA GiveBackStep ==
    ASSUME NEW m, Good(m), NoSuspects(m), NEW l \in DOMAIN m.lease
    PROVE  LET n == Release(m, l, "request")
           IN  /\ Good(n) /\ NoSuspects(n) /\ OneLease(m, n, l)
               /\ n.lease[l].state = "released" /\ n.lease[l].purpose = m.lease[l].purpose
<1> DEFINE n == Release(m, l, "request")
<1>1. m \in ManagerStates /\ m.lease[l] \in LeaseRecords
  BY RecordTypes DEF Good
<1>2. /\ DOMAIN n.lease = DOMAIN m.lease
      /\ \A k \in DOMAIN m.lease :
           n.lease[k] = IF k = l /\ m.lease[k].state # "released"
                        THEN Released(m.lease[k], "request") ELSE m.lease[k]
  BY <1>1 DEF Release, ReleaseAll, ManagerStates, Live
<1>3. LET y == Released(m.lease[l], "request")
      IN  SameLease(m.lease[l], y) /\ y.state = "released" /\ y.purpose = m.lease[l].purpose
  BY <1>1 DEF Released, LeaseRecords, SameLease
<1>4. Good(n)
  BY ReleaseGood DEF Release, Reasons
<1> HIDE DEF n
<1>5. OneLease(m, n, l)
  BY <1>2, <1>3 DEF OneLease, SameLease
<1>6. NoSuspects(n)
  BY <1>2, <1>3 DEF NoSuspects
<1> QED
  BY <1>2, <1>3, <1>4, <1>5, <1>6 DEF n

(* mark_physical_ready, of a lease that copies.                            *)
LEMMA ReadyStep ==
    ASSUME NEW m, Good(m), NoSuspects(m), NEW l \in DOMAIN m.lease, CanMarkReady(m, l)
    PROVE  LET n == MarkPhysicalReady(m, l)
           IN  /\ Good(n) /\ NoSuspects(n) /\ OneLease(m, n, l)
               /\ n.lease[l].state = m.lease[l].state
               /\ n.lease[l].purpose = m.lease[l].purpose
               /\ m.lease[l].exec => n.lease[l].exec
<1> DEFINE n == MarkPhysicalReady(m, l)
           y == [m.lease[l] EXCEPT !.copy = FALSE, !.ready = TRUE]
<1>1. m \in ManagerStates /\ m.lease[l] \in LeaseRecords /\ m.lease \in Seq(LeaseRecords)
  BY RecordTypes DEF Good, ManagerStates
<1>2. /\ SameLease(m.lease[l], y) /\ y.state = m.lease[l].state
      /\ y.purpose = m.lease[l].purpose /\ (m.lease[l].exec => y.exec)
  BY <1>1 DEF LeaseRecords, SameLease
<1>3. n = m \/ n.lease = [m.lease EXCEPT ![l] = y]
  BY <1>1 DEF MarkPhysicalReady, ManagerStates
<1>4. Good(n)
  BY MarkReadyGood
<1> HIDE DEF n, y
<1>5. /\ OneLease(m, n, l)
      /\ n.lease[l].state = m.lease[l].state /\ n.lease[l].purpose = m.lease[l].purpose
      /\ m.lease[l].exec => n.lease[l].exec
  BY <1>1, <1>2, <1>3 DEF OneLease, SameLease
<1>6. NoSuspects(n)
  BY <1>5 DEF NoSuspects, OneLease
<1> QED
  BY <1>4, <1>5, <1>6 DEF n

(* promote_speculative.                                                    *)
LEMMA PromoteStep ==
    ASSUME NEW m, Good(m), NoSuspects(m), NEW l \in DOMAIN m.lease, CanPromote(m, l)
    PROVE  LET n == PromoteSpeculative(m, l)
           IN  /\ Good(n) /\ NoSuspects(n) /\ OneLease(m, n, l)
               /\ n.lease[l].state = m.lease[l].state
               /\ n.lease[l].purpose = "execution"
<1> DEFINE n == PromoteSpeculative(m, l)
           y == [m.lease[l] EXCEPT !.purpose = "execution", !.exec = TRUE]
<1>1. m \in ManagerStates /\ m.lease[l] \in LeaseRecords /\ m.lease \in Seq(LeaseRecords)
  BY RecordTypes DEF Good, ManagerStates
<1>2. /\ SameLease(m.lease[l], y) /\ y.state = m.lease[l].state
      /\ y.purpose = "execution"
  BY <1>1 DEF LeaseRecords, SameLease
<1>3. n.lease = [m.lease EXCEPT ![l] = y]
  BY <1>1 DEF PromoteSpeculative, ManagerStates
<1>4. Good(n)
  BY PromoteGood
<1> HIDE DEF n, y
<1>5. /\ OneLease(m, n, l)
      /\ n.lease[l].state = m.lease[l].state /\ n.lease[l].purpose = "execution"
  BY <1>1, <1>2, <1>3 DEF OneLease, SameLease
<1>6. NoSuspects(n)
  BY <1>5 DEF NoSuspects, OneLease
<1> QED
  BY <1>4, <1>5, <1>6 DEF n

(***************************************************************************)
(* Worlds by their parts.                                                  *)
(***************************************************************************)
At(r, m, h) == [rows |-> r, m |-> m, h |-> h]

RowTables == [Owners -> [Segments -> Rows]]
WithRow(r, o, g, row) == [r EXCEPT ![o] = [r[o] EXCEPT ![g] = row]]

(* A row table with one row replaced is a row table. *)
LEMMA WithRowType ==
    ASSUME NEW r \in RowTables, NEW o \in Owners, NEW g \in Segments, NEW row \in Rows
    PROVE  LET q == WithRow(r, o, g, row)
           IN  /\ q \in RowTables /\ q[o][g] = row
               /\ \A p \in Owners, k \in Segments : p # o \/ k # g => q[p][k] = r[p][k]
BY DEF WithRow, RowTables

(* A world put together from its three parts has those parts. *)
LEMMA AtWorld ==
    ASSUME NEW r \in RowTables, NEW m \in ManagerStates, NEW h \in HbmStates
    PROVE  LET v == At(r, m, h)
           IN  v \in Worlds /\ v.rows = r /\ v.m = m /\ v.h = h
BY DEF At, Worlds, RowTables

(* A world is what its three parts put together. *)
LEMMA WorldAt ==
    ASSUME NEW w \in Worlds
    PROVE  /\ w = At(w.rows, w.m, w.h)
           /\ w.rows \in RowTables /\ w.m \in ManagerStates /\ w.h \in HbmStates
BY DEF At, Worlds, RowTables

(* What a method called for segment g of o leaves of a fitting world.      *)
LEMMA PutFits ==
    ASSUME NEW w, NEW fin, WorldFits(w, fin), NEW o \in Owners, NEW g \in Segments,
           NEW row \in Rows, NEW m, NEW h \in HbmStates, NEW done,
           Good(m), NoSuspects(m), ReserveKept(h),
           Fit(row, m.lease, h.rows, o, g, g \in done[o]),
           \A p \in Owners, k \in Segments :
             p # o \/ k # g => /\ SameOf(w.m.lease, m.lease, p, k)
                              /\ SameOf(w.h.rows, h.rows, p, k)
                              /\ (k \in done[p]) = (k \in fin[p])
    PROVE  WorldFits(At(WithRow(w.rows, o, g, row), m, h), done)
<1> DEFINE r == WithRow(w.rows, o, g, row)
           v == At(r, m, h)
<1>1. w.rows \in RowTables /\ m \in ManagerStates
  BY DEF WorldFits, Worlds, RowTables, Good
<1>2. /\ r \in RowTables /\ r[o][g] = row
      /\ \A p \in Owners, k \in Segments : p # o \/ k # g => r[p][k] = w.rows[p][k]
  BY <1>1, WithRowType
<1> HIDE DEF r
<1>3. v \in Worlds /\ v.rows = r /\ v.m = m /\ v.h = h
  BY <1>1, <1>2, AtWorld
<1> HIDE DEF v
<1>4. WorldFits(v, done)
  BY <1>2, <1>3, OneSegment
<1> QED
  BY <1>4 DEF v, r

(***************************************************************************)
(* Freezing a Source (gate1 with a passed plan).                           *)
(***************************************************************************)
Frozen(row, k) == [row EXCEPT !.logical = k, !.sel = "source_frozen"]

(* mark_gate1 on a winner writes one row and one HBM record, and nothing of the manager. *)
LEMMA Gate1PassedIs ==
    ASSUME NEW w \in Worlds, NEW o \in Owners, NEW g \in Segments
    PROVE  Gate1Passed(w, o, g) =
             At(WithRow(w.rows, o, g, Frozen(w.rows[o][g], Len(w.m.lease) + 1)),
                FreezeAndAcquireLogical(w.m, o, g, w.rows[o][g].source, 0, Now), w.h)
<1> DEFINE v == Gate1Passed(w, o, g)
<1>1. v.m = FreezeAndAcquireLogical(w.m, o, g, w.rows[o][g].source, 0, Now) /\ v.h = w.h
  BY DEF Gate1Passed, Worlds
<1>2. v.rows = WithRow(w.rows, o, g, Frozen(w.rows[o][g], Len(w.m.lease) + 1))
  BY DEF Gate1Passed, Worlds, WithRow, Frozen
<1>3. v = At(v.rows, v.m, v.h)
  <2> DEFINE a == FreezeAndAcquireLogical(w.m, o, g, w.rows[o][g].source, 0, Now)
             b == [w.rows EXCEPT ![o][g] = [@ EXCEPT !.logical = Len(w.m.lease) + 1, !.sel = "source_frozen"]]
  <2>1. v = [w EXCEPT !.m = a, !.rows = b]
    BY DEF Gate1Passed
  <2> HIDE DEF v, a, b
  <2> QED
    BY <2>1 DEF Worlds, At
<1> QED
  BY <1>1, <1>2, <1>3

(* After Gate 1 admits a winner the world is well formed. *)
LEMMA Gate1PassFits ==
    ASSUME NEW w, NEW fin, WorldFits(w, fin), NEW o \in Owners, NEW g \in Segments,
           CanGate1Pass(w, o, g)
    PROVE  WorldFits(Gate1Passed(w, o, g), fin)
<1> DEFINE row == w.rows[o][g]
           k == Len(w.m.lease) + 1
           n == FreezeAndAcquireLogical(w.m, o, g, row.source, 0, Now)
           new == Frozen(row, k)
<1>1. /\ w \in Worlds /\ row \in Rows /\ Good(w.m) /\ NoSuspects(w.m)
      /\ w.h \in HbmStates /\ ReserveKept(w.h)
      /\ Fit(row, w.m.lease, w.h.rows, o, g, g \in fin[o])
  BY RowTypes DEF WorldFits, Worlds
<1>2. row.sel = "decision_ready" /\ row.source \in Sources /\ CanFreeze(w.m, o, g, row.source)
  BY <1>1 DEF CanGate1Pass, CanGate1, Fit, RowFits
<1>3. /\ Good(n) /\ NoSuspects(n)
      /\ DOMAIN n.lease = DOMAIN w.m.lease \cup {k}
      /\ k \notin DOMAIN w.m.lease /\ k \in Nat \ {0}
      /\ n.lease[k].owner = o /\ n.lease[k].segment = g /\ n.lease[k].source = row.source
      /\ n.lease[k].replica = NoReplica /\ n.lease[k].purpose = "logical"
      /\ n.lease[k].state = "active"
      /\ \A l \in DOMAIN w.m.lease : n.lease[l] = w.m.lease[l]
      /\ \A p, q : p # o \/ q # g => SameOf(w.m.lease, n.lease, p, q)
  BY <1>1, <1>2, FreezeStep
<1>4. Gate1Passed(w, o, g) = At(WithRow(w.rows, o, g, new), n, w.h)
  BY <1>1, Gate1PassedIs
<1>5. /\ new \in Rows /\ new.sel = "source_frozen" /\ new.logical = k
      /\ new.gate2 = row.gate2 /\ new.prep = row.prep /\ new.commit = row.commit
      /\ new.source = row.source /\ new.physical = row.physical /\ new.hbm = row.hbm
  BY <1>1, <1>3 DEF Rows, Selections, Frozen
<1> HIDE DEF new, n, k
<1>6. Fit(new, n.lease, w.h.rows, o, g, g \in fin[o])
  <2>1. /\ row.logical = NoId /\ row.gate2 = "not_evaluated" /\ row.prep = "none"
        /\ row.commit = "uncommitted" /\ row.physical = NoId /\ g \notin fin[o]
    BY <1>1, <1>2 DEF Fit, RowFits
  <2>2. RowFits(new, g \in fin[o])
    BY <1>1, <1>2, <1>5, <2>1 DEF Fit, RowFits
  <2>3. NoId \notin DOMAIN w.m.lease
    BY <1>1 DEF Good, ManagerStates, NoId
  <2>4. \A l \in DOMAIN w.m.lease : w.m.lease[l].owner = o /\ w.m.lease[l].segment = g
          => w.m.lease[l].state = "released"
    BY <1>1, <2>1, <2>3 DEF Fit, Leased
  <2>5. Leased(new, n.lease, o, g, g \in fin[o])
    BY <1>3, <1>5, <2>1, <2>4 DEF Leased, Dense
  <2>6. Reserved(new, w.h.rows, o, g, g \in fin[o])
    BY <1>1, <1>5, <2>1 DEF Fit, Reserved, Dense
  <2> QED
    BY <2>2, <2>5, <2>6 DEF Fit
<1>7. \A p \in Owners, q \in Segments :
        p # o \/ q # g => SameOf(w.m.lease, n.lease, p, q) /\ SameOf(w.h.rows, w.h.rows, p, q)
  BY <1>3, SameKept
<1>8. WorldFits(At(WithRow(w.rows, o, g, new), n, w.h), fin)
  BY <1>1, <1>3, <1>5, <1>6, <1>7, PutFits
<1> QED
  BY <1>4, <1>8

(***************************************************************************)
(* Giving back what a row owns.                                            *)
(***************************************************************************)
GiveBack(m, id) == IF id = NoId THEN m ELSE Release(m, id, "request")
WriteOff(h, id) == IF id = NoId THEN h ELSE ReleaseReservation(h, id)

(* The leases of I are released and nothing else changes.                  *)
Freed(m, n, I) ==
    /\ DOMAIN n.lease = DOMAIN m.lease
    /\ \A l \in DOMAIN m.lease :
         /\ SameLease(m.lease[l], n.lease[l]) /\ n.lease[l].purpose = m.lease[l].purpose
         /\ IF l \in I THEN n.lease[l].state = "released" ELSE n.lease[l] = m.lease[l]

(* Releasing a lease identifier, or none, frees at most that lease. *)
LEMMA GiveBackFrees ==
    ASSUME NEW m, Good(m), NoSuspects(m), NEW id, id \in DOMAIN m.lease \/ id = NoId
    PROVE  LET n == GiveBack(m, id)
           IN  Good(n) /\ NoSuspects(n) /\ Freed(m, n, {id})
<1>1. CASE id = NoId
  <2>1. NoId \notin DOMAIN m.lease
    BY DEF Good, ManagerStates, NoId
  <2> QED
    BY <1>1, <2>1 DEF GiveBack, Freed, SameLease
<1>2. CASE id # NoId
  <2> DEFINE n == Release(m, id, "request")
  <2>1. /\ Good(n) /\ NoSuspects(n) /\ OneLease(m, n, id)
        /\ n.lease[id].state = "released" /\ n.lease[id].purpose = m.lease[id].purpose
    BY <1>2, GiveBackStep
  <2> HIDE DEF n
  <2>2. Freed(m, n, {id})
    BY <2>1 DEF Freed, OneLease, SameLease
  <2> QED
    BY <1>2, <2>1, <2>2 DEF GiveBack, n
<1> QED
  BY <1>1, <1>2

(* Freeing some leases and then others frees the leases of both. *)
LEMMA FreedTwice ==
    ASSUME NEW m, NEW n, NEW k, NEW I, NEW J, Freed(m, n, I), Freed(n, k, J)
    PROVE  Freed(m, k, I \cup J)
BY DEF Freed, SameLease

(* Freeing leases of other segments leaves the leases of this segment alone. *)
LEMMA FreedElsewhere ==
    ASSUME NEW m, NEW n, NEW I, Freed(m, n, I), NEW o, NEW g,
           \A l \in I \cap DOMAIN m.lease : m.lease[l].owner # o \/ m.lease[l].segment # g
    PROVE  SameOf(m.lease, n.lease, o, g)
BY DEF Freed, SameLease, SameOf, Of

(* The reservation id, if any, is released and nothing else changes.       *)
WrittenOff(h, n, id) ==
    /\ n \in HbmStates /\ ReserveKept(n) /\ n.epoch >= h.epoch
    /\ id # NoId /\ ~h.rows[id].released => n.epoch > h.epoch
    /\ DOMAIN n.rows = DOMAIN h.rows
    /\ \A i \in DOMAIN h.rows :
         /\ n.rows[i].owner = h.rows[i].owner /\ n.rows[i].segment = h.rows[i].segment
         /\ n.rows[i].kind = h.rows[i].kind
         /\ IF i = id THEN n.rows[i].released ELSE n.rows[i] = h.rows[i]

(* Releasing an HBM reservation, or none, writes off at most that record. *)
LEMMA WriteOffFrees ==
    ASSUME NEW h \in HbmStates, ReserveKept(h), NEW id, id \in DOMAIN h.rows \/ id = NoId
    PROVE  WrittenOff(h, WriteOff(h, id), id)
<1>1. h.epoch \in Nat
  BY HbmTypes
<1>2. CASE id = NoId
  <2>1. NoId \notin DOMAIN h.rows
    BY HbmTypes DEF NoId
  <2> QED
    BY <1>1, <1>2, <2>1 DEF WriteOff, WrittenOff
<1>3. CASE id # NoId
  <2> DEFINE n == ReleaseReservation(h, id)
  <2>1. /\ n \in HbmStates /\ ReserveKept(n)
        /\ n.epoch >= h.epoch /\ (~h.rows[id].released => n.epoch = h.epoch + 1)
        /\ DOMAIN n.rows = DOMAIN h.rows
        /\ n.rows[id].owner = h.rows[id].owner /\ n.rows[id].segment = h.rows[id].segment
        /\ n.rows[id].kind = h.rows[id].kind /\ n.rows[id].released
        /\ \A j \in DOMAIN h.rows : j # id => n.rows[j] = h.rows[j]
    BY <1>3, WriteOffStep
  <2>3. n = WriteOff(h, id)
    BY <1>3 DEF WriteOff
  <2> HIDE DEF n
  <2>2. ~h.rows[id].released => n.epoch > h.epoch
    BY <1>1, <2>1
  <2> QED
    BY <1>3, <2>1, <2>2, <2>3 DEF WrittenOff
<1> QED
  BY <1>2, <1>3

(* Writing off another segment's record leaves the records of this segment alone. *)
LEMMA WrittenElsewhere ==
    ASSUME NEW h, NEW n, NEW id, WrittenOff(h, n, id), NEW o, NEW g,
           \A i \in {id} \cap DOMAIN h.rows : h.rows[i].owner # o \/ h.rows[i].segment # g
    PROVE  SameOf(h.rows, n.rows, o, g)
BY DEF WrittenOff, SameOf, Of

(* The part of a segment that lets everything go: its leases and its       *)
(* reservation are released, the others' untouched.                        *)
LetGo(w, m, h, o, g) ==
    LET row == w.rows[o][g]
    IN  /\ m = GiveBack(GiveBack(w.m, row.physical), row.logical)
        /\ h = WriteOff(w.h, row.hbm)

(* A row that lets its lease and reservation go leaves a manager and an HBM in which
   only these are freed. *)
LEMMA LetGoFrees ==
    ASSUME NEW w, NEW fin, WorldFits(w, fin), NEW o \in Owners, NEW g \in Segments,
           NEW m, NEW h, LetGo(w, m, h, o, g), w.rows[o][g].sel = "source_frozen"
    PROVE  LET row == w.rows[o][g]
           IN  /\ Good(m) /\ NoSuspects(m) /\ h \in HbmStates /\ ReserveKept(h)
               /\ Freed(w.m, m, {row.physical, row.logical})
               /\ DOMAIN h.rows = DOMAIN w.h.rows
               /\ \A i \in DOMAIN h.rows :
                    /\ h.rows[i].owner = w.h.rows[i].owner
                    /\ h.rows[i].segment = w.h.rows[i].segment
                    /\ h.rows[i].kind = w.h.rows[i].kind
               /\ \A l \in DOMAIN m.lease :
                    m.lease[l].owner = o /\ m.lease[l].segment = g =>
                      m.lease[l].state = "released"
               /\ \A i \in DOMAIN h.rows :
                    h.rows[i].owner = o /\ h.rows[i].segment = g =>
                      h.rows[i].kind = "workspace" \/ h.rows[i].released
               /\ h.epoch >= w.h.epoch
               /\ row.prep # "none" /\ g \notin fin[o] => h.epoch > w.h.epoch
               /\ \A p \in Owners, k \in Segments :
                    p # o \/ k # g => SameOf(w.m.lease, m.lease, p, k)
                                      /\ SameOf(w.h.rows, h.rows, p, k)
<1> DEFINE row == w.rows[o][g]
           T == w.m.lease
           R == w.h.rows
<1>1. /\ w \in Worlds /\ row \in Rows /\ Good(w.m) /\ NoSuspects(w.m)
      /\ w.h \in HbmStates /\ ReserveKept(w.h)
      /\ Fit(row, T, R, o, g, g \in fin[o])
  BY RowTypes DEF WorldFits, Worlds
<1>2. NoId \notin DOMAIN T /\ NoId \notin DOMAIN R
  BY <1>1, HbmTypes DEF Good, ManagerStates, NoId
<1>3. /\ row.logical \in DOMAIN T
      /\ T[row.logical].owner = o /\ T[row.logical].segment = g
      /\ row.prep = "none" => row.physical = NoId /\ row.hbm = NoId
      /\ row.prep # "none" =>
           /\ row.physical \in DOMAIN T
           /\ T[row.physical].owner = o /\ T[row.physical].segment = g
           /\ row.hbm \in DOMAIN R
           /\ R[row.hbm].owner = o /\ R[row.hbm].segment = g
           /\ g \notin fin[o] => ~R[row.hbm].released
  BY <1>1 DEF Fit, RowFits, Leased, Reserved
<1> DEFINE m1 == GiveBack(w.m, row.physical)
<1>4. Good(m1) /\ NoSuspects(m1) /\ Freed(w.m, m1, {row.physical})
  BY <1>1, <1>3, GiveBackFrees
<1>5. row.logical \in DOMAIN m1.lease
  BY <1>3, <1>4 DEF Freed
<1>6. m = GiveBack(m1, row.logical)
  BY DEF LetGo
<1> HIDE DEF m1
<1>7. Good(m) /\ NoSuspects(m) /\ Freed(m1, m, {row.logical})
  BY <1>4, <1>5, <1>6, GiveBackFrees
<1>8. Freed(w.m, m, {row.physical, row.logical})
  <2>1. Freed(w.m, m, {row.physical} \cup {row.logical})
    BY <1>4, <1>7, FreedTwice
  <2>2. {row.physical} \cup {row.logical} = {row.physical, row.logical}
    OBVIOUS
  <2> QED
    BY <2>1, <2>2
<1>9. h = WriteOff(w.h, row.hbm)
  BY DEF LetGo
<1>10. row.hbm \in DOMAIN R \/ row.hbm = NoId
  BY <1>3
<1>11. WrittenOff(w.h, h, row.hbm)
  BY <1>1, <1>9, <1>10, WriteOffFrees
<1>12. \A l \in DOMAIN m.lease :
         m.lease[l].owner = o /\ m.lease[l].segment = g => m.lease[l].state = "released"
  <2>1. \A l \in DOMAIN T : T[l].owner = o /\ T[l].segment = g /\ T[l].state # "released" =>
          l \in {row.physical, row.logical}
    BY <1>1 DEF Fit, Leased
  <2> QED
    BY <1>8, <2>1 DEF Freed, SameLease
<1>13. \A i \in DOMAIN h.rows :
         h.rows[i].owner = o /\ h.rows[i].segment = g =>
           h.rows[i].kind = "workspace" \/ h.rows[i].released
  <2>1. \A i \in DOMAIN R : R[i].owner = o /\ R[i].segment = g /\ ~R[i].released
                            /\ R[i].kind # "workspace" => i = row.hbm
    BY <1>1 DEF Fit, Reserved
  <2> QED
    BY <1>11, <2>1 DEF WrittenOff
<1>14. row.prep # "none" /\ g \notin fin[o] => h.epoch > w.h.epoch
  BY <1>2, <1>3, <1>11 DEF WrittenOff
<1>15. \A p \in Owners, k \in Segments :
         p # o \/ k # g => SameOf(T, m.lease, p, k) /\ SameOf(R, h.rows, p, k)
  <2> TAKE p \in Owners, k \in Segments
  <2> HAVE p # o \/ k # g
  <2>1. \A l \in {row.physical, row.logical} \cap DOMAIN T : T[l].owner # p \/ T[l].segment # k
    BY <1>2, <1>3
  <2>2. SameOf(T, m.lease, p, k)
    BY <1>8, <2>1, FreedElsewhere
  <2>3. \A i \in {row.hbm} \cap DOMAIN R : R[i].owner # p \/ R[i].segment # k
    BY <1>2, <1>3
  <2>4. SameOf(R, h.rows, p, k)
    BY <1>11, <2>3, WrittenElsewhere
  <2> QED
    BY <2>2, <2>4
<1>16. /\ h \in HbmStates /\ ReserveKept(h) /\ DOMAIN h.rows = DOMAIN R /\ h.epoch >= w.h.epoch
       /\ \A i \in DOMAIN h.rows :
            /\ h.rows[i].owner = R[i].owner /\ h.rows[i].segment = R[i].segment
            /\ h.rows[i].kind = R[i].kind
  BY <1>11 DEF WrittenOff
<1> QED
  BY <1>7, <1>8, <1>16, <1>12, <1>13, <1>14, <1>15

(***************************************************************************)
(* The methods of a row that is closed as dense, or has been executed: it  *)
(* lets everything go.                                                     *)
(***************************************************************************)
LEMMA ReleaseLeaseIs ==
    ASSUME NEW r, NEW m, NEW h, NEW id
    PROVE  ReleaseLeaseOf(At(r, m, h), id) = At(r, GiveBack(m, id), h)
<1> DEFINE n == Release(m, id, "request")
<1>1. Release(At(r, m, h).m, id, "request") = n
  BY DEF At
<1>2. [At(r, m, h) EXCEPT !.m = Release(@, id, "request")] = At(r, n, h)
  <2> HIDE DEF n
  <2> QED
    BY <1>1 DEF At
<1> QED
  BY <1>2 DEF ReleaseLeaseOf, GiveBack

(* The release of one reservation writes the HBM of the world and nothing else. *)
LEMMA ReleaseHbmIs ==
    ASSUME NEW r, NEW m, NEW h, NEW id
    PROVE  ReleaseHbmOf(At(r, m, h), id) = At(r, m, WriteOff(h, id))
<1> DEFINE n == ReleaseReservation(h, id)
<1>1. ReleaseReservation(At(r, m, h).h, id) = n
  BY DEF At
<1>2. [At(r, m, h) EXCEPT !.h = ReleaseReservation(@, id)] = At(r, m, n)
  <2> HIDE DEF n
  <2> QED
    BY <1>1 DEF At
<1> QED
  BY <1>2 DEF ReleaseHbmOf, WriteOff

(* A method that writes the row, whatever it has done before.              *)
LEMMA RowWritten ==
    ASSUME NEW r, NEW m, NEW h, NEW o, NEW g, NEW x
    PROVE  [At(r, m, h) EXCEPT !.rows[o][g] = x] = At(WithRow(r, o, g, x), m, h)
<1> DEFINE q == WithRow(r, o, g, x)
<1>1. [At(r, m, h) EXCEPT !.rows[o][g] = x] = [At(r, m, h) EXCEPT !.rows = q]
  BY DEF At, WithRow
<1> HIDE DEF q
<1>2. [At(r, m, h) EXCEPT !.rows = q] = At(q, m, h)
  BY DEF At
<1> QED
  BY <1>1, <1>2 DEF q

Cleared(row) == [row EXCEPT !.physical = NoId, !.hbm = NoId, !.prep = "none"]

(* _release_physical_preparation clears the row's handles and frees its lease and its
   reservation. *)
LEMMA ReleasePhysicalIs ==
    ASSUME NEW r \in RowTables, NEW m, NEW h, NEW o \in Owners, NEW g \in Segments
    PROVE  ReleasePhysicalPreparation(At(r, m, h), o, g) =
             At(WithRow(r, o, g, Cleared(r[o][g])),
                GiveBack(m, r[o][g].physical), WriteOff(h, r[o][g].hbm))
<1> DEFINE a == GiveBack(m, r[o][g].physical)
           b == WriteOff(h, r[o][g].hbm)
           v == At(r, a, b)
<1>1. ReleaseHbmOf(ReleaseLeaseOf(At(r, m, h), r[o][g].physical), r[o][g].hbm) = v
  BY ReleaseLeaseIs, ReleaseHbmIs
<1>2. At(r, m, h).rows = r
  BY DEF At
<1>3. ReleasePhysicalPreparation(At(r, m, h), o, g) =
        [v EXCEPT !.rows[o][g] = [@ EXCEPT !.physical = NoId, !.hbm = NoId, !.prep = "none"]]
  <2> HIDE DEF v, a, b
  <2> QED
    BY <1>1, <1>2 DEF ReleasePhysicalPreparation
<1>4. v.rows[o][g] = r[o][g]
  <2> HIDE DEF a, b
  <2> QED
    BY DEF At
<1>5. [v EXCEPT !.rows[o][g] = Cleared(r[o][g])] = At(WithRow(r, o, g, Cleared(r[o][g])), a, b)
  <2> DEFINE x == Cleared(r[o][g])
  <2> HIDE DEF a, b, x
  <2> QED
    BY RowWritten
<1> QED
  BY <1>3, <1>4, <1>5 DEF Cleared

(* What is left of a segment that has let everything go.                   *)
LEMMA LetGoFits ==
    ASSUME NEW w, NEW fin, WorldFits(w, fin), NEW o \in Owners, NEW g \in Segments,
           NEW m, NEW h, LetGo(w, m, h, o, g), w.rows[o][g].sel = "source_frozen",
           NEW new \in Rows, NEW done,
           new.sel = "source_frozen", new.source = w.rows[o][g].source,
           new.logical = w.rows[o][g].logical,
           RowFits(new, g \in done[o]), Dense(new) \/ g \in done[o],
           new.prep # "none" => new = w.rows[o][g],
           \A p \in Owners, k \in Segments :
             p # o \/ k # g => (k \in done[p]) = (k \in fin[p])
    PROVE  WorldFits(At(WithRow(w.rows, o, g, new), m, h), done) /\ h.epoch >= w.h.epoch
<1> DEFINE row == w.rows[o][g]
           T == w.m.lease
           R == w.h.rows
<1>1. /\ w \in Worlds /\ row \in Rows /\ Fit(row, T, R, o, g, g \in fin[o])
  BY RowTypes DEF WorldFits
<1>2. /\ Good(m) /\ NoSuspects(m) /\ h \in HbmStates /\ ReserveKept(h)
      /\ Freed(w.m, m, {row.physical, row.logical})
      /\ DOMAIN h.rows = DOMAIN R
      /\ \A i \in DOMAIN h.rows :
           /\ h.rows[i].owner = R[i].owner /\ h.rows[i].segment = R[i].segment
           /\ h.rows[i].kind = R[i].kind
      /\ \A l \in DOMAIN m.lease :
           m.lease[l].owner = o /\ m.lease[l].segment = g => m.lease[l].state = "released"
      /\ \A i \in DOMAIN h.rows :
           h.rows[i].owner = o /\ h.rows[i].segment = g =>
             h.rows[i].kind = "workspace" \/ h.rows[i].released
      /\ h.epoch >= w.h.epoch
      /\ \A p \in Owners, k \in Segments :
           p # o \/ k # g => SameOf(T, m.lease, p, k) /\ SameOf(R, h.rows, p, k)
  BY LetGoFrees, SMTT(30)
<1>3. DOMAIN m.lease = DOMAIN T
      /\ \A l \in DOMAIN T : SameLease(T[l], m.lease[l]) /\ m.lease[l].purpose = T[l].purpose
  BY <1>2 DEF Freed
<1>4. Leased(new, m.lease, o, g, g \in done[o])
  <2>1. new.prep # "none" => g \in done[o]
    BY DEF RowFits, Dense
  <2>2. Leased(row, T, o, g, g \in fin[o])
    BY <1>1 DEF Fit
  <2>3. /\ row.logical \in DOMAIN T
        /\ T[row.logical].owner = o /\ T[row.logical].segment = g
        /\ T[row.logical].source = row.source
        /\ T[row.logical].purpose = "logical" /\ T[row.logical].replica = NoReplica
    BY <2>2 DEF Leased
  <2>4. new.prep # "none" =>
          /\ row.physical \in DOMAIN T
          /\ T[row.physical].owner = o /\ T[row.physical].segment = g
          /\ T[row.physical].source = row.source
          /\ T[row.physical].replica # NoReplica
          /\ T[row.physical].purpose = IF row.gate2 = "deferred" THEN "speculative" ELSE "execution"
    BY <2>2 DEF Leased
  <2>5. \A l \in DOMAIN T :
          /\ m.lease[l].owner = T[l].owner /\ m.lease[l].segment = T[l].segment
          /\ m.lease[l].source = T[l].source /\ m.lease[l].replica = T[l].replica
          /\ m.lease[l].purpose = T[l].purpose
    BY <1>3 DEF SameLease
  <2>6. \A l \in DOMAIN T : T[l].owner = o /\ T[l].segment = g => m.lease[l].state = "released"
    BY <1>2, <1>3, <2>5
  <2> HIDE DEF T, row
  <2>7. /\ new.logical \in DOMAIN m.lease
        /\ m.lease[new.logical].owner = o /\ m.lease[new.logical].segment = g
        /\ m.lease[new.logical].source = new.source
        /\ m.lease[new.logical].purpose = "logical"
        /\ m.lease[new.logical].replica = NoReplica
    BY <1>3, <2>3, <2>5 DEF row
  <2>8. new.prep # "none" =>
          /\ new.physical \in DOMAIN m.lease
          /\ m.lease[new.physical].owner = o /\ m.lease[new.physical].segment = g
          /\ m.lease[new.physical].source = new.source
          /\ m.lease[new.physical].replica # NoReplica
          /\ m.lease[new.physical].purpose =
               IF new.gate2 = "deferred" THEN "speculative" ELSE "execution"
    BY <1>3, <2>4, <2>5 DEF row
  <2>9. \A l \in DOMAIN m.lease :
          ~(m.lease[l].owner = o /\ m.lease[l].segment = g /\ m.lease[l].state # "released")
    BY <1>3, <2>5, <2>6
  <2> QED
    BY <2>1, <2>7, <2>8, <2>9 DEF Leased
<1>5. Reserved(new, h.rows, o, g, g \in done[o])
  <2>1. new.prep # "none" => g \in done[o]
    BY DEF RowFits, Dense
  <2> QED
    BY <1>1, <1>2, <2>1, ZenonT(30) DEF Fit, Reserved
<1>6. Fit(new, m.lease, h.rows, o, g, g \in done[o])
  BY <1>4, <1>5 DEF Fit
<1> QED
  BY <1>2, <1>6, PutFits

(* The row of a segment Gate 3 rejects, and of one Gate 2 moves.           *)
RejectedRow(row) == [Cleared(row) EXCEPT !.commit = "refined_dense"]
MovedRow(row, target) ==
    IF target = "predicted_dense"
    THEN [Cleared(row) EXCEPT !.gate2 = target] ELSE [row EXCEPT !.gate2 = target]

(* A rejection writes the row dense and lets go of all that it held. *)
LEMMA RejectedIs ==
    ASSUME NEW w \in Worlds, NEW o \in Owners, NEW g \in Segments
    PROVE  \E m, h : /\ LetGo(w, m, h, o, g)
                     /\ Gate3Rejected(w, o, g) =
                          At(WithRow(w.rows, o, g, RejectedRow(w.rows[o][g])), m, h)
<1> DEFINE row == w.rows[o][g]
           new == [row EXCEPT !.commit = "refined_dense"]
           r == WithRow(w.rows, o, g, new)
           m1 == GiveBack(w.m, row.physical)
           m == GiveBack(m1, row.logical)
           h == WriteOff(w.h, row.hbm)
           q == WithRow(r, o, g, Cleared(new))
<1>1. /\ w = At(w.rows, w.m, w.h) /\ w.rows \in RowTables /\ row \in Rows
  BY WorldAt, RowTypes
<1>2. /\ new \in Rows /\ new.physical = row.physical /\ new.hbm = row.hbm
      /\ new.logical = row.logical
  BY <1>1 DEF Rows, Commits
<1>3. /\ Cleared(new) = RejectedRow(row) /\ Cleared(new) \in Rows
      /\ Cleared(new).logical = row.logical
  BY <1>1 DEF Rows, Commits, Cleared, RejectedRow, Preparations, NoId
<1>4. [w EXCEPT !.rows[o][g].commit = "refined_dense"] = At(r, w.m, w.h)
  <2>1. [w EXCEPT !.rows[o][g].commit = "refined_dense"] = [w EXCEPT !.rows[o][g] = new]
    OBVIOUS
  <2> HIDE DEF new
  <2>2. [w EXCEPT !.rows[o][g] = new] = At(r, w.m, w.h)
    BY <1>1, RowWritten
  <2> QED
    BY <2>1, <2>2
<1> HIDE DEF new
<1>5. r \in RowTables /\ r[o][g] = new
  BY <1>1, <1>2, WithRowType
<1> HIDE DEF r
<1>6. ReleasePhysicalPreparation(At(r, w.m, w.h), o, g) = At(q, m1, h)
  BY <1>2, <1>5, ReleasePhysicalIs
<1>7. q \in RowTables /\ q[o][g] = Cleared(new)
      /\ q = WithRow(w.rows, o, g, RejectedRow(row))
  <2>1. q \in RowTables /\ q[o][g] = Cleared(new)
    BY <1>3, <1>5, WithRowType
  <2>2. WithRow(r, o, g, Cleared(new)) = WithRow(w.rows, o, g, Cleared(new))
    BY <1>1 DEF WithRow, RowTables, r
  <2> QED
    BY <1>3, <2>1, <2>2
<1> HIDE DEF q, m1
<1>8. At(q, m1, h).rows = q
  BY DEF At
<1>9. ReleaseLogicalLease(At(q, m1, h), o, g) = At(q, m, h)
  BY <1>3, <1>7, <1>8, ReleaseLeaseIs DEF ReleaseLogicalLease
<1>10. Gate3Rejected(w, o, g) = At(q, m, h)
  BY <1>4, <1>6, <1>9 DEF Gate3Rejected
<1>11. LetGo(w, m, h, o, g)
  BY DEF LetGo, m1
<1> QED
  BY <1>7, <1>10, <1>11

(* The rejected of apply_gate3_subset.                                     *)
LEMMA RejectFits ==
    ASSUME NEW w, NEW fin, WorldFits(w, fin), NEW o \in Owners, NEW g \in Segments,
           ReadyToCommit(w.rows[o][g])
    PROVE  /\ WorldFits(Gate3Rejected(w, o, g), fin)
           /\ Gate3Rejected(w, o, g).rows = WithRow(w.rows, o, g, RejectedRow(w.rows[o][g]))
           /\ Gate3Rejected(w, o, g).h.epoch >= w.h.epoch
<1> DEFINE row == w.rows[o][g]
           new == RejectedRow(row)
<1>1. w \in Worlds /\ row \in Rows /\ RowFits(row, g \in fin[o])
  BY RowTypes DEF WorldFits, Fit
<1>2. PICK m, h : /\ LetGo(w, m, h, o, g)
                  /\ Gate3Rejected(w, o, g) = At(WithRow(w.rows, o, g, new), m, h)
  BY <1>1, RejectedIs
<1>3. row.sel = "source_frozen" /\ g \notin fin[o]
  BY <1>1 DEF RowFits, ReadyToCommit
<1>4. /\ new \in Rows /\ new.sel = row.sel /\ new.source = row.source
      /\ new.logical = row.logical /\ new.prep = "none" /\ new.gate2 = row.gate2
      /\ new.commit = "refined_dense" /\ new.physical = NoId /\ new.hbm = NoId
  BY <1>1 DEF Rows, Commits, Cleared, RejectedRow, Preparations, NoId
<1> HIDE DEF new
<1>5. RowFits(new, g \in fin[o]) /\ Dense(new)
  BY <1>1, <1>3, <1>4 DEF RowFits, Dense, ReadyToCommit
<1>6. WorldFits(At(WithRow(w.rows, o, g, new), m, h), fin) /\ h.epoch >= w.h.epoch
  BY <1>2, <1>3, <1>4, <1>5, LetGoFits
<1>7. /\ At(WithRow(w.rows, o, g, new), m, h).rows = WithRow(w.rows, o, g, new)
      /\ At(WithRow(w.rows, o, g, new), m, h).h = h
  BY DEF At
<1> QED
  BY <1>2, <1>6, <1>7 DEF new

(* complete_reuse_execution: the row stays as it is, and done.             *)
LEMMA CompleteFits ==
    ASSUME NEW w, NEW fin, WorldFits(w, fin), NEW o \in Owners, NEW g \in Segments,
           fin \in [Owners -> SUBSET Segments], CanCompleteReuse(w, o, g)
    PROVE  /\ WorldFits(CompleteReuse(w, o, g), [fin EXCEPT ![o] = @ \cup {g}])
           /\ CompleteReuse(w, o, g).rows = w.rows
           /\ CompleteReuse(w, o, g).h.epoch >= w.h.epoch
<1> DEFINE row == w.rows[o][g]
           done == [fin EXCEPT ![o] = @ \cup {g}]
           m1 == GiveBack(w.m, row.physical)
           m == GiveBack(m1, row.logical)
           h == WriteOff(w.h, row.hbm)
<1>1. w \in Worlds /\ row \in Rows /\ RowFits(row, g \in fin[o])
      /\ w = At(w.rows, w.m, w.h) /\ w.rows \in RowTables
  BY RowTypes, WorldAt DEF WorldFits, Fit
<1>2. ReleaseHbmOf(ReleaseLeaseOf(At(w.rows, w.m, w.h), row.physical), row.hbm)
        = At(w.rows, m1, h)
  BY ReleaseLeaseIs, ReleaseHbmIs
<1>3. At(w.rows, m1, h).rows = w.rows
  BY DEF At
<1>4. CompleteReuse(w, o, g) = At(w.rows, m, h)
  <2> HIDE DEF m1, h
  <2>1. ReleaseLogicalLease(At(w.rows, m1, h), o, g) = At(w.rows, m, h)
    BY <1>3, ReleaseLeaseIs DEF ReleaseLogicalLease
  <2>2. CompleteReuse(w, o, g) = ReleaseLogicalLease(At(w.rows, m1, h), o, g)
    BY <1>1, <1>2 DEF CompleteReuse
  <2> QED
    BY <2>1, <2>2
<1>5. LetGo(w, m, h, o, g)
  BY DEF LetGo
<1> HIDE DEF m1, m, h
<1>6. row.sel = "source_frozen" /\ row.commit = "reuse_commit"
  BY <1>1 DEF RowFits, CanCompleteReuse
<1>7. g \in done[o] /\ \A p \in Owners, k \in Segments :
        p # o \/ k # g => (k \in done[p]) = (k \in fin[p])
  OBVIOUS
<1> HIDE DEF done
<1>8. RowFits(row, g \in done[o])
  BY <1>1, <1>6, <1>7 DEF RowFits
<1>9. WorldFits(At(WithRow(w.rows, o, g, row), m, h), done) /\ h.epoch >= w.h.epoch
  BY <1>1, <1>5, <1>6, <1>7, <1>8, LetGoFits
<1>10. WithRow(w.rows, o, g, row) = w.rows
  BY <1>1 DEF WithRow, RowTables
<1>11. At(w.rows, m, h).rows = w.rows /\ At(w.rows, m, h).h = h
  BY DEF At
<1> QED
  BY <1>4, <1>9, <1>10, <1>11 DEF done

(***************************************************************************)
(* One row of apply_gate2.                                                 *)
(***************************************************************************)
LEMMA DensedIs ==
    ASSUME NEW w \in Worlds, NEW o \in Owners, NEW g \in Segments
    PROVE  \E m, h : /\ LetGo(w, m, h, o, g)
                     /\ Gate2Row(w, o, g, "predicted_dense") =
                          At(WithRow(w.rows, o, g, MovedRow(w.rows[o][g], "predicted_dense")), m, h)
<1> DEFINE row == w.rows[o][g]
           m1 == GiveBack(w.m, row.physical)
           m == GiveBack(m1, row.logical)
           h == WriteOff(w.h, row.hbm)
           q == WithRow(w.rows, o, g, Cleared(row))
           new == [Cleared(row) EXCEPT !.gate2 = "predicted_dense"]
<1>1. /\ w = At(w.rows, w.m, w.h) /\ w.rows \in RowTables /\ row \in Rows
  BY WorldAt, RowTypes
<1>2. Cleared(row) \in Rows /\ Cleared(row).logical = row.logical
  BY <1>1 DEF Rows, Cleared, Preparations, NoId
<1>3. ReleasePhysicalPreparation(w, o, g) = At(q, m1, h)
  BY <1>1, ReleasePhysicalIs
<1>4. q \in RowTables /\ q[o][g] = Cleared(row)
  BY <1>1, <1>2, WithRowType
<1>5. WithRow(q, o, g, new) = WithRow(w.rows, o, g, new)
  BY <1>1 DEF WithRow, RowTables
<1> HIDE DEF q, m1, h
<1>6. At(q, m1, h).rows = q
  BY DEF At
<1>7. ReleaseLogicalLease(At(q, m1, h), o, g) = At(q, m, h)
  BY <1>2, <1>4, <1>6, ReleaseLeaseIs DEF ReleaseLogicalLease
<1> HIDE DEF m
<1>8. Gate2Row(w, o, g, "predicted_dense")
        = [At(q, m, h) EXCEPT !.rows[o][g].gate2 = "predicted_dense"]
  BY <1>3, <1>7 DEF Gate2Row
<1>9. At(q, m, h).rows[o][g] = Cleared(row)
  BY <1>4 DEF At
<1>10. [At(q, m, h) EXCEPT !.rows[o][g].gate2 = "predicted_dense"]
         = [At(q, m, h) EXCEPT !.rows[o][g] = new]
  BY <1>9
<1> HIDE DEF new
<1>11. Gate2Row(w, o, g, "predicted_dense") = At(WithRow(w.rows, o, g, new), m, h)
  BY <1>5, <1>8, <1>10, RowWritten
<1>12. LetGo(w, m, h, o, g)
  BY DEF LetGo, m, m1, h
<1> QED
  BY <1>11, <1>12 DEF MovedRow, new

(* A Gate-2 target other than dense that has its bytes keeps the lease and the
   reservation. *)
LEMMA KeptIs ==
    ASSUME NEW w \in Worlds, NEW o \in Owners, NEW g \in Segments, NEW target,
           target # "predicted_dense",
           target = "provisional_reuse" /\ w.rows[o][g].gate2 = "deferred" =>
             w.rows[o][g].physical = NoId
    PROVE  Gate2Row(w, o, g, target)
             = At(WithRow(w.rows, o, g, MovedRow(w.rows[o][g], target)), w.m, w.h)
<1> DEFINE new == [w.rows[o][g] EXCEPT !.gate2 = target]
<1>1. w = At(w.rows, w.m, w.h)
  BY WorldAt
<1>2. Gate2Row(w, o, g, target) = [w EXCEPT !.rows[o][g].gate2 = target]
  BY DEF Gate2Row, PromotePreparation
<1>3. [w EXCEPT !.rows[o][g].gate2 = target] = [w EXCEPT !.rows[o][g] = new]
  OBVIOUS
<1> HIDE DEF new
<1>4. [w EXCEPT !.rows[o][g] = new] = At(WithRow(w.rows, o, g, new), w.m, w.h)
  BY <1>1, RowWritten
<1> QED
  BY <1>2, <1>3, <1>4 DEF MovedRow, new

(* A world with another manager and another HBM keeps its rows. *)
LEMMA BothWritten ==
    ASSUME NEW w \in Worlds, NEW m, NEW h
    PROVE  [w EXCEPT !.m = m, !.h = h] = At(w.rows, m, h)
<1> DEFINE v == [w EXCEPT !.m = m, !.h = h]
<1>1. v.rows = w.rows /\ v.m = m /\ v.h = h
  BY DEF Worlds
<1>2. v = [w EXCEPT !.m = m, !.h = h]
  OBVIOUS
<1> HIDE DEF v
<1>3. v = At(v.rows, v.m, v.h)
  BY <1>2 DEF Worlds, At
<1> QED
  BY <1>1, <1>3 DEF v

(* A deferred row that Gate 2 promotes keeps its lease and promotes its reservation. *)
LEMMA PromotedIs ==
    ASSUME NEW w \in Worlds, NEW o \in Owners, NEW g \in Segments,
           w.rows[o][g].gate2 = "deferred", w.rows[o][g].physical # NoId,
           w.m.lease[w.rows[o][g].physical].purpose = "speculative"
    PROVE  Gate2Row(w, o, g, "provisional_reuse")
             = At(WithRow(w.rows, o, g, MovedRow(w.rows[o][g], "provisional_reuse")),
                  PromoteSpeculative(w.m, w.rows[o][g].physical),
                  PromoteReservation(w.h, w.rows[o][g].hbm))
<1> DEFINE row == w.rows[o][g]
           m == PromoteSpeculative(w.m, row.physical)
           h == PromoteReservation(w.h, row.hbm)
           new == [row EXCEPT !.gate2 = "provisional_reuse"]
           v == [w EXCEPT !.m = m, !.h = h]
<1>1. w = At(w.rows, w.m, w.h)
  BY WorldAt
<1>2. PromotePreparation(w, o, g) = v
  BY DEF PromotePreparation
<1> HIDE DEF m, h
<1>3. v = At(w.rows, m, h)
  BY BothWritten
<1> HIDE DEF v
<1>4. Gate2Row(w, o, g, "provisional_reuse") = [v EXCEPT !.rows[o][g].gate2 = "provisional_reuse"]
  BY <1>2 DEF Gate2Row
<1>5. v.rows[o][g] = row
  BY <1>3 DEF At
<1>6. [v EXCEPT !.rows[o][g].gate2 = "provisional_reuse"] = [v EXCEPT !.rows[o][g] = new]
  BY <1>5
<1> HIDE DEF new
<1>7. [v EXCEPT !.rows[o][g] = new] = At(WithRow(w.rows, o, g, new), m, h)
  BY <1>3, RowWritten
<1> QED
  BY <1>4, <1>6, <1>7 DEF MovedRow, new, m, h

(* What a row of a decision needs to be applied, besides that it is not    *)
(* refused: a prepared winner is not closed as dense.                      *)
Movable(row, target) ==
    /\ target \in {"deferred", "provisional_reuse", "predicted_dense"}
    /\ ~Gate2Refuses(row, target)
    /\ target = "predicted_dense" => ~Prepared(row)

(* A row that Gate 2 moves keeps its winner, its Gate-1 record and its commit. *)
LEMMA MovedRowIs ==
    ASSUME NEW row \in Rows, NEW target, Movable(row, target)
    PROVE  LET new == MovedRow(row, target)
           IN  /\ new \in Rows /\ new.gate2 = target
               /\ new.sel = row.sel /\ new.source = row.source /\ new.depth = row.depth
               /\ new.commit = row.commit /\ new.logical = row.logical
               /\ target = "predicted_dense" =>
                    new.prep = "none" /\ new.physical = NoId /\ new.hbm = NoId
               /\ target # "predicted_dense" =>
                    new.prep = row.prep /\ new.physical = row.physical /\ new.hbm = row.hbm
BY DEF Rows, Dispositions, Preparations, NoId, Movable, MovedRow, Cleared

(* After Gate 2 sends a segment to the dense path the world is well formed. *)
LEMMA DensedFits ==
    ASSUME NEW w, NEW fin, WorldFits(w, fin), NEW o \in Owners, NEW g \in Segments,
           Movable(w.rows[o][g], "predicted_dense")
    PROVE  LET v == Gate2Row(w, o, g, "predicted_dense")
           IN  /\ WorldFits(v, fin) /\ v.h.epoch >= w.h.epoch
               /\ v.rows = WithRow(w.rows, o, g, MovedRow(w.rows[o][g], "predicted_dense"))
<1> DEFINE row == w.rows[o][g]
           new == MovedRow(row, "predicted_dense")
<1>1. w \in Worlds /\ row \in Rows /\ RowFits(row, g \in fin[o])
  BY RowTypes DEF WorldFits, Fit
<1>2. PICK m, h : /\ LetGo(w, m, h, o, g)
                  /\ Gate2Row(w, o, g, "predicted_dense") = At(WithRow(w.rows, o, g, new), m, h)
  BY <1>1, DensedIs
<1>3. row.sel = "source_frozen" /\ ~Prepared(row)
  BY DEF Movable, Gate2Refuses
<1>4. row.commit # "reuse_commit" /\ g \notin fin[o]
  BY <1>1, <1>3 DEF RowFits, Prepared
<1>5. /\ new \in Rows /\ new.sel = row.sel /\ new.source = row.source
      /\ new.logical = row.logical /\ new.commit = row.commit
      /\ new.gate2 = "predicted_dense"
      /\ new.prep = "none" /\ new.physical = NoId /\ new.hbm = NoId
  BY <1>1, MovedRowIs
<1> HIDE DEF new
<1>6. RowFits(new, g \in fin[o]) /\ Dense(new)
  BY <1>1, <1>3, <1>4, <1>5 DEF RowFits, Dense
<1>7. WorldFits(At(WithRow(w.rows, o, g, new), m, h), fin) /\ h.epoch >= w.h.epoch
  BY <1>2, <1>3, <1>5, <1>6, LetGoFits
<1>8. /\ At(WithRow(w.rows, o, g, new), m, h).rows = WithRow(w.rows, o, g, new)
      /\ At(WithRow(w.rows, o, g, new), m, h).h = h
  BY DEF At
<1> QED
  BY <1>2, <1>7, <1>8 DEF new

(* After Gate 2 keeps or defers a prepared segment the world is well formed. *)
LEMMA KeptFits ==
    ASSUME NEW w, NEW fin, WorldFits(w, fin), NEW o \in Owners, NEW g \in Segments,
           NEW target, Movable(w.rows[o][g], target), target # "predicted_dense",
           target = "provisional_reuse" /\ w.rows[o][g].gate2 = "deferred" =>
             w.rows[o][g].prep = "none"
    PROVE  LET v == Gate2Row(w, o, g, target)
           IN  /\ WorldFits(v, fin) /\ v.h = w.h
               /\ v.rows = WithRow(w.rows, o, g, MovedRow(w.rows[o][g], target))
<1> DEFINE row == w.rows[o][g]
           new == MovedRow(row, target)
<1>1. /\ w \in Worlds /\ row \in Rows /\ Good(w.m) /\ NoSuspects(w.m)
      /\ w.h \in HbmStates /\ ReserveKept(w.h)
      /\ Fit(row, w.m.lease, w.h.rows, o, g, g \in fin[o])
  BY RowTypes DEF WorldFits, Worlds
<1>2. Gate2Row(w, o, g, target) = At(WithRow(w.rows, o, g, new), w.m, w.h)
  BY <1>1, KeptIs DEF Fit, RowFits
<1>3. /\ new \in Rows /\ new.sel = row.sel /\ new.source = row.source
      /\ new.logical = row.logical /\ new.commit = row.commit /\ new.gate2 = target
      /\ new.prep = row.prep /\ new.physical = row.physical /\ new.hbm = row.hbm
  BY <1>1, MovedRowIs
<1> HIDE DEF new
<1>4. /\ row.sel = "source_frozen" /\ target \in {"deferred", "provisional_reuse"}
      /\ row.gate2 # "predicted_dense"
      /\ row.gate2 = "provisional_reuse" => target = "provisional_reuse"
  BY DEF Movable, Gate2Refuses
<1>5. RowFits(row, g \in fin[o]) /\ Leased(row, w.m.lease, o, g, g \in fin[o])
      /\ Reserved(row, w.h.rows, o, g, g \in fin[o])
  BY <1>1 DEF Fit
<1>6. row.prep # "none" => target = row.gate2
  BY <1>4, <1>5 DEF RowFits
<1>7. Dense(new) = Dense(row)
  BY <1>3, <1>4 DEF Dense
<1>8. RowFits(new, g \in fin[o])
  BY <1>3, <1>4, <1>5, <1>6 DEF RowFits
<1>9. Leased(new, w.m.lease, o, g, g \in fin[o])
  BY <1>3, <1>5, <1>6, <1>7 DEF Leased
<1>10. Reserved(new, w.h.rows, o, g, g \in fin[o])
  BY <1>3, <1>5, <1>6, <1>7 DEF Reserved
<1>11. WorldFits(At(WithRow(w.rows, o, g, new), w.m, w.h), fin)
  BY <1>1, <1>3, <1>8, <1>9, <1>10, SameKept, PutFits DEF Fit
<1>12. /\ At(WithRow(w.rows, o, g, new), w.m, w.h).rows = WithRow(w.rows, o, g, new)
       /\ At(WithRow(w.rows, o, g, new), w.m, w.h).h = w.h
  BY DEF At
<1> QED
  BY <1>2, <1>11, <1>12 DEF new

(* After Gate 2 promotes a deferred segment the world is well formed. *)
LEMMA PromotedFits ==
    ASSUME NEW w, NEW fin, WorldFits(w, fin), NEW o \in Owners, NEW g \in Segments,
           Movable(w.rows[o][g], "provisional_reuse"),
           w.rows[o][g].gate2 = "deferred", w.rows[o][g].prep # "none"
    PROVE  LET v == Gate2Row(w, o, g, "provisional_reuse")
           IN  /\ WorldFits(v, fin) /\ v.h.epoch > w.h.epoch
               /\ v.rows = WithRow(w.rows, o, g, MovedRow(w.rows[o][g], "provisional_reuse"))
<1> DEFINE row == w.rows[o][g]
           T == w.m.lease
           R == w.h.rows
           new == MovedRow(row, "provisional_reuse")
           l == row.physical
           i == row.hbm
           m == PromoteSpeculative(w.m, l)
           h == PromoteReservation(w.h, i)
<1>1. /\ w \in Worlds /\ row \in Rows /\ Good(w.m) /\ NoSuspects(w.m)
      /\ w.h \in HbmStates /\ ReserveKept(w.h)
      /\ Fit(row, T, R, o, g, g \in fin[o])
  BY RowTypes DEF WorldFits, Worlds
<1>2. /\ RowFits(row, g \in fin[o]) /\ Leased(row, T, o, g, g \in fin[o])
      /\ Reserved(row, R, o, g, g \in fin[o])
  BY <1>1 DEF Fit
<1>3. row.sel = "source_frozen" /\ g \notin fin[o] /\ row.commit = "uncommitted"
  BY <1>1, <1>2 DEF RowFits, Rows, Commits
<1>4. /\ l \in DOMAIN T /\ T[l].owner = o /\ T[l].segment = g /\ T[l].source = row.source
      /\ T[l].replica # NoReplica /\ T[l].purpose = "speculative" /\ T[l].state # "released"
      /\ i \in DOMAIN R /\ R[i].owner = o /\ R[i].segment = g /\ R[i].kind = "prefetch"
      /\ ~R[i].released
  BY <1>2, <1>3 DEF Leased, Reserved
<1>5. l # NoId
  <2>1. NoId \notin DOMAIN T
    BY <1>1 DEF Good, ManagerStates, NoId
  <2> QED
    BY <1>4, <2>1
<1>6. Gate2Row(w, o, g, "provisional_reuse") = At(WithRow(w.rows, o, g, new), m, h)
  BY <1>1, <1>4, <1>5, PromotedIs
<1>7. CanPromote(w.m, l)
  <2>1. T[l] \in LeaseRecords
    BY <1>1, <1>4, RecordTypes DEF Good
  <2>2. T[l].state = "active"
    BY <1>1, <1>4, <2>1 DEF LeaseRecords, LeaseStates, NoSuspects
  <2>3. w.m.life[T[l].replica] = "ready"
    BY <1>1, <1>4 DEF Good, LeasesProtect, Live
  <2> QED
    BY <1>4, <2>2, <2>3 DEF CanPromote
<1>8. /\ Good(m) /\ NoSuspects(m) /\ OneLease(w.m, m, l)
      /\ m.lease[l].state = T[l].state /\ m.lease[l].purpose = "execution"
  BY <1>1, <1>4, <1>7, PromoteStep
<1>9. /\ h \in HbmStates /\ ReserveKept(h) /\ h.epoch = w.h.epoch + 1
      /\ DOMAIN h.rows = DOMAIN R
      /\ h.rows[i].owner = o /\ h.rows[i].segment = g
      /\ h.rows[i].kind = "execution" /\ ~h.rows[i].released
      /\ \A j \in DOMAIN R : j # i => h.rows[j] = R[j]
      /\ \A p, q : p # o \/ q # g => SameOf(R, h.rows, p, q)
  BY <1>1, <1>4, UpgradeStep
<1>10. w.h.epoch \in Nat
  BY <1>1 DEF HbmStates
<1>11. /\ new \in Rows /\ new.sel = row.sel /\ new.source = row.source
       /\ new.logical = row.logical /\ new.commit = row.commit
       /\ new.gate2 = "provisional_reuse" /\ new.prep = row.prep
       /\ new.physical = l /\ new.hbm = i
  BY <1>1, MovedRowIs
<1> HIDE DEF new, m, h
<1>12. ~Dense(new) /\ ~Dense(row) /\ RowFits(new, g \in fin[o])
  BY <1>2, <1>3, <1>11 DEF Dense, RowFits
<1>13. /\ DOMAIN m.lease = DOMAIN T
       /\ \A k \in DOMAIN T :
            /\ m.lease[k].owner = T[k].owner /\ m.lease[k].segment = T[k].segment
            /\ m.lease[k].source = T[k].source /\ m.lease[k].replica = T[k].replica
            /\ m.lease[k].state = T[k].state
            /\ k # l => m.lease[k].purpose = T[k].purpose
  BY <1>8 DEF OneLease, SameLease
<1>14. Leased(new, m.lease, o, g, g \in fin[o])
  <2>1. row.logical # l
    BY <1>2, <1>3, <1>4 DEF Leased
  <2> HIDE DEF T, l, row
  <2> QED
    BY <1>2, <1>3, <1>4, <1>8, <1>11, <1>12, <1>13, <2>1 DEF Leased
<1>15. Reserved(new, h.rows, o, g, g \in fin[o])
  <2> HIDE DEF R, i, row
  <2> QED
    BY <1>2, <1>3, <1>4, <1>9, <1>11, <1>12 DEF Reserved
<1>16. \A p, q : p # o \/ q # g => SameOf(T, m.lease, p, q)
  BY <1>4, <1>8, OneLeaseSame
<1>17. WorldFits(At(WithRow(w.rows, o, g, new), m, h), fin)
  BY <1>1, <1>8, <1>9, <1>11, <1>12, <1>14, <1>15, <1>16, PutFits DEF Fit
<1>18. /\ At(WithRow(w.rows, o, g, new), m, h).rows = WithRow(w.rows, o, g, new)
       /\ At(WithRow(w.rows, o, g, new), m, h).h = h
  BY DEF At
<1> QED
  BY <1>6, <1>9, <1>10, <1>17, <1>18 DEF new

(* One row of a decision; whoever is newly prepared for execution has      *)
(* made decisions taken before stale.                                      *)
LEMMA MoveFits ==
    ASSUME NEW w, NEW fin, WorldFits(w, fin), NEW o \in Owners, NEW g \in Segments,
           NEW target, Movable(w.rows[o][g], target)
    PROVE  LET v == Gate2Row(w, o, g, target)
           IN  /\ WorldFits(v, fin) /\ v.h.epoch >= w.h.epoch
               /\ v.rows = WithRow(w.rows, o, g, MovedRow(w.rows[o][g], target))
               /\ Prepared(v.rows[o][g]) /\ ~Prepared(w.rows[o][g]) => v.h.epoch > w.h.epoch
<1> DEFINE row == w.rows[o][g]
           v == Gate2Row(w, o, g, target)
<1>1. w \in Worlds /\ row \in Rows /\ w.h.epoch \in Nat /\ w.rows \in RowTables
      /\ RowFits(row, g \in fin[o])
  BY RowTypes DEF WorldFits, Worlds, HbmStates, RowTables, Fit
<1>2. CASE target = "predicted_dense"
  <2>1. /\ WorldFits(v, fin) /\ v.h.epoch >= w.h.epoch
        /\ v.rows = WithRow(w.rows, o, g, MovedRow(row, target))
    BY <1>2, DensedFits
  <2>2. v.rows[o][g] = MovedRow(row, target) /\ ~Prepared(MovedRow(row, target))
    BY <1>1, <1>2, <2>1, MovedRowIs, WithRowType DEF Prepared
  <2> QED
    BY <2>1, <2>2
<1>3. CASE /\ target # "predicted_dense"
           /\ target = "provisional_reuse" /\ row.gate2 = "deferred" => row.prep = "none"
  <2>1. /\ WorldFits(v, fin) /\ v.h = w.h
        /\ v.rows = WithRow(w.rows, o, g, MovedRow(row, target))
    BY <1>3, KeptFits
  <2>2. v.rows[o][g] = MovedRow(row, target)
    BY <1>1, <2>1, MovedRowIs, WithRowType
  <2>3. MovedRow(row, target).gate2 = target /\ MovedRow(row, target).prep = row.prep
    BY <1>1, <1>3, MovedRowIs
  <2>4. Prepared(v.rows[o][g]) => Prepared(row)
    BY <1>1, <1>3, <2>2, <2>3 DEF Prepared, RowFits
  <2> QED
    BY <1>1, <2>1, <2>4
<1>4. CASE target = "provisional_reuse" /\ row.gate2 = "deferred" /\ row.prep # "none"
  <2>1. /\ WorldFits(v, fin) /\ v.h.epoch > w.h.epoch
        /\ v.rows = WithRow(w.rows, o, g, MovedRow(row, target))
    BY <1>4, PromotedFits
  <2>2. v.h.epoch \in Nat
    BY <2>1 DEF WorldFits, Worlds, HbmStates
  <2> QED
    BY <1>1, <2>1, <2>2
<1> QED
  BY <1>2, <1>3, <1>4

(***************************************************************************)
(* begin_winner_prefetch and mark_winner_ready.                            *)
(***************************************************************************)
LEMMA BindingType ==
    ASSUME NEW w, NEW fin, WorldFits(w, fin), NEW o \in Owners, NEW g \in Segments,
           NEW r \in Replicas, NEW admitted \in BOOLEAN,
           CanBeginPrefetch(w, o, g, r, admitted)
    PROVE  LET purpose == PrefetchPurpose(w.rows[o][g], admitted)
               q == Binding(w, o, g, r, purpose)
           IN  /\ q \in BatchRequests /\ q.segment = g /\ q.source = w.rows[o][g].source
               /\ q.replica = r /\ q.purpose = purpose
               /\ CanLeaseBatch(w.m, o, <<q>>, NoCap)
               /\ purpose = IF w.rows[o][g].gate2 = "deferred" THEN "speculative" ELSE "execution"
               /\ w.rows[o][g].gate2 \in {"deferred", "provisional_reuse"}
<1> DEFINE row == w.rows[o][g]
           purpose == PrefetchPurpose(row, admitted)
           q == Binding(w, o, g, r, purpose)
<1>1. /\ w \in Worlds /\ w.m \in ManagerStates /\ row \in Rows /\ RowFits(row, g \in fin[o])
  BY RowTypes DEF WorldFits, Fit, Good
<1>2. /\ row.sel = "source_frozen" /\ purpose # "none"
      /\ CanLeaseBatch(w.m, o, <<q>>, NoCap)
  BY DEF CanBeginPrefetch
<1>3. /\ purpose = IF row.gate2 = "deferred" THEN "speculative" ELSE "execution"
      /\ row.gate2 \in {"deferred", "provisional_reuse"}
  BY <1>2 DEF PrefetchPurpose
<1>4. row.source \in Sources /\ w.m.placement[r] \in Nat
  BY <1>1, <1>2 DEF RowFits, ManagerStates
<1>5. q \in BatchRequests
  BY <1>3, <1>4 DEF Binding, BatchRequests, Purposes
<1> QED
  BY <1>2, <1>3, <1>5 DEF Binding

WriteParts(w, m, h, o, g, x) == [w EXCEPT !.m = m, !.h = h, !.rows[o][g] = x]

(* A row, a manager and an HBM written together are the world put together from them. *)
LEMMA PartsWritten ==
    ASSUME NEW w \in Worlds, NEW m, NEW h, NEW o, NEW g, NEW x
    PROVE  WriteParts(w, m, h, o, g, x) = At(WithRow(w.rows, o, g, x), m, h)
<1> DEFINE q == WithRow(w.rows, o, g, x)
           v == [w EXCEPT !.m = m, !.h = h, !.rows = q]
<1>1. WriteParts(w, m, h, o, g, x) = v
  BY DEF WithRow, Worlds, WriteParts
<1> HIDE DEF q
<1>2. v.rows = q /\ v.m = m /\ v.h = h
  BY DEF Worlds
<1>3. v = [w EXCEPT !.m = m, !.h = h, !.rows = q]
  OBVIOUS
<1> HIDE DEF v
<1>4. v = At(v.rows, v.m, v.h)
  BY <1>3 DEF Worlds, At
<1> QED
  BY <1>1, <1>2, <1>4 DEF q, v

PrefetchedRow(row, l, i) == [row EXCEPT !.physical = l, !.hbm = i, !.prep = "prefetching"]

PrefetchLease(w, o, g, r, admitted) ==
    LeaseBatch(w.m, o,
               <<Binding(w, o, g, r, PrefetchPurpose(w.rows[o][g], admitted))>>, 0, Now)

(* begin_winner_prefetch writes one row and the managers, when there is    *)
(* room for the copy ...                                                   *)
LEMMA PrefetchIs ==
    ASSUME NEW w \in Worlds, NEW o \in Owners, NEW g \in Segments,
           NEW r \in Replicas, NEW admitted \in BOOLEAN, CanReserve(w.h, SizeOf[r])
    PROVE  LET m == PrefetchLease(w, o, g, r, admitted)
               kind == ReservationKind(PrefetchPurpose(w.rows[o][g], admitted))
           IN  BeginPrefetch(w, o, g, r, admitted) =
                 At(WithRow(w.rows, o, g,
                            PrefetchedRow(w.rows[o][g], Len(m.lease), Len(w.h.rows) + 1)),
                    m, Reserve(w.h, o, g, SizeOf[r], kind))
<1> DEFINE m == PrefetchLease(w, o, g, r, admitted)
           kind == ReservationKind(PrefetchPurpose(w.rows[o][g], admitted))
           h == Reserve(w.h, o, g, SizeOf[r], kind)
           i == Len(w.h.rows) + 1
           x == PrefetchedRow(w.rows[o][g], Len(m.lease), i)
<1>1. BeginPrefetch(w, o, g, r, admitted) =
        [w EXCEPT !.m = m, !.h = h,
                  !.rows[o][g] = [@ EXCEPT !.physical = Len(m.lease), !.hbm = i,
                                           !.prep = "prefetching"]]
  BY DEF BeginPrefetch, PrefetchLease
<1>2. x = [w.rows[o][g] EXCEPT !.physical = Len(m.lease), !.hbm = i, !.prep = "prefetching"]
  BY DEF PrefetchedRow
<1> HIDE DEF x, m, h
<1>3. BeginPrefetch(w, o, g, r, admitted) = WriteParts(w, m, h, o, g, x)
  BY <1>1, <1>2 DEF WriteParts
<1>4. WriteParts(w, m, h, o, g, x) = At(WithRow(w.rows, o, g, x), m, h)
  BY PartsWritten
<1> QED
  BY <1>3, <1>4 DEF x, m, h

(* ... and gives the lease back when there is none.                        *)
LEMMA RefusedIs ==
    ASSUME NEW w \in Worlds, NEW o \in Owners, NEW g \in Segments,
           NEW r \in Replicas, NEW admitted \in BOOLEAN, ~CanReserve(w.h, SizeOf[r])
    PROVE  LET m == PrefetchLease(w, o, g, r, admitted)
           IN  BeginPrefetch(w, o, g, r, admitted) =
                 At(w.rows, Release(m, Len(m.lease), "request"), w.h)
<1> DEFINE m == PrefetchLease(w, o, g, r, admitted)
           n == Release(m, Len(m.lease), "request")
<1>1. BeginPrefetch(w, o, g, r, admitted) = [w EXCEPT !.m = n]
  BY DEF BeginPrefetch, PrefetchLease
<1> HIDE DEF n
<1>2. w = At(w.rows, w.m, w.h)
  BY WorldAt
<1>3. [At(w.rows, w.m, w.h) EXCEPT !.m = n] = At(w.rows, n, w.h)
  BY DEF At
<1> QED
  BY <1>1, <1>2, <1>3 DEF n

(* The winner gets its lease and its reservation, and the epoch moves ...  *)
LEMMA PrefetchedFits ==
    ASSUME NEW w, NEW fin, WorldFits(w, fin), NEW o \in Owners, NEW g \in Segments,
           NEW r \in Replicas, NEW admitted \in BOOLEAN,
           CanBeginPrefetch(w, o, g, r, admitted), w.rows[o][g].commit = "uncommitted",
           CanReserve(w.h, SizeOf[r])
    PROVE  LET v == BeginPrefetch(w, o, g, r, admitted)
           IN  /\ WorldFits(v, fin) /\ v.h.epoch > w.h.epoch
               /\ \E l, i \in Nat : v.rows = WithRow(w.rows, o, g, PrefetchedRow(w.rows[o][g], l, i))
<1> DEFINE row == w.rows[o][g]
           T == w.m.lease
           R == w.h.rows
           purpose == PrefetchPurpose(row, admitted)
           kind == ReservationKind(purpose)
           q == Binding(w, o, g, r, purpose)
           m == LeaseBatch(w.m, o, <<q>>, 0, Now)
           l == Len(T) + 1
           h == Reserve(w.h, o, g, SizeOf[r], kind)
           i == Len(R) + 1
           new == PrefetchedRow(row, l, i)
<1>1. /\ w \in Worlds /\ row \in Rows /\ Good(w.m) /\ NoSuspects(w.m)
      /\ w.h \in HbmStates /\ ReserveKept(w.h) /\ w.h.epoch \in Nat
      /\ Fit(row, T, R, o, g, g \in fin[o])
  BY RowTypes DEF WorldFits, Worlds, HbmStates
<1>2. /\ RowFits(row, g \in fin[o]) /\ Leased(row, T, o, g, g \in fin[o])
      /\ Reserved(row, R, o, g, g \in fin[o])
  BY <1>1 DEF Fit
<1>3. row.sel = "source_frozen" /\ row.prep = "none" /\ g \notin fin[o]
      /\ row.physical = NoId /\ row.hbm = NoId
  BY <1>2 DEF CanBeginPrefetch, RowFits
<1>4. /\ q \in BatchRequests /\ q.segment = g /\ q.source = row.source
      /\ q.replica = r /\ q.purpose = purpose /\ CanLeaseBatch(w.m, o, <<q>>, NoCap)
      /\ purpose = IF row.gate2 = "deferred" THEN "speculative" ELSE "execution"
      /\ row.gate2 \in {"deferred", "provisional_reuse"}
  BY BindingType
<1>5. kind \in ReservationKinds
      /\ kind = IF row.gate2 = "deferred" THEN "prefetch" ELSE "execution"
  BY <1>4 DEF ReservationKind, ReservationKinds
<1>6. SizeOf[r] \in Nat /\ r # NoReplica
  BY PoolShape, NullValues
<1> HIDE DEF q, purpose, kind
<1>21. Granted(w.m, m, l, o, q)
  BY <1>1, <1>4, GrantStep
<1>22. Booked(w.h, h, i, o, g, kind)
  BY <1>1, <1>5, <1>6, ReserveStep
<1>7. /\ Good(m) /\ NoSuspects(m) /\ Len(m.lease) = l
      /\ DOMAIN m.lease = DOMAIN T \cup {l}
      /\ l \notin DOMAIN T /\ l \in Nat \ {0}
      /\ m.lease[l].owner = o /\ m.lease[l].segment = g /\ m.lease[l].source = row.source
      /\ m.lease[l].replica = r /\ m.lease[l].purpose = purpose
      /\ m.lease[l].state = "active"
      /\ \A k \in DOMAIN T : m.lease[k] = T[k]
      /\ \A p, k : p # o \/ k # g => SameOf(T, m.lease, p, k)
  BY <1>4, <1>21 DEF Granted
<1>8. /\ h \in HbmStates /\ ReserveKept(h) /\ h.epoch = w.h.epoch + 1
      /\ DOMAIN h.rows = DOMAIN R \cup {i}
      /\ i \notin DOMAIN R /\ i \in Nat \ {0}
      /\ h.rows[i].owner = o /\ h.rows[i].segment = g
      /\ h.rows[i].kind = kind /\ ~h.rows[i].released
      /\ \A j \in DOMAIN R : h.rows[j] = R[j]
      /\ \A p, k : p # o \/ k # g => SameOf(R, h.rows, p, k)
  BY <1>22 DEF Booked
<1>9. BeginPrefetch(w, o, g, r, admitted) = At(WithRow(w.rows, o, g, new), m, h)
  <2>1. PrefetchedRow(row, Len(m.lease), i) = new
    BY <1>7
  <2> QED
    BY <1>1, <2>1, PrefetchIs DEF PrefetchLease, q, purpose, kind
<1>10. /\ new \in Rows /\ new.prep = "prefetching" /\ new.physical = l /\ new.hbm = i
       /\ new.sel = row.sel /\ new.gate2 = row.gate2 /\ new.commit = row.commit
       /\ new.source = row.source /\ new.logical = row.logical
  BY <1>1, <1>7, <1>8 DEF Rows, Preparations, PrefetchedRow
<1> HIDE DEF new, m, h, l, i
<1>11. ~Dense(new) /\ ~Dense(row) /\ RowFits(new, g \in fin[o])
  BY <1>2, <1>3, <1>4, <1>10 DEF Dense, RowFits
<1>12. Leased(new, m.lease, o, g, g \in fin[o])
  <2>1. NoId \notin DOMAIN T
    BY <1>1 DEF Good, ManagerStates, NoId
  <2>2. \A k \in DOMAIN T : T[k].owner = o /\ T[k].segment = g /\ T[k].state # "released" =>
          T[k].replica = NoReplica /\ k = row.logical
    BY <1>2, <1>3, <2>1 DEF Leased
  <2>3. /\ row.logical \in DOMAIN T
        /\ T[row.logical].owner = o /\ T[row.logical].segment = g
        /\ T[row.logical].source = row.source
        /\ T[row.logical].purpose = "logical" /\ T[row.logical].replica = NoReplica
        /\ T[row.logical].state # "released"
    BY <1>2, <1>3, <1>11 DEF Leased
  <2> HIDE DEF T, row
  <2> QED
    BY <1>3, <1>4, <1>6, <1>7, <1>10, <1>11, <2>2, <2>3 DEF Leased
<1>13. Reserved(new, h.rows, o, g, g \in fin[o])
  <2>1. NoId \notin DOMAIN R
    BY <1>1, HbmTypes DEF NoId
  <2>2. \A k \in DOMAIN R : ~(R[k].owner = o /\ R[k].segment = g /\ ~R[k].released
                              /\ R[k].kind # "workspace")
    BY <1>2, <1>3, <2>1 DEF Reserved
  <2> HIDE DEF R, row
  <2> QED
    BY <1>3, <1>5, <1>8, <1>10, <1>11, <2>2 DEF Reserved
<1>14. WorldFits(At(WithRow(w.rows, o, g, new), m, h), fin)
  BY <1>1, <1>7, <1>8, <1>10, <1>11, <1>12, <1>13, PutFits DEF Fit
<1>15. /\ At(WithRow(w.rows, o, g, new), m, h).rows = WithRow(w.rows, o, g, new)
       /\ At(WithRow(w.rows, o, g, new), m, h).h = h
  BY DEF At
<1>16. BeginPrefetch(w, o, g, r, admitted).h.epoch > w.h.epoch
  BY <1>1, <1>8, <1>9, <1>15
<1>17. l \in Nat /\ i \in Nat
  BY <1>7, <1>8
<1> QED
  BY <1>9, <1>14, <1>15, <1>16, <1>17 DEF new

(* ... or the reservation fails and the lease is given back.               *)
LEMMA RefusedFits ==
    ASSUME NEW w, NEW fin, WorldFits(w, fin), NEW o \in Owners, NEW g \in Segments,
           NEW r \in Replicas, NEW admitted \in BOOLEAN,
           CanBeginPrefetch(w, o, g, r, admitted), ~CanReserve(w.h, SizeOf[r])
    PROVE  LET v == BeginPrefetch(w, o, g, r, admitted)
           IN  WorldFits(v, fin) /\ v.h = w.h /\ v.rows = w.rows
<1> DEFINE row == w.rows[o][g]
           T == w.m.lease
           R == w.h.rows
           purpose == PrefetchPurpose(row, admitted)
           q == Binding(w, o, g, r, purpose)
           m == LeaseBatch(w.m, o, <<q>>, 0, Now)
           l == Len(T) + 1
           n == Release(m, l, "request")
<1>1. /\ w \in Worlds /\ row \in Rows /\ Good(w.m) /\ NoSuspects(w.m)
      /\ w.h \in HbmStates /\ ReserveKept(w.h) /\ w.rows \in RowTables
      /\ Fit(row, T, R, o, g, g \in fin[o])
  BY RowTypes DEF WorldFits, Worlds, RowTables
<1>2. RowFits(row, g \in fin[o]) /\ Leased(row, T, o, g, g \in fin[o])
      /\ Reserved(row, R, o, g, g \in fin[o])
  BY <1>1 DEF Fit
<1>3. q \in BatchRequests /\ q.segment = g /\ CanLeaseBatch(w.m, o, <<q>>, NoCap)
  BY BindingType
<1> HIDE DEF q, purpose
<1>5. Granted(w.m, m, l, o, q)
  BY <1>1, <1>3, GrantStep
<1>6. /\ Good(m) /\ NoSuspects(m) /\ Len(m.lease) = l
      /\ DOMAIN m.lease = DOMAIN T \cup {l} /\ l \notin DOMAIN T
      /\ m.lease[l].owner = o /\ m.lease[l].segment = g
      /\ \A k \in DOMAIN T : m.lease[k] = T[k]
      /\ \A p, k : p # o \/ k # g => SameOf(T, m.lease, p, k)
  BY <1>3, <1>5 DEF Granted
<1> HIDE DEF m, l
<1>7. /\ Good(n) /\ NoSuspects(n) /\ OneLease(m, n, l) /\ n.lease[l].state = "released"
  BY <1>6, GiveBackStep
<1> HIDE DEF n
<1>8. /\ DOMAIN n.lease = DOMAIN T \cup {l} /\ \A k \in DOMAIN T : n.lease[k] = T[k]
      /\ n.lease[l].owner = o /\ n.lease[l].segment = g
  BY <1>6, <1>7 DEF OneLease, SameLease
<1>9. \A p, k : p # o \/ k # g => SameOf(T, n.lease, p, k)
  BY <1>6, <1>8 DEF SameOf, Of
<1>10. Leased(row, n.lease, o, g, g \in fin[o])
  <2> HIDE DEF T, row
  <2> QED
    BY <1>2, <1>6, <1>7, <1>8 DEF Leased
<1>11. BeginPrefetch(w, o, g, r, admitted) = At(w.rows, n, w.h)
  BY <1>1, <1>6, RefusedIs DEF PrefetchLease, n, m, q, purpose
<1>12. WithRow(w.rows, o, g, row) = w.rows
  BY <1>1 DEF WithRow, RowTables
<1>13. WorldFits(At(WithRow(w.rows, o, g, row), n, w.h), fin)
  BY <1>1, <1>2, <1>7, <1>9, <1>10, SameKept, PutFits DEF Fit
<1>14. At(w.rows, n, w.h).rows = w.rows /\ At(w.rows, n, w.h).h = w.h
  BY DEF At
<1> QED
  BY <1>11, <1>12, <1>13, <1>14

(* mark_winner_ready.                                                      *)
ReadyRow(row) == [row EXCEPT !.prep = "ready"]
CopyDone(m, l) == IF m.lease[l].copy THEN MarkPhysicalReady(m, l) ELSE m

(* It writes the row and, of a lease that copies, the manager.             *)
LEMMA ReadyIs ==
    ASSUME NEW w \in Worlds, NEW o \in Owners, NEW g \in Segments
    PROVE  MarkWinnerReady(w, o, g) =
             At(WithRow(w.rows, o, g, ReadyRow(w.rows[o][g])),
                CopyDone(w.m, w.rows[o][g].physical), w.h)
<1> DEFINE m == CopyDone(w.m, w.rows[o][g].physical)
           x == [w.rows[o][g] EXCEPT !.prep = "ready"]
           q == WithRow(w.rows, o, g, x)
           v == [w EXCEPT !.m = m, !.rows = q]
<1>1. MarkWinnerReady(w, o, g) = [w EXCEPT !.m = m, !.rows[o][g] = x]
  BY DEF MarkWinnerReady, CopyDone
<1> HIDE DEF m, x
<1>2. MarkWinnerReady(w, o, g) = v
  BY <1>1 DEF WithRow, Worlds
<1> HIDE DEF q
<1>3. v.rows = q /\ v.m = m /\ v.h = w.h
  BY DEF Worlds
<1>4. v = At(v.rows, v.m, v.h)
  <2>1. v = [w EXCEPT !.m = m, !.rows = q]
    OBVIOUS
  <2> HIDE DEF v
  <2> QED
    BY <2>1 DEF Worlds, At
<1> QED
  BY <1>2, <1>3, <1>4 DEF ReadyRow, m, x, q

(* After the winner is marked ready the world is well formed. *)
LEMMA ReadyFits ==
    ASSUME NEW w, NEW fin, WorldFits(w, fin), NEW o \in Owners, NEW g \in Segments,
           CanMarkWinnerReady(w, o, g)
    PROVE  LET v == MarkWinnerReady(w, o, g)
           IN  /\ WorldFits(v, fin) /\ v.h = w.h
               /\ v.rows = WithRow(w.rows, o, g, ReadyRow(w.rows[o][g]))
<1> DEFINE row == w.rows[o][g]
           T == w.m.lease
           R == w.h.rows
           l == row.physical
           m == CopyDone(w.m, l)
           new == ReadyRow(row)
<1>1. /\ w \in Worlds /\ row \in Rows /\ Good(w.m) /\ NoSuspects(w.m)
      /\ w.h \in HbmStates /\ ReserveKept(w.h) /\ w.rows \in RowTables
      /\ Fit(row, T, R, o, g, g \in fin[o])
  BY RowTypes DEF WorldFits, Worlds, RowTables
<1>2. RowFits(row, g \in fin[o]) /\ Leased(row, T, o, g, g \in fin[o])
      /\ Reserved(row, R, o, g, g \in fin[o])
  BY <1>1 DEF Fit
<1>3. row.prep = "prefetching" /\ l \in DOMAIN T /\ T[l].owner = o /\ T[l].segment = g
  BY <1>2 DEF CanMarkWinnerReady, Leased
<1>4. Good(m) /\ NoSuspects(m) /\ OneLease(w.m, m, l)
      /\ m.lease[l].state = T[l].state /\ m.lease[l].purpose = T[l].purpose
  <2>1. CASE T[l].copy
    <3>1. CanMarkReady(w.m, l)
      BY <2>1 DEF CanMarkWinnerReady
    <3> QED
      BY <1>1, <1>3, <2>1, <3>1, ReadyStep DEF CopyDone
  <2>2. CASE ~T[l].copy
    BY <1>1, <2>2 DEF OneLease, SameLease, CopyDone
  <2> QED
    BY <2>1, <2>2
<1>5. MarkWinnerReady(w, o, g) = At(WithRow(w.rows, o, g, new), m, w.h)
  BY <1>1, ReadyIs DEF CopyDone
<1>7. /\ new \in Rows /\ new.prep = "ready" /\ new.physical = l /\ new.hbm = row.hbm
      /\ new.sel = row.sel /\ new.gate2 = row.gate2 /\ new.commit = row.commit
      /\ new.source = row.source /\ new.logical = row.logical
  BY <1>1 DEF Rows, Preparations, ReadyRow
<1> HIDE DEF new, m
<1>8. Dense(new) = Dense(row) /\ RowFits(new, g \in fin[o])
  BY <1>2, <1>3, <1>7 DEF Dense, RowFits
<1>9. /\ DOMAIN m.lease = DOMAIN T
      /\ \A k \in DOMAIN T :
           /\ m.lease[k].owner = T[k].owner /\ m.lease[k].segment = T[k].segment
           /\ m.lease[k].source = T[k].source /\ m.lease[k].replica = T[k].replica
           /\ m.lease[k].state = T[k].state /\ m.lease[k].purpose = T[k].purpose
  BY <1>4 DEF OneLease, SameLease
<1>10. Leased(new, m.lease, o, g, g \in fin[o])
  <2> HIDE DEF T, l, row
  <2> QED
    BY <1>2, <1>3, <1>7, <1>8, <1>9 DEF Leased, l
<1>11. Reserved(new, R, o, g, g \in fin[o])
  BY <1>2, <1>3, <1>7, <1>8 DEF Reserved
<1>12. \A p, q : p # o \/ q # g => SameOf(T, m.lease, p, q)
  BY <1>3, <1>4, OneLeaseSame
<1>13. WorldFits(At(WithRow(w.rows, o, g, new), m, w.h), fin)
  BY <1>1, <1>4, <1>7, <1>8, <1>10, <1>11, <1>12, SameKept, PutFits DEF Fit
<1>14. /\ At(WithRow(w.rows, o, g, new), m, w.h).rows = WithRow(w.rows, o, g, new)
       /\ At(WithRow(w.rows, o, g, new), m, w.h).h = w.h
  BY DEF At
<1> QED
  BY <1>5, <1>13, <1>14 DEF new

(***************************************************************************)
(* What happens to the managers outside the records.                       *)
(***************************************************************************)
(* acquire_elastic_selection_workspace.                                    *)
LEMMA WorkspaceFits ==
    ASSUME NEW w, NEW fin, WorldFits(w, fin), NEW o \in Owners, NEW g \in Segments,
           NEW bytes \in Nat, CanReserve(w.h, bytes)
    PROVE  LET h == Reserve(w.h, o, g, bytes, "workspace")
           IN  WorldFits(At(w.rows, w.m, h), fin) /\ h.epoch >= w.h.epoch
<1> DEFINE row == w.rows[o][g]
           R == w.h.rows
           h == Reserve(w.h, o, g, bytes, "workspace")
           i == Len(R) + 1
<1>1. /\ w \in Worlds /\ row \in Rows /\ Good(w.m) /\ NoSuspects(w.m)
      /\ w.h \in HbmStates /\ ReserveKept(w.h) /\ w.rows \in RowTables /\ w.h.epoch \in Nat
      /\ Fit(row, w.m.lease, R, o, g, g \in fin[o])
  BY RowTypes DEF WorldFits, Worlds, RowTables, HbmStates
<1>2. Booked(w.h, h, i, o, g, "workspace")
  BY <1>1, ReserveStep DEF ReservationKinds
<1>3. /\ h \in HbmStates /\ ReserveKept(h) /\ h.epoch = w.h.epoch + 1
      /\ DOMAIN h.rows = DOMAIN R \cup {i} /\ h.rows[i].kind = "workspace"
      /\ \A j \in DOMAIN R : h.rows[j] = R[j]
      /\ \A p, q : p # o \/ q # g => SameOf(R, h.rows, p, q)
  BY <1>2 DEF Booked
<1> HIDE DEF h, i
<1>4. Reserved(row, h.rows, o, g, g \in fin[o])
  BY <1>1, <1>3 DEF Reserved, Fit
<1>5. WithRow(w.rows, o, g, row) = w.rows
  BY <1>1 DEF WithRow, RowTables
<1>6. WorldFits(At(WithRow(w.rows, o, g, row), w.m, h), fin)
  BY <1>1, <1>3, <1>4, SameKept, PutFits DEF Fit
<1> QED
  BY <1>1, <1>3, <1>5, <1>6 DEF h

(* Its release.                                                            *)
LEMMA WorkspaceEnds ==
    ASSUME NEW w, NEW fin, WorldFits(w, fin), NEW i \in DOMAIN w.h.rows,
           w.h.rows[i].kind = "workspace"
    PROVE  LET h == ReleaseReservation(w.h, i)
           IN  WorldFits(At(w.rows, w.m, h), fin) /\ h.epoch >= w.h.epoch
<1> DEFINE R == w.h.rows
           o == R[i].owner
           g == R[i].segment
           row == w.rows[o][g]
           h == ReleaseReservation(w.h, i)
<1>1. /\ w \in Worlds /\ Good(w.m) /\ NoSuspects(w.m)
      /\ w.h \in HbmStates /\ ReserveKept(w.h) /\ w.rows \in RowTables
  BY DEF WorldFits, Worlds, RowTables
<1>2. o \in Owners /\ g \in Segments
  <2>1. R[i] \in HbmRecords
    BY <1>1, HbmTypes
  <2> QED
    BY <2>1 DEF HbmRecords
<1>3. row \in Rows /\ Fit(row, w.m.lease, R, o, g, g \in fin[o])
  BY <1>1, <1>2, RowTypes DEF WorldFits
<1>4. /\ h \in HbmStates /\ ReserveKept(h) /\ h.epoch >= w.h.epoch
      /\ DOMAIN h.rows = DOMAIN R /\ h.rows[i].kind = "workspace"
      /\ \A j \in DOMAIN R : j # i => h.rows[j] = R[j]
      /\ \A p, q : p # o \/ q # g => SameOf(R, h.rows, p, q)
  <2> DEFINE j == w.h
  <2>1. j \in HbmStates /\ ReserveKept(j) /\ i \in DOMAIN j.rows
    BY <1>1
  <2> HIDE DEF j
  <2>2. LET n == ReleaseReservation(j, i)
        IN  /\ n \in HbmStates /\ ReserveKept(n) /\ n.epoch >= j.epoch
            /\ DOMAIN n.rows = DOMAIN j.rows /\ n.rows[i].kind = j.rows[i].kind
            /\ \A k \in DOMAIN j.rows : k # i => n.rows[k] = j.rows[k]
            /\ \A p, q : p # j.rows[i].owner \/ q # j.rows[i].segment =>
                 SameOf(j.rows, n.rows, p, q)
    BY <2>1, WriteOffStep
  <2> QED
    BY <2>2 DEF j
<1> HIDE DEF h
<1>5. Reserved(row, h.rows, o, g, g \in fin[o])
  <2>1. row.prep # "none" => row.hbm # i
    BY <1>3 DEF Fit, Reserved
  <2> QED
    BY <1>3, <1>4, <2>1 DEF Reserved, Fit
<1>6. WithRow(w.rows, o, g, row) = w.rows
  BY <1>1 DEF WithRow, RowTables
<1>7. WorldFits(At(WithRow(w.rows, o, g, row), w.m, h), fin)
  <2> HIDE DEF o, g
  <2> QED
    BY <1>1, <1>2, <1>3, <1>4, <1>5, SameKept, PutFits DEF Fit
<1> QED
  BY <1>4, <1>6, <1>7 DEF h

(* evict_replica.                                                          *)
LEMMA EvictFits ==
    ASSUME NEW w, NEW fin, WorldFits(w, fin), NEW r \in Replicas, CanEvictReplica(w.m, r)
    PROVE  WorldFits(At(w.rows, EvictReplica(w.m, r), w.h), fin)
<1> DEFINE m == EvictReplica(w.m, r)
           v == At(w.rows, m, w.h)
<1>1. w \in Worlds /\ Good(w.m) /\ NoSuspects(w.m) /\ ReserveKept(w.h)
      /\ w.rows \in RowTables /\ w.h \in HbmStates
  BY DEF WorldFits, Worlds, RowTables
<1>2. Good(m)
  BY <1>1, EvictGood
<1>3. m.lease = w.m.lease
  BY <1>1 DEF EvictReplica, Good, ManagerStates
<1>4. NoSuspects(m) /\ m \in ManagerStates
  BY <1>1, <1>2, <1>3 DEF NoSuspects, Good
<1> HIDE DEF m
<1>5. v \in Worlds /\ v.rows = w.rows /\ v.m = m /\ v.h = w.h
  BY <1>1, <1>4, AtWorld
<1> HIDE DEF v
<1>6. \A o \in Owners, g \in Segments :
        Fit(w.rows[o][g], w.m.lease, w.h.rows, o, g, g \in fin[o])
  BY DEF WorldFits
<1>7. WorldFits(v, fin)
  BY <1>1, <1>2, <1>3, <1>4, <1>5, <1>6 DEF WorldFits
<1> QED
  BY <1>7 DEF v, m

(***************************************************************************)
(* The loops of apply_gate2 and apply_gate3_subset.                        *)
(***************************************************************************)
StepOf(k, o, to, g, v) ==
    IF k = "gate2" THEN Gate2Row(v, o, g, to[g])
    ELSE IF k = "accept" THEN Gate3Accepted(v, o, g) ELSE Gate3Rejected(v, o, g)

Looped(k, o, to, w, s, it) ==
    IF s = {} THEN w ELSE StepOf(k, o, to, Pick(s), it[s \ {Pick(s)}])
LoopSolves(k, o, to, w, S, it) == it = [s \in SUBSET S |-> Looped(k, o, to, w, s, it)]

(* Each loop over a finite set ends.                                       *)
LEMMA LoopExists ==
    ASSUME NEW k, NEW o, NEW to, NEW w, NEW S, IsFiniteSet(S)
    PROVE  \E it : LoopSolves(k, o, to, w, S, it)
<1> DEFINE D(n) == {s \in SUBSET S : Cardinality(s) <= n}
           T == {n \in Nat : ~ \E it : it = [s \in D(n) |-> Looped(k, o, to, w, s, it)]}
<1>1. \A s \in SUBSET S : IsFiniteSet(s) /\ Cardinality(s) \in Nat
  BY FS_Subset, FS_CardinalityType
<1>2. T = {}
  <2> SUFFICES ASSUME T # {} PROVE FALSE
    OBVIOUS
  <2>1. PICK n \in T : \A m \in T : n <= m
    <3>1. T \subseteq Nat
      OBVIOUS
    <3> HIDE DEF T
    <3> QED
      BY <3>1, LeastNumber
  <2>2. n # 0
    <3>1. \A s \in D(0) : s = {}
      BY <1>1, FS_EmptySet
    <3> DEFINE it == [s \in D(0) |-> w]
    <3>2. it = [s \in D(0) |-> Looped(k, o, to, w, s, it)]
      BY <3>1 DEF Looped
    <3> QED
      BY <2>1, <3>2
  <2>3. n - 1 \in Nat /\ n - 1 \notin T
    <3>1. n \in Nat
      BY <2>1
    <3> HIDE DEF T
    <3> QED
      BY <2>1, <2>2, <3>1
  <2>4. PICK it : it = [s \in D(n - 1) |-> Looped(k, o, to, w, s, it)]
    BY <2>3
  <2> DEFINE jt == [s \in D(n) |-> Looped(k, o, to, w, s, it)]
  <2>5. \A s \in D(n) : s # {} => s \ {Pick(s)} \in D(n - 1)
    <3> TAKE s \in D(n)
    <3> HAVE s # {}
    <3>1. Pick(s) \in s
      BY PickIn
    <3>2. Cardinality(s \ {Pick(s)}) = Cardinality(s) - 1
      BY <1>1, <3>1, FS_RemoveElement
    <3>3. Cardinality(s) \in Nat /\ Cardinality(s) <= n
      BY <1>1
    <3> QED
      BY <2>1, <3>2, <3>3
  <2>6. \A s \in D(n - 1) : s \in D(n) /\ jt[s] = it[s]
    <3>1. \A s \in D(n - 1) : s \in D(n)
      BY <1>1, <2>1
    <3>2. \A s \in D(n - 1) : it[s] = Looped(k, o, to, w, s, it)
      BY <2>4
    <3> QED
      BY <3>1, <3>2
  <2>7. \A s \in D(n) : Looped(k, o, to, w, s, it) = Looped(k, o, to, w, s, jt)
    <3> HIDE DEF D, jt
    <3> QED
      BY <2>5, <2>6 DEF Looped
  <2>8. jt = [s \in D(n) |-> Looped(k, o, to, w, s, jt)]
    BY <2>7
  <2> QED
    BY <2>1, <2>8
<1>3. Cardinality(S) \in Nat
  BY FS_CardinalityType
<1>4. PICK it : it = [s \in D(Cardinality(S)) |-> Looped(k, o, to, w, s, it)]
  BY <1>2, <1>3
<1>5. D(Cardinality(S)) = SUBSET S
  BY FS_Subset
<1> QED
  BY <1>4, <1>5 DEF LoopSolves

(* What one pass does to the row of g, and all passes to those of s.       *)
Stepped(v, u, fin, o, g, row) ==
    /\ WorldFits(u, fin) /\ u.h.epoch >= v.h.epoch
    /\ u.rows = WithRow(v.rows, o, g, row)
    /\ Prepared(row) /\ ~Prepared(v.rows[o][g]) => u.h.epoch > v.h.epoch

RowsWith(r, o, new, s) ==
    [r EXCEPT ![o] = [g \in Segments |-> IF g \in s THEN new[g] ELSE r[o][g]]]

Moved(w, v, fin, o, new, s) ==
    /\ WorldFits(v, fin) /\ v.h.epoch >= w.h.epoch
    /\ v.rows = RowsWith(w.rows, o, new, s)
    /\ \A g \in s : Prepared(new[g]) /\ ~Prepared(w.rows[o][g]) => v.h.epoch > w.h.epoch

(* A loop over a set of segments whose body keeps the world well formed keeps it so to
   its end. *)
LEMMA LoopFits ==
    ASSUME NEW w, NEW fin, WorldFits(w, fin), NEW o \in Owners,
           NEW S \in SUBSET Segments, NEW k, NEW to, NEW new,
           \A g \in S : \A v : WorldFits(v, fin) /\ v.rows[o][g] = w.rows[o][g] =>
             Stepped(v, StepOf(k, o, to, g, v), fin, o, g, new[g]),
           NEW it, LoopSolves(k, o, to, w, S, it)
    PROVE  Moved(w, it[S], fin, o, new, S)
<1> DEFINE F == {s \in SUBSET S : Moved(w, it[s], fin, o, new, s)}
<1>1. \A s \in SUBSET S : it[s] = Looped(k, o, to, w, s, it)
  BY DEF LoopSolves
<1>2. \A v : WorldFits(v, fin) => v.h.epoch \in Nat /\ v.rows \in RowTables
  BY DEF WorldFits, Worlds, HbmStates, RowTables
<1>3. {} \in F
  <2>1. it[{}] = w
    BY <1>1 DEF Looped
  <2>2. w.rows = RowsWith(w.rows, o, new, {}) /\ w.h.epoch >= w.h.epoch
    BY <1>2 DEF RowsWith, RowTables
  <2> QED
    BY <2>1, <2>2 DEF Moved
<1>4. ASSUME NEW s \in SUBSET S, s # {}, \A x \in s : s \ {x} \in F
      PROVE  s \in F
  <2> DEFINE g == Pick(s)
             t == s \ {g}
             v == it[t]
             u == it[s]
  <2>1. g \in s /\ g \in S /\ g \in Segments
    BY <1>4, PickIn
  <2>2. Moved(w, v, fin, o, new, t)
    BY <1>4, <2>1
  <2>3. u = StepOf(k, o, to, g, v)
    BY <1>1, <1>4 DEF Looped
  <2> HIDE DEF g, v, u
  <2>4. WorldFits(v, fin) /\ v.rows = RowsWith(w.rows, o, new, t) /\ v.h.epoch >= w.h.epoch
    BY <2>2 DEF Moved
  <2>5. \A x \in Segments : v.rows[o][x] = IF x \in t THEN new[x] ELSE w.rows[o][x]
    BY <1>2, <2>4 DEF RowsWith, RowTables
  <2>6. v.rows[o][g] = w.rows[o][g]
    BY <2>1, <2>5
  <2>7. Stepped(v, u, fin, o, g, new[g])
    BY <2>1, <2>3, <2>4, <2>6
  <2>8. WorldFits(u, fin) /\ u.h.epoch >= v.h.epoch /\ u.rows = WithRow(v.rows, o, g, new[g])
        /\ (Prepared(new[g]) /\ ~Prepared(w.rows[o][g]) => u.h.epoch > v.h.epoch)
    BY <2>6, <2>7 DEF Stepped
  <2>9. u.rows = RowsWith(w.rows, o, new, s)
    <3> DEFINE a == [x \in Segments |-> IF x \in t THEN new[x] ELSE w.rows[o][x]]
               b == [x \in Segments |-> IF x \in s THEN new[x] ELSE w.rows[o][x]]
    <3>1. [a EXCEPT ![g] = new[g]] = b
      BY <2>1
    <3>2. v.rows = [w.rows EXCEPT ![o] = a] /\ RowsWith(w.rows, o, new, s) = [w.rows EXCEPT ![o] = b]
      BY <2>4 DEF RowsWith
    <3> HIDE DEF a, b
    <3>3. v.rows[o] = a
      BY <1>2, <3>2 DEF RowTables
    <3>4. u.rows = [v.rows EXCEPT ![o] = b]
      BY <2>8, <3>1, <3>3 DEF WithRow
    <3> QED
      BY <1>2, <3>2, <3>4 DEF RowTables
  <2>10. u.h.epoch \in Nat /\ v.h.epoch \in Nat /\ w.h.epoch \in Nat
    BY <1>2, <2>4, <2>8
  <2>11. \A x \in t : Prepared(new[x]) /\ ~Prepared(w.rows[o][x]) => v.h.epoch > w.h.epoch
    BY <2>2 DEF Moved
  <2>12. \A x \in s : Prepared(new[x]) /\ ~Prepared(w.rows[o][x]) => u.h.epoch > w.h.epoch
    <3> TAKE x \in s
    <3>1. CASE x = g
      BY <2>4, <2>8, <2>10, <3>1
    <3>2. CASE x \in t
      BY <2>8, <2>10, <2>11, <3>2
    <3> QED
      BY <3>1, <3>2
  <2>13. u.h.epoch >= w.h.epoch
    BY <2>4, <2>8, <2>10
  <2> QED
    BY <2>8, <2>9, <2>12, <2>13 DEF Moved, u
<1>5. IsFiniteSet(S)
  BY RequestShape, FS_Subset
<1>6. \A s \in SUBSET S : s \in F
  <2> HIDE DEF F
  <2> QED
    BY <1>3, <1>4, <1>5, SubsetInduction
<1> QED
  BY <1>6

Gate2Loops(w, o, to, S) == FoldSet(LAMBDA g, v : Gate2Row(v, o, g, to[g]), w, S)
AcceptLoops(w, o, S) == FoldSet(LAMBDA g, v : Gate3Accepted(v, o, g), w, S)
RejectLoops(w, o, S) == FoldSet(LAMBDA g, v : Gate3Rejected(v, o, g), w, S)

(* The Gate-2 application over any finite set of segments has a result. *)
LEMMA Gate2Loop ==
    ASSUME NEW w, NEW o, NEW to, NEW S, IsFiniteSet(S)
    PROVE  \E it : /\ LoopSolves("gate2", o, to, w, S, it)
                   /\ Gate2Loops(w, o, to, S) = it[S]
<1>1. Gate2Loops(w, o, to, S)
        = (CHOOSE it : LoopSolves("gate2", o, to, w, S, it))[S]
  BY DEF Gate2Loops, FoldSet, MapThenFoldSet, LoopSolves, Looped, StepOf, Pick
<1>2. \E it : LoopSolves("gate2", o, to, w, S, it)
  BY LoopExists
<1> QED
  BY <1>1, <1>2, Zenon

(* The Gate-3 acceptance over any finite set of segments has a result. *)
LEMMA AcceptLoop ==
    ASSUME NEW w, NEW o, NEW S, IsFiniteSet(S)
    PROVE  \E it : /\ LoopSolves("accept", o, 0, w, S, it)
                   /\ AcceptLoops(w, o, S) = it[S]
<1>1. AcceptLoops(w, o, S)
        = (CHOOSE it : LoopSolves("accept", o, 0, w, S, it))[S]
  BY DEF AcceptLoops, FoldSet, MapThenFoldSet, LoopSolves, Looped, StepOf, Pick
<1>2. \E it : LoopSolves("accept", o, 0, w, S, it)
  BY LoopExists
<1> QED
  BY <1>1, <1>2, Zenon

(* The Gate-3 rejection over any finite set of segments has a result. *)
LEMMA RejectLoop ==
    ASSUME NEW w, NEW o, NEW S, IsFiniteSet(S)
    PROVE  \E it : /\ LoopSolves("reject", o, 0, w, S, it)
                   /\ RejectLoops(w, o, S) = it[S]
<1>1. RejectLoops(w, o, S)
        = (CHOOSE it : LoopSolves("reject", o, 0, w, S, it))[S]
  BY DEF RejectLoops, FoldSet, MapThenFoldSet, LoopSolves, Looped, StepOf, Pick
<1>2. \E it : LoopSolves("reject", o, 0, w, S, it)
  BY LoopExists
<1> QED
  BY <1>1, <1>2, Zenon

(* apply_gate2: whichever rows came before a refused one.                  *)
Targets(w, o, to) ==
    /\ DOMAIN to \subseteq Segments
    /\ \A g \in DOMAIN to :
         /\ to[g] \in {"deferred", "provisional_reuse", "predicted_dense"}
         /\ to[g] = "predicted_dense" => ~Prepared(w.rows[o][g])

(* apply_gate2 leaves a well-formed world, whatever plan it applies. *)
LEMMA Gate2Fits ==
    ASSUME NEW w, NEW fin, WorldFits(w, fin), NEW o \in Owners, NEW to, Targets(w, o, to),
           NEW v \in Gate2Applied(w, o, to)
    PROVE  \E S \in SUBSET DOMAIN to :
             /\ \A g \in S : Movable(w.rows[o][g], to[g])
             /\ Moved(w, v, fin, o, [g \in S |-> MovedRow(w.rows[o][g], to[g])], S)
<1> DEFINE refused == {g \in DOMAIN to : Gate2Refuses(w.rows[o][g], to[g])}
           others == DOMAIN to \ refused
<1>1. v \in {Gate2Loops(w, o, to, S) :
               S \in IF refused = {} THEN {others} ELSE SUBSET others}
  BY DEF Gate2Applied, Gate2Loops
<1>2. PICK S : S \subseteq others /\ v = Gate2Loops(w, o, to, S)
  <2> HIDE DEF others, refused
  <2> QED
    BY <1>1
<1> DEFINE new == [g \in S |-> MovedRow(w.rows[o][g], to[g])]
<1>3. S \in SUBSET Segments /\ S \in SUBSET DOMAIN to /\ IsFiniteSet(S)
  BY <1>2, RequestShape, FS_Subset DEF Targets
<1>4. \A g \in S : Movable(w.rows[o][g], to[g])
  BY <1>2 DEF Targets, Movable
<1>5. PICK it : LoopSolves("gate2", o, to, w, S, it) /\ v = it[S]
  BY <1>2, <1>3, Gate2Loop
<1>6. ASSUME NEW g \in S, NEW u, WorldFits(u, fin), u.rows[o][g] = w.rows[o][g]
      PROVE  Stepped(u, StepOf("gate2", o, to, g, u), fin, o, g, new[g])
  <2>1. Movable(u.rows[o][g], to[g]) /\ g \in Segments
    BY <1>3, <1>4, <1>6
  <2> DEFINE x == Gate2Row(u, o, g, to[g])
  <2>2. /\ WorldFits(x, fin) /\ x.h.epoch >= u.h.epoch
        /\ x.rows = WithRow(u.rows, o, g, MovedRow(u.rows[o][g], to[g]))
        /\ Prepared(x.rows[o][g]) /\ ~Prepared(u.rows[o][g]) => x.h.epoch > u.h.epoch
    BY <1>6, <2>1, MoveFits
  <2>3. new[g] = MovedRow(u.rows[o][g], to[g])
    BY <1>6
  <2>4. x.rows[o][g] = new[g]
    <3>1. u.rows \in RowTables /\ u.rows[o][g] \in Rows
      BY <1>6, <2>1, RowTypes DEF WorldFits, Worlds, RowTables
    <3> HIDE DEF new, x
    <3> QED
      BY <2>1, <2>2, <2>3, <3>1 DEF WithRow, RowTables
  <2> HIDE DEF new
  <2>5. StepOf("gate2", o, to, g, u) = x
    BY DEF StepOf
  <2> HIDE DEF x
  <2> QED
    BY <2>2, <2>3, <2>4, <2>5 DEF Stepped
<1>7. Moved(w, it[S], fin, o, new, S)
  <2> HIDE DEF new
  <2> QED
    BY <1>3, <1>5, <1>6, LoopFits
<1> QED
  BY <1>3, <1>4, <1>5, <1>7

AcceptedRow(row) == [row EXCEPT !.commit = "reuse_commit"]

(* apply_gate3_subset, of segments that are ready to commit.               *)
LEMMA AcceptsFit ==
    ASSUME NEW w, NEW fin, WorldFits(w, fin), NEW o \in Owners, NEW S \in SUBSET Segments,
           \A g \in S : ReadyToCommit(w.rows[o][g])
    PROVE  Moved(w, AcceptLoops(w, o, S), fin, o, [g \in S |-> AcceptedRow(w.rows[o][g])], S)
<1> DEFINE new == [g \in S |-> AcceptedRow(w.rows[o][g])]
<1>1. IsFiniteSet(S)
  BY RequestShape, FS_Subset
<1>2. PICK it : LoopSolves("accept", o, 0, w, S, it) /\ AcceptLoops(w, o, S) = it[S]
  BY <1>1, AcceptLoop
<1>3. ASSUME NEW g \in S, NEW u, WorldFits(u, fin), u.rows[o][g] = w.rows[o][g]
      PROVE  Stepped(u, StepOf("accept", o, 0, g, u), fin, o, g, new[g])
  <2> DEFINE x == Gate3Accepted(u, o, g)
  <2>1. ReadyToCommit(u.rows[o][g]) /\ g \in Segments
    BY <1>3
  <2>2. WorldFits(x, fin)
    BY <1>3, <2>1, AcceptFits
  <2>3. new[g] = AcceptedRow(u.rows[o][g])
    BY <1>3
  <2>4. x.rows = WithRow(u.rows, o, g, AcceptedRow(u.rows[o][g])) /\ x.h = u.h
        /\ u.h.epoch \in Nat
    BY <1>3 DEF WorldFits, Worlds, HbmStates, Gate3Accepted, WithRow, AcceptedRow
  <2>5. Prepared(u.rows[o][g])
    BY <2>1 DEF Prepared, ReadyToCommit
  <2>6. StepOf("accept", o, 0, g, u) = x
    BY DEF StepOf
  <2> HIDE DEF x, new
  <2> QED
    BY <2>2, <2>3, <2>4, <2>5, <2>6 DEF Stepped
<1>4. Moved(w, it[S], fin, o, new, S)
  <2> HIDE DEF new
  <2> QED
    BY <1>2, <1>3, LoopFits
<1> QED
  BY <1>2, <1>4

(* The rejected half of apply_gate3 leaves a well-formed world. *)
LEMMA RejectsFit ==
    ASSUME NEW w, NEW fin, WorldFits(w, fin), NEW o \in Owners, NEW S \in SUBSET Segments,
           \A g \in S : ReadyToCommit(w.rows[o][g])
    PROVE  Moved(w, RejectLoops(w, o, S), fin, o, [g \in S |-> RejectedRow(w.rows[o][g])], S)
<1> DEFINE new == [g \in S |-> RejectedRow(w.rows[o][g])]
<1>1. IsFiniteSet(S)
  BY RequestShape, FS_Subset
<1>2. PICK it : LoopSolves("reject", o, 0, w, S, it) /\ RejectLoops(w, o, S) = it[S]
  BY <1>1, RejectLoop
<1>3. ASSUME NEW g \in S, NEW u, WorldFits(u, fin), u.rows[o][g] = w.rows[o][g]
      PROVE  Stepped(u, StepOf("reject", o, 0, g, u), fin, o, g, new[g])
  <2> DEFINE x == Gate3Rejected(u, o, g)
  <2>1. ReadyToCommit(u.rows[o][g]) /\ g \in Segments
    BY <1>3
  <2>2. /\ WorldFits(x, fin) /\ x.rows = WithRow(u.rows, o, g, RejectedRow(u.rows[o][g]))
        /\ x.h.epoch >= u.h.epoch
    BY <1>3, <2>1, RejectFits
  <2>3. new[g] = RejectedRow(u.rows[o][g])
    BY <1>3
  <2>4. Prepared(u.rows[o][g])
    BY <2>1 DEF Prepared, ReadyToCommit
  <2>5. StepOf("reject", o, 0, g, u) = x
    BY DEF StepOf
  <2> HIDE DEF x, new
  <2> QED
    BY <2>2, <2>3, <2>4, <2>5 DEF Stepped
<1>4. Moved(w, it[S], fin, o, new, S)
  <2> HIDE DEF new
  <2> QED
    BY <1>2, <1>3, LoopFits
<1> QED
  BY <1>2, <1>4

(* apply_gate3 leaves a well-formed world, whatever subset of the ready segments it
   accepts. *)
LEMMA Gate3Fits ==
    ASSUME NEW w, NEW fin, WorldFits(w, fin), NEW o \in Owners,
           NEW accepted \in SUBSET Segments, NEW rejected \in SUBSET Segments,
           accepted \cap rejected = {},
           \A g \in accepted \cup rejected : ReadyToCommit(w.rows[o][g])
    PROVE  LET v == Gate3Applied(w, o, accepted, rejected)
           IN  /\ WorldFits(v, fin) /\ v.h.epoch >= w.h.epoch
               /\ \A p \in Owners, g \in Segments :
                    v.rows[p][g] = IF p = o /\ g \in accepted THEN AcceptedRow(w.rows[p][g])
                                   ELSE IF p = o /\ g \in rejected THEN RejectedRow(w.rows[p][g])
                                   ELSE w.rows[p][g]
<1> DEFINE u == AcceptLoops(w, o, accepted)
           v == RejectLoops(u, o, rejected)
           a == [g \in accepted |-> AcceptedRow(w.rows[o][g])]
           b == [g \in rejected |-> RejectedRow(u.rows[o][g])]
<1>1. Gate3Applied(w, o, accepted, rejected) = v
  BY DEF Gate3Applied, AcceptLoops, RejectLoops
<1>2. Moved(w, u, fin, o, a, accepted)
  BY AcceptsFit
<1> HIDE DEF u, a
<1>3. WorldFits(u, fin) /\ u.rows = RowsWith(w.rows, o, a, accepted) /\ u.h.epoch >= w.h.epoch
  BY <1>2 DEF Moved
<1>4. w.rows \in RowTables /\ w.h.epoch \in Nat /\ u.h.epoch \in Nat /\ u.rows \in RowTables
  BY <1>3 DEF WorldFits, Worlds, RowTables, HbmStates
<1>5. \A p \in Owners, g \in Segments :
        u.rows[p][g] = IF p = o /\ g \in accepted THEN AcceptedRow(w.rows[p][g]) ELSE w.rows[p][g]
  BY <1>3, <1>4 DEF RowsWith, RowTables, a
<1>6. \A g \in rejected : ReadyToCommit(u.rows[o][g]) /\ u.rows[o][g] = w.rows[o][g]
  BY <1>5
<1>7. Moved(u, v, fin, o, b, rejected)
  BY <1>3, <1>6, RejectsFit
<1> HIDE DEF v, b
<1>8. WorldFits(v, fin) /\ v.rows = RowsWith(u.rows, o, b, rejected) /\ v.h.epoch >= u.h.epoch
  BY <1>7 DEF Moved
<1>9. \A p \in Owners, g \in Segments :
        v.rows[p][g] = IF p = o /\ g \in rejected THEN RejectedRow(u.rows[p][g]) ELSE u.rows[p][g]
  BY <1>4, <1>8 DEF RowsWith, RowTables, b
<1>10. v.h.epoch \in Nat
  BY <1>8 DEF WorldFits, Worlds, HbmStates
<1>11. v.h.epoch >= w.h.epoch
  BY <1>3, <1>4, <1>8, <1>10
<1>12. \A p \in Owners, g \in Segments :
         v.rows[p][g] = IF p = o /\ g \in accepted THEN AcceptedRow(w.rows[p][g])
                        ELSE IF p = o /\ g \in rejected THEN RejectedRow(w.rows[p][g])
                        ELSE w.rows[p][g]
  BY <1>5, <1>6, <1>9
<1> QED
  BY <1>1, <1>8, <1>11, <1>12

(***************************************************************************)
(* The rows the methods leave.                                             *)
(***************************************************************************)
DecidedRow(row, s, depth) == [row EXCEPT !.sel = "decision_ready", !.source = s, !.depth = depth]
FailedRow(row, atLmax) ==
    [row EXCEPT !.source = NoSource, !.depth = 0, !.sel = IF atLmax THEN "abstained" ELSE "probing"]
AbstainedRow(row) == [row EXCEPT !.sel = "abstained", !.source = NoSource]
OverrunRow(row) == [row EXCEPT !.disabled = TRUE]

(* The rows that the single-row operations write are rows, field by field. *)
LEMMA RowForms ==
    ASSUME NEW w \in Worlds, NEW o \in Owners, NEW g \in Segments, NEW s, NEW depth,
           NEW atLmax
    PROVE  LET row == w.rows[o][g]
           IN  /\ DecisionReady(w, o, g, s, depth).rows = WithRow(w.rows, o, g, DecidedRow(row, s, depth))
               /\ DecisionReady(w, o, g, s, depth).h = w.h
               /\ Gate1Failed(w, o, g, atLmax).rows = WithRow(w.rows, o, g, FailedRow(row, atLmax))
               /\ Gate1Failed(w, o, g, atLmax).h = w.h
               /\ AbstainRow(w, o, g).rows = WithRow(w.rows, o, g, AbstainedRow(row))
               /\ AbstainRow(w, o, g).h = w.h
               /\ RecordOverrun(w, o, g).rows = WithRow(w.rows, o, g, OverrunRow(row))
               /\ RecordOverrun(w, o, g).h = w.h
               /\ Gate1Passed(w, o, g).rows = WithRow(w.rows, o, g, Frozen(row, Len(w.m.lease) + 1))
               /\ Gate1Passed(w, o, g).h = w.h
<1>1. DecisionReady(w, o, g, s, depth).rows = WithRow(w.rows, o, g, DecidedRow(w.rows[o][g], s, depth))
      /\ DecisionReady(w, o, g, s, depth).h = w.h
  BY DEF Worlds, DecisionReady, WithRow, DecidedRow
<1>2. Gate1Failed(w, o, g, atLmax).rows = WithRow(w.rows, o, g, FailedRow(w.rows[o][g], atLmax))
      /\ Gate1Failed(w, o, g, atLmax).h = w.h
  BY DEF Worlds, Gate1Failed, WithRow, FailedRow
<1>3. AbstainRow(w, o, g).rows = WithRow(w.rows, o, g, AbstainedRow(w.rows[o][g]))
      /\ AbstainRow(w, o, g).h = w.h
  BY DEF Worlds, AbstainRow, WithRow, AbstainedRow
<1>4. RecordOverrun(w, o, g).rows = WithRow(w.rows, o, g, OverrunRow(w.rows[o][g]))
      /\ RecordOverrun(w, o, g).h = w.h
  BY DEF Worlds, RecordOverrun, WithRow, OverrunRow
<1>5. Gate1Passed(w, o, g).rows = WithRow(w.rows, o, g, Frozen(w.rows[o][g], Len(w.m.lease) + 1))
      /\ Gate1Passed(w, o, g).h = w.h
  BY Gate1PassedIs DEF At
<1> QED
  BY <1>1, <1>2, <1>3, <1>4, <1>5

(***************************************************************************)
(* What a step of one request does to rows: what is resolved stays so, and *)
(* the fates move along the chain.                                         *)
(***************************************************************************)
FateRow(row) ==
    IF row.sel = "abstained" \/ Dense(row) THEN "dense"
    ELSE IF row.commit = "reuse_commit" THEN "reuse"
    ELSE IF row.gate2 = "provisional_reuse" THEN "admitted" ELSE "undecided"

FateMoves(a, b) ==
    \/ b = a
    \/ a = "undecided" /\ b = "admitted"
    \/ a \in {"undecided", "admitted"} /\ b = "dense"

RowMoves(row, new) ==
    /\ Resolved(row) => new.sel = row.sel /\ new.depth = row.depth
    /\ new.commit = "reuse_commit" => row.commit = "reuse_commit"
    /\ FateMoves(FateRow(row), FateRow(new))

Still(row, new) == RowMoves(row, new) /\ (Prepared(new) => Prepared(row))

(* A decision of the probing leaves the preparation and the commit of the row alone. *)
LEMMA DecidedStill ==
    ASSUME NEW row \in Rows, NEW done, RowFits(row, done), row.sel = "probing", NEW s, NEW depth
    PROVE  Still(row, DecidedRow(row, s, depth))
<1> DEFINE new == DecidedRow(row, s, depth)
<1>1. new.sel = "decision_ready" /\ new.gate2 = row.gate2 /\ new.commit = row.commit
      /\ new.prep = row.prep
  BY DEF DecidedRow, Rows
<1> HIDE DEF new
<1> QED
  BY <1>1 DEF Still, RowMoves, FateMoves, FateRow, Dense, Resolved, Prepared, new

(* A failed Gate 1 leaves the preparation and the commit of the row alone. *)
LEMMA FailedStill ==
    ASSUME NEW row \in Rows, NEW done, RowFits(row, done), row.sel = "decision_ready",
           NEW atLmax \in BOOLEAN
    PROVE  Still(row, FailedRow(row, atLmax))
<1> DEFINE new == FailedRow(row, atLmax)
<1>1. new.sel \in {"abstained", "probing"} /\ new.gate2 = row.gate2 /\ new.commit = row.commit
      /\ new.prep = row.prep
  BY DEF FailedRow, Rows
<1> HIDE DEF new
<1> QED
  BY <1>1 DEF Still, RowMoves, FateMoves, FateRow, Dense, Resolved, Prepared, new, RowFits

(* An abstention leaves the preparation and the commit of the row alone. *)
LEMMA AbstainedStill ==
    ASSUME NEW row \in Rows, NEW done, RowFits(row, done), row.sel # "source_frozen"
    PROVE  Still(row, AbstainedRow(row))
<1> DEFINE new == AbstainedRow(row)
<1>1. new.sel = "abstained" /\ new.gate2 = row.gate2 /\ new.commit = row.commit
      /\ new.prep = row.prep /\ new.depth = row.depth
  BY DEF AbstainedRow, Rows
<1> HIDE DEF new
<1> QED
  BY <1>1 DEF Still, RowMoves, FateMoves, FateRow, Dense, Resolved, Prepared, new, RowFits

(* Freezing the Source leaves the preparation and the commit of the row alone. *)
LEMMA FrozenStill ==
    ASSUME NEW row \in Rows, NEW done, RowFits(row, done), row.sel = "decision_ready", NEW k
    PROVE  Still(row, Frozen(row, k))
<1> DEFINE new == Frozen(row, k)
<1>1. new.sel = "source_frozen" /\ new.gate2 = row.gate2 /\ new.commit = row.commit
      /\ new.prep = row.prep
  BY DEF Frozen, Rows
<1> HIDE DEF new
<1> QED
  BY <1>1 DEF Still, RowMoves, FateMoves, FateRow, Dense, Resolved, Prepared, new, RowFits

(* A realized overrun only turns the row's overrun flag on. *)
LEMMA OverrunStill ==
    ASSUME NEW row \in Rows
    PROVE  Still(row, OverrunRow(row))
<1> DEFINE new == OverrunRow(row)
<1>1. new.sel = row.sel /\ new.gate2 = row.gate2 /\ new.commit = row.commit
      /\ new.prep = row.prep /\ new.depth = row.depth
  BY DEF OverrunRow, Rows
<1> HIDE DEF new
<1> QED
  BY <1>1 DEF Still, RowMoves, FateMoves, FateRow, Dense, Resolved, Prepared, new

(* Marking the winner ready moves the preparation of the row forward. *)
LEMMA ReadyStill ==
    ASSUME NEW row \in Rows, row.prep # "none"
    PROVE  Still(row, ReadyRow(row))
<1> DEFINE new == ReadyRow(row)
<1>1. new.sel = row.sel /\ new.gate2 = row.gate2 /\ new.commit = row.commit
      /\ new.depth = row.depth
  BY DEF ReadyRow, Rows
<1> HIDE DEF new
<1> QED
  BY <1>1 DEF Still, RowMoves, FateMoves, FateRow, Dense, Resolved, Prepared, new

(* Beginning the winner's prefetch is one of the moves a row may make. *)
LEMMA PrefetchedMoves ==
    ASSUME NEW row \in Rows, NEW l, NEW i
    PROVE  RowMoves(row, PrefetchedRow(row, l, i))
<1> DEFINE new == PrefetchedRow(row, l, i)
<1>1. new.sel = row.sel /\ new.gate2 = row.gate2 /\ new.commit = row.commit
      /\ new.depth = row.depth
  BY DEF PrefetchedRow, Rows
<1> HIDE DEF new
<1> QED
  BY <1>1 DEF RowMoves, FateMoves, FateRow, Dense, Resolved, new

(* Gate 2's decision is one of the moves a row may make. *)
LEMMA MovedMoves ==
    ASSUME NEW row \in Rows, NEW done, RowFits(row, done), NEW target, Movable(row, target)
    PROVE  RowMoves(row, MovedRow(row, target))
<1> DEFINE new == MovedRow(row, target)
<1>1. new.sel = row.sel /\ new.gate2 = target /\ new.commit = row.commit
      /\ new.depth = row.depth
  BY MovedRowIs
<1> HIDE DEF new
<1>2. row.commit = "reuse_commit" => target = "provisional_reuse"
  BY DEF RowFits, Movable, Gate2Refuses, Prepared
<1>3. /\ row.sel = "source_frozen"
      /\ target \in {"deferred", "provisional_reuse", "predicted_dense"}
      /\ row.gate2 = "predicted_dense" => target = "predicted_dense"
      /\ row.gate2 = "provisional_reuse" => target # "deferred"
  BY DEF Movable, Gate2Refuses
<1>4. row.commit \in {"uncommitted", "reuse_commit", "refined_dense"}
  BY DEF Rows, Commits
<1>5. FateMoves(FateRow(row), FateRow(new))
  <2>1. CASE row.commit = "refined_dense"
    <3>1. FateRow(row) = "dense" /\ FateRow(new) = "dense"
      BY <1>1, <2>1 DEF FateRow, Dense
    <3> QED
      BY <3>1 DEF FateMoves
  <2>2. CASE row.commit = "reuse_commit"
    <3>1. row.gate2 = "provisional_reuse"
      BY <2>2 DEF RowFits
    <3>2. FateRow(row) = "reuse" /\ FateRow(new) = "reuse"
      BY <1>1, <1>2, <1>3, <2>2, <3>1 DEF FateRow, Dense
    <3> QED
      BY <3>2 DEF FateMoves
  <2>3. CASE row.commit = "uncommitted"
    <3>1. FateRow(row) = IF row.gate2 = "predicted_dense" THEN "dense"
                         ELSE IF row.gate2 = "provisional_reuse" THEN "admitted" ELSE "undecided"
      BY <1>3, <2>3 DEF FateRow, Dense
    <3>2. FateRow(new) = IF target = "predicted_dense" THEN "dense"
                         ELSE IF target = "provisional_reuse" THEN "admitted" ELSE "undecided"
      BY <1>1, <1>3, <2>3 DEF FateRow, Dense
    <3> QED
      BY <1>3, <3>1, <3>2 DEF FateMoves
  <2> QED
    BY <1>4, <2>1, <2>2, <2>3
<1> QED
  BY <1>1, <1>5 DEF RowMoves, Resolved, new

(* A step of request o that is not a Gate-3 decision.                      *)
Planned(w, v, o) ==
    /\ v.h.epoch >= w.h.epoch
    /\ \A p \in Owners, g \in Segments :
         /\ IF p = o THEN RowMoves(w.rows[p][g], v.rows[p][g])
            ELSE v.rows[p][g] = w.rows[p][g]
         /\ Prepared(v.rows[p][g]) /\ ~Prepared(w.rows[p][g]) => v.h.epoch > w.h.epoch

(* A step that writes one row by a legal move, and no other, is a planned step of its
   owner. *)
LEMMA OneRowPlanned ==
    ASSUME NEW w \in Worlds, NEW v, NEW o \in Owners, NEW g \in Segments, NEW new,
           v.rows = WithRow(w.rows, o, g, new), RowMoves(w.rows[o][g], new),
           v.h.epoch >= w.h.epoch,
           Prepared(new) /\ ~Prepared(w.rows[o][g]) => v.h.epoch > w.h.epoch
    PROVE  Planned(w, v, o)
<1>1. \A p \in Owners, k \in Segments :
        v.rows[p][k] = IF p = o /\ k = g THEN new ELSE w.rows[p][k]
  BY DEF WithRow, Worlds
<1>2. \A row : RowMoves(row, row)
  BY DEF RowMoves, FateMoves
<1> QED
  BY <1>1, <1>2 DEF Planned

(* A step that writes no row is a planned step of any owner. *)
LEMMA SameRowsPlanned ==
    ASSUME NEW w, NEW v, NEW o, v.rows = w.rows, v.h.epoch >= w.h.epoch
    PROVE  Planned(w, v, o)
<1>1. \A row : RowMoves(row, row)
  BY DEF RowMoves, FateMoves
<1> QED
  BY <1>1 DEF Planned

(* Two planned steps of one owner, one after the other, are a planned step of it. *)
LEMMA PlannedTwice ==
    ASSUME NEW w \in Worlds, NEW u \in Worlds, NEW v \in Worlds, NEW o \in Owners,
           Planned(w, u, o), Planned(u, v, o)
    PROVE  Planned(w, v, o)
<1>1. w.h.epoch \in Nat /\ u.h.epoch \in Nat /\ v.h.epoch \in Nat
  BY DEF Worlds, HbmStates
<1>2. \A x, y, z : RowMoves(x, y) /\ RowMoves(y, z) => RowMoves(x, z)
  BY DEF RowMoves, FateMoves, Resolved
<1> QED
  BY <1>1, <1>2 DEF Planned

(***************************************************************************)
(* Each method, and each loop of methods, as a step of one request.        *)
(***************************************************************************)
Steps(w, v, fin, o) == WorldFits(v, fin) /\ Planned(w, v, o)

(* decision_ready.                                                         *)
LEMMA DecideSteps ==
    ASSUME NEW w, NEW fin, WorldFits(w, fin), NEW o \in Owners, NEW g \in Segments,
           NEW s \in Sources, NEW depth \in Nat, CanDecisionReady(w, o, g)
    PROVE  Steps(w, DecisionReady(w, o, g, s, depth), fin, o)
<1> DEFINE row == w.rows[o][g]
           v == DecisionReady(w, o, g, s, depth)
           new == DecidedRow(row, s, depth)
<1>1. w \in Worlds /\ w.h.epoch \in Nat /\ row \in Rows /\ RowFits(row, g \in fin[o])
  BY RowTypes DEF WorldFits, Worlds, HbmStates, Fit
<1>2. WorldFits(v, fin)
  BY DecideFits
<1>3. v.rows = WithRow(w.rows, o, g, new) /\ v.h = w.h
  BY <1>1, RowForms
<1>4. Still(row, new)
  BY <1>1, DecidedStill DEF CanDecisionReady
<1> HIDE DEF new, v
<1> QED
  BY <1>1, <1>2, <1>3, <1>4, OneRowPlanned DEF Still, Steps, v

(* apply_gate1_plan, failed.                                               *)
LEMMA Gate1FailSteps ==
    ASSUME NEW w, NEW fin, WorldFits(w, fin), NEW o \in Owners, NEW g \in Segments,
           NEW atLmax \in BOOLEAN, CanGate1(w, o, g)
    PROVE  Steps(w, Gate1Failed(w, o, g, atLmax), fin, o)
<1> DEFINE row == w.rows[o][g]
           v == Gate1Failed(w, o, g, atLmax)
           new == FailedRow(row, atLmax)
<1>1. w \in Worlds /\ w.h.epoch \in Nat /\ row \in Rows /\ RowFits(row, g \in fin[o])
  BY RowTypes DEF WorldFits, Worlds, HbmStates, Fit
<1>2. WorldFits(v, fin)
  BY Gate1FailFits
<1>3. v.rows = WithRow(w.rows, o, g, new) /\ v.h = w.h
  BY <1>1, RowForms
<1>4. Still(row, new)
  BY <1>1, FailedStill DEF CanGate1
<1> HIDE DEF new, v
<1> QED
  BY <1>1, <1>2, <1>3, <1>4, OneRowPlanned DEF Still, Steps, v

(* apply_gate1_plan, passed.                                               *)
LEMMA Gate1PassSteps ==
    ASSUME NEW w, NEW fin, WorldFits(w, fin), NEW o \in Owners, NEW g \in Segments,
           CanGate1Pass(w, o, g)
    PROVE  Steps(w, Gate1Passed(w, o, g), fin, o)
<1> DEFINE row == w.rows[o][g]
           v == Gate1Passed(w, o, g)
           new == Frozen(row, Len(w.m.lease) + 1)
<1>1. w \in Worlds /\ w.h.epoch \in Nat /\ row \in Rows /\ RowFits(row, g \in fin[o])
  BY RowTypes DEF WorldFits, Worlds, HbmStates, Fit
<1>2. WorldFits(v, fin)
  BY Gate1PassFits
<1>3. v.rows = WithRow(w.rows, o, g, new) /\ v.h = w.h
  BY <1>1, RowForms
<1>4. Still(row, new)
  BY <1>1, FrozenStill DEF CanGate1, CanGate1Pass
<1> HIDE DEF new, v
<1> QED
  BY <1>1, <1>2, <1>3, <1>4, OneRowPlanned DEF Still, Steps, v

(* abstain.                                                                *)
LEMMA AbstainSteps ==
    ASSUME NEW w, NEW fin, WorldFits(w, fin), NEW o \in Owners, NEW g \in Segments,
           CanAbstain(w, o, g)
    PROVE  Steps(w, AbstainRow(w, o, g), fin, o)
<1> DEFINE row == w.rows[o][g]
           v == AbstainRow(w, o, g)
           new == AbstainedRow(row)
<1>1. w \in Worlds /\ w.h.epoch \in Nat /\ row \in Rows /\ RowFits(row, g \in fin[o])
  BY RowTypes DEF WorldFits, Worlds, HbmStates, Fit
<1>2. WorldFits(v, fin)
  BY AbstainFits
<1>3. v.rows = WithRow(w.rows, o, g, new) /\ v.h = w.h
  BY <1>1, RowForms
<1>4. Still(row, new)
  BY <1>1, AbstainedStill DEF CanAbstain
<1> HIDE DEF new, v
<1> QED
  BY <1>1, <1>2, <1>3, <1>4, OneRowPlanned DEF Still, Steps, v

(* record_realized_overrun.                                                *)
LEMMA OverrunSteps ==
    ASSUME NEW w, NEW fin, WorldFits(w, fin), NEW o \in Owners, NEW g \in Segments
    PROVE  Steps(w, RecordOverrun(w, o, g), fin, o)
<1> DEFINE row == w.rows[o][g]
           v == RecordOverrun(w, o, g)
           new == OverrunRow(row)
<1>1. w \in Worlds /\ w.h.epoch \in Nat /\ row \in Rows
  BY RowTypes DEF WorldFits, Worlds, HbmStates
<1>2. WorldFits(v, fin)
  BY OverrunFits
<1>3. v.rows = WithRow(w.rows, o, g, new) /\ v.h = w.h
  BY <1>1, RowForms
<1>4. Still(row, new)
  BY <1>1, OverrunStill
<1> HIDE DEF new, v
<1> QED
  BY <1>1, <1>2, <1>3, <1>4, OneRowPlanned DEF Still, Steps, v

(* mark_winner_ready.                                                      *)
LEMMA ReadySteps ==
    ASSUME NEW w, NEW fin, WorldFits(w, fin), NEW o \in Owners, NEW g \in Segments,
           CanMarkWinnerReady(w, o, g)
    PROVE  Steps(w, MarkWinnerReady(w, o, g), fin, o)
<1> DEFINE row == w.rows[o][g]
           v == MarkWinnerReady(w, o, g)
           new == ReadyRow(row)
<1>1. w \in Worlds /\ w.h.epoch \in Nat /\ row \in Rows
  BY RowTypes DEF WorldFits, Worlds, HbmStates
<1>2. WorldFits(v, fin) /\ v.rows = WithRow(w.rows, o, g, new) /\ v.h = w.h
  BY ReadyFits
<1>3. Still(row, new)
  BY <1>1, ReadyStill DEF CanMarkWinnerReady
<1> HIDE DEF new, v
<1> QED
  BY <1>1, <1>2, <1>3, OneRowPlanned DEF Still, Steps, v

(* begin_winner_prefetch.                                                  *)
LEMMA PrefetchSteps ==
    ASSUME NEW w, NEW fin, WorldFits(w, fin), NEW o \in Owners, NEW g \in Segments,
           NEW r \in Replicas, NEW admitted \in BOOLEAN,
           CanBeginPrefetch(w, o, g, r, admitted), w.rows[o][g].commit = "uncommitted"
    PROVE  Steps(w, BeginPrefetch(w, o, g, r, admitted), fin, o)
<1> DEFINE row == w.rows[o][g]
           v == BeginPrefetch(w, o, g, r, admitted)
<1>1. w \in Worlds /\ w.h.epoch \in Nat /\ row \in Rows
  BY RowTypes DEF WorldFits, Worlds, HbmStates
<1>2. CASE CanReserve(w.h, SizeOf[r])
  <2>1. WorldFits(v, fin) /\ v.h.epoch > w.h.epoch
        /\ \E l, i \in Nat : v.rows = WithRow(w.rows, o, g, PrefetchedRow(row, l, i))
    BY <1>2, PrefetchedFits
  <2>2. PICK l, i \in Nat : v.rows = WithRow(w.rows, o, g, PrefetchedRow(row, l, i))
    BY <2>1
  <2> DEFINE new == PrefetchedRow(row, l, i)
  <2>3. RowMoves(row, new)
    BY <1>1, PrefetchedMoves
  <2>4. v.h.epoch \in Nat
    BY <2>1 DEF WorldFits, Worlds, HbmStates
  <2> HIDE DEF new, v
  <2>5. v.rows = WithRow(w.rows, o, g, new)
    BY <2>2 DEF new
  <2>6. v.h.epoch >= w.h.epoch
    BY <1>1, <2>1, <2>4
  <2> QED
    BY <1>1, <2>1, <2>3, <2>5, <2>6, OneRowPlanned DEF Steps, v
<1>3. CASE ~CanReserve(w.h, SizeOf[r])
  <2>1. WorldFits(v, fin) /\ v.h = w.h /\ v.rows = w.rows
    BY <1>3, RefusedFits
  <2> HIDE DEF v
  <2> QED
    BY <1>1, <2>1, SameRowsPlanned DEF Steps, v
<1> QED
  BY <1>2, <1>3

(* apply_gate2.                                                            *)
LEMMA Gate2Steps ==
    ASSUME NEW w, NEW fin, WorldFits(w, fin), NEW o \in Owners, NEW to, Targets(w, o, to),
           NEW v \in Gate2Applied(w, o, to)
    PROVE  Steps(w, v, fin, o)
<1>1. PICK S \in SUBSET DOMAIN to :
        /\ \A g \in S : Movable(w.rows[o][g], to[g])
        /\ Moved(w, v, fin, o, [g \in S |-> MovedRow(w.rows[o][g], to[g])], S)
  BY Gate2Fits
<1> DEFINE new == [g \in S |-> MovedRow(w.rows[o][g], to[g])]
<1>2. /\ WorldFits(v, fin) /\ v.h.epoch >= w.h.epoch
      /\ v.rows = RowsWith(w.rows, o, new, S)
      /\ \A g \in S : Prepared(new[g]) /\ ~Prepared(w.rows[o][g]) => v.h.epoch > w.h.epoch
  BY <1>1 DEF Moved
<1>3. w \in Worlds /\ S \subseteq Segments
  BY <1>1 DEF WorldFits, Targets
<1>4. \A g \in S : RowMoves(w.rows[o][g], new[g])
  <2> TAKE g \in S
  <2>1. w.rows[o][g] \in Rows /\ RowFits(w.rows[o][g], g \in fin[o])
    BY <1>3, RowTypes DEF WorldFits, Fit
  <2>2. RowMoves(w.rows[o][g], MovedRow(w.rows[o][g], to[g]))
    BY <1>1, <2>1, MovedMoves
  <2> QED
    BY <2>2
<1> HIDE DEF new
<1>5. \A p \in Owners, g \in Segments :
        v.rows[p][g] = IF p = o /\ g \in S THEN new[g] ELSE w.rows[p][g]
  BY <1>2, <1>3 DEF RowsWith, Worlds
<1>6. \A row : RowMoves(row, row)
  BY DEF RowMoves, FateMoves
<1>7. Planned(w, v, o)
  BY <1>2, <1>4, <1>5, <1>6 DEF Planned
<1> QED
  BY <1>2, <1>7 DEF Steps

(* Two methods of one request in a row.                                    *)
LEMMA StepsTwice ==
    ASSUME NEW w, NEW u, NEW v, NEW fin, WorldFits(w, fin), NEW o \in Owners,
           Steps(w, u, fin, o), Steps(u, v, fin, o)
    PROVE  Steps(w, v, fin, o)
BY PlannedTwice DEF Steps, WorldFits

(***************************************************************************)
(* The invariant of schema 6.                                              *)
(***************************************************************************)
(* A manager nobody holds a lease of yet.                                  *)
EmptyGood(m) ==
    /\ m \in ManagerStates /\ m.lease = <<>>
    /\ m.logical = [s \in Sources |-> 0] /\ m.refs = [r \in Replicas |-> 0]
    /\ m.copies = [r \in Replicas |-> 0] /\ m.execs = [r \in Replicas |-> 0]

(* Such a manager is in order.                                             *)
LEMMA NothingLeased ==
    ASSUME NEW m, EmptyGood(m)
    PROVE  Good(m) /\ NoSuspects(m) /\ DOMAIN m.lease = {}
<1>1. DOMAIN m.lease = {} /\ Live(m) = {}
  BY DEF EmptyGood, Live
<1>2. CountersMatch(m)
  <2>1. /\ \A s \in Sources : LogicalHolders(m, s) = {}
        /\ \A r \in Replicas : /\ Holders(m, r) = {} /\ Copiers(m, r) = {}
                               /\ Executors(m, r) = {}
    BY <1>1 DEF LogicalHolders, Holders, Copiers, Executors
  <2>2. /\ \A s \in Sources : Cardinality(LogicalHolders(m, s)) = 0
        /\ \A r \in Replicas : /\ Cardinality(Holders(m, r)) = 0
                               /\ Cardinality(Copiers(m, r)) = 0
                               /\ Cardinality(Executors(m, r)) = 0
    BY <2>1, FS_EmptySet, Zenon
  <2> QED
    BY <2>2 DEF CountersMatch, EmptyGood
<1> QED
  BY <1>1, <1>2 DEF Good, Shape, LeasesProtect, NoSuspects, EmptyGood

(* Nor is anything of the empty HBM taken.                                 *)
LEMMA EmptyHbmFits ==
    EmptyHbm \in HbmStates /\ ReserveKept(EmptyHbm) /\ DOMAIN EmptyHbm.rows = {}
<1>1. EmptyHbm \in HbmStates /\ DOMAIN EmptyHbm.rows = {}
  BY DEF EmptyHbm, HbmStates
<1>2. Unreleased(EmptyHbm) = {}
  BY <1>1 DEF Unreleased
<1>3. ActiveReservedBytes(EmptyHbm) = SumOver(Bytes(EmptyHbm), {})
  BY <1>1, <1>2, ActiveSum
<1>4. ActiveReservedBytes(EmptyHbm) = 0
  BY <1>3, SumEmpty
<1> QED
  BY <1>1, <1>4, HbmShape DEF ReserveKept

(* The managers as the first request finds them, and its empty records.    *)
LEMMA InitFits == Init => IInv
<1> SUFFICES ASSUME Init PROVE IInv
  OBVIOUS
<1> DEFINE m == StockedManager
<1>1. m \in ManagerStates
  <2> DEFINE source == [s \in Sources |-> "active"]
             life == [r \in Replicas |-> "ready"]
             backing == [r \in Replicas |-> TierOf[r] = "cpu"]
             placement == [r \in Replicas |-> 1]
  <2>1. EmptyManager \in ManagerStates
    BY DEF EmptyManager, NewManager, ManagerStates, SourceStates, ReplicaStates
  <2>2. /\ source \in [Sources -> SourceStates] /\ life \in [Replicas -> ReplicaStates]
        /\ backing \in [Replicas -> BOOLEAN] /\ placement \in [Replicas -> Nat]
    BY DEF SourceStates, ReplicaStates
  <2>3. m = [EmptyManager EXCEPT !.source = source, !.life = life,
                                 !.backing = backing, !.placement = placement]
    BY DEF StockedManager
  <2> HIDE DEF source, life, backing, placement, m
  <2> QED
    BY <2>1, <2>2, <2>3 DEF ManagerStates
<1>2. /\ m.logical = [s \in Sources |-> 0]
      /\ m.refs = [r \in Replicas |-> 0] /\ m.copies = [r \in Replicas |-> 0]
      /\ m.execs = [r \in Replicas |-> 0] /\ m.lease = <<>>
  BY DEF StockedManager, EmptyManager, NewManager
<1> HIDE DEF m
<1>3. Good(m) /\ NoSuspects(m) /\ DOMAIN m.lease = {}
  BY <1>1, <1>2, NothingLeased DEF EmptyGood
<1>6. /\ EmptyHbm \in HbmStates /\ DOMAIN EmptyHbm.rows = {} /\ EmptyHbm.epoch = 1
      /\ ReserveKept(EmptyHbm)
  BY EmptyHbmFits DEF EmptyHbm
<1>8. NewRow \in Rows
  BY DEF NewRow, Rows, Selections, Dispositions, Preparations, Commits, NoId
<1>9. World \in Worlds /\ World.m = m /\ World.h = EmptyHbm
      /\ \A o \in Owners, g \in Segments : World.rows[o][g] = NewRow
  BY <1>1, <1>6, <1>8 DEF Init, World, Worlds, m
<1>10. /\ NewRow.sel = "probing" /\ NewRow.gate2 = "not_evaluated" /\ NewRow.prep = "none"
       /\ NewRow.commit = "uncommitted" /\ NewRow.logical = NoId
       /\ NewRow.physical = NoId /\ NewRow.hbm = NoId
  BY DEF NewRow
<1>11. \A o \in Owners, g \in Segments : g \notin finished[o]
  BY DEF Init
<1>12. ASSUME NEW o \in Owners, NEW g \in Segments
       PROVE  Fit(NewRow, m.lease, EmptyHbm.rows, o, g, g \in finished[o])
  BY <1>3, <1>6, <1>10, <1>11 DEF Fit, RowFits, Leased, Reserved
<1>13. WorldFits(World, finished)
  BY <1>3, <1>6, <1>9, <1>12 DEF WorldFits
<1>14. /\ finished \in [Owners -> SUBSET Segments] /\ plans \in [Owners -> SUBSET Plans]
       /\ \A o \in Owners : plans[o] = {}
  BY DEF Init
<1> QED
  BY <1>13, <1>14 DEF IInv

(* What a step does to the whole: the world still fits, what is resolved   *)
(* stays so, and the epoch tells whether a segment was prepared for        *)
(* execution.                                                              *)
Advances(w, v) ==
    /\ v.h.epoch >= w.h.epoch
    /\ \A p \in Owners, g \in Segments :
         /\ Prepared(v.rows[p][g]) /\ ~Prepared(w.rows[p][g]) => v.h.epoch > w.h.epoch
         /\ Resolved(w.rows[p][g]) => /\ v.rows[p][g].sel = w.rows[p][g].sel
                                      /\ v.rows[p][g].depth = w.rows[p][g].depth

PlansKept ==
    plans' \in [Owners -> SUBSET Plans] /\ \A o \in Owners : plans'[o] \subseteq plans[o]

Progress ==
    /\ WorldFits(World', finished') /\ finished' \in [Owners -> SUBSET Segments]
    /\ Advances(World, World') /\ PlansKept

(* Decisions are never changed: they stay, or the one applied is dropped.  *)
LEMMA PlansStay ==
    ASSUME IInv, plans' = plans
    PROVE  PlansKept
BY DEF IInv, PlansKept

(* Using up a plan of one owner leaves every other plan in place. *)
LEMMA PlanDropped ==
    ASSUME IInv, NEW o \in Owners, NEW p, plans' = [plans EXCEPT ![o] = @ \ {p}]
    PROVE  PlansKept
<1>1. plans \in [Owners -> SUBSET Plans]
  BY DEF IInv
<1>2. \A q \in Owners : plans'[q] = IF q = o THEN plans[o] \ {p} ELSE plans[q]
  BY <1>1
<1> QED
  BY <1>1, <1>2 DEF PlansKept

(* A planned step never takes a row back. *)
LEMMA PlannedAdvances ==
    ASSUME NEW w, NEW v, NEW o, Planned(w, v, o)
    PROVE  Advances(w, v)
BY DEF Planned, Advances, RowMoves

(* The world after a step that becomes a well-formed world is that world. *)
LEMMA BecomesIs ==
    ASSUME NEW v, NEW fin, WorldFits(v, fin), Becomes(v)
    PROVE  World' = v
<1>1. v = [rows |-> v.rows, m |-> v.m, h |-> v.h]
  BY DEF WorldFits, Worlds
<1> QED
  BY <1>1 DEF World, Becomes

(* A method of a request, or several of one handler.                       *)
LEMMA MethodProgress ==
    ASSUME IInv, NEW v, NEW o, Steps(World, v, finished, o), Becomes(v),
           UNCHANGED finished, PlansKept
    PROVE  Progress /\ Planned(World, World', o)
<1>1. World' = v
  BY BecomesIs DEF Steps
<1> QED
  BY <1>1, PlannedAdvances DEF Steps, Progress, IInv

(* Progress keeps the invariant: a decision that is still current after it *)
(* was current before it, and closes nothing prepared in between.          *)
LEMMA ProgressKeeps ==
    ASSUME IInv, Progress
    PROVE  IInv'
<1>1. World.h = hbm /\ World'.h = hbm' /\ World.rows = rows /\ World'.rows = rows'
  BY DEF World
<1>2. hbm.epoch \in Nat /\ hbm'.epoch \in Nat
  BY <1>1 DEF IInv, Progress, WorldFits, Worlds, HbmStates
<1>3. hbm'.epoch >= hbm.epoch
  BY <1>1 DEF Progress, Advances
<1>4. \A o \in Owners, g \in Segments :
        Prepared(rows'[o][g]) /\ ~Prepared(rows[o][g]) => hbm'.epoch > hbm.epoch
  BY <1>1 DEF Progress, Advances
<1>5. ASSUME NEW o \in Owners, NEW p \in plans'[o] PROVE PlanFits(o, p)'
  <2>1. PlanFits(o, p)
    BY <1>5 DEF Progress, PlansKept, IInv
  <2>2. p \in Plans /\ p.epoch <= hbm.epoch
    BY <2>1 DEF PlanFits
  <2>3. p.epoch \in Nat
    BY <2>2 DEF Plans
  <2>4. p.epoch <= hbm'.epoch
    BY <1>2, <1>3, <2>2, <2>3
  <2>5. Current(p)' => Current(p) /\ hbm'.epoch = hbm.epoch
    BY <1>2, <1>3, <2>2, <2>3 DEF Current
  <2>6. p.kind = "gate2" => DOMAIN p.to \subseteq Segments
    BY <2>2 DEF Plans
  <2>7. ASSUME p.kind = "gate2", NEW g \in DOMAIN p.to
        PROVE  /\ p.to[g] # "not_evaluated"
               /\ Current(p)' /\ p.to[g] = "predicted_dense" => ~Prepared(rows'[o][g])
    <3>1. g \in Segments
      BY <2>6, <2>7
    <3>2. p.to[g] # "not_evaluated"
          /\ (Current(p) /\ p.to[g] = "predicted_dense" => ~Prepared(rows[o][g]))
      BY <2>1, <2>7 DEF PlanFits
    <3>3. hbm'.epoch = hbm.epoch => ~(hbm'.epoch > hbm.epoch)
      BY <1>2
    <3> QED
      BY <1>4, <2>5, <3>1, <3>2, <3>3
  <2>8. p.kind = "gate3" => p.accepted \cap p.rejected = {}
    BY <2>1 DEF PlanFits
  <2> QED
    BY <2>2, <2>4, <2>7, <2>8 DEF PlanFits
<1>6. plans' \in [Owners -> SUBSET Plans]
  BY DEF Progress, PlansKept
<1> QED
  BY <1>5, <1>6 DEF Progress, IInv

(***************************************************************************)
(* The handlers of schema 6, one lemma each.                               *)
(***************************************************************************)
LEMMA WorldParts ==
    ASSUME IInv
    PROVE  /\ World.rows = rows /\ World.m = mgr /\ World.h = hbm
           /\ WorldFits(World, finished) /\ World \in Worlds /\ hbm \in HbmStates
           /\ finished \in [Owners -> SUBSET Segments]
BY DEF World, IInv, WorldFits, Worlds

(* The probing's decision is a planned step of its owner. *)
LEMMA DecideProgress ==
    ASSUME IInv, NEW o \in Owners, NEW g \in Segments, NEW s \in Sources,
           NEW depth \in Depths, Decide(o, g, s, depth)
    PROVE  Progress /\ Planned(World, World', o)
<1>1. depth \in Nat
  BY RequestShape
<1> DEFINE v == DecisionReady(World, o, g, s, depth)
<1>2. Steps(World, v, finished, o)
  BY <1>1, DecideSteps, WorldParts DEF Decide
<1> QED
  BY <1>2, MethodProgress, PlansStay DEF Decide

(* An admitted Gate 1 is a planned step of its owner. *)
LEMMA Gate1PassProgress ==
    ASSUME IInv, NEW o \in Owners, NEW g \in Segments, Gate1Pass(o, g)
    PROVE  Progress /\ Planned(World, World', o)
<1>1. Steps(World, Gate1Passed(World, o, g), finished, o)
  BY Gate1PassSteps, WorldParts DEF Gate1Pass
<1> QED
  BY <1>1, MethodProgress, PlansStay DEF Gate1Pass

(* A failed Gate 1 is a planned step of its owner. *)
LEMMA Gate1FailProgress ==
    ASSUME IInv, NEW o \in Owners, NEW g \in Segments, NEW atLmax \in BOOLEAN,
           Gate1Fail(o, g, atLmax)
    PROVE  Progress /\ Planned(World, World', o)
<1>1. Steps(World, Gate1Failed(World, o, g, atLmax), finished, o)
  BY Gate1FailSteps, WorldParts DEF Gate1Fail
<1> QED
  BY <1>1, MethodProgress, PlansStay DEF Gate1Fail

(* An abstention is a planned step of its owner. *)
LEMMA AbstainProgress ==
    ASSUME IInv, NEW o \in Owners, NEW g \in Segments, Abstain(o, g)
    PROVE  Progress /\ Planned(World, World', o)
<1>1. Steps(World, AbstainRow(World, o, g), finished, o)
  BY AbstainSteps, WorldParts DEF Abstain
<1> QED
  BY <1>1, MethodProgress, PlansStay DEF Abstain

(* Marking the winner ready is a planned step of its owner. *)
LEMMA WinnerReadyProgress ==
    ASSUME IInv, NEW o \in Owners, NEW g \in Segments, WinnerReady(o, g)
    PROVE  Progress /\ Planned(World, World', o)
<1>1. Steps(World, MarkWinnerReady(World, o, g), finished, o)
  BY ReadySteps, WorldParts DEF WinnerReady
<1> QED
  BY <1>1, MethodProgress, PlansStay DEF WinnerReady

(* A realized overrun is a planned step of its owner. *)
LEMMA OverrunProgress ==
    ASSUME IInv, NEW o \in Owners, NEW g \in Segments, RealizedOverrun(o, g)
    PROVE  Progress /\ Planned(World, World', o)
<1>1. Steps(World, RecordOverrun(World, o, g), finished, o)
  BY OverrunSteps, WorldParts
<1> QED
  BY <1>1, MethodProgress, PlansStay DEF RealizedOverrun

(* Beginning the winner's prefetch is a planned step of its owner. *)
LEMMA PrefetchProgress ==
    ASSUME IInv, NEW o \in Owners, NEW g \in Segments, NEW r \in Replicas,
           NEW admitted \in BOOLEAN, BeginWinnerPrefetch(o, g, r, admitted)
    PROVE  Progress /\ Planned(World, World', o)
<1>1. World.rows[o][g].commit = "uncommitted"
  BY WorldParts DEF BeginWinnerPrefetch, Wanted
<1>2. Steps(World, BeginPrefetch(World, o, g, r, admitted), finished, o)
  BY <1>1, PrefetchSteps, WorldParts DEF BeginWinnerPrefetch
<1> QED
  BY <1>2, MethodProgress, PlansStay DEF BeginWinnerPrefetch

(* A Gate-2 decision is applied at the epoch it was made for: what it      *)
(* closes has not been prepared for execution since.                       *)
LEMMA PlanTargets ==
    ASSUME IInv, NEW o \in Owners, NEW p \in plans[o], p.kind = "gate2", Current(p)
    PROVE  Targets(World, o, p.to)
<1>1. PlanFits(o, p)
  BY DEF IInv
<1>2. \E D \in SUBSET Segments : p.to \in [D -> Dispositions]
  BY <1>1 DEF PlanFits, Plans
<1>3. \A g \in DOMAIN p.to : p.to[g] # "not_evaluated" /\ p.to[g] \in Dispositions
                             /\ (p.to[g] = "predicted_dense" => ~Prepared(rows[o][g]))
  BY <1>1, <1>2 DEF PlanFits
<1> QED
  BY <1>2, <1>3, WorldParts DEF Targets, Dispositions

(* Applying a Gate-2 plan is a planned step of its owner. *)
LEMMA Gate2Progress ==
    ASSUME IInv, NEW o \in Owners, NEW p \in plans[o], ApplyGate2(o, p)
    PROVE  Progress /\ Planned(World, World', o)
<1>1. Targets(World, o, p.to)
  BY PlanTargets DEF ApplyGate2
<1>2. PICK w \in Gate2Applied(World, o, p.to) : Becomes(w)
  BY DEF ApplyGate2
<1>3. Steps(World, w, finished, o)
  BY <1>1, Gate2Steps, WorldParts
<1>4. PlansKept
  BY PlanDropped DEF ApplyGate2
<1> QED
  BY <1>2, <1>3, <1>4, MethodProgress DEF ApplyGate2

(* complete_reuse_execution, and what happens outside the records: no row  *)
(* changes.                                                                *)
RowsStay == rows' = rows /\ Progress

(* A step that writes no row takes no row back. *)
LEMMA SameRowsAdvance ==
    ASSUME NEW w, NEW v, v.rows = w.rows, v.h.epoch >= w.h.epoch
    PROVE  Advances(w, v)
BY DEF Advances

(* Completing a reuse execution writes no row. *)
LEMMA CompleteProgress ==
    ASSUME IInv, NEW o \in Owners, NEW g \in Segments, CompleteReuseExecution(o, g)
    PROVE  RowsStay
<1> DEFINE v == CompleteReuse(World, o, g)
<1>1. /\ WorldFits(v, [finished EXCEPT ![o] = @ \cup {g}])
      /\ v.rows = World.rows /\ v.h.epoch >= World.h.epoch
  BY CompleteFits, WorldParts DEF CompleteReuseExecution
<1>2. WorldFits(v, finished') /\ Becomes(v) /\ plans' = plans
  BY <1>1 DEF CompleteReuseExecution
<1>3. World' = v
  BY <1>2, BecomesIs
<1>4. finished' \in [Owners -> SUBSET Segments]
  BY WorldParts DEF CompleteReuseExecution
<1>5. rows' = rows
  BY <1>1, <1>2, WorldParts DEF Becomes
<1> HIDE DEF v
<1> QED
  BY <1>1, <1>2, <1>3, <1>4, <1>5, SameRowsAdvance, PlansStay DEF RowsStay, Progress

(* A call that leaves manager m and reservations h.                        *)
LEMMA ManagersProgress ==
    ASSUME IInv, NEW m, NEW h, WorldFits(At(rows, m, h), finished), h.epoch >= hbm.epoch,
           rows' = rows, mgr' = m, hbm' = h, UNCHANGED <<plans, finished>>
    PROVE  RowsStay
<1>1. World' = At(rows, m, h) /\ World'.rows = rows /\ World'.h = h
  BY DEF World, At
<1> QED
  BY <1>1, SameRowsAdvance, PlansStay, WorldParts DEF RowsStay, Progress

(* Acquiring comparison workspace writes no row. *)
LEMMA WorkspaceProgress ==
    ASSUME IInv, NEW o \in Owners, NEW g \in Segments, NEW k \in 1..MaxCompared,
           AcquireWorkspace(o, g, k)
    PROVE  RowsStay
<1> DEFINE n == Microbatch(hbm, k, 1, 1)
<1>1. n \in Nat
  <2>1. SafeHeadroom(hbm) \in Nat /\ k \in Nat
    <3>1. IsFiniteSet(Unreleased(hbm)) /\ \A i \in Unreleased(hbm) : hbm.rows[i].bytes \in Nat
      BY WorldParts, HbmTypes
    <3>2. ActiveReservedBytes(hbm) \in Int
      BY <3>1, WorldParts, ActiveSum
    <3> QED
      BY <3>2, HbmShape DEF SafeHeadroom, AllocatorFreeReservableBytes, NonNegative
  <2> QED
    BY <2>1 DEF Microbatch
<1> DEFINE h == Reserve(hbm, o, g, 1 + n, "workspace")
           bytes == 1 + n
<1>2. bytes \in Nat /\ CanReserve(hbm, bytes)
  BY <1>1 DEF AcquireWorkspace
<1> HIDE DEF n
<1>3. WorldFits(At(rows, mgr, h), finished) /\ h.epoch >= hbm.epoch
  BY <1>2, WorkspaceFits, WorldParts
<1> QED
  BY <1>3, ManagersProgress DEF AcquireWorkspace, n

(* Releasing comparison workspace writes no row. *)
LEMMA WorkspaceEndProgress ==
    ASSUME IInv, NEW i \in DOMAIN hbm.rows, ReleaseWorkspace(i)
    PROVE  RowsStay
<1> DEFINE h == ReleaseReservation(hbm, i)
<1>1. WorldFits(At(rows, mgr, h), finished) /\ h.epoch >= hbm.epoch
  BY WorkspaceEnds, WorldParts DEF ReleaseWorkspace
<1> QED
  BY <1>1, ManagersProgress DEF ReleaseWorkspace

(* Evicting an idle replica writes no row. *)
LEMMA EvictProgress ==
    ASSUME IInv, NEW r \in Replicas, EvictIdleReplica(r)
    PROVE  RowsStay
<1> DEFINE m == EvictReplica(mgr, r)
<1>1. WorldFits(At(rows, m, hbm), finished) /\ hbm.epoch >= hbm.epoch
  BY EvictFits, WorldParts DEF EvictIdleReplica, HbmStates
<1> QED
  BY <1>1, ManagersProgress DEF EvictIdleReplica

(* apply_gate3_subset, of segments that are ready to commit.               *)
Refined(o, accepted, rejected) ==
    /\ accepted \subseteq Segments /\ rejected \subseteq Segments
    /\ accepted \cap rejected = {}
    /\ \A g \in accepted \cup rejected : ReadyToCommit(rows[o][g])
    /\ \A p \in Owners, g \in Segments :
         rows'[p][g] = IF p = o /\ g \in accepted THEN AcceptedRow(rows[p][g])
                       ELSE IF p = o /\ g \in rejected THEN RejectedRow(rows[p][g])
                       ELSE rows[p][g]

(* An accepted row is committed to reuse and keeps its winner. *)
LEMMA AcceptedRowIs ==
    ASSUME NEW row \in Rows
    PROVE  LET new == AcceptedRow(row)
           IN  /\ new.sel = row.sel /\ new.depth = row.depth /\ new.gate2 = row.gate2
               /\ new.prep = row.prep /\ new.commit = "reuse_commit"
BY DEF Rows, AcceptedRow

(* A rejected row is committed dense and holds nothing. *)
LEMMA RejectedRowIs ==
    ASSUME NEW row \in Rows
    PROVE  LET new == RejectedRow(row)
           IN  /\ new.sel = row.sel /\ new.depth = row.depth /\ new.gate2 = row.gate2
               /\ new.prep = "none" /\ new.commit = "refined_dense"
BY DEF Rows, RejectedRow, Cleared

(* A Gate-3 plan whose segments are all ready commits exactly these and takes no row
   back. *)
LEMMA Gate3Progress ==
    ASSUME IInv, NEW o \in Owners, NEW p \in plans[o], p.kind = "gate3",
           \A g \in p.accepted \cup p.rejected : ReadyToCommit(rows[o][g]),
           Becomes(Gate3Applied(World, o, p.accepted, p.rejected)),
           plans' = [plans EXCEPT ![o] = @ \ {p}], UNCHANGED finished
    PROVE  Progress /\ Refined(o, p.accepted, p.rejected)
<1> DEFINE a == p.accepted
           b == p.rejected
           v == Gate3Applied(World, o, a, b)
<1>1. PlanFits(o, p)
  BY DEF IInv
<1>2. a \in SUBSET Segments /\ b \in SUBSET Segments /\ a \cap b = {}
  BY <1>1 DEF PlanFits, Plans
<1>3. /\ WorldFits(v, finished) /\ v.h.epoch >= World.h.epoch
      /\ \A q \in Owners, g \in Segments :
           v.rows[q][g] = IF q = o /\ g \in a THEN AcceptedRow(rows[q][g])
                          ELSE IF q = o /\ g \in b THEN RejectedRow(rows[q][g])
                          ELSE rows[q][g]
  <2>1. /\ World.rows = rows /\ WorldFits(World, finished)
        /\ \A g \in a \cup b : ReadyToCommit(World.rows[o][g])
    BY WorldParts
  <2> HIDE DEF a, b
  <2>2. /\ WorldFits(v, finished) /\ v.h.epoch >= World.h.epoch
        /\ \A q \in Owners, g \in Segments :
             v.rows[q][g] = IF q = o /\ g \in a THEN AcceptedRow(World.rows[q][g])
                            ELSE IF q = o /\ g \in b THEN RejectedRow(World.rows[q][g])
                            ELSE World.rows[q][g]
    BY <1>2, <2>1, Gate3Fits, SMTT(30)
  <2> HIDE DEF v
  <2> QED
    BY <2>1, <2>2
<1>4. World' = v /\ rows' = v.rows
  BY <1>3, BecomesIs DEF Becomes
<1> HIDE DEF v
<1>5. Refined(o, a, b)
  BY <1>2, <1>3, <1>4 DEF Refined
<1>6. \A q \in Owners, g \in Segments :
        /\ v.rows[q][g].sel = rows[q][g].sel /\ v.rows[q][g].depth = rows[q][g].depth
        /\ v.rows[q][g].gate2 = rows[q][g].gate2
        /\ v.rows[q][g].prep \in {rows[q][g].prep, "none"}
  <2> TAKE q \in Owners, g \in Segments
  <2>1. rows[q][g] \in Rows
    BY WorldParts, RowTypes
  <2>2. v.rows[q][g] \in {rows[q][g], AcceptedRow(rows[q][g]), RejectedRow(rows[q][g])}
    BY <1>3
  <2> QED
    BY <2>1, <2>2, AcceptedRowIs, RejectedRowIs
<1>7. Advances(World, v)
  BY <1>3, <1>6, WorldParts DEF Advances, Prepared
<1>8. PlansKept
  BY PlanDropped
<1> QED
  BY <1>3, <1>4, <1>5, <1>7, <1>8, WorldParts DEF Progress

(* apply_gate3 commits exactly the segments of its plan, the accepted to reuse and the
   others dense. *)
LEMMA ApplyGate3Progress ==
    ASSUME IInv, NEW o \in Owners, NEW p \in plans[o], ApplyGate3(o, p)
    PROVE  /\ Progress /\ Refined(o, p.accepted, p.rejected)
           /\ \A g \in p.accepted : Gate3Eligible(o, g)
<1>1. \A g \in p.accepted \cup p.rejected : Gate3Eligible(o, g) /\ ReadyToCommit(rows[o][g])
  BY DEF ApplyGate3, Gate3Eligible
<1> QED
  BY <1>1, Gate3Progress DEF ApplyGate3

(* A decision is kept for later.                                           *)
LEMMA KeepKeeps ==
    ASSUME IInv, NEW o \in Owners, NEW p, PlanFits(o, p), Keep(o, p)
    PROVE  IInv' /\ UNCHANGED <<rows, mgr, hbm, finished>>
<1>1. UNCHANGED <<rows, mgr, hbm, finished>>
      /\ \E kept \in SUBSET plans[o] : plans' = [plans EXCEPT ![o] = kept \cup {p}]
  BY DEF Keep
<1>2. \A q \in Owners : \A x \in plans'[q] : x \in plans[q] \/ (q = o /\ x = p)
  BY <1>1
<1>3. \A q \in Owners : \A x \in plans'[q] : PlanFits(q, x)
  BY <1>2 DEF IInv
<1>4. \A q \in Owners : \A x \in plans'[q] : PlanFits(q, x)'
  BY <1>1, <1>3 DEF PlanFits, Current
<1>5. World' = World
  BY <1>1 DEF World
<1>6. plans' \in [Owners -> SUBSET Plans]
  <2>1. plans \in [Owners -> SUBSET Plans] /\ p \in Plans
    BY DEF IInv, PlanFits
  <2> QED
    BY <1>1, <2>1
<1> QED
  BY <1>1, <1>4, <1>5, <1>6 DEF IInv

(* plan_incremental closes only what is not prepared for execution.        *)
LEMMA PlanIncrementalKeeps ==
    ASSUME IInv, NEW o \in Owners, PlanIncremental(o)
    PROVE  IInv' /\ UNCHANGED <<rows, mgr, hbm, finished>>
<1> DEFINE down == IF SelectionClosed(o) THEN "predicted_dense" ELSE "deferred"
           D == Provisional(o) \cup PredictedDense(o) \cup Undecided(o)
           To(a) == [g \in D |-> CASE g \in Provisional(o) \cup a -> "provisional_reuse"
                                   [] g \in PredictedDense(o) -> "predicted_dense"
                                   [] OTHER -> down]
           P(a) == [kind |-> "gate2", epoch |-> hbm.epoch, to |-> To(a)]
<1>1. PICK a \in SUBSET Undecided(o) : Keep(o, P(a))
  BY DEF PlanIncremental
<1>2. hbm.epoch \in Nat
  BY WorldParts DEF HbmStates
<1>3. D \in SUBSET Segments
  BY DEF Provisional, PredictedDense, Undecided
<1>4. ASSUME NEW g \in D
      PROVE  /\ To(a)[g] \in Dispositions /\ To(a)[g] # "not_evaluated"
             /\ To(a)[g] = "predicted_dense" => ~Prepared(rows[o][g])
  <2> DEFINE to == To(a)
  <2>1. /\ g \in Provisional(o) => rows[o][g].gate2 = "provisional_reuse"
        /\ g \in PredictedDense(o) => rows[o][g].gate2 = "predicted_dense"
        /\ g \in Undecided(o) => rows[o][g].gate2 \in {"not_evaluated", "deferred"}
    BY DEF Provisional, PredictedDense, Undecided
  <2>2. CASE g \in Provisional(o) \cup a
    <3>1. g \notin PredictedDense(o)
      BY <2>1, <2>2
    <3>2. to[g] = "provisional_reuse"
      BY <2>2, <3>1
    <3> HIDE DEF to
    <3> QED
      BY <3>2 DEF Dispositions, to
  <2>3. CASE g \notin Provisional(o) \cup a /\ g \in PredictedDense(o)
    <3>1. to[g] = "predicted_dense"
      BY <2>3
    <3> HIDE DEF to
    <3> QED
      BY <2>1, <2>3, <3>1 DEF Dispositions, to, Prepared
  <2>4. CASE g \notin Provisional(o) \cup a /\ g \notin PredictedDense(o)
    <3>1. to[g] = down
      BY <2>4
    <3>2. down \in {"predicted_dense", "deferred"}
      OBVIOUS
    <3>3. ~Prepared(rows[o][g])
      BY <2>1, <2>4 DEF Prepared
    <3> HIDE DEF to, down
    <3> QED
      BY <3>1, <3>2, <3>3 DEF Dispositions, to
  <2> QED
    BY <2>2, <2>3, <2>4
<1>5. To(a) \in [D -> Dispositions]
  <2> HIDE DEF D
  <2>1. \A g \in D : To(a)[g] \in Dispositions
    BY <1>4
  <2> QED
    BY <2>1
<1>6. P(a) \in Plans /\ P(a).epoch = hbm.epoch /\ P(a).kind = "gate2" /\ P(a).to = To(a)
      /\ DOMAIN P(a).to = D
  <2> HIDE DEF D
  <2> DEFINE t == To(a)
  <2>1. t \in UNION {[E -> Dispositions] : E \in SUBSET Segments}
    BY <1>3, <1>5
  <2>2. DOMAIN t = D
    OBVIOUS
  <2>3. P(a) = [kind |-> "gate2", epoch |-> hbm.epoch, to |-> t]
    OBVIOUS
  <2> HIDE DEF t, P
  <2>4. P(a) \in [kind : {"gate2"}, epoch : Nat,
                  to : UNION {[E -> Dispositions] : E \in SUBSET Segments}]
    BY <1>2, <2>1, <2>3
  <2>5. P(a) \in Plans
    BY <2>4 DEF Plans
  <2>6. P(a).epoch = hbm.epoch /\ P(a).kind = "gate2" /\ P(a).to = t /\ DOMAIN P(a).to = D
    BY <2>2, <2>3
  <2> QED
    BY <2>5, <2>6 DEF t
<1>7. PlanFits(o, P(a))
  <2> DEFINE p == P(a)
             t == To(a)
  <2>1. \A g \in D : t[g] # "not_evaluated" /\ (t[g] = "predicted_dense" => ~Prepared(rows[o][g]))
    BY <1>4
  <2>2. p \in Plans /\ p.epoch = hbm.epoch /\ p.kind = "gate2" /\ p.to = t /\ DOMAIN p.to = D
    BY <1>6
  <2> HIDE DEF p, t, D
  <2> QED
    BY <1>2, <2>1, <2>2 DEF PlanFits, p
<1> HIDE DEF P
<1> QED
  BY <1>1, <1>7, KeepKeeps

(* plan_subset.                                                            *)
LEMMA Gate3PlanFits ==
    ASSUME IInv, NEW o \in Owners, NEW E \in SUBSET Segments, NEW a \in SUBSET E
    PROVE  PlanFits(o, [kind |-> "gate3", epoch |-> hbm.epoch,
                        accepted |-> a, rejected |-> E \ a])
<1>1. hbm.epoch \in Nat
  BY WorldParts DEF HbmStates
<1> QED
  BY <1>1 DEF PlanFits, Plans

(* Making the plan of a subset of the segments changes nothing but the plans of its
   owner. *)
LEMMA PlanSubsetKeeps ==
    ASSUME IInv, NEW o \in Owners, PlanSubset(o)
    PROVE  IInv' /\ UNCHANGED <<rows, mgr, hbm, finished>>
<1> DEFINE E == {g \in Segments : Gate3Eligible(o, g)}
<1>1. PICK a \in SUBSET E :
        Keep(o, [kind |-> "gate3", epoch |-> hbm.epoch, accepted |-> a, rejected |-> E \ a])
  BY DEF PlanSubset
<1> HIDE DEF E
<1>2. E \in SUBSET Segments
  BY DEF E
<1> QED
  BY <1>1, <1>2, Gate3PlanFits, KeepKeeps

(* A step of schema 6: a request moves its rows along, a Gate-3 decision   *)
(* is applied to eligible segments, or no row changes.                     *)
Gate3Move(o) ==
    \E a, b \in SUBSET Segments : Refined(o, a, b) /\ \A g \in a : Gate3Eligible(o, g)

Moves ==
    \/ rows' = rows
    \/ \E o \in Owners : Planned(World, World', o) \/ Gate3Move(o)

(* Every step of the controllers keeps the invariant and moves each row along the chain
   of its lifecycle. *)
LEMMA NextMoves ==
    ASSUME IInv, Next
    PROVE  /\ IInv' /\ Moves
           /\ Progress \/ UNCHANGED <<rows, mgr, hbm, finished>>
<1> DEFINE Goal == /\ IInv' /\ Moves
                   /\ Progress \/ UNCHANGED <<rows, mgr, hbm, finished>>
<1>1. ASSUME NEW o \in Owners, Progress, Planned(World, World', o) PROVE Goal
  BY <1>1, ProgressKeeps DEF Moves
<1>2. ASSUME RowsStay PROVE Goal
  BY <1>2, ProgressKeeps DEF Moves, RowsStay
<1>3. ASSUME IInv' /\ UNCHANGED <<rows, mgr, hbm, finished>> PROVE Goal
  BY <1>3 DEF Moves
<1>4. CASE SelectionStep
  <2>1. PICK o \in Owners, g \in Segments :
          \/ \E s \in Sources, depth \in Depths : Decide(o, g, s, depth)
          \/ Gate1Pass(o, g)
          \/ \E atLmax \in BOOLEAN : Gate1Fail(o, g, atLmax)
          \/ Abstain(o, g)
          \/ \E k \in 1..MaxCompared : AcquireWorkspace(o, g, k)
    BY <1>4 DEF SelectionStep
  <2> HIDE DEF Goal
  <2>2. ASSUME \/ \E s \in Sources, depth \in Depths : Decide(o, g, s, depth)
               \/ Gate1Pass(o, g)
        PROVE  Goal
    BY <1>1, <2>2, DecideProgress, Gate1PassProgress
  <2>3. ASSUME \/ \E atLmax \in BOOLEAN : Gate1Fail(o, g, atLmax)
               \/ Abstain(o, g)
        PROVE  Goal
    BY <1>1, <2>3, Gate1FailProgress, AbstainProgress
  <2>4. ASSUME NEW k \in 1..MaxCompared, AcquireWorkspace(o, g, k) PROVE Goal
    BY <1>2, <2>4, WorkspaceProgress
  <2> QED
    BY <2>1, <2>2, <2>3, <2>4 DEF Goal
<1>5. CASE PlannerStep
  <2>1. PICK o \in Owners :
          \/ PlanIncremental(o)
          \/ PlanSubset(o)
          \/ \E p \in plans[o] : ApplyGate2(o, p) \/ ApplyGate3(o, p)
    BY <1>5 DEF PlannerStep
  <2>2. CASE PlanIncremental(o) \/ PlanSubset(o)
    BY <1>3, <2>2, PlanIncrementalKeeps, PlanSubsetKeeps
  <2>3. ASSUME NEW p \in plans[o], ApplyGate2(o, p) PROVE Goal
    BY <1>1, <2>3, Gate2Progress
  <2>4. ASSUME NEW p \in plans[o], ApplyGate3(o, p) PROVE Goal
    <3>1. /\ Progress /\ Refined(o, p.accepted, p.rejected)
          /\ \A g \in p.accepted : Gate3Eligible(o, g)
      BY <2>4, ApplyGate3Progress
    <3>2. Gate3Move(o)
      BY <3>1 DEF Gate3Move, Refined
    <3> QED
      BY <3>1, <3>2, ProgressKeeps DEF Moves
  <2> QED
    BY <2>1, <2>2, <2>3, <2>4
<1>6. CASE PreparationStep
  <2>1. PICK o \in Owners, g \in Segments :
          \/ \E r \in Replicas, admitted \in BOOLEAN : BeginWinnerPrefetch(o, g, r, admitted)
          \/ WinnerReady(o, g)
          \/ RealizedOverrun(o, g)
          \/ CompleteReuseExecution(o, g)
    BY <1>6 DEF PreparationStep
  <2> HIDE DEF Goal
  <2>2. ASSUME NEW r \in Replicas, NEW admitted \in BOOLEAN,
               BeginWinnerPrefetch(o, g, r, admitted)
        PROVE  Goal
    BY <1>1, <2>2, PrefetchProgress
  <2>3. ASSUME WinnerReady(o, g) \/ RealizedOverrun(o, g) PROVE Goal
    BY <1>1, <2>3, WinnerReadyProgress, OverrunProgress
  <2>4. ASSUME CompleteReuseExecution(o, g) PROVE Goal
    BY <1>2, <2>4, CompleteProgress
  <2> QED
    BY <2>1, <2>2, <2>3, <2>4 DEF Goal
<1>7. CASE \E i \in DOMAIN hbm.rows : ReleaseWorkspace(i)
  BY <1>2, <1>7, WorkspaceEndProgress
<1>8. CASE \E r \in Replicas : EvictIdleReplica(r)
  BY <1>2, <1>8, EvictProgress
<1> QED
  BY <1>4, <1>5, <1>6, <1>7, <1>8 DEF Next

(***************************************************************************)
(* What the invariant says of the properties.                              *)
(***************************************************************************)
LEMMA IInvTypeOK == IInv => TypeOK
<1> SUFFICES ASSUME IInv PROVE TypeOK
  OBVIOUS
<1>1. rows \in [Owners -> [Segments -> Rows]] /\ mgr \in ManagerStates
  BY WorldParts DEF Worlds
<1>2. hbm.epoch \in Nat /\ \A i \in DOMAIN hbm.rows : hbm.rows[i] \in HbmRecords
  BY WorldParts, HbmTypes
<1>3. \A o \in Owners : \A p \in plans[o] : p \in Plans
  BY DEF IInv, PlanFits
<1> QED
  BY <1>1, <1>2, <1>3, WorldParts DEF TypeOK, HbmRecords

(* A row of a state that satisfies the invariant is a row and fits the manager and the
   HBM. *)
LEMMA RowFacts ==
    ASSUME IInv, NEW o \in Owners, NEW g \in Segments
    PROVE  /\ rows[o][g] \in Rows
           /\ RowFits(rows[o][g], g \in finished[o])
           /\ Leased(rows[o][g], mgr.lease, o, g, g \in finished[o])
           /\ Reserved(rows[o][g], hbm.rows, o, g, g \in finished[o])
BY WorldParts, RowTypes DEF WorldFits, Fit

(* The invariant implies that a preparation is owned. *)
LEMMA IInvOwned == IInv => PreparationOwned
<1> SUFFICES ASSUME IInv, NEW o \in Owners, NEW g \in Segments,
                    rows[o][g].prep # "none", g \notin finished[o]
             PROVE  /\ HoldsLease(o, g, rows[o][g].logical, "logical")
                    /\ \/ /\ rows[o][g].gate2 = "deferred"
                          /\ HoldsLease(o, g, rows[o][g].physical, "speculative")
                          /\ HoldsHbm(o, g, rows[o][g].hbm, "prefetch")
                       \/ /\ rows[o][g].gate2 = "provisional_reuse"
                          /\ HoldsLease(o, g, rows[o][g].physical, "execution")
                          /\ HoldsHbm(o, g, rows[o][g].hbm, "execution")
  BY DEF PreparationOwned
<1> DEFINE row == rows[o][g]
           T == mgr.lease
           R == hbm.rows
<1>1. /\ RowFits(row, g \in finished[o]) /\ Leased(row, T, o, g, g \in finished[o])
      /\ Reserved(row, R, o, g, g \in finished[o])
  BY RowFacts
<1>2. row.sel = "source_frozen" /\ ~Dense(row) /\ row.gate2 \in {"deferred", "provisional_reuse"}
  BY <1>1 DEF RowFits, Dense
<1>3. /\ row.logical \in DOMAIN T /\ T[row.logical].state # "released"
      /\ T[row.logical].owner = o /\ T[row.logical].segment = g
      /\ T[row.logical].source = row.source /\ T[row.logical].purpose = "logical"
  BY <1>1, <1>2 DEF Leased
<1>4. /\ row.physical \in DOMAIN T /\ T[row.physical].state # "released"
      /\ T[row.physical].owner = o /\ T[row.physical].segment = g
      /\ T[row.physical].source = row.source
      /\ T[row.physical].purpose = IF row.gate2 = "deferred" THEN "speculative" ELSE "execution"
  BY <1>1 DEF Leased
<1>5. /\ row.hbm \in DOMAIN R /\ ~R[row.hbm].released
      /\ R[row.hbm].owner = o /\ R[row.hbm].segment = g
      /\ R[row.hbm].kind = IF row.gate2 = "deferred" THEN "prefetch" ELSE "execution"
  BY <1>1 DEF Reserved
<1> QED
  BY <1>2, <1>3, <1>4, <1>5 DEF HoldsLease, HoldsHbm, Live, Unreleased

(* The invariant implies that what two requests hold is accounted for. *)
LEMMA IInvHolds == IInv => TwoRequestsHold
<1> SUFFICES ASSUME IInv PROVE TwoRequestsHold
  OBVIOUS
<1>1. RowsValid
  <2> SUFFICES ASSUME NEW o \in Owners, NEW g \in Segments PROVE Validates(rows[o][g])
    BY DEF RowsValid
  <2> DEFINE row == rows[o][g]
             T == mgr.lease
  <2>1. /\ RowFits(row, g \in finished[o]) /\ Leased(row, T, o, g, g \in finished[o])
        /\ Reserved(row, hbm.rows, o, g, g \in finished[o])
    BY RowFacts
  <2>2. NoId \notin DOMAIN T /\ NoId \notin DOMAIN hbm.rows
    <3>1. NoId \notin DOMAIN T
      BY WorldParts DEF Worlds, ManagerStates, NoId
    <3>2. hbm.rows \in Seq(HbmRecords)
      BY WorldParts, HbmTypes
    <3> QED
      BY <3>1, <3>2 DEF NoId
  <2>3. row.sel = "source_frozen" => row.logical \in DOMAIN T
    BY <2>1 DEF Leased
  <2>4. row.prep # "none" => row.physical \in DOMAIN T /\ row.hbm \in DOMAIN hbm.rows
    BY <2>1 DEF Leased, Reserved
  <2> QED
    BY <2>1, <2>2, <2>3, <2>4, NullValues DEF Validates, RowFits
<1>2. NothingLeaks
  <2>1. ASSUME NEW l \in Live(mgr)
        PROVE  LET lease == mgr.lease[l]
                   row == rows[lease.owner][lease.segment]
               IN  /\ l = IF lease.replica = NoReplica THEN row.logical ELSE row.physical
                   /\ ~Dense(row) /\ lease.segment \notin finished[lease.owner]
    <3> DEFINE o == mgr.lease[l].owner
               g == mgr.lease[l].segment
    <3>1. l \in DOMAIN mgr.lease /\ mgr.lease[l].state # "released"
      BY DEF Live
    <3>2. mgr \in ManagerStates
      BY WorldParts DEF Worlds
    <3>3. o \in Owners /\ g \in Segments
      BY <3>1, <3>2, RecordTypes
    <3>4. Leased(rows[o][g], mgr.lease, o, g, g \in finished[o])
      BY <3>3, RowFacts
    <3> QED
      BY <3>1, <3>4 DEF Leased
  <2>2. ASSUME NEW i \in Unreleased(hbm)
        PROVE  LET row == rows[hbm.rows[i].owner][hbm.rows[i].segment]
               IN  hbm.rows[i].kind # "workspace" =>
                     i = row.hbm /\ ~Dense(row)
                     /\ hbm.rows[i].segment \notin finished[hbm.rows[i].owner]
    <3> DEFINE o == hbm.rows[i].owner
               g == hbm.rows[i].segment
    <3>1. i \in DOMAIN hbm.rows /\ ~hbm.rows[i].released
      BY DEF Unreleased
    <3>2. hbm.rows[i] \in HbmRecords
      BY <3>1, WorldParts, HbmTypes
    <3>3. o \in Owners /\ g \in Segments
      BY <3>2 DEF HbmRecords
    <3>4. Reserved(rows[o][g], hbm.rows, o, g, g \in finished[o])
      BY <3>3, RowFacts
    <3> QED
      BY <3>1, <3>4 DEF Reserved
  <2> QED
    BY <2>1, <2>2 DEF NothingLeaks
<1>3. SafetyReserveKept
  BY WorldParts DEF WorldFits, ReserveKept, SafetyReserveKept
<1> QED
  BY <1>1, <1>2, <1>3 DEF TwoRequestsHold

(* No step of a request unresolves a segment, and only an eligible Gate-3  *)
(* decision commits one.                                                   *)
LEMMA MovesCausal ==
    ASSUME IInv, CausalCommit, Moves
    PROVE  CausalCommit'
<1>1. \A o \in Owners, g \in Segments :
        /\ Resolved(rows[o][g]) => Resolved(rows'[o][g])
        /\ rows'[o][g].commit = "reuse_commit" =>
             rows[o][g].commit = "reuse_commit" \/ Gate3Eligible(o, g)
  <2>1. CASE rows' = rows
    BY <2>1
  <2>2. ASSUME NEW p \in Owners, Planned(World, World', p)
        PROVE  \A o \in Owners, g \in Segments :
                 /\ Resolved(rows[o][g]) => Resolved(rows'[o][g])
                 /\ rows'[o][g].commit = "reuse_commit" => rows[o][g].commit = "reuse_commit"
    <3>1. World.rows = rows /\ World'.rows = rows'
      BY DEF World
    <3> QED
      BY <2>2, <3>1 DEF Planned, RowMoves, Resolved
  <2>3. ASSUME NEW p \in Owners, Gate3Move(p), NEW o \in Owners, NEW g \in Segments
        PROVE  /\ Resolved(rows[o][g]) => Resolved(rows'[o][g])
               /\ rows'[o][g].commit = "reuse_commit" =>
                    rows[o][g].commit = "reuse_commit" \/ Gate3Eligible(o, g)
    <3>1. PICK a, b \in SUBSET Segments : Refined(p, a, b) /\ \A h \in a : Gate3Eligible(p, h)
      BY <2>3 DEF Gate3Move
    <3>2. rows'[o][g] = IF o = p /\ g \in a THEN AcceptedRow(rows[o][g])
                        ELSE IF o = p /\ g \in b THEN RejectedRow(rows[o][g]) ELSE rows[o][g]
      BY <3>1 DEF Refined
    <3>3. rows[o][g] \in Rows
      BY RowFacts
    <3> QED
      BY <3>1, <3>2, <3>3, AcceptedRowIs, RejectedRowIs DEF Resolved
  <2> QED
    BY <2>1, <2>2, <2>3 DEF Moves
<1>2. \A o \in Owners, g \in Segments :
        SelectionClosedFor(o, g) => SelectionClosedFor(o, g)'
  BY <1>1 DEF SelectionClosedFor
<1>3. \A o \in Owners, g \in Segments :
        PolicyOf[o] = "causal_commit_wait" /\ Gate3Eligible(o, g) => SelectionClosedFor(o, g)
  BY DEF Gate3Eligible
<1>4. \A o \in Owners, g \in Segments :
        PolicyOf[o] = "causal_commit_wait" /\ rows'[o][g].commit = "reuse_commit"
        => SelectionClosedFor(o, g)'
  BY <1>1, <1>2, <1>3 DEF CausalCommit
<1> QED
  BY <1>4 DEF CausalCommit

(***************************************************************************)
(* The refinement of the public chain.                                     *)
(***************************************************************************)
Fate == [o \in Owners |-> [g \in Segments |-> FateOf(o, g)]]

(* The fate of a segment is a function of its row, before a step and after it. *)
LEMMA FateIs ==
    /\ \A o \in Owners, g \in Segments : Fate[o][g] = FateRow(rows[o][g])
    /\ \A o \in Owners, g \in Segments : Fate'[o][g] = FateRow(rows'[o][g])
BY DEF Fate, FateOf, FateRow

(* A method of a request is a Gate-2 decision of the chain, or none.       *)
LEMMA PlannedFollows ==
    ASSUME NEW o \in Owners, Planned(World, World', o)
    PROVE  Chain!Plan(o)
<1> DEFINE F == Fate
           G == Fate'
           admitted == {g \in Segments : F[o][g] = "undecided" /\ G[o][g] = "admitted"}
           denied == {g \in Segments : F[o][g] \in {"undecided", "admitted"} /\ G[o][g] = "dense"}
           moved == [g \in Segments |-> IF g \in admitted THEN "admitted"
                                        ELSE IF g \in denied THEN "dense" ELSE F[o][g]]
<1>1. World.rows = rows /\ World'.rows = rows'
  BY DEF World
<1>2. \A p \in Owners, g \in Segments :
        IF p = o THEN FateMoves(F[p][g], G[p][g]) ELSE G[p][g] = F[p][g]
  BY <1>1, FateIs DEF Planned, RowMoves
<1>3. F \in [Owners -> [Segments -> {F[p][g] : p \in Owners, g \in Segments}]]
      /\ F = [p \in Owners |-> [g \in Segments |-> F[p][g]]]
      /\ G = [p \in Owners |-> [g \in Segments |-> G[p][g]]]
  BY DEF Fate
<1> HIDE DEF F, G
<1>4. \A g \in Segments : G[o][g] = moved[g]
  BY <1>2 DEF FateMoves
<1>5. G = [F EXCEPT ![o] = moved]
  <2> HIDE DEF moved
  <2>1. \A p \in Owners : p # o => G[p] = F[p]
    BY <1>2, <1>3
  <2>2. moved = [g \in Segments |-> moved[g]]
    BY DEF moved
  <2>3. G[o] = moved
    BY <1>3, <1>4, <2>2
  <2> QED
    BY <1>3, <2>1, <2>3
<1>6. /\ admitted \in SUBSET {g \in Segments : F[o][g] = "undecided"}
      /\ denied \in SUBSET {g \in Segments : F[o][g] \in {"undecided", "admitted"}}
      /\ admitted \cap denied = {}
  OBVIOUS
<1>7. \E a \in SUBSET {g \in Segments : F[o][g] = "undecided"},
         d \in SUBSET {g \in Segments : F[o][g] \in {"undecided", "admitted"}} :
        /\ a \cap d = {}
        /\ G = [F EXCEPT ![o] = [g \in Segments |-> IF g \in a THEN "admitted"
                                   ELSE IF g \in d THEN "dense" ELSE @[g]]]
  BY <1>5, <1>6
<1> QED
  BY <1>7 DEF Chain!Plan, F, G, Fate

(* A Gate-3 decision is one of the chain.                                  *)
LEMMA RefinedFollows ==
    ASSUME IInv, NEW o \in Owners, NEW accepted, NEW rejected, Refined(o, accepted, rejected)
    PROVE  Chain!Refine(o)
<1> DEFINE F == Fate
           G == Fate'
           moved == [g \in Segments |-> IF g \in accepted THEN "reuse"
                                        ELSE IF g \in rejected THEN "dense" ELSE F[o][g]]
<1>1. \A g \in accepted \cup rejected :
        /\ g \in Segments /\ F[o][g] = "admitted"
        /\ FateRow(AcceptedRow(rows[o][g])) = "reuse"
        /\ FateRow(RejectedRow(rows[o][g])) = "dense"
  <2> TAKE g \in accepted \cup rejected
  <2>1. g \in Segments /\ ReadyToCommit(rows[o][g])
    BY DEF Refined
  <2>2. rows[o][g] \in Rows /\ RowFits(rows[o][g], g \in finished[o])
    BY <2>1, RowFacts
  <2>3. FateRow(rows[o][g]) = "admitted"
    BY <2>1, <2>2 DEF ReadyToCommit, FateRow, Dense, RowFits
  <2>4. FateRow(AcceptedRow(rows[o][g])) = "reuse"
    BY <2>1, <2>2, AcceptedRowIs DEF ReadyToCommit, FateRow, Dense, RowFits
  <2>5. FateRow(RejectedRow(rows[o][g])) = "dense"
    BY <2>2, RejectedRowIs DEF FateRow, Dense
  <2> QED
    BY <2>1, <2>3, <2>4, <2>5, FateIs
<1>2. \A p \in Owners, g \in Segments :
        G[p][g] = IF p = o /\ g \in accepted THEN "reuse"
                  ELSE IF p = o /\ g \in rejected THEN "dense" ELSE F[p][g]
  BY <1>1, FateIs DEF Refined
<1>3. /\ F = [p \in Owners |-> [g \in Segments |-> F[p][g]]]
      /\ G = [p \in Owners |-> [g \in Segments |-> G[p][g]]]
  BY DEF Fate
<1> HIDE DEF F, G
<1>4. G = [F EXCEPT ![o] = moved]
  <2>1. \A p \in Owners : p # o => G[p] = F[p]
    BY <1>2, <1>3
  <2>2. G[o] = moved
    BY <1>2, <1>3
  <2> HIDE DEF moved
  <2> QED
    BY <1>3, <2>1, <2>2
<1>5. /\ accepted \in SUBSET {g \in Segments : F[o][g] = "admitted"}
      /\ rejected \in SUBSET {g \in Segments : F[o][g] = "admitted"}
      /\ accepted \cap rejected = {}
  BY <1>1 DEF Refined
<1>6. \E a, b \in SUBSET {g \in Segments : F[o][g] = "admitted"} :
        /\ a \cap b = {}
        /\ G = [F EXCEPT ![o] = [g \in Segments |-> IF g \in a THEN "reuse"
                                   ELSE IF g \in b THEN "dense" ELSE @[g]]]
  BY <1>4, <1>5
<1> QED
  BY <1>6 DEF Chain!Refine, F, G, Fate

(* A move of the rows is a step of the chain of fates, or none. *)
LEMMA MovesFollow ==
    ASSUME IInv, Moves
    PROVE  [Chain!Next]_Fate
<1>1. CASE rows' = rows
  BY <1>1 DEF Fate, FateOf, Dense
<1>2. ASSUME NEW o \in Owners, Planned(World, World', o) PROVE Chain!Next
  BY <1>2, PlannedFollows DEF Chain!Next
<1>3. ASSUME NEW o \in Owners, Gate3Move(o) PROVE Chain!Next
  BY <1>3, RefinedFollows DEF Chain!Next, Gate3Move
<1> QED
  BY <1>1, <1>2, <1>3 DEF Moves

(* Initially every fate is where the chain begins. *)
LEMMA ChainStarts == Init => Chain!Init
<1> SUFFICES ASSUME Init PROVE Chain!Init
  OBVIOUS
<1>1. FateRow(NewRow) = "undecided"
  BY DEF FateRow, NewRow, Dense
<1>2. \A o \in Owners, g \in Segments : FateOf(o, g) = "undecided"
  BY <1>1 DEF Init, FateOf, FateRow
<1> QED
  BY <1>2 DEF Chain!Init

(***************************************************************************)
(* The theorems of schema 6.                                               *)
(***************************************************************************)
Causal == IInv /\ CausalCommit

(* Initially the invariant holds and nothing is committed. *)
LEMMA CausalStarts == Init => Causal
<1> SUFFICES ASSUME Init PROVE CausalCommit
  BY InitFits DEF Causal
<1>1. \A o \in Owners, g \in Segments : rows[o][g].commit = "uncommitted"
  BY DEF Init, NewRow
<1> QED
  BY <1>1 DEF CausalCommit

(* Every step keeps the invariant and the order of the commit. *)
LEMMA CausalKept == Causal /\ [Next]_vars => Causal'
<1>1. ASSUME Causal, Next PROVE Causal'
  BY <1>1, NextMoves, MovesCausal DEF Causal
<1>2. ASSUME Causal, UNCHANGED vars PROVE Causal'
  <2>1. World' = World /\ plans' = plans /\ finished' = finished /\ hbm' = hbm /\ rows' = rows
    BY <1>2 DEF vars, World
  <2>2. IInv'
    BY <1>2, <2>1 DEF Causal, IInv, PlanFits, Current
  <2>3. CausalCommit'
    BY <1>2, <2>1 DEF Causal, CausalCommit, SelectionClosedFor
  <2> QED
    BY <2>2, <2>3 DEF Causal
<1> QED
  BY <1>1, <1>2

(* The invariant and the order of the commit hold throughout. *)
LEMMA SpecCausal == Spec => []Causal
<1> QED
  BY CausalStarts, CausalKept, PTL DEF Spec

(* Every record, lease and reservation keeps its type under every          *)
(* interleaving of the calls of the requests.                              *)
THEOREM ControllerTypeCorrect == Spec => []TypeOK
<1>1. Causal => TypeOK
  BY IInvTypeOK DEF Causal
<1> QED
  BY <1>1, SpecCausal, PTL

(* A segment of Spec that is prepared owns the leases and the reservation  *)
(* its disposition calls for, until its committed execution is finished.   *)
THEOREM RequestsOwnPreparation == Spec => []PreparationOwned
<1>1. Causal => PreparationOwned
  BY IInvOwned DEF Causal
<1> QED
  BY <1>1, SpecCausal, PTL

(* Requests that meet keep valid rows, leak no lease or reservation and    *)
(* leave the safety reserve of the HBM alone.                              *)
THEOREM RequestsHold == Spec => []TwoRequestsHold
<1>1. Causal => TwoRequestsHold
  BY IInvHolds DEF Causal
<1> QED
  BY <1>1, SpecCausal, PTL

(* Under causal_commit_wait no segment of schema 6 commits before the      *)
(* selection of every later segment is resolved.                           *)
THEOREM CommitWaitsForSelection == Spec => []CausalCommit
<1>1. Causal => CausalCommit
  BY DEF Causal
<1> QED
  BY <1>1, SpecCausal, PTL

(* The controllers of schema 6 implement the public chain: a decision made *)
(* before a promotion or a commit never undoes it.                         *)
THEOREM ControllersFollowChain == Spec => FollowsChain
<1>1. Causal /\ [Next]_vars => [Chain!Next]_Fate
  <2>1. ASSUME Causal, Next PROVE [Chain!Next]_Fate
    BY <2>1, NextMoves, MovesFollow DEF Causal
  <2>2. ASSUME UNCHANGED vars PROVE [Chain!Next]_Fate
    BY <2>2 DEF vars, Fate, FateOf, Dense
  <2> QED
    BY <2>1, <2>2
<1>2. Spec => Chain!Init /\ [][Chain!Next]_Fate
  BY <1>1, ChainStarts, SpecCausal, PTL DEF Spec
<1> QED
  BY <1>2, PTL DEF FollowsChain, Chain!Spec, Fate

(***************************************************************************)
(* The barrier of schema 8.                                                *)
(***************************************************************************)
(* The depth of the deepest winner or rescue is one the request has run.   *)
LEMMA BarrierDepth ==
    ASSUME IInv, NEW o \in Owners, layer[o] \in {1, 2}, SelectionClosed(o),
           \A g \in Segments : BarrierRow(rows[o][g], layer[o], Closed(o))
    PROVE  BarrierNow(o) \in Barriers /\ BarrierNow(o).closed /\ BarrierNow(o).depth <= layer[o]
<1> DEFINE S == {ResolvedDepth(rows[o][g]) : g \in Segments}
<1>1. \A g \in Segments : ResolvedDepth(rows[o][g]) \in Nat
                          /\ ResolvedDepth(rows[o][g]) <= layer[o]
  <2> TAKE g \in Segments
  <2>1. rows[o][g].depth \in Nat
    BY RowFacts DEF Rows
  <2>2. BarrierRow(rows[o][g], layer[o], Closed(o))
    OBVIOUS
  <2> QED
    BY <2>1, <2>2 DEF BarrierRow, ResolvedDepth
<1>2. S \subseteq {0, 1, 2} /\ S # {} /\ \A x \in S : x <= layer[o]
  <2>1. \A x \in S : x \in Nat /\ x <= layer[o]
    BY <1>1
  <2>2. S # {}
    BY RequestShape
  <2> HIDE DEF S
  <2>3. \A x \in Nat : x <= layer[o] => x \in {0, 1, 2}
    OBVIOUS
  <2> QED
    BY <2>1, <2>2, <2>3
<1> HIDE DEF S
<1>3. \E x \in S : \A y \in S : x >= y
  <2>1. CASE 2 \in S
    BY <1>2, <2>1
  <2>2. CASE 2 \notin S /\ 1 \in S
    BY <1>2, <2>2
  <2>3. CASE 2 \notin S /\ 1 \notin S
    <3>1. S = {0}
      BY <1>2, <2>3
    <3> QED
      BY <3>1
  <2> QED
    BY <2>1, <2>2, <2>3
<1>4. Max(S) \in S
  BY <1>3 DEF Max
<1>5. Max(S) \in Nat /\ Max(S) <= layer[o]
  <2>1. \A x \in S : x \in Nat /\ x <= layer[o]
    BY <1>2
  <2> QED
    BY <1>4, <2>1
<1>6. BarrierNow(o) = [closed |-> TRUE, depth |-> Max(S),
                       reuse |-> {g \in Segments : rows[o][g].sel = "source_frozen"}]
  BY DEF BarrierNow, S
<1> QED
  BY <1>5, <1>6 DEF Barriers

(* A step keeps what the barrier adds when the rows it leaves do, and when *)
(* barriers close only over resolved segments.                             *)
LEMMA BarrierKept ==
    ASSUME IInv, BInv, Advances(World, World'), layer' = layer,
           barrier' \in [Owners -> Barriers],
           \A o \in Owners : \/ barrier'[o] = barrier[o]
                             \/ SelectionClosed(o) /\ barrier'[o] = BarrierNow(o),
           \A o \in Owners, g \in Segments : BarrierRow(rows'[o][g], layer[o], Closed(o)')
    PROVE  BInv'
<1>1. \A o \in Owners, g \in Segments :
        Resolved(rows[o][g]) => /\ rows'[o][g].sel = rows[o][g].sel
                                /\ rows'[o][g].depth = rows[o][g].depth
  BY DEF Advances, World
<1>2. ASSUME NEW o \in Owners, Closed(o)'
      PROVE  /\ \A g \in Segments : Resolved(rows'[o][g])
             /\ barrier'[o] = BarrierNow(o)' /\ barrier'[o].depth <= layer[o]
  <2>1. SelectionClosed(o) /\ barrier'[o] = BarrierNow(o)
    BY <1>2 DEF BInv, BarrierAccurate, Closed, SelectionClosed
  <2>2. \A g \in Segments : /\ Resolved(rows[o][g]) /\ rows'[o][g].sel = rows[o][g].sel
                            /\ rows'[o][g].depth = rows[o][g].depth
    BY <1>1, <2>1 DEF SelectionClosed
  <2>3. \A g \in Segments : Resolved(rows'[o][g])
    BY <2>2 DEF Resolved
  <2>4. \A g \in Segments : ResolvedDepth(rows'[o][g]) = ResolvedDepth(rows[o][g])
    BY <2>2 DEF ResolvedDepth
  <2>5. {ResolvedDepth(rows'[o][g]) : g \in Segments} = {ResolvedDepth(rows[o][g]) : g \in Segments}
    BY <2>4
  <2>6. {g \in Segments : rows'[o][g].sel = "source_frozen"}
          = {g \in Segments : rows[o][g].sel = "source_frozen"}
    BY <2>2
  <2>7. BarrierNow(o)' = BarrierNow(o)
    BY <2>5, <2>6 DEF BarrierNow
  <2>8. BarrierNow(o).depth <= layer[o]
    BY <2>1, BarrierDepth DEF BInv
  <2> QED
    BY <2>1, <2>3, <2>7, <2>8
<1>3. BarrierAccurate'
  BY <1>2 DEF BarrierAccurate, Closed
<1> QED
  BY <1>3 DEF BInv

(* A method that neither selects, admits nor commits.                      *)
SameCore(row, new) ==
    /\ new.sel = row.sel /\ new.depth = row.depth
    /\ new.gate2 = row.gate2 /\ new.commit = row.commit

(* A step that leaves the barrier, the layer and the core of every row alone keeps the
   barrier's invariant. *)
LEMMA CoreKept ==
    ASSUME IInv, BInv, Advances(World, World'), UNCHANGED <<layer, barrier>>,
           \A o \in Owners, g \in Segments : SameCore(rows[o][g], rows'[o][g])
    PROVE  BInv'
<1>1. \A o \in Owners, g \in Segments : BarrierRow(rows'[o][g], layer[o], Closed(o)')
  BY DEF BInv, BarrierRow, SameCore, Closed
<1> QED
  BY <1>1, BarrierKept DEF BInv

(* Beginning a prefetch leaves the core of every row alone. *)
LEMMA PrefetchCore ==
    ASSUME IInv, NEW o \in Owners, NEW g \in Segments, NEW r \in Replicas,
           NEW admitted \in BOOLEAN, BeginWinnerPrefetch(o, g, r, admitted)
    PROVE  \A p \in Owners, k \in Segments : SameCore(rows[p][k], rows'[p][k])
<1> DEFINE v == BeginPrefetch(World, o, g, r, admitted)
<1>1. CanBeginPrefetch(World, o, g, r, admitted) /\ World.rows[o][g].commit = "uncommitted"
      /\ rows' = v.rows
  BY WorldParts DEF BeginWinnerPrefetch, Wanted, Becomes
<1>2. CASE CanReserve(World.h, SizeOf[r])
  <2>1. \E l, i \in Nat : v.rows = WithRow(World.rows, o, g, PrefetchedRow(World.rows[o][g], l, i))
    BY <1>1, <1>2, WorldParts, PrefetchedFits
  <2> HIDE DEF v
  <2>2. PICK l, i \in Nat : rows' = WithRow(rows, o, g, PrefetchedRow(rows[o][g], l, i))
    BY <1>1, <2>1, WorldParts
  <2> DEFINE new == PrefetchedRow(rows[o][g], l, i)
  <2>3. SameCore(rows[o][g], new)
    BY RowFacts DEF Rows, SameCore, PrefetchedRow
  <2> HIDE DEF new
  <2>4. rows' = WithRow(rows, o, g, new) /\ rows \in RowTables
    BY <2>2, WorldParts DEF new, Worlds, RowTables
  <2> QED
    BY <2>3, <2>4 DEF WithRow, RowTables, SameCore
<1>3. CASE ~CanReserve(World.h, SizeOf[r])
  <2>1. v.rows = World.rows
    BY <1>1, <1>3, WorldParts, RefusedFits
  <2> QED
    BY <1>1, <2>1, WorldParts DEF SameCore
<1> QED
  BY <1>2, <1>3

(* Marking a winner ready leaves the core of every row alone. *)
LEMMA WinnerReadyCore ==
    ASSUME IInv, NEW o \in Owners, NEW g \in Segments, WinnerReady(o, g)
    PROVE  \A p \in Owners, k \in Segments : SameCore(rows[p][k], rows'[p][k])
<1> DEFINE new == ReadyRow(rows[o][g])
<1>1. rows' = WithRow(rows, o, g, new) /\ rows \in RowTables
  BY WorldParts, ReadyFits DEF WinnerReady, Becomes, Worlds, RowTables
<1>2. SameCore(rows[o][g], new)
  BY RowFacts DEF Rows, SameCore, ReadyRow
<1> HIDE DEF new
<1> QED
  BY <1>1, <1>2 DEF WithRow, RowTables, SameCore

(* A Gate-2 plan with one target moves only rows of its owner, and of these only
   the preparation and the Gate-2 record. *)
LEMMA Gate2Core ==
    ASSUME IInv, NEW o \in Owners, NEW p \in plans[o], ApplyGate2(o, p), NEW target,
           IsPlanFor(p, target)
    PROVE  \A q \in Owners, g \in Segments :
             /\ rows'[q][g].sel = rows[q][g].sel /\ rows'[q][g].depth = rows[q][g].depth
             /\ rows'[q][g].commit = rows[q][g].commit
             /\ rows'[q][g].gate2 = IF q = o /\ rows'[q][g] # rows[q][g] THEN target
                                    ELSE rows[q][g].gate2
<1>1. Targets(World, o, p.to)
  BY PlanTargets DEF ApplyGate2
<1>2. PICK v \in Gate2Applied(World, o, p.to) : rows' = v.rows
  BY DEF ApplyGate2, Becomes
<1>3. PICK S \in SUBSET DOMAIN p.to :
        /\ \A g \in S : Movable(World.rows[o][g], p.to[g])
        /\ Moved(World, v, finished, o, [g \in S |-> MovedRow(World.rows[o][g], p.to[g])], S)
  BY <1>1, WorldParts, Gate2Fits
<1> DEFINE new == [g \in S |-> MovedRow(rows[o][g], p.to[g])]
<1>4. rows' = RowsWith(rows, o, new, S) /\ rows \in RowTables /\ S \subseteq Segments
  BY <1>1, <1>2, <1>3, WorldParts DEF Moved, Worlds, RowTables, Targets
<1>5. ASSUME NEW g \in S
      PROVE  /\ new[g].sel = rows[o][g].sel /\ new[g].depth = rows[o][g].depth
             /\ new[g].commit = rows[o][g].commit /\ new[g].gate2 = target
  <2>1. p.to[g] = target /\ Movable(rows[o][g], target)
    BY <1>3, <1>5, WorldParts DEF IsPlanFor
  <2>2. rows[o][g] \in Rows /\ new[g] = MovedRow(rows[o][g], target)
    BY <1>4, <1>5, <2>1, RowFacts
  <2> HIDE DEF new
  <2> QED
    BY <2>1, <2>2, MovedRowIs
<1> HIDE DEF new
<1>6. \A q \in Owners, g \in Segments :
        rows'[q][g] = IF q = o /\ g \in S THEN new[g] ELSE rows[q][g]
  BY <1>4 DEF RowsWith, RowTables
<1> QED
  BY <1>5, <1>6

(***************************************************************************)
(* The handlers of schema 8.                                               *)
(***************************************************************************)
BMoved == BInv' /\ Moves /\ IInv'

(* A selection method: one row is written, and it suits the barrier.       *)
LEMMA SelectionMoved ==
    ASSUME IInv, BInv, NEW v, NEW o \in Owners, NEW g \in Segments, NEW new,
           Steps(World, v, finished, o), Becomes(v), v.rows = WithRow(rows, o, g, new),
           BarrierRow(new, layer[o], Closed(o)),
           UNCHANGED <<plans, finished, layer, barrier>>
    PROVE  BMoved
<1>1. Progress /\ Planned(World, World', o)
  BY MethodProgress, PlansStay
<1>2. rows' = WithRow(rows, o, g, new) /\ rows \in RowTables
  BY WorldParts DEF Becomes, Worlds, RowTables
<1>3. \A p \in Owners, k \in Segments :
        rows'[p][k] = IF p = o /\ k = g THEN new ELSE rows[p][k]
  BY <1>2 DEF WithRow, RowTables
<1>4. \A p \in Owners, k \in Segments : BarrierRow(rows'[p][k], layer[p], Closed(p)')
  BY <1>3 DEF BInv, Closed
<1>5. BInv'
  BY <1>1, <1>4, BarrierKept DEF Progress, BInv
<1> QED
  BY <1>1, <1>5, ProgressKeeps DEF BMoved, Moves

(* A selection that finds its winner keeps the barrier's invariant. *)
LEMMA SelectWinnerMoved ==
    ASSUME IInv, BInv, NEW o \in Owners, NEW g \in Segments, NEW s \in Sources,
           SelectWinner(o, g, s)
    PROVE  BMoved
<1> DEFINE depth == layer[o]
           u == DecisionReady(World, o, g, s, depth)
           row == DecidedRow(rows[o][g], s, depth)
<1>1. depth \in Nat /\ depth > 0
  BY DEF BInv
<1> HIDE DEF depth
<1>2. CanDecisionReady(World, o, g)
  BY DEF SelectWinner
<1>3. Steps(World, u, finished, o)
  BY <1>1, <1>2, WorldParts, DecideSteps
<1>4. u.rows = WithRow(rows, o, g, row) /\ u \in Worlds /\ rows \in RowTables
  <2>1. u.rows = WithRow(World.rows, o, g, DecidedRow(World.rows[o][g], s, depth))
    BY WorldParts, RowForms
  <2>2. rows \in RowTables /\ World.rows = rows
    BY WorldParts DEF Worlds, RowTables
  <2> QED
    BY <1>3, <2>1, <2>2 DEF Steps, WorldFits
<1>5. /\ row.sel = "decision_ready" /\ row.depth = depth
      /\ row.gate2 = rows[o][g].gate2 /\ row.commit = rows[o][g].commit
      /\ row \in Rows
  BY <1>1, RowFacts DEF DecidedRow, Rows, Selections
<1>6. /\ ~Closed(o) => rows[o][g].commit = "uncommitted"
                       /\ rows[o][g].gate2 # "provisional_reuse"
  BY DEF BInv, BarrierRow
<1>7. BarrierRow(row, depth, Closed(o))
  BY <1>1, <1>5, <1>6 DEF BarrierRow
<1>8. CASE CanGate1Pass(u, o, g)
  <2> DEFINE v == Gate1Passed(u, o, g)
             new == Frozen(row, Len(u.m.lease) + 1)
  <2>1. Steps(u, v, finished, o)
    BY <1>3, <1>8, Gate1PassSteps DEF Steps
  <2>2. Steps(World, v, finished, o)
    BY <1>3, <2>1, WorldParts, StepsTwice
  <2>3. u.rows[o][g] = row
    BY <1>4 DEF WithRow, RowTables
  <2>4. v.rows = WithRow(u.rows, o, g, new)
    BY <1>4, <2>3, RowForms
  <2> HIDE DEF new, row, v, u
  <2>5. WithRow(WithRow(rows, o, g, row), o, g, new) = WithRow(rows, o, g, new)
    BY <1>4 DEF WithRow, RowTables
  <2>6. /\ new.sel = "source_frozen" /\ new.depth = depth
        /\ new.gate2 = row.gate2 /\ new.commit = row.commit
    BY <1>5 DEF new, Frozen, Rows
  <2>7. BarrierRow(new, layer[o], Closed(o))
    BY <1>1, <1>5, <1>6, <2>6 DEF BarrierRow, depth
  <2>8. Becomes(v) /\ UNCHANGED <<plans, finished, layer, barrier>>
    BY <1>8 DEF SelectWinner, u, v, depth
  <2> QED
    BY <1>4, <2>2, <2>4, <2>5, <2>7, <2>8, SelectionMoved
<1>9. CASE ~CanGate1Pass(u, o, g)
  <2>1. Becomes(u) /\ UNCHANGED <<plans, finished, layer, barrier>>
    BY <1>9 DEF SelectWinner, depth
  <2> HIDE DEF u, row
  <2> QED
    BY <1>3, <1>4, <1>7, <2>1, SelectionMoved DEF depth
<1> QED
  BY <1>8, <1>9

(* A selection whose Gate 1 refuses keeps the barrier's invariant. *)
LEMMA SelectInVainMoved ==
    ASSUME IInv, BInv, NEW o \in Owners, NEW g \in Segments, NEW s \in Sources,
           SelectInVain(o, g, s)
    PROVE  BMoved
<1> DEFINE depth == layer[o]
           last == layer[o] = 2
           u == DecisionReady(World, o, g, s, depth)
           row == DecidedRow(rows[o][g], s, depth)
           v == Gate1Failed(u, o, g, last)
           new == FailedRow(row, last)
<1>1. depth \in Nat /\ depth > 0 /\ last \in BOOLEAN
  BY DEF BInv
<1> HIDE DEF depth, last
<1>2. CanDecisionReady(World, o, g)
  BY DEF SelectInVain
<1>3. Steps(World, u, finished, o)
  BY <1>1, <1>2, WorldParts, DecideSteps
<1>4. u.rows = WithRow(rows, o, g, row) /\ u \in Worlds /\ rows \in RowTables
  <2>1. u.rows = WithRow(World.rows, o, g, DecidedRow(World.rows[o][g], s, depth))
    BY WorldParts, RowForms
  <2>2. rows \in RowTables /\ World.rows = rows
    BY WorldParts DEF Worlds, RowTables
  <2> QED
    BY <1>3, <2>1, <2>2 DEF Steps, WorldFits
<1>5. /\ row.sel = "decision_ready"
      /\ row.gate2 = rows[o][g].gate2 /\ row.commit = rows[o][g].commit
      /\ row \in Rows
  BY <1>1, RowFacts DEF DecidedRow, Rows, Selections
<1>6. u.rows[o][g] = row
  BY <1>4 DEF WithRow, RowTables
<1>7. CanGate1(u, o, g)
  BY <1>5, <1>6 DEF CanGate1
<1>8. Steps(World, v, finished, o)
  <2>1. Steps(u, v, finished, o)
    BY <1>1, <1>3, <1>7, Gate1FailSteps DEF Steps
  <2> QED
    BY <1>3, <2>1, WorldParts, StepsTwice
<1>9. v.rows = WithRow(u.rows, o, g, new)
  BY <1>1, <1>4, <1>6, RowForms
<1>10. Becomes(v) /\ UNCHANGED <<plans, finished, layer, barrier>>
  BY DEF SelectInVain, depth, last
<1> HIDE DEF new, row, v, u
<1>11. WithRow(WithRow(rows, o, g, row), o, g, new) = WithRow(rows, o, g, new)
  BY <1>4 DEF WithRow, RowTables
<1>12. /\ new.sel = IF last THEN "abstained" ELSE "probing"
       /\ new.depth = 0 /\ new.gate2 = row.gate2 /\ new.commit = row.commit
  BY <1>5 DEF new, FailedRow, Rows
<1>13. BarrierRow(new, layer[o], Closed(o))
  <2>1. ~Closed(o) => rows[o][g].commit = "uncommitted"
                      /\ rows[o][g].gate2 # "provisional_reuse"
    BY DEF BInv, BarrierRow
  <2> QED
    BY <1>1, <1>5, <1>12, <2>1 DEF BarrierRow, last, depth
<1> QED
  BY <1>4, <1>8, <1>9, <1>10, <1>11, <1>13, SelectionMoved

(* An abstention of the selector keeps the barrier's invariant. *)
LEMMA SelectorAbstainsMoved ==
    ASSUME IInv, BInv, NEW o \in Owners, NEW g \in Segments, SelectorAbstains(o, g)
    PROVE  BMoved
<1> DEFINE v == AbstainRow(World, o, g)
           new == AbstainedRow(rows[o][g])
<1>1. Steps(World, v, finished, o)
  BY AbstainSteps, WorldParts DEF SelectorAbstains, Abstain
<1>2. v.rows = WithRow(rows, o, g, new)
  BY WorldParts, RowForms
<1>3. Becomes(v) /\ UNCHANGED <<plans, finished, layer, barrier>>
  BY DEF SelectorAbstains, Abstain
<1>4. /\ new.sel = "abstained" /\ new.depth = rows[o][g].depth /\ rows[o][g].depth \in Nat
      /\ new.gate2 = rows[o][g].gate2 /\ new.commit = rows[o][g].commit
  BY RowFacts DEF AbstainedRow, Rows
<1> HIDE DEF new, v
<1>5. BarrierRow(rows[o][g], layer[o], Closed(o))
  BY DEF BInv
<1>6. layer[o] = 2 \/ rows[o][g].sel = "decision_ready"
  BY DEF SelectorAbstains
<1>7. BarrierRow(new, layer[o], Closed(o))
  BY <1>4, <1>5, <1>6 DEF BarrierRow
<1> QED
  BY <1>1, <1>2, <1>3, <1>7, SelectionMoved

(* Running the second dense layer keeps the barrier's invariant. *)
LEMMA SecondLayerMoved ==
    ASSUME IInv, BInv, NEW o \in Owners, RunSecondDenseLayer(o)
    PROVE  BMoved
<1>1. /\ layer[o] = 1 /\ ~Closed(o) /\ layer' = [layer EXCEPT ![o] = 2]
      /\ UNCHANGED <<vars, barrier>>
  BY DEF RunSecondDenseLayer
<1>2. World' = World /\ rows' = rows /\ plans' = plans /\ finished' = finished /\ hbm' = hbm
  BY <1>1 DEF World, vars
<1>3. layer' \in [Owners -> {1, 2}]
      /\ \A p \in Owners : layer[p] \in {1, 2} /\ layer'[p] = IF p = o THEN 2 ELSE layer[p]
  BY <1>1 DEF BInv
<1>4. ASSUME NEW p \in Owners, NEW g \in Segments
      PROVE  BarrierRow(rows'[p][g], layer'[p], Closed(p)')
  <2>1. BarrierRow(rows[p][g], layer[p], Closed(p)) /\ rows[p][g].depth \in Nat
    BY RowFacts DEF BInv, Rows
  <2>2. layer'[p] >= layer[p] /\ layer'[p] \in Nat /\ layer[p] \in Nat
        /\ (layer[p] = 2 => layer'[p] = 2)
    BY <1>3
  <2> QED
    BY <1>1, <1>2, <2>1, <2>2 DEF BarrierRow, Closed
<1>5. BarrierAccurate'
  <2>1. ASSUME NEW p \in Owners, Closed(p)'
        PROVE  /\ \A g \in Segments : Resolved(rows'[p][g])
               /\ barrier'[p] = BarrierNow(p)' /\ barrier'[p].depth <= layer'[p]
    <3>1. p # o /\ Closed(p)
      BY <1>1, <2>1 DEF Closed
    <3>2. BarrierNow(p)' = BarrierNow(p) /\ layer'[p] = layer[p]
      BY <1>2, <1>3, <3>1 DEF BarrierNow
    <3> QED
      BY <1>1, <1>2, <3>1, <3>2 DEF BInv, BarrierAccurate
  <2> QED
    BY <2>1 DEF BarrierAccurate
<1>6. BInv'
  BY <1>1, <1>3, <1>4, <1>5 DEF BInv
<1>7. IInv'
  BY <1>2 DEF IInv, PlanFits, Current
<1> QED
  BY <1>2, <1>6, <1>7 DEF BMoved, Moves

(* Closing the selection barrier keeps the barrier's invariant. *)
LEMMA CloseMoved ==
    ASSUME IInv, BInv, NEW o \in Owners, CloseSelectionBarrier(o)
    PROVE  BMoved
<1>1. /\ SelectionClosed(o) /\ barrier' = [barrier EXCEPT ![o] = BarrierNow(o)]
      /\ UNCHANGED <<vars, layer>>
  BY DEF CloseSelectionBarrier, CanCloseBarrier, BarrierClosed
<1>2. World' = World /\ rows' = rows /\ plans' = plans /\ finished' = finished /\ hbm' = hbm
  BY <1>1 DEF World, vars
<1>3. BarrierNow(o) \in Barriers /\ BarrierNow(o).closed
  BY <1>1, BarrierDepth DEF BInv
<1>4. barrier' \in [Owners -> Barriers]
      /\ \A p \in Owners : barrier'[p] = IF p = o THEN BarrierNow(o) ELSE barrier[p]
  BY <1>1, <1>3 DEF BInv
<1>5. \A p \in Owners, g \in Segments : BarrierRow(rows'[p][g], layer[p], Closed(p)')
  BY <1>2, <1>3, <1>4 DEF BInv, BarrierRow, Closed
<1>6. Advances(World, World')
  BY <1>2, WorldParts DEF Advances, HbmStates
<1>7. BInv'
  BY <1>1, <1>4, <1>5, <1>6, BarrierKept
<1>8. IInv'
  BY <1>2 DEF IInv, PlanFits, Current
<1> QED
  BY <1>2, <1>7, <1>8 DEF BMoved, Moves

(* Beginning a prefetch under the barrier keeps the barrier's invariant. *)
LEMMA BarrierPrefetchMoved ==
    ASSUME IInv, BInv, NEW o \in Owners, NEW g \in Segments, NEW r \in Replicas,
           BeginBarrierPrefetch(o, g, r)
    PROVE  BMoved
<1>1. BeginWinnerPrefetch(o, g, r, ~Closed(o)) /\ UNCHANGED <<layer, barrier>>
  BY DEF BeginBarrierPrefetch
<1> DEFINE admitted == ~Closed(o)
<1>2. admitted \in BOOLEAN
  OBVIOUS
<1>3. Progress /\ Planned(World, World', o)
  BY <1>1, <1>2, PrefetchProgress
<1>4. \A p \in Owners, k \in Segments : SameCore(rows[p][k], rows'[p][k])
  BY <1>1, <1>2, PrefetchCore
<1>5. BInv'
  BY <1>1, <1>3, <1>4, CoreKept DEF Progress
<1> QED
  BY <1>3, <1>5, ProgressKeeps DEF BMoved, Moves

(* A step that writes no row, layer or barrier keeps the barrier's invariant. *)
LEMMA StayMoved ==
    ASSUME IInv, BInv, RowsStay, UNCHANGED <<layer, barrier>>
    PROVE  BMoved
<1>1. BInv'
  BY CoreKept DEF RowsStay, Progress, SameCore
<1> QED
  BY <1>1, ProgressKeeps DEF BMoved, Moves, RowsStay

(* The steps taken over from the schema-6 controller keep the barrier's invariant. *)
LEMMA InheritedMoved ==
    ASSUME IInv, BInv, Inherited
    PROVE  BMoved
<1>1. UNCHANGED <<layer, barrier>>
  BY DEF Inherited
<1>2. ASSUME NEW o \in Owners, NEW g \in Segments, WinnerReady(o, g) PROVE BMoved
  <2>1. Progress /\ Planned(World, World', o)
    BY <1>2, WinnerReadyProgress
  <2>2. BInv'
    BY <1>1, <1>2, <2>1, WinnerReadyCore, CoreKept DEF Progress
  <2> QED
    BY <2>1, <2>2, ProgressKeeps DEF BMoved, Moves
<1>3. ASSUME NEW o \in Owners, NEW g \in Segments, CompleteReuseExecution(o, g) PROVE BMoved
  BY <1>1, <1>3, CompleteProgress, StayMoved
<1>4. ASSUME NEW r \in Replicas, EvictIdleReplica(r) PROVE BMoved
  BY <1>1, <1>4, EvictProgress, StayMoved
<1> QED
  BY <1>2, <1>3, <1>4 DEF Inherited

(* Decisions of the barrier's planners.                                    *)
LEMMA KeptMoved ==
    ASSUME IInv, BInv, NEW o \in Owners, NEW p, PlanFits(o, p), Keep(o, p),
           UNCHANGED <<layer, barrier>>
    PROVE  BMoved
<1>1. IInv' /\ UNCHANGED <<rows, mgr, hbm, finished>>
  BY KeepKeeps
<1>2. \A q \in Owners : BarrierNow(q)' = BarrierNow(q) /\ Closed(q)' = Closed(q)
  BY <1>1 DEF BarrierNow, Closed
<1>3. BInv'
  BY <1>1, <1>2 DEF BInv, BarrierAccurate
<1> QED
  BY <1>1, <1>3 DEF BMoved, Moves

(* Planning and applying the preparation of a subset keeps the barrier's invariant. *)
LEMMA PlanPreparationMoved ==
    ASSUME IInv, BInv, NEW o \in Owners, NEW S \in SUBSET Segments,
           NEW disposition \in {"deferred", "provisional_reuse"},
           PlanPreparation(o, S, disposition)
    PROVE  BMoved
<1> DEFINE to == [g \in S |-> disposition]
           p == [kind |-> "gate2", epoch |-> hbm.epoch, to |-> to]
<1>1. hbm.epoch \in Nat
  BY WorldParts DEF HbmStates
<1>2. to \in [S -> Dispositions] /\ \A g \in DOMAIN to : to[g] = disposition
  BY DEF Dispositions
<1> HIDE DEF to
<1>3. p \in Plans
  BY <1>1, <1>2 DEF Plans
<1>4. PlanFits(o, p)
  BY <1>1, <1>2, <1>3 DEF PlanFits
<1>5. Keep(o, p) /\ UNCHANGED <<layer, barrier>>
  BY DEF PlanPreparation, to
<1> HIDE DEF p
<1> QED
  BY <1>4, <1>5, KeptMoved

(* The final commit under the barrier keeps the barrier's invariant. *)
LEMMA PlanFinalCommitMoved ==
    ASSUME IInv, BInv, NEW o \in Owners, PlanFinalCommit(o)
    PROVE  BMoved
<1> DEFINE E == {g \in Segments : FinalCommitEligible(o, g)}
<1>1. UNCHANGED <<layer, barrier>> /\ \E a \in SUBSET E :
        Keep(o, [kind |-> "gate3", epoch |-> hbm.epoch, accepted |-> a, rejected |-> E \ a])
  BY DEF PlanFinalCommit
<1> HIDE DEF E
<1>2. E \in SUBSET Segments
  BY DEF E
<1> QED
  BY <1>1, <1>2, Gate3PlanFits, KeptMoved

(* A detached admission defers, which no barrier need have closed for.     *)
LEMMA ApplyDetachedMoved ==
    ASSUME IInv, BInv, NEW o \in Owners, NEW p \in plans[o], ApplyDetached(o, p)
    PROVE  BMoved
<1>1. ApplyGate2(o, p) /\ IsPlanFor(p, "deferred") /\ UNCHANGED <<layer, barrier>>
  BY DEF ApplyDetached
<1>2. Progress /\ Planned(World, World', o)
  BY <1>1, Gate2Progress
<1>3. \A q \in Owners, g \in Segments : BarrierRow(rows'[q][g], layer[q], Closed(q)')
  <2> TAKE q \in Owners, g \in Segments
  <2>1. /\ rows'[q][g].sel = rows[q][g].sel /\ rows'[q][g].depth = rows[q][g].depth
        /\ rows'[q][g].commit = rows[q][g].commit
        /\ rows'[q][g].gate2 \in {"deferred", rows[q][g].gate2}
    BY <1>1, Gate2Core
  <2>2. BarrierRow(rows[q][g], layer[q], Closed(q)) /\ Closed(q)' = Closed(q)
    BY <1>1 DEF BInv, Closed
  <2> QED
    BY <2>1, <2>2 DEF BarrierRow
<1>4. BInv'
  BY <1>1, <1>2, <1>3, BarrierKept DEF Progress, BInv
<1> QED
  BY <1>2, <1>4, ProgressKeeps DEF BMoved, Moves

(* An admission closes the barrier first.                                  *)
LEMMA ApplyAdmissionMoved ==
    ASSUME IInv, BInv, NEW o \in Owners, NEW p \in plans[o], ApplyAdmission(o, p)
    PROVE  BMoved
<1>1. /\ ApplyGate2(o, p) /\ IsPlanFor(p, "provisional_reuse") /\ layer' = layer
      /\ barrier' = [barrier EXCEPT ![o] = BarrierClosed(o)]
  BY DEF ApplyAdmission
<1>2. Progress /\ Planned(World, World', o)
  BY <1>1, Gate2Progress
<1>3. SelectionClosed(o) /\ BarrierClosed(o) = BarrierNow(o)
  BY DEF ApplyAdmission, BarrierClosed, BInv, BarrierAccurate, CanCloseBarrier, SelectionClosed
<1>4. BarrierNow(o) \in Barriers /\ BarrierNow(o).closed
  BY <1>3, BarrierDepth DEF BInv
<1>5. barrier' \in [Owners -> Barriers]
      /\ \A q \in Owners : barrier'[q] = IF q = o THEN BarrierNow(o) ELSE barrier[q]
  BY <1>1, <1>3, <1>4 DEF BInv
<1>6. \A q \in Owners, g \in Segments : BarrierRow(rows'[q][g], layer[q], Closed(q)')
  <2> TAKE q \in Owners, g \in Segments
  <2>1. /\ rows'[q][g].sel = rows[q][g].sel /\ rows'[q][g].depth = rows[q][g].depth
        /\ rows'[q][g].commit = rows[q][g].commit
        /\ q # o => rows'[q][g].gate2 = rows[q][g].gate2
    BY <1>1, Gate2Core
  <2>2. BarrierRow(rows[q][g], layer[q], Closed(q))
        /\ Closed(q)' = IF q = o THEN TRUE ELSE Closed(q)
    BY <1>4, <1>5 DEF BInv, Closed, Barriers
  <2> QED
    BY <2>1, <2>2 DEF BarrierRow
<1>7. BInv'
  BY <1>1, <1>2, <1>3, <1>5, <1>6, BarrierKept DEF Progress
<1> QED
  BY <1>2, <1>7, ProgressKeeps DEF BMoved, Moves

(* A final commit finds every segment resolved, as Gate 3 of schema 6 asks.*)
LEMMA ApplyFinalCommitMoved ==
    ASSUME IInv, BInv, NEW o \in Owners, NEW p \in plans[o], ApplyFinalCommit(o, p)
    PROVE  BMoved
<1>1. /\ p.kind = "gate3" /\ Closed(o) /\ UNCHANGED <<finished, layer, barrier>>
      /\ \A g \in p.accepted \cup p.rejected : FinalCommitEligible(o, g)
      /\ Becomes(Gate3Applied(World, o, p.accepted, p.rejected))
      /\ plans' = [plans EXCEPT ![o] = @ \ {p}]
  BY DEF ApplyFinalCommit
<1>2. \A g \in p.accepted \cup p.rejected : ReadyToCommit(rows[o][g])
  BY <1>1 DEF FinalCommitEligible
<1>3. Progress /\ Refined(o, p.accepted, p.rejected)
  BY <1>1, <1>2, Gate3Progress
<1>4. \A g \in p.accepted : Gate3Eligible(o, g)
  <2>1. \A g \in Segments : Resolved(rows[o][g])
    BY <1>1 DEF BInv, BarrierAccurate
  <2>2. PolicyOf[o] \in Policies
    BY RequestShape
  <2> QED
    BY <1>2, <2>1, <2>2 DEF Gate3Eligible, SelectionClosedFor, Policies
<1>5. Gate3Move(o)
  BY <1>3, <1>4 DEF Gate3Move, Refined
<1>6. \A q \in Owners, g \in Segments : BarrierRow(rows'[q][g], layer[q], Closed(q)')
  <2> TAKE q \in Owners, g \in Segments
  <2>1. rows'[q][g] = IF q = o /\ g \in p.accepted THEN AcceptedRow(rows[q][g])
                      ELSE IF q = o /\ g \in p.rejected THEN RejectedRow(rows[q][g])
                      ELSE rows[q][g]
    BY <1>3 DEF Refined
  <2>2. rows[q][g] \in Rows
    BY RowFacts
  <2>3. /\ rows'[q][g].sel = rows[q][g].sel /\ rows'[q][g].depth = rows[q][g].depth
        /\ q # o => rows'[q][g] = rows[q][g]
    BY <2>1, <2>2, AcceptedRowIs, RejectedRowIs
  <2>4. BarrierRow(rows[q][g], layer[q], Closed(q)) /\ Closed(q)' = Closed(q)
    BY <1>1 DEF BInv, Closed
  <2> QED
    BY <1>1, <2>3, <2>4 DEF BarrierRow
<1>7. BInv'
  BY <1>1, <1>3, <1>6, BarrierKept DEF Progress, BInv
<1> QED
  BY <1>3, <1>5, <1>7, ProgressKeeps DEF BMoved, Moves

(* Every step of the barrier controllers keeps the invariant and follows the chain of
   fates. *)
LEMMA BNextMoved ==
    ASSUME IInv, BInv, BNext
    PROVE  BMoved
<1>1. ASSUME NEW o \in Owners, NEW g \in Segments,
             \/ \E s \in Sources : SelectWinner(o, g, s) \/ SelectInVain(o, g, s)
             \/ SelectorAbstains(o, g)
             \/ \E r \in Replicas : BeginBarrierPrefetch(o, g, r)
      PROVE  BMoved
  BY <1>1, SelectWinnerMoved, SelectInVainMoved, SelectorAbstainsMoved, BarrierPrefetchMoved
<1>2. ASSUME NEW o \in Owners, NEW S \in SUBSET Segments,
             PlanDetached(o, S) \/ PlanAdmission(o, S)
      PROVE  BMoved
  BY <1>2, PlanPreparationMoved DEF PlanDetached, PlanAdmission
<1>3. ASSUME NEW o \in Owners, NEW p \in plans[o],
             ApplyDetached(o, p) \/ ApplyAdmission(o, p) \/ ApplyFinalCommit(o, p)
      PROVE  BMoved
  BY <1>3, ApplyDetachedMoved, ApplyAdmissionMoved, ApplyFinalCommitMoved
<1>4. ASSUME NEW o \in Owners,
             RunSecondDenseLayer(o) \/ CloseSelectionBarrier(o) \/ PlanFinalCommit(o)
      PROVE  BMoved
  BY <1>4, SecondLayerMoved, CloseMoved, PlanFinalCommitMoved
<1> QED
  BY <1>1, <1>2, <1>3, <1>4, InheritedMoved DEF BNext

(* Until the barrier closes no lease is for execution: a live one belongs  *)
(* to a row that is not admitted.                                          *)
LEMMA BInvDense ==
    ASSUME IInv, BInv
    PROVE  DenseUntilBarrier
<1> SUFFICES ASSUME NEW o \in Owners, ~Closed(o)
             PROVE  /\ \A g \in Segments : rows[o][g].commit = "uncommitted"
                                           /\ rows[o][g].gate2 # "provisional_reuse"
                    /\ \A l \in Live(mgr) :
                         mgr.lease[l].owner = o => mgr.lease[l].purpose # "execution"
  BY DEF DenseUntilBarrier
<1>1. \A g \in Segments : rows[o][g].commit = "uncommitted"
                          /\ rows[o][g].gate2 # "provisional_reuse"
  BY DEF BInv, BarrierRow
<1>2. ASSUME NEW l \in Live(mgr), mgr.lease[l].owner = o
      PROVE  mgr.lease[l].purpose # "execution"
  <2> DEFINE T == mgr.lease
             g == T[l].segment
             row == rows[o][g]
  <2>1. l \in DOMAIN T /\ T[l].state # "released" /\ mgr \in ManagerStates
    BY WorldParts DEF Live, Worlds
  <2>2. g \in Segments
    BY <2>1, RecordTypes
  <2>3. /\ RowFits(row, g \in finished[o]) /\ Leased(row, T, o, g, g \in finished[o])
    BY <2>2, RowFacts
  <2>4. NoId \notin DOMAIN T
    BY <2>1 DEF ManagerStates, NoId
  <2>5. l = IF T[l].replica = NoReplica THEN row.logical ELSE row.physical
    BY <1>2, <2>1, <2>3 DEF Leased
  <2>6. row.gate2 # "provisional_reuse"
    BY <1>1, <2>2
  <2>7. CASE T[l].replica = NoReplica
    <3>1. row.sel = "source_frozen"
      BY <2>1, <2>3, <2>4, <2>5, <2>7 DEF RowFits
    <3> QED
      BY <2>3, <2>5, <2>7, <3>1 DEF Leased
  <2>8. CASE T[l].replica # NoReplica
    <3>1. row.prep # "none"
      BY <2>1, <2>3, <2>4, <2>5, <2>8 DEF RowFits
    <3>2. row.gate2 = "deferred"
      BY <2>3, <2>6, <3>1 DEF RowFits
    <3> QED
      BY <2>3, <2>5, <2>8, <3>1, <3>2 DEF Leased
  <2> QED
    BY <2>7, <2>8
<1> QED
  BY <1>1, <1>2

(***************************************************************************)
(* The theorems of schema 8, and of either.                                *)
(***************************************************************************)
LEMMA BarrierStarts == BInit => BInv
<1> SUFFICES ASSUME BInit PROVE BInv
  OBVIOUS
<1>1. layer = [o \in Owners |-> 1] /\ barrier = [o \in Owners |-> NotClosed]
      /\ \A o \in Owners, g \in Segments : rows[o][g] = NewRow
  BY DEF BInit, Init
<1>2. NotClosed \in Barriers /\ ~NotClosed.closed
  BY DEF NotClosed, Barriers
<1>3. BarrierRow(NewRow, 1, FALSE)
  BY DEF BarrierRow, NewRow
<1>4. layer \in [Owners -> {1, 2}] /\ barrier \in [Owners -> Barriers]
  BY <1>1, <1>2
<1>5. \A o \in Owners : ~Closed(o)
  BY <1>1, <1>2 DEF Closed
<1> QED
  BY <1>1, <1>3, <1>4, <1>5 DEF BInv, BarrierAccurate, BarrierRow

BCausal == Causal /\ BInv

(* Initially the barrier controllers satisfy their invariant. *)
LEMMA BCausalStarts == BInit => BCausal
<1>1. BInit => Init
  BY DEF BInit
<1> QED
  BY <1>1, BarrierStarts, CausalStarts DEF BCausal

(* Every step of the barrier controllers keeps the invariant and follows the chain of
   fates. *)
LEMMA BCausalKept == BCausal /\ [BNext]_bvars => BCausal' /\ [Chain!Next]_Fate
<1>1. ASSUME BCausal, BNext PROVE BCausal' /\ [Chain!Next]_Fate
  <2>1. BMoved
    BY <1>1, BNextMoved DEF BCausal, Causal
  <2>2. [Chain!Next]_Fate
    BY <1>1, <2>1, MovesFollow DEF BCausal, Causal, BMoved
  <2> QED
    BY <1>1, <2>1, <2>2, MovesCausal DEF BCausal, Causal, BMoved
<1>2. ASSUME BCausal, UNCHANGED bvars PROVE BCausal' /\ [Chain!Next]_Fate
  <2>1. UNCHANGED vars /\ UNCHANGED <<layer, barrier>>
    BY <1>2 DEF bvars
  <2>2. Causal'
    BY <1>2, <2>1, CausalKept DEF BCausal
  <2>3. rows' = rows
    BY <2>1 DEF vars
  <2>4. BInv'
    <3>1. \A o \in Owners : BarrierNow(o)' = BarrierNow(o) /\ Closed(o)' = Closed(o)
      BY <2>1, <2>3 DEF BarrierNow, Closed
    <3>2. BarrierAccurate'
      BY <1>2, <2>1, <2>3, <3>1 DEF BCausal, BInv, BarrierAccurate
    <3>3. \A o \in Owners, g \in Segments : BarrierRow(rows'[o][g], layer'[o], Closed(o)')
      BY <1>2, <2>1, <2>3, <3>1 DEF BCausal, BInv
    <3> QED
      BY <1>2, <2>1, <3>2, <3>3 DEF BCausal, BInv
  <2>5. UNCHANGED Fate
    BY <2>3 DEF Fate, FateOf, Dense
  <2> QED
    BY <2>2, <2>4, <2>5 DEF BCausal
<1> QED
  BY <1>1, <1>2

(* The invariant of the barrier controllers holds throughout. *)
LEMMA SpecBCausal == BSpec => []BCausal
<1> QED
  BY BCausalStarts, BCausalKept, PTL DEF BSpec

(* A request of schema 8 decides its barrier once, over resolved segments, *)
(* and no deeper than it has run; the decision stays true of its rows.     *)
THEOREM BarrierStaysAccurate == BSpec => []BarrierAccurate
<1>1. BCausal => BarrierAccurate
  BY DEF BCausal, BInv
<1> QED
  BY <1>1, SpecBCausal, PTL

(* Until then it is dense: nothing is admitted or committed and no lease   *)
(* is for execution.                                                       *)
THEOREM DenseBeforeBarrier == BSpec => []DenseUntilBarrier
<1>1. BCausal => DenseUntilBarrier
  BY BInvDense DEF BCausal, Causal
<1> QED
  BY <1>1, SpecBCausal, PTL

(* The invariant of the run in which a request is of schema 6 or 8.        *)
LEMMA RInvStarts == RequestsInit => RInv
<1> SUFFICES ASSUME RequestsInit PROVE RInv
  OBVIOUS
<1>1. BInit /\ schema \in {6, 8}
  BY DEF RequestsInit
<1>2. Causal /\ BInv
  BY <1>1, BCausalStarts DEF BCausal
<1>3. \A o \in Owners : ~Closed(o)
  BY <1>1 DEF BInit, Closed, NotClosed
<1> QED
  BY <1>1, <1>2, <1>3 DEF RInv, Causal

(* Every step of the requests, under whichever schema runs, keeps the invariant and
   follows the chain. *)
LEMMA RInvKept == RInv /\ [RequestsNext]_<<schema, bvars>> => RInv' /\ [Chain!Next]_Fate
<1> SUFFICES ASSUME RInv, [RequestsNext]_<<schema, bvars>>
             PROVE  RInv' /\ [Chain!Next]_Fate
  OBVIOUS
<1>1. schema' = schema /\ schema \in {6, 8}
  BY DEF RequestsNext, RInv
<1>2. CASE schema = 8
  <2>1. [BNext]_bvars
    BY <1>2 DEF RequestsNext
  <2> QED
    BY <1>1, <1>2, <2>1, BCausalKept DEF RInv, BCausal, Causal
<1>3. CASE schema = 6
  <2>1. [Next]_vars /\ barrier' = barrier
    BY <1>3 DEF RequestsNext, bvars
  <2>2. Causal'
    BY <2>1, CausalKept DEF RInv, Causal
  <2>3. [Chain!Next]_Fate
    <3>1. CASE Next
      BY <3>1, NextMoves, MovesFollow DEF RInv
    <3>2. CASE UNCHANGED vars
      BY <3>2 DEF vars, Fate, FateOf, Dense
    <3> QED
      BY <2>1, <3>1, <3>2
  <2>4. \A o \in Owners : ~Closed(o)'
    BY <1>3, <2>1 DEF RInv, Closed
  <2> QED
    BY <1>1, <1>3, <2>2, <2>3, <2>4 DEF RInv, Causal
<1> QED
  BY <1>1, <1>2, <1>3

(* The invariant of the requests holds throughout, under whichever schema runs. *)
LEMMA SpecRInv == RequestsSpec => []RInv
<1> QED
  BY RInvStarts, RInvKept, PTL DEF RequestsSpec

(* Whatever the schema: a prepared segment owns what protects and pays for *)
(* its copy ...                                                            *)
THEOREM EitherOwnsPreparation == RequestsSpec => []PreparationOwned
<1>1. RInv => PreparationOwned
  BY IInvOwned DEF RInv
<1> QED
  BY <1>1, SpecRInv, PTL

(* ... a commit waits for the selection of the segments it could alter ... *)
THEOREM EitherCommitsCausally == RequestsSpec => []CausalCommit
<1>1. RInv => CausalCommit
  BY DEF RInv
<1> QED
  BY <1>1, SpecRInv, PTL

(* ... a request of schema 8 is dense until its barrier closes ...         *)
THEOREM EitherDenseFirst == RequestsSpec => []DenseFirst
<1>1. RInv => DenseFirst
  BY BInvDense DEF RInv, DenseFirst
<1> QED
  BY <1>1, SpecRInv, PTL

(* ... whose barrier is accurate ...                                       *)
THEOREM EitherBarrierAccurate == RequestsSpec => []BarrierAccurate
<1>1. RInv => BarrierAccurate
  BY DEF RInv, BInv, BarrierAccurate
<1> QED
  BY <1>1, SpecRInv, PTL

(* ... and the fates of its segments follow the public chain.              *)
THEOREM EitherFollowsChain == RequestsSpec => FollowsChain
<1>1. RequestsInit => Chain!Init
  BY ChainStarts DEF RequestsInit, BInit
<1>2. RequestsSpec => Chain!Init /\ [][Chain!Next]_Fate
  BY <1>1, RInvKept, SpecRInv, PTL DEF RequestsSpec
<1> QED
  BY <1>2, PTL DEF FollowsChain, Chain!Spec, Fate

(***************************************************************************)
(* The transfers the authorizer hands out.                                 *)
(*                                                                         *)
(* A released authorization leaves its record as it was, uncommitted but   *)
(* with nothing prepared, which in the schema-6 controller no segment that *)
(* holds nothing is.  Its ghost is the row of a segment refined to dense,  *)
(* and the session with the ghosts in place is a world the lemmas above    *)
(* speak of.  No method looks at the row of another request, so what they  *)
(* do to the session they do to its ghost.                                 *)
(***************************************************************************)
Nothing == [o \in Owners |-> {}]

GhostRow(row, a) == IF a = "released" THEN [row EXCEPT !.commit = "refined_dense"] ELSE row

GhostRows ==
    [o \in Owners |-> [g \in Segments |->
        IF g = segment THEN GhostRow(records[o][g], auth[o]) ELSE records[o][g]]]

Ghost == At(GhostRows, ledger, memory)

(* What the row of an authorization says of it.                            *)
Stands(row, a) ==
    /\ a = "unused" => row = NewRow
    /\ a \in {"failed", "released"} => row.prep = "none"
    /\ a \in {"held", "ready"} =>
         /\ row.sel = "source_frozen" /\ row.gate2 = "provisional_reuse"
         /\ row.commit = "uncommitted"
         /\ row.prep = IF a = "held" THEN "prefetching" ELSE "ready"

(* A live lease for an execution executes.                                 *)
Running(m) ==
    \A l \in DOMAIN m.lease :
        m.lease[l].state # "released" /\ m.lease[l].purpose = "execution" => m.lease[l].exec

AuthInv ==
    /\ records \in RowTables /\ auth \in [Owners -> AuthStates]
    /\ WorldFits(Ghost, Nothing) /\ Running(ledger)
    /\ \A o \in Owners :
         /\ \A g \in Segments : g # segment => records[o][g] = NewRow
         /\ Stands(records[o][segment], auth[o])

(* The session has a segment, and an empty row is a row.                   *)
LEMMA TheSegment == segment \in Segments /\ NewRow \in Rows
<1>1. segment \in Segments
  BY SessionShape, Zenon DEF segment
<1>2. NewRow \in Rows
  BY DEF NewRow, Rows, Selections, Dispositions, Preparations, Commits, NoId
<1> QED
  BY <1>1, <1>2

(* A row and its ghost are rows.                                           *)
LEMMA GhostType ==
    ASSUME NEW row \in Rows, NEW a
    PROVE  GhostRow(row, a) \in Rows
BY DEF GhostRow, Rows, Commits

(* The ghosts make a row table.                                            *)
LEMMA GhostsAre ==
    ASSUME AuthInv
    PROVE  /\ GhostRows \in RowTables /\ ledger \in ManagerStates /\ memory \in HbmStates
           /\ Good(ledger) /\ NoSuspects(ledger) /\ ReserveKept(memory)
           /\ Ghost.rows = GhostRows /\ Ghost.m = ledger /\ Ghost.h = memory
           /\ Session \in Worlds /\ Session = At(records, ledger, memory)
           /\ \A o \in Owners :
                /\ records[o][segment] \in Rows
                /\ GhostRows[o][segment] = GhostRow(records[o][segment], auth[o])
<1>1. Ghost.rows = GhostRows /\ Ghost.m = ledger /\ Ghost.h = memory
  BY DEF Ghost, At
<1>2. Ghost \in Worlds /\ Good(Ghost.m) /\ NoSuspects(Ghost.m) /\ ReserveKept(Ghost.h)
  BY DEF AuthInv, WorldFits
<1>3. GhostRows \in RowTables /\ ledger \in ManagerStates /\ memory \in HbmStates
  BY <1>1, <1>2 DEF Worlds, RowTables
<1>4. \A o \in Owners :
        /\ records[o][segment] \in Rows
        /\ GhostRows[o][segment] = GhostRow(records[o][segment], auth[o])
  BY TheSegment DEF AuthInv, RowTables, GhostRows
<1>5. Session = At(records, ledger, memory) /\ Session \in Worlds
  BY <1>3 DEF Session, At, Worlds, AuthInv, RowTables
<1> QED
  BY <1>1, <1>2, <1>3, <1>4, <1>5

(* Writing the row of one authorization writes its ghost.                  *)
LEMMA AuthStep ==
    ASSUME AuthInv, NEW o \in Owners, NEW x \in Rows, NEW a \in AuthStates, Stands(x, a),
           NEW m, NEW h, Running(m),
           WorldFits(At(WithRow(GhostRows, o, segment, GhostRow(x, a)), m, h), Nothing),
           records' = WithRow(records, o, segment, x), ledger' = m, memory' = h,
           auth' = [auth EXCEPT ![o] = a]
    PROVE  AuthInv'
<1>1. records \in RowTables /\ auth \in [Owners -> AuthStates] /\ segment \in Segments
  BY TheSegment DEF AuthInv
<1>2. /\ records' \in RowTables /\ records'[o][segment] = x
      /\ \A p \in Owners, k \in Segments :
           p # o \/ k # segment => records'[p][k] = records[p][k]
  BY <1>1, WithRowType
<1>3. /\ auth' \in [Owners -> AuthStates] /\ auth'[o] = a
      /\ \A p \in Owners : p # o => auth'[p] = auth[p]
  BY <1>1
<1>4. GhostRows' = WithRow(GhostRows, o, segment, GhostRow(x, a))
  <2> DEFINE q == WithRow(GhostRows, o, segment, GhostRow(x, a))
  <2>1. /\ q \in RowTables /\ q[o][segment] = GhostRow(x, a)
        /\ \A p \in Owners, k \in Segments :
             p # o \/ k # segment => q[p][k] = GhostRows[p][k]
    BY <1>1, GhostsAre, GhostType, WithRowType
  <2>2. \A p \in Owners, k \in Segments : GhostRows'[p][k] = q[p][k]
    BY <1>1, <1>2, <1>3, <2>1 DEF GhostRows
  <2> HIDE DEF q
  <2>3. /\ GhostRows' = [p \in Owners |-> [k \in Segments |-> GhostRows'[p][k]]]
        /\ q = [p \in Owners |-> [k \in Segments |-> q[p][k]]]
    BY <2>1 DEF GhostRows, RowTables
  <2>4. GhostRows' = q
    <3> DEFINE r == GhostRows'
    <3>1. r = [p \in Owners |-> [k \in Segments |-> r[p][k]]]
      BY <2>3
    <3>2. \A p \in Owners, k \in Segments : r[p][k] = q[p][k]
      BY <2>2
    <3> HIDE DEF r
    <3>3. [p \in Owners |-> [k \in Segments |-> r[p][k]]]
            = [p \in Owners |-> [k \in Segments |-> q[p][k]]]
      BY <3>2
    <3>4. r = q
      BY <2>3, <3>1, <3>3
    <3> QED
      BY <3>4 DEF r
  <2> QED
    BY <2>4 DEF q
<1>5. WorldFits(Ghost', Nothing)
  <2>1. Ghost' = At(GhostRows', m, h)
    BY DEF Ghost, At
  <2> QED
    BY <1>4, <2>1
<1>6. \A p \in Owners :
        /\ \A g \in Segments : g # segment => records'[p][g] = NewRow
        /\ Stands(records'[p][segment], auth'[p])
  <2>1. \A p \in Owners :
          /\ \A g \in Segments : g # segment => records[p][g] = NewRow
          /\ Stands(records[p][segment], auth[p])
    BY DEF AuthInv
  <2> QED
    BY <1>1, <1>2, <1>3, <2>1
<1> QED
  BY <1>2, <1>3, <1>5, <1>6 DEF AuthInv, segment

(* A step of the managers alone leaves every authorization standing.       *)
LEMMA AuthStay ==
    ASSUME AuthInv, NEW m, NEW h, Running(m), WorldFits(At(GhostRows, m, h), Nothing),
           records' = records, auth' = auth, ledger' = m, memory' = h
    PROVE  AuthInv'
<1>1. Ghost' = At(GhostRows, m, h)
  BY DEF Ghost, GhostRows, At, segment
<1> QED
  BY <1>1 DEF AuthInv, segment

(* register_source and register_replica touch no lease.                    *)
LEMMA PoolFits ==
    ASSUME NEW w, NEW fin, WorldFits(w, fin), NEW m, Good(m), m.lease = w.m.lease
    PROVE  WorldFits(At(w.rows, m, w.h), fin)
<1> DEFINE v == At(w.rows, m, w.h)
<1>1. w \in Worlds /\ NoSuspects(w.m) /\ ReserveKept(w.h)
      /\ w.rows \in RowTables /\ w.h \in HbmStates
  BY DEF WorldFits, Worlds, RowTables
<1>2. NoSuspects(m) /\ m \in ManagerStates
  BY <1>1 DEF NoSuspects, Good
<1>3. v \in Worlds /\ v.rows = w.rows /\ v.m = m /\ v.h = w.h
  BY <1>1, <1>2, AtWorld
<1> HIDE DEF v
<1>4. \A o \in Owners, g \in Segments :
        Fit(w.rows[o][g], w.m.lease, w.h.rows, o, g, g \in fin[o])
  BY DEF WorldFits
<1>5. WorldFits(v, fin)
  BY <1>1, <1>2, <1>3, <1>4 DEF WorldFits
<1> QED
  BY <1>5 DEF v

(* The pool as an authorization finds it, its Replica registered.          *)
LEMMA RegisteredGood ==
    ASSUME NEW m, Good(m), NEW r \in Replicas
    PROVE  /\ Good(RegisterSource(m, SourceOf[r])) /\ RegisterSource(m, SourceOf[r]).lease = m.lease
           /\ CanRegisterFor(m, r) =>
                Good(RegisteredFor(m, r)) /\ RegisteredFor(m, r).lease = m.lease
<1> DEFINE known == RegisterSource(m, SourceOf[r])
<1>1. SourceOf[r] \in Sources
  BY PoolShape
<1>2. Good(known)
  BY <1>1, RegisterSourceGood
<1>3. known.lease = m.lease
  BY DEF RegisterSource, Good, ManagerStates
<1>4. ASSUME CanRegisterFor(m, r)
      PROVE  Good(RegisteredFor(m, r)) /\ RegisteredFor(m, r).lease = m.lease
  <2>1. known.life[r] = "absent" => CanRegisterReplica(known, r, TRUE)
    BY <1>4 DEF CanRegisterFor
  <2>2. RegisteredFor(m, r) = IF known.life[r] = "absent"
                              THEN RegisterReplica(known, r, TRUE, "ready") ELSE known
    BY DEF RegisteredFor
  <2> HIDE DEF known
  <2>3. RegisterReplica(known, r, TRUE, "ready").lease = known.lease
    BY <1>2 DEF RegisterReplica, Good, ManagerStates
  <2>4. known.life[r] = "absent" => Good(RegisterReplica(known, r, TRUE, "ready"))
    BY <1>2, <2>1, RegisterReplicaGood
  <2> QED
    BY <1>2, <1>3, <2>2, <2>3, <2>4
<1> QED
  BY <1>2, <1>3, <1>4

(***************************************************************************)
(* authorize(), method by method: what it makes of the session and of its  *)
(* ghost, which differ in the rows of other requests only.                 *)
(***************************************************************************)
Tracks(w, v, o) ==
    /\ w \in Worlds /\ w.m = v.m /\ w.h = v.h
    /\ w.rows = WithRow(records, o, segment, w.rows[o][segment])
    /\ v.rows = WithRow(GhostRows, o, segment, w.rows[o][segment])
    /\ WorldFits(v, Nothing) /\ Running(w.m)

(* The session and its ghost show a method the same.                       *)
LEMMA TracksSame ==
    ASSUME AuthInv, NEW o \in Owners, NEW w, NEW v, Tracks(w, v, o)
    PROVE  /\ w \in Worlds /\ v \in Worlds /\ w.m = v.m /\ w.h = v.h
           /\ w.rows[o][segment] = v.rows[o][segment] /\ w.rows[o][segment] \in Rows
           /\ Good(v.m) /\ NoSuspects(v.m) /\ segment \in Segments
<1>1. segment \in Segments /\ w \in Worlds /\ v \in Worlds
  BY TheSegment DEF Tracks, WorldFits
<1>2. w.rows[o][segment] \in Rows
  BY <1>1, RowTypes
<1>3. v.rows[o][segment] = w.rows[o][segment]
  BY <1>1, <1>2, GhostsAre, WithRowType DEF Tracks
<1> QED
  BY <1>1, <1>2, <1>3 DEF Tracks, WorldFits

(* A method that writes the row and the managers does the same to both.    *)
LEMMA TracksStep ==
    ASSUME AuthInv, NEW o \in Owners, NEW w, NEW v, Tracks(w, v, o),
           NEW x, NEW m, NEW h, Running(m),
           WorldFits(At(WithRow(v.rows, o, segment, x), m, h), Nothing)
    PROVE  /\ Tracks(At(WithRow(w.rows, o, segment, x), m, h),
                     At(WithRow(v.rows, o, segment, x), m, h), o)
           /\ At(WithRow(w.rows, o, segment, x), m, h).rows[o][segment] = x
<1> DEFINE q == WithRow(v.rows, o, segment, x)
           r == WithRow(w.rows, o, segment, x)
           a == At(r, m, h)
           b == At(q, m, h)
<1>1. /\ w \in Worlds /\ v \in Worlds /\ segment \in Segments
      /\ w.rows \in RowTables /\ v.rows \in RowTables
      /\ records \in RowTables /\ GhostRows \in RowTables
  BY TracksSame, WorldAt, GhostsAre DEF AuthInv
<1>2. a.rows = r /\ a.m = m /\ a.h = h /\ b.rows = q /\ b.m = m /\ b.h = h
  BY DEF At
<1>3. b \in Worlds
  BY DEF WorldFits
<1>4. q \in RowTables /\ m \in ManagerStates /\ h \in HbmStates
  BY <1>2, <1>3 DEF Worlds, RowTables
<1>5. q[o][segment] = x
  BY <1>1 DEF WithRow, RowTables
<1>6. x \in Rows
  BY <1>1, <1>4, <1>5 DEF RowTables
<1>7. r \in RowTables /\ r[o][segment] = x
  BY <1>1, <1>6, WithRowType
<1>8. a \in Worlds
  BY <1>4, <1>7, AtWorld
<1>9. r = WithRow(records, o, segment, x) /\ q = WithRow(GhostRows, o, segment, x)
  <2>1. ASSUME NEW t \in RowTables, NEW y
        PROVE  WithRow(WithRow(t, o, segment, y), o, segment, x) = WithRow(t, o, segment, x)
    BY <1>1 DEF WithRow, RowTables
  <2> DEFINE y == w.rows[o][segment]
  <2>2. w.rows = WithRow(records, o, segment, y) /\ v.rows = WithRow(GhostRows, o, segment, y)
    BY DEF Tracks
  <2> HIDE DEF y
  <2> QED
    BY <1>1, <2>1, <2>2
<1> HIDE DEF q, r, a, b
<1> QED
  BY <1>2, <1>7, <1>8, <1>9 DEF Tracks, a, b, q, r

(* decision_ready.                                                         *)
LEMMA DecideTracks ==
    ASSUME AuthInv, NEW o \in Owners, NEW w, NEW v, Tracks(w, v, o),
           NEW s \in Sources, w.rows[o][segment] = NewRow
    PROVE  LET a == DecisionReady(w, o, segment, s, 1)
           IN  /\ Tracks(a, DecisionReady(v, o, segment, s, 1), o)
               /\ a.rows[o][segment] = DecidedRow(NewRow, s, 1)
<1> DEFINE x == DecidedRow(w.rows[o][segment], s, 1)
<1>1. w \in Worlds /\ v \in Worlds /\ w.rows[o][segment] = v.rows[o][segment]
      /\ w.m = v.m /\ w.h = v.h /\ segment \in Segments
  BY TracksSame
<1>2. ASSUME NEW u \in Worlds
      PROVE  DecisionReady(u, o, segment, s, 1)
               = At(WithRow(u.rows, o, segment, DecidedRow(u.rows[o][segment], s, 1)), u.m, u.h)
  <2> DEFINE y == DecidedRow(u.rows[o][segment], s, 1)
  <2>1. DecisionReady(u, o, segment, s, 1) = [u EXCEPT !.rows[o][segment] = y]
    BY DEF DecisionReady, DecidedRow
  <2>2. u = At(u.rows, u.m, u.h)
    BY WorldAt
  <2> HIDE DEF y
  <2>3. [u EXCEPT !.rows[o][segment] = y] = At(WithRow(u.rows, o, segment, y), u.m, u.h)
    BY <2>2, RowWritten
  <2> QED
    BY <2>1, <2>3 DEF y
<1>3. CanDecisionReady(v, o, segment)
  BY <1>1 DEF CanDecisionReady, NewRow
<1>4. WorldFits(DecisionReady(v, o, segment, s, 1), Nothing) /\ 1 \in Nat
  BY <1>1, <1>3, DecideFits DEF Tracks
<1>5. /\ DecisionReady(w, o, segment, s, 1) = At(WithRow(w.rows, o, segment, x), v.m, v.h)
      /\ DecisionReady(v, o, segment, s, 1) = At(WithRow(v.rows, o, segment, x), v.m, v.h)
  BY <1>1, <1>2
<1> HIDE DEF x
<1>6. Running(v.m)
  BY <1>1 DEF Tracks
<1>7. /\ Tracks(DecisionReady(w, o, segment, s, 1), DecisionReady(v, o, segment, s, 1), o)
      /\ DecisionReady(w, o, segment, s, 1).rows[o][segment] = x
  BY <1>4, <1>5, <1>6, TracksStep
<1> QED
  BY <1>7 DEF x

(* gate1 with a passed plan.                                               *)
LEMMA Gate1Tracks ==
    ASSUME AuthInv, NEW o \in Owners, NEW w, NEW v, Tracks(w, v, o),
           CanGate1Pass(w, o, segment)
    PROVE  LET a == Gate1Passed(w, o, segment)
           IN  /\ Tracks(a, Gate1Passed(v, o, segment), o)
               /\ \E k : a.rows[o][segment] = Frozen(w.rows[o][segment], k)
<1> DEFINE row == w.rows[o][segment]
           k == Len(w.m.lease) + 1
           m == FreezeAndAcquireLogical(w.m, o, segment, row.source, 0, Now)
           x == Frozen(row, k)
<1>1. w \in Worlds /\ v \in Worlds /\ row = v.rows[o][segment] /\ row \in Rows
      /\ w.m = v.m /\ w.h = v.h /\ segment \in Segments /\ Good(w.m) /\ NoSuspects(w.m)
  BY TracksSame
<1>2. CanGate1Pass(v, o, segment)
  BY <1>1 DEF CanGate1Pass, CanGate1
<1>3. WorldFits(Gate1Passed(v, o, segment), Nothing)
  BY <1>1, <1>2, Gate1PassFits DEF Tracks
<1>4. /\ Gate1Passed(w, o, segment) = At(WithRow(w.rows, o, segment, x), m, v.h)
      /\ Gate1Passed(v, o, segment) = At(WithRow(v.rows, o, segment, x), m, v.h)
  BY <1>1, Gate1PassedIs
<1>5. row.source \in Sources /\ CanFreeze(w.m, o, segment, row.source)
  <2>1. Fit(v.rows[o][segment], v.m.lease, v.h.rows, o, segment, segment \in Nothing[o])
    BY <1>1 DEF Tracks, WorldFits
  <2>2. row.sel = "decision_ready" /\ CanFreeze(w.m, o, segment, row.source)
    BY DEF CanGate1Pass, CanGate1
  <2> QED
    BY <1>1, <2>1, <2>2 DEF Fit, RowFits
<1>6. /\ DOMAIN m.lease = DOMAIN w.m.lease \cup {k}
      /\ m.lease[k].purpose = "logical"
      /\ \A l \in DOMAIN w.m.lease : m.lease[l] = w.m.lease[l]
  BY <1>1, <1>5, FreezeStep
<1> HIDE DEF m, k, x
<1>7. Running(m)
  BY <1>6 DEF Running, Tracks
<1>8. /\ Tracks(Gate1Passed(w, o, segment), Gate1Passed(v, o, segment), o)
      /\ Gate1Passed(w, o, segment).rows[o][segment] = x
  BY <1>3, <1>4, <1>7, TracksStep
<1> QED
  BY <1>8 DEF x

(* apply_gate2, which admits the one segment.                              *)
LEMMA AdmitTracks ==
    ASSUME AuthInv, NEW o \in Owners, NEW w, NEW v, Tracks(w, v, o),
           w.rows[o][segment].sel = "source_frozen",
           w.rows[o][segment].gate2 = "not_evaluated"
    PROVE  LET a == Gate2Row(w, o, segment, "provisional_reuse")
           IN  /\ Tracks(a, Gate2Row(v, o, segment, "provisional_reuse"), o)
               /\ a.rows[o][segment] = MovedRow(w.rows[o][segment], "provisional_reuse")
<1> DEFINE row == w.rows[o][segment]
           x == MovedRow(row, "provisional_reuse")
<1>1. w \in Worlds /\ v \in Worlds /\ row = v.rows[o][segment] /\ row \in Rows
      /\ w.m = v.m /\ w.h = v.h /\ segment \in Segments
  BY TracksSame
<1>2. Movable(row, "provisional_reuse")
  BY DEF Movable, Gate2Refuses
<1>3. WorldFits(Gate2Row(v, o, segment, "provisional_reuse"), Nothing)
  BY <1>1, <1>2, KeptFits DEF Tracks
<1>4. /\ Gate2Row(w, o, segment, "provisional_reuse") = At(WithRow(w.rows, o, segment, x), v.m, v.h)
      /\ Gate2Row(v, o, segment, "provisional_reuse") = At(WithRow(v.rows, o, segment, x), v.m, v.h)
  BY <1>1, KeptIs
<1> HIDE DEF x
<1>5. Running(v.m)
  BY <1>1 DEF Tracks
<1>6. /\ Tracks(Gate2Row(w, o, segment, "provisional_reuse"),
                Gate2Row(v, o, segment, "provisional_reuse"), o)
      /\ Gate2Row(w, o, segment, "provisional_reuse").rows[o][segment] = x
  BY <1>3, <1>4, <1>5, TracksStep
<1> QED
  BY <1>6 DEF x

(* begin_winner_prefetch, with the copy's HBM or without.                  *)
LEMMA PrefetchTracks ==
    ASSUME AuthInv, NEW o \in Owners, NEW w, NEW v, Tracks(w, v, o),
           NEW r \in Replicas, NEW admitted \in BOOLEAN,
           CanBeginPrefetch(w, o, segment, r, admitted),
           w.rows[o][segment].commit = "uncommitted"
    PROVE  LET a == BeginPrefetch(w, o, segment, r, admitted)
               row == w.rows[o][segment]
           IN  /\ Tracks(a, BeginPrefetch(v, o, segment, r, admitted), o)
               /\ \/ a.rows[o][segment] = row
                  \/ \E l, i : a.rows[o][segment] = PrefetchedRow(row, l, i)
<1> DEFINE row == w.rows[o][segment]
           m == PrefetchLease(w, o, segment, r, admitted)
           purpose == PrefetchPurpose(row, admitted)
           q == Binding(w, o, segment, r, purpose)
           k == Len(w.m.lease) + 1
<1>1. w \in Worlds /\ v \in Worlds /\ row = v.rows[o][segment] /\ row \in Rows
      /\ w.m = v.m /\ w.h = v.h /\ segment \in Segments /\ Good(w.m) /\ NoSuspects(w.m)
      /\ WorldFits(v, Nothing)
  BY TracksSame DEF Tracks
<1>2. CanBeginPrefetch(v, o, segment, r, admitted)
  BY <1>1 DEF CanBeginPrefetch, Binding
<1>3. m = PrefetchLease(v, o, segment, r, admitted)
  BY <1>1 DEF PrefetchLease, Binding
<1>4. q \in BatchRequests /\ q.purpose = purpose /\ CanLeaseBatch(w.m, o, <<q>>, NoCap)
  <2>1. q = Binding(v, o, segment, r, PrefetchPurpose(v.rows[o][segment], admitted))
    BY <1>1 DEF Binding
  <2> QED
    BY <1>1, <1>2, <2>1, BindingType
<1>5. Granted(w.m, m, k, o, q)
  BY <1>1, <1>4, GrantStep DEF PrefetchLease
<1>6. row.commit = "uncommitted"
  OBVIOUS
<1> HIDE DEF m, q, purpose, k
<1>7. Running(m) /\ Good(m) /\ NoSuspects(m) /\ Len(m.lease) \in DOMAIN m.lease
  BY <1>5, <1>4 DEF Granted, Running, Tracks
<1>8. CASE CanReserve(w.h, SizeOf[r])
  <2> DEFINE h == Reserve(v.h, o, segment, SizeOf[r], ReservationKind(purpose))
             x == PrefetchedRow(row, Len(m.lease), Len(v.h.rows) + 1)
  <2>1. WorldFits(BeginPrefetch(v, o, segment, r, admitted), Nothing)
    BY <1>1, <1>2, <1>6, <1>8, PrefetchedFits
  <2>2. /\ BeginPrefetch(w, o, segment, r, admitted) = At(WithRow(w.rows, o, segment, x), m, h)
        /\ BeginPrefetch(v, o, segment, r, admitted) = At(WithRow(v.rows, o, segment, x), m, h)
    BY <1>1, <1>3, <1>8, PrefetchIs DEF m, purpose
  <2> HIDE DEF x, h
  <2>3. /\ Tracks(BeginPrefetch(w, o, segment, r, admitted), BeginPrefetch(v, o, segment, r, admitted), o)
        /\ BeginPrefetch(w, o, segment, r, admitted).rows[o][segment] = x
    BY <1>7, <2>1, <2>2, TracksStep
  <2> QED
    BY <2>3 DEF x
<1>9. CASE ~CanReserve(w.h, SizeOf[r])
  <2> DEFINE n == Release(m, Len(m.lease), "request")
  <2>1. WorldFits(BeginPrefetch(v, o, segment, r, admitted), Nothing)
    BY <1>1, <1>2, <1>9, RefusedFits
  <2>2. /\ BeginPrefetch(w, o, segment, r, admitted) = At(w.rows, n, v.h)
        /\ BeginPrefetch(v, o, segment, r, admitted) = At(v.rows, n, v.h)
    BY <1>1, <1>3, <1>9, RefusedIs DEF m
  <2>3. OneLease(m, n, Len(m.lease)) /\ n.lease[Len(m.lease)].state = "released"
    BY <1>7, GiveBackStep
  <2> HIDE DEF n
  <2>4. Running(n)
    BY <1>7, <2>3 DEF Running, OneLease
  <2>5. WithRow(w.rows, o, segment, row) = w.rows /\ WithRow(v.rows, o, segment, row) = v.rows
    BY <1>1, WorldAt DEF WithRow, RowTables
  <2> HIDE DEF row
  <2>6. /\ Tracks(BeginPrefetch(w, o, segment, r, admitted), BeginPrefetch(v, o, segment, r, admitted), o)
        /\ BeginPrefetch(w, o, segment, r, admitted).rows[o][segment] = row
    BY <2>1, <2>2, <2>4, <2>5, TracksStep
  <2> QED
    BY <2>6 DEF row
<1> QED
  BY <1>8, <1>9

(* authorize() as a whole, whether it hands an authorization out or the    *)
(* reservation of the copy fails.                                          *)
LEMMA AuthorizeKeeps ==
    ASSUME AuthInv, NEW o \in Owners, NEW r \in Replicas, Authorize(o, r)
    PROVE  AuthInv'
<1> DEFINE m == RegisteredFor(ledger, r)
           s == SourceOf[r]
           w0 == [Session EXCEPT !.m = RegisteredFor(@, r)]
           w1 == DecisionReady(w0, o, segment, s, 1)
           w2 == Gate1Passed(w1, o, segment)
           w3 == Gate2Row(w2, o, segment, "provisional_reuse")
           w4 == BeginPrefetch(w3, o, segment, r, FALSE)
           v0 == At(GhostRows, m, memory)
           v1 == DecisionReady(v0, o, segment, s, 1)
           v2 == Gate1Passed(v1, o, segment)
           v3 == Gate2Row(v2, o, segment, "provisional_reuse")
           v4 == BeginPrefetch(v3, o, segment, r, FALSE)
           a == IF w4.rows[o][segment].prep = "prefetching" THEN "held" ELSE "failed"
           x == w4.rows[o][segment]
<1>1. /\ auth[o] = "unused" /\ CanRegisterFor(ledger, r)
      /\ CanGate1Pass(w1, o, segment) /\ CanBeginPrefetch(w3, o, segment, r, FALSE)
      /\ Reaches(w4) /\ auth' = [auth EXCEPT ![o] = a]
  BY DEF Authorize
<1>2. Good(m) /\ m.lease = ledger.lease
  BY <1>1, GhostsAre, RegisteredGood
<1>3. records[o][segment] = NewRow /\ s \in Sources
  BY <1>1, PoolShape DEF AuthInv, Stands
<1>4. w0 = At(records, m, memory)
  <2>1. w0 = [Session EXCEPT !.m = m]
    BY GhostsAre DEF Session
  <2> HIDE DEF m, w0
  <2> QED
    BY <2>1 DEF Session, At
<1> HIDE DEF w0
<1>5. Tracks(w0, v0, o)
  <2>1. WorldFits(v0, Nothing)
    <3> HIDE DEF m
    <3>1. WorldFits(At(Ghost.rows, m, Ghost.h), Nothing)
      BY <1>2, GhostsAre, PoolFits DEF AuthInv
    <3> QED
      BY <3>1, GhostsAre
  <2> HIDE DEF m
  <2>2. w0.rows = records /\ w0.m = m /\ w0.h = memory
        /\ v0.rows = GhostRows /\ v0.m = m /\ v0.h = memory
    BY <1>4 DEF At
  <2>3. w0 \in Worlds
    BY <1>2, <1>4, GhostsAre, AtWorld DEF AuthInv, Good
  <2>4. Running(m)
    BY <1>2 DEF AuthInv, Running
  <2>5. GhostRows[o][segment] = records[o][segment]
    BY <1>1, GhostsAre DEF GhostRow
  <2>6. /\ records = WithRow(records, o, segment, records[o][segment])
        /\ GhostRows = WithRow(GhostRows, o, segment, GhostRows[o][segment])
    BY GhostsAre DEF WithRow, RowTables, AuthInv
  <2> HIDE DEF v0
  <2> QED
    BY <2>1, <2>2, <2>3, <2>4, <2>5, <2>6 DEF Tracks
<1>6. w0.rows[o][segment] = NewRow
  BY <1>3, <1>4 DEF At
<1> HIDE DEF m, v0
<1>7. Tracks(w1, v1, o) /\ w1.rows[o][segment] = DecidedRow(NewRow, s, 1)
  BY <1>3, <1>5, <1>6, DecideTracks
<1> HIDE DEF w1, v1
<1>8. Tracks(w2, v2, o) /\ \E k : w2.rows[o][segment] = Frozen(DecidedRow(NewRow, s, 1), k)
  BY <1>1, <1>7, Gate1Tracks
<1>9. /\ w2.rows[o][segment].sel = "source_frozen" /\ w2.rows[o][segment].gate2 = "not_evaluated"
      /\ w2.rows[o][segment].prep = "none" /\ w2.rows[o][segment].commit = "uncommitted"
      /\ w2.rows[o][segment] \in Rows
  <2>1. /\ NewRow.gate2 = "not_evaluated" /\ NewRow.prep = "none"
        /\ NewRow.commit = "uncommitted"
    BY DEF NewRow
  <2>2. \A k : LET y == Frozen(DecidedRow(NewRow, s, 1), k)
               IN  /\ y.sel = "source_frozen" /\ y.gate2 = "not_evaluated"
                   /\ y.prep = "none" /\ y.commit = "uncommitted"
    BY DEF Frozen, DecidedRow, NewRow
  <2>3. w2.rows[o][segment] \in Rows
    BY <1>8, TracksSame
  <2> QED
    BY <1>8, <2>2, <2>3
<1> HIDE DEF w2, v2
<1>10. /\ Tracks(w3, v3, o)
       /\ w3.rows[o][segment] = MovedRow(w2.rows[o][segment], "provisional_reuse")
  BY <1>8, <1>9, AdmitTracks
<1>11. /\ w3.rows[o][segment].sel = "source_frozen"
       /\ w3.rows[o][segment].gate2 = "provisional_reuse"
       /\ w3.rows[o][segment].prep = "none" /\ w3.rows[o][segment].commit = "uncommitted"
  <2>1. Movable(w2.rows[o][segment], "provisional_reuse")
    BY <1>9 DEF Movable, Gate2Refuses
  <2> QED
    BY <1>9, <1>10, <2>1, MovedRowIs
<1> HIDE DEF w3, v3
<1>12. /\ Tracks(w4, v4, o)
       /\ \/ x = w3.rows[o][segment]
          \/ \E l, i : x = PrefetchedRow(w3.rows[o][segment], l, i)
  <2>1. \A b \in BOOLEAN :
          CanBeginPrefetch(w3, o, segment, r, b) =>
            LET u == BeginPrefetch(w3, o, segment, r, b)
                row == w3.rows[o][segment]
            IN  /\ Tracks(u, BeginPrefetch(v3, o, segment, r, b), o)
                /\ \/ u.rows[o][segment] = row
                   \/ \E l, i : u.rows[o][segment] = PrefetchedRow(row, l, i)
    BY <1>10, <1>11, PrefetchTracks
  <2>2. FALSE \in BOOLEAN
    OBVIOUS
  <2> QED
    BY <1>1, <2>1, <2>2, Zenon
<1>13. x \in Rows /\ w4 \in Worlds /\ v4 \in Worlds
  BY <1>12, TracksSame
<1>14. /\ x.sel = "source_frozen" /\ x.gate2 = "provisional_reuse"
       /\ x.commit = "uncommitted" /\ x.prep \in {"none", "prefetching"}
  <2>1. w3.rows[o][segment] \in Rows
    BY <1>10, TracksSame
  <2>2. \A l, i : LET y == PrefetchedRow(w3.rows[o][segment], l, i)
                  IN  /\ y.sel = "source_frozen" /\ y.gate2 = "provisional_reuse"
                      /\ y.commit = "uncommitted" /\ y.prep = "prefetching"
    BY <1>11, <2>1 DEF PrefetchedRow, Rows
  <2> QED
    BY <1>11, <1>12, <2>2
<1>15. Stands(x, a) /\ a \in AuthStates /\ GhostRow(x, a) = x
  BY <1>14 DEF Stands, AuthStates, GhostRow
<1>16. /\ records' = w4.rows /\ ledger' = w4.m /\ memory' = w4.h
  BY <1>1 DEF Reaches
<1>17. /\ w4.rows = WithRow(records, o, segment, x) /\ Running(w4.m)
       /\ v4 = At(WithRow(GhostRows, o, segment, x), w4.m, w4.h)
       /\ WorldFits(v4, Nothing)
  BY <1>12, <1>13, WorldAt DEF Tracks
<1> HIDE DEF x, w4, v4, a
<1> QED
  BY <1>1, <1>13, <1>15, <1>16, <1>17, AuthStep

(* A Replica refused leaves its Source known and nothing else.             *)
LEMMA RefusedKeeps ==
    ASSUME AuthInv, NEW r \in Replicas, AuthorizeRefused(r)
    PROVE  AuthInv'
<1> DEFINE m == RegisterSource(ledger, SourceOf[r])
<1>1. Good(m) /\ m.lease = ledger.lease
  BY GhostsAre, RegisteredGood
<1>2. ledger' = m /\ records' = records /\ memory' = memory /\ auth' = auth
  BY DEF AuthorizeRefused
<1> HIDE DEF m
<1>3. WorldFits(At(Ghost.rows, m, Ghost.h), Nothing)
  BY <1>1, GhostsAre, PoolFits DEF AuthInv
<1>4. Running(m)
  BY <1>1 DEF AuthInv, Running
<1> QED
  BY <1>2, <1>3, <1>4, GhostsAre, AuthStay

(* mark_ready of an authorization.                                         *)
LEMMA MarkReadyKeeps ==
    ASSUME AuthInv, NEW o \in Owners, MarkReady(o)
    PROVE  AuthInv'
<1> DEFINE row == records[o][segment]
           l == row.physical
           m == CopyDone(ledger, l)
           x == ReadyRow(row)
<1>1. /\ auth[o] \in {"held", "ready"} /\ CanMarkWinnerReady(Session, o, segment)
      /\ Reaches(MarkWinnerReady(Session, o, segment))
      /\ auth' = [auth EXCEPT ![o] = "ready"]
  BY DEF MarkReady
<1>2. /\ Session \in Worlds /\ Session.rows = records /\ Session.m = ledger
      /\ Session.h = memory /\ segment \in Segments /\ row \in Rows
      /\ Ghost \in Worlds /\ Ghost.m = ledger /\ Ghost.h = memory /\ Ghost.rows = GhostRows
      /\ Good(ledger) /\ NoSuspects(ledger)
  BY GhostsAre, TheSegment DEF Session, AuthInv, WorldFits
<1>3. GhostRows[o][segment] = row /\ Stands(row, auth[o])
  BY <1>1, GhostsAre DEF GhostRow, AuthInv
<1>4. CanMarkWinnerReady(Ghost, o, segment)
  BY <1>1, <1>2, <1>3 DEF CanMarkWinnerReady
<1>5. WorldFits(MarkWinnerReady(Ghost, o, segment), Nothing)
  BY <1>2, <1>4, ReadyFits DEF AuthInv
<1>6. MarkWinnerReady(Ghost, o, segment) = At(WithRow(GhostRows, o, segment, x), m, memory)
  BY <1>2, <1>3, ReadyIs
<1>7. MarkWinnerReady(Session, o, segment) = At(WithRow(records, o, segment, x), m, memory)
  BY <1>2, ReadyIs
<1>8. x \in Rows /\ x.prep = "ready" /\ x.sel = row.sel /\ x.gate2 = row.gate2
      /\ x.commit = row.commit
  BY <1>2 DEF ReadyRow, Rows, Preparations
<1>9. Running(m)
  <2>1. l \in DOMAIN ledger.lease
    <3>1. Fit(row, ledger.lease, memory.rows, o, segment, segment \in Nothing[o])
      BY <1>2, <1>3 DEF AuthInv, WorldFits
    <3> QED
      BY <1>1, <1>2, <3>1 DEF Fit, Leased, CanMarkWinnerReady
  <2>2. CASE ledger.lease[l].copy
    <3> DEFINE n == MarkPhysicalReady(ledger, l)
    <3>1. CanMarkReady(ledger, l)
      BY <1>1, <1>2, <2>2 DEF CanMarkWinnerReady
    <3>2. /\ OneLease(ledger, n, l) /\ n.lease[l].state = ledger.lease[l].state
          /\ n.lease[l].purpose = ledger.lease[l].purpose
          /\ ledger.lease[l].exec => n.lease[l].exec
      BY <1>2, <2>1, <3>1, ReadyStep
    <3>3. m = n
      BY <2>2 DEF CopyDone
    <3> HIDE DEF n, m, l
    <3> QED
      BY <3>2, <3>3 DEF Running, OneLease, AuthInv
  <2>3. CASE ~ledger.lease[l].copy
    BY <2>3 DEF CopyDone, AuthInv
  <2> QED
    BY <2>2, <2>3
<1>10. Stands(x, "ready") /\ "ready" \in AuthStates /\ GhostRow(x, "ready") = x
  BY <1>1, <1>3, <1>8 DEF Stands, AuthStates, GhostRow
<1> HIDE DEF x, m
<1>11. records' = WithRow(records, o, segment, x) /\ ledger' = m /\ memory' = memory
  BY <1>1, <1>7 DEF Reaches, At
<1>12. WorldFits(At(WithRow(GhostRows, o, segment, GhostRow(x, "ready")), m, memory), Nothing)
  BY <1>5, <1>6, <1>10
<1> QED
  BY <1>1, <1>8, <1>9, <1>10, <1>11, <1>12, AuthStep

(* release() of an authorization gives back all it stood for.              *)
LEMMA ReleaseTransferKeeps ==
    ASSUME AuthInv, NEW o \in Owners, ReleaseTransfer(o)
    PROVE  AuthInv'
<1> DEFINE row == records[o][segment]
           m1 == GiveBack(ledger, row.physical)
           m == GiveBack(m1, row.logical)
           h == WriteOff(memory, row.hbm)
           x == Cleared(row)
           new == RejectedRow(row)
           q == WithRow(records, o, segment, x)
<1>1. /\ auth[o] \in {"held", "ready"} /\ auth' = [auth EXCEPT ![o] = "released"]
      /\ Reaches(ReleaseLogicalLease(
                     ReleasePhysicalPreparation(Session, o, segment), o, segment))
  BY DEF ReleaseTransfer
<1>2. /\ Session = At(records, ledger, memory) /\ records \in RowTables
      /\ segment \in Segments /\ row \in Rows
      /\ Ghost.m = ledger /\ Ghost.h = memory /\ Ghost.rows = GhostRows
      /\ WorldFits(Ghost, Nothing)
  BY GhostsAre, TheSegment DEF AuthInv
<1>3. GhostRows[o][segment] = row /\ Stands(row, auth[o])
  BY <1>1, GhostsAre DEF GhostRow, AuthInv
<1>4. row.sel = "source_frozen" /\ row.gate2 = "provisional_reuse"
  BY <1>1, <1>3 DEF Stands
<1>5. /\ x \in Rows /\ x.logical = row.logical /\ x.prep = "none" /\ x.sel = row.sel
      /\ new = GhostRow(x, "released")
  BY <1>2 DEF Cleared, RejectedRow, GhostRow, Rows, Preparations, NoId
<1>6. /\ new \in Rows /\ new.sel = row.sel /\ new.source = row.source
      /\ new.logical = row.logical /\ new.prep = "none" /\ new.gate2 = row.gate2
      /\ new.commit = "refined_dense" /\ new.physical = NoId /\ new.hbm = NoId
  BY <1>2 DEF Rows, Commits, Cleared, RejectedRow, Preparations, NoId
<1>7. ReleasePhysicalPreparation(Session, o, segment) = At(q, m1, h)
  BY <1>2, ReleasePhysicalIs
<1>8. q \in RowTables /\ q[o][segment] = x
  BY <1>2, <1>5, WithRowType
<1> HIDE DEF q, x, new
<1>9. ReleaseLogicalLease(At(q, m1, h), o, segment) = At(q, m, h)
  <2> HIDE DEF m1, h
  <2>1. At(q, m1, h).rows = q
    BY DEF At
  <2> QED
    BY <1>5, <1>8, <2>1, ReleaseLeaseIs DEF ReleaseLogicalLease
<1>10. LetGo(Ghost, m, h, o, segment)
  BY <1>2, <1>3 DEF LetGo
<1> HIDE DEF m, h
<1>11. records' = q /\ ledger' = m /\ memory' = h
  <2> HIDE DEF m1
  <2> QED
    BY <1>1, <1>7, <1>9 DEF Reaches, At
<1>12. RowFits(new, segment \in Nothing[o]) /\ Dense(new)
  <2>1. row.source \in Sources
    <3>1. RowFits(row, segment \in Nothing[o])
      BY <1>2, <1>3 DEF WorldFits, Fit
    <3> QED
      BY <1>4, <3>1 DEF RowFits
  <2>2. segment \notin Nothing[o]
    BY DEF Nothing
  <2> QED
    BY <1>4, <1>6, <2>1, <2>2 DEF RowFits, Dense
<1>13. /\ new \in Rows /\ new.sel = "source_frozen" /\ new.source = Ghost.rows[o][segment].source
       /\ new.logical = Ghost.rows[o][segment].logical
       /\ new.prep # "none" => new = Ghost.rows[o][segment]
       /\ Ghost.rows[o][segment].sel = "source_frozen"
  BY <1>2, <1>3, <1>4, <1>6
<1>14. WorldFits(At(WithRow(Ghost.rows, o, segment, new), m, h), Nothing)
  BY <1>2, <1>10, <1>12, <1>13, LetGoFits
<1>15. Freed(ledger, m, {row.physical, row.logical})
  <2>1. Freed(Ghost.m, m, {Ghost.rows[o][segment].physical, Ghost.rows[o][segment].logical})
    BY <1>2, <1>10, <1>13, LetGoFrees
  <2> QED
    BY <1>2, <1>3, <2>1
<1>16. Running(m)
  BY <1>15 DEF Running, Freed, AuthInv
<1>17. Stands(x, "released") /\ "released" \in AuthStates
  BY <1>5 DEF Stands, AuthStates
<1> QED
  BY <1>1, <1>2, <1>5, <1>11, <1>14, <1>16, <1>17, AuthStep DEF q

(* The workspaces of the selections that share the session.                *)
LEMMA TakeWorkspaceKeeps ==
    ASSUME AuthInv, NEW o \in Owners, NEW k \in 1..2, TakeWorkspace(o, k)
    PROVE  AuthInv'
<1> DEFINE n == Microbatch(memory, k, 1, 1)
           h == Reserve(memory, o, segment, 1 + n, "workspace")
<1>1. n \in Nat
  <2>1. SafeHeadroom(memory) \in Nat /\ k \in Nat
    <3>1. ActiveReservedBytes(memory) \in Int
      BY GhostsAre, ActiveSum
    <3> QED
      BY <3>1, HbmShape DEF SafeHeadroom, AllocatorFreeReservableBytes, NonNegative
  <2> QED
    BY <2>1 DEF Microbatch
<1>2. /\ 1 + n \in Nat /\ CanReserve(memory, 1 + n)
      /\ memory' = h /\ records' = records /\ ledger' = ledger /\ auth' = auth
  BY <1>1 DEF TakeWorkspace
<1> DEFINE bytes == 1 + n
<1> HIDE DEF n
<1>3. WorldFits(At(Ghost.rows, Ghost.m, Reserve(Ghost.h, o, segment, bytes, "workspace")), Nothing)
  <2>1. bytes \in Nat /\ CanReserve(Ghost.h, bytes)
    BY <1>2, GhostsAre
  <2> HIDE DEF bytes
  <2> QED
    BY <2>1, TheSegment, WorkspaceFits DEF AuthInv
<1>4. Running(ledger)
  BY DEF AuthInv
<1> HIDE DEF h
<1>5. WorldFits(At(GhostRows, ledger, h), Nothing)
  BY <1>3, GhostsAre DEF h
<1> QED
  BY <1>2, <1>4, <1>5, AuthStay

(* Their release.                                                          *)
LEMMA ReturnWorkspaceKeeps ==
    ASSUME AuthInv, NEW i \in DOMAIN memory.rows, ReturnWorkspace(i)
    PROVE  AuthInv'
<1> DEFINE h == ReleaseReservation(memory, i)
<1>1. /\ memory.rows[i].kind = "workspace"
      /\ memory' = h /\ records' = records /\ ledger' = ledger /\ auth' = auth
  BY DEF ReturnWorkspace, SessionWorkspaces
<1>2. WorldFits(At(Ghost.rows, Ghost.m, ReleaseReservation(Ghost.h, i)), Nothing)
  BY <1>1, GhostsAre, WorkspaceEnds DEF AuthInv
<1>3. Running(ledger)
  BY DEF AuthInv
<1>4. WorldFits(At(GhostRows, ledger, h), Nothing)
  BY <1>2, GhostsAre
<1> HIDE DEF h
<1> QED
  BY <1>1, <1>3, <1>4, AuthStay

(* The session begins with nothing known and nothing held.                 *)
LEMMA AuthStarts == AuthorizerInit => AuthInv
<1> SUFFICES ASSUME AuthorizerInit PROVE AuthInv
  OBVIOUS
<1>1. /\ ledger = EmptyManager /\ memory = EmptyHbm
      /\ records = [o \in Owners |-> [g \in Segments |-> NewRow]]
      /\ auth = [o \in Owners |-> "unused"]
  BY DEF AuthorizerInit
<1>2. ledger \in ManagerStates
  BY <1>1 DEF EmptyManager, NewManager, ManagerStates, SourceStates, ReplicaStates
<1>3. /\ ledger.logical = [s \in Sources |-> 0]
      /\ ledger.refs = [r \in Replicas |-> 0] /\ ledger.copies = [r \in Replicas |-> 0]
      /\ ledger.execs = [r \in Replicas |-> 0] /\ ledger.lease = <<>>
  BY <1>1 DEF EmptyManager, NewManager
<1>4. EmptyGood(ledger)
  BY <1>2, <1>3 DEF EmptyGood
<1>5. memory \in HbmStates /\ ReserveKept(memory) /\ DOMAIN memory.rows = {}
  BY <1>1, EmptyHbmFits
<1>6. Good(ledger) /\ NoSuspects(ledger) /\ DOMAIN ledger.lease = {}
  BY <1>4, NothingLeased
<1>7. records \in RowTables /\ auth \in [Owners -> AuthStates]
  BY <1>1, TheSegment DEF RowTables, AuthStates
<1>8. GhostRows = records
  BY <1>1 DEF GhostRows, GhostRow
<1>9. Ghost \in Worlds /\ Ghost.m = ledger /\ Ghost.h = memory /\ Ghost.rows = records
  BY <1>2, <1>5, <1>7, <1>8, AtWorld DEF Ghost
<1>10. /\ NewRow.sel = "probing" /\ NewRow.gate2 = "not_evaluated" /\ NewRow.prep = "none"
       /\ NewRow.commit = "uncommitted" /\ NewRow.logical = NoId
       /\ NewRow.physical = NoId /\ NewRow.hbm = NoId
  BY DEF NewRow
<1>11. ASSUME NEW o \in Owners, NEW g \in Segments
       PROVE  Fit(NewRow, ledger.lease, memory.rows, o, g, g \in Nothing[o])
  BY <1>5, <1>6, <1>10 DEF Fit, RowFits, Leased, Reserved, Nothing
<1>12. WorldFits(Ghost, Nothing)
  BY <1>1, <1>5, <1>6, <1>9, <1>11 DEF WorldFits
<1>13. Running(ledger)
  BY <1>6 DEF Running
<1>14. \A o \in Owners :
         /\ \A g \in Segments : g # segment => records[o][g] = NewRow
         /\ Stands(records[o][segment], auth[o])
  BY <1>1, TheSegment DEF Stands
<1> QED
  BY <1>7, <1>12, <1>13, <1>14 DEF AuthInv

(* Every call keeps the session in order.                                  *)
LEMMA AuthKept == AuthInv /\ [AuthorizerNext]_authorizerVars => AuthInv'
<1>1. ASSUME AuthInv, AuthorizerNext PROVE AuthInv'
  BY <1>1, AuthorizeKeeps, RefusedKeeps, MarkReadyKeeps, ReleaseTransferKeeps,
     TakeWorkspaceKeeps, ReturnWorkspaceKeeps DEF AuthorizerNext
<1>2. ASSUME AuthInv, UNCHANGED authorizerVars PROVE AuthInv'
  <2>1. records' = records /\ ledger' = ledger /\ memory' = memory /\ auth' = auth
    BY <1>2 DEF authorizerVars
  <2>2. WorldFits(At(GhostRows, ledger, memory), Nothing) /\ Running(ledger)
    BY <1>2 DEF AuthInv, Ghost
  <2> QED
    BY <1>2, <2>1, <2>2, AuthStay
<1> QED
  BY <1>1, <1>2

(* The inductive invariant of the authorizer holds throughout.             *)
LEMMA SpecAuth == AuthorizerSpec => []AuthInv
<1> QED
  BY AuthStarts, AuthKept, PTL DEF AuthorizerSpec

(* What an outstanding authorization names is live and its own.            *)
LEMMA InvProves == AuthInv => AuthorizationProves
<1> SUFFICES ASSUME AuthInv, NEW o \in Owners, auth[o] \in {"held", "ready"}
             PROVE  LET row == records[o][segment]
                    IN  /\ {row.logical, row.physical} \subseteq Live(ledger)
                        /\ ledger.lease[row.logical].owner = o
                        /\ ledger.lease[row.logical].purpose = "logical"
                        /\ ledger.lease[row.physical].owner = o
                        /\ ledger.lease[row.physical].exec
                        /\ ledger.life[ledger.lease[row.physical].replica] = "ready"
                        /\ row.hbm \in Unreleased(memory) /\ memory.rows[row.hbm].owner = o
  BY DEF AuthorizationProves
<1> DEFINE row == records[o][segment]
           T == ledger.lease
           R == memory.rows
<1>1. GhostRows[o][segment] = row /\ Stands(row, auth[o]) /\ segment \in Segments
  BY GhostsAre, TheSegment DEF GhostRow, AuthInv
<1>2. row.sel = "source_frozen" /\ row.gate2 = "provisional_reuse"
      /\ row.commit = "uncommitted" /\ row.prep # "none"
  BY <1>1 DEF Stands
<1>3. Fit(row, T, R, o, segment, segment \in Nothing[o]) /\ segment \notin Nothing[o]
  BY <1>1, GhostsAre DEF AuthInv, WorldFits, Nothing
<1>4. ~Dense(row)
  BY <1>2 DEF Dense
<1>5. /\ row.logical \in DOMAIN T /\ T[row.logical].owner = o
      /\ T[row.logical].purpose = "logical" /\ T[row.logical].state # "released"
      /\ row.physical \in DOMAIN T /\ T[row.physical].owner = o
      /\ T[row.physical].purpose = "execution" /\ T[row.physical].replica # NoReplica
      /\ T[row.physical].state # "released"
  BY <1>2, <1>3, <1>4 DEF Fit, Leased
<1>6. row.hbm \in DOMAIN R /\ R[row.hbm].owner = o /\ ~R[row.hbm].released
  BY <1>2, <1>3 DEF Fit, Reserved
<1>7. T[row.physical].exec
  BY <1>5 DEF AuthInv, Running
<1>8. row.physical \in Live(ledger) /\ row.logical \in Live(ledger)
  BY <1>5 DEF Live
<1>9. ledger.life[T[row.physical].replica] = "ready"
  BY <1>5, <1>8, GhostsAre DEF Good, LeasesProtect
<1> QED
  BY <1>5, <1>6, <1>7, <1>8, <1>9 DEF Unreleased

(* When no authorization is outstanding, nothing is left of one.           *)
LEMMA InvGivesBack == AuthInv => TransfersGiveBack
<1> SUFFICES ASSUME AuthInv, \A o \in Owners : auth[o] \notin {"held", "ready"}
             PROVE  /\ Unreleased(memory) \subseteq SessionWorkspaces
                    /\ \A r \in Replicas : ~Busy(ledger, r)
  BY DEF TransfersGiveBack
<1> DEFINE T == ledger.lease
           R == memory.rows
<1>1. NoId \notin DOMAIN T /\ NoId \notin DOMAIN R /\ ledger \in ManagerStates
  BY GhostsAre, HbmTypes DEF ManagerStates, NoId
<1>2. ASSUME NEW o \in Owners, NEW g \in Segments
      PROVE  LET row == GhostRows[o][g]
             IN  /\ Leased(row, T, o, g, FALSE) /\ Reserved(row, R, o, g, FALSE)
                 /\ row.prep = "none"
                 /\ row.physical \notin DOMAIN T /\ row.hbm \notin DOMAIN R
  <2> DEFINE row == GhostRows[o][g]
  <2>1. Fit(row, T, R, o, g, g \in Nothing[o])
    BY GhostsAre DEF AuthInv, WorldFits
  <2>2. (g \in Nothing[o]) = FALSE
    BY DEF Nothing
  <2>3. row.prep = "none"
    <3>1. CASE g = segment
      <4>1. auth[o] \in {"unused", "failed", "released"}
        BY DEF AuthInv, AuthStates
      <4>2. Stands(records[o][segment], auth[o])
        BY DEF AuthInv
      <4>3. records[o][segment] \in Rows /\ row = GhostRow(records[o][segment], auth[o])
        BY <3>1, GhostsAre
      <4> HIDE DEF row
      <4>4. records[o][segment].prep = "none"
        BY <4>1, <4>2 DEF Stands, NewRow
      <4> QED
        BY <4>3, <4>4 DEF GhostRow, Rows
    <3>2. CASE g # segment
      BY <3>2 DEF GhostRows, AuthInv, NewRow
    <3> QED
      BY <3>1, <3>2
  <2> HIDE DEF row
  <2>4. Leased(row, T, o, g, FALSE) /\ Reserved(row, R, o, g, FALSE)
    BY <2>1, <2>2 DEF Fit
  <2>5. row.physical = NoId /\ row.hbm = NoId
    BY <2>1, <2>3 DEF Fit, RowFits
  <2> QED
    BY <1>1, <2>3, <2>4, <2>5 DEF row
<1>3. ASSUME NEW i \in Unreleased(memory) PROVE i \in SessionWorkspaces
  <2>1. i \in DOMAIN R /\ ~R[i].released /\ R[i] \in HbmRecords
    BY GhostsAre, HbmTypes DEF Unreleased
  <2>2. R[i].owner \in Owners /\ R[i].segment \in Segments
    BY <2>1 DEF HbmRecords
  <2>3. R[i].kind = "workspace"
    BY <1>2, <2>1, <2>2 DEF Reserved
  <2> QED
    BY <2>1, <2>3 DEF SessionWorkspaces
<1>4. ASSUME NEW r \in Replicas PROVE ~Busy(ledger, r)
  <2>1. Holders(ledger, r) = {}
    <3> SUFFICES ASSUME NEW l \in Holders(ledger, r) PROVE FALSE
      OBVIOUS
    <3>1. l \in DOMAIN T /\ T[l].state # "released" /\ T[l].replica # NoReplica
      BY NullValues DEF Holders, Live
    <3>2. T[l].owner \in Owners /\ T[l].segment \in Segments
      BY <1>1, <3>1, RecordTypes
    <3>3. PICK p \in Owners, k \in Segments : T[l].owner = p /\ T[l].segment = k
      BY <3>2
    <3> DEFINE own == GhostRows[p][k]
    <3>4. Leased(own, T, p, k, FALSE) /\ own.physical \notin DOMAIN T
      BY <1>2
    <3> HIDE DEF own
    <3>5. l = own.physical
      BY <3>1, <3>3, <3>4 DEF Leased
    <3> QED
      BY <3>1, <3>4, <3>5
  <2>2. Copiers(ledger, r) = {} /\ Executors(ledger, r) = {}
    BY <2>1 DEF Holders, Copiers, Executors
  <2>3. /\ Cardinality(Holders(ledger, r)) = 0 /\ Cardinality(Copiers(ledger, r)) = 0
        /\ Cardinality(Executors(ledger, r)) = 0
    BY <2>1, <2>2, FS_EmptySet, Zenon
  <2>4. CountersMatch(ledger)
    BY GhostsAre DEF Good
  <2> QED
    BY <2>3, <2>4 DEF CountersMatch, Busy
<1> QED
  BY <1>3, <1>4

(* The records, the manager and the authorizations of a session keep their *)
(* types, whichever requests it serves.                                    *)
THEOREM AuthorizerTypeCorrect == AuthorizerSpec => []AuthorizerTypeOK
<1>1. AuthInv => AuthorizerTypeOK
  BY GhostsAre DEF AuthInv, AuthorizerTypeOK, RowTables
<1> QED
  BY <1>1, SpecAuth, PTL

(* An outstanding authorization owns two live leases and a reservation,    *)
(* and once none is outstanding the transfers have given everything back.  *)
THEOREM TransfersStayBalanced == AuthorizerSpec => []TransfersBalance
<1>1. AuthInv => TransfersBalance
  BY InvProves, InvGivesBack DEF TransfersBalance
<1> QED
  BY <1>1, SpecAuth, PTL

=============================================================================
