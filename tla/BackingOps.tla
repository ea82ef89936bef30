----------------------------- MODULE BackingOps -----------------------------
(***************************************************************************)
(* Schema8TieredBackingManager (src/probekv/v8_schema8_storage.py) as      *)
(* operators on its state b = [entry, clock]: one backing entry per Source *)
(* Variant, in pinned CPU memory or on SSD, with the epoch of its last     *)
(* request use.  The log of placement actions is not kept.                 *)
(***************************************************************************)
EXTENDS LeaseOps

CONSTANTS
    BackingBytes,     \* size_bytes of a Source's backing
    BackingCapacity,  \* the capacity of each backing tier
    BackingRank       \* the order of Source ids, which breaks LRU ties

BackingTiers == {"cpu", "ssd"}

(* What __init__ and the entries check of the numbers, and the order of    *)
(* distinct ids.                                                           *)
BackingNumbers(sources) ==
    /\ IsFiniteSet(sources)
    /\ BackingBytes \in [sources -> Nat \ {0}]
    /\ BackingCapacity \in [BackingTiers -> Nat]
    /\ BackingRank \in [sources -> Int]
    /\ \A s, t \in sources : BackingRank[s] = BackingRank[t] => s = t

Nowhere == "nowhere"   \* a Source without an entry

Entries == [tier : BackingTiers \cup {Nowhere}, lastUse : Nat, busy : BOOLEAN,
            replica : Replicas \cup {NoReplica}]

NoEntry == [tier |-> Nowhere, lastUse |-> 0, busy |-> FALSE, replica |-> NoReplica]

BackingStates == [entry : [Sources -> Entries], clock : Nat]

NewBacking(sources) == [entry |-> [s \in sources |-> NoEntry], clock |-> 0]

Kept(b) == {s \in Sources : b.entry[s].tier # Nowhere}
OnTier(b, t) == {s \in Sources : b.entry[s].tier = t}
BackingUsage(b, t) == MapThenSumSet(LAMBDA s : BackingBytes[s], OnTier(b, t))

(***************************************************************************)
(* _make_room.                                                             *)
(***************************************************************************)
Older(b, s, t) ==
    \/ b.entry[s].lastUse < b.entry[t].lastUse
    \/ b.entry[s].lastUse = b.entry[t].lastUse /\ BackingRank[s] < BackingRank[t]

(* Mutant: the busy flag of a victim is not looked at.                     *)
CandidatesBusyToo(b, tier, protected) == OnTier(b, tier) \ protected

Candidates(b, tier, protected) ==
    {s \in OnTier(b, tier) \ protected : ~b.entry[s].busy}

(* {the victim}, or {} when there is none (MemoryError).                   *)
LeastRecent(b, tier, protected) ==
    LET idle == Candidates(b, tier, protected)
    IN  {s \in idle : \A t \in idle \ {s} : Older(b, s, t)}

BackingFull(b, tier, bytes) == BackingUsage(b, tier) + bytes > BackingCapacity[tier]

Dropped(b, S) ==
    [b EXCEPT !.entry = [s \in Sources |-> IF s \in S THEN NoEntry ELSE b.entry[s]]]
Moved(b, s, tier) == [b EXCEPT !.entry[s].tier = tier]

(***************************************************************************)
(* The loops go on in the states that are full, a set that becomes empty   *)
(* when one raises.  Every turn takes an entry off the tier, so they end   *)
(* within LoopTurns; a request beyond the capacity finds every state full. *)
(***************************************************************************)
LoopTurns(b) == Cardinality(DOMAIN b.entry)

SsdTurn(b, protected) == {Dropped(b, {v}) : v \in LeastRecent(b, "ssd", protected)}

AfterSsdTurn(B, bytes, protected) ==
    LET full == {b \in B : BackingFull(b, "ssd", bytes)}
    IN  (B \ full) \cup UNION {SsdTurn(b, protected) : b \in full}

(* {the state with room made}, or {} for a MemoryError.                    *)
RoomOnSsd(b, bytes, protected) ==
    LET After[n \in 0..LoopTurns(b)] ==
            IF n = 0 THEN {b} ELSE AfterSsdTurn(After[n - 1], bytes, protected)
    IN  {c \in After[LoopTurns(b)] : ~BackingFull(c, "ssd", bytes)}

(* _demote_cpu_victim: the victim is still on CPU while room is made for   *)
(* it on SSD.                                                              *)
Demoted(b, v, protected) ==
    IF BackingBytes[v] <= BackingCapacity["ssd"]
    THEN {Moved(room, v, "ssd") : room \in RoomOnSsd(b, BackingBytes[v], {v} \cup protected)}
    ELSE {Dropped(b, {v})}

CpuTurn(b, protected) ==
    UNION {Demoted(b, v, protected) : v \in LeastRecent(b, "cpu", protected)}

AfterCpuTurn(B, bytes, protected) ==
    LET full == {b \in B : BackingFull(b, "cpu", bytes)}
    IN  (B \ full) \cup UNION {CpuTurn(b, protected) : b \in full}

RoomOnCpu(b, bytes, protected) ==
    LET After[n \in 0..LoopTurns(b)] ==
            IF n = 0 THEN {b} ELSE AfterCpuTurn(After[n - 1], bytes, protected)
    IN  {c \in After[LoopTurns(b)] : ~BackingFull(c, "cpu", bytes)}

MakeRoom(b, tier, bytes, protected) ==
    IF tier = "cpu" THEN RoomOnCpu(b, bytes, protected)
    ELSE RoomOnSsd(b, bytes, protected)

(***************************************************************************)
(* register, record_request_use and access: the states they can leave,     *)
(* none when they raise, which rolls everything back.                      *)
(***************************************************************************)
TargetTier(s, used) ==
    IF used /\ BackingBytes[s] <= BackingCapacity["cpu"] THEN "cpu" ELSE "ssd"

NewEntry(b, s, used, r) ==
    [tier |-> TargetTier(s, used), lastUse |-> IF used THEN b.clock + 1 ELSE 0,
     busy |-> FALSE, replica |-> r]

RegisterBacking(b, s, used, r) ==
    IF s \in Kept(b) THEN {}
    ELSE {[room EXCEPT !.entry[s] = NewEntry(b, s, used, r),
                       !.clock = IF used THEN @ + 1 ELSE @] :
             room \in MakeRoom(b, TargetTier(s, used), BackingBytes[s], {s})}

RecordRequestUse(b, s) ==
    [b EXCEPT !.clock = @ + 1, !.entry[s].lastUse = b.clock + 1]

AccessBacking(b, s) ==
    LET used == RecordRequestUse(b, s)
    IN  IF b.entry[s].tier = "cpu" \/ BackingBytes[s] > BackingCapacity["cpu"] THEN {used}
        ELSE {Moved(room, s, "cpu") : room \in MakeRoom(used, "cpu", BackingBytes[s], {s})}

=============================================================================
