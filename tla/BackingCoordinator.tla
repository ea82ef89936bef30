------------------------- MODULE BackingCoordinator -------------------------
(***************************************************************************)
(* Schema8TieredBackingManager (src/probekv/v8_schema8_storage.py) driven  *)
(* by any caller of its public methods (PolicySpec), and                   *)
(* Schema8TieredReplicaCoordinator of the same file (BackingSpec): the     *)
(* backing policy of BackingOps over the Replica registry of the lease     *)
(* manager, while requests take and release leases.  The policy moves      *)
(* entries between tiers first; the runtime then migrates the Replicas,    *)
(* each copy a begin and a finish, and removes those of dropped Sources.   *)
(*                                                                         *)
(* Modelled of the runtime, which the repository leaves to its             *)
(* integration: it begins a migration toward the tier the policy chose,    *)
(* finishes it once, and evicts the backing of a Source the policy         *)
(* dropped.                                                                *)
(*                                                                         *)
(* Bounds: MaxClock request uses of the coordinator and MaxPolicyClock of  *)
(* the policy alone, MaxLeases grants, MaxPlacement incarnations of a      *)
(* Replica id.                                                             *)
(***************************************************************************)
EXTENDS BackingOps

CONSTANTS MaxClock, MaxPolicyClock, MaxLeases, MaxPlacement

VARIABLES
    mgr,       \* the lease manager
    backing,   \* the backing manager
    tickets,   \* migrations begun and not finished
    policy     \* a backing manager by itself, which any caller drives

backingVars == <<mgr, backing, tickets>>

(***************************************************************************)
(* The policy by itself.                                                   *)
(***************************************************************************)
PolicyInit == policy = NewBacking(Sources)

PolicyRegister(s, used) ==
    /\ policy.clock < MaxPolicyClock
    /\ policy' \in RegisterBacking(policy, s, used, NoReplica)

PolicyUse(s) ==
    /\ policy.clock < MaxPolicyClock
    /\ s \in Kept(policy)
    /\ policy' = RecordRequestUse(policy, s)

PolicyAccess(s) ==
    /\ policy.clock < MaxPolicyClock
    /\ s \in Kept(policy)
    /\ policy' \in AccessBacking(policy, s)

SetBusy(s, busy) ==
    /\ s \in Kept(policy)
    /\ policy' = [policy EXCEPT !.entry[s].busy = busy]

PolicyNext ==
    \E s \in Sources :
        \/ \E used \in BOOLEAN : PolicyRegister(s, used)
        \/ PolicyUse(s)
        \/ PolicyAccess(s)
        \/ \E busy \in BOOLEAN : SetBusy(s, busy)

PolicySpec == PolicyInit /\ [][PolicyNext]_policy

(***************************************************************************)
(* The coordinator.                                                        *)
(***************************************************************************)
Tickets == [source : Sources, old : Replicas, destination : Replicas]

BackingInit ==
    /\ mgr = NewManager(Sources, Replicas, Owners, Segments)
    /\ backing = NewBacking(Sources)
    /\ tickets = {}

(***************************************************************************)
(* synchronize_busy.                                                       *)
(***************************************************************************)
SourceBusy(s) ==
    mgr.logical[s] # 0 \/ \E r \in HealthyBacking(mgr, s) : Busy(mgr, r)

(* What must hold of one entry for the loop to go on.                      *)
Agrees(s, m, b) ==
    /\ m.source[s] = "active"
    /\ \E r \in Replicas :
         /\ HealthyBacking(m, s) = {r}
         /\ b.entry[s].replica \in {NoReplica, r}
         /\ b.entry[s].tier = TierOf[r]

Refreshed(b, m, S) ==
    [b EXCEPT !.entry = [s \in Sources |->
        IF s \in S
        THEN LET r == CHOOSE q \in Replicas : q \in HealthyBacking(m, s)
             IN  [@[s] EXCEPT !.replica = r,
                              !.busy = m.logical[s] # 0 \/ Busy(m, r)]
        ELSE @[s]]]

InSync(b, m) == \A s \in Kept(b) : Agrees(s, m, b)

(* The loop refreshes the entries in the order of the dictionary and       *)
(* raises at the first that disagrees; those before it may be any that     *)
(* agree.                                                                  *)
Synchronized(b, m) ==
    LET agree == {s \in Kept(b) : Agrees(s, m, b)}
    IN  {Refreshed(b, m, S) : S \in IF InSync(b, m) THEN {agree} ELSE SUBSET agree}

Synchronize ==
    /\ backing' \in Synchronized(backing, mgr)
    /\ UNCHANGED <<mgr, tickets>>

(***************************************************************************)
(* Uses of a Source.                                                       *)
(***************************************************************************)
(* coordinator.access; out of sync it raises, which is Synchronize.        *)
Access(s) ==
    /\ backing.clock < MaxClock
    /\ s \in Kept(backing) /\ InSync(backing, mgr)
    /\ \E b \in Synchronized(backing, mgr) : backing' \in AccessBacking(b, s)
    /\ UNCHANGED <<mgr, tickets>>

(* coordinator.register.  The policy plans before anything is              *)
(* synchronized; when it places the Source elsewhere than its Replica, the *)
(* entry is withdrawn, and what was moved to make room for it stays moved. *)
Register(s, used) ==
    /\ backing.clock < MaxClock
    /\ \E r \in Replicas :
         /\ HealthyBacking(mgr, s) = {r}
         /\ \E b \in RegisterBacking(backing, s, used, r) :
              IF b.entry[s].tier = TierOf[r]
              THEN backing' \in Synchronized(b, mgr)
              ELSE backing' = Dropped(b, {s})
    /\ UNCHANGED <<mgr, tickets>>

(***************************************************************************)
(* The registry.                                                           *)
(***************************************************************************)
(* A Source is stored: registered, with a backing on one of the tiers.     *)
StoreBacking(r) ==
    LET m == RegisterSource(mgr, SourceOf[r])
    IN  /\ mgr.placement[r] < MaxPlacement
        /\ HealthyBacking(mgr, SourceOf[r]) = {}
        /\ CanRegisterReplica(m, r, TRUE)
        /\ mgr' = RegisterReplica(m, r, TRUE, "ready")
        /\ UNCHANGED <<backing, tickets>>

(* The runtime applies an eviction of the policy.                          *)
Evict(r) ==
    /\ SourceOf[r] \notin Kept(backing)
    /\ CanEvictReplica(mgr, r)
    /\ mgr.life[r] = "ready"
    /\ mgr' = EvictReplica(mgr, r)
    /\ UNCHANGED <<backing, tickets>>

(* Mutant: the old backing is not held for the copy.                       *)
BeginWithoutHold(d) ==
    LET s == SourceOf[d]
        m == RegisterReplica(mgr, d, FALSE, "allocating")
    IN  /\ mgr.placement[d] < MaxPlacement
        /\ s \in Kept(backing) /\ backing.entry[s].tier = TierOf[d]
        /\ \E old \in Replicas :
             /\ HealthyBacking(mgr, s) = {old}
             /\ ~Busy(mgr, old) /\ mgr.logical[s] = 0
             /\ TierOf[old] # TierOf[d]
             /\ CanRegisterReplica(mgr, d, FALSE)
             /\ mgr' = [m EXCEPT !.copies[d] = @ + 1]
             /\ tickets' = tickets \cup {[source |-> s, old |-> old, destination |-> d]}
        /\ UNCHANGED backing

(* begin_backing_migration to the tier of the entry.                       *)
BeginMigration(d) ==
    LET s == SourceOf[d]
        m == RegisterReplica(mgr, d, FALSE, "allocating")
    IN  /\ mgr.placement[d] < MaxPlacement
        /\ s \in Kept(backing) /\ backing.entry[s].tier = TierOf[d]
        /\ \E old \in Replicas :
             /\ HealthyBacking(mgr, s) = {old}
             /\ ~Busy(mgr, old) /\ mgr.logical[s] = 0
             /\ TierOf[old] # TierOf[d]
             /\ CanRegisterReplica(mgr, d, FALSE)
             /\ mgr' = [m EXCEPT !.copies[old] = @ + 1, !.copies[d] = @ + 1]
             /\ tickets' = tickets \cup {[source |-> s, old |-> old, destination |-> d]}
        /\ UNCHANGED backing

CopyReturned(t) ==
    [mgr EXCEPT !.copies[t.old] = @ - 1, !.copies[t.destination] = @ - 1]

(* finish_backing_migration of a failed or corrupt copy.                   *)
CopyFailed(t) ==
    /\ mgr' = [CopyReturned(t) EXCEPT !.life[t.destination] = "deleted"]
    /\ tickets' = tickets \ {t}
    /\ UNCHANGED backing

Published(t) ==
    [CopyReturned(t) EXCEPT
        !.life[t.destination] = "ready", !.backing[t.destination] = TRUE,
        !.life[t.old] = "deleted", !.backing[t.old] = FALSE,
        !.placement[t.destination] =
            IF @ > mgr.placement[t.old] THEN @ ELSE mgr.placement[t.old] + 1]

(* finish_backing_migration of a verified copy.  The swap is made whatever *)
(* has been leased since the copy began.  A Source without an entry raises *)
(* after the swap.                                                         *)
CopyVerified(t) ==
    LET m == Published(t)
        moved == [backing EXCEPT !.entry[t.source].tier = TierOf[t.destination],
                                 !.entry[t.source].replica = t.destination]
    IN  /\ mgr.backing[t.old] /\ mgr.life[t.old] = "ready"
        /\ mgr' = m
        /\ tickets' = tickets \ {t}
        /\ IF t.source \in Kept(backing) THEN backing' \in Synchronized(moved, m)
           ELSE UNCHANGED backing

(***************************************************************************)
(* Requests.                                                               *)
(***************************************************************************)
Freeze(o, g, s) ==
    /\ Len(mgr.lease) < MaxLeases
    /\ CanFreeze(mgr, o, g, s)
    /\ mgr' = FreezeAndAcquireLogical(mgr, o, g, s, 0, 0)
    /\ UNCHANGED <<backing, tickets>>

Lease(o, g, r) ==
    LET q == [segment |-> g, source |-> SourceOf[r], replica |-> r,
              placement |-> mgr.placement[r], purpose |-> "execution"]
    IN  /\ Len(mgr.lease) < MaxLeases
        /\ CanLeaseBatch(mgr, o, <<q>>, NoCap)
        /\ mgr' = LeaseBatch(mgr, o, <<q>>, 0, 0)
        /\ UNCHANGED <<backing, tickets>>

ReleaseLease(l) ==
    /\ mgr' = Release(mgr, l, "request")
    /\ UNCHANGED <<backing, tickets>>

BackingNext ==
    \/ Synchronize
    \/ \E s \in Sources : Access(s) \/ \E used \in BOOLEAN : Register(s, used)
    \/ \E r \in Replicas : StoreBacking(r) \/ Evict(r) \/ BeginMigration(r)
    \/ \E t \in tickets : CopyFailed(t) \/ CopyVerified(t)
    \/ \E o \in Owners, g \in Segments :
         \/ \E s \in Sources : Freeze(o, g, s)
         \/ \E r \in Replicas : Lease(o, g, r)
    \/ \E l \in DOMAIN mgr.lease : ReleaseLease(l)

BackingSpec == BackingInit /\ [][BackingNext]_backingVars

(***************************************************************************)
(* Properties.                                                             *)
(***************************************************************************)
(* No sequence of registrations and accesses, whatever cascade of          *)
(* demotions and evictions _make_room runs for each, leaves more bytes on  *)
(* a tier than it has.                                                     *)
WithinCapacity == \A t \in BackingTiers : BackingUsage(policy, t) <= BackingCapacity[t]

(* What making room takes from a Source.                                   *)
Lost(s, t) ==
    /\ policy.entry[s].tier = t
    /\ \/ policy'.entry[s].tier = Nowhere
       \/ t = "cpu" /\ policy'.entry[s].tier = "ssd"

(* A victim is never busy ("every LRU victim is busy" is an error,         *)
(* v8_schema8_storage.py:257), and its tier keeps no idle entry used       *)
(* before it ("one request-use LRU epoch", v8_schema8_storage.py:50),      *)
(* unless that is the Source room is made for.                             *)
LosesLeastRecent ==
    \A s \in Sources, t \in BackingTiers : Lost(s, t) =>
        /\ ~policy.entry[s].busy
        /\ \A k \in OnTier(policy, t) :
              Older(policy, k, s) =>
                  \/ Lost(k, t)
                  \/ policy.entry[k].busy
                  \/ policy'.entry[k].tier = "cpu" /\ t = "ssd"
                  \/ policy'.entry[k].lastUse # policy.entry[k].lastUse
VictimsLeastRecent == [][LosesLeastRecent]_policy

(* What the policy promises of any sequence of calls: capacities that hold *)
(* and victims that are the least recent.                                  *)
PolicyHolds == []WithinCapacity /\ VictimsLeastRecent

(* "Storage has one backing copy per Artifact"                             *)
(* (docs/PROBEKV_V8_SCHEMA8_NO_GPU_HANDOFF.md:32): through begun, failed,  *)
(* published and abandoned migrations a Source never has two healthy       *)
(* backings, and one whose entry is kept never has none.                   *)
OneBacking ==
    \A s \in Sources :
        /\ Cardinality(HealthyBacking(mgr, s)) <= 1
        /\ s \in Kept(backing) => HealthyBacking(mgr, s) # {}

(* A ticket stays valid until it is finished: its copy is counted at both  *)
(* ends, the old Replica stays the backing, and nothing deletes or reuses  *)
(* the destination.                                                        *)
TicketsHold ==
    \A t \in tickets :
        /\ HealthyBacking(mgr, t.source) = {t.old}
        /\ mgr.life[t.destination] = "allocating"
        /\ mgr.copies[t.old] >= 1 /\ mgr.copies[t.destination] = 1

(* "A leased, copying, or executing Source cannot be selected as a victim" *)
(* (docs/PROBEKV_V8_SCHEMA8_NO_GPU_HANDOFF.md:34).  A step's victims are   *)
(* the entries it moved off their tier or dropped.                         *)
VictimsOf ==
    {s \in Kept(backing) :
        \/ backing'.entry[s].tier = Nowhere
        \/ backing.entry[s].tier = "cpu" /\ backing'.entry[s].tier = "ssd"}

(* So access(), which synchronizes first, takes no Source in use.          *)
AccessSpares ==
    (\E s \in Sources : Access(s)) => \A s \in VictimsOf : ~SourceBusy(s)
AccessSparesBusy == [][AccessSpares]_backingVars

(* What the coordinator promises: one backing of a Source and tickets that *)
(* stay valid, and no access() that takes what is in use.                  *)
CoordinatorHolds == [](OneBacking /\ TicketsHold) /\ AccessSparesBusy

(* "leased/copying/executing Replica cannot be evicted"                    *)
(* (v8_leases.py:393): a Replica with live leases is not deleted.          *)
LeasedReplicaLives ==
    \A l \in Live(mgr) :
        mgr.lease[l].replica # NoReplica => mgr.life[mgr.lease[l].replica] = "ready"

=============================================================================
