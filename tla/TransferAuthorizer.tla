------------------------- MODULE TransferAuthorizer -------------------------
(***************************************************************************)
(* Schema6FullKVTransferAuthorizer (src/probekv/v8_schema6_transfer.py),   *)
(* the guard of every full-KV copy of the A800 executor.  One lease        *)
(* manager lives as long as the authorizer; each authorize() makes a       *)
(* request of one segment with a controller of its own, runs it through    *)
(* selection, Gate 1, Gate 2 and the prefetch in one call, and hands out   *)
(* an authorization the executor marks ready and releases when it is done  *)
(* (v6_a800_executor.py:1058-1112, 1243).                                  *)
(*                                                                         *)
(* Owners are the request numbers 1, 2, ...; an executor that fails on the *)
(* way never releases, which here is a behaviour without Release.          *)
(***************************************************************************)
EXTENDS RequestOps

CONSTANT MaxWorkspace   \* selection workspaces ever made

ASSUME SessionShape == Segments # {}

VARIABLES
    records,   \* the record of each request's one segment
    ledger,    \* the lease manager
    memory,    \* the HBM manager
    auth       \* what has become of each authorization

authorizerVars == <<records, ledger, memory, auth>>

Session == [rows |-> records, m |-> ledger, h |-> memory]
Reaches(w) == records' = w.rows /\ ledger' = w.m /\ memory' = w.h

AuthStates == {"unused", "failed", "held", "ready", "released"}
segment == CHOOSE g \in Segments : TRUE

AuthorizerInit ==
    /\ records = [o \in Owners |-> [g \in Segments |-> NewRow]]
    /\ ledger = EmptyManager
    /\ memory = EmptyHbm
    /\ auth = [o \in Owners |-> "unused"]

(* A Replica is registered, as the backing, when its id is first seen.     *)
RegisteredFor(m, r) ==
    LET known == RegisterSource(m, SourceOf[r])
    IN  IF known.life[r] = "absent" THEN RegisterReplica(known, r, TRUE, "ready") ELSE known

CanRegisterFor(m, r) ==
    LET known == RegisterSource(m, SourceOf[r])
    IN  known.life[r] = "absent" => CanRegisterReplica(known, r, TRUE)

(* authorize(), for the next request number.  An error on the way leaves   *)
(* what the calls before it did.                                           *)
Authorize(o, r) ==
    LET registered == [Session EXCEPT !.m = RegisteredFor(@, r)]
        decided  == DecisionReady(registered, o, segment, SourceOf[r], 1)
        frozen   == Gate1Passed(decided, o, segment)
        admitted == Gate2Row(frozen, o, segment, "provisional_reuse")
        prefetch == BeginPrefetch(admitted, o, segment, r, FALSE)
        done     == prefetch.rows[o][segment].prep = "prefetching"
    IN  /\ auth[o] = "unused" /\ \A p \in Owners : p < o => auth[p] # "unused"
        /\ CanRegisterFor(ledger, r)
        /\ CanGate1Pass(decided, o, segment)
        /\ CanBeginPrefetch(admitted, o, segment, r, FALSE)
        /\ Reaches(prefetch)
        /\ auth' = [auth EXCEPT ![o] = IF done THEN "held" ELSE "failed"]

(* authorize() of a second backing Replica of a Source raises early.       *)
AuthorizeRefused(r) ==
    /\ ~CanRegisterFor(ledger, r)
    /\ ledger' = RegisterSource(ledger, SourceOf[r])
    /\ UNCHANGED <<records, memory, auth>>

MarkReady(o) ==
    /\ auth[o] \in {"held", "ready"}
    /\ CanMarkWinnerReady(Session, o, segment)
    /\ Reaches(MarkWinnerReady(Session, o, segment))
    /\ auth' = [auth EXCEPT ![o] = "ready"]

(* Mutant: the copy's HBM is kept until the session ends.                  *)
ReleaseLeasesOnly(o) ==
    /\ auth[o] \in {"held", "ready"}
    /\ Reaches(ReleaseLogicalLease(
                   ReleaseLeaseOf(Session, records[o][segment].physical), o, segment))
    /\ auth' = [auth EXCEPT ![o] = "released"]

(* release() of an authorization whose reuse was never committed through   *)
(* the controller, as in the executor.                                     *)
ReleaseTransfer(o) ==
    /\ auth[o] \in {"held", "ready"}
    /\ Reaches(ReleaseLogicalLease(
                   ReleasePhysicalPreparation(Session, o, segment), o, segment))
    /\ auth' = [auth EXCEPT ![o] = "released"]

(* Selection workspaces of the same session share the HBM.                 *)
SessionWorkspaces == {i \in DOMAIN memory.rows : memory.rows[i].kind = "workspace"}

TakeWorkspace(o, k) ==
    LET n == Microbatch(memory, k, 1, 1)
    IN  /\ Cardinality(SessionWorkspaces) < MaxWorkspace
        /\ n > 0 /\ CanReserve(memory, 1 + n)
        /\ memory' = Reserve(memory, o, segment, 1 + n, "workspace")
        /\ UNCHANGED <<records, ledger, auth>>

ReturnWorkspace(i) ==
    /\ i \in SessionWorkspaces \cap Unreleased(memory)
    /\ memory' = ReleaseReservation(memory, i)
    /\ UNCHANGED <<records, ledger, auth>>

AuthorizerNext ==
    \/ \E o \in Owners, r \in Replicas : Authorize(o, r)
    \/ \E r \in Replicas : AuthorizeRefused(r)
    \/ \E o \in Owners : MarkReady(o) \/ ReleaseTransfer(o)
    \/ \E o \in Owners, k \in 1..2 : TakeWorkspace(o, k)
    \/ \E i \in DOMAIN memory.rows : ReturnWorkspace(i)

AuthorizerSpec == AuthorizerInit /\ [][AuthorizerNext]_authorizerVars

(***************************************************************************)
(* Properties.                                                             *)
(***************************************************************************)
AuthorizerTypeOK ==
    /\ records \in [Owners -> [Segments -> Rows]]
    /\ ledger \in ManagerStates
    /\ auth \in [Owners -> AuthStates]

(* An authorization "proves a logical lease, physical Replica lease and    *)
(* HBM reservation all exist"                                              *)
(* (docs/PROBEKV_V8_SCHEMA8_NO_GPU_HANDOFF.md:93): assert_valid_for looks  *)
(* only at the ids of the row, yet the leases and the reservation they     *)
(* name are live and its own, whatever other transfers of the same Source  *)
(* and Replica have been released meanwhile.                               *)
AuthorizationProves ==
    \A o \in Owners : auth[o] \in {"held", "ready"} =>
        LET row == records[o][segment]
        IN  /\ {row.logical, row.physical} \subseteq Live(ledger)
            /\ ledger.lease[row.logical].owner = o /\ ledger.lease[row.logical].purpose = "logical"
            /\ ledger.lease[row.physical].owner = o /\ ledger.lease[row.physical].exec
            /\ ledger.life[ledger.lease[row.physical].replica] = "ready"
            /\ row.hbm \in Unreleased(memory) /\ memory.rows[row.hbm].owner = o

(* Once no authorization is outstanding the HBM that transfers reserved is *)
(* free again, and no Replica is in use: a session does not run dry.       *)
TransfersGiveBack ==
    (\A o \in Owners : auth[o] \notin {"held", "ready"}) =>
        /\ Unreleased(memory) \subseteq SessionWorkspaces
        /\ \A r \in Replicas : ~Busy(ledger, r)

(* The two together: what an outstanding authorization stands for, and     *)
(* what one that is gone has left behind.                                  *)
TransfersBalance == AuthorizationProves /\ TransfersGiveBack

(* "Request-scoped logical and physical leases" (v8_leases.py:117): a lease *)
(* belongs to a request that still has its authorization.                  *)
LeasesAreRequestScoped ==
    \A l \in Live(ledger) : auth[ledger.lease[l].owner] \in {"held", "ready"}

=============================================================================
