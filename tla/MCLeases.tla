------------------------------ MODULE MCLeases ------------------------------
(* A small instance of Leases: two requests, two Sources of two            *)
(* namespaces, one with a GPU and one with a CPU Replica.                  *)
EXTENDS Leases, TLC

CONSTANTS o1, o2, g1, s1, s2, r1, r2

TwoSourceOf == (r1 :> s1) @@ (r2 :> s2)
TwoTierOf   == (r1 :> "gpu") @@ (r2 :> "cpu")
UnitSizeOf  == [r \in Replicas |-> 1]
TwoNamespaceOf == (s1 :> "n1") @@ (s2 :> "n2")

OwnerSymmetry == Permutations(Owners)
=============================================================================
