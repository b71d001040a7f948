----------------------------- MODULE MCStoreLock -----------------------------
(***************************************************************************)
(* The clients and owners of MCRedisLock, on the local providers.           *)
(***************************************************************************)
EXTENDS StoreLockProvider, TLC

CONSTANTS c1, c2, c3, A, B

MCClients == {c1, c2, c3}
MCOwners == {A, B}
MCOwnerOf == [c \in Clients |-> IF c = c3 THEN B ELSE A]
MCSymmetry == Permutations({c1, c2})
=============================================================================
