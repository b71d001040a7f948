----------------------------- MODULE MCRedisLock -----------------------------
(***************************************************************************)
(* Three clients, two of them acting for the same owner (two workers of one *)
(* transaction, whose owner defaults to the transaction id).                *)
(***************************************************************************)
EXTENDS RedisLockProvider, TLC

CONSTANTS c1, c2, c3, A, B

MCClients == {c1, c2, c3}
MCOwners == {A, B}
MCOwnerOf == [c \in Clients |-> IF c = c3 THEN B ELSE A]
MCSymmetry == Permutations({c1, c2})
=============================================================================
