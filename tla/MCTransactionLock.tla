--------------------------- MODULE MCTransactionLock ---------------------------
(***************************************************************************)
(* Three processes, two of them acting for the same owner.                  *)
(***************************************************************************)
EXTENDS TransactionLock, TLC

CONSTANTS c1, c2, c3, A, B

MCCallers == {c1, c2, c3}
MCOwners == {A, B}
MCOwnerOf == [c \in Callers |-> IF c = c3 THEN B ELSE A]
=============================================================================
