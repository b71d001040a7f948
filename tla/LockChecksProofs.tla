-------------------------- MODULE LockChecksProofs --------------------------
(***************************************************************************)
(* Lemmas about the records and checks the lock providers share.            *)
(***************************************************************************)
EXTENDS LockChecks, TLAPS

\* The record manage_lock builds: the caller's owner, a full lease, the next token.
LEMMA NewRecordType ==
  ASSUME NEW c \in Clients, NEW existing \in MaybeRecord, NEW at \in Nat
  PROVE  /\ NewRecord(c, existing, at) \in LockRecord
         /\ NewRecord(c, existing, at) # NoLock
         /\ NewRecord(c, existing, at).owner = OwnerOf[c]
         /\ NewRecord(c, existing, at).expires = at + LeaseSeconds
         /\ existing = NoLock => NewRecord(c, existing, at).token = 1
         /\ existing # NoLock => NewRecord(c, existing, at).token = existing.token + 1
  BY LockAssumption, NoLockAssumption
  DEF NewRecord, NextFencingToken, LeaseExpiresAt, LockRecord, MaybeRecord

\* Stamping a record with the lifetime of its key changes nothing else in it.
LEMMA WithEpoch ==
  ASSUME NEW r \in LockRecord, NEW e \in Nat
  PROVE  /\ [r EXCEPT !.epoch = e] \in LockRecord
         /\ [r EXCEPT !.epoch = e] # NoLock
         /\ [r EXCEPT !.epoch = e].owner = r.owner
         /\ [r EXCEPT !.epoch = e].token = r.token
         /\ [r EXCEPT !.epoch = e].expires = r.expires
         /\ [r EXCEPT !.epoch = e].epoch = e
  BY NoLockAssumption DEF LockRecord

\* With the owner named on every renewal, a caller gets past _base_checks to a
\* write only for its own record or for one whose lease has ended.
LEMMA OwnRecordOrStale ==
  ASSUME NameOwner = {TRUE}, NEW c, NEW tokens, NEW cfg \in LockConfigs(tokens),
         NEW existing, NEW at, BaseChecks(c, cfg, existing, at),
         cfg.action \notin {"inspect_lock", "release_lock"}, existing # NoLock
  PROVE  existing.owner = OwnerOf[c] \/ existing.expires <= at
<1>1. cfg.named = TRUE /\ cfg.action \in {"acquire_lock", "renew_lock"}
  BY DEF LockConfigs, Actions
<1> QED
  BY <1>1 DEF BaseChecks, AcquireAllowed, ExpectedOwnerMatches, Stale, LeaseIsPast
=============================================================================
