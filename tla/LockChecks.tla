----------------------------- MODULE LockChecks -----------------------------
(***************************************************************************)
(* What the three lock providers of delivery/lock_provider.py share: the    *)
(* lock record, the reading of its lease, the next fencing token and the    *)
(* gate _base_checks, which every provider evaluates on the record it read  *)
(* before it writes.  Pure operators: the providers add the state.          *)
(*                                                                         *)
(* Transaction ids are not distinguished: no check compares them.  Dry runs *)
(* (mode = dry_run) write nothing whatever the checks say and are left out. *)
(***************************************************************************)
EXTENDS Naturals, FiniteSets

CONSTANTS
  Clients,       \* processes that call a provider
  Owners,        \* lock owner names
  OwnerOf,       \* the owner each client acts for (config.owner); two clients
                 \* may share one: it defaults to the transaction id
  LeaseSeconds,  \* lease length in clock units
  MaxClock,      \* bound of the clock
  MaxToken,      \* bound of the fencing tokens handed out
  MaxEpoch,      \* bound of the lifetimes of the lock record
  MaxInFlight,   \* bound of the calls in flight at once
  NameOwner,     \* whether callers pass expected_owner = owner on renew and
                 \* release: {TRUE} for the resume scheduler
  Takeover,      \* values of allow_stale_takeover: {FALSE} for the scheduler
  NoLock         \* no lock record

ASSUME LockAssumption ==
  /\ OwnerOf \in [Clients -> Owners]
  /\ LeaseSeconds \in Nat \ {0}
  /\ MaxClock \in Nat /\ MaxToken \in Nat /\ MaxEpoch \in Nat /\ MaxInFlight \in Nat
  /\ NameOwner \subseteq BOOLEAN
  /\ Takeover \subseteq BOOLEAN

\* epoch is a history field: it numbers the lifetimes of the record, from the
\* write that found nothing to the delete or expiry that removed it.
LockRecord ==
  [owner : Owners, token : Nat, expires : Nat, epoch : Nat]

MaybeRecord == LockRecord \union {NoLock}

\* The record without its history: what LeaseLock speaks of.
LeaseView(r) == [owner |-> r.owner, token |-> r.token, expires |-> r.expires]

ASSUME NoLockAssumption ==
  /\ NoLock \notin LockRecord
  /\ NoLock \notin [owner : Owners, token : Nat, expires : Nat]

Actions == {"inspect_lock", "acquire_lock", "renew_lock", "release_lock"}

\* One call of manage_lock.  token is expected_fencing_token (0 for none).
LockConfigs(tokens) ==
  [action : Actions, named : NameOwner, token : tokens,
   approved : BOOLEAN, takeover : Takeover]

\* _lease_is_past: a lease that ends now is past.
LeaseIsPast(expires, now) == expires <= now

LeaseExpiredAt(at) == at - LeaseSeconds
LeaseExpiresAt(at) == at + LeaseSeconds

\* _next_fencing_token: one more than the record read, 1 when there is none.
SameFencingToken(existing) == IF existing = NoLock THEN 1 ELSE existing.token
NextFencingToken(existing) == IF existing = NoLock THEN 1 ELSE existing.token + 1

Stale(existing, at) ==
  /\ existing # NoLock
  /\ LeaseIsPast(existing.expires, at)

\* existing_lock_allows_acquire
AcquireAllowedToAnyone(c, cfg, existing, at) == TRUE
AcquireAllowed(c, cfg, existing, at) ==
  \/ existing = NoLock
  \/ existing.owner = OwnerOf[c]
  \/ Stale(existing, at) /\ cfg.takeover

ExpectedOwnerMatches(c, cfg, existing) ==
  (cfg.named /\ cfg.action \in {"renew_lock", "release_lock"}) =>
    /\ existing # NoLock
    /\ existing.owner = OwnerOf[c]

ExpectedTokenMatches(cfg, existing) ==
  cfg.token # 0 => existing # NoLock /\ existing.token = cfg.token

\* _base_checks on a readable record: no blocking reason.
BaseChecks(c, cfg, existing, at) ==
  /\ cfg.action = "acquire_lock" => AcquireAllowed(c, cfg, existing, at)
  /\ cfg.action \in {"renew_lock", "release_lock"} =>
       /\ existing # NoLock
       /\ Stale(existing, at) => cfg.takeover
  /\ cfg.action = "release_lock" => cfg.approved
  /\ ExpectedOwnerMatches(c, cfg, existing)
  /\ ExpectedTokenMatches(cfg, existing)

\* The record an acquire or a renewal writes.
NewRecord(c, existing, at) ==
  [owner   |-> OwnerOf[c],
   token   |-> NextFencingToken(existing),
   expires |-> LeaseExpiresAt(at),
   epoch   |-> 0]
=============================================================================
