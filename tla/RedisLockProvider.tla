-------------------------- MODULE RedisLockProvider --------------------------
(***************************************************************************)
(* RedisDeliveryTransactionLockProvider.manage_lock as its clients run it   *)
(* side by side.  A call reads the key, decides on what it read, then       *)
(* writes with SET NX or with a compare-and-set / compare-and-delete        *)
(* script, and only then updates the JSON projection on disk: four steps    *)
(* between which the other clients, the clock and the key's TTL move.       *)
(***************************************************************************)
EXTENDS LockChecks

VARIABLES
  clock,       \* one clock for the clients and the server
  store,       \* the Redis key: NoLock or a LockRecord
  ttl,         \* when the server drops the key (EX lease_seconds)
  projection,  \* delivery-distributed-transaction-lock.json
  op,          \* the call each client is in
  held,        \* the last grant each client was told of
  epoch,       \* history: lifetimes of the key so far
  released     \* history: the lifetimes a release ended

serverVars == <<store, ttl, epoch, released>>
vars == <<clock, store, ttl, projection, op, held, epoch, released>>

Idle ==
  [pc |-> "idle", at |-> 0, existing |-> NoLock, new |-> NoLock, missing |-> FALSE]

PCs == {"idle", "read", "setnx", "cas", "del", "project", "unlink"}

Op ==
  [pc : PCs, at : Nat, existing : MaybeRecord, new : MaybeRecord, missing : BOOLEAN]

Init ==
  /\ clock = 0
  /\ store = NoLock
  /\ ttl = 0
  /\ projection = NoLock
  /\ op = [c \in Clients |-> Idle]
  /\ held = [c \in Clients |-> NoLock]
  /\ epoch = 0
  /\ released = {}

\* A call fixes created_at before it reads the key; the resume scheduler fixes
\* it at the start of the whole workflow.
Begin(c) ==
  /\ op[c].pc = "idle"
  /\ Cardinality({d \in Clients : op[d].pc # "idle"}) < MaxInFlight
  /\ op' = [op EXCEPT ![c] = [Idle EXCEPT !.pc = "read", !.at = clock]]
  /\ UNCHANGED <<clock, serverVars, projection, held>>

\* The token a caller may demand: none, or the one it was last given.
ExpectedTokens(c) == {0} \union (IF held[c] = NoLock THEN {} ELSE {held[c].token})

\* GET, then the checks.  A blocked call, and an inspection, ends here.
Read(c) ==
  /\ op[c].pc = "read"
  /\ \E cfg \in LockConfigs(ExpectedTokens(c)) :
       op' = [op EXCEPT ![c] =
         IF ~BaseChecks(c, cfg, store, op[c].at) \/ cfg.action = "inspect_lock"
           THEN Idle
         ELSE IF cfg.action = "release_lock"
           THEN [Idle EXCEPT !.pc = "del", !.existing = store]
         ELSE [pc |-> IF store = NoLock THEN "setnx" ELSE "cas",
               at |-> 0,
               existing |-> store,
               new |-> NewRecord(c, store, op[c].at),
               missing |-> Stale(store, op[c].at) /\ cfg.takeover]]
  /\ UNCHANGED <<clock, serverVars, projection, held>>

\* SET key value EX lease: the server counts the TTL from the moment of the SET.
Put(c, record) ==
  /\ record.token <= MaxToken
  /\ store' = record
  /\ ttl' = clock + LeaseSeconds
  /\ op' = [op EXCEPT ![c] = [Idle EXCEPT !.pc = "project", !.new = record]]
  /\ UNCHANGED <<clock, projection, held, released>>

Fail(c) ==
  /\ op' = [op EXCEPT ![c] = Idle]
  /\ UNCHANGED <<clock, serverVars, projection, held>>

PutFresh(c) ==
  /\ epoch < MaxEpoch
  /\ Put(c, [op[c].new EXCEPT !.epoch = epoch + 1])
  /\ epoch' = epoch + 1

\* client.set(..., nx=True): nothing is written over an existing key.
SetIfAbsentIgnored(c) == op[c].pc = "setnx" /\ PutFresh(c)
SetIfAbsent(c) ==
  /\ op[c].pc = "setnx"
  /\ \/ store = NoLock /\ PutFresh(c)
     \/ store # NoLock /\ Fail(c)

\* The comparison both scripts make with the record the call read.
OwnerUnchanged(existing) == store # NoLock /\ store.owner = existing.owner
Unchanged(existing) ==
  /\ store # NoLock
  /\ store.owner = existing.owner
  /\ store.token = existing.token

\* _REDIS_COMPARE_SET_SCRIPT
CompareSet(c) ==
  /\ op[c].pc = "cas"
  /\ \/ /\ store = NoLock
        /\ IF op[c].missing THEN PutFresh(c) ELSE Fail(c)
     \/ /\ Unchanged(op[c].existing)
        /\ Put(c, [op[c].new EXCEPT !.epoch = store.epoch])
        /\ UNCHANGED epoch
     \/ /\ store # NoLock
        /\ ~Unchanged(op[c].existing)
        /\ Fail(c)

\* _REDIS_COMPARE_DELETE_SCRIPT
CompareDelete(c) ==
  /\ op[c].pc = "del"
  /\ \/ /\ Unchanged(op[c].existing)
        /\ store' = NoLock
        /\ released' = released \union {store.epoch}
        /\ op' = [op EXCEPT ![c] = [Idle EXCEPT !.pc = "unlink"]]
        /\ UNCHANGED <<clock, ttl, epoch, projection, held>>
     \/ ~Unchanged(op[c].existing) /\ Fail(c)

\* The projection follows the server write; the caller then has its answer.
Project(c) ==
  /\ op[c].pc = "project"
  /\ projection' = op[c].new
  /\ held' = [held EXCEPT ![c] = op[c].new]
  /\ op' = [op EXCEPT ![c] = Idle]
  /\ UNCHANGED <<clock, serverVars>>

Unlink(c) ==
  /\ op[c].pc = "unlink"
  /\ projection' = NoLock
  /\ held' = [held EXCEPT ![c] = NoLock]
  /\ op' = [op EXCEPT ![c] = Idle]
  /\ UNCHANGED <<clock, serverVars>>

\* The process dies, or the reply of the server is lost: the caller keeps what
\* it knew before the call (the workflow journal holds it).
Crash(c) ==
  /\ op[c].pc # "idle"
  /\ Fail(c)

\* The server drops the key the moment its TTL runs out.
Drop(now) == store # NoLock /\ ttl <= now

Tick ==
  /\ clock < MaxClock
  /\ clock' = clock + 1
  /\ store' = IF Drop(clock') THEN NoLock ELSE store
  /\ UNCHANGED <<ttl, projection, op, held, epoch, released>>

Next ==
  \/ \E c \in Clients :
       \/ Begin(c) \/ Read(c) \/ SetIfAbsent(c) \/ CompareSet(c) \/ CompareDelete(c)
       \/ Project(c) \/ Unlink(c) \/ Crash(c)
  \/ Tick

Spec == Init /\ [][Next]_vars

-----------------------------------------------------------------------------
TypeOK ==
  /\ clock \in Nat
  /\ store \in MaybeRecord
  /\ ttl \in Nat
  /\ projection \in MaybeRecord
  /\ op \in [Clients -> Op]
  /\ held \in [Clients -> MaybeRecord]
  /\ epoch \in Nat
  /\ released \subseteq Nat

\* Every grant a client was told of or is about to be told of.
Grants(c) ==
  (IF held[c] = NoLock THEN {} ELSE {held[c]})
    \union (IF op[c].pc = "project" THEN {op[c].new} ELSE {})

\* Two grants of one lifetime of the key never carry the same fencing token,
\* whatever the callers pass: SET NX and the compare-and-set script let only
\* one of two racing writers through, so a token names one grant.
TokensUnique ==
  \A c, d \in Clients : c # d =>
    \A g \in Grants(c), h \in Grants(d) : g.epoch = h.epoch => g.token # h.token

\* A grant whose lease has not ended is still in force: the key is there, in
\* the same lifetime and under the same owner, unless a release ended that
\* lifetime.  It needs the callers the scheduler is: they name their owner on
\* renew and release and never take over.
LeaseProtectsHolder ==
  \A c \in Clients : \A g \in Grants(c) :
    clock < g.expires =>
      \/ g.epoch \in released
      \/ /\ store # NoLock
         /\ store.epoch = g.epoch
         /\ store.owner = OwnerOf[c]

\* A lease that has not ended is never replaced by another owner's record:
\* existing_lock_allows_acquire, which the compare-and-set script upholds
\* against the calls that run between the read and the write.
NoStealOfLiveLease ==
  [][ (store # NoLock /\ store' # NoLock /\ clock < store.expires)
        => store'.owner = store.owner ]_vars

\* The key, with every call atomic, behaves as LeaseLock promises.
Contract == INSTANCE LeaseLock WITH
  lock <- IF store = NoLock THEN NoLock ELSE LeaseView(store)

ImplementsLeaseLock == Contract!Spec

\* The fence of the delivery executor (_build_transaction_lock): the projection
\* carries the expected token and its lease is not past.
FenceChecksLeaseOnly(c) ==
  /\ held[c] # NoLock
  /\ projection # NoLock
  /\ ~(projection.expires < clock)
FenceAdmits(c) ==
  /\ held[c] # NoLock
  /\ projection # NoLock
  /\ projection.token = held[c].token
  /\ ~(projection.expires < clock)

\* Within a lifetime of the key the fence admits a writer only on its own grant,
\* the very record the projection holds, although projections are written late
\* and crashes leave old ones: a token is enough to tell the grants apart.
FenceAdmitsOwnGrant ==
  \A c \in Clients :
    FenceAdmits(c) /\ projection.epoch = held[c].epoch => projection = held[c]
=============================================================================
