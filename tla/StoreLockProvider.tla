-------------------------- MODULE StoreLockProvider --------------------------
(***************************************************************************)
(* The two local lock providers: LocalFileDeliveryTransactionLockProvider,  *)
(* whose lock is the JSON file itself, and                                  *)
(* SQLiteDeliveryTransactionLockProvider, whose lock is a database row with *)
(* the JSON file as its projection.  Both read, check and then write        *)
(* without looking again: the upsert of the row is a transaction of its     *)
(* own, and the file is truncated and then filled.                          *)
(***************************************************************************)
EXTENDS LockChecks

CONSTANT Kinds  \* which providers to run: a subset of {"local-file", "sqlite"}

ASSUME KindsAssumption == Kinds \subseteq {"local-file", "sqlite"}

VARIABLES
  kind,        \* the provider in use, fixed at the start
  clock,
  store,       \* the row, or the last complete content of the file
  torn,        \* the file is truncated and not yet filled (local-file)
  projection,  \* the JSON file beside the row (sqlite)
  op,          \* the call each client is in
  held,        \* the last grant each client was told of
  epoch,       \* history: lifetimes of the record so far
  released     \* history: the lifetimes a release ended

storeVars == <<store, torn, epoch, released>>
vars == <<kind, clock, store, torn, projection, op, held, epoch, released>>

Idle == [pc |-> "idle", at |-> 0, new |-> NoLock]
PCs == {"idle", "read", "write", "fill", "delete", "project", "unlink"}

Init ==
  /\ kind \in Kinds
  /\ clock = 0
  /\ store = NoLock
  /\ torn = FALSE
  /\ projection = NoLock
  /\ op = [c \in Clients |-> Idle]
  /\ held = [c \in Clients |-> NoLock]
  /\ epoch = 0
  /\ released = {}

Goto(c, pc) == op' = [op EXCEPT ![c].pc = pc]
Done(c) == op' = [op EXCEPT ![c] = Idle]

Begin(c) ==
  /\ op[c].pc = "idle"
  /\ Cardinality({d \in Clients : op[d].pc # "idle"}) < MaxInFlight
  /\ op' = [op EXCEPT ![c] = [Idle EXCEPT !.pc = "read", !.at = clock]]
  /\ UNCHANGED <<kind, clock, storeVars, projection, held>>

ExpectedTokens(c) == {0} \union (IF held[c] = NoLock THEN {} ELSE {held[c].token})

\* _read_lock / _read_existing, then _base_checks.  A truncated file is not
\* JSON: it reads as no record, and lock_record_is_valid blocks the call.
Existing == IF torn THEN NoLock ELSE store

ValidityUnchecked == TRUE
LockRecordIsValid == ~torn

Read(c) ==
  /\ op[c].pc = "read"
  /\ \E cfg \in LockConfigs(ExpectedTokens(c)) :
       op' = [op EXCEPT ![c] =
         IF ~LockRecordIsValid \/ ~BaseChecks(c, cfg, Existing, op[c].at)
              \/ cfg.action = "inspect_lock"
           THEN Idle
         ELSE IF cfg.action = "release_lock"
           THEN [Idle EXCEPT !.pc = "delete"]
         ELSE [Idle EXCEPT !.pc = "write", !.new = NewRecord(c, Existing, op[c].at)]]
  /\ UNCHANGED <<kind, clock, storeVars, projection, held>>

\* The record lands: a new lifetime if there was none to replace.
Land(c) ==
  LET e == IF store = NoLock THEN epoch + 1 ELSE store.epoch
      record == [op[c].new EXCEPT !.epoch = e]
  IN  /\ e <= MaxEpoch /\ record.token <= MaxToken
      /\ store' = record
      /\ epoch' = IF store = NoLock THEN epoch + 1 ELSE epoch

\* _upsert_lock: one BEGIN IMMEDIATE transaction that overwrites any row.
Upsert(c) ==
  /\ op[c].pc = "write"
  /\ kind = "sqlite"
  /\ Land(c)
  /\ op' = [op EXCEPT ![c] = [Idle EXCEPT !.pc = "project", !.new = store']]
  /\ UNCHANGED <<kind, clock, torn, projection, held, released>>

\* _write_json: open for writing truncates the file ...
Truncate(c) ==
  /\ op[c].pc = "write"
  /\ kind = "local-file"
  /\ torn' = TRUE
  /\ Goto(c, "fill")
  /\ UNCHANGED <<kind, clock, store, epoch, released, projection, held>>

\* ... and the write fills it.
Fill(c) ==
  /\ op[c].pc = "fill"
  /\ Land(c)
  /\ torn' = FALSE
  /\ held' = [held EXCEPT ![c] = store']
  /\ Done(c)
  /\ UNCHANGED <<kind, clock, projection, released>>

\* The provider writes its own projection last; the caller has its answer.
Project(c) ==
  /\ op[c].pc = "project"
  /\ projection' = op[c].new
  /\ held' = [held EXCEPT ![c] = op[c].new]
  /\ Done(c)
  /\ UNCHANGED <<kind, clock, storeVars>>

\* _delete_lock, or the unlink of the file: whatever is there goes.
Delete(c) ==
  /\ op[c].pc = "delete"
  /\ store' = NoLock
  /\ torn' = FALSE
  /\ released' = IF store = NoLock THEN released ELSE released \union {store.epoch}
  /\ IF kind = "sqlite"
       THEN Goto(c, "unlink") /\ UNCHANGED held
       ELSE Done(c) /\ held' = [held EXCEPT ![c] = NoLock]
  /\ UNCHANGED <<kind, clock, projection, epoch>>

Unlink(c) ==
  /\ op[c].pc = "unlink"
  /\ projection' = NoLock
  /\ held' = [held EXCEPT ![c] = NoLock]
  /\ Done(c)
  /\ UNCHANGED <<kind, clock, storeVars>>

\* The process dies; a file it was filling stays truncated.
Crash(c) ==
  /\ op[c].pc # "idle"
  /\ Done(c)
  /\ UNCHANGED <<kind, clock, storeVars, projection, held>>

\* No local provider drops a record whose lease has ended.
Tick ==
  /\ clock < MaxClock
  /\ clock' = clock + 1
  /\ UNCHANGED <<kind, storeVars, projection, op, held>>

Next ==
  \/ \E c \in Clients :
       \/ Begin(c) \/ Read(c) \/ Upsert(c) \/ Truncate(c) \/ Fill(c) \/ Project(c)
       \/ Delete(c) \/ Unlink(c) \/ Crash(c)
  \/ Tick

Spec == Init /\ [][Next]_vars

-----------------------------------------------------------------------------
TypeOK ==
  /\ kind \in Kinds
  /\ clock \in Nat /\ epoch \in Nat
  /\ store \in MaybeRecord /\ projection \in MaybeRecord
  /\ torn \in BOOLEAN
  /\ op \in [Clients -> [pc : PCs, at : Nat, new : MaybeRecord]]
  /\ held \in [Clients -> MaybeRecord]
  /\ released \subseteq Nat

Grants(c) ==
  (IF held[c] = NoLock THEN {} ELSE {held[c]})
    \union (IF op[c].pc = "project" THEN {op[c].new} ELSE {})

\* Called one at a time, the local providers never give one token twice within
\* a lifetime of the record, crashes and truncated files included.
TokensUnique ==
  \A c, d \in Clients : c # d =>
    \A g \in Grants(c), h \in Grants(d) : g.epoch = h.epoch => g.token # h.token

\* A grant whose lease has not ended is in force: its owner's record is there,
\* unless a release ended that lifetime.
LeaseProtectsHolder ==
  \A c \in Clients : \A g \in Grants(c) :
    clock < g.expires =>
      \/ g.epoch \in released
      \/ /\ store # NoLock
         /\ store.epoch = g.epoch
         /\ store.owner = OwnerOf[c]

\* Called one at a time, the record behaves as LeaseLock promises; a truncated
\* file still stands for the record it is replacing.
Contract == INSTANCE LeaseLock WITH
  lock <- IF store = NoLock THEN NoLock ELSE LeaseView(store)

ImplementsLeaseLock == Contract!Spec
=============================================================================
