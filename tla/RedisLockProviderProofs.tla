----------------------- MODULE RedisLockProviderProofs -----------------------
(***************************************************************************)
(* Theorems about RedisLockProvider for every number of clients, owners,    *)
(* lease length and bound.                                                  *)
(***************************************************************************)
EXTENDS RedisLockProvider, LockChecksProofs

\* An operation is well typed, and the record it is about to write is there.
OpOK(o) ==
  /\ o \in Op
  /\ o.pc \in {"setnx", "cas", "project"} => o.new # NoLock
  /\ o.pc \in {"cas", "del"} => o.existing # NoLock

\* A client between two calls is well typed.
LEMMA IdleOK == OpOK(Idle)
  BY DEF OpOK, Idle, Op, PCs, MaybeRecord

\* _base_checks lets no release through when there is no record.
LEMMA BaseChecksExisting ==
  ASSUME NEW c, NEW cfg, NEW existing, NEW at, BaseChecks(c, cfg, existing, at),
         cfg.action = "release_lock"
  PROVE  existing # NoLock
  BY DEF BaseChecks

TypeInv == TypeOK /\ \A c \in Clients : OpOK(op[c])

\* Every step keeps the types and the records of pending writes.
LEMMA TypeStep == TypeInv /\ [Next]_vars => TypeInv'
<1> SUFFICES ASSUME TypeInv, [Next]_vars PROVE TypeInv'
  OBVIOUS
<1> USE DEF TypeInv, TypeOK
<1>1. ASSUME NEW c \in Clients, Begin(c) PROVE TypeInv'
  <2>1. [Idle EXCEPT !.pc = "read", !.at = clock] \in Op
    BY DEF Idle, Op, PCs, MaybeRecord
  <2> QED BY <1>1, <2>1 DEF Begin, OpOK, Idle, serverVars
<1>2. ASSUME NEW c \in Clients, Read(c) PROVE TypeInv'
  <2>1. PICK cfg \in LockConfigs(ExpectedTokens(c)) : op' = [op EXCEPT ![c] =
         IF ~BaseChecks(c, cfg, store, op[c].at) \/ cfg.action = "inspect_lock"
           THEN Idle
         ELSE IF cfg.action = "release_lock"
           THEN [Idle EXCEPT !.pc = "del", !.existing = store]
         ELSE [pc |-> IF store = NoLock THEN "setnx" ELSE "cas",
               at |-> 0,
               existing |-> store,
               new |-> NewRecord(c, store, op[c].at),
               missing |-> Stale(store, op[c].at) /\ cfg.takeover]]
    BY <1>2 DEF Read
  <2>2. OpOK([pc |-> IF store = NoLock THEN "setnx" ELSE "cas",
               at |-> 0,
               existing |-> store,
               new |-> NewRecord(c, store, op[c].at),
               missing |-> Stale(store, op[c].at) /\ cfg.takeover])
    BY NewRecordType DEF OpOK, Op, PCs, MaybeRecord
  <2>3. BaseChecks(c, cfg, store, op[c].at) /\ cfg.action = "release_lock" =>
          OpOK([Idle EXCEPT !.pc = "del", !.existing = store])
    <3> SUFFICES ASSUME BaseChecks(c, cfg, store, op[c].at), cfg.action = "release_lock"
                 PROVE  OpOK([Idle EXCEPT !.pc = "del", !.existing = store])
      OBVIOUS
    <3>1. store # NoLock
      BY BaseChecksExisting
    <3> QED BY <3>1 DEF OpOK, Idle, Op, PCs, MaybeRecord
  <2>4. OpOK(op'[c])
    BY <2>1, <2>2, <2>3, IdleOK
  <2> QED BY <1>2, <2>1, <2>4 DEF Read, serverVars, OpOK
<1>3. ASSUME NEW c \in Clients, NEW r \in LockRecord, Put(c, r), epoch' \in Nat PROVE TypeInv'
  <2>1. OpOK([Idle EXCEPT !.pc = "project", !.new = r])
    BY NoLockAssumption DEF OpOK, Idle, Op, PCs, MaybeRecord
  <2>2. ttl' \in Nat
    BY <1>3, LockAssumption DEF Put
  <2> QED BY <1>3, <2>1, <2>2 DEF Put, MaybeRecord, OpOK
<1>4. ASSUME NEW c \in Clients, Fail(c) PROVE TypeInv'
  BY <1>4, IdleOK DEF Fail, serverVars, OpOK
<1>5. ASSUME NEW c \in Clients, op[c].pc \in {"setnx", "cas"}, PutFresh(c) PROVE TypeInv'
  <2>1. op[c].new \in LockRecord /\ epoch + 1 \in Nat
    BY <1>5 DEF OpOK, Op, MaybeRecord
  <2>2. [op[c].new EXCEPT !.epoch = epoch + 1] \in LockRecord
    BY <2>1, WithEpoch
  <2> QED BY <1>5, <2>1, <2>2, <1>3 DEF PutFresh
<1>6. ASSUME NEW c \in Clients, SetIfAbsent(c) PROVE TypeInv'
  BY <1>6, <1>5, <1>4 DEF SetIfAbsent
<1>7. ASSUME NEW c \in Clients, CompareSet(c) PROVE TypeInv'
  <2>1. CASE store = NoLock /\ PutFresh(c)
    BY <1>7, <2>1, <1>5 DEF CompareSet
  <2>2. CASE Fail(c)
    BY <2>2, <1>4
  <2>3. CASE /\ Unchanged(op[c].existing)
             /\ Put(c, [op[c].new EXCEPT !.epoch = store.epoch])
             /\ UNCHANGED epoch
    <3>1. op[c].new \in LockRecord /\ store \in LockRecord
      BY <1>7, <2>3 DEF CompareSet, Unchanged, OpOK, Op, MaybeRecord
    <3>2. store.epoch \in Nat
      BY <3>1 DEF LockRecord
    <3>3. [op[c].new EXCEPT !.epoch = store.epoch] \in LockRecord
      BY <3>1, <3>2, WithEpoch
    <3> QED BY <2>3, <3>3, <1>3
  <2> QED BY <1>7, <2>1, <2>2, <2>3 DEF CompareSet
<1>8. ASSUME NEW c \in Clients, CompareDelete(c) PROVE TypeInv'
  <2>1. CASE Fail(c)
    BY <2>1, <1>4
  <2>2. CASE ~Fail(c)
    <3>1. OpOK([Idle EXCEPT !.pc = "unlink"])
      BY DEF OpOK, Idle, Op, PCs, MaybeRecord
    <3>2. store # NoLock
      BY <1>8, <2>2 DEF CompareDelete, Unchanged
    <3>3. store.epoch \in Nat
      BY <3>2 DEF MaybeRecord, LockRecord
    <3> QED BY <1>8, <2>2, <3>1, <3>3 DEF CompareDelete, MaybeRecord, OpOK
  <2> QED BY <2>1, <2>2
<1>9. ASSUME NEW c \in Clients, Project(c) PROVE TypeInv'
  BY <1>9, IdleOK DEF Project, serverVars, OpOK, Op
<1>10. ASSUME NEW c \in Clients, Unlink(c) PROVE TypeInv'
  BY <1>10, IdleOK DEF Unlink, serverVars, OpOK, MaybeRecord
<1>11. ASSUME NEW c \in Clients, Crash(c) PROVE TypeInv'
  BY <1>11, <1>4 DEF Crash
<1>12. ASSUME Tick PROVE TypeInv'
  BY <1>12 DEF Tick, MaybeRecord
<1>13. CASE UNCHANGED vars
  BY <1>13 DEF vars, OpOK
<1> QED
  BY <1>1, <1>2, <1>6, <1>7, <1>8, <1>9, <1>10, <1>11, <1>12, <1>13 DEF Next

\* The initial state is well typed.
LEMMA TypeInit == Init => TypeInv
  BY IdleOK DEF Init, TypeInv, TypeOK, MaybeRecord, OpOK

\* Every state is well typed, and no write is pending without its record.
LEMMA TypeInvariance == Spec => []TypeInv
  BY TypeInit, TypeStep, PTL DEF Spec

\* The type invariant of the provider, for every instance.
THEOREM TypeCorrect == Spec => []TypeOK
<1>1. TypeInv => TypeOK
  BY DEF TypeInv
<1> QED BY TypeInvariance, <1>1, PTL

-----------------------------------------------------------------------------
(***************************************************************************)
(* Fencing tokens.  TokensUnique is not inductive: a new grant is unique    *)
(* because every earlier one of the same lifetime carries a token no larger *)
(* than the key's, and the script writes exactly one more than the record   *)
(* it compared.                                                            *)
(***************************************************************************)
GrantsBelowKey ==
  \A c \in Clients : \A g \in Grants(c) :
    /\ g.epoch <= epoch
    /\ (store # NoLock /\ g.epoch = epoch) => g.token <= store.token

NextTokenPending ==
  \A c \in Clients : op[c].pc = "cas" => op[c].new.token = op[c].existing.token + 1

TokenInv ==
  /\ TypeInv
  /\ store # NoLock => store.epoch = epoch
  /\ NextTokenPending
  /\ GrantsBelowKey
  /\ TokensUnique

\* What a client was granted is a lock record.
LEMMA GrantType ==
  ASSUME TypeInv, NEW c \in Clients, NEW g \in Grants(c)
  PROVE  g \in LockRecord /\ g.epoch \in Nat /\ g.token \in Nat /\ g.expires \in Nat
  BY DEF TypeInv, TypeOK, OpOK, Grants, MaybeRecord, LockRecord, Op

\* What a client was granted changes only by its own Put, Project and Unlink.
LEMMA GrantsKept ==
  ASSUME TypeInv, NEW c \in Clients, NEW o,
         op' = [op EXCEPT ![c] = o], o.pc # "project", UNCHANGED held,
         NEW d \in Clients
  PROVE  Grants(d)' \subseteq Grants(d)
  BY DEF TypeInv, TypeOK, Grants

\* A write grants its caller the record written, and nobody anything else.
LEMMA GrantsPut ==
  ASSUME TypeInv, NEW c \in Clients, NEW r \in LockRecord, Put(c, r), op[c].pc # "project",
         NEW d \in Clients
  PROVE  Grants(d)' \subseteq Grants(d) \union (IF d = c THEN {r} ELSE {})
  BY DEF TypeInv, TypeOK, Grants, Put, Idle

\* The record a client is about to write differs from the one it compares only
\* when the script wrote it: the three facts survive a step that adds no grant.
LEMMA TokensKept ==
  ASSUME TokenInv, TypeInv', NextTokenPending',
         \A d \in Clients : Grants(d)' \subseteq Grants(d),
         UNCHANGED epoch, store' \in {store, NoLock}
  PROVE  TokenInv'
  BY DEF TokenInv, GrantsBelowKey, TokensUnique

\* A write keeps the three token facts when its token is above every earlier one.
LEMMA TokensPut ==
  ASSUME TokenInv, TypeInv', NEW c \in Clients, NEW r \in LockRecord, Put(c, r),
         op[c].pc # "project", r.epoch = epoch', epoch' \in Nat,
         \/ epoch' = epoch + 1
         \/ epoch' = epoch /\ store # NoLock /\ r.token = store.token + 1
  PROVE  TokenInv'
<1> USE DEF TokenInv
<1>1. store' = r
  BY DEF Put
<1>2. r.token \in Nat /\ r.epoch \in Nat /\ epoch \in Nat
  BY DEF LockRecord, TypeInv, TypeOK
<1>3. store # NoLock => store.token \in Nat
  BY DEF TypeInv, TypeOK, MaybeRecord, LockRecord
<1>4. NextTokenPending'
  BY DEF NextTokenPending, Put, Idle, TypeInv, TypeOK
<1>5. \A d \in Clients : \A g \in Grants(d) :
        g.epoch \in Nat /\ g.token \in Nat /\ (g.epoch = r.epoch => g.token < r.token)
  <2> TAKE d \in Clients
  <2> TAKE g \in Grants(d)
  <2>1. g.epoch \in Nat /\ g.token \in Nat
    BY GrantType
  <2>2. g.epoch <= epoch /\ ((store # NoLock /\ g.epoch = epoch) => g.token <= store.token)
    BY DEF GrantsBelowKey
  <2> QED BY <2>1, <2>2, <1>2, <1>3
<1>6. GrantsBelowKey'
  <2> SUFFICES ASSUME NEW d \in Clients, NEW g \in Grants(d)'
               PROVE  g.epoch <= epoch' /\ (g.epoch = epoch' => g.token <= r.token)
    BY <1>1 DEF GrantsBelowKey
  <2>1. CASE g \in Grants(d)
    <3>1. g.epoch <= epoch
      BY <2>1 DEF GrantsBelowKey
    <3> QED BY <2>1, <1>2, <1>5, <3>1
  <2>2. CASE g = r
    BY <2>2, <1>2
  <2> QED BY <2>1, <2>2, GrantsPut
<1>7. TokensUnique'
  <2> SUFFICES ASSUME NEW d \in Clients, NEW e \in Clients, d # e,
                      NEW g \in Grants(d)', NEW h \in Grants(e)', g.epoch = h.epoch
               PROVE  g.token # h.token
    BY DEF TokensUnique
  <2>1. CASE g \in Grants(d) /\ h \in Grants(e)
    BY <2>1 DEF TokensUnique
  <2>2. CASE g = r /\ h \in Grants(e)
    BY <2>2, <1>2, <1>5
  <2>3. CASE h = r /\ g \in Grants(d)
    BY <2>3, <1>2, <1>5
  <2> QED BY <2>1, <2>2, <2>3, GrantsPut
<1> QED BY <1>1, <1>4, <1>6, <1>7

\* A step that leaves every grant alone and adds no record to the key.
Quiet(c, o) ==
  /\ op' = [op EXCEPT ![c] = o]
  /\ o.pc # "project"
  /\ o.pc = "cas" => o.new.token = o.existing.token + 1
  /\ UNCHANGED <<held, epoch>>
  /\ store' \in {store, NoLock}

\* Every step keeps the fencing tokens of one lifetime of the key distinct.
LEMMA TokenStep == TokenInv /\ [Next]_vars => TokenInv'
<1> SUFFICES ASSUME TokenInv, [Next]_vars PROVE TokenInv'
  OBVIOUS
<1>0. TypeInv /\ TypeInv'
  BY TypeStep DEF TokenInv
<1>1. ASSUME NEW c \in Clients, NEW o, Quiet(c, o) PROVE TokenInv'
  <2>1. NextTokenPending'
    BY <1>0, <1>1 DEF Quiet, TokenInv, NextTokenPending, TypeInv, TypeOK
  <2>2. \A d \in Clients : Grants(d)' \subseteq Grants(d)
    BY <1>0, <1>1, GrantsKept DEF Quiet
  <2> QED BY <1>0, <1>1, <2>1, <2>2, TokensKept DEF Quiet
<1>2. ASSUME NEW c \in Clients, Begin(c) PROVE TokenInv'
  <2>1. Quiet(c, [Idle EXCEPT !.pc = "read", !.at = clock])
    BY <1>2 DEF Quiet, Begin, Idle, serverVars
  <2> QED BY <1>1, <2>1
<1>3. ASSUME NEW c \in Clients, Read(c) PROVE TokenInv'
  <2>1. PICK cfg \in LockConfigs(ExpectedTokens(c)) : op' = [op EXCEPT ![c] =
         IF ~BaseChecks(c, cfg, store, op[c].at) \/ cfg.action = "inspect_lock"
           THEN Idle
         ELSE IF cfg.action = "release_lock"
           THEN [Idle EXCEPT !.pc = "del", !.existing = store]
         ELSE [pc |-> IF store = NoLock THEN "setnx" ELSE "cas",
               at |-> 0,
               existing |-> store,
               new |-> NewRecord(c, store, op[c].at),
               missing |-> Stale(store, op[c].at) /\ cfg.takeover]]
    BY <1>3 DEF Read
  <2>2. op[c].at \in Nat /\ store \in MaybeRecord
    BY <1>0 DEF TypeInv, TypeOK, Op
  <2>3. store # NoLock => NewRecord(c, store, op[c].at).token = store.token + 1
    BY <2>2, NewRecordType
  <2>4. UNCHANGED <<held, epoch, store>>
    BY <1>3 DEF Read, serverVars
  <2>5. CASE ~BaseChecks(c, cfg, store, op[c].at) \/ cfg.action = "inspect_lock"
    <3>1. Quiet(c, Idle)
      BY <2>1, <2>4, <2>5 DEF Quiet, Idle
    <3> QED BY <1>1, <3>1
  <2>6. CASE /\ ~(~BaseChecks(c, cfg, store, op[c].at) \/ cfg.action = "inspect_lock")
             /\ cfg.action = "release_lock"
    <3>1. Quiet(c, [Idle EXCEPT !.pc = "del", !.existing = store])
      BY <2>1, <2>4, <2>6 DEF Quiet, Idle
    <3> QED BY <1>1, <3>1
  <2>7. CASE /\ ~(~BaseChecks(c, cfg, store, op[c].at) \/ cfg.action = "inspect_lock")
             /\ cfg.action # "release_lock"
    <3> DEFINE o == [pc |-> IF store = NoLock THEN "setnx" ELSE "cas",
                     at |-> 0,
                     existing |-> store,
                     new |-> NewRecord(c, store, op[c].at),
                     missing |-> Stale(store, op[c].at) /\ cfg.takeover]
    <3>1. op' = [op EXCEPT ![c] = o]
      BY <2>1, <2>7
    <3>2. o.pc # "project" /\ (o.pc = "cas" => o.new.token = o.existing.token + 1)
      BY <2>3
    <3> HIDE DEF o
    <3>3. Quiet(c, o)
      BY <2>4, <3>1, <3>2 DEF Quiet
    <3> QED BY <1>1, <3>3
  <2> QED BY <2>5, <2>6, <2>7
<1>4. ASSUME NEW c \in Clients, Fail(c) PROVE TokenInv'
  <2>1. Quiet(c, Idle)
    BY <1>4 DEF Quiet, Fail, Idle, serverVars
  <2> QED BY <1>1, <2>1
<1>5. ASSUME NEW c \in Clients, op[c].pc \in {"setnx", "cas"}, PutFresh(c) PROVE TokenInv'
  <2>1. op[c].new \in LockRecord /\ epoch \in Nat
    BY <1>0, <1>5 DEF TypeInv, TypeOK, OpOK, Op, MaybeRecord
  <2> DEFINE r == [op[c].new EXCEPT !.epoch = epoch + 1]
  <2>2. r \in LockRecord /\ r.epoch = epoch + 1
    BY <2>1, WithEpoch
  <2>3. Put(c, r) /\ epoch' = epoch + 1
    BY <1>5 DEF PutFresh
  <2> HIDE DEF r
  <2> QED BY <1>0, <1>5, <2>1, <2>2, <2>3, TokensPut
<1>6. ASSUME NEW c \in Clients, SetIfAbsent(c) PROVE TokenInv'
  BY <1>4, <1>5, <1>6 DEF SetIfAbsent
<1>7. ASSUME NEW c \in Clients, CompareSet(c) PROVE TokenInv'
  <2>1. CASE store = NoLock /\ PutFresh(c)
    BY <1>7, <2>1, <1>5 DEF CompareSet
  <2>2. CASE Fail(c)
    BY <2>2, <1>4
  <2>3. CASE /\ Unchanged(op[c].existing)
             /\ Put(c, [op[c].new EXCEPT !.epoch = store.epoch])
             /\ UNCHANGED epoch
    <3>1. op[c].new \in LockRecord /\ store \in LockRecord /\ store # NoLock
      BY <1>0, <1>7, <2>3 DEF CompareSet, Unchanged, TypeInv, TypeOK, OpOK, Op, MaybeRecord
    <3>2. store.epoch \in Nat /\ store.epoch = epoch
      BY <3>1 DEF LockRecord, TokenInv
    <3>3. op[c].new.token = store.token + 1
      BY <1>7, <2>3 DEF CompareSet, Unchanged, TokenInv, NextTokenPending
    <3> DEFINE r == [op[c].new EXCEPT !.epoch = store.epoch]
    <3>4. r \in LockRecord /\ r.epoch = epoch /\ r.token = store.token + 1
      BY <3>1, <3>2, <3>3, WithEpoch
    <3>5. Put(c, r)
      BY <2>3
    <3> HIDE DEF r
    <3>6. epoch' = epoch /\ op[c].pc # "project"
      BY <1>7, <2>3 DEF CompareSet
    <3> QED BY <1>0, <3>1, <3>2, <3>4, <3>5, <3>6, TokensPut
  <2> QED BY <1>7, <2>1, <2>2, <2>3 DEF CompareSet
<1>8. ASSUME NEW c \in Clients, CompareDelete(c) PROVE TokenInv'
  <2>1. CASE Fail(c)
    BY <2>1, <1>4
  <2>2. CASE ~Fail(c)
    <3>1. Quiet(c, [Idle EXCEPT !.pc = "unlink"])
      BY <1>8, <2>2 DEF Quiet, CompareDelete, Idle
    <3> QED BY <1>1, <3>1
  <2> QED BY <2>1, <2>2
<1>9. ASSUME NEW c \in Clients, Project(c) \/ Unlink(c) PROVE TokenInv'
  <2>1. \A d \in Clients : Grants(d)' \subseteq Grants(d)
    BY <1>0, <1>9 DEF Project, Unlink, Grants, TypeInv, TypeOK, Idle
  <2>2. NextTokenPending'
    BY <1>0, <1>9 DEF Project, Unlink, NextTokenPending, TokenInv, TypeInv, TypeOK, Idle
  <2> QED BY <1>0, <1>9, <2>1, <2>2, TokensKept DEF Project, Unlink, serverVars
<1>10. ASSUME NEW c \in Clients, Crash(c) PROVE TokenInv'
  BY <1>10, <1>4 DEF Crash
<1>11. CASE Tick
  <2>1. \A d \in Clients : Grants(d)' \subseteq Grants(d)
    BY <1>11 DEF Tick, Grants
  <2>2. NextTokenPending'
    BY <1>11 DEF Tick, NextTokenPending, TokenInv
  <2> QED BY <1>0, <1>11, <2>1, <2>2, TokensKept DEF Tick
<1>12. CASE UNCHANGED vars
  <2>1. \A d \in Clients : Grants(d)' \subseteq Grants(d)
    BY <1>12 DEF vars, Grants
  <2>2. NextTokenPending'
    BY <1>12 DEF vars, NextTokenPending, TokenInv
  <2> QED BY <1>0, <1>12, <2>1, <2>2, TokensKept DEF vars
<1> QED
  BY <1>2, <1>3, <1>6, <1>7, <1>8, <1>9, <1>10, <1>11, <1>12 DEF Next

\* No token is granted at the start.
LEMMA TokenInit == Init => TokenInv
<1> SUFFICES ASSUME Init PROVE TokenInv
  OBVIOUS
<1>1. \A c \in Clients : Grants(c) = {} /\ op[c].pc = "idle"
  BY DEF Init, Grants, Idle
<1> QED
  BY <1>1, TypeInit DEF Init, TokenInv, NextTokenPending, GrantsBelowKey, TokensUnique

\* A fencing token names one grant within a lifetime of the key, whatever the
\* callers pass and however many there are.
THEOREM FencingTokensUnique == Spec => []TokensUnique
<1>1. Spec => []TokenInv
  BY TokenInit, TokenStep, PTL DEF Spec
<1>2. TokenInv => TokensUnique
  BY DEF TokenInv
<1> QED BY <1>1, <1>2, PTL

-----------------------------------------------------------------------------
(***************************************************************************)
(* The fence.  The projection is a grant of some time, perhaps an old one:   *)
(* its token is no larger than the key's in its lifetime, so that no later   *)
(* grant can have it too.                                                   *)
(***************************************************************************)
ProjectionBelowKey ==
  projection # NoLock =>
    /\ projection.epoch <= epoch
    /\ (store # NoLock /\ projection.epoch = epoch) => projection.token <= store.token

\* A grant with the projection's number is the projection.
GrantsMatchProjection ==
  projection # NoLock =>
    \A c \in Clients : \A g \in Grants(c) :
      g.epoch = projection.epoch /\ g.token = projection.token => g = projection

FenceInv == TokenInv /\ ProjectionBelowKey /\ GrantsMatchProjection

\* A step that leaves the projection alone and grants nothing.
LEMMA FenceKept ==
  ASSUME FenceInv, TokenInv', \A c \in Clients : Grants(c)' \subseteq Grants(c),
         UNCHANGED <<epoch, projection>>, store' \in {store, NoLock}
  PROVE  FenceInv'
  BY DEF FenceInv, ProjectionBelowKey, GrantsMatchProjection

\* A write numbers its grant above the projection.
LEMMA FencePut ==
  ASSUME FenceInv, TokenInv', NEW c \in Clients, NEW r \in LockRecord, Put(c, r),
         op[c].pc # "project", r.epoch = epoch', epoch' \in Nat,
         \/ epoch' = epoch + 1
         \/ epoch' = epoch /\ store # NoLock /\ r.token = store.token + 1
  PROVE  FenceInv'
<1>1. TypeInv /\ store' = r /\ UNCHANGED projection
  BY DEF FenceInv, TokenInv, Put
<1>2. r.token \in Nat /\ r.epoch \in Nat /\ epoch \in Nat
  BY <1>1 DEF LockRecord, TypeInv, TypeOK
<1>3. store # NoLock => store.token \in Nat
  BY <1>1 DEF TypeInv, TypeOK, MaybeRecord, LockRecord
<1>4. projection # NoLock => projection.token \in Nat /\ projection.epoch \in Nat
  BY <1>1 DEF TypeInv, TypeOK, MaybeRecord, LockRecord
<1>5. projection # NoLock => projection.epoch <= epoch' /\ (projection.epoch = r.epoch => projection.token < r.token)
  BY <1>2, <1>3, <1>4 DEF FenceInv, ProjectionBelowKey
<1>6. ProjectionBelowKey'
  BY <1>1, <1>2, <1>4, <1>5 DEF ProjectionBelowKey
<1>7. GrantsMatchProjection'
  <2> SUFFICES ASSUME projection # NoLock, NEW d \in Clients, NEW g \in Grants(d)',
                      g.epoch = projection.epoch, g.token = projection.token
               PROVE  g = projection
    BY <1>1 DEF GrantsMatchProjection
  <2>1. g \in Grants(d) \/ g = r
    BY <1>1, GrantsPut
  <2>2. g # r
    BY <1>2, <1>4, <1>5
  <2> QED BY <2>1, <2>2 DEF FenceInv, GrantsMatchProjection
<1> QED BY <1>6, <1>7 DEF FenceInv

\* Every step keeps the numbers of the projection and of the grants apart.
LEMMA FenceStep == FenceInv /\ [Next]_vars => FenceInv'
<1> SUFFICES ASSUME FenceInv, [Next]_vars PROVE FenceInv'
  OBVIOUS
<1>0. TokenInv /\ TokenInv' /\ TypeInv
  BY TokenStep DEF FenceInv, TokenInv
<1>1. ASSUME NEW c \in Clients, NEW o, op' = [op EXCEPT ![c] = o], o.pc # "project",
             UNCHANGED <<held, epoch, projection>>, store' \in {store, NoLock}
      PROVE  FenceInv'
  BY <1>0, <1>1, GrantsKept, FenceKept
<1>2. ASSUME NEW c \in Clients, Begin(c) \/ Fail(c) \/ Crash(c) PROVE FenceInv'
  <2>1. /\ \/ op' = [op EXCEPT ![c] = [Idle EXCEPT !.pc = "read", !.at = clock]]
           \/ op' = [op EXCEPT ![c] = Idle]
        /\ UNCHANGED <<held, epoch, projection, store>>
    BY <1>2 DEF Begin, Fail, Crash, serverVars
  <2>2. Idle.pc # "project" /\ [Idle EXCEPT !.pc = "read", !.at = clock].pc # "project"
    BY DEF Idle
  <2> QED BY <1>1, <2>1, <2>2
<1>3. ASSUME NEW c \in Clients, Read(c) PROVE FenceInv'
  <2>1. PICK cfg \in LockConfigs(ExpectedTokens(c)) : op' = [op EXCEPT ![c] =
         IF ~BaseChecks(c, cfg, store, op[c].at) \/ cfg.action = "inspect_lock"
           THEN Idle
         ELSE IF cfg.action = "release_lock"
           THEN [Idle EXCEPT !.pc = "del", !.existing = store]
         ELSE [pc |-> IF store = NoLock THEN "setnx" ELSE "cas",
               at |-> 0,
               existing |-> store,
               new |-> NewRecord(c, store, op[c].at),
               missing |-> Stale(store, op[c].at) /\ cfg.takeover]]
    BY <1>3 DEF Read
  <2> DEFINE o == IF ~BaseChecks(c, cfg, store, op[c].at) \/ cfg.action = "inspect_lock"
           THEN Idle
         ELSE IF cfg.action = "release_lock"
           THEN [Idle EXCEPT !.pc = "del", !.existing = store]
         ELSE [pc |-> IF store = NoLock THEN "setnx" ELSE "cas",
               at |-> 0,
               existing |-> store,
               new |-> NewRecord(c, store, op[c].at),
               missing |-> Stale(store, op[c].at) /\ cfg.takeover]
  <2>2. o.pc # "project"
    BY DEF Idle
  <2>3. op' = [op EXCEPT ![c] = o] /\ UNCHANGED <<held, epoch, projection, store>>
    BY <1>3, <2>1 DEF Read, serverVars
  <2> HIDE DEF o
  <2> QED BY <1>1, <2>2, <2>3
<1>4. ASSUME NEW c \in Clients, op[c].pc \in {"setnx", "cas"}, PutFresh(c) PROVE FenceInv'
  <2>1. op[c].new \in LockRecord /\ epoch \in Nat
    BY <1>0, <1>4 DEF TypeInv, TypeOK, OpOK, Op, MaybeRecord
  <2> DEFINE r == [op[c].new EXCEPT !.epoch = epoch + 1]
  <2>2. r \in LockRecord /\ r.epoch = epoch + 1
    BY <2>1, WithEpoch
  <2>3. Put(c, r) /\ epoch' = epoch + 1
    BY <1>4 DEF PutFresh
  <2> HIDE DEF r
  <2> QED BY <1>0, <1>4, <2>1, <2>2, <2>3, FencePut
<1>5. ASSUME NEW c \in Clients, SetIfAbsent(c) PROVE FenceInv'
  BY <1>2, <1>4, <1>5 DEF SetIfAbsent
<1>6. ASSUME NEW c \in Clients, CompareSet(c) PROVE FenceInv'
  <2>1. CASE store = NoLock /\ PutFresh(c)
    BY <1>4, <1>6, <2>1 DEF CompareSet
  <2>2. CASE Fail(c)
    BY <1>2, <2>2
  <2>3. CASE /\ Unchanged(op[c].existing)
             /\ Put(c, [op[c].new EXCEPT !.epoch = store.epoch])
             /\ UNCHANGED epoch
    <3>1. op[c].new \in LockRecord /\ store \in LockRecord /\ store # NoLock
      BY <1>0, <1>6, <2>3 DEF CompareSet, Unchanged, TypeInv, TypeOK, OpOK, Op, MaybeRecord
    <3>2. store.epoch \in Nat /\ store.epoch = epoch
      BY <1>0, <3>1 DEF LockRecord, TokenInv
    <3>3. op[c].new.token = store.token + 1
      BY <1>0, <1>6, <2>3 DEF CompareSet, Unchanged, TokenInv, NextTokenPending
    <3> DEFINE r == [op[c].new EXCEPT !.epoch = store.epoch]
    <3>4. r \in LockRecord /\ r.epoch = epoch /\ r.token = store.token + 1
      BY <3>1, <3>2, <3>3, WithEpoch
    <3>5. Put(c, r)
      BY <2>3
    <3> HIDE DEF r
    <3>6. epoch' = epoch /\ op[c].pc # "project"
      BY <1>6, <2>3 DEF CompareSet
    <3> QED BY <1>0, <3>1, <3>2, <3>4, <3>5, <3>6, FencePut
  <2> QED BY <1>6, <2>1, <2>2, <2>3 DEF CompareSet
<1>7. ASSUME NEW c \in Clients, CompareDelete(c) PROVE FenceInv'
  <2>1. CASE Fail(c)
    BY <1>2, <2>1
  <2>2. CASE ~Fail(c)
    <3> DEFINE o == [Idle EXCEPT !.pc = "unlink"]
    <3>1. op' = [op EXCEPT ![c] = o] /\ o.pc # "project" /\ store' = NoLock /\ UNCHANGED <<held, epoch, projection>>
      BY <1>7, <2>2 DEF CompareDelete, Idle
    <3> HIDE DEF o
    <3> QED BY <1>1, <3>1
  <2> QED BY <2>1, <2>2
\* What is projected is a grant of the caller, and every other client's grants
\* of that lifetime have other tokens.
<1>8. ASSUME NEW c \in Clients, Project(c) PROVE FenceInv'
  <2>1. /\ op[c].pc = "project" /\ op[c].new \in Grants(c)
        /\ projection' = op[c].new /\ UNCHANGED <<store, epoch>>
    BY <1>8 DEF Project, Grants, serverVars
  <2>2. ProjectionBelowKey'
    BY <1>0, <2>1 DEF ProjectionBelowKey, TokenInv, GrantsBelowKey
  <2>3. \A d \in Clients : Grants(d)' \subseteq IF d = c THEN {op[c].new} ELSE Grants(d)
    BY <1>0, <1>8 DEF Project, Grants, TypeInv, TypeOK, Idle
  <2>4. GrantsMatchProjection'
    BY <1>0, <2>1, <2>3 DEF GrantsMatchProjection, TokenInv, TokensUnique
  <2> QED BY <1>0, <2>2, <2>4 DEF FenceInv
<1>9. ASSUME NEW c \in Clients, Unlink(c) PROVE FenceInv'
  <2>1. projection' = NoLock
    BY <1>9 DEF Unlink
  <2> QED BY <1>0, <2>1 DEF FenceInv, ProjectionBelowKey, GrantsMatchProjection
<1>10. CASE Tick \/ UNCHANGED vars
  <2>1. \A d \in Clients : Grants(d)' \subseteq Grants(d)
    BY <1>10 DEF Tick, vars, Grants
  <2> QED BY <1>0, <1>10, <2>1, FenceKept DEF Tick, vars
<1> QED BY <1>2, <1>3, <1>5, <1>6, <1>7, <1>8, <1>9, <1>10 DEF Next

\* The fence admits a writer on its own grant only, within a lifetime of the key
\* and whatever the callers pass: projections written late, left by a crash or
\* overtaken by other clients' never lend their token to another grant.
THEOREM FenceAdmitsOwn == Spec => []FenceAdmitsOwnGrant
<1>1. Init => FenceInv
  BY TokenInit DEF Init, FenceInv, ProjectionBelowKey, GrantsMatchProjection
<1>2. Spec => []FenceInv
  BY <1>1, FenceStep, PTL DEF Spec
<1>3. FenceInv => FenceAdmitsOwnGrant
  BY DEF FenceInv, GrantsMatchProjection, FenceAdmitsOwnGrant, FenceAdmits, Grants
<1> QED BY <1>2, <1>3, PTL

-----------------------------------------------------------------------------
(***************************************************************************)
(* Leases.  What the callers must do for a lease to protect its holder: the *)
(* resume scheduler names its owner on renew and release and never takes a  *)
(* stale lock over.  The invariant adds what a pending write carries: under *)
(* that discipline it keeps the owner it compared, and its lease ends no    *)
(* later than the TTL the server will count.                                *)
(***************************************************************************)
Disciplined == NameOwner = {TRUE} /\ Takeover = {FALSE}

PendingOK(c, o) ==
  /\ o.at <= clock
  /\ o.pc \in {"setnx", "cas"} =>
       /\ o.new.owner = OwnerOf[c]
       /\ o.new.expires <= clock + LeaseSeconds
  /\ o.pc = "setnx" => o.new.token = 1
  /\ o.pc = "cas" => o.existing.owner = OwnerOf[c] /\ ~o.missing

LeaseWithinTTL ==
  store # NoLock =>
    /\ clock < ttl
    /\ ttl <= clock + LeaseSeconds
    /\ store.expires <= ttl
    /\ \A c \in Clients : \A g \in Grants(c) : g.epoch = epoch => g.expires <= ttl

LeaseInv ==
  /\ TokenInv
  /\ \A c \in Clients : PendingOK(c, op[c])
  /\ LeaseWithinTTL
  /\ LeaseProtectsHolder

\* A disciplined caller gets past _base_checks only for its own record.
LEMMA OwnRecordOnly ==
  ASSUME Disciplined, NEW c \in Clients, NEW tokens, NEW cfg \in LockConfigs(tokens),
         NEW existing, NEW at, BaseChecks(c, cfg, existing, at),
         cfg.action # "inspect_lock", existing # NoLock
  PROVE  existing.owner = OwnerOf[c] /\ cfg.takeover = FALSE
<1>1. cfg.takeover = FALSE /\ cfg.named = TRUE
  BY DEF Disciplined, LockConfigs
<1>2. cfg.action \in {"acquire_lock", "renew_lock", "release_lock"}
  BY DEF LockConfigs, Actions
<1> QED
  BY <1>1, <1>2 DEF BaseChecks, AcquireAllowed, ExpectedOwnerMatches

\* The call that read the key: what it will write obeys PendingOK.
LEMMA ReadPending ==
  ASSUME Disciplined, LeaseInv, NEW c \in Clients, Read(c)
  PROVE  PendingOK(c, op'[c])
<1> USE DEF LeaseInv
<1>0. /\ op[c].at \in Nat /\ op[c].at <= clock /\ clock \in Nat /\ store \in MaybeRecord
      /\ LeaseSeconds \in Nat /\ op \in [Clients -> Op]
  BY LockAssumption DEF TokenInv, TypeInv, TypeOK, Op, PendingOK
<1>1. PICK cfg \in LockConfigs(ExpectedTokens(c)) : op' = [op EXCEPT ![c] =
       IF ~BaseChecks(c, cfg, store, op[c].at) \/ cfg.action = "inspect_lock"
         THEN Idle
       ELSE IF cfg.action = "release_lock"
         THEN [Idle EXCEPT !.pc = "del", !.existing = store]
       ELSE [pc |-> IF store = NoLock THEN "setnx" ELSE "cas",
             at |-> 0,
             existing |-> store,
             new |-> NewRecord(c, store, op[c].at),
             missing |-> Stale(store, op[c].at) /\ cfg.takeover]]
  BY DEF Read
<1>2. CASE ~BaseChecks(c, cfg, store, op[c].at) \/ cfg.action = "inspect_lock"
  BY <1>0, <1>1, <1>2 DEF PendingOK, Idle
<1>3. CASE /\ ~(~BaseChecks(c, cfg, store, op[c].at) \/ cfg.action = "inspect_lock")
           /\ cfg.action = "release_lock"
  BY <1>0, <1>1, <1>3 DEF PendingOK, Idle
<1>4. CASE /\ ~(~BaseChecks(c, cfg, store, op[c].at) \/ cfg.action = "inspect_lock")
           /\ cfg.action # "release_lock"
  <2> DEFINE n == NewRecord(c, store, op[c].at)
             o == [pc |-> IF store = NoLock THEN "setnx" ELSE "cas",
                   at |-> 0,
                   existing |-> store,
                   new |-> n,
                   missing |-> Stale(store, op[c].at) /\ cfg.takeover]
  <2>1. op'[c] = o
    BY <1>0, <1>1, <1>4
  <2>2. store # NoLock => store.owner = OwnerOf[c] /\ cfg.takeover = FALSE
    BY <1>4, OwnRecordOnly
  <2>3. n.owner = OwnerOf[c] /\ n.expires = op[c].at + LeaseSeconds /\ (store = NoLock => n.token = 1)
    BY <1>0, NewRecordType
  <2> HIDE DEF n
  <2>4. n.expires <= clock + LeaseSeconds
    BY <1>0, <2>3
  <2>5. o.missing = (Stale(store, op[c].at) /\ cfg.takeover)
    OBVIOUS
  <2>6. store # NoLock => ~o.missing
    BY <2>2, <2>5
  <2>7. PendingOK(c, o)
    <3>1. /\ o.at = 0 /\ o.new = n /\ o.existing = store
          /\ o.pc = IF store = NoLock THEN "setnx" ELSE "cas"
      OBVIOUS
    <3> HIDE DEF o
    <3> QED BY <1>0, <2>2, <2>3, <2>4, <2>6, <3>1 DEF PendingOK
  <2> QED BY <2>1, <2>7
<1> QED BY <1>2, <1>3, <1>4

\* A write lands a record whose owner and lease the call fixed when it read.
LEMMA LeasePut ==
  ASSUME LeaseInv, TokenInv', NEW c \in Clients, NEW r \in LockRecord, Put(c, r),
         op[c].pc # "project", r.owner = OwnerOf[c], r.expires <= clock + LeaseSeconds,
         r.epoch = epoch', epoch' \in Nat,
         \/ epoch' = epoch + 1 /\ store = NoLock
         \/ epoch' = epoch /\ store # NoLock /\ store.owner = r.owner
  PROVE  LeaseInv'
<1> USE DEF LeaseInv
<1>0. /\ clock \in Nat /\ ttl \in Nat /\ epoch \in Nat /\ LeaseSeconds \in Nat \ {0}
      /\ r.expires \in Nat /\ op \in [Clients -> Op] /\ TypeInv
  BY LockAssumption DEF TokenInv, TypeInv, TypeOK, LockRecord
<1>1. store' = r /\ ttl' = clock + LeaseSeconds /\ clock' = clock /\ released' = released /\ r # NoLock
  BY NoLockAssumption DEF Put
<1>2. \A d \in Clients : PendingOK(d, op[d])'
  BY <1>0, <1>1 DEF PendingOK, Put, Idle
<1>3. \A d \in Clients : \A g \in Grants(d) : g.epoch \in Nat /\ g.expires \in Nat /\ g.epoch <= epoch
  BY <1>0, GrantType DEF TokenInv, GrantsBelowKey
<1>4. \A d \in Clients : \A g \in Grants(d)' : g \in Grants(d) \/ (d = c /\ g = r)
  BY <1>0, GrantsPut
<1>5. LeaseWithinTTL'
  <2>1. ASSUME NEW d \in Clients, NEW g \in Grants(d), g.epoch = epoch'
        PROVE  g.expires <= clock + LeaseSeconds
    <3>1. g.epoch <= epoch /\ g.expires \in Nat
      BY <1>3
    <3>2. store # NoLock /\ epoch' = epoch
      BY <1>0, <2>1, <3>1
    <3>3. g.expires <= ttl /\ ttl <= clock + LeaseSeconds
      BY <2>1, <3>2 DEF LeaseWithinTTL
    <3> QED BY <1>0, <3>1, <3>3
  <2> QED BY <1>0, <1>1, <1>4, <2>1 DEF LeaseWithinTTL
<1>6. LeaseProtectsHolder'
  <2> SUFFICES ASSUME NEW d \in Clients, NEW g \in Grants(d)', clock < g.expires
               PROVE  g.epoch \in released \/ (r.epoch = g.epoch /\ r.owner = OwnerOf[d])
    BY <1>1 DEF LeaseProtectsHolder
  <2>1. CASE g \in Grants(d)
    <3>1. g.epoch \in released \/ (store # NoLock /\ store.epoch = g.epoch /\ store.owner = OwnerOf[d])
      BY <2>1 DEF LeaseProtectsHolder
    <3> QED BY <3>1 DEF TokenInv
  <2>2. CASE d = c /\ g = r
    BY <2>2
  <2> QED BY <1>4, <2>1, <2>2
<1> QED BY <1>2, <1>5, <1>6

\* Time passing only loosens the bound a lease puts on the key's TTL.
LEMMA LaterBound ==
  ASSUME NEW t \in Nat, NEW a \in Nat, NEW b \in Nat, NEW l \in Nat,
         t <= a + l, a <= b
  PROVE  t <= b + l
OBVIOUS

\* A step that adds no grant, and takes the key away only with a release or
\* when its TTL has run out.
LEMMA LeaseKept ==
  ASSUME LeaseInv, TokenInv',
         \A d \in Clients : PendingOK(d, op[d])',
         \A d \in Clients : Grants(d)' \subseteq Grants(d),
         UNCHANGED <<ttl, epoch>>, clock' \in Nat, clock <= clock',
         released \subseteq released',
         \/ /\ store' = store
            /\ store # NoLock => clock' < ttl
         \/ /\ store' = NoLock
            /\ store # NoLock => ttl <= clock' \/ store.epoch \in released'
  PROVE  LeaseInv'
<1> USE DEF LeaseInv
<1>0. /\ clock \in Nat /\ ttl \in Nat /\ LeaseSeconds \in Nat
      /\ store # NoLock => store.expires \in Nat /\ store.epoch = epoch
  BY LockAssumption DEF TokenInv, TypeInv, TypeOK, MaybeRecord, LockRecord
<1>1. LeaseWithinTTL'
  <2> SUFFICES ASSUME store' # NoLock
               PROVE  /\ clock' < ttl
                      /\ ttl <= clock' + LeaseSeconds
                      /\ store.expires <= ttl
                      /\ \A c \in Clients : \A g \in Grants(c)' : g.epoch = epoch => g.expires <= ttl
    BY DEF LeaseWithinTTL
  <2>1. store' = store /\ store # NoLock
    OBVIOUS
  <2>2. ttl <= clock + LeaseSeconds
    BY <2>1 DEF LeaseWithinTTL
  <2>3. ttl <= clock' + LeaseSeconds
    <3>1. clock \in Nat /\ clock' \in Nat /\ ttl \in Nat /\ LeaseSeconds \in Nat
      BY <1>0
    <3> QED BY <3>1, <2>2, LaterBound, Zenon
  <2>4. store.expires <= ttl
    BY <2>1 DEF LeaseWithinTTL
  <2>5. \A c \in Clients : \A g \in Grants(c)' : g.epoch = epoch => g.expires <= ttl
    BY <2>1 DEF LeaseWithinTTL
  <2> QED BY <2>1, <2>3, <2>4, <2>5
<1>2. LeaseProtectsHolder'
  <2> SUFFICES ASSUME NEW d \in Clients, NEW g \in Grants(d)', clock' < g.expires
               PROVE  \/ g.epoch \in released'
                      \/ store' # NoLock /\ store'.epoch = g.epoch /\ store'.owner = OwnerOf[d]
    BY DEF LeaseProtectsHolder
  <2>1. g \in Grants(d) /\ g.expires \in Nat
    BY GrantType DEF TokenInv
  <2>2. clock < g.expires
    BY <1>0, <2>1
  <2>3. g.epoch \in released \/ (store # NoLock /\ store.epoch = g.epoch /\ store.owner = OwnerOf[d])
    BY <2>1, <2>2 DEF LeaseProtectsHolder
  <2>4. store # NoLock /\ store.epoch = g.epoch => g.expires <= ttl
    BY <1>0, <2>1 DEF LeaseWithinTTL
  <2> QED BY <1>0, <2>1, <2>3, <2>4
<1> QED BY <1>1, <1>2

\* What one step does to the key, seen from outside.
KeyWritten ==
  /\ store' \in LockRecord
  /\ store'.expires <= clock + LeaseSeconds
  /\ IF store = NoLock
       THEN store'.token = 1
       ELSE store'.owner = store.owner /\ store'.token = store.token + 1
  /\ UNCHANGED clock

KeyExpires ==
  /\ clock' = clock + 1
  /\ store' = store \/ (store # NoLock /\ store' = NoLock /\ store.expires <= clock')

KeyStep ==
  \/ UNCHANGED <<store, clock>>
  \/ KeyWritten
  \/ store # NoLock /\ store' = NoLock /\ UNCHANGED clock
  \/ KeyExpires

\* A call that leaves the key, its TTL and every grant alone.
Bystander(c, o) ==
  /\ op' = [op EXCEPT ![c] = o]
  /\ PendingOK(c, o)
  /\ UNCHANGED <<clock, serverVars>>

\* Every step keeps the leases, and is one of the changes the key may undergo.
LEMMA LeaseStep ==
  ASSUME Disciplined, LeaseInv, [Next]_vars
  PROVE  LeaseInv' /\ KeyStep
<1>0. /\ TokenInv /\ TokenInv' /\ TypeInv /\ clock \in Nat /\ op \in [Clients -> Op]
      /\ \A d \in Clients : PendingOK(d, op[d])
  BY TokenStep DEF LeaseInv, TokenInv, TypeInv, TypeOK
<1>k. store # NoLock => clock < ttl
  BY DEF LeaseInv, LeaseWithinTTL
<1>1. ASSUME NEW c \in Clients, NEW o, Bystander(c, o),
             \A d \in Clients : Grants(d)' \subseteq Grants(d)
      PROVE  LeaseInv' /\ KeyStep
  <2>1. \A d \in Clients : PendingOK(d, op[d])'
    BY <1>0, <1>1 DEF Bystander, PendingOK
  <2> QED BY <1>0, <1>k, <1>1, <2>1, LeaseKept DEF Bystander, serverVars, KeyStep
<1>2. ASSUME NEW c \in Clients, NEW o, Bystander(c, o), o.pc # "project", UNCHANGED held
      PROVE  LeaseInv' /\ KeyStep
  <2>1. \A d \in Clients : Grants(d)' \subseteq Grants(d)
    BY <1>0, <1>2, GrantsKept DEF Bystander
  <2> QED BY <1>1, <1>2, <2>1
<1>3. \A c \in Clients : PendingOK(c, Idle)
  BY <1>0 DEF PendingOK, Idle
<1>4. ASSUME NEW c \in Clients, Begin(c) PROVE LeaseInv' /\ KeyStep
  <2> DEFINE o == [Idle EXCEPT !.pc = "read", !.at = clock]
  <2>1. PendingOK(c, o) /\ o.pc # "project"
    BY <1>0 DEF PendingOK, Idle
  <2>2. Bystander(c, o) /\ UNCHANGED held
    BY <1>4, <2>1 DEF Begin, Bystander
  <2> HIDE DEF o
  <2> QED BY <1>2, <2>1, <2>2
<1>5. ASSUME NEW c \in Clients, Read(c) PROVE LeaseInv' /\ KeyStep
  <2>1. PendingOK(c, op'[c])
    BY <1>5, ReadPending
  <2>2. op' = [op EXCEPT ![c] = op'[c]] /\ op'[c].pc # "project"
    BY <1>0, <1>5 DEF Read, Idle
  <2>3. Bystander(c, op'[c]) /\ UNCHANGED held
    BY <1>5, <2>1, <2>2 DEF Read, Bystander
  <2> QED BY <1>0, <1>k, <1>5, <2>1, <2>2, <2>3, GrantsKept, LeaseKept
          DEF Bystander, serverVars, KeyStep, PendingOK
<1>6. ASSUME NEW c \in Clients, Fail(c) PROVE LeaseInv' /\ KeyStep
  <2>1. Bystander(c, Idle) /\ UNCHANGED held /\ Idle.pc # "project"
    BY <1>3, <1>6 DEF Fail, Bystander, Idle
  <2> QED BY <1>2, <2>1
<1>7. ASSUME NEW c \in Clients, store = NoLock, op[c].pc = "setnx", PutFresh(c)
      PROVE  LeaseInv' /\ KeyStep
  <2>1. op[c].new \in LockRecord /\ epoch \in Nat
    BY <1>0, <1>7 DEF TypeInv, TypeOK, OpOK, Op, MaybeRecord
  <2>2. op[c].new.owner = OwnerOf[c] /\ op[c].new.expires <= clock + LeaseSeconds /\ op[c].new.token = 1
    BY <1>0, <1>7 DEF PendingOK
  <2> DEFINE r == [op[c].new EXCEPT !.epoch = epoch + 1]
  <2>3. /\ r \in LockRecord /\ r.epoch = epoch + 1 /\ r.owner = OwnerOf[c]
        /\ r.expires <= clock + LeaseSeconds /\ r.token = 1
    BY <2>1, <2>2, WithEpoch
  <2>4. Put(c, r) /\ epoch' = epoch + 1
    BY <1>7 DEF PutFresh
  <2> HIDE DEF r
  <2>5. LeaseInv'
    BY <1>0, <1>7, <2>1, <2>3, <2>4, LeasePut
  <2>6. KeyWritten
    BY <1>7, <2>3, <2>4 DEF KeyWritten, Put
  <2> QED BY <2>5, <2>6 DEF KeyStep
<1>8. ASSUME NEW c \in Clients, SetIfAbsent(c) PROVE LeaseInv' /\ KeyStep
  BY <1>6, <1>7, <1>8 DEF SetIfAbsent
<1>9. ASSUME NEW c \in Clients, CompareSet(c) PROVE LeaseInv' /\ KeyStep
  <2>1. CASE Fail(c)
    BY <2>1, <1>6
  <2>2. CASE ~Fail(c)
    <3>1. /\ op[c].pc = "cas"
          /\ Unchanged(op[c].existing)
          /\ Put(c, [op[c].new EXCEPT !.epoch = store.epoch])
          /\ UNCHANGED epoch
      BY <1>0, <1>9, <2>2 DEF CompareSet, PendingOK
    <3>2. op[c].new \in LockRecord /\ store \in LockRecord /\ store # NoLock
      BY <1>0, <3>1 DEF Unchanged, TypeInv, TypeOK, OpOK, Op, MaybeRecord
    <3>3. store.epoch \in Nat /\ store.epoch = epoch /\ epoch \in Nat
      BY <1>0, <3>2 DEF LockRecord, TokenInv
    <3>4. /\ op[c].new.owner = OwnerOf[c] /\ store.owner = OwnerOf[c]
          /\ op[c].new.expires <= clock + LeaseSeconds
      BY <1>0, <3>1 DEF PendingOK, Unchanged
    <3>5. op[c].new.token = store.token + 1
      BY <1>0, <3>1 DEF Unchanged, TokenInv, NextTokenPending
    <3> DEFINE r == [op[c].new EXCEPT !.epoch = store.epoch]
    <3>6. /\ r \in LockRecord /\ r.epoch = epoch /\ r.owner = OwnerOf[c]
          /\ r.expires <= clock + LeaseSeconds /\ r.token = store.token + 1
      BY <3>2, <3>3, <3>4, <3>5, WithEpoch
    <3>7. Put(c, r)
      BY <3>1
    <3> HIDE DEF r
    <3>8. LeaseInv'
      BY <1>0, <3>1, <3>2, <3>3, <3>4, <3>6, <3>7, LeasePut
    <3>9. KeyWritten
      BY <3>2, <3>4, <3>6, <3>7 DEF KeyWritten, Put
    <3> QED BY <3>8, <3>9 DEF KeyStep
  <2> QED BY <2>1, <2>2
<1>10. ASSUME NEW c \in Clients, CompareDelete(c) PROVE LeaseInv' /\ KeyStep
  <2>1. CASE Fail(c)
    BY <2>1, <1>6
  <2>2. CASE ~Fail(c)
    <3> DEFINE o == [Idle EXCEPT !.pc = "unlink"]
    <3>1. /\ store # NoLock /\ store' = NoLock /\ released' = released \union {store.epoch}
          /\ op' = [op EXCEPT ![c] = o] /\ UNCHANGED <<clock, ttl, epoch, held>>
      BY <1>10, <2>2 DEF CompareDelete, Unchanged
    <3>2. PendingOK(c, o) /\ o.pc # "project"
      BY <1>0 DEF PendingOK, Idle
    <3> HIDE DEF o
    <3>3. \A d \in Clients : Grants(d)' \subseteq Grants(d)
      BY <1>0, <3>1, <3>2, GrantsKept
    <3>4. \A d \in Clients : PendingOK(d, op[d])'
      BY <1>0, <3>1, <3>2 DEF PendingOK
    <3> QED BY <1>0, <3>1, <3>3, <3>4, LeaseKept DEF KeyStep
  <2> QED BY <2>1, <2>2
<1>11. ASSUME NEW c \in Clients, Project(c) \/ Unlink(c) PROVE LeaseInv' /\ KeyStep
  <2>1. \A d \in Clients : Grants(d)' \subseteq Grants(d)
    BY <1>0, <1>11 DEF Project, Unlink, Grants, Idle, TypeInv, TypeOK
  <2>2. Bystander(c, Idle)
    BY <1>3, <1>11 DEF Project, Unlink, Bystander
  <2> QED BY <1>1, <2>1, <2>2
<1>12. ASSUME NEW c \in Clients, Crash(c) PROVE LeaseInv' /\ KeyStep
  BY <1>6, <1>12 DEF Crash
<1>13. CASE Tick
  <2>1. /\ \A d \in Clients : Grants(d)' \subseteq Grants(d)
        /\ clock' = clock + 1 /\ UNCHANGED <<ttl, op, epoch, released>>
    BY <1>13 DEF Tick, Grants
  <2>2. \A d \in Clients : PendingOK(d, op[d])'
    <3> SUFFICES ASSUME NEW d \in Clients PROVE PendingOK(d, op[d])'
      OBVIOUS
    <3>1. op[d].at \in Nat /\ op[d].new \in MaybeRecord /\ LeaseSeconds \in Nat
      BY <1>0, LockAssumption DEF Op
    <3>2. op[d].pc \in {"setnx", "cas"} => op[d].new.expires \in Nat
      BY <1>0, <3>1 DEF TypeInv, OpOK, MaybeRecord, LockRecord
    <3> QED BY <1>0, <2>1, <3>1, <3>2 DEF PendingOK
  <2>3. \/ store' = store /\ (store # NoLock => clock' < ttl)
        \/ store # NoLock /\ store' = NoLock /\ ttl <= clock' /\ store.expires <= clock'
    <3>1. ttl \in Nat /\ (store # NoLock => store.expires \in Nat /\ store.expires <= ttl)
      BY <1>0 DEF TypeInv, TypeOK, MaybeRecord, LockRecord, LeaseInv, LeaseWithinTTL
    <3> QED BY <1>0, <1>13, <2>1, <3>1 DEF Tick, Drop
  <2>4. LeaseInv'
    BY <1>0, <2>1, <2>2, <2>3, LeaseKept
  <2> QED BY <2>1, <2>3, <2>4 DEF KeyStep, KeyExpires
<1>14. CASE UNCHANGED vars
  <2>1. \A d \in Clients : PendingOK(d, op[d])' /\ Grants(d)' \subseteq Grants(d)
    BY <1>0, <1>14 DEF vars, PendingOK, Grants
  <2> QED BY <1>0, <1>k, <1>14, <2>1, LeaseKept DEF vars, KeyStep
<1> QED
  BY <1>4, <1>5, <1>8, <1>9, <1>10, <1>11, <1>12, <1>13, <1>14 DEF Next

\* No lease is held at the start.
LEMMA LeaseInit == Init => LeaseInv
<1> SUFFICES ASSUME Init PROVE LeaseInv
  OBVIOUS
<1>1. \A c \in Clients : Grants(c) = {} /\ op[c] = Idle
  BY DEF Init, Grants, Idle
<1>2. \A c \in Clients : PendingOK(c, op[c])
  BY <1>1 DEF Init, PendingOK, Idle
<1> QED
  BY <1>1, <1>2, TokenInit DEF Init, LeaseInv, LeaseWithinTTL, LeaseProtectsHolder

\* With disciplined callers LeaseInv holds throughout.
LEMMA LeaseInvariance ==
  ASSUME Disciplined
  PROVE  Spec => []LeaseInv
<1>1. LeaseInv /\ [Next]_vars => LeaseInv'
  BY LeaseStep
<1> QED BY <1>1, LeaseInit, PTL DEF Spec

\* A client whose lease has not ended still holds the lock, whatever the
\* interleaving of calls, crashes, lost replies and expiries, as long as the
\* callers name their owner and take over no stale lock.
THEOREM LeaseProtects ==
  ASSUME Disciplined
  PROVE  Spec => []LeaseProtectsHolder
<1>1. LeaseInv => LeaseProtectsHolder
  BY DEF LeaseInv
<1> QED BY <1>1, LeaseInvariance, PTL

\* No step replaces a live lease by another owner's record, under the same
\* discipline.
THEOREM NoSteal ==
  ASSUME Disciplined
  PROVE  Spec => NoStealOfLiveLease
<1>1. KeyStep => (store # NoLock /\ store' # NoLock => store'.owner = store.owner)
  BY DEF KeyStep, KeyWritten, KeyExpires
<1>2. LeaseInv /\ [Next]_vars =>
        [ (store # NoLock /\ store' # NoLock /\ clock < store.expires)
            => store'.owner = store.owner ]_vars
  BY LeaseStep, <1>1
<1> QED BY <1>2, LeaseInvariance, PTL DEF Spec, NoStealOfLiveLease

\* The step the abstract lock takes for each change of the key.
LEMMA KeyStepRefines ==
  ASSUME KeyStep, clock \in Nat, store \in MaybeRecord,
         store # NoLock => store.expires \in Nat
  PROVE  [Contract!Next]_(Contract!vars)
<1> DEFINE lock == IF store = NoLock THEN NoLock ELSE LeaseView(store)
<1>0. LeaseSeconds \in Nat /\ \A r \in LockRecord : r # NoLock /\ LeaseView(r) # NoLock
  BY LockAssumption, NoLockAssumption DEF LeaseView, LockRecord
<1>1. CASE UNCHANGED <<store, clock>>
  BY <1>1 DEF Contract!vars
<1>2. CASE KeyWritten
  <2>1. /\ store' \in LockRecord /\ store' # NoLock /\ clock' = clock
        /\ store'.owner \in Owners
        /\ store'.expires \in Contract!LeaseEnds
    BY <1>0, <1>2 DEF KeyWritten, Contract!LeaseEnds, LockRecord
  <2>2. CASE store = NoLock
    <3>1. LeaseView(store') = [owner |-> store'.owner, token |-> 1, expires |-> store'.expires]
      BY <1>2, <2>2 DEF KeyWritten, LeaseView
    <3>2. Contract!Grant(store'.owner)
      BY <2>1, <2>2, <3>1 DEF Contract!Grant
    <3> QED BY <2>1, <3>2 DEF Contract!Next
  <2>3. CASE store # NoLock
    <3>1. /\ LeaseView(store').expires = store'.expires
          /\ LeaseView(store') = [owner   |-> LeaseView(store).owner,
                                   token   |-> LeaseView(store).token + 1,
                                   expires |-> store'.expires]
      BY <1>2, <2>3 DEF KeyWritten, LeaseView
    <3>2. LeaseView(store) # NoLock
      BY <1>0, <2>3 DEF MaybeRecord
    <3>3. Contract!Extend
      BY <2>1, <2>3, <3>1, <3>2 DEF Contract!Extend
    <3> QED BY <3>3 DEF Contract!Next
  <2> QED BY <2>2, <2>3
<1>3. CASE store # NoLock /\ store' = NoLock /\ UNCHANGED clock
  <2>1. Contract!Release
    BY <1>0, <1>3 DEF Contract!Release, MaybeRecord
  <2> QED BY <2>1 DEF Contract!Next
<1>4. CASE KeyExpires
  <2>1. Contract!Tick
    <3>1. CASE store' = store
      BY <1>4, <3>1 DEF KeyExpires, Contract!Tick
    <3>2. CASE store # NoLock /\ store' = NoLock /\ store.expires <= clock'
      <4>1. LeaseView(store) # NoLock /\ LeaseView(store).expires = store.expires
        BY <1>0, <3>2 DEF MaybeRecord, LeaseView
      <4> QED BY <1>4, <3>2, <4>1 DEF KeyExpires, Contract!Tick
    <3> QED BY <1>4, <3>1, <3>2 DEF KeyExpires
  <2> QED BY <2>1 DEF Contract!Next
<1> QED BY <1>1, <1>2, <1>3, <1>4 DEF KeyStep

\* Seen as one record, the key behaves as LeaseLock promises.
THEOREM RefinesLeaseLock ==
  ASSUME Disciplined
  PROVE  Spec => ImplementsLeaseLock
<1>1. Init => Contract!Init
  BY DEF Init, Contract!Init
<1>2. LeaseInv => /\ clock \in Nat /\ store \in MaybeRecord
                  /\ store # NoLock => store.expires \in Nat
  BY DEF LeaseInv, TokenInv, TypeInv, TypeOK, MaybeRecord, LockRecord
<1>3. LeaseInv /\ [Next]_vars => [Contract!Next]_(Contract!vars)
  BY <1>2, LeaseStep, KeyStepRefines
<1> QED BY <1>1, <1>3, LeaseInvariance, PTL DEF Spec, ImplementsLeaseLock, Contract!Spec
=============================================================================
