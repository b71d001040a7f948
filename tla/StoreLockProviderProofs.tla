----------------------- MODULE StoreLockProviderProofs -----------------------
(***************************************************************************)
(* Theorems about StoreLockProvider.  Nothing in the local providers keeps  *)
(* two calls apart, so what they promise is proved under the assumption     *)
(* that one call is in flight at a time; a call may still die anywhere.     *)
(***************************************************************************)
EXTENDS StoreLockProvider, FiniteSetTheorems, LockChecksProofs

\* A call about to write or to project carries a record.
CallOK(o) ==
  /\ o \in [pc : PCs, at : Nat, new : MaybeRecord]
  /\ o.pc \in {"write", "fill", "project"} => o.new # NoLock

TypeInv == TypeOK /\ \A c \in Clients : CallOK(op[c])

\* A client between two calls is well typed.
LEMMA IdleOK == CallOK(Idle)
  BY DEF CallOK, Idle, PCs, MaybeRecord

\* What _base_checks lets through to a write becomes a well-typed pending write.
LEMMA ReadOK ==
  ASSUME TypeInv, NEW c \in Clients, Read(c)
  PROVE  op' \in [Clients -> [pc : PCs, at : Nat, new : MaybeRecord]] /\ CallOK(op'[c])
<1>1. op[c].at \in Nat /\ Existing \in MaybeRecord /\ op[c] \in [pc : PCs, at : Nat, new : MaybeRecord]
  BY DEF TypeInv, TypeOK, CallOK, Existing, MaybeRecord
<1>2. CallOK([Idle EXCEPT !.pc = "delete"])
  BY DEF CallOK, Idle, PCs, MaybeRecord
<1>3. CallOK([Idle EXCEPT !.pc = "write", !.new = NewRecord(c, Existing, op[c].at)])
  BY <1>1, NewRecordType DEF CallOK, Idle, PCs, MaybeRecord
<1>4. PICK cfg \in LockConfigs(ExpectedTokens(c)) : op' = [op EXCEPT ![c] =
         IF ~LockRecordIsValid \/ ~BaseChecks(c, cfg, Existing, op[c].at)
              \/ cfg.action = "inspect_lock"
           THEN Idle
         ELSE IF cfg.action = "release_lock"
           THEN [Idle EXCEPT !.pc = "delete"]
         ELSE [Idle EXCEPT !.pc = "write", !.new = NewRecord(c, Existing, op[c].at)]]
  BY DEF Read
<1> QED BY <1>2, <1>3, <1>4, IdleOK DEF TypeInv, TypeOK, CallOK

\* The record that lands: the pending one, stamped with the lifetime it is in.
LEMMA LandRecord ==
  ASSUME TypeInv, NEW c \in Clients, op[c].pc \in {"write", "fill"}, Land(c)
  PROVE  /\ store' \in LockRecord /\ store' # NoLock
         /\ store'.owner = op[c].new.owner
         /\ store'.token = op[c].new.token
         /\ store'.expires = op[c].new.expires
         /\ store'.epoch = IF store = NoLock THEN epoch + 1 ELSE store.epoch
         /\ epoch' = IF store = NoLock THEN epoch + 1 ELSE epoch
         /\ epoch' \in Nat
<1> DEFINE e == IF store = NoLock THEN epoch + 1 ELSE store.epoch
<1>1. op[c].new \in LockRecord /\ e \in Nat /\ epoch \in Nat
  BY DEF TypeInv, TypeOK, CallOK, MaybeRecord, LockRecord
<1>2. store' = [op[c].new EXCEPT !.epoch = e] /\ epoch' = IF store = NoLock THEN epoch + 1 ELSE epoch
  BY DEF Land
<1> HIDE DEF e
<1>3. /\ store' \in LockRecord /\ store' # NoLock /\ store'.epoch = e
      /\ store'.owner = op[c].new.owner
      /\ store'.token = op[c].new.token
      /\ store'.expires = op[c].new.expires
  BY <1>1, <1>2, WithEpoch
<1> QED BY <1>1, <1>2, <1>3 DEF e

\* Every step keeps the types, however many calls are in flight.
LEMMA TypeStep == TypeInv /\ [Next]_vars => TypeInv'
<1> SUFFICES ASSUME TypeInv, [Next]_vars PROVE TypeInv'
  OBVIOUS
<1> USE DEF TypeInv, TypeOK
<1>1. ASSUME NEW c \in Clients, Begin(c) PROVE TypeInv'
  <2>1. CallOK([Idle EXCEPT !.pc = "read", !.at = clock])
    BY DEF CallOK, Idle, PCs, MaybeRecord
  <2> QED BY <1>1, <2>1 DEF Begin, storeVars, CallOK
<1>2. ASSUME NEW c \in Clients, Read(c) PROVE TypeInv'
  <2>1. \A d \in Clients \ {c} : op'[d] = op[d]
    BY <1>2 DEF Read
  <2> QED BY <1>2, <2>1, ReadOK DEF Read, storeVars
<1>3. ASSUME NEW c \in Clients, Upsert(c) PROVE TypeInv'
  <2>1. store' \in LockRecord /\ store' # NoLock /\ epoch' \in Nat
    BY <1>3, LandRecord DEF Upsert
  <2>2. CallOK([Idle EXCEPT !.pc = "project", !.new = store'])
    BY <2>1 DEF CallOK, Idle, PCs, MaybeRecord
  <2> QED BY <1>3, <2>1, <2>2 DEF Upsert, CallOK, MaybeRecord
<1>4. ASSUME NEW c \in Clients, Truncate(c) PROVE TypeInv'
  BY <1>4 DEF Truncate, Goto, CallOK, PCs
<1>5. ASSUME NEW c \in Clients, Fill(c) PROVE TypeInv'
  <2>1. store' \in LockRecord /\ store' # NoLock /\ epoch' \in Nat
    BY <1>5, LandRecord DEF Fill
  <2> QED BY <1>5, <2>1, IdleOK DEF Fill, Done, CallOK, MaybeRecord
<1>6. ASSUME NEW c \in Clients, Project(c) PROVE TypeInv'
  BY <1>6, IdleOK DEF Project, Done, CallOK, storeVars
<1>7. ASSUME NEW c \in Clients, Delete(c) PROVE TypeInv'
  <2>1. released' \subseteq Nat /\ store' \in MaybeRecord
    <3>1. store # NoLock => store.epoch \in Nat
      BY DEF MaybeRecord, LockRecord
    <3>2. store' = NoLock /\ released' = IF store = NoLock THEN released ELSE released \union {store.epoch}
      BY <1>7 DEF Delete
    <3> QED BY <3>1, <3>2 DEF MaybeRecord
  <2>2. CASE kind = "sqlite"
    <3>1. CallOK([op[c] EXCEPT !.pc = "unlink"])
      BY DEF CallOK, PCs
    <3>2. op' = [op EXCEPT ![c] = [op[c] EXCEPT !.pc = "unlink"]] /\ held' = held
      BY <1>7, <2>2 DEF Delete, Goto
    <3> HIDE DEF TypeOK
    <3>3. op' \in [Clients -> [pc : PCs, at : Nat, new : MaybeRecord]] /\ \A d \in Clients : CallOK(op'[d])
      BY <3>1, <3>2 DEF TypeOK, CallOK
    <3> QED BY <1>7, <2>1, <3>2, <3>3 DEF Delete, TypeOK
  <2>3. CASE kind # "sqlite"
    BY <1>7, <2>1, <2>3, IdleOK DEF Delete, Done, CallOK, MaybeRecord
  <2> QED BY <2>2, <2>3
<1>8. ASSUME NEW c \in Clients, Unlink(c) PROVE TypeInv'
  BY <1>8, IdleOK DEF Unlink, Done, CallOK, storeVars, MaybeRecord
<1>9. ASSUME NEW c \in Clients, Crash(c) PROVE TypeInv'
  BY <1>9, IdleOK DEF Crash, Done, CallOK, storeVars
<1>10. CASE Tick
  BY <1>10 DEF Tick, storeVars
<1>11. CASE UNCHANGED vars
  BY <1>11 DEF vars
<1> QED
  BY <1>1, <1>2, <1>3, <1>4, <1>5, <1>6, <1>7, <1>8, <1>9, <1>10, <1>11 DEF Next

\* They hold at the start.
LEMMA TypeInit == Init => TypeInv
<1> SUFFICES ASSUME Init PROVE TypeInv
  OBVIOUS
<1>1. Idle \in [pc : PCs, at : Nat, new : MaybeRecord]
  BY IdleOK DEF CallOK
<1>2. \A c \in Clients : op[c] = Idle
  BY DEF Init
<1>3. TypeOK
  BY <1>1 DEF Init, TypeOK, MaybeRecord
<1> QED BY <1>2, <1>3, IdleOK DEF TypeInv

\* Types, for any number of calls in flight.
THEOREM StoreTypes == Spec => []TypeOK
<1>1. Spec => []TypeInv
  BY TypeInit, TypeStep, PTL DEF Spec
<1>2. TypeInv => TypeOK
  BY DEF TypeInv
<1> QED BY <1>1, <1>2, PTL

-----------------------------------------------------------------------------
(***************************************************************************)
(* One call at a time.  The record a call read is then still there when it  *)
(* writes, so a pending write carries the next token of the record it will  *)
(* replace, and every grant is below the record of its lifetime or of a     *)
(* lifetime that a release ended.                                           *)
(***************************************************************************)
OneCall == \A c, d \in Clients : op[c].pc # "idle" /\ op[d].pc # "idle" => c = d

PendingOK(c) ==
  /\ op[c].at <= clock
  /\ op[c].pc = "read" /\ store # NoLock => store.expires <= op[c].at + LeaseSeconds
  /\ op[c].pc \in {"write", "fill"} =>
       /\ op[c].new.owner = OwnerOf[c]
       /\ op[c].new.expires <= clock + LeaseSeconds
       /\ store = NoLock => op[c].new.token = 1
       /\ store # NoLock =>
            /\ op[c].new.token = store.token + 1
            /\ store.expires <= op[c].new.expires
            /\ NameOwner = {TRUE} => store.owner = OwnerOf[c] \/ store.expires <= clock
  /\ op[c].pc = "project" => op[c].new = store

RecordOK ==
  store # NoLock => store.epoch = epoch /\ store.expires <= clock + LeaseSeconds

\* A grant is of this lifetime, below the record, or of one that was released.
GrantOK(g) ==
  /\ g \in LockRecord
  /\ g.epoch <= epoch
  /\ store # NoLock /\ g.epoch = epoch => g.token <= store.token /\ g.expires <= store.expires
  /\ g.epoch \in released \/ (store # NoLock /\ g.epoch = epoch)

GrantsOK ==
  /\ \A c \in Clients : \A g \in Grants(c) : GrantOK(g)
  /\ TokensUnique
  /\ NameOwner = {TRUE} => LeaseProtectsHolder

SerialInv ==
  /\ TypeInv
  /\ OneCall
  /\ \A c \in Clients : PendingOK(c)
  /\ RecordOK
  /\ GrantsOK

\* The calls of the others are not disturbed: there are none.
LEMMA OthersIdle ==
  ASSUME SerialInv, NEW c \in Clients, op[c].pc # "idle", NEW o, op' = [op EXCEPT ![c] = o],
         UNCHANGED clock
  PROVE  OneCall' /\ op'[c] = o /\ \A d \in Clients : d # c => op'[d] = op[d] /\ PendingOK(d)'
<1>1. \A d \in Clients : op'[d] = IF d = c THEN o ELSE op[d]
  BY DEF SerialInv, TypeInv, TypeOK
<1>2. \A d \in Clients : d # c => op[d].pc = "idle" /\ op[d].at <= clock
  BY DEF SerialInv, OneCall, PendingOK
<1> QED BY <1>1, <1>2 DEF OneCall, PendingOK

\* A client between two calls waits for nothing.
LEMMA IdlePending ==
  ASSUME SerialInv, NEW c \in Clients, op'[c] = Idle, clock' = clock
  PROVE  PendingOK(c)'
<1>1. clock \in Nat
  BY DEF SerialInv, TypeInv, TypeOK
<1> QED BY <1>1 DEF PendingOK, Idle

\* A step that lets no grant appear, leaves the record alone and ends no
\* lifetime it should not keeps the grants in order.
LEMMA GrantsKept ==
  ASSUME SerialInv, UNCHANGED <<store, epoch, released>>, clock' \in Nat, clock <= clock',
         \A c \in Clients : Grants(c)' \subseteq Grants(c)
  PROVE  GrantsOK'
<1> USE DEF SerialInv, GrantsOK
<1>1. \A c \in Clients : \A g \in Grants(c)' : GrantOK(g)'
  BY DEF GrantOK
<1>2. TokensUnique'
  BY DEF TokensUnique
<1>3. (NameOwner = {TRUE} => LeaseProtectsHolder)'
  <2> SUFFICES ASSUME NameOwner = {TRUE}, NEW c \in Clients, NEW g \in Grants(c)', clock' < g.expires
               PROVE  \/ g.epoch \in released
                      \/ store # NoLock /\ store.epoch = g.epoch /\ store.owner = OwnerOf[c]
    BY DEF LeaseProtectsHolder
  <2>1. clock < g.expires
    <3>1. g.expires \in Nat /\ clock \in Nat
      BY DEF GrantOK, LockRecord, TypeInv, TypeOK
    <3> QED BY <3>1
  <2> QED BY <2>1 DEF LeaseProtectsHolder
<1> QED BY <1>1, <1>2, <1>3

\* A step that removes the record and notes its lifetime does too.
LEMMA GrantsDelete ==
  ASSUME SerialInv, store' = NoLock, UNCHANGED <<epoch, clock>>,
         released' = IF store = NoLock THEN released ELSE released \union {store.epoch},
         \A c \in Clients : Grants(c)' \subseteq Grants(c)
  PROVE  GrantsOK'
<1> USE DEF SerialInv, GrantsOK
<1>1. ASSUME NEW c \in Clients, NEW g \in Grants(c)' PROVE GrantOK(g)' /\ g.epoch \in released'
  BY <1>1 DEF GrantOK, RecordOK
<1>2. TokensUnique'
  BY DEF TokensUnique
<1> QED BY <1>1, <1>2 DEF LeaseProtectsHolder

\* The record a write lands becomes a grant of its caller, above every other of
\* its lifetime, and covers the grants whose lease has not ended.
LEMMA GrantsLand ==
  ASSUME SerialInv, NEW c \in Clients, op[c].pc \in {"write", "fill"}, Land(c),
         UNCHANGED <<clock, released>>,
         \A d \in Clients : Grants(d)' \subseteq Grants(d) \union (IF d = c THEN {store'} ELSE {})
  PROVE  GrantsOK' /\ RecordOK'
<1> DEFINE r == store'
<1>1. /\ r \in LockRecord /\ r # NoLock
      /\ r.owner = OwnerOf[c]
      /\ r.epoch = epoch' /\ epoch' \in Nat /\ epoch \in Nat
      /\ epoch' = IF store = NoLock THEN epoch + 1 ELSE epoch
      /\ r.token \in Nat /\ r.expires \in Nat
      /\ r.expires <= clock + LeaseSeconds
      /\ store # NoLock => /\ store.token \in Nat /\ store.expires \in Nat
                           /\ r.token = store.token + 1 /\ store.expires <= r.expires
                           /\ NameOwner = {TRUE} => store.owner = OwnerOf[c] \/ store.expires <= clock
  <2>1. TypeInv /\ PendingOK(c) /\ RecordOK
    BY DEF SerialInv
  <2>2. epoch \in Nat /\ (store # NoLock => store \in LockRecord)
    BY <2>1 DEF TypeInv, TypeOK, MaybeRecord
  <2> QED BY <2>1, <2>2, LandRecord DEF PendingOK, RecordOK, LockRecord
<1>2. ASSUME NEW d \in Clients, NEW g \in Grants(d)
      PROVE  /\ g \in LockRecord /\ g.token \in Nat /\ g.epoch \in Nat /\ g.expires \in Nat
             /\ g.epoch <= epoch
             /\ store # NoLock /\ g.epoch = epoch => g.token <= store.token /\ g.expires <= store.expires
             /\ g.epoch \in released \/ (store # NoLock /\ g.epoch = epoch)
             /\ g.epoch = epoch' => store # NoLock /\ g.token < r.token /\ g.expires <= r.expires
  <2>1. GrantOK(g)
    BY DEF SerialInv, GrantsOK
  <2>2. g.token \in Nat /\ g.epoch \in Nat /\ g.expires \in Nat
    BY <2>1 DEF GrantOK, LockRecord
  <2>3. ASSUME g.epoch = epoch'
        PROVE  store # NoLock /\ g.token < r.token /\ g.expires <= r.expires
    <3>1. epoch' = epoch /\ store # NoLock
      BY <2>1, <2>2, <2>3, <1>1 DEF GrantOK
    <3>2. g.token <= store.token /\ g.expires <= store.expires
      BY <2>1, <2>3, <3>1 DEF GrantOK
    <3> HIDE DEF r
    <3> QED BY <2>2, <3>1, <3>2, <1>1
  <2> QED BY <2>1, <2>2, <2>3 DEF GrantOK
<1>3. \A d \in Clients : \A g \in Grants(d)' : g \in Grants(d) \/ (d = c /\ g = r)
  OBVIOUS
<1>4. RecordOK'
  BY <1>1 DEF RecordOK
<1>5. \A d \in Clients : \A g \in Grants(d)' : GrantOK(g)'
  <2> SUFFICES ASSUME NEW d \in Clients, NEW g \in Grants(d)' PROVE GrantOK(g)'
    OBVIOUS
  <2>1. CASE g \in Grants(d)
    BY <2>1, <1>1, <1>2 DEF GrantOK
  <2>2. CASE g = r
    BY <2>2, <1>1 DEF GrantOK
  <2> QED BY <1>3, <2>1, <2>2
<1>6. TokensUnique'
  <2> SUFFICES ASSUME NEW d \in Clients, NEW e \in Clients, d # e,
                      NEW g \in Grants(d)', NEW h \in Grants(e)', g.epoch = h.epoch
               PROVE  g.token # h.token
    BY DEF TokensUnique
  <2>1. CASE g \in Grants(d) /\ h \in Grants(e)
    BY <2>1 DEF SerialInv, GrantsOK, TokensUnique
  <2>2. CASE g = r /\ h \in Grants(e)
    BY <2>2, <1>1, <1>2
  <2>3. CASE g \in Grants(d) /\ h = r
    BY <2>3, <1>1, <1>2
  <2> QED BY <1>3, <2>1, <2>2, <2>3
<1>7. (NameOwner = {TRUE} => LeaseProtectsHolder)'
  <2> SUFFICES ASSUME NameOwner = {TRUE}, NEW d \in Clients, NEW g \in Grants(d)', clock < g.expires
               PROVE  \/ g.epoch \in released
                      \/ r # NoLock /\ r.epoch = g.epoch /\ r.owner = OwnerOf[d]
    BY DEF LeaseProtectsHolder
  <2>1. CASE g \in Grants(d)
    <3>1. \/ g.epoch \in released
          \/ store # NoLock /\ store.epoch = g.epoch /\ store.owner = OwnerOf[d]
      BY <2>1 DEF SerialInv, GrantsOK, LeaseProtectsHolder
    <3>2. CASE store # NoLock /\ store.epoch = g.epoch /\ store.owner = OwnerOf[d]
      <4>1. store.epoch = epoch
        BY <3>2 DEF SerialInv, RecordOK
      <4>2. clock < store.expires
        <5>1. clock \in Nat /\ g.expires <= store.expires
          BY <2>1, <1>2, <3>2, <4>1 DEF SerialInv, TypeInv, TypeOK
        <5> QED BY <5>1, <2>1, <1>1, <1>2, <3>2
      <4>3. store.owner = OwnerOf[c]
        <5>1. clock \in Nat
          BY DEF SerialInv, TypeInv, TypeOK
        <5> QED BY <5>1, <4>2, <1>1, <3>2
      <4> QED BY <4>1, <4>3, <3>2, <1>1
    <3> QED BY <3>1, <3>2
  <2>2. CASE g = r /\ d = c
    BY <2>2, <1>1
  <2> QED BY <1>3, <2>1, <2>2
<1> QED BY <1>4, <1>5, <1>6, <1>7 DEF GrantsOK

\* The call that read the record: what it will write obeys PendingOK.
LEMMA ReadPending ==
  ASSUME SerialInv, NEW c \in Clients, Read(c)
  PROVE  PendingOK(c)'
<1>1. /\ clock \in Nat /\ store \in MaybeRecord /\ op[c].at \in Nat /\ LeaseSeconds \in Nat
      /\ op \in [Clients -> [pc : PCs, at : Nat, new : MaybeRecord]] /\ torn \in BOOLEAN
  BY LockAssumption DEF SerialInv, TypeInv, TypeOK
<1>2. op[c].at <= clock /\ (store # NoLock => store.expires <= op[c].at + LeaseSeconds)
  BY DEF SerialInv, PendingOK, Read
<1>3. PICK cfg \in LockConfigs(ExpectedTokens(c)) : op' = [op EXCEPT ![c] =
         IF ~LockRecordIsValid \/ ~BaseChecks(c, cfg, Existing, op[c].at)
              \/ cfg.action = "inspect_lock"
           THEN Idle
         ELSE IF cfg.action = "release_lock"
           THEN [Idle EXCEPT !.pc = "delete"]
         ELSE [Idle EXCEPT !.pc = "write", !.new = NewRecord(c, Existing, op[c].at)]]
  BY DEF Read
<1>4. UNCHANGED <<clock, store>>
  BY DEF Read, storeVars
<1>5. CASE op'[c] = Idle
  BY <1>4, <1>5, IdlePending
<1>6. CASE op'[c] = [Idle EXCEPT !.pc = "delete"]
  BY <1>1, <1>4, <1>6 DEF PendingOK, Idle
<1>7. CASE /\ LockRecordIsValid /\ BaseChecks(c, cfg, Existing, op[c].at)
           /\ cfg.action \notin {"inspect_lock", "release_lock"}
           /\ op'[c] = [Idle EXCEPT !.pc = "write", !.new = NewRecord(c, Existing, op[c].at)]
  <2> DEFINE n == NewRecord(c, store, op[c].at)
  <2>1. Existing = store
    BY <1>1, <1>7 DEF LockRecordIsValid, Existing
  <2>2. /\ n.owner = OwnerOf[c] /\ n.expires = op[c].at + LeaseSeconds
        /\ store = NoLock => n.token = 1
        /\ store # NoLock => n.token = store.token + 1
    BY <1>1, NewRecordType
  <2>3. op'[c].pc = "write" /\ op'[c].at = 0 /\ op'[c].new = n
    BY <1>7, <2>1 DEF Idle
  <2>4. NameOwner = {TRUE} /\ store # NoLock => store.owner = OwnerOf[c] \/ store.expires <= clock
    <3> SUFFICES ASSUME NameOwner = {TRUE}, store # NoLock
                 PROVE  store.owner = OwnerOf[c] \/ store.expires <= clock
      OBVIOUS
    <3>1. store.owner = OwnerOf[c] \/ store.expires <= op[c].at
      BY <1>7, <2>1, OwnRecordOrStale
    <3>2. store.expires \in Nat
      BY <1>1 DEF MaybeRecord, LockRecord
    <3> QED BY <1>1, <1>2, <3>1, <3>2
  <2> HIDE DEF n
  <2>5. /\ n.expires <= clock + LeaseSeconds /\ 0 <= clock
        /\ store # NoLock => store.expires <= n.expires
    BY <1>1, <1>2, <2>2
  <2>6. op'[c].pc # "read" /\ op'[c].pc # "project" /\ store' = store /\ clock' = clock
    BY <1>4, <2>3
  <2> QED BY <2>2, <2>3, <2>4, <2>5, <2>6 DEF PendingOK
<1> QED
  BY <1>1, <1>3, <1>5, <1>6, <1>7

\* With one call in flight at a time every step keeps the invariant.
LEMMA SerialStep ==
  ASSUME MaxInFlight = 1
  PROVE  SerialInv /\ [Next]_vars => SerialInv'
<1> SUFFICES ASSUME SerialInv, [Next]_vars PROVE SerialInv'
  OBVIOUS
<1>type. /\ op \in [Clients -> [pc : PCs, at : Nat, new : MaybeRecord]]
         /\ held \in [Clients -> MaybeRecord]
         /\ clock \in Nat /\ LeaseSeconds \in Nat
         /\ store # NoLock => store.expires \in Nat
  BY LockAssumption DEF SerialInv, TypeInv, TypeOK, MaybeRecord, LockRecord
<1>step. TypeInv'
  BY TypeStep DEF SerialInv
<1>record. UNCHANGED <<store, epoch, clock>> => RecordOK'
  BY DEF SerialInv, RecordOK
<1>1. ASSUME NEW c \in Clients, Begin(c) PROVE SerialInv'
  <2> DEFINE Busy == {d \in Clients : op[d].pc # "idle"}
  <2>1. Busy = {}
    <3> SUFFICES ASSUME NEW d \in Busy PROVE FALSE
      OBVIOUS
    <3>1. Busy = {d}
      BY DEF SerialInv, OneCall
    <3>2. Cardinality({d}) = 1
      BY FS_Singleton
    <3>3. Cardinality(Busy) < 1
      BY <1>1 DEF Begin
    <3> QED BY <3>1, <3>2, <3>3
  <2>2. \A d \in Clients : op'[d] = IF d = c THEN [Idle EXCEPT !.pc = "read", !.at = clock] ELSE op[d]
    BY <1>1, <1>type DEF Begin
  <2>3. \A d \in Clients : op[d].pc = "idle"
    BY <2>1
  <2>4. OneCall'
    BY <2>2, <2>3 DEF OneCall
  <2>5. UNCHANGED <<clock, store, epoch, released, held>>
    BY <1>1 DEF Begin, storeVars
  <2>6. \A d \in Clients : PendingOK(d)'
    <3>1. store # NoLock => store.expires <= clock + LeaseSeconds
      BY DEF SerialInv, RecordOK
    <3>2. \A d \in Clients : d # c => op'[d] = op[d] /\ op[d].pc = "idle" /\ op[d].at <= clock
      BY <2>2, <2>3 DEF SerialInv, PendingOK
    <3>3. \A d \in Clients : d # c => PendingOK(d)'
      BY <2>5, <3>2 DEF PendingOK
    <3>4. op'[c] = [Idle EXCEPT !.pc = "read", !.at = clock] /\ clock <= clock
      BY <2>2, <1>type
    <3>6. op'[c].pc = "read" /\ op'[c].at = clock
      BY <3>4 DEF Idle
    <3>5. PendingOK(c)'
      BY <2>5, <3>1, <3>4, <3>6 DEF PendingOK
    <3> QED BY <3>3, <3>5
  <2>7. \A d \in Clients : Grants(d)' \subseteq Grants(d)
    BY <2>2, <2>3, <2>5 DEF Grants, Idle
  <2>8. GrantsOK'
    BY <2>5, <2>7, <1>type, GrantsKept
  <2> QED BY <1>step, <1>record, <2>4, <2>5, <2>6, <2>8 DEF SerialInv
<1>2. ASSUME NEW c \in Clients, NEW o, op[c].pc # "idle", op' = [op EXCEPT ![c] = o],
             o.pc # "project", PendingOK(c)',
             held' \in {held, [held EXCEPT ![c] = NoLock]},
             UNCHANGED <<clock, store, epoch, released>>
      PROVE  SerialInv'
  <2>1. OneCall' /\ op'[c] = o /\ \A d \in Clients : d # c => op'[d] = op[d] /\ PendingOK(d)'
    BY <1>2, OthersIdle
  <2>2. \A d \in Clients : Grants(d)' \subseteq Grants(d)
    BY <1>2, <1>type, <2>1 DEF Grants
  <2>3. GrantsOK'
    BY <1>2, <2>2, <1>type, GrantsKept
  <2> QED BY <1>step, <1>record, <1>2, <2>1, <2>3 DEF SerialInv
<1>3. ASSUME NEW c \in Clients, Read(c) PROVE SerialInv'
  <2>1. PendingOK(c)'
    BY <1>3, ReadPending DEF Read
  <2>2. /\ op' = [op EXCEPT ![c] = op'[c]] /\ op'[c].pc # "project"
        /\ op[c].pc # "idle"
        /\ UNCHANGED <<clock, store, epoch, released, held>>
    BY <1>3, <1>type DEF Read, storeVars, Idle
  <2> QED BY <2>1, <2>2, <1>2
<1>4. ASSUME NEW c \in Clients, Upsert(c) PROVE SerialInv'
  <2> DEFINE o == [Idle EXCEPT !.pc = "project", !.new = store']
  <2>1. op' = [op EXCEPT ![c] = o] /\ op[c].pc = "write" /\ Land(c)
        /\ UNCHANGED <<clock, released, held>>
    BY <1>4 DEF Upsert
  <2>2. OneCall' /\ op'[c] = o /\ \A d \in Clients : d # c => op'[d] = op[d] /\ PendingOK(d)'
    BY <2>1, OthersIdle
  <2>3. PendingOK(c)'
    BY <2>1, <2>2, <1>type DEF PendingOK, Idle
  <2>4. \A d \in Clients : Grants(d)' \subseteq Grants(d) \union (IF d = c THEN {store'} ELSE {})
    BY <2>1, <2>2 DEF Grants, Idle
  <2>5. GrantsOK' /\ RecordOK'
    BY <2>1, <2>4, GrantsLand
  <2> QED BY <1>step, <2>2, <2>3, <2>5 DEF SerialInv
<1>5. ASSUME NEW c \in Clients, Truncate(c) PROVE SerialInv'
  <2>1. op' = [op EXCEPT ![c] = [op[c] EXCEPT !.pc = "fill"]] /\ op[c].pc = "write"
        /\ UNCHANGED <<clock, store, epoch, released, held>>
    BY <1>5 DEF Truncate, Goto
  <2>2. op'[c].pc = "fill" /\ op'[c].new = op[c].new /\ op'[c].at = op[c].at
    BY <2>1, <1>type
  <2>3. PendingOK(c)'
    BY <2>1, <2>2 DEF PendingOK, SerialInv
  <2>4. [op[c] EXCEPT !.pc = "fill"].pc # "project"
    BY <2>1, <2>2, <1>type
  <2> QED BY <2>1, <2>3, <2>4, <1>2
<1>6. ASSUME NEW c \in Clients, Fill(c) PROVE SerialInv'
  <2>1. op' = [op EXCEPT ![c] = Idle] /\ op[c].pc = "fill" /\ Land(c)
        /\ held' = [held EXCEPT ![c] = store'] /\ UNCHANGED <<clock, released>>
    BY <1>6 DEF Fill, Done
  <2>2. OneCall' /\ op'[c] = Idle /\ \A d \in Clients : d # c => op'[d] = op[d] /\ PendingOK(d)'
    BY <2>1, OthersIdle
  <2>3. PendingOK(c)'
    BY <2>1, <2>2, IdlePending
  <2>4. \A d \in Clients : Grants(d)' \subseteq Grants(d) \union (IF d = c THEN {store'} ELSE {})
    BY <2>1, <2>2, <1>type DEF Grants, Idle
  <2>5. GrantsOK' /\ RecordOK'
    BY <2>1, <2>4, GrantsLand
  <2> QED BY <1>step, <2>2, <2>3, <2>5 DEF SerialInv
<1>7. ASSUME NEW c \in Clients, Project(c) PROVE SerialInv'
  <2>1. op' = [op EXCEPT ![c] = Idle] /\ op[c].pc = "project"
        /\ held' = [held EXCEPT ![c] = op[c].new]
        /\ UNCHANGED <<clock, store, epoch, released>>
    BY <1>7 DEF Project, Done, storeVars
  <2>2. OneCall' /\ op'[c] = Idle /\ \A d \in Clients : d # c => op'[d] = op[d] /\ PendingOK(d)'
    BY <2>1, OthersIdle
  <2>3. PendingOK(c)'
    BY <2>1, <2>2, IdlePending
  <2>4. \A d \in Clients : Grants(d)' \subseteq Grants(d)
    BY <2>1, <2>2, <1>type DEF Grants, Idle
  <2>5. GrantsOK'
    BY <2>1, <2>4, <1>type, GrantsKept
  <2> QED BY <1>step, <1>record, <2>1, <2>2, <2>3, <2>5 DEF SerialInv
<1>8. ASSUME NEW c \in Clients, Delete(c) PROVE SerialInv'
  <2>1. /\ op[c].pc = "delete" /\ store' = NoLock /\ UNCHANGED <<clock, epoch>>
        /\ released' = IF store = NoLock THEN released ELSE released \union {store.epoch}
        /\ held' \in {held, [held EXCEPT ![c] = NoLock]}
        /\ op' \in {[op EXCEPT ![c] = Idle], [op EXCEPT ![c] = [op[c] EXCEPT !.pc = "unlink"]]}
    BY <1>8 DEF Delete, Goto, Done
  <2>2. PICK o \in {Idle, [op[c] EXCEPT !.pc = "unlink"]} : op' = [op EXCEPT ![c] = o]
    BY <2>1
  <2>3. OneCall' /\ op'[c] = o /\ \A d \in Clients : d # c => op'[d] = op[d] /\ PendingOK(d)'
    BY <2>1, <2>2, OthersIdle
  <2>4. o.pc \in {"idle", "unlink"} /\ o.at \in {0, op[c].at}
    BY <2>2, <1>type DEF Idle
  <2>5. PendingOK(c)'
    <3>1. op[c].at <= clock
      BY DEF SerialInv, PendingOK
    <3> QED BY <2>1, <2>3, <2>4, <3>1, <1>type DEF PendingOK
  <2>6. \A d \in Clients : Grants(d)' \subseteq Grants(d)
    BY <2>1, <2>3, <2>4, <1>type DEF Grants
  <2>7. GrantsOK'
    BY <2>1, <2>6, GrantsDelete
  <2>8. RecordOK'
    BY <2>1 DEF RecordOK
  <2> QED BY <1>step, <2>3, <2>5, <2>7, <2>8 DEF SerialInv
<1>9. ASSUME NEW c \in Clients, Unlink(c) \/ Crash(c) PROVE SerialInv'
  <2>1. /\ op[c].pc # "idle" /\ op' = [op EXCEPT ![c] = Idle]
        /\ UNCHANGED <<clock, store, epoch, released>>
        /\ held' \in {held, [held EXCEPT ![c] = NoLock]}
    BY <1>9 DEF Unlink, Crash, Done, storeVars
  <2>2. op'[c] = Idle /\ Idle.pc # "project"
    BY <2>1, <1>type DEF Idle
  <2>3. PendingOK(c)'
    BY <2>1, <2>2, IdlePending
  <2> QED BY <2>1, <2>2, <2>3, <1>2
<1>10. CASE Tick
  <2>1. clock' = clock + 1 /\ UNCHANGED <<op, store, epoch, released, held>>
    BY <1>10 DEF Tick, storeVars
  <2>2. \A d \in Clients : PendingOK(d)'
    <3> SUFFICES ASSUME NEW d \in Clients PROVE PendingOK(d)'
      OBVIOUS
    <3>1. PendingOK(d) /\ op[d].at \in Nat /\ op[d].new \in MaybeRecord
          /\ (op[d].pc \in {"write", "fill"} => op[d].new # NoLock)
      BY <1>type DEF SerialInv, TypeInv, CallOK
    <3>2. op[d].pc \in {"write", "fill"} => op[d].new.expires \in Nat
      BY <3>1 DEF MaybeRecord, LockRecord
    <3>3. /\ op[d].at <= clock => op[d].at <= clock'
          /\ op[d].pc \in {"write", "fill"} /\ op[d].new.expires <= clock + LeaseSeconds
               => op[d].new.expires <= clock' + LeaseSeconds
          /\ store # NoLock /\ store.expires <= clock => store.expires <= clock'
      BY <2>1, <3>1, <3>2, <1>type
    <3>4. op'[d] = op[d] /\ store' = store
      BY <2>1
    <3> QED BY <3>1, <3>3, <3>4 DEF PendingOK
  <2>3. OneCall' /\ RecordOK'
    BY <2>1, <1>type DEF SerialInv, OneCall, RecordOK
  <2>4. \A d \in Clients : Grants(d)' \subseteq Grants(d)
    BY <2>1 DEF Grants
  <2>5. GrantsOK'
    BY <2>1, <2>4, <1>type, GrantsKept
  <2> QED BY <1>step, <2>2, <2>3, <2>5 DEF SerialInv
<1>11. CASE UNCHANGED vars
  <2>1. UNCHANGED <<op, clock, store, epoch, released, held>>
    BY <1>11 DEF vars
  <2>2. \A d \in Clients : Grants(d)' \subseteq Grants(d)
    BY <2>1 DEF Grants
  <2>3. GrantsOK'
    BY <2>1, <2>2, <1>type, GrantsKept
  <2> QED BY <1>step, <1>record, <2>1, <2>3 DEF SerialInv, OneCall, PendingOK
<1> QED
  BY <1>1, <1>3, <1>4, <1>5, <1>6, <1>7, <1>8, <1>9, <1>10, <1>11 DEF Next

\* It holds at the start.
LEMMA SerialInit == Init => SerialInv
<1> SUFFICES ASSUME Init PROVE SerialInv
  OBVIOUS
<1>1. \A c \in Clients : op[c] = Idle /\ op[c].pc = "idle" /\ op[c].at = 0 /\ Grants(c) = {}
  BY DEF Init, Grants, Idle
<1>2. GrantsOK
  BY <1>1 DEF GrantsOK, TokensUnique, LeaseProtectsHolder
<1>3. \A c \in Clients : PendingOK(c)
  BY <1>1 DEF PendingOK, Init
<1> QED
  BY <1>1, <1>2, <1>3, TypeInit DEF Init, SerialInv, OneCall, RecordOK

\* It holds in every run in which the calls come one at a time.
LEMMA SerialInvariance ==
  ASSUME MaxInFlight = 1
  PROVE  Spec => []SerialInv
<1> QED BY SerialInit, SerialStep, PTL DEF Spec

\* Called one at a time, the local providers give a fencing token to one client
\* within a lifetime of the record, whatever it passes and wherever a call dies.
THEOREM SerialTokensUnique ==
  ASSUME MaxInFlight = 1
  PROVE  Spec => []TokensUnique
<1>1. SerialInv => TokensUnique
  BY DEF SerialInv, GrantsOK
<1> QED BY <1>1, SerialInvariance, PTL

\* With the owner named on every renewal and release, a lease that has not ended
\* protects its holder: stale takeovers do not touch it.
THEOREM SerialLeaseProtects ==
  ASSUME MaxInFlight = 1, NameOwner = {TRUE}
  PROVE  Spec => []LeaseProtectsHolder
<1>1. SerialInv => LeaseProtectsHolder
  BY DEF SerialInv, GrantsOK
<1> QED BY <1>1, SerialInvariance, PTL

\* What a write does to the record is a Grant, an Extend or a TakeOver.
LEMMA LandRefines ==
  ASSUME NameOwner = {TRUE}, SerialInv, NEW c \in Clients, op[c].pc \in {"write", "fill"},
         Land(c), UNCHANGED clock
  PROVE  Contract!Next
<1>1. /\ store' \in LockRecord /\ store' # NoLock
      /\ store'.owner = OwnerOf[c]
      /\ store'.expires <= clock + LeaseSeconds
      /\ store = NoLock => store'.token = 1
      /\ store # NoLock => /\ store'.token = store.token + 1
                           /\ store.owner = OwnerOf[c] \/ store.expires <= clock
  BY LandRecord DEF SerialInv, PendingOK
<1>2. LeaseView(store') = [owner |-> OwnerOf[c], token |-> store'.token, expires |-> store'.expires]
  BY <1>1 DEF LeaseView
<1>3. OwnerOf[c] \in Owners /\ LeaseView(store') # NoLock
  BY <1>1, LockAssumption, NoLockAssumption DEF LeaseView, LockRecord
<1>4. store'.expires \in Contract!LeaseEnds
  <2>1. store'.expires \in Nat /\ clock \in Nat /\ LeaseSeconds \in Nat
    BY <1>1, LockAssumption DEF LockRecord, SerialInv, TypeInv, TypeOK
  <2> QED BY <1>1, <2>1 DEF Contract!LeaseEnds
<1>5. CASE store = NoLock
  <2>1. Contract!Grant(OwnerOf[c])
    BY <1>1, <1>2, <1>4, <1>5 DEF Contract!Grant
  <2> QED BY <2>1, <1>3 DEF Contract!Next
<1>6. CASE store # NoLock
  <2>1. /\ LeaseView(store) # NoLock /\ LeaseView(store).owner = store.owner
        /\ LeaseView(store).token = store.token /\ LeaseView(store).expires = store.expires
    BY <1>6, NoLockAssumption DEF LeaseView, SerialInv, TypeInv, TypeOK, MaybeRecord, LockRecord
  <2>2. CASE store.owner = OwnerOf[c]
    <3>1. Contract!Extend
      BY <1>1, <1>2, <1>4, <1>6, <2>1, <2>2 DEF Contract!Extend
    <3> QED BY <3>1 DEF Contract!Next
  <2>3. CASE store.expires <= clock
    <3>1. Contract!TakeOver(OwnerOf[c])
      BY <1>1, <1>2, <1>4, <1>6, <2>1, <2>3 DEF Contract!TakeOver
    <3> QED BY <3>1, <1>3 DEF Contract!Next
  <2> QED BY <1>1, <1>6, <2>2, <2>3
<1> QED BY <1>5, <1>6

\* Called one at a time, the record of a local provider behaves as LeaseLock
\* promises: the contract the Redis key keeps for concurrent callers.
THEOREM SerialRefinesLeaseLock ==
  ASSUME MaxInFlight = 1, NameOwner = {TRUE}
  PROVE  Spec => ImplementsLeaseLock
<1>1. Init => Contract!Init
  BY DEF Init, Contract!Init
<1>2. SerialInv /\ [Next]_vars => [Contract!Next]_(Contract!vars)
  <2> SUFFICES ASSUME SerialInv, [Next]_vars, ~UNCHANGED <<store, clock>>
               PROVE  Contract!Next
    BY DEF Contract!vars
  <2>1. CASE Tick
    BY <2>1 DEF Tick, storeVars, Contract!Next, Contract!Tick
  <2>2. ASSUME NEW c \in Clients, Upsert(c) \/ Fill(c) PROVE Contract!Next
    BY <2>2, LandRefines DEF Upsert, Fill
  <2>3. ASSUME NEW c \in Clients, Delete(c) PROVE Contract!Next
    <3>1. store # NoLock /\ store' = NoLock /\ UNCHANGED clock
      BY <2>3 DEF Delete
    <3>2. LeaseView(store) # NoLock
      BY <3>1, NoLockAssumption DEF LeaseView, SerialInv, TypeInv, TypeOK, MaybeRecord, LockRecord
    <3> QED BY <3>1, <3>2 DEF Contract!Next, Contract!Release
  <2>4. \A c \in Clients : ~(Begin(c) \/ Read(c) \/ Truncate(c) \/ Project(c) \/ Unlink(c) \/ Crash(c))
    BY DEF Begin, Read, Truncate, Project, Unlink, Crash, storeVars
  <2>5. ~UNCHANGED vars
    BY DEF vars
  <2> QED BY <2>1, <2>2, <2>3, <2>4, <2>5 DEF Next
<1> QED BY <1>1, <1>2, SerialInvariance, PTL DEF Spec, ImplementsLeaseLock, Contract!Spec
=============================================================================
