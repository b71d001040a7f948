----------------------- MODULE DeliveryTransactionProofs -----------------------
(***************************************************************************)
(* Theorems about DeliveryTransaction that need no bound on the calls in    *)
(* flight: the types, and that a terminal record of a success is kept.      *)
(***************************************************************************)
EXTENDS DeliveryTransaction, TLAPS

\* What a call carries at each step: a patched manifest and a record once it has
\* them, a checkpoint to restore, the kind of operation the step belongs to, and
\* the journal that a recovery, a commit or a guarded delivery adds to.
CallInv(r) ==
  /\ op[r].pc \in {"check", "write"} => op[r].patched \in Manifest
  /\ op[r].pc \in {"write", "digest"} => op[r].record \in MutationRecord
  /\ op[r].pc \in {"recover", "restore"} => op[r].req.kind = "recover"
  /\ op[r].pc = "restore" => rollback[r] # None
  /\ op[r].pc = "commit" => op[r].req.kind = "commit"
  /\ op[r].pc = "preflight" => op[r].req.kind = "preflight"
  /\ op[r].pc \in {"copy", "patch", "check", "write", "digest", "deliver", "mutation_record", "result"} =>
       op[r].req.kind = "apply"
  /\ op[r].pc = "terminal_record" => op[r].req.kind \in {"recover", "commit"}
  /\ \/ op[r].pc = "restore"
     \/ op[r].pc = "terminal_record" /\ op[r].outcome = "done"
     \/ op[r].pc = "journal" /\ op[r].req.kind \in {"recover", "commit"}
     \/ op[r].outcome = "guarded" /\ journal[r] # None
     => journal[r] \in Journal

\* A refusal about to be recorded replaces no success, and a journal about to
\* note a recovery or a commit finds the record of its success in place.
Successful(r) ==
  IF op[r].req.kind = "recover" THEN terminal[r].recovery = "done" ELSE terminal[r].commit = "done"

RefusalInv(r) ==
  /\ op[r].pc = "terminal_record" /\ op[r].outcome # "done" => ~Successful(r)
  /\ op[r].pc = "journal" /\ op[r].req.kind \in {"recover", "commit"} => Successful(r)

DeliveryInv == TypeOK /\ \A r \in Roots : CallInv(r) /\ RefusalInv(r)

\* A root without a call.
LEMMA IdleOK == Idle \in Op
  BY DEF Idle, Op, PCs, Outcomes, Request, Nothing, MaybeManifest

\* A root whose call ended satisfies what is asked of calls.
LEMMA IdleInv ==
  ASSUME NEW r \in Roots, op'[r] = Idle
  PROVE  CallInv(r)' /\ RefusalInv(r)'
  BY DEF CallInv, RefusalInv, Idle, Nothing

\* The other roots' calls are not disturbed by a step of r that leaves their
\* files alone.
LEMMA OthersKept ==
  ASSUME DeliveryInv, NEW r \in Roots, NEW s \in Roots, s # r, op'[s] = op[s],
         journal'[s] = journal[s], rollback'[s] = rollback[s], terminal'[s] = terminal[s]
  PROVE  CallInv(s)' /\ RefusalInv(s)'
  BY DEF DeliveryInv, CallInv, RefusalInv, Successful

\* A request is of the type the calls carry.
LEMMA RequestsOK ==
  ASSUME profile \in Profile
  PROVE  Requests \subseteq Request
  BY DEF Requests, ApplyRequests, Request, Nothing, Profile

\* A journal a call writes is a journal, since what it adds to was one.
LEMMA NewJournalOK ==
  ASSUME DeliveryInv, NEW r \in Roots, op[r].pc = "journal"
  PROVE  NewJournal(r) \in Journal
<1> DEFINE o == op[r]
           p == journal[r]
<1>1. o \in Op /\ o.req \in Request
  BY DEF DeliveryInv, TypeOK, Op
<1>2. ASSUME o.req.kind \in {"recover", "commit"} \/ (o.outcome = "guarded" /\ p # None)
      PROVE  p \in Journal
  BY <1>2 DEF DeliveryInv, CallInv
<1>3. FreshJournal(o) \in Journal
  BY <1>1 DEF FreshJournal, Journal, Op
<1>4. CASE o.req.kind = "recover"
  BY <1>2, <1>4 DEF NewJournal, Journal
<1>5. CASE o.req.kind = "commit"
  BY <1>2, <1>5 DEF NewJournal, Journal
<1>6. CASE o.req.kind = "apply" /\ o.outcome = "guarded" /\ p # None
  BY <1>2, <1>6 DEF NewJournal, Journal
<1>7. CASE o.req.kind \notin {"recover", "commit"} /\ ~(o.req.kind = "apply" /\ o.outcome = "guarded" /\ p # None)
  BY <1>3, <1>7 DEF NewJournal
<1> QED BY <1>4, <1>5, <1>6, <1>7

\* What a step of r must establish: the types, and the invariant of r's own call.
LEMMA StepFrame ==
  ASSUME DeliveryInv, NEW r \in Roots, NEW o \in Op, op' = [op EXCEPT ![r] = o],
         \A s \in Roots \ {r} : /\ journal'[s] = journal[s] /\ rollback'[s] = rollback[s]
                                /\ terminal'[s] = terminal[s],
         TypeOK', CallInv(r)', RefusalInv(r)'
  PROVE  DeliveryInv'
<1>1. \A s \in Roots \ {r} : op'[s] = op[s]
  BY DEF DeliveryInv, TypeOK
<1> QED BY <1>1, OthersKept DEF DeliveryInv

\* A step that changes the call of r and no file.
LEMMA PlainStep ==
  ASSUME DeliveryInv, NEW r \in Roots, NEW o \in Op, op' = [op EXCEPT ![r] = o],
         UNCHANGED <<profile, manifest, records, deliveries, history>>, guarded' \subseteq Roots,
         CallInv(r)', RefusalInv(r)'
  PROVE  DeliveryInv'
<1>1. TypeOK'
  BY DEF DeliveryInv, TypeOK, records, history
<1> QED BY <1>1, StepFrame DEF records

\* Start of a call.
LEMMA CallStep ==
  ASSUME DeliveryInv, NEW r \in Roots, NEW q \in Request, Call(r, q)
  PROVE  DeliveryInv'
<1> DEFINE o == [Idle EXCEPT !.pc = IF q.kind = "apply" THEN "copy" ELSE q.kind,
                             !.req = q,
                             !.expected = IF q.mutate THEN manifest ELSE None]
<1>1. TypeOK
  BY DEF DeliveryInv
<1>2. /\ o \in Op
      /\ o.pc = (IF q.kind = "apply" THEN "copy" ELSE q.kind)
      /\ o.req.kind = q.kind /\ o.outcome = "none"
      /\ q.kind \in {"apply", "preflight", "recover", "commit"}
  BY <1>1 DEF Idle, Op, PCs, Outcomes, Request, MaybeManifest, TypeOK
<1>3. op' = [op EXCEPT ![r] = o] /\ UNCHANGED <<profile, manifest, files, history>>
  BY DEF Call
<1> HIDE DEF o
<1>4. op'[r] = o /\ op' \in [Roots -> Op]
  BY <1>1, <1>2, <1>3 DEF TypeOK
<1>5. deliveries' \in 0 .. profile.deliveries /\ profile' = profile
  <2>1. profile.deliveries \in Nat /\ deliveries \in 0 .. profile.deliveries
    BY <1>1, TransactionAssumption DEF TypeOK, Profile
  <2> QED BY <2>1, <1>3 DEF Call
<1>6. TypeOK'
  BY <1>1, <1>3, <1>4, <1>5 DEF TypeOK, files, records, history
<1>7. CallInv(r)' /\ RefusalInv(r)'
  BY <1>2, <1>4 DEF CallInv, RefusalInv
<1> QED BY <1>2, <1>3, <1>6, <1>7, StepFrame DEF files, records

\* Copies, and the way to the manifest or past it.
LEMMA CopyStep ==
  ASSUME DeliveryInv, NEW r \in Roots, Copy(r)
  PROVE  DeliveryInv'
<1>1. TypeOK /\ op[r] \in Op /\ op[r].req \in Request /\ CallInv(r) /\ op[r].pc = "copy"
  BY DEF DeliveryInv, TypeOK, Op, Copy
<1> DEFINE q == op[r].req
           next == IF q.mutate /\ ~CopyFails(r) THEN "patch" ELSE AfterManifest(q, CopyFails(r), FALSE)
           o == IF next = "idle" THEN Idle ELSE [op[r] EXCEPT !.pc = next, !.failed = CopyFails(r)]
<1>2. next \in {"patch", "deliver", "idle", "journal"}
  BY DEF AfterManifest
<1>3. op' = [op EXCEPT ![r] = o] /\ UNCHANGED <<profile, manifest, journal, mutation, rollback, preflight, terminal, result, guarded, deliveries, history>>
  BY DEF Copy
<1>4. CopyFails(r) \in BOOLEAN /\ q.kind = "apply"
  BY <1>1 DEF CopyFails, Request, TypeOK, CallInv
<1> HIDE DEF next
<1>5. o \in Op /\ (o = Idle \/ (o.pc \in {"patch", "deliver", "journal"} /\ o.req = op[r].req /\ o.outcome = op[r].outcome))
  BY <1>1, <1>2, <1>4, IdleOK DEF Op, PCs
<1> HIDE DEF o
<1>6. op'[r] = o
  BY <1>1, <1>3 DEF TypeOK
<1>7. CallInv(r)' /\ RefusalInv(r)'
  BY <1>1, <1>3, <1>4, <1>5, <1>6, IdleInv DEF CallInv, RefusalInv
<1>8. TypeOK'
  <2>1. delivered' \in [Roots -> BOOLEAN]
    BY <1>1 DEF Copy, TypeOK, Request
  <2> QED BY <1>1, <1>3, <1>5, <2>1 DEF TypeOK, history
<1> QED BY <1>3, <1>5, <1>7, <1>8, StepFrame

\* Patch, digest check, write and digest of the mutated manifest.
LEMMA MutationSteps ==
  ASSUME DeliveryInv, NEW r \in Roots, Patch(r) \/ Check(r) \/ WriteManifest(r) \/ Digest(r)
  PROVE  DeliveryInv'
<1>1. TypeOK /\ op[r] \in Op /\ CallInv(r) /\ manifest \in Manifest /\ op \in [Roots -> Op]
  BY DEF DeliveryInv, TypeOK
<1>2. CASE Patch(r)
  <2> DEFINE o == [op[r] EXCEPT !.pc = "check", !.patched = PatchedManifest(r, manifest)]
  <2>1. PatchedManifest(r, manifest) \in Manifest
    BY <1>1 DEF PatchedManifest, Manifest
  <2>2. o \in Op /\ o.pc = "check" /\ o.patched \in Manifest /\ o.req = op[r].req /\ o.outcome = op[r].outcome
    BY <1>1, <2>1 DEF Op, PCs, MaybeManifest
  <2>3. op' = [op EXCEPT ![r] = o] /\ UNCHANGED <<profile, manifest, files, deliveries, history>> /\ op[r].pc = "patch"
    BY <1>2 DEF Patch
  <2> HIDE DEF o
  <2>4. CallInv(r)' /\ RefusalInv(r)'
    BY <1>1, <2>2, <2>3 DEF CallInv, RefusalInv, files, records
  <2>5. guarded' \subseteq Roots
    BY <1>1, <2>3 DEF TypeOK, files
  <2> QED BY <2>2, <2>3, <2>4, <2>5, PlainStep DEF files
<1>3. CASE Check(r)
  <2>1. PICK o : /\ op' = [op EXCEPT ![r] = o]
                 /\ \/ /\ o = [op[r] EXCEPT !.pc = "write", !.record = [pre |-> manifest, post |-> None]]
                       /\ rollback' = [rollback EXCEPT ![r] = manifest]
                    \/ /\ o = [op[r] EXCEPT !.pc = AfterManifest(op[r].req, FALSE, TRUE),
                                            !.record = [pre |-> manifest, post |-> None]]
                       /\ rollback' = rollback
    BY <1>3 DEF Check
  <2>2. [pre |-> manifest, post |-> None] \in MutationRecord
    BY <1>1 DEF MutationRecord, MaybeManifest
  <2>3. AfterManifest(op[r].req, FALSE, TRUE) \in {"deliver", "mutation_record"}
    BY DEF AfterManifest
  <2>4. /\ o \in Op /\ o.pc \in {"write", "deliver", "mutation_record"}
        /\ o.record \in MutationRecord /\ o.patched = op[r].patched
        /\ o.req = op[r].req /\ o.outcome = op[r].outcome
    BY <1>1, <2>1, <2>2, <2>3 DEF Op, PCs
  <2>5. /\ op'[r] = o /\ op[r].pc = "check"
        /\ UNCHANGED <<profile, manifest, delivered, journal, mutation, preflight, terminal, result, guarded, deliveries, history>>
    BY <1>1, <1>3, <2>1 DEF Check
  <2>6. CallInv(r)' /\ RefusalInv(r)'
    BY <1>1, <2>4, <2>5 DEF CallInv, RefusalInv
  <2>7. TypeOK'
    BY <1>1, <2>1, <2>4, <2>5 DEF TypeOK, MaybeManifest, history
  <2>8. \A s \in Roots \ {r} : rollback'[s] = rollback[s]
    BY <1>1, <2>1 DEF TypeOK
  <2> QED BY <2>1, <2>4, <2>5, <2>6, <2>7, <2>8, StepFrame
<1>4. CASE WriteManifest(r)
  <2> DEFINE o == [op[r] EXCEPT !.pc = "digest"]
  <2>1. op' = [op EXCEPT ![r] = o] /\ op[r].pc = "write" /\ UNCHANGED <<profile, files, deliveries, history>>
        /\ manifest' = op[r].patched
    BY <1>4 DEF WriteManifest, Goto
  <2>2. o \in Op /\ o.pc = "digest" /\ o.record = op[r].record /\ o.req = op[r].req /\ o.outcome = op[r].outcome
    BY <1>1 DEF Op, PCs
  <2> HIDE DEF o
  <2>3. op'[r] = o
    BY <1>1, <2>1
  <2>4. CallInv(r)' /\ RefusalInv(r)'
    BY <1>1, <2>1, <2>2, <2>3 DEF CallInv, RefusalInv, files, records
  <2>5. TypeOK'
    BY <1>1, <2>1, <2>2 DEF CallInv, TypeOK, MaybeManifest, files, records, history
  <2> QED BY <2>1, <2>2, <2>4, <2>5, StepFrame DEF files, records
<1>5. CASE Digest(r)
  <2> DEFINE n == AfterManifest(op[r].req, FALSE, TRUE)
             o == [op[r] EXCEPT !.pc = n, !.record = [op[r].record EXCEPT !.post = manifest], !.mutated = TRUE]
  <2>1. op' = [op EXCEPT ![r] = o] /\ op[r].pc = "digest" /\ UNCHANGED <<profile, manifest, files, deliveries, history>>
    BY <1>5 DEF Digest
  <2>2. n \in {"deliver", "mutation_record"}
    BY DEF AfterManifest
  <2>3. op[r].record \in MutationRecord
    BY <1>1, <2>1 DEF CallInv
  <2>4. [op[r].record EXCEPT !.post = manifest] \in MutationRecord
    BY <1>1, <2>3 DEF MutationRecord, MaybeManifest
  <2> HIDE DEF n
  <2>5. o \in Op /\ o.pc = n /\ o.req = op[r].req /\ o.outcome = op[r].outcome
    BY <1>1, <2>2, <2>4 DEF Op, PCs
  <2> HIDE DEF o
  <2>6. op'[r] = o
    BY <1>1, <2>1
  <2>7. CallInv(r)' /\ RefusalInv(r)'
    BY <1>1, <2>1, <2>2, <2>5, <2>6 DEF CallInv, RefusalInv, files, records
  <2>8. guarded' \subseteq Roots
    BY <1>1, <2>1 DEF TypeOK, files
  <2> QED BY <2>1, <2>5, <2>7, <2>8, PlainStep DEF files
<1> QED BY <1>2, <1>3, <1>4, <1>5

\* A call that ends, by its own means or by a crash, leaving the files alone
\* but possibly its journal torn.
LEMMA EndStep ==
  ASSUME DeliveryInv, NEW r \in Roots, Raise(r) \/ Crash(r) \/ TearJournal(r)
  PROVE  DeliveryInv'
<1>1. TypeOK /\ op \in [Roots -> Op]
  BY DEF DeliveryInv, TypeOK
<1>2. op' = [op EXCEPT ![r] = Idle] /\ op'[r] = Idle
  BY <1>1 DEF Raise, Crash, TearJournal, Done
<1>3. /\ UNCHANGED <<profile, manifest, delivered, mutation, rollback, preflight, terminal, result, guarded, deliveries, history>>
      /\ journal' \in {journal, [journal EXCEPT ![r] = Torn]}
  BY DEF Raise, Crash, TearJournal, files, records
<1>4. TypeOK'
  <2>1. journal' \in [Roots -> Journal \union {None, Torn}]
    BY <1>1, <1>3 DEF TypeOK
  <2>2. op' \in [Roots -> Op]
    BY <1>1, <1>2, IdleOK
  <2> QED BY <1>1, <1>3, <2>1, <2>2 DEF TypeOK, history
<1>5. \A s \in Roots \ {r} : journal'[s] = journal[s]
  BY <1>1, <1>3 DEF TypeOK
<1> QED BY <1>2, <1>3, <1>4, <1>5, IdleOK, IdleInv, StepFrame

\* The provider's answer, the mutation record and the provider's result.
LEMMA DeliverySteps ==
  ASSUME DeliveryInv, NEW r \in Roots, Deliver(r) \/ WriteMutationRecord(r) \/ WriteResult(r)
  PROVE  DeliveryInv'
<1>1. TypeOK /\ op[r] \in Op /\ CallInv(r) /\ op \in [Roots -> Op] /\ journal[r] \in Journal \union {None, Torn}
  BY DEF DeliveryInv, TypeOK
<1>2. CASE Deliver(r)
  <2>1. PICK outcome \in {"guarded", "blocked", "performed"} :
           /\ op' = [op EXCEPT ![r] = [op[r] EXCEPT !.outcome = outcome,
                                       !.pc = IF op[r].record # None THEN "mutation_record" ELSE "result"]]
           /\ outcome = "guarded" => ~op[r].req.allow
    BY <1>2 DEF Deliver
  <2> DEFINE n == IF op[r].record # None THEN "mutation_record" ELSE "result"
             o == [op[r] EXCEPT !.outcome = outcome, !.pc = n]
  <2>2. n \in {"mutation_record", "result"}
    OBVIOUS
  <2>3. op' = [op EXCEPT ![r] = o]
    BY <2>1
  <2> HIDE DEF n
  <2>4. o \in Op /\ o.pc = n /\ o.outcome = outcome /\ o.req = op[r].req
    BY <1>1, <2>2 DEF Op, PCs, Outcomes
  <2> HIDE DEF o
  <2>5. op[r].pc = "deliver" /\ UNCHANGED <<profile, manifest, files, deliveries, history>> /\ op'[r] = o
    BY <1>1, <1>2, <2>3 DEF Deliver
  <2>6. outcome = "guarded" => journal[r] # Torn
    BY <1>2, <2>1, <2>5 DEF Deliver, ReadsTorn
  <2>7. CallInv(r)' /\ RefusalInv(r)'
    BY <1>1, <2>2, <2>4, <2>5, <2>6 DEF CallInv, RefusalInv, files, records
  <2>8. guarded' \subseteq Roots
    BY <1>1, <2>5 DEF TypeOK, files
  <2> QED BY <2>3, <2>4, <2>5, <2>7, <2>8, PlainStep DEF files
<1>3. CASE WriteMutationRecord(r)
  <2> DEFINE n == IF op[r].req.external THEN "result" ELSE "journal"
             o == [op[r] EXCEPT !.pc = n]
  <2>1. op' = [op EXCEPT ![r] = o] /\ op[r].pc = "mutation_record"
        /\ mutation' = [mutation EXCEPT ![r] = op[r].record]
        /\ UNCHANGED <<profile, manifest, delivered, journal, rollback, preflight, terminal, result, guarded, deliveries, history>>
    BY <1>3 DEF WriteMutationRecord, Goto
  <2>2. n \in {"result", "journal"}
    OBVIOUS
  <2> HIDE DEF n
  <2>3. o \in Op /\ o.pc = n /\ o.outcome = op[r].outcome /\ o.req = op[r].req
    BY <1>1, <2>2 DEF Op, PCs
  <2> HIDE DEF o
  <2>4. op'[r] = o
    BY <1>1, <2>1
  <2>5. CallInv(r)' /\ RefusalInv(r)'
    BY <1>1, <2>1, <2>2, <2>3, <2>4 DEF CallInv, RefusalInv
  <2>6. mutation' \in [Roots -> MutationRecord \union {None}]
    BY <1>1, <2>1 DEF TypeOK, Op
  <2>7. TypeOK'
    BY <1>1, <2>1, <2>3, <2>6 DEF TypeOK, history
  <2> QED BY <2>1, <2>3, <2>5, <2>7, StepFrame
<1>4. CASE WriteResult(r)
  <2> DEFINE o == IF op[r].failed THEN Idle ELSE [op[r] EXCEPT !.pc = "journal"]
  <2>1. op' = [op EXCEPT ![r] = o] /\ op[r].pc = "result"
        /\ UNCHANGED <<profile, manifest, delivered, journal, mutation, rollback, preflight, terminal, guarded, deliveries, promised>>
    BY <1>4 DEF WriteResult, Goto, Done
  <2>2. o \in Op /\ (o = Idle \/ (o.pc = "journal" /\ o.outcome = op[r].outcome /\ o.req = op[r].req))
    BY <1>1, IdleOK DEF Op, PCs
  <2> HIDE DEF o
  <2>3. op'[r] = o
    BY <1>1, <2>1
  <2>4. CallInv(r)' /\ RefusalInv(r)'
    BY <1>1, <2>1, <2>2, <2>3, IdleInv DEF CallInv, RefusalInv
  <2>5. result' \in [Roots -> Outcomes] /\ sent' \subseteq Roots
    BY <1>1, <1>4 DEF WriteResult, TypeOK, Op
  <2>6. TypeOK'
    BY <1>1, <2>1, <2>2, <2>5 DEF TypeOK
  <2> QED BY <2>1, <2>2, <2>4, <2>6, StepFrame
<1> QED BY <1>2, <1>3, <1>4

\* The recovery preflight writes its record and ends the call.
LEMMA PreflightStep ==
  ASSUME DeliveryInv, NEW r \in Roots, RecoveryPreflight(r)
  PROVE  DeliveryInv'
<1>1. TypeOK /\ op \in [Roots -> Op] /\ manifest \in Manifest
  BY DEF DeliveryInv, TypeOK
<1> DEFINE p == [status   |-> PreflightStatus(r),
                 source   |-> manifest,
                 rollback |-> IF PreflightStatus(r) = "ready_for_review" THEN rollback[r] ELSE None]
<1>2. PreflightStatus(r) \in {"ready_for_review", "no_recovery_required", "blocked"}
  BY DEF PreflightStatus
<1>3. p \in Preflight
  BY <1>1, <1>2 DEF Preflight, TypeOK, MaybeManifest
<1>4. op' = [op EXCEPT ![r] = Idle] /\ op'[r] = Idle /\ preflight' = [preflight EXCEPT ![r] = p]
      /\ UNCHANGED <<profile, manifest, delivered, journal, mutation, rollback, terminal, result, guarded, deliveries, history>>
  BY <1>1 DEF RecoveryPreflight, Done
<1> HIDE DEF p
<1>5. TypeOK'
  BY <1>1, <1>3, <1>4, IdleOK DEF TypeOK, history
<1> QED BY <1>4, <1>5, IdleOK, IdleInv, StepFrame

\* Recovery and commit: allowed, noted as a retry of a success, or refused.
LEMMA DecisionSteps ==
  ASSUME DeliveryInv, NEW r \in Roots, Recover(r) \/ Commit(r)
  PROVE  DeliveryInv'
<1>1. TypeOK /\ op[r] \in Op /\ CallInv(r) /\ op \in [Roots -> Op] /\ journal[r] \in Journal \union {None, Torn}
      /\ guarded \subseteq Roots
  BY DEF DeliveryInv, TypeOK
<1>2. UNCHANGED <<profile, manifest, records, deliveries, history>> /\ journal[r] # Torn
      /\ op[r].pc \in {"recover", "commit"} /\ op[r].req.kind = op[r].pc
  BY <1>1 DEF Recover, Commit, ReadsTorn, CallInv
<1>3. CASE Recover(r) /\ RecoveryAllowed(r)
  <2> DEFINE o == [op[r] EXCEPT !.pc = "restore"]
  <2>1. op' = [op EXCEPT ![r] = o] /\ guarded' = guarded
    BY <1>3 DEF Recover, Goto
  <2>2. o \in Op /\ o.pc = "restore" /\ o.req = op[r].req
    BY <1>1 DEF Op, PCs
  <2> HIDE DEF o
  <2>3. op'[r] = o /\ journal[r] # None /\ rollback[r] # None /\ op[r].req.kind = "recover"
    BY <1>1, <1>2, <1>3, <2>1 DEF RecoveryAllowed, RecoveryReady, Recover
  <2>4. CallInv(r)' /\ RefusalInv(r)'
    BY <1>1, <1>2, <2>2, <2>3 DEF CallInv, RefusalInv, records
  <2> QED BY <1>1, <1>2, <2>1, <2>2, <2>4, PlainStep
<1>4. CASE Commit(r) /\ CommitAllowed(r)
  <2> DEFINE o == [op[r] EXCEPT !.pc = "terminal_record", !.outcome = "done"]
  <2>1. op' = [op EXCEPT ![r] = o] /\ guarded' = guarded
    BY <1>4 DEF Commit
  <2>2. o \in Op /\ o.pc = "terminal_record" /\ o.outcome = "done" /\ o.req = op[r].req
    BY <1>1 DEF Op, PCs, Outcomes
  <2> HIDE DEF o
  <2>3. op'[r] = o /\ journal[r] # None
    BY <1>1, <1>4, <2>1 DEF CommitAllowed
  <2>4. CallInv(r)' /\ RefusalInv(r)'
    BY <1>1, <1>2, <2>2, <2>3 DEF CallInv, RefusalInv, records
  <2> QED BY <1>1, <1>2, <2>1, <2>2, <2>4, PlainStep
<1>5. ASSUME NEW flag, NEW record, Refuse(r, flag, record),
             record = IF op[r].req.kind = "recover" THEN terminal[r].recovery ELSE terminal[r].commit
      PROVE  DeliveryInv'
  <2>1. CASE Guarded(flag, record)
    <3>1. op' = [op EXCEPT ![r] = Idle] /\ guarded' \subseteq Roots /\ op'[r] = Idle
      BY <1>1, <1>5, <2>1 DEF Refuse, Done
    <3> QED BY <1>2, <3>1, IdleOK, IdleInv, PlainStep
  <2>2. CASE ~Guarded(flag, record)
    <3> DEFINE o == [op[r] EXCEPT !.pc = "terminal_record", !.outcome = "blocked"]
    <3>1. op' = [op EXCEPT ![r] = o] /\ guarded' = guarded
      BY <1>5, <2>2 DEF Refuse
    <3>2. o \in Op /\ o.pc = "terminal_record" /\ o.outcome = "blocked" /\ o.req = op[r].req
      BY <1>1 DEF Op, PCs, Outcomes
    <3> HIDE DEF o
    <3>3. op'[r] = o /\ record # "done"
      BY <1>1, <2>2, <3>1 DEF Guarded
    <3>4. CallInv(r)'
      BY <1>1, <1>2, <3>2, <3>3 DEF CallInv, records
    <3>5. RefusalInv(r)'
      BY <1>2, <1>5, <3>2, <3>3 DEF RefusalInv, Successful, records
    <3> QED BY <1>1, <1>2, <3>1, <3>2, <3>4, <3>5, PlainStep
  <2> QED BY <2>1, <2>2
<1>6. CASE Recover(r) /\ ~RecoveryAllowed(r)
  BY <1>2, <1>5, <1>6 DEF Recover
<1>7. CASE Commit(r) /\ ~CommitAllowed(r)
  BY <1>2, <1>5, <1>7 DEF Commit
<1> QED BY <1>3, <1>4, <1>6, <1>7

\* The checkpoint is put back.
LEMMA RestoreStep ==
  ASSUME DeliveryInv, NEW r \in Roots, Restore(r)
  PROVE  DeliveryInv'
<1>1. TypeOK /\ op[r] \in Op /\ CallInv(r) /\ op \in [Roots -> Op]
  BY DEF DeliveryInv, TypeOK
<1> DEFINE o == [op[r] EXCEPT !.pc = "terminal_record", !.outcome = "done"]
<1>2. op' = [op EXCEPT ![r] = o] /\ op[r].pc = "restore" /\ manifest' = rollback[r]
      /\ UNCHANGED <<profile, files, deliveries, history>>
  BY DEF Restore
<1>3. o \in Op /\ o.pc = "terminal_record" /\ o.outcome = "done" /\ o.req = op[r].req
  BY <1>1 DEF Op, PCs, Outcomes
<1> HIDE DEF o
<1>4. op'[r] = o
  BY <1>1, <1>2
<1>5. manifest' \in Manifest
  BY <1>1, <1>2 DEF CallInv, TypeOK, MaybeManifest
<1>6. CallInv(r)' /\ RefusalInv(r)'
  BY <1>1, <1>2, <1>3, <1>4 DEF CallInv, RefusalInv, files, records
<1>7. TypeOK'
  BY <1>1, <1>2, <1>3, <1>5 DEF TypeOK, files, records, history
<1> QED BY <1>2, <1>3, <1>6, <1>7, StepFrame DEF files, records

\* The record of a recovery or a commit.
LEMMA TerminalRecordStep ==
  ASSUME DeliveryInv, NEW r \in Roots, WriteTerminalRecord(r)
  PROVE  /\ DeliveryInv'
         /\ terminal[r].recovery = "done" => terminal'[r].recovery = "done"
         /\ terminal[r].commit = "done" => terminal'[r].commit = "done"
<1>1. TypeOK /\ op[r] \in Op /\ CallInv(r) /\ RefusalInv(r) /\ op \in [Roots -> Op]
      /\ terminal \in [Roots -> [recovery : Outcomes, commit : Outcomes]]
  BY DEF DeliveryInv, TypeOK
<1>2. op[r].pc = "terminal_record" /\ op[r].req.kind \in {"recover", "commit"} /\ op[r].outcome \in Outcomes
  BY <1>1 DEF WriteTerminalRecord, CallInv, Op
<1>3. /\ terminal' \in [Roots -> [recovery : Outcomes, commit : Outcomes]]
      /\ \A s \in Roots \ {r} : terminal'[s] = terminal[s]
      /\ terminal'[r].recovery = IF op[r].req.kind = "recover" THEN op[r].outcome ELSE terminal[r].recovery
      /\ terminal'[r].commit = IF op[r].req.kind = "commit" THEN op[r].outcome ELSE terminal[r].commit
  BY <1>1, <1>2 DEF WriteTerminalRecord
<1> DEFINE o == IF op[r].outcome = "done" THEN [op[r] EXCEPT !.pc = "journal"] ELSE Idle
<1>4. op' = [op EXCEPT ![r] = o]
      /\ UNCHANGED <<profile, manifest, delivered, journal, mutation, rollback, preflight, result, guarded, deliveries, history>>
  BY DEF WriteTerminalRecord, Goto, Done
<1>5. o \in Op /\ (o = Idle \/ (op[r].outcome = "done" /\ o.pc = "journal" /\ o.req = op[r].req /\ o.outcome = "done"))
  BY <1>1, IdleOK DEF Op, PCs
<1> HIDE DEF o
<1>6. op'[r] = o
  BY <1>1, <1>4
<1>7. CallInv(r)' /\ RefusalInv(r)'
  BY <1>1, <1>2, <1>3, <1>4, <1>5, <1>6, IdleInv DEF CallInv, RefusalInv, Successful
<1>8. TypeOK'
  BY <1>1, <1>3, <1>4, <1>5 DEF TypeOK, history
<1>9. /\ terminal[r].recovery = "done" => terminal'[r].recovery = "done"
      /\ terminal[r].commit = "done" => terminal'[r].commit = "done"
  BY <1>1, <1>2, <1>3 DEF RefusalInv, Successful
<1> QED BY <1>3, <1>4, <1>5, <1>7, <1>8, <1>9, StepFrame

\* The journal, written last.
LEMMA JournalStep ==
  ASSUME DeliveryInv, NEW r \in Roots, WriteJournal(r)
  PROVE  DeliveryInv'
<1>1. TypeOK /\ op \in [Roots -> Op]
  BY DEF DeliveryInv, TypeOK
<1>2. op' = [op EXCEPT ![r] = Idle] /\ op'[r] = Idle /\ op[r].pc = "journal"
      /\ journal' = [journal EXCEPT ![r] = NewJournal(r)]
      /\ promised' \in {promised, promised \union {r}}
      /\ UNCHANGED <<profile, manifest, delivered, mutation, rollback, preflight, terminal, result,
                     guarded, deliveries, sent>>
  BY <1>1 DEF WriteJournal, Done
<1>3. NewJournal(r) \in Journal
  BY <1>2, NewJournalOK
<1>4. TypeOK'
  BY <1>1, <1>2, <1>3, IdleOK DEF TypeOK
<1>5. \A s \in Roots \ {r} : journal'[s] = journal[s]
  BY <1>1, <1>2 DEF TypeOK
<1> QED BY <1>2, <1>4, <1>5, IdleOK, IdleInv, StepFrame

\* One step of a call.
LEMMA StepInv ==
  ASSUME DeliveryInv, NEW r \in Roots, Step(r)
  PROVE  DeliveryInv'
  BY CopyStep, MutationSteps, DeliverySteps, EndStep, PreflightStep, DecisionSteps, RestoreStep,
     TerminalRecordStep, JournalStep DEF Step

\* Every step keeps the invariant, however many calls are in flight.
LEMMA NextInv == DeliveryInv /\ [Next]_vars => DeliveryInv'
<1> SUFFICES ASSUME DeliveryInv, [Next]_vars PROVE DeliveryInv'
  OBVIOUS
<1>1. ASSUME NEW r \in Roots, Begin(r) PROVE DeliveryInv'
  <2>1. profile \in Profile
    BY TransactionAssumption DEF DeliveryInv, TypeOK
  <2> QED BY <1>1, <2>1, RequestsOK, CallStep DEF Begin
<1>2. CASE UNCHANGED vars
  <2>1. TypeOK'
    BY <1>2 DEF DeliveryInv, TypeOK, vars, files, records, history
  <2>2. \A r \in Roots : CallInv(r)' /\ RefusalInv(r)'
    BY <1>2 DEF DeliveryInv, CallInv, RefusalInv, Successful, vars, files, records
  <2> QED BY <2>1, <2>2 DEF DeliveryInv
<1> QED BY <1>1, <1>2, StepInv, EndStep DEF Next

\* It holds at the start.
LEMMA InitInv == Init => DeliveryInv
<1> SUFFICES ASSUME Init PROVE DeliveryInv
  OBVIOUS
<1>1. profile.deliveries \in Nat
  BY TransactionAssumption DEF Init, Profile
<1>2. TypeOK
  BY <1>1, IdleOK DEF Init, TypeOK, Manifest, MaybeManifest, Outcomes
<1>3. \A r \in Roots : CallInv(r) /\ RefusalInv(r)
  BY DEF Init, CallInv, RefusalInv, Idle, Nothing
<1> QED BY <1>2, <1>3 DEF DeliveryInv

\* It is an invariant.
LEMMA DeliveryInvariance == Spec => []DeliveryInv
  BY InitInv, NextInv, PTL DEF Spec

\* Types of every file and call, whatever the profile.
THEOREM DeliveryTypes == Spec => []TypeOK
<1>1. DeliveryInv => TypeOK
  BY DEF DeliveryInv
<1> QED BY <1>1, DeliveryInvariance, PTL

\* Only one step writes terminal records.
LEMMA TerminalWritten ==
  ASSUME DeliveryInv, [Next]_vars, NEW s \in Roots
  PROVE  /\ terminal[s].recovery = "done" => terminal'[s].recovery = "done"
         /\ terminal[s].commit = "done" => terminal'[s].commit = "done"
<1>1. ASSUME NEW r \in Roots, WriteTerminalRecord(r)
      PROVE  s = r \/ terminal'[s] = terminal[s]
  BY <1>1 DEF WriteTerminalRecord, DeliveryInv, TypeOK
<1>2. (\E r \in Roots : WriteTerminalRecord(r)) \/ terminal' = terminal
  BY DEF Next, Step, vars, files, records, Begin, Call, Copy, Patch, Check, WriteManifest, Digest, Deliver,
         WriteMutationRecord, WriteResult, Raise, RecoveryPreflight, Recover, Restore, Commit, WriteJournal,
         Crash, TearJournal
<1> QED BY <1>1, <1>2, TerminalRecordStep

\* The record of a successful recovery or commit is never overwritten by a
\* blocked retry, with any number of roots, calls and crashes.
THEOREM TerminalRecordsStay == Spec => TerminalRecordsKept
<1>1. DeliveryInv /\ [Next]_vars =>
        [\A r \in Roots :
           /\ terminal[r].recovery = "done" => terminal'[r].recovery = "done"
           /\ terminal[r].commit = "done" => terminal'[r].commit = "done"]_vars
  BY TerminalWritten
<1> QED BY <1>1, DeliveryInvariance, PTL DEF Spec, TerminalRecordsKept
=============================================================================
