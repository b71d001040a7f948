-------------------------- MODULE DeliverySerialProofs --------------------------
(***************************************************************************)
(* Theorems about DeliveryTransaction when deliveries are made one at a      *)
(* time, as a team that takes the transaction lock makes them: recovery      *)
(* undoes a mutation of its own root, no entries of another root are lost,   *)
(* committed entries stay, and the whole implements SharedManifest.  Calls   *)
(* may crash after any step and leave a torn journal.                        *)
(***************************************************************************)
EXTENDS DeliveryTransactionProofs, FiniteSetTheorems

\* Deliveries are made one at a time.
Serial == \A p \in Profiles : p.inFlight <= 1

\* No two roots have a call in progress.
Alone == \A r, s \in Roots : op[r].pc # "idle" /\ op[s].pc # "idle" => r = s

\* What was measured around a mutation is a mutation: in the record the call
\* holds, in the record it wrote, and in a preflight that found it traceable.
RecordInv(r) ==
  /\ op[r].record # None /\ op[r].record.post # None =>
       op[r].record.post = PatchedManifest(r, op[r].record.pre)
  /\ mutation[r] # None /\ mutation[r].post # None =>
       mutation[r].post = PatchedManifest(r, mutation[r].pre)
  /\ preflight[r] # None /\ preflight[r].status = "ready_for_review" =>
       preflight[r].source = PatchedManifest(r, preflight[r].rollback)

\* What the call has read is still so.
ReadInv(r) ==
  /\ op[r].pc \in {"check", "write"} => op[r].patched = PatchedManifest(r, manifest)
  /\ op[r].pc = "write" => op[r].record = [pre |-> manifest, post |-> None]
  /\ op[r].pc = "digest" =>
       /\ op[r].record.post = None
       /\ manifest = PatchedManifest(r, op[r].record.pre)
  /\ op[r].pc = "restore" => RecoveryAllowed(r)

\* The checkpoint has the entries of its own root.
Kept(r) == rollback[r] # None /\ r \in rollback[r].entries

\* The journal allows no recovery.
Final(r) == journal[r] \in {None, Torn} \/ ~journal[r].mutated \/ journal[r].committed

\* Promised entries are there, and whatever can still be recovered keeps them.
PromiseInv(r) ==
  r \in promised =>
    /\ r \in manifest.entries
    /\ Kept(r) \/ Final(r)
    /\ op[r].mutated \/ op[r].pc \in {"write", "digest"} => Kept(r)

\* A commit in progress may promise.
Committing(r) ==
  \/ op[r].pc = "terminal_record" /\ op[r].req.kind = "commit" /\ op[r].outcome = "done"
  \/ op[r].pc = "journal" /\ op[r].req.kind = "commit"

\* The entries of the root are there when a call has mutated the manifest, when
\* a commit is about to promise them, and when a commit could: a preflight from
\* before the mutation says that there is nothing to recover.
PresentInv(r) ==
  /\ op[r].mutated => op[r].req.kind = "apply" /\ r \in manifest.entries
  /\ Committing(r) /\ journal[r].mutated => r \in manifest.entries
  /\ /\ journal[r] \notin {None, Torn} /\ journal[r].mutated
     /\ preflight[r] # None /\ preflight[r].status = "no_recovery_required"
     => r \in manifest.entries

RootInv(r) == RecordInv(r) /\ ReadInv(r) /\ PromiseInv(r) /\ PresentInv(r)

SerialInv == DeliveryInv /\ Alone /\ \A r \in Roots : RootInv(r)


-----------------------------------------------------------------------------
\* A root that has no call in progress is served by nobody.
LEMMA IdleRoot ==
  ASSUME SerialInv, NEW r \in Roots, NEW s \in Roots, s # r, op[r].pc # "idle"
  PROVE  op[s].pc = "idle"
  BY DEF SerialInv, Alone

\* What another root's step leaves of the invariant of s.
LEMMA OtherRoot ==
  ASSUME SerialInv, NEW r \in Roots, NEW s \in Roots, s # r, op[r].pc # "idle",
         op'[s] = op[s], journal'[s] = journal[s], mutation'[s] = mutation[s],
         rollback'[s] = rollback[s], preflight'[s] = preflight[s],
         manifest.entries \ {r} \subseteq manifest'.entries,
         promised' \subseteq promised \union {r}
  PROVE  RootInv(s)'
<1>1. RootInv(s) /\ op[s].pc = "idle"
  BY IdleRoot DEF SerialInv
<1>2. s \in manifest.entries => s \in manifest'.entries
  OBVIOUS
<1>3. RecordInv(s)'
  BY <1>1 DEF RootInv, RecordInv, PatchedManifest
<1>4. ReadInv(s)'
  BY <1>1 DEF ReadInv
<1>5. PromiseInv(s)'
  BY <1>1, <1>2 DEF RootInv, PromiseInv, Kept, Final
<1>6. PresentInv(s)'
  BY <1>1, <1>2 DEF RootInv, PresentInv, Committing
<1> QED BY <1>3, <1>4, <1>5, <1>6 DEF RootInv

\* A step of the one call in progress: it is enough to look at its own root.
LEMMA OneRoot ==
  ASSUME SerialInv, DeliveryInv', NEW r \in Roots, op[r].pc # "idle",
         NEW o, op' = [op EXCEPT ![r] = o],
         \A s \in Roots \ {r} : /\ journal'[s] = journal[s] /\ mutation'[s] = mutation[s]
                                /\ rollback'[s] = rollback[s] /\ preflight'[s] = preflight[s],
         manifest.entries \ {r} \subseteq manifest'.entries,
         promised' \subseteq promised \union {r},
         RootInv(r)'
  PROVE  SerialInv'
<1>1. \A s \in Roots \ {r} : op'[s] = op[s] /\ op[s].pc = "idle"
  BY IdleRoot DEF SerialInv, DeliveryInv, TypeOK
<1>2. Alone'
  BY <1>1 DEF Alone
<1>3. \A s \in Roots \ {r} : RootInv(s)'
  BY <1>1, OtherRoot
<1> QED BY <1>2, <1>3 DEF SerialInv

\* A step that writes nothing of what the invariant is about, and has not just
\* read it: a call that moves on or ends, possibly with its journal torn.
LEMMA QuietStep ==
  ASSUME SerialInv, DeliveryInv', NEW r \in Roots, op[r].pc # "idle",
         NEW o \in Op, op' = [op EXCEPT ![r] = o],
         o.record \in {op[r].record, None}, o.mutated => op[r].mutated /\ o.req = op[r].req,
         o.pc \notin {"check", "write", "digest", "restore"},
         journal' \in {journal, [journal EXCEPT ![r] = Torn]},
         Committing(r)' => Committing(r) /\ journal' = journal,
         UNCHANGED <<manifest, mutation, rollback, preflight, promised>>
  PROVE  SerialInv'
<1>1. RootInv(r) /\ TypeOK
  BY DEF SerialInv, DeliveryInv
<1>2. op'[r] = o
  BY <1>1 DEF TypeOK
<1>3. journal'[r] \in {journal[r], Torn} /\ \A s \in Roots \ {r} : journal'[s] = journal[s]
  BY <1>1 DEF TypeOK
<1>4. RecordInv(r)'
  BY <1>1, <1>2 DEF RootInv, RecordInv, PatchedManifest
<1>5. ReadInv(r)'
  BY <1>2 DEF ReadInv
<1>6. PromiseInv(r)'
  BY <1>1, <1>2, <1>3 DEF RootInv, PromiseInv, Kept, Final
<1>7. PresentInv(r)'
  BY <1>1, <1>2, <1>3 DEF RootInv, PresentInv
<1>8. RootInv(r)'
  BY <1>4, <1>5, <1>6, <1>7 DEF RootInv
<1> QED BY <1>3, <1>8, OneRoot

\* A call that ends by its own means or by a crash.
LEMMA EndQuiet ==
  ASSUME SerialInv, DeliveryInv', NEW r \in Roots, op[r].pc # "idle", op' = [op EXCEPT ![r] = Idle],
         journal' \in {journal, [journal EXCEPT ![r] = Torn]},
         UNCHANGED <<manifest, mutation, rollback, preflight, promised>>
  PROVE  SerialInv'
<1>1. op'[r] = Idle
  BY DEF SerialInv, DeliveryInv, TypeOK
<1>2. ~Committing(r)'
  BY <1>1 DEF Committing, Idle
<1>3. Idle.record = None /\ ~Idle.mutated /\ Idle.pc = "idle"
  BY DEF Idle
<1> QED BY <1>2, <1>3, IdleOK, QuietStep

\* Copying, the provider's answer and its record, and the terminal records.
LEMMA QuietSteps ==
  ASSUME SerialInv, DeliveryInv', NEW r \in Roots,
         Copy(r) \/ Deliver(r) \/ WriteResult(r) \/ WriteTerminalRecord(r)
  PROVE  SerialInv'
<1>1. TypeOK /\ op[r] \in Op /\ CallInv(r) /\ op[r].req \in Request /\ op \in [Roots -> Op]
  BY DEF SerialInv, DeliveryInv, TypeOK, Op
<1>2. UNCHANGED <<manifest, journal, mutation, rollback, preflight, promised>>
  BY DEF Copy, Deliver, WriteResult, WriteTerminalRecord, history, files, records
<1>3. ASSUME NEW o \in Op, op' = [op EXCEPT ![r] = o], op[r].pc # "idle",
             o.pc \in {"patch", "deliver", "mutation_record", "result", "journal"}, o.req = op[r].req,
             o.record = op[r].record, o.mutated = op[r].mutated,
             o.pc = "journal" => op[r].req.kind = "apply" \/ Committing(r) \/ op[r].req.kind = "recover"
      PROVE  SerialInv'
  <2>1. op'[r] = o
    BY <1>1, <1>3
  <2>2. Committing(r)' => Committing(r) /\ journal' = journal
    BY <1>2, <1>3, <2>1 DEF Committing
  <2> QED BY <1>2, <1>3, <2>2, QuietStep
<1>4. CASE Copy(r)
  <2> DEFINE q == op[r].req
             next == IF q.mutate /\ ~CopyFails(r) THEN "patch" ELSE AfterManifest(q, CopyFails(r), FALSE)
             o == [op[r] EXCEPT !.pc = next, !.failed = CopyFails(r)]
  <2>1. next \in {"patch", "deliver", "idle", "journal"} /\ CopyFails(r) \in BOOLEAN
    BY <1>1 DEF AfterManifest, CopyFails, Request, TypeOK
  <2>2. op[r].pc = "copy" /\ op[r].req.kind = "apply" /\ op' = [op EXCEPT ![r] = IF next = "idle" THEN Idle ELSE o]
    BY <1>1, <1>4 DEF Copy, CallInv
  <2> HIDE DEF next
  <2>3. CASE next = "idle"
    BY <1>2, <2>2, <2>3, EndQuiet
  <2>4. CASE next # "idle"
    <3>1. /\ o \in Op /\ o.pc = next /\ o.req = op[r].req
          /\ o.record = op[r].record /\ o.mutated = op[r].mutated
      BY <1>1, <2>1 DEF Op, PCs
    <3> QED BY <1>3, <2>1, <2>2, <2>4, <3>1
  <2> QED BY <2>3, <2>4
<1>5. CASE Deliver(r)
  <2>1. PICK outcome \in {"guarded", "blocked", "performed"} :
           op' = [op EXCEPT ![r] = [op[r] EXCEPT !.outcome = outcome,
                                       !.pc = IF op[r].record # None THEN "mutation_record" ELSE "result"]]
    BY <1>5 DEF Deliver
  <2> DEFINE n == IF op[r].record # None THEN "mutation_record" ELSE "result"
             o == [op[r] EXCEPT !.outcome = outcome, !.pc = n]
  <2>2. n \in {"mutation_record", "result"} /\ op' = [op EXCEPT ![r] = o] /\ op[r].pc = "deliver"
    BY <1>5, <2>1 DEF Deliver
  <2> HIDE DEF n
  <2>3. o \in Op /\ o.pc = n /\ o.req = op[r].req /\ o.record = op[r].record /\ o.mutated = op[r].mutated
    BY <1>1, <2>2 DEF Op, PCs, Outcomes
  <2> QED BY <1>3, <2>2, <2>3
<1>6. CASE WriteResult(r)
  <2>1. CASE op[r].failed
    BY <1>2, <1>6, <2>1, EndQuiet DEF WriteResult, Done
  <2>2. CASE ~op[r].failed
    <3> DEFINE o == [op[r] EXCEPT !.pc = "journal"]
    <3>1. op' = [op EXCEPT ![r] = o] /\ op[r].pc = "result" /\ op[r].req.kind = "apply"
      BY <1>1, <1>6, <2>2 DEF WriteResult, Goto, CallInv
    <3>2. o \in Op /\ o.pc = "journal" /\ o.req = op[r].req /\ o.record = op[r].record /\ o.mutated = op[r].mutated
      BY <1>1 DEF Op, PCs
    <3> QED BY <1>3, <3>1, <3>2
  <2> QED BY <2>1, <2>2
<1>7. CASE WriteTerminalRecord(r)
  <2>1. CASE op[r].outcome # "done"
    BY <1>2, <1>7, <2>1, EndQuiet DEF WriteTerminalRecord, Done
  <2>2. CASE op[r].outcome = "done"
    <3> DEFINE o == [op[r] EXCEPT !.pc = "journal"]
    <3>1. op' = [op EXCEPT ![r] = o] /\ op[r].pc = "terminal_record" /\ op[r].req.kind \in {"recover", "commit"}
      BY <1>1, <1>7, <2>2 DEF WriteTerminalRecord, Goto, CallInv
    <3>2. o \in Op /\ o.pc = "journal" /\ o.req = op[r].req /\ o.record = op[r].record /\ o.mutated = op[r].mutated
      BY <1>1 DEF Op, PCs
    <3>3. op[r].req.kind = "recover" \/ Committing(r)
      BY <2>2, <3>1 DEF Committing
    <3> QED BY <1>3, <3>1, <3>2, <3>3
  <2> QED BY <2>1, <2>2
<1> QED BY <1>4, <1>5, <1>6, <1>7

\* A call that raises on a torn journal, dies, or dies tearing it.
LEMMA EndSteps ==
  ASSUME SerialInv, DeliveryInv', NEW r \in Roots, Raise(r) \/ Crash(r) \/ TearJournal(r)
  PROVE  SerialInv'
<1>1. op[r].pc # "idle" /\ op' = [op EXCEPT ![r] = Idle]
      /\ journal' \in {journal, [journal EXCEPT ![r] = Torn]}
      /\ UNCHANGED <<manifest, mutation, rollback, preflight, promised>>
  BY DEF Raise, ReadsTorn, Crash, TearJournal, Done, files, records, history
<1> QED BY <1>1, EndQuiet

\* A call starts only when no other is in progress.
LEMMA SerialCall ==
  ASSUME Serial, SerialInv, DeliveryInv', NEW r \in Roots, NEW q \in Request, Call(r, q)
  PROVE  SerialInv'
<1> DEFINE busy == {s \in Roots : op[s].pc # "idle"}
           o == [Idle EXCEPT !.pc = IF q.kind = "apply" THEN "copy" ELSE q.kind,
                             !.req = q,
                             !.expected = IF q.mutate THEN manifest ELSE None]
<1>1. TypeOK /\ op \in [Roots -> Op]
  BY DEF SerialInv, DeliveryInv, TypeOK
<1>2. busy = {}
  <2>1. profile.inFlight \in Nat /\ profile.inFlight <= 1
    BY <1>1, TransactionAssumption DEF TypeOK, Serial, Profile
  <2>2. IsFiniteSet(busy)
    BY TransactionAssumption, FS_Subset
  <2>3. Cardinality(busy) \in Nat /\ Cardinality(busy) < profile.inFlight
    BY <2>2, FS_CardinalityType DEF Call
  <2> QED BY <2>1, <2>2, <2>3, FS_EmptySet
<1>3. o.pc \in {"copy", "preflight", "recover", "commit"} /\ o.record = None /\ o.mutated = FALSE
  BY DEF Idle, Request
<1>4. op' = [op EXCEPT ![r] = o] /\ UNCHANGED <<manifest, files, promised>>
  BY DEF Call, history
<1> HIDE DEF o
<1>5. op'[r] = o /\ \A s \in Roots \ {r} : op'[s] = op[s] /\ op[s].pc = "idle"
  BY <1>1, <1>2, <1>4
<1>6. Alone'
  BY <1>5 DEF Alone
<1>7. ASSUME NEW s \in Roots PROVE RootInv(s)'
  <2>1. RootInv(s) /\ op'[s].pc \in {"idle", "copy", "preflight", "recover", "commit"}
    BY <1>3, <1>5 DEF SerialInv
  <2>2. op'[s] = op[s] \/ (op'[s].record = None /\ op'[s].mutated = FALSE)
    BY <1>3, <1>5
  <2>3. RecordInv(s)'
    BY <1>4, <2>1, <2>2 DEF RootInv, RecordInv, PatchedManifest, files, records
  <2>4. ReadInv(s)'
    BY <2>1 DEF ReadInv
  <2>5. PromiseInv(s)'
    BY <1>4, <2>1, <2>2 DEF RootInv, PromiseInv, Kept, Final, files, records
  <2>6. PresentInv(s)'
    BY <1>4, <2>1, <2>2 DEF RootInv, PresentInv, Committing, files, records
  <2> QED BY <2>3, <2>4, <2>5, <2>6 DEF RootInv
<1> QED BY <1>6, <1>7 DEF SerialInv

\* A step of an apply that leaves the journal, the preflight and the promises
\* alone: the rest of its root's invariant.
LEMMA MutationStep ==
  ASSUME SerialInv, DeliveryInv', NEW r \in Roots,
         op[r].pc \in {"patch", "check", "write", "digest", "mutation_record"},
         NEW o \in Op, op' = [op EXCEPT ![r] = o], o.req = op[r].req,
         UNCHANGED <<journal, preflight, promised>>,
         \A s \in Roots \ {r} : mutation'[s] = mutation[s] /\ rollback'[s] = rollback[s],
         manifest.entries \subseteq manifest'.entries,
         o.mutated => r \in manifest'.entries,
         r \in promised /\ (Kept(r) \/ o.mutated \/ o.pc \in {"write", "digest"}) => Kept(r)',
         RecordInv(r)', ReadInv(r)'
  PROVE  SerialInv'
<1>1. TypeOK /\ CallInv(r) /\ RootInv(r)
  BY DEF SerialInv, DeliveryInv
<1>2. op'[r] = o /\ op[r].req.kind = "apply"
  BY <1>1 DEF TypeOK, CallInv
<1>3. PromiseInv(r)'
  BY <1>1, <1>2 DEF RootInv, PromiseInv, Final
<1>4. PresentInv(r)'
  BY <1>1, <1>2 DEF RootInv, PresentInv, Committing
<1>5. RootInv(r)'
  BY <1>3, <1>4 DEF RootInv
<1> QED BY <1>5, OneRoot

\* Patch, check of the digest, write, digest, and the record of the mutation.
LEMMA MutationKept ==
  ASSUME SerialInv, DeliveryInv', NEW r \in Roots,
         Patch(r) \/ Check(r) \/ WriteManifest(r) \/ Digest(r) \/ WriteMutationRecord(r)
  PROVE  SerialInv'
<1>1. /\ TypeOK /\ op[r] \in Op /\ CallInv(r) /\ op \in [Roots -> Op] /\ manifest \in Manifest
      /\ RootInv(r) /\ RecordInv(r) /\ ReadInv(r) /\ PromiseInv(r)
      /\ op[r].mutated => r \in manifest.entries
  BY DEF SerialInv, DeliveryInv, TypeOK, RootInv, PresentInv
<1>2. CASE Patch(r)
  <2> DEFINE o == [op[r] EXCEPT !.pc = "check", !.patched = PatchedManifest(r, manifest)]
  <2>1. op' = [op EXCEPT ![r] = o] /\ op[r].pc = "patch" /\ UNCHANGED <<manifest, files, promised>>
    BY <1>2 DEF Patch, history
  <2>2. PatchedManifest(r, manifest) \in Manifest
    BY <1>1 DEF PatchedManifest, Manifest
  <2>3. /\ o \in Op /\ o.pc = "check" /\ o.patched = PatchedManifest(r, manifest) /\ o.req = op[r].req
        /\ o.record = op[r].record /\ o.mutated = op[r].mutated
    BY <1>1, <2>2 DEF Op, PCs, MaybeManifest
  <2> HIDE DEF o
  <2>4. op'[r] = o
    BY <1>1, <2>1
  <2>5. RecordInv(r)'
    BY <1>1, <2>1, <2>3, <2>4 DEF RecordInv, PatchedManifest, files, records
  <2>6. ReadInv(r)'
    BY <2>1, <2>3, <2>4 DEF ReadInv, PatchedManifest
  <2>7. r \in promised /\ (Kept(r) \/ o.mutated \/ o.pc \in {"write", "digest"}) => Kept(r)'
    BY <1>1, <2>1, <2>3 DEF PromiseInv, Kept, files, records
  <2> QED BY <1>1, <2>1, <2>3, <2>5, <2>6, <2>7, MutationStep DEF files, records
<1>3. CASE Check(r)
  <2> DEFINE match == DigestMatches(r)
             n == IF match THEN "write" ELSE AfterManifest(op[r].req, FALSE, TRUE)
             o == [op[r] EXCEPT !.pc = n, !.record = [pre |-> manifest, post |-> None]]
  <2>1. /\ op' = [op EXCEPT ![r] = o] /\ op[r].pc = "check"
        /\ rollback' = IF match THEN [rollback EXCEPT ![r] = manifest] ELSE rollback
        /\ UNCHANGED <<manifest, journal, mutation, preflight, promised>>
    BY <1>3 DEF Check, history
  <2>2. n \in {"write", "deliver", "mutation_record"} /\ (n = "write" => match)
    BY DEF AfterManifest
  <2>3. [pre |-> manifest, post |-> None] \in MutationRecord
    BY <1>1 DEF MutationRecord, MaybeManifest
  <2> HIDE DEF n, match
  <2>4. /\ o \in Op /\ o.pc = n /\ o.record = [pre |-> manifest, post |-> None] /\ o.req = op[r].req
        /\ o.patched = op[r].patched /\ o.mutated = op[r].mutated
    BY <1>1, <2>2, <2>3 DEF Op, PCs
  <2> HIDE DEF o
  <2>5. op'[r] = o /\ \A s \in Roots \ {r} : rollback'[s] = rollback[s]
    BY <1>1, <2>1 DEF TypeOK
  <2>6. RecordInv(r)'
    BY <1>1, <2>1, <2>4, <2>5 DEF RecordInv, PatchedManifest
  <2>7. ReadInv(r)'
    BY <1>1, <2>1, <2>2, <2>4, <2>5 DEF ReadInv, PatchedManifest
  <2>8. r \in promised /\ (Kept(r) \/ o.mutated \/ o.pc \in {"write", "digest"}) => Kept(r)'
    <3>1. CASE match
      BY <1>1, <2>1, <3>1, TransactionAssumption DEF PromiseInv, Kept, TypeOK
    <3>2. CASE ~match
      BY <1>1, <2>1, <2>2, <2>4, <3>2 DEF PromiseInv, Kept
    <3> QED BY <3>1, <3>2
  <2> QED BY <1>1, <2>1, <2>4, <2>5, <2>6, <2>7, <2>8, MutationStep
<1>4. CASE WriteManifest(r)
  <2> DEFINE o == [op[r] EXCEPT !.pc = "digest"]
  <2>1. /\ op' = [op EXCEPT ![r] = o] /\ op[r].pc = "write" /\ UNCHANGED <<files, promised>>
        /\ manifest' = PatchedManifest(r, manifest) /\ op[r].record = [pre |-> manifest, post |-> None]
    BY <1>1, <1>4 DEF WriteManifest, Goto, ReadInv, history
  <2>2. o \in Op /\ o.pc = "digest" /\ o.record = op[r].record /\ o.req = op[r].req /\ o.mutated = op[r].mutated
    BY <1>1 DEF Op, PCs
  <2> HIDE DEF o
  <2>3. op'[r] = o
    BY <1>1, <2>1
  <2>4. RecordInv(r)'
    BY <1>1, <2>1, <2>2, <2>3 DEF RecordInv, PatchedManifest, files, records
  <2>5. ReadInv(r)'
    BY <2>1, <2>2, <2>3 DEF ReadInv, PatchedManifest
  <2>6. r \in promised /\ (Kept(r) \/ o.mutated \/ o.pc \in {"write", "digest"}) => Kept(r)'
    BY <1>1, <2>1 DEF PromiseInv, Kept, files, records
  <2>7. manifest.entries \subseteq manifest'.entries /\ r \in manifest'.entries
    BY <2>1 DEF PatchedManifest
  <2> QED BY <2>1, <2>2, <2>4, <2>5, <2>6, <2>7, MutationStep DEF files, records
<1>5. CASE Digest(r)
  <2> DEFINE n == AfterManifest(op[r].req, FALSE, TRUE)
             o == [op[r] EXCEPT !.pc = n, !.record = [op[r].record EXCEPT !.post = manifest], !.mutated = TRUE]
  <2>1. op' = [op EXCEPT ![r] = o] /\ op[r].pc = "digest" /\ UNCHANGED <<manifest, files, promised>>
    BY <1>5 DEF Digest, history
  <2>2. n \in {"deliver", "mutation_record"}
    BY DEF AfterManifest
  <2>3. op[r].record \in MutationRecord /\ manifest = PatchedManifest(r, op[r].record.pre)
    BY <1>1, <2>1 DEF CallInv, ReadInv
  <2>4. [op[r].record EXCEPT !.post = manifest] \in MutationRecord
    BY <1>1, <2>3 DEF MutationRecord, MaybeManifest
  <2> HIDE DEF n
  <2>5. /\ o \in Op /\ o.pc = n /\ o.req = op[r].req
        /\ o.record.post = manifest /\ o.record.pre = op[r].record.pre
    BY <1>1, <2>2, <2>3, <2>4 DEF Op, PCs, MutationRecord
  <2> HIDE DEF o
  <2>6. op'[r] = o
    BY <1>1, <2>1
  <2>7. RecordInv(r)'
    BY <1>1, <2>1, <2>3, <2>5, <2>6 DEF RecordInv, PatchedManifest, files, records
  <2>8. ReadInv(r)'
    BY <2>2, <2>5, <2>6 DEF ReadInv
  <2>9. r \in promised /\ (Kept(r) \/ o.mutated \/ o.pc \in {"write", "digest"}) => Kept(r)'
    BY <1>1, <2>1 DEF PromiseInv, Kept, files, records
  <2>10. r \in manifest'.entries
    BY <2>1, <2>3 DEF PatchedManifest
  <2> QED BY <2>1, <2>5, <2>7, <2>8, <2>9, <2>10, MutationStep DEF files, records
<1>6. CASE WriteMutationRecord(r)
  <2> DEFINE n == IF op[r].req.external THEN "result" ELSE "journal"
             o == [op[r] EXCEPT !.pc = n]
  <2>1. /\ op' = [op EXCEPT ![r] = o] /\ op[r].pc = "mutation_record"
        /\ mutation' = [mutation EXCEPT ![r] = op[r].record]
        /\ UNCHANGED <<manifest, journal, rollback, preflight, promised>>
    BY <1>6 DEF WriteMutationRecord, Goto, history
  <2>2. n \in {"result", "journal"}
    OBVIOUS
  <2> HIDE DEF n
  <2>3. o \in Op /\ o.pc = n /\ o.record = op[r].record /\ o.req = op[r].req /\ o.mutated = op[r].mutated
    BY <1>1, <2>2 DEF Op, PCs
  <2> HIDE DEF o
  <2>4. op'[r] = o /\ mutation'[r] = op[r].record /\ \A s \in Roots \ {r} : mutation'[s] = mutation[s]
    BY <1>1, <2>1 DEF TypeOK
  <2>5. RecordInv(r)'
    BY <1>1, <2>1, <2>3, <2>4 DEF RecordInv, PatchedManifest
  <2>6. ReadInv(r)'
    BY <2>2, <2>3, <2>4 DEF ReadInv
  <2>7. r \in promised /\ (Kept(r) \/ o.mutated \/ o.pc \in {"write", "digest"}) => Kept(r)'
    BY <1>1, <2>1, <2>2, <2>3 DEF PromiseInv, Kept
  <2> QED BY <1>1, <2>1, <2>3, <2>4, <2>5, <2>6, <2>7, MutationStep
<1> QED BY <1>2, <1>3, <1>4, <1>5, <1>6

\* A preflight that calls the mutation traceable has compared the checkpoint and
\* the manifest with the record of a mutation.
LEMMA PreflightKept ==
  ASSUME SerialInv, DeliveryInv', NEW r \in Roots, RecoveryPreflight(r)
  PROVE  SerialInv'
<1> DEFINE ready == PreflightStatus(r) = "ready_for_review"
           p == [status   |-> PreflightStatus(r),
                 source   |-> manifest,
                 rollback |-> IF ready THEN rollback[r] ELSE None]
<1>1. /\ TypeOK /\ op \in [Roots -> Op] /\ RootInv(r) /\ RecordInv(r) /\ PromiseInv(r)
      /\ manifest \in Manifest
  BY DEF SerialInv, DeliveryInv, TypeOK, RootInv
<1>2. /\ op' = [op EXCEPT ![r] = Idle] /\ op[r].pc = "preflight" /\ journal[r] # Torn
      /\ preflight' = [preflight EXCEPT ![r] = p]
      /\ UNCHANGED <<manifest, journal, mutation, rollback, promised>>
  BY DEF RecoveryPreflight, ReadsTorn, Done, history
<1>3. op'[r] = Idle /\ preflight'[r] = p /\ \A s \in Roots \ {r} : preflight'[s] = preflight[s]
  BY <1>1, <1>2 DEF TypeOK
<1>4. ready => p.source = PatchedManifest(r, p.rollback)
  <2>1. ready => MutationTraceable(r)
    BY DEF PreflightStatus
  <2> QED BY <1>1, <2>1, TransactionAssumption DEF MutationTraceable, RecordInv
<1>5. PreflightStatus(r) = "no_recovery_required" => ~journal[r].mutated
  BY DEF PreflightStatus
<1>6. p.status = PreflightStatus(r)
  OBVIOUS
<1> HIDE DEF p
<1>7. RecordInv(r)'
  BY <1>1, <1>2, <1>3, <1>4, <1>6 DEF RecordInv, PatchedManifest, Idle
<1>8. ReadInv(r)'
  BY <1>3 DEF ReadInv, Idle
<1>9. PromiseInv(r)'
  BY <1>1, <1>2, <1>3 DEF PromiseInv, Kept, Final, Idle
<1>10. PresentInv(r)'
  BY <1>2, <1>3, <1>5, <1>6 DEF PresentInv, Committing, Idle
<1>11. RootInv(r)'
  BY <1>7, <1>8, <1>9, <1>10 DEF RootInv
<1> QED BY <1>2, <1>3, <1>11, OneRoot

\* Recovery: what the preflight measured is compared again before the restore.
LEMMA RecoverKept ==
  ASSUME SerialInv, DeliveryInv', NEW r \in Roots, Recover(r) \/ Commit(r)
  PROVE  SerialInv'
<1>1. /\ TypeOK /\ op[r] \in Op /\ CallInv(r) /\ op \in [Roots -> Op] /\ manifest \in Manifest
      /\ RootInv(r) /\ RecordInv(r) /\ PromiseInv(r) /\ PresentInv(r)
  BY DEF SerialInv, DeliveryInv, TypeOK, RootInv
<1>2. /\ UNCHANGED <<manifest, records, promised>> /\ journal[r] # Torn
      /\ op[r].pc \in {"recover", "commit"} /\ op[r].req.kind = op[r].pc
  BY <1>1 DEF Recover, Commit, ReadsTorn, CallInv, history
<1>3. CASE Recover(r) /\ RecoveryAllowed(r)
  <2> DEFINE o == [op[r] EXCEPT !.pc = "restore"]
  <2>1. op' = [op EXCEPT ![r] = o]
    BY <1>3 DEF Recover, Goto
  <2>2. o.pc = "restore" /\ o.record = op[r].record /\ o.mutated = op[r].mutated /\ o.req = op[r].req
    BY <1>1 DEF Op
  <2> HIDE DEF o
  <2>3. op'[r] = o
    BY <1>1, <2>1
  <2>4. RecordInv(r)'
    BY <1>1, <1>2, <2>2, <2>3 DEF RecordInv, PatchedManifest, records
  <2>5. ReadInv(r)'
    BY <1>2, <1>3, <2>2, <2>3 DEF ReadInv, RecoveryAllowed, RecoveryReady, records
  <2>6. PromiseInv(r)'
    BY <1>1, <1>2, <2>2, <2>3 DEF PromiseInv, Kept, Final, records
  <2>7. PresentInv(r)'
    BY <1>1, <1>2, <2>2, <2>3 DEF PresentInv, Committing, records
  <2>8. RootInv(r)'
    BY <2>4, <2>5, <2>6, <2>7 DEF RootInv
  <2> QED BY <1>2, <2>1, <2>8, OneRoot DEF records
<1>4. CASE Commit(r) /\ CommitAllowed(r)
  <2> DEFINE o == [op[r] EXCEPT !.pc = "terminal_record", !.outcome = "done"]
  <2>1. op' = [op EXCEPT ![r] = o]
    BY <1>4 DEF Commit
  <2>2. /\ o.pc = "terminal_record" /\ o.record = op[r].record /\ o.mutated = op[r].mutated
        /\ o.req = op[r].req
    BY <1>1 DEF Op
  <2> HIDE DEF o
  <2>3. op'[r] = o
    BY <1>1, <2>1
  <2>4. journal[r].mutated => r \in manifest.entries
    <3>1. /\ journal[r] \notin {None, Torn}
          /\ preflight[r] # None /\ preflight[r].status # "blocked" /\ preflight[r].source = manifest
      BY <1>2, <1>4 DEF CommitAllowed
    <3>2. CASE preflight[r].status = "ready_for_review"
      BY <1>1, <3>1, <3>2 DEF RecordInv, PatchedManifest
    <3>3. CASE preflight[r].status = "no_recovery_required"
      BY <1>1, <3>1, <3>3 DEF PresentInv
    <3> QED BY <1>1, <3>1, <3>2, <3>3 DEF TypeOK, Preflight
  <2>5. RecordInv(r)'
    BY <1>1, <1>2, <2>2, <2>3 DEF RecordInv, PatchedManifest, records
  <2>6. ReadInv(r)'
    BY <2>2, <2>3 DEF ReadInv
  <2>7. PromiseInv(r)'
    BY <1>1, <1>2, <2>2, <2>3 DEF PromiseInv, Kept, Final, records
  <2>8. PresentInv(r)'
    BY <1>1, <1>2, <2>2, <2>3, <2>4 DEF PresentInv, records
  <2>9. RootInv(r)'
    BY <2>5, <2>6, <2>7, <2>8 DEF RootInv
  <2> QED BY <1>2, <2>1, <2>9, OneRoot DEF records
<1>5. ASSUME NEW flag, NEW record, Refuse(r, flag, record) PROVE SerialInv'
  <2>1. CASE Guarded(flag, record)
    BY <1>2, <1>5, <2>1, EndQuiet DEF Refuse, Done, records
  <2>2. CASE ~Guarded(flag, record)
    <3> DEFINE o == [op[r] EXCEPT !.pc = "terminal_record", !.outcome = "blocked"]
    <3>1. op' = [op EXCEPT ![r] = o]
      BY <1>5, <2>2 DEF Refuse
    <3>2. /\ o \in Op /\ o.pc = "terminal_record" /\ o.outcome = "blocked"
          /\ o.record = op[r].record /\ o.mutated = op[r].mutated /\ o.req = op[r].req
      BY <1>1 DEF Op, PCs, Outcomes
    <3> HIDE DEF o
    <3>3. op'[r] = o
      BY <1>1, <3>1
    <3>4. ~Committing(r)'
      BY <3>2, <3>3 DEF Committing
    <3> QED BY <1>2, <3>1, <3>2, <3>4, QuietStep DEF records
  <2> QED BY <2>1, <2>2
<1>6. CASE Recover(r) /\ ~RecoveryAllowed(r)
  BY <1>5, <1>6 DEF Recover
<1>7. CASE Commit(r) /\ ~CommitAllowed(r)
  BY <1>5, <1>7 DEF Commit
<1> QED BY <1>3, <1>4, <1>6, <1>7

\* What is put back is the content the mutation was made on; whatever is
\* promised is in it.
LEMMA RestoreUndoes ==
  ASSUME SerialInv, NEW r \in Roots, Restore(r)
  PROVE  /\ manifest' \in Manifest
         /\ PatchedManifest(r, manifest') = manifest
         /\ promised \subseteq manifest'.entries
<1>1. /\ TypeOK /\ CallInv(r) /\ RootInv(r) /\ RecordInv(r) /\ ReadInv(r)
      /\ \A s \in Roots : PromiseInv(s)
  BY DEF SerialInv, DeliveryInv, RootInv
<1>2. op[r].pc = "restore" /\ manifest' = rollback[r] /\ RecoveryAllowed(r) /\ journal[r] \in Journal
  BY <1>1 DEF Restore, ReadInv, CallInv
<1>3. manifest' \in Manifest
  BY <1>1, <1>2 DEF RecoveryAllowed, TypeOK, MaybeManifest
<1>4. PatchedManifest(r, manifest') = manifest
  BY <1>1, <1>2 DEF RecordInv, RecoveryAllowed, RecoveryReady
<1>5. ~Final(r)
  BY <1>2, TransactionAssumption DEF Final, RecoveryAllowed, RecoveryReady
<1>6. r \in promised => r \in manifest'.entries
  BY <1>1, <1>2, <1>5 DEF PromiseInv, Kept
<1>7. \A s \in promised \ {r} : s \in manifest'.entries
  BY <1>1, <1>4 DEF PromiseInv, PatchedManifest, TypeOK
<1> QED BY <1>3, <1>4, <1>6, <1>7

LEMMA RestoreKept ==
  ASSUME SerialInv, DeliveryInv', NEW r \in Roots, Restore(r)
  PROVE  SerialInv'
<1>1. /\ TypeOK /\ op[r] \in Op /\ CallInv(r) /\ op \in [Roots -> Op]
      /\ RootInv(r) /\ RecordInv(r) /\ PromiseInv(r) /\ PresentInv(r) /\ ReadInv(r)
  BY DEF SerialInv, DeliveryInv, TypeOK, RootInv
<1> DEFINE o == [op[r] EXCEPT !.pc = "terminal_record", !.outcome = "done"]
<1>2. /\ op' = [op EXCEPT ![r] = o] /\ op[r].pc = "restore" /\ UNCHANGED <<files, promised>>
      /\ op[r].req.kind = "recover" /\ RecoveryAllowed(r)
  BY <1>1 DEF Restore, CallInv, ReadInv, history
<1>3. o.pc = "terminal_record" /\ o.record = op[r].record /\ o.mutated = op[r].mutated /\ o.req = op[r].req
  BY <1>1 DEF Op
<1> HIDE DEF o
<1>4. op'[r] = o
  BY <1>1, <1>2
<1>5. manifest.entries \ {r} \subseteq manifest'.entries /\ promised \subseteq manifest'.entries
  BY RestoreUndoes DEF PatchedManifest
<1>6. RecordInv(r)'
  BY <1>1, <1>2, <1>3, <1>4 DEF RecordInv, PatchedManifest, files, records
<1>7. ReadInv(r)'
  BY <1>3, <1>4 DEF ReadInv
<1>8. PromiseInv(r)'
  BY <1>1, <1>2, <1>3, <1>4, <1>5 DEF PromiseInv, Kept, Final, files, records
<1>9. ~op[r].mutated
  BY <1>1, <1>2 DEF PresentInv
<1>10. PresentInv(r)'
  BY <1>1, <1>2, <1>3, <1>4, <1>9 DEF PresentInv, Committing, RecoveryAllowed, RecoveryReady, files, records
<1>11. RootInv(r)'
  BY <1>6, <1>7, <1>8, <1>10 DEF RootInv
<1> QED BY <1>2, <1>5, <1>11, OneRoot DEF files, records

\* The journal: a commit may promise only what is there, and a new mutation is
\* in the journal only together with its checkpoint.
LEMMA JournalPromises ==
  ASSUME SerialInv, NEW r \in Roots, WriteJournal(r)
  PROVE  /\ promised' \in {promised, promised \union {r}}
         /\ promised' # promised => r \in manifest.entries
<1>1. RootInv(r) /\ op[r].pc = "journal"
  BY DEF SerialInv, WriteJournal
<1> QED BY <1>1 DEF WriteJournal, RootInv, PresentInv, Committing

LEMMA JournalKept ==
  ASSUME SerialInv, DeliveryInv', NEW r \in Roots, WriteJournal(r)
  PROVE  SerialInv'
<1>1. /\ TypeOK /\ op[r] \in Op /\ CallInv(r) /\ op \in [Roots -> Op] /\ DeliveryInv
      /\ RootInv(r) /\ RecordInv(r) /\ PromiseInv(r) /\ PresentInv(r)
  BY DEF SerialInv, DeliveryInv, TypeOK, RootInv
<1>2. /\ op' = [op EXCEPT ![r] = Idle] /\ op[r].pc = "journal"
      /\ UNCHANGED <<manifest, mutation, rollback, preflight>>
      /\ journal' = [journal EXCEPT ![r] = NewJournal(r)]
      /\ promised' = IF op[r].req.kind = "commit" /\ journal[r].mutated THEN promised \union {r} ELSE promised
  BY DEF WriteJournal, Done
<1>3. /\ op'[r] = Idle /\ journal'[r] = NewJournal(r)
      /\ \A s \in Roots \ {r} : journal'[s] = journal[s]
  BY <1>1, <1>2 DEF TypeOK
<1>4. /\ op'[r].record = None /\ op'[r].mutated = FALSE /\ op'[r].pc = "idle"
  BY <1>3 DEF Idle
<1>5. RecordInv(r)'
  BY <1>1, <1>2, <1>4 DEF RecordInv, PatchedManifest
<1>6. ReadInv(r)'
  BY <1>4 DEF ReadInv
<1> DEFINE guardKeeps == op[r].req.kind = "apply" /\ op[r].outcome = "guarded" /\ journal[r] # None
           added == op[r].req.kind \in {"recover", "commit"} \/ guardKeeps
  \* What the new journal says of mutation and commit.
<1>7. /\ added => /\ journal[r] \in Journal
                  /\ NewJournal(r).mutated = journal[r].mutated
                  /\ journal[r].committed \/ op[r].req.kind = "commit" => NewJournal(r).committed
      /\ ~added => NewJournal(r).mutated = op[r].mutated
  <2>1. added => journal[r] \in Journal
    BY <1>1, <1>2 DEF CallInv
  <2>3. CASE op[r].req.kind = "recover"
    BY <2>1, <2>3 DEF NewJournal, Journal
  <2>4. CASE op[r].req.kind = "commit"
    BY <2>1, <2>4 DEF NewJournal, Journal
  <2>5. CASE guardKeeps
    BY <2>1, <2>5 DEF NewJournal, Journal
  <2>6. CASE ~added
    BY <2>6 DEF NewJournal, FreshJournal
  <2> QED BY <2>1, <2>3, <2>4, <2>5, <2>6
<1>8. PromiseInv(r)'
  <2>1. r \in promised' => r \in manifest.entries
    BY <1>1, JournalPromises DEF PromiseInv
  <2>2. r \in promised' => Kept(r) \/ Final(r)'
    BY <1>1, <1>2, <1>3, <1>7, TransactionAssumption DEF PromiseInv, Final
  <2> QED BY <1>2, <1>4, <2>1, <2>2 DEF PromiseInv, Kept
<1>9. PresentInv(r)'
  <2>1. NewJournal(r).mutated /\ preflight[r] # None /\ preflight[r].status = "no_recovery_required"
          => r \in manifest.entries
    BY <1>1, <1>7, TransactionAssumption DEF PresentInv
  <2> QED BY <1>2, <1>3, <1>4, <2>1 DEF PresentInv, Committing
<1>10. RootInv(r)'
  BY <1>5, <1>6, <1>8, <1>9 DEF RootInv
<1> QED BY <1>2, <1>3, <1>10, OneRoot

-----------------------------------------------------------------------------
\* Every step keeps the invariant.
LEMMA SerialNext == Serial /\ SerialInv /\ [Next]_vars => SerialInv'
<1> SUFFICES ASSUME Serial, SerialInv, [Next]_vars PROVE SerialInv'
  OBVIOUS
<1>1. DeliveryInv'
  BY NextInv DEF SerialInv
<1>2. ASSUME NEW r \in Roots, Begin(r) PROVE SerialInv'
  <2>1. profile \in Profile
    BY TransactionAssumption DEF SerialInv, DeliveryInv, TypeOK
  <2> QED BY <1>1, <1>2, <2>1, RequestsOK, SerialCall DEF Begin
<1>3. ASSUME NEW r \in Roots, Step(r) PROVE SerialInv'
  BY <1>1, <1>3, QuietSteps, EndSteps, MutationKept, PreflightKept, RecoverKept, RestoreKept, JournalKept DEF Step
<1>4. CASE UNCHANGED vars
  <2>1. Alone'
    BY <1>4 DEF SerialInv, Alone, vars
  <2>2. ASSUME NEW s \in Roots PROVE RootInv(s)'
    <3>1. RootInv(s)
      BY DEF SerialInv
    <3>2. UNCHANGED <<manifest, op, journal, mutation, rollback, preflight, promised>>
      BY <1>4 DEF vars, files, records, history
    <3> QED BY <3>1, <3>2 DEF RootInv, RecordInv, ReadInv, PromiseInv, PresentInv, PatchedManifest, RecoveryAllowed,
                RecoveryReady, Kept, Final, Committing
  <2> QED BY <1>1, <2>1, <2>2 DEF SerialInv
<1> QED BY <1>1, <1>2, <1>3, <1>4, EndSteps DEF Next

\* It holds at the start.
LEMMA SerialInit == Init => SerialInv
<1> SUFFICES ASSUME Init PROVE SerialInv
  OBVIOUS
<1>1. \A r \in Roots : op[r] = Idle
  BY DEF Init
<1>2. Alone
  BY <1>1 DEF Alone, Idle
<1>3. \A r \in Roots : RootInv(r)
  BY <1>1 DEF Init, RootInv, RecordInv, ReadInv, PromiseInv, PresentInv, Committing, Idle
<1> QED BY <1>2, <1>3, InitInv DEF SerialInv

LEMMA SerialInvariance == Serial => (Spec => []SerialInv)
<1> SUFFICES ASSUME Serial PROVE Spec => []SerialInv
  OBVIOUS
<1>1. SerialInv /\ [Next]_vars => SerialInv'
  BY SerialNext
<1> QED BY <1>1, SerialInit, PTL DEF Spec

-----------------------------------------------------------------------------
\* Which steps write the manifest and the promises.
LEMMA Writers ==
  ASSUME [Next]_vars
  PROVE  \/ UNCHANGED <<manifest, promised>>
         \/ \E r \in Roots : WriteManifest(r) \/ Restore(r) \/ WriteJournal(r)
  BY DEF Next, Step, Begin, Call, Copy, Patch, Check, Digest, Deliver, WriteMutationRecord, WriteResult, Raise,
         RecoveryPreflight, Recover, Commit, WriteTerminalRecord, Crash, TearJournal, vars, history

\* A write publishes the entries of its root on the manifest as it is.
LEMMA WritePublishes ==
  ASSUME SerialInv, NEW r \in Roots, WriteManifest(r)
  PROVE  manifest' = PatchedManifest(r, manifest) /\ promised' = promised
  BY DEF SerialInv, RootInv, ReadInv, WriteManifest, history

\* A step changes the call of one root.
LEMMA OneCall ==
  ASSUME DeliveryInv, NEW r \in Roots, Begin(r) \/ Step(r) \/ Crash(r) \/ TearJournal(r)
  PROVE  \A s \in Roots \ {r} : op'[s] = op[s]
<1>1. op \in [Roots -> Op]
  BY DEF DeliveryInv, TypeOK
<1>2. \E o : op' = [op EXCEPT ![r] = o]
  <2>1. CASE Begin(r)
    BY <2>1 DEF Begin, Call
  <2>2. CASE Step(r)
    BY <2>2 DEF Step, Copy, Patch, Check, WriteManifest, Digest, Deliver, WriteMutationRecord, WriteResult, Raise,
         RecoveryPreflight, Recover, Refuse, Restore, Commit, WriteTerminalRecord, WriteJournal, Goto, Done
  <2>3. CASE Crash(r) \/ TearJournal(r)
    BY <2>3 DEF Crash, TearJournal, Done
  <2> QED BY <2>1, <2>2, <2>3
<1> QED BY <1>1, <1>2

\* What a step of the call of r does to the manifest.
LEMMA CallEffect ==
  ASSUME SerialInv, [Next]_vars, NEW r \in Roots, op'[r] # op[r]
  PROVE  \/ manifest' = manifest
         \/ manifest' = PatchedManifest(r, manifest)
         \/ Restore(r)
<1>1. DeliveryInv
  BY DEF SerialInv
<1>2. PICK s \in Roots : Begin(s) \/ Step(s) \/ Crash(s) \/ TearJournal(s)
  BY DEF Next, vars
<1>3. s = r
  BY <1>1, <1>2, OneCall
<1>4. manifest' = manifest \/ WriteManifest(r) \/ Restore(r)
  BY <1>2, <1>3 DEF Step, Begin, Call, Copy, Patch, Check, Digest, Deliver, WriteMutationRecord, WriteResult, Raise,
         RecoveryPreflight, Recover, Commit, WriteTerminalRecord, WriteJournal, Crash, TearJournal
<1> QED BY <1>4, WritePublishes

\* Called one at a time, a recovery undoes a mutation of its own root, whatever
\* crashed before it and however many deliveries, roots and retries there were.
THEOREM RecoveryUndoes == Serial => (Spec => RecoveryUndoesMutation)
<1> SUFFICES ASSUME Serial PROVE Spec => RecoveryUndoesMutation
  OBVIOUS
<1>1. ASSUME SerialInv, [Next]_vars, NEW r \in Roots, op[r].pc = "restore", op'[r].pc = "terminal_record"
      PROVE  PatchedManifest(r, manifest') = manifest
  <2>1. PICK s \in Roots : Begin(s) \/ Step(s) \/ Crash(s) \/ TearJournal(s)
    BY <1>1 DEF Next, vars
  <2>2. s = r /\ op \in [Roots -> Op]
    BY <1>1, <2>1, OneCall DEF SerialInv, DeliveryInv, TypeOK
  <2>3. Restore(r)
    <3>1. ~Begin(r)
      BY <1>1 DEF Begin, Call
    <3>2. ~(Raise(r) \/ Crash(r) \/ TearJournal(r))
      <4>1. Idle.pc # "terminal_record"
        BY DEF Idle
      <4> QED BY <1>1, <2>2, <4>1 DEF Raise, Crash, TearJournal, Done
    <3> QED BY <1>1, <2>1, <2>2, <3>1, <3>2 DEF Step, Copy, Patch, Check, WriteManifest, Digest, Deliver,
            WriteMutationRecord, WriteResult, RecoveryPreflight, Recover, Commit, WriteTerminalRecord, WriteJournal
  <2> QED BY <1>1, <2>3, RestoreUndoes
<1>2. SerialInv /\ [Next]_vars =>
        [\A r \in Roots : op[r].pc = "restore" /\ op'[r].pc = "terminal_record" =>
           PatchedManifest(r, manifest') = manifest]_vars
  BY <1>1
<1> QED BY <1>2, SerialInvariance, PTL DEF Spec, RecoveryUndoesMutation

\* Called one at a time, no root drops the entries of another from the manifest
\* they share: neither its mutation nor its recovery.
THEOREM ForeignEntriesKept == Serial => (Spec => NoForeignEntryLost)
<1> SUFFICES ASSUME Serial PROVE Spec => NoForeignEntryLost
  OBVIOUS
<1>1. ASSUME SerialInv, [Next]_vars, NEW r \in Roots, op'[r] # op[r]
      PROVE  manifest.entries \ manifest'.entries \subseteq {r}
  BY <1>1, CallEffect, RestoreUndoes DEF PatchedManifest
<1>2. SerialInv /\ [Next]_vars =>
        [\A r \in Roots : op'[r] # op[r] => manifest.entries \ manifest'.entries \subseteq {r}]_vars
  BY <1>1
<1> QED BY <1>2, SerialInvariance, PTL DEF Spec, NoForeignEntryLost

\* Called one at a time, the entries of a committed mutation stay in the
\* manifest, through crashes, torn journals, retries and recoveries.
THEOREM CommitsStay == Serial => (Spec => []CommittedEntriesStay)
<1> SUFFICES ASSUME Serial PROVE Spec => []CommittedEntriesStay
  OBVIOUS
<1>1. SerialInv => CommittedEntriesStay
  BY DEF SerialInv, DeliveryInv, TypeOK, RootInv, PromiseInv, CommittedEntriesStay
<1> QED BY <1>1, SerialInvariance, PTL

-----------------------------------------------------------------------------
\* A write publishes, a restore withdraws, the journal of a commit promises, and
\* every other step stutters.
LEMMA StepsPromise ==
  ASSUME SerialInv, [Next]_vars
  PROVE  [Contract!Next]_(Contract!vars)
<1>1. CASE UNCHANGED <<manifest, promised>>
  BY <1>1 DEF Contract!vars
<1>2. ASSUME NEW r \in Roots, WriteManifest(r) PROVE Contract!Next
  <2>1. Contract!Publish(r)
    BY <1>2, WritePublishes DEF Contract!Publish, Contract!Published, PatchedManifest
  <2> QED BY <2>1 DEF Contract!Next
<1>3. ASSUME NEW r \in Roots, Restore(r) PROVE Contract!Next
  <2>1. Contract!Withdraw(r)
    BY <1>3, RestoreUndoes DEF Contract!Withdraw, Contract!Published, Contract!Manifest, PatchedManifest, Manifest,
       Restore, history
  <2> QED BY <2>1 DEF Contract!Next
<1>4. ASSUME NEW r \in Roots, WriteJournal(r) PROVE [Contract!Next]_(Contract!vars)
  <2>1. manifest' = manifest
    BY <1>4 DEF WriteJournal
  <2>2. CASE promised' = promised
    BY <2>1, <2>2 DEF Contract!vars
  <2>3. CASE promised' # promised
    <3>1. Contract!Promise(r)
      BY <1>4, <2>1, <2>3, JournalPromises DEF Contract!Promise
    <3> QED BY <3>1 DEF Contract!Next
  <2> QED BY <2>2, <2>3
<1> QED BY <1>1, <1>2, <1>3, <1>4, Writers

\* Called one at a time, the deliveries to roots that share a manifest implement
\* SharedManifest: in spite of the separate files and of the crashes between
\* them, publications and withdrawals are atomic and promises are kept.
THEOREM RefinesSharedManifest == Serial => (Spec => ImplementsSharedManifest)
<1> SUFFICES ASSUME Serial PROVE Spec => ImplementsSharedManifest
  OBVIOUS
<1>1. Init => Contract!Init
  BY DEF Init, Contract!Init
<1>2. SerialInv /\ [Next]_vars => [Contract!Next]_(Contract!vars)
  BY StepsPromise
<1> QED BY <1>1, <1>2, SerialInvariance, PTL DEF Spec, ImplementsSharedManifest, Contract!Spec

-----------------------------------------------------------------------------
\* What the abstract manifest is worth to the roots that share it: whatever is
\* promised is there, and nobody but the last publisher's entries ever leave.
\* The executor has both by RefinesSharedManifest.
THEOREM ManifestContract ==
  Contract!Spec => []Contract!PromisesKept /\ Contract!OnlyOwnWithdrawn
<1>1. Contract!Init => Contract!PromisesKept
  BY DEF Contract!Init, Contract!PromisesKept
<1>2. Contract!PromisesKept /\ [Contract!Next]_(Contract!vars) => Contract!PromisesKept'
  <2> SUFFICES ASSUME Contract!PromisesKept, [Contract!Next]_(Contract!vars)
               PROVE  Contract!PromisesKept'
    OBVIOUS
  <2>1. CASE UNCHANGED Contract!vars
    BY <2>1 DEF Contract!vars, Contract!PromisesKept
  <2>2. ASSUME NEW r \in Roots, Contract!Publish(r) \/ Contract!Withdraw(r) \/ Contract!Promise(r)
        PROVE  Contract!PromisesKept'
    BY <2>2 DEF Contract!Publish, Contract!Withdraw, Contract!Promise, Contract!Published, Contract!PromisesKept
  <2> QED BY <2>1, <2>2 DEF Contract!Next
<1>3. [Contract!Next]_(Contract!vars) =>
        [manifest.entries \ manifest'.entries \subseteq {manifest.policy}]_(Contract!vars)
  <2> SUFFICES ASSUME NEW r \in Roots,
                      Contract!Publish(r) \/ Contract!Withdraw(r) \/ Contract!Promise(r)
               PROVE  manifest.entries \ manifest'.entries \subseteq {manifest.policy}
    BY DEF Contract!Next
  <2>1. CASE Contract!Publish(r) \/ Contract!Promise(r)
    BY <2>1 DEF Contract!Publish, Contract!Promise, Contract!Published
  <2>2. CASE Contract!Withdraw(r)
    <3>1. PICK m \in Contract!Manifest : Contract!Published(r, m) = manifest /\ manifest' = m
      BY <2>2 DEF Contract!Withdraw
    <3>2. manifest.entries = m.entries \union {r} /\ manifest.policy = r
      BY <3>1 DEF Contract!Published
    <3> QED BY <3>1, <3>2
  <2> QED BY <2>1, <2>2
<1> QED BY <1>1, <1>2, <1>3, PTL DEF Contract!Spec, Contract!OnlyOwnWithdrawn
=============================================================================
