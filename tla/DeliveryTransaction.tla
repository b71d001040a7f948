------------------------- MODULE DeliveryTransaction -------------------------
(***************************************************************************)
(* LocalDeliveryExecutor.execute (delivery/executors.py) over the files it  *)
(* keeps: in each delivery root the artifact copies, the transaction        *)
(* journal, the in-place mutation record, the rollback checkpoint, the      *)
(* recovery preflight, the two terminal records and the external delivery   *)
(* result; and, shared by all roots, the backend artifact manifest.         *)
(*                                                                         *)
(* One call of execute is a sequence of steps in the order of the code; the *)
(* journal is written last, and the process may die between any two steps.  *)
(* A digest stands for the content it is taken from.  Each root serves one  *)
(* transaction id, so the checks that compare ids always pass.  The         *)
(* optional transaction lock (require_transaction_lock) is off, which is    *)
(* its default.  A crash may leave the journal torn, a file that does not   *)
(* parse and that every reader raises on; the other files are written in    *)
(* one step.                                                                *)
(***************************************************************************)
EXTENDS Naturals, FiniteSets

CONSTANTS
  Roots,     \* delivery roots that share one backend manifest
  Profiles,  \* what the callers may ask for: see Profile
  Crashes,   \* whether a process may die inside a call
  None,      \* no file, no content
  Torn       \* a file that was truncated and not filled

\* The roots in use, the values callers give request_external_delivery,
\* allow_duplicate_external_delivery and overwrite, and two bounds: the calls in
\* flight at once and the deliveries asked for in all.
Profile ==
  [roots : SUBSET Roots, external : SUBSET BOOLEAN, allow : SUBSET BOOLEAN,
   overwrite : SUBSET BOOLEAN, inFlight : Nat, deliveries : Nat]

VARIABLES
  profile,    \* the profile of this deployment; it never changes
  manifest,   \* backend-artifact-manifest.json
  delivered,  \* per root: the artifact copy is there
  journal,    \* per root: delivery-transaction-journal.json
  mutation,   \* per root: the in-place mutation record
  rollback,   \* per root: the rollback checkpoint
  preflight,  \* per root: the recovery preflight record
  terminal,   \* per root: the recovery and the commit record
  result,     \* per root: external-delivery-result.json
  guarded,    \* roots with a delivery-transaction-idempotency-guard.json
  op,         \* per root: the call in progress
  deliveries, \* deliveries asked for so far
  promised,   \* history: roots whose journal committed a mutated manifest
  sent        \* history: roots with a recorded external delivery

records == <<delivered, journal, mutation, rollback, preflight, terminal, result>>
files == <<records, guarded>>
history == <<promised, sent>>
vars == <<profile, manifest, files, op, deliveries, history>>

\* A manifest holds the entries of the artifacts of some roots, whose keys are
\* distinct, and what the last mutation stamped on it: its mutation_policy block
\* and the entries of its own records, whose keys are the same for every root.
Manifest == [entries : SUBSET Roots, policy : Roots \union {None}]
MaybeManifest == Manifest \union {None}

Journal ==
  [mutated : BOOLEAN, external : BOOLEAN, recovered : BOOLEAN, committed : BOOLEAN,
   resultPath : {"none", "result", "guard"}]

ASSUME TransactionAssumption ==
  /\ Profiles \subseteq Profile
  /\ Crashes \in BOOLEAN
  /\ IsFiniteSet(Roots)
  /\ None # Torn
  /\ None \notin Manifest
  /\ None \notin Journal /\ Torn \notin Journal

MutationRecord == [pre : Manifest, post : MaybeManifest]

Preflight ==
  [status : {"ready_for_review", "no_recovery_required", "blocked"},
   source : Manifest, rollback : MaybeManifest]

\* The requests: deliver artifacts (copies), mutate the manifest in place,
\* deliver externally, in any combination; or one of the three operations that
\* take no artifacts.
Request ==
  [kind : {"apply", "preflight", "recover", "commit"}, copies : BOOLEAN,
   mutate : BOOLEAN, external : BOOLEAN, overwrite : BOOLEAN, allow : BOOLEAN]

Nothing ==
  [kind |-> "apply", copies |-> FALSE, mutate |-> FALSE, external |-> FALSE,
   overwrite |-> FALSE, allow |-> FALSE]

ApplyRequests ==
  {q \in [kind : {"apply"}, copies : BOOLEAN, mutate : BOOLEAN, external : profile.external,
          overwrite : profile.overwrite, allow : profile.allow] :
     /\ q.copies \/ q.external
     /\ q.mutate => q.copies
     /\ q.allow => q.external}

Requests ==
  ApplyRequests
    \union {[Nothing EXCEPT !.kind = k] : k \in {"preflight", "recover", "commit"}}

PCs ==
  {"idle", "copy", "patch", "check", "write", "digest", "deliver", "mutation_record",
   "result", "preflight", "recover", "restore", "commit", "terminal_record", "journal"}

Outcomes == {"none", "blocked", "performed", "guarded", "done"}

Op ==
  [pc : PCs, req : Request, failed : BOOLEAN, expected : MaybeManifest,
   patched : MaybeManifest, record : MutationRecord \union {None},
   mutated : BOOLEAN, outcome : Outcomes]

Idle ==
  [pc |-> "idle", req |-> Nothing, failed |-> FALSE, expected |-> None,
   patched |-> None, record |-> None, mutated |-> FALSE, outcome |-> "none"]

Init ==
  /\ profile \in Profiles
  /\ manifest = [entries |-> {}, policy |-> None]
  /\ delivered = [r \in Roots |-> FALSE]
  /\ journal = [r \in Roots |-> None]
  /\ mutation = [r \in Roots |-> None]
  /\ rollback = [r \in Roots |-> None]
  /\ preflight = [r \in Roots |-> None]
  /\ terminal = [r \in Roots |-> [recovery |-> "none", commit |-> "none"]]
  /\ result = [r \in Roots |-> "none"]
  /\ guarded = {}
  /\ op = [r \in Roots |-> Idle]
  /\ deliveries = 0
  /\ promised = {}
  /\ sent = {}

-----------------------------------------------------------------------------
Goto(r, pc) == op' = [op EXCEPT ![r].pc = pc]
Done(r) == op' = [op EXCEPT ![r] = Idle]

\* execute is called; the reviewer computed expected_backend_manifest_digest
\* from the manifest as it is now.
Call(r, q) ==
  /\ r \in profile.roots
  /\ op[r].pc = "idle"
  /\ Cardinality({s \in Roots : op[s].pc # "idle"}) < profile.inFlight
  /\ q.kind = "apply" => deliveries < profile.deliveries
  /\ deliveries' = IF q.kind = "apply" THEN deliveries + 1 ELSE deliveries
  /\ op' = [op EXCEPT ![r] =
       [Idle EXCEPT !.pc = IF q.kind = "apply" THEN "copy" ELSE q.kind,
                    !.req = q,
                    !.expected = IF q.mutate THEN manifest ELSE None]]
  /\ UNCHANGED <<profile, manifest, files, history>>

Begin(r) == \E q \in Requests : Call(r, q)

\* Where an apply goes once the manifest is dealt with, and once the provider
\* has answered: records first, the journal last, none of it when the copy
\* failed except the provider's result.
AfterManifest(q, failed, recorded) ==
  IF q.external THEN "deliver"
  ELSE IF recorded THEN "mutation_record"
  ELSE IF failed THEN "idle"
  ELSE "journal"

\* The artifacts are copied; one that is already there is an error unless
\* overwrite is set.
CopyFails(r) == op[r].req.copies /\ delivered[r] /\ ~op[r].req.overwrite

Copy(r) ==
  /\ op[r].pc = "copy"
  /\ LET q == op[r].req
         next == IF q.mutate /\ ~CopyFails(r) THEN "patch"
                 ELSE AfterManifest(q, CopyFails(r), FALSE)
     IN  op' = [op EXCEPT ![r] =
           IF next = "idle" THEN Idle ELSE [@ EXCEPT !.pc = next, !.failed = CopyFails(r)]]
  /\ delivered' = [delivered EXCEPT ![r] = @ \/ op[r].req.copies]
  /\ UNCHANGED <<profile, manifest, journal, mutation, rollback, preflight, terminal, result, guarded, deliveries, history>>

\* The patched manifest: the entries read, the root's own, its stamp.
PatchedManifest(r, m) == [entries |-> m.entries \union {r}, policy |-> r]

Patch(r) ==
  /\ op[r].pc = "patch"
  /\ op' = [op EXCEPT ![r].pc = "check", ![r].patched = PatchedManifest(r, manifest)]
  /\ UNCHANGED <<profile, manifest, files, deliveries, history>>

\* expected_source_manifest_digest_matches_current
DigestMatches(r) == op[r].expected = manifest

\* The digest is compared and the rollback checkpoint copied; a mismatch is
\* recorded and leaves the manifest alone.
Check(r) ==
  /\ op[r].pc = "check"
  /\ \/ /\ DigestMatches(r)
        /\ rollback' = [rollback EXCEPT ![r] = manifest]
        /\ op' = [op EXCEPT ![r].pc = "write", ![r].record = [pre |-> manifest, post |-> None]]
     \/ /\ ~DigestMatches(r)
        /\ op' = [op EXCEPT ![r].pc = AfterManifest(op[r].req, FALSE, TRUE),
                            ![r].record = [pre |-> manifest, post |-> None]]
        /\ UNCHANGED rollback
  /\ UNCHANGED <<profile, manifest, delivered, journal, mutation, preflight, terminal, result, guarded, deliveries, history>>

WriteManifest(r) ==
  /\ op[r].pc = "write"
  /\ manifest' = op[r].patched
  /\ Goto(r, "digest")
  /\ UNCHANGED <<profile, files, deliveries, history>>

\* post_mutation_digest is taken from the file after it was written.
Digest(r) ==
  /\ op[r].pc = "digest"
  /\ op' = [op EXCEPT ![r].pc = AfterManifest(op[r].req, FALSE, TRUE),
                      ![r].record.post = manifest,
                      ![r].mutated = TRUE]
  /\ UNCHANGED <<profile, manifest, files, deliveries, history>>

\* _read_json_object raises on a torn journal, and the call ends where it is.
ReadsTorn(r) ==
  /\ journal[r] = Torn
  /\ \/ op[r].pc \in {"preflight", "recover", "commit"}
     \/ op[r].pc = "deliver" /\ ~op[r].req.allow

Raise(r) ==
  /\ ReadsTorn(r)
  /\ Done(r)
  /\ UNCHANGED <<profile, manifest, files, deliveries, history>>

\* _build_external_delivery_duplicate_guard: the prior result is the file the
\* journal names, or the configured one when the journal names none.
PriorPerformed(r) ==
  \/ journal[r] # None /\ journal[r].external
  \/ /\ result[r] = "performed"
     /\ ~(journal[r] # None /\ journal[r].resultPath = "guard")

\* provider.deliver, which refuses a package with local errors.
Deliver(r) ==
  /\ op[r].pc = "deliver"
  /\ ~ReadsTorn(r)
  /\ \E outcome \in
         IF ~op[r].req.allow /\ PriorPerformed(r) THEN {"guarded"}
         ELSE IF op[r].failed THEN {"blocked"}
         ELSE {"blocked", "performed"} :
       op' = [op EXCEPT ![r].outcome = outcome,
                        ![r].pc = IF op[r].record # None THEN "mutation_record" ELSE "result"]
  /\ UNCHANGED <<profile, manifest, files, deliveries, history>>

WriteMutationRecord(r) ==
  /\ op[r].pc = "mutation_record"
  /\ mutation' = [mutation EXCEPT ![r] = op[r].record]
  /\ Goto(r, IF op[r].req.external THEN "result" ELSE "journal")
  /\ UNCHANGED <<profile, manifest, delivered, journal, rollback, preflight, terminal, result, guarded, deliveries, history>>

\* A guarded request writes its own guard record and keeps the result.
WriteResult(r) ==
  /\ op[r].pc = "result"
  /\ IF op[r].outcome = "guarded"
       THEN UNCHANGED <<result, sent>>
       ELSE /\ result' = [result EXCEPT ![r] = op[r].outcome]
            /\ sent' = IF op[r].outcome = "performed" THEN sent \union {r} ELSE sent
  /\ IF op[r].failed THEN Done(r) ELSE Goto(r, "journal")
  /\ UNCHANGED <<profile, manifest, delivered, journal, mutation, rollback, preflight, terminal,
                 guarded, deliveries, promised>>

-----------------------------------------------------------------------------
ManifestUncompared(r) ==
  mutation[r] # None /\ rollback[r] # None /\ rollback[r] = mutation[r].pre

\* _build_backend_manifest_recovery_preflight.  It records the checkpoint of a
\* mutation only: no other is ever compared with.
MutationTraceable(r) ==
  /\ mutation[r] # None
  /\ rollback[r] # None
  /\ rollback[r] = mutation[r].pre
  /\ manifest = mutation[r].post

PreflightStatus(r) ==
  IF \/ journal[r] = None
     \/ journal[r].external
     \/ journal[r].committed
     \/ journal[r].mutated /\ ~MutationTraceable(r)
    THEN "blocked"
  ELSE IF journal[r].mutated THEN "ready_for_review"
  ELSE "no_recovery_required"

RecoveryPreflight(r) ==
  /\ op[r].pc = "preflight"
  /\ ~ReadsTorn(r)
  /\ preflight' = [preflight EXCEPT ![r] =
       [status   |-> PreflightStatus(r),
        source   |-> manifest,
        rollback |-> IF PreflightStatus(r) = "ready_for_review" THEN rollback[r] ELSE None]]
  /\ Done(r)
  /\ UNCHANGED <<profile, manifest, delivered, journal, mutation, rollback, terminal, result, guarded, deliveries, history>>

\* source_matches_recovery_preflight_digest, rollback_digest_matches_...
RecoveryReady(r) ==
  /\ journal[r] # None
  /\ journal[r].mutated
  /\ ~journal[r].external /\ ~journal[r].committed /\ ~journal[r].recovered
  /\ preflight[r] # None
  /\ preflight[r].status = "ready_for_review"

SourceUnchecked(r) == RecoveryReady(r) /\ rollback[r] # None
RecoveryAllowed(r) ==
  /\ RecoveryReady(r)
  /\ preflight[r].source = manifest
  /\ rollback[r] # None
  /\ preflight[r].rollback = rollback[r]

StatusUnchecked(r) ==
  /\ journal[r] # None
  /\ ~journal[r].external /\ ~journal[r].committed
  /\ preflight[r] # None
  /\ preflight[r].source = manifest
CommitAllowed(r) ==
  /\ journal[r] # None
  /\ ~journal[r].external /\ ~journal[r].committed
  /\ preflight[r] # None
  /\ preflight[r].status # "blocked"
  /\ preflight[r].source = manifest
  /\ journal[r].mutated => rollback[r] # None

\* _build_transaction_idempotency_guard, for an operation that did not succeed:
\* it leaves the terminal record of an earlier success alone, and says so in a
\* guard file of its own.
GuardsOnJournalOnly(flag, record) == flag
Guarded(flag, record) == flag \/ record = "done"

Refuse(r, flag, record) ==
  IF Guarded(flag, record)
    THEN Done(r) /\ guarded' = guarded \union {r}
    ELSE /\ op' = [op EXCEPT ![r].pc = "terminal_record", ![r].outcome = "blocked"]
         /\ UNCHANGED guarded

Recover(r) ==
  /\ op[r].pc = "recover"
  /\ ~ReadsTorn(r)
  /\ IF RecoveryAllowed(r)
       THEN Goto(r, "restore") /\ UNCHANGED guarded
       ELSE Refuse(r, journal[r] # None /\ journal[r].recovered, terminal[r].recovery)
  /\ UNCHANGED <<profile, manifest, records, deliveries, history>>

\* shutil.copy2(rollback_path, source_manifest_path)
Restore(r) ==
  /\ op[r].pc = "restore"
  /\ manifest' = rollback[r]
  /\ op' = [op EXCEPT ![r].pc = "terminal_record", ![r].outcome = "done"]
  /\ UNCHANGED <<profile, files, deliveries, history>>

Commit(r) ==
  /\ op[r].pc = "commit"
  /\ ~ReadsTorn(r)
  /\ IF CommitAllowed(r)
       THEN op' = [op EXCEPT ![r].pc = "terminal_record", ![r].outcome = "done"] /\ UNCHANGED guarded
       ELSE Refuse(r, journal[r] # None /\ journal[r].committed, terminal[r].commit)
  /\ UNCHANGED <<profile, manifest, records, deliveries, history>>

WriteTerminalRecord(r) ==
  /\ op[r].pc = "terminal_record"
  /\ terminal' = IF op[r].req.kind = "recover"
                   THEN [terminal EXCEPT ![r].recovery = op[r].outcome]
                   ELSE [terminal EXCEPT ![r].commit = op[r].outcome]
  /\ IF op[r].outcome = "done" THEN Goto(r, "journal") ELSE Done(r)
  /\ UNCHANGED <<profile, manifest, delivered, journal, mutation, rollback, preflight, result, guarded, deliveries, history>>

-----------------------------------------------------------------------------
\* A delivery starts a journal afresh.
FreshJournalUnrecovered(o) ==
  [mutated |-> o.mutated, external |-> o.outcome = "performed", committed |-> FALSE]
FreshJournal(o) ==
  [mutated    |-> o.mutated,
   external   |-> o.outcome = "performed",
   recovered  |-> FALSE,
   committed  |-> FALSE,
   resultPath |-> IF ~o.req.external THEN "none"
                  ELSE IF o.outcome = "guarded" THEN "guard" ELSE "result"]

\* A guarded request keeps the journal there is (_journal_bool, _journal_str),
\* filling the paths it lacks; recovery and commit add their flag to it.
NewJournal(r) ==
  LET previous == journal[r]
      o == op[r]
  IN  CASE o.req.kind = "recover" -> [previous EXCEPT !.recovered = TRUE]
        [] o.req.kind = "commit" -> [previous EXCEPT !.committed = TRUE]
        [] o.req.kind = "apply" /\ o.outcome = "guarded" /\ previous # None ->
             [previous EXCEPT !.resultPath = IF @ = "none" THEN "guard" ELSE @]
        [] OTHER -> FreshJournal(o)

WriteJournal(r) ==
  /\ op[r].pc = "journal"
  /\ journal' = [journal EXCEPT ![r] = NewJournal(r)]
  /\ promised' = IF op[r].req.kind = "commit" /\ journal[r].mutated
                   THEN promised \union {r} ELSE promised
  /\ Done(r)
  /\ UNCHANGED <<profile, manifest, delivered, mutation, rollback, preflight, terminal, result,
                 guarded, deliveries, sent>>

\* One step of the call in progress.
Step(r) ==
  \/ Copy(r) \/ Patch(r) \/ Check(r) \/ WriteManifest(r) \/ Digest(r)
  \/ Deliver(r) \/ WriteMutationRecord(r) \/ WriteResult(r) \/ Raise(r)
  \/ RecoveryPreflight(r) \/ Recover(r) \/ Restore(r)
  \/ Commit(r) \/ WriteTerminalRecord(r) \/ WriteJournal(r)

\* The process dies inside the call: what it wrote stays.
Crash(r) ==
  /\ Crashes
  /\ op[r].pc # "idle"
  /\ Done(r)
  /\ UNCHANGED <<profile, manifest, files, deliveries, history>>

\* It dies inside _write_json, which truncates the journal and then fills it.
TearJournal(r) ==
  /\ Crashes
  /\ op[r].pc = "journal"
  /\ journal' = [journal EXCEPT ![r] = Torn]
  /\ Done(r)
  /\ UNCHANGED <<profile, manifest, delivered, mutation, rollback, preflight, terminal, result, guarded,
                 deliveries, history>>

Next ==
  \E r \in Roots : Begin(r) \/ Step(r) \/ Crash(r) \/ TearJournal(r)

Spec == Init /\ [][Next]_vars

-----------------------------------------------------------------------------
TypeOK ==
  /\ profile \in Profiles
  /\ manifest \in Manifest
  /\ delivered \in [Roots -> BOOLEAN]
  /\ journal \in [Roots -> Journal \union {None, Torn}]
  /\ mutation \in [Roots -> MutationRecord \union {None}]
  /\ rollback \in [Roots -> MaybeManifest]
  /\ preflight \in [Roots -> Preflight \union {None}]
  /\ terminal \in [Roots -> [recovery : Outcomes, commit : Outcomes]]
  /\ result \in [Roots -> Outcomes]
  /\ guarded \subseteq Roots
  /\ op \in [Roots -> Op]
  /\ deliveries \in 0 .. profile.deliveries
  /\ promised \subseteq Roots
  /\ sent \subseteq Roots

\* A recovery undoes a mutation of its own root and nothing else: what it puts
\* back is a content from which that mutation makes the manifest that is there
\* now.  The preflight ties the checkpoint to the mutation record, the recovery
\* ties both files to the preflight, and a crash can come between any two of them.
RecoveryUndoesMutation ==
  [][ \A r \in Roots :
        op[r].pc = "restore" /\ op'[r].pc = "terminal_record" =>
          PatchedManifest(r, manifest') = manifest ]_vars

\* No step of one root ever drops the entries of another from the shared
\* manifest: neither a mutation, nor a recovery that puts an old content back.
NoForeignEntryLost ==
  [][ \A r \in Roots :
        op'[r] # op[r] => manifest.entries \ manifest'.entries \subseteq {r} ]_vars

\* Once the journal has committed a mutated manifest, the entries of that root
\* stay in it: no later recovery, of that root or of another, takes them out.
CommittedEntriesStay == promised \subseteq manifest.entries

\* Delivered to one at a time, the manifest is what SharedManifest promises,
\* although the copies, the mutation, its records and the journal are written in
\* separate steps and a crash can end a call after any of them.
Contract == INSTANCE SharedManifest

ImplementsSharedManifest == Contract!Spec

\* The record of a successful recovery or commit is never overwritten by the
\* record of a blocked retry, crashes before the journal write included.
TerminalRecordsKept ==
  [][ \A r \in Roots :
        /\ terminal[r].recovery = "done" => terminal'[r].recovery = "done"
        /\ terminal[r].commit = "done" => terminal'[r].commit = "done" ]_vars

\* Without allow_duplicate_external_delivery the provider is not asked again
\* once the result file of the root has reported a delivery.
DuplicateExternalBlocked ==
  [][ \A r \in Roots :
        (op[r].pc = "deliver" /\ ~op[r].req.allow /\ r \in sent)
          => op'[r].outcome # "performed" ]_vars

\* A recovery is refused once a commit record says committed.
NoRecoveryAfterCommit ==
  [][ \A r \in Roots :
        op[r].pc = "restore" /\ op'[r].pc = "terminal_record" =>
          terminal[r].commit # "done" ]_vars
=============================================================================
