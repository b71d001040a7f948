# Delivery of reverse-engineering artifacts: a TLA+ model

The repository is a Python framework that captures, analyses and rebuilds the
JavaScript of a web page, and then hands the resulting artifacts over. Most of it
is a sequential pipeline over payloads. The part with a protocol (several
processes, files that outlive a crash, locks with leases, actions that must not
happen twice) is `src/src/reverse_deepagent/delivery/`, and that is what this
project models first. Paths below are relative to `src/src/reverse_deepagent/`.

## Inventory

| component | state | operations | hard behaviour | correct when |
|---|---|---|---|---|
| Lock providers (`delivery/lock_provider.py`) | a lock record (file, SQLite row or Redis key with TTL), its JSON projection | inspect, acquire, renew, release | calls that read, decide and then write while others do too; leases that end in between; crashes between the store and the projection | a live lease stays with its owner; a fencing token names one grant |
| Executor (`delivery/executors.py`, `LocalDeliveryExecutor`) | per root: copies, journal, mutation record, rollback checkpoint, recovery preflight, recovery and commit records, external result and guard record, its own transaction lock; shared: the backend manifest | deliver, mutate in place, preflight, recover, commit, deliver externally | many files, written one after the other with the journal last; several roots on one manifest; repeated requests | a recovery undoes a mutation of its own root; entries of others survive; terminal actions and external deliveries happen once |
| External providers (same file) | none of their own; a remote side | `deliver`, HTTP with retries, GitHub overwrite | lost answers, retries of what was done | a bounded number of attempts, no duplicate without review |
| State evaluator and inspector (`state_machine.py`, `inspector.py`) | none | evaluate a journal | precedence of contradictory flags | the state reported is one the records support |
| Planners (`transitions.py`, `recovery.py`, `rollback.py`, `rollback_state.py`, `rollback_writer.py`) | evidence files | plan, approve, write | decisions on records that change underneath | no plan is executable that the executor would refuse |
| Resume planner and runner (`resume.py`, `resume_runner.py`) | approvals | run one action | approvals nothing consumes | one approval, one action |
| Resume scheduler (`resume_scheduler.py`) | workflow journal, lock | run steps in order, skip completed ones | journal read at the start and rewritten at the end; crash between; lock lost half-way | a completed step is not run again; steps run under the lock |
| Registries (`delivery/registry.py`, `runtime/registry.py`, `browser/registry.py`) | factories by id | register, create, list | none concurrent | ids are unique, overrides explicit |
| Review gate, approvals (`review_gate.py`, `review_approval.py`) | approval records | evaluate, approve | stale approvals | nothing passes without the evidence |
| Paused sessions (`browser/hooks/paused_session*.py`) | none: each tool turns the review documents it is given into a new one | review, plan, report | none: nothing ties the documents together | a report claims no live control |
| Browser sessions and hooks (`browser/session.py`, `browser/hooks/manager.py`, `breakpoints.py`, `runtime/browser_lifecycle.py`) | live handles, a registry of retained pauses | start, attach, install, pause, act on a pause, close | events of the debugger arrive inside other calls | handles are released, a retained pause is the one acted on |
| Coordinator, adapters, strategies, source maps, scope, heap, timeline, evidence, rebuild, tools, CLI, doctor | payloads | pure or sequential processing | none of the above | data properties, well covered by tests |

Interactions: the agent tools and the scheduler call a lock provider and the
executor; a provider leaves its projection in the delivery root, where the
executor's fence (`_build_transaction_lock`) reads it; executor, planners, runner
and scheduler otherwise communicate only through the JSON files of the root.
`PROJECT.json` lists the hazards at their lines.

## Modules

`LockChecks` is the pure part of `RedisLockProvider` and `StoreLockProvider`, which
both implement `LeaseLock`. `DeliveryTransaction` implements `SharedManifest` when
deliveries are made one at a time, and is extended by
`TransactionState` (what the inspector says of its files), which is extended by
`ResumeWorkflow` (the tools that act on what the inspector says, by calling the
executor). `TransactionLock` and `ExternalDelivery` enlarge two steps of the
executor that `DeliveryTransaction` keeps small.

| module | models | state and actions |
|---|---|---|
| `LeaseLock` | abstract: what a lock promises when every call is atomic | `Grant`, `Extend`, `TakeOver`, `Release`, `Tick` |
| `LockChecks` | the pure part all providers share | `_base_checks` and its parts, `_next_fencing_token`, `_lease_is_past` |
| `RedisLockProvider` | the Redis provider, and the executor's fence on its token | a call is `Begin` (created_at), `Read` (GET and the checks), one of `SetIfAbsent`, `CompareSet`, `CompareDelete` (the scripts), then `Project` or `Unlink` (the JSON file); `Crash`; `Tick` moves the clock and expires the key |
| `StoreLockProvider` | the file and SQLite providers | as above, with an unconditional `Upsert`, or `Truncate` and `Fill` of the file |
| `DeliveryTransaction` | `LocalDeliveryExecutor.execute` over the files of several roots and one manifest | one program counter per root; see below |
| `SharedManifest` | abstract: what the roots that share a manifest are promised | `Publish`, `Withdraw`, `Promise` |
| `TransactionState` | inspector, state evaluator, rollback phases, resume planner; the checks of the tools | operators over the files, no action |
| `ResumeWorkflow` | resume scheduler, resume runner, recovery and rollback workflow | one job per worker; `Start...`, `SkipStep`, `LockStep`, `RunnerCheck`, `TransitionCheck`, `CallExecutor`, `ExecutorStep`, `Truncate` and `Fill` of the workflow journal; `Approve`, deliveries, crashes, `Tick` |
| `ExternalDelivery` | the HTTP providers, their retries, the service they speak to | per root: the request under way, its attempt and its answer; `Answer`, `Fault`, `ServeLate`, one action per answered stage, `Record`, `Crash` |
| `TransactionLock` | the executor's lock file of a root | apply: `Check`, `Truncate`, `Fill`, the work, `TruncateAgain`, `FillAgain`; release: `ReleaseCheck`, `Unlink`; `Raise`, `Crash`, `Tick` |
| `MC*` | instances for TLC | clients, owners, profiles, configurations, symmetry |
| `*Proofs` | the theorems below; `DeliverySerialProofs` has those about `DeliveryTransaction` that need calls to be made one at a time | |

**Lock providers.** `epoch` and `released` are history: they number the lifetimes
of the record, so that properties can speak of "the same lock" although tokens
start again at 1. `held` is the last grant a client was told of, `OwnerOf` the
owner it acts for; two clients may share one because the owner defaults to the
transaction id. `NameOwner` and `Takeover` describe the callers: the scheduler
always passes `expected_owner` on renew and release and never allows a takeover
(`resume_scheduler.py:569-584`), the tools allow both.

**Executor.** A delivery goes `Copy`, `Patch` (read the manifest, build the patched
one), `Check` (compare the digest, copy the checkpoint), `WriteManifest`,
`Digest`, `Deliver`, `WriteMutationRecord`, `WriteResult`, `WriteJournal`, leaving
out what was not asked for. `RecoveryPreflight`, `Recover`/`Restore` and `Commit` are
the calls that take no artifacts; they end in `WriteTerminalRecord` and
`WriteJournal`. `Crash` ends a call after any step, `TearJournal` in the middle of
the journal's write, and `Raise` is the exception a torn journal causes. A manifest
is the set of roots whose entries it holds plus the stamp of the last mutation: its
`mutation_policy` block and the entries every mutation replaces under the same key
(`executors.py:3564-3616`), whoever wrote them before. That is all a digest can tell
apart for two roots whose artifacts have different keys. With three or more, the
order of the entries in the file differs too: the code then refuses recoveries that
the model allows, so the model still has all of its behaviours. A profile says what
the callers of a deployment ask for. `promised` and `sent` are history variables.

**Tools.** A job holds the steps that remain, those it will skip because the journal
called them completed at its start included. It looks at the root where the code
does: when it starts, then `RunnerCheck` (the scheduler and the runner plan again and
look for the approval, `resume_runner.py:145-169`), `TransitionCheck` (the transition
executor's own inspection, `transitions.py:109-121`) and `CallExecutor` are three
steps with nothing held between them, and the executor's call then interleaves with
everything but another call on the same root. `recorded` and `overtaken` are history:
the second names the workers that last asked whether the transaction is over before
another worker wrote a commit record. The scheduler's
lock steps act on the default provider's file, with the one owner the tools use.
An approval, once in the ledger, stays there.

**External service.** GitHub and the other services are not part of the
repository; what the model assumes of them is what the code relies on: a release
whose tag exists and an asset whose name is taken are refused, an asset that is
gone cannot be deleted. Until `calm` is set the service may
answer with any error, having carried the request out or not, or carry it out
later, and processes may die.

Abstractions, each of them deliberate:

- one transaction id per root, so the id checks pass;
- in `DeliveryTransaction` the transaction lock is off, its default; the lock has
  its own module, where the work it protects is one step;
- of the executor's files the journal and the transaction lock can be torn, the
  others are written in one step; a torn shared manifest would stop every root, and
  no operation repairs it;
- comparing the digest and copying the checkpoint are one step, which hides only
  interleavings between the two, and `RecoveryPreflight` reads and writes in one;
- the expected digest is that of the manifest when the call is made; a wrong one
  behaves as a manifest changed in between;
- a recovery, commit or preflight is a call of its own, as the tools and the
  scheduler make it; the executor also accepts combinations;
- receipts, revisions, the patched copy and the idempotency ledger are written
  and not read back by the modelled operations; dry runs write nothing;
- in `ResumeWorkflow` there is one root the tools work on, and other roots only
  deliver to the same manifest;
- a root serves one executor call at a time, in `DeliveryTransaction` and so in
  `ResumeWorkflow`, although the code has no such lock unless it is asked for. Checks
  of several workers do interleave with each other's calls, but two calls on one root
  never overlap, and what is said of several workers, or of a root's records, is said
  of such calls only.

## Runs

| run | instance | shows |
|---|---|---|
| `redis_lease` | 3 clients, 2 owners, lease 2, clock to 3, 2 calls in flight, 2 lifetimes, tokens to 2 | types, unique tokens, live leases protected and never stolen, the fence admits a writer on its own grant only, and `LeaseLock` implemented, for callers like the scheduler |
| `store_lock` | both local providers, 1 call in flight, clock to 4, tokens to 3 | called one at a time they implement `LeaseLock`, truncated files and crashes included, takeovers too |
| `delivery_roots` | 2 roots on one manifest, or 1 root with every combination of options; 3 deliveries, any number of other calls, one call at a time, crashes anywhere, torn journals | a recovery undoes a mutation of its own root, no foreign entry is lost, committed entries stay, terminal records are kept, and `SharedManifest` is implemented |
| `resume_workflow` | the scheduler on 2 roots with 2 deliveries, all tools of one worker on 1 root, or runner and rollback beside another worker's runner; 4 step lists, 1 crash, lease 1, clock to 1 | the workflow journal is truthful, a committed transaction is rolled back only by a worker that was overtaken, the lock is released only when a record says the transaction is over, and a recovery workflow started again and again settles it |
| `external_delivery` | 2 roots, 3 pairs of configurations, 1 retry, 1 late request, 6 asset ids | no false result, assets leave by approval only, deliveries end, and retrying gets the package stored |
| `transaction_lock` | 3 callers, 2 owners, lease 1, clock to 3, 2 crashes, one call at a time | one tenure from acquisition to release, torn locks admit nobody, lapsed locks can be released |
| `redis_takeover_aba` | as `redis_lease`, takeovers allowed | a delayed takeover replaces a later, live lease (finding) |
| `sqlite_race` | 2 calls in flight | two acquires both succeed (finding) |
| `delivery_duplicate_external` | 1 root, no crash | a second delivery without review (finding) |
| `delivery_recover_after_commit` | 1 root, crashes | a committed transaction is rolled back (finding) |
| `delivery_shared_manifest_race` | 2 roots, both in flight | the second write drops the first root's entries (finding) |
| `resume_journal_lost_update` | 2 workers, acquire and release | the later of two overlapping runs drops the other's journal entries (finding) |

**Bounds.** Clock, tokens, lifetimes, crashes, deliveries and late requests are
counters and are cut at the values above.

- Providers: a lease of 2 can be taken, renewed, outlived and taken again by another
  client in the second lifetime, while a third call is delayed across any of it.
  Two calls in flight are enough for every conflict between a reader and a writer;
  more only adds bystanders.
- Executor: only deliveries are counted; preflights, recoveries and commits are
  unlimited. Three deliveries let a root deliver, another deliver, and the first
  deliver again.
- Tools: one crash loses a record and the next run meets what it left; the clock
  lets a lease of 1 be granted, renewed in time, run out, be refused a renewal and
  be taken again. Two deliveries let the other root move the manifest on between
  preflight and recovery. Runs of the tools themselves are not bounded. With two
  workers, the commit of one comes between any two steps of the other, dies before
  its journal or not, and the other is the runner or the rollback workflow, the two
  ways to a recovery that ask before they restore.
- External delivery: `MaxId` exceeds what anybody can remember at once (an
  assumption the proofs use too), so a new asset never gets an id somebody still
  means another asset by. The pairs are those in which the roots get in each other's
  way: a careful one beside one that does not look, one whose approval names an id
  beside one that goes on over an existing asset, one that replaces beside a webhook,
  and those two may deliver again what is on record as performed, as a reviewed
  duplicate or a journal that names the guard record lets them.
- Transaction lock: the clock goes past two leases, so a lock can lapse, be
  released and be taken by another owner, with two crashes on the way. One call at
  a time is the case the code is written for: nothing is held between the check
  and the write.

Clients that act for one owner, and roots, are interchangeable: the symmetry is
used in runs without liveness only. Two runs do not check for deadlock, because the
system may be done: in `external_delivery` when every delivery is recorded and the
service is calm, in `resume_workflow` when the scheduler has no step left that its
planner allows and no delivery is to come.

**Fairness.** A process that lives goes on with the call it is in (`JobStep`,
`DeliveryStep`, the executor's `Progress`), and every HTTP attempt ends, because
`urlopen` is given a timeout. Nobody is obliged to start a tool, approve a step,
let time pass or keep the service free of faults. The liveness properties say so:
`Settles`, `RetriesDeliver` and `StaleLockIsReleased` speak of behaviours in which
somebody starts the operation again and again, and `RetriesDeliver` of those in
which the faults end. The lock providers have no liveness property: a call that
loses a race is refused and its caller decides whether to try again.

## Proofs

Every theorem holds for any values of the constants that satisfy the named
assumptions of the modules; TLC evaluates those on every run.

| module | theorem | under | states |
|---|---|---|---|
| `RedisLockProviderProofs` | `TypeCorrect`, `FencingTokensUnique` | | types; one token, one grant within a lifetime |
| | `FenceAdmitsOwn` | | the fence admits a writer on its own grant only, within a lifetime of the key |
| | `LeaseProtects`, `NoSteal`, `RefinesLeaseLock` | callers name their owner and never take over | live leases are in force, are not replaced, and the provider implements `LeaseLock` |
| `StoreLockProviderProofs` | `StoreTypes` | | types |
| | `SerialTokensUnique`, `SerialLeaseProtects`, `SerialRefinesLeaseLock` | one call in flight; for the last two, callers name their owner | the same for the file and SQLite providers, crashes included |
| `DeliveryTransactionProofs` | `DeliveryTypes`, `TerminalRecordsStay` | | types; a success on record is not replaced by a refusal, for any interleaving of any roots |
| `DeliverySerialProofs` | `RecoveryUndoes`, `ForeignEntriesKept`, `CommitsStay` | `Serial` | what `delivery_roots` shows of the manifest, for any number of roots, deliveries and crashes |
| | `RefinesSharedManifest` | `Serial` | the executor implements `SharedManifest` |
| | `ManifestContract` | | and `SharedManifest` keeps what is promised and lets nobody withdraw but the last publisher |
| `ResumeWorkflowProofs` | `ResumeTypes` | | types |
| | `ToolsImplementExecutor` | | the tools implement `DeliveryTransaction`'s `Spec`: each step of theirs is a step of the executor or leaves its files alone |
| | `ToolsKeepManifest` | `Serial` | so they implement `SharedManifest` too, whatever mix of them drives a root |
| | `JournalIsTruthful` | `OneWorker` | the workflow journal claims no recovery or commit without a record |
| | `CommittedStays` | | any number of workers, calls that do not overlap: only a worker overtaken by another's commit record rolls it back |
| | `CommittedStaysAlone` | `OneWorker` | so no tool but the recovery tool ever does |
| `ExternalDeliveryProofs` | `ExternalTypes`, `ResultsAreTrue`, `DeletionsAreApproved` | | for any number of roots, configurations, retries and late requests |
| `TransactionLockProofs` | `LockTypes` | | types |
| | `OneTenureHolds`, `TornLockStays` | one call in flight | |

`Serial` says that every profile makes its calls one at a time, which is what the
transaction lock is for. The runs `redis_takeover_aba`, `sqlite_race` and
`delivery_shared_manifest_race` are counterexamples without the hypotheses. The inductive invariants, and what each adds:

- `TypeInv`: at each program counter the fields the next step uses are there.
- `TokenInv` (Redis): every grant of the key's present lifetime has a token no larger
  than the key's, no grant belongs to a lifetime to come, and a write in waiting
  carries the token after the one it compares with, so a compare that succeeds
  writes a token above all of that lifetime.
- `FenceInv` (Redis): with `TokenInv`, the JSON projection is of no later lifetime than
  the key's and its token no larger than the key's in that lifetime, so that no later
  grant can have its number, and a grant that has it is the one projected.
- `LeaseInv` (Redis): a record's lease never outlasts the key's TTL, a pending write
  or delete was checked against a record of the caller's own owner, and grants in
  force belong to the key's lifetime.
- `SerialInv` (local providers): one call at a time, what it waits to write was
  computed from the record as it still is, and the grants agree with the record.
- `SerialInv` (transaction lock): one call at a time, the history variable agrees
  with every lock that is not torn, and the record a call is going to write carries
  on the tenure it found.
- `DeliveryInv` (executor): an operation on its way to a terminal record of failure
  has seen no success there, and a success is written by the operation it is of;
  hence the guard's look at the record cannot be out of date.
- `SerialInv` (executor): one call at a time. What was measured around a mutation is
  one (in the call's record, the record file and a preflight that is ready), what the
  call has read is still so, a root that was promised its entries has them in the
  manifest and in its checkpoint unless its journal allows no recovery any more, and
  entries are there before a commit can promise them. The parts need each other: a
  crash can leave a checkpoint newer than the record or a record newer than the
  journal, and only the comparisons of the preflight and of the recovery tell that
  such a mixture is not to be restored.
- `ResumeInv`: the executor's invariant, what a job has read, done and is calling is
  truthful, and at most one worker is in the executor on the root (the model's limit).
  `ToolsImplementExecutor` comes first, so that all that is known of the executor's
  steps can be used.
- `SettleInv`: a job that has asked and may still restore (a rollback under way, a
  recovery of the scheduler or the runner past its check) has no commit on record, or
  its worker was overtaken. A commit record is written by the call of a commit, which
  a worker makes, and no worker that is about to restore is making it; so the record
  is another worker's and overtakes it.
- `DeliveryInv` (external): a DELETE under way, or still to be served, was approved
  for the id it names, and a success seen, remembered or recorded means the
  package was stored.

Only model-checked: all liveness (`Settles`, `DeliveriesEnd`, `RetriesDeliver`,
`StaleLockIsReleased`), which is beyond the prover, and `ReleaseOnlyWhenSettled`,
which is not true of every constant: nothing in the code keeps a caller from
asking for `acquire` and `release` alone. It says something of the plans a team
uses, which the instance lists. `SharedManifest` is an abstraction of the executor
only while calls are made one at a time, like the theorems it stands beside.

## Findings

Six disagreements between the code and what the repository says of it, each
shown by a violation run, quoted in `PROJECT.json`. The one that needs neither a
crash nor concurrency: deliver externally; deliver again with `overwrite` and no
external request (the journal starts afresh and forgets the result path); ask
for an external delivery (blocked, and the guard record becomes the journal's
result path); ask once more: the guard reads its own record, which says that
nothing was performed, and the provider is called a second time.

Behaviour that contradicts no statement of the repository, but that the models
show and a maintainer would want to know:

- Lock steps are completed steps like any other, so a later run skips `acquire`
  and works without the lock. A preflight that finds reasons against a recovery
  also counts as completed, and completed steps are keyed by the action: a
  transaction delivered again under its id inherits them, and the terminal
  records of the one before.
- The default plan renews a lease that has ended, and the provider always refuses it.
- After crashes a recovery may put back the content an earlier mutation of its root
  was made on, not the one the last replaced. Roots r and s share a manifest: r
  delivers; s delivers; r delivers again and makes a preflight; r delivers once more
  and dies after writing the manifest; s delivers; r delivers and dies after copying
  the checkpoint; s recovers; r recovers. The digests agree, since the manifest went
  back to an earlier content in between; what holds is that the content put back and
  a mutation of r give the present one (`RecoveryUndoesMutation`).
- The entries for the receipt and the other shared keys are replaced by each delivery
  of any root to the manifest (`executors.py:3564-3616`).
- A recovery repeated after a crash between the recovery and the journal is
  refused, and its guard record then blocks the root for every tool.
- The recovery tool does not ask whether the transaction is over; the scheduler and
  the runner ask before each step (`resume_runner.py:150-165`), the rollback workflow
  once, and nothing is held after that. Two workers: the runner of one passes its
  check for a recovery; the other's commit writes its record and dies before the
  journal (`executors.py:2562-2564`); the first inspects the root for its transition,
  which asks for no commit, and calls the executor, which reads the journal only and
  restores the manifest of the committed transaction. The rollback workflow does the
  same from its start on. `CommittedNotRolledBack` says that this is the only way.
- Two recoveries of one root that overlap, which the model does not have, can let the
  refused one overwrite the record of the one that succeeded: the guard looks for the
  record at `executors.py:2352`, the record is written at `:2562`. `JournalTruthful`
  and `TerminalRecordsKept` are true of calls that do not overlap.
- A release that was planned after a recovery goes through although another worker's
  late preflight has blocked the root since: `ReleaseOnlyWhenSettled` therefore asks
  for the record of a recovery or a commit, not for a root the planner calls settled.
- The release was created and the answer lost: without `reuse_existing_release`
  every later delivery is blocked. The upload was carried out and the answer lost:
  the retry is refused by the asset, and the result says blocked.
- With `allow_existing_asset` the upload goes on after a DELETE that failed
  (`executors.py:1171`). An approval without an expected id covers any asset of the
  name, so two such roots delete each other's.
- A torn lock file stops applies and releases alike. The lock is written a second
  time at the end of a call, whatever the file holds by then.
- Fencing tokens start again at 1 in each lifetime of the key, so a writer of an
  earlier lifetime can be admitted on the token of a later one.

## Not modelled

- **Two transaction ids on one root.** A delivery under another id does to the files
  what a second delivery under the same id does, which is modelled; on top of that
  the code compares the ids of journal and preflight, which only refuses more.
- **Torn writes of files other than the journals and the locks.** See the
  abstractions.
- **The delays between HTTP attempts, attempt summaries, `local-archive` and
  `review-only`.** The last two make no request: in `DeliveryTransaction` a provider
  performs or blocks.
- **The rollback state artifact and the plan-only actions.** Nothing reads what
  they write.
- **Registries** (delivery, runtime, browser): filled once at start-up.
- **Paused session loop and cross-process sessions.** Despite the names, these files
  turn review documents into review documents; nothing reads a document back or
  ties two of them together.
- **Browser sessions, hooks, breakpoints.** The breakpoint manager keeps a registry of
  retained pauses. What makes it hard is which pauses arrive, when, and nested in
  which call, and that is decided by the debugger and the page: a model would be
  one of the debugger. Two hazards are listed without a property.
- **Coordinator, adapters, strategies, source maps, closure scope, heap analysis,
  timeline, review gate, evidence, rebuild, provider packages, tools, CLI, doctor.**
  They transform payloads; their control is a sequence of calls, their correctness
  is in the data, and a small instance would say nothing about it.
