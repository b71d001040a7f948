---------------------------- MODULE ResumeWorkflow ----------------------------
(***************************************************************************)
(* The reviewed tools that drive a delivery root after a delivery, composed *)
(* with the executor: the resume scheduler with its workflow journal and    *)
(* its lock steps (resume_scheduler.py), the resume runner                  *)
(* (resume_runner.py), the recovery workflow (recovery.py) and the rollback *)
(* workflow (rollback.py).  Each is a job: it decides on what the inspector *)
(* says of the files, then calls the executor.  The planner's check, the    *)
(* transition's and the steps of the call are steps of their own, and       *)
(* another worker's may come between any two of them.                       *)
(*                                                                         *)
(* The scheduler reads its journal once at its start and rewrites it at its *)
(* end.  The lock is the default provider's file, always with one owner (it *)
(* defaults to the transaction id); a run takes the time once, at its       *)
(* start.  Approvals are only ever added to the ledger: nothing uses them   *)
(* up.  The transaction id does not change, dry runs write nothing, and a   *)
(* job stands for one approved call with the id it expects.                 *)
(*                                                                         *)
(* LIMIT.  A root serves one executor call at a time, as in                 *)
(* DeliveryTransaction; the code has no such lock unless it is asked for.   *)
(* Two workers whose calls on the root overlap are not modelled: what is    *)
(* said of several workers is said of calls that do not.                    *)
(***************************************************************************)
EXTENDS TransactionState, Sequences, SequencesExt

CONSTANTS
  Workers,       \* processes that run the tools
  Root,          \* the delivery root they work on
  StepLists,     \* step_actions callers give the scheduler; <<>> for its default
  Grants,        \* sets of actions that a reviewer approves together
  Tools,         \* for each profile, the tools that each worker runs
  LeaseSeconds,  \* lease of the provider lock
  MaxClock,      \* bound of the clock
  MaxCrashes     \* bound of the crashes

RunnerActions == {"preflight", "recover", "commit"}
LockActions == {"acquire", "renew", "release"}
StepActions == RunnerActions \union LockActions
AllTools == {"workflow", "runner", "recovery", "rollback"}

\* The tools whose every runner step asks the planner and the ledger first.
Checking == {"workflow", "runner"}

ASSUME WorkflowAssumption ==
  /\ Root \in Roots
  /\ StepLists \subseteq Seq(StepActions)
  /\ Grants \subseteq SUBSET StepActions
  /\ Tools \in [Profiles -> [Workers -> SUBSET AllTools]]
  /\ LeaseSeconds \in Nat \ {0}
  /\ MaxClock \in Nat /\ MaxCrashes \in Nat

VARIABLES
  job,       \* per worker: the tool it runs
  workflow,  \* delivery-resume-workflow-journal.json
  lock,      \* when the provider lock of the root expires
  clock,
  approved,  \* the actions with an entry in the approval ledger
  crashes,
  recorded,  \* history: the actions that runs have put into the journal
  overtaken  \* history: the workers who last asked whether the transaction is
             \* over before another worker wrote a commit record

environment == <<clock, approved, crashes>>
toolHistory == <<recorded, overtaken>>
tools == <<job, workflow, lock, environment, toolHistory>>
allVars == <<vars, tools>>

\* The journal: the actions with a successful entry, and the expiry the last
\* entry of a lock step recorded.
WorkflowJournal == [completed : SUBSET StepActions, lease : Nat \union {None}]
NoEntries == [completed |-> {}, lease |-> None]

\* plan holds the steps that remain, read the journal as it was at the start,
\* done and lease what this run adds to it.
Job ==
  [pc : {"idle", "step", "transition", "call", "calling", "journal", "fill"}, tool : AllTools,
   plan : Seq(StepActions), at : Nat, read : WorkflowJournal,
   done : SUBSET StepActions, lease : Nat \union {None}]

NoJob ==
  [pc |-> "idle", tool |-> "workflow", plan |-> <<>>, at |-> 0, read |-> NoEntries,
   done |-> {}, lease |-> None]

ResumeInit ==
  /\ Init
  /\ job = [w \in Workers |-> NoJob]
  /\ workflow = NoEntries
  /\ lock = None
  /\ clock = 0
  /\ approved = {}
  /\ crashes = 0
  /\ recorded = {}
  /\ overtaken = {}

-----------------------------------------------------------------------------
\* _read_workflow_journal_entries: what does not parse is read as empty.
Entries == IF workflow = Torn THEN NoEntries ELSE workflow

\* The lease the planner knows of: the lock file, or the journal without one.
Evidence == IF lock # None THEN lock ELSE Entries.lease
Warning == IF LeaseSeconds < 6 THEN 1 ELSE LeaseSeconds \div 3

\* _lock_lifecycle_plan and _lease_renewal_plan around the default steps.
DefaultPlan ==
  LET steps == DefaultSteps(Root)
      has == Evidence # None
      absent(a) == a \notin Entries.completed
      renews == has /\ Evidence <= clock + Warning /\ absent("renew")
      acquires ==
        steps # <<>> /\ ~has /\ absent("acquire")
          /\ PlanStatus(Root) \notin {"terminal", "no_transaction", "blocked"}
      releases == has /\ PlanStatus(Root) = "terminal" /\ absent("release")
  IN  (IF renews THEN <<"renew">> ELSE <<>>)
        \o (IF acquires THEN <<"acquire">> ELSE <<>>)
        \o steps
        \o (IF releases THEN <<"release">> ELSE <<>>)

Planned(given) == IF given = <<>> THEN DefaultPlan ELSE given
Pending(steps) == ToSet(steps) \ Entries.completed

\* DeliveryResumeWorkflowScheduler._checks
WorkflowAllowed(steps) ==
  /\ ~PlanBlocked(Root)
  /\ PlanStatus(Root) = "terminal" => ToSet(steps) = {"release"}
  /\ steps # <<>>
  /\ Pending(steps) \subseteq approved

\* Where a job goes next: to its next step, or to the journal only the
\* scheduler keeps.
Continue(steps, tool) ==
  IF steps # <<>> THEN "step" ELSE IF tool = "workflow" THEN "journal" ELSE "idle"

Start(w, tool, steps, read) ==
  /\ tool \in Tools[profile][w]
  /\ job[w].pc = "idle"
  /\ job' = [job EXCEPT ![w] =
       [NoJob EXCEPT !.pc = Continue(steps, tool), !.tool = tool, !.plan = steps,
                     !.at = clock, !.read = read, !.lease = read.lease]]
  /\ overtaken' = overtaken \ {w}
  /\ UNCHANGED <<vars, workflow, lock, environment, recorded>>

\* The scheduler's execute_workflow.  The plan keeps the steps that the journal
\* calls completed; they are skipped when the run gets to them.
StartGiven(w, given) ==
  /\ WorkflowAllowed(Planned(given))
  /\ Start(w, "workflow", Planned(given), Entries)

StartWorkflow(w) == \E given \in StepLists : StartGiven(w, given)

\* One action of the runner, with its own entry in the ledger.
StartRunner(w) ==
  \E a \in RunnerActions : Start(w, "runner", <<a>>, NoEntries)

\* The recovery workflow: preflight_recovery and apply_recovery, approved.
StartRecovery(w) ==
  /\ RecoveryAllows(Root)
  /\ \E steps \in {<<"preflight">>, <<"preflight", "recover">>} :
       Start(w, "recovery", steps, NoEntries)

\* The rollback workflow, in the phase each of its actions requires.  It writes
\* its state artifact, which nothing reads, and its apply goes through the
\* recovery workflow, which makes the checks of RecoveryAllows again.
StartRollback(w) ==
  \/ /\ RollbackAllows(Root, "preflight_rollback")
     /\ Start(w, "rollback", <<"preflight">>, NoEntries)
  \/ /\ RollbackAllows(Root, "apply_rollback")
     /\ Start(w, "rollback", <<"preflight", "recover">>, NoEntries)

-----------------------------------------------------------------------------
ProceedRecordingAll(j, outcome) ==
  LET steps == IF outcome = "blocked" THEN <<>> ELSE Tail(j.plan)
  IN  [j EXCEPT !.pc = Continue(steps, j.tool), !.plan = steps,
                !.done = @ \union {Head(j.plan)}]
ProceedPastBlocked(j, outcome) ==
  [j EXCEPT !.pc = Continue(Tail(j.plan), j.tool), !.plan = Tail(j.plan),
            !.done = IF outcome = "done" THEN @ \union {Head(j.plan)} ELSE @]

\* A step that succeeded is recordable, one that was skipped is not; one that was
\* blocked ends the run, and the scheduler still writes its journal.
Proceed(j, outcome) ==
  LET steps == IF outcome = "blocked" THEN <<>> ELSE Tail(j.plan)
  IN  [j EXCEPT !.pc = Continue(steps, j.tool), !.plan = steps,
                !.done = IF outcome = "done" THEN @ \union {Head(j.plan)} ELSE @]

Finish(w, j) == job' = [job EXCEPT ![w] = IF j.pc = "idle" THEN NoJob ELSE j]

At(w, pc, actions) == job[w].pc = pc /\ Head(job[w].plan) \in actions
Skips(w) == Head(job[w].plan) \in job[w].read.completed

\* What the journal called completed when the run began is not done again.
SkipStep(w) ==
  /\ At(w, "step", StepActions)
  /\ Skips(w)
  /\ Finish(w, Proceed(job[w], "skipped"))
  /\ UNCHANGED <<vars, workflow, lock, environment, toolHistory>>

\* _run_lock_provider_step, on the local-file-lock provider: the only owner may
\* always acquire, and renew or release what has not expired.
LockStepAllowed(action, at) == action = "acquire" \/ (lock # None /\ lock > at)

LockStep(w) ==
  LET j == job[w]
      action == Head(j.plan)
      lease == IF action = "release" THEN None ELSE j.at + LeaseSeconds
  IN  /\ At(w, "step", LockActions)
      /\ ~Skips(w)
      /\ IF LockStepAllowed(action, j.at)
           THEN /\ lock' = lease
                /\ Finish(w, [Proceed(j, "done") EXCEPT !.lease = lease])
           ELSE /\ Finish(w, Proceed(j, "blocked"))
                /\ UNCHANGED lock
      /\ UNCHANGED <<vars, workflow, environment, toolHistory>>

\* A runner step begins: the scheduler and the runner plan again and look for the
\* approval, the others go to the transition executor directly.
RunnerCheckPassed(j) ==
  j.tool \in Checking => RunnerAllows(Root) /\ Head(j.plan) \in approved

RunnerCheck(w) ==
  /\ At(w, "step", RunnerActions)
  /\ ~Skips(w)
  /\ IF RunnerCheckPassed(job[w])
       THEN job' = [job EXCEPT ![w].pc = "transition"]
       ELSE Finish(w, Proceed(job[w], "blocked"))
  /\ overtaken' = IF job[w].tool \in Checking THEN overtaken \ {w} ELSE overtaken
  /\ UNCHANGED <<vars, workflow, lock, environment, recorded>>

\* The transition executor inspects the root for itself.
TransitionCheck(w) ==
  /\ At(w, "transition", RunnerActions)
  /\ IF TransitionAllows(Root)
       THEN job' = [job EXCEPT ![w].pc = "call"]
       ELSE Finish(w, Proceed(job[w], "blocked"))
  /\ UNCHANGED <<vars, workflow, lock, environment, toolHistory>>

\* It calls LocalDeliveryExecutor: nothing has been held since the checks.
CallExecutor(w) ==
  /\ At(w, "call", RunnerActions)
  /\ Call(Root, [Nothing EXCEPT !.kind = Head(job[w].plan)])
  /\ job' = [job EXCEPT ![w].pc = "calling"]
  /\ UNCHANGED <<workflow, lock, environment, toolHistory>>

\* How the call in progress would end with its next step.  A preflight that
\* finds reasons against a recovery is a success to its caller.
CallOutcome ==
  IF ReadsTorn(Root) THEN "raised"
  ELSE IF op[Root].pc \in {"preflight", "journal"} THEN "done"
  ELSE "blocked"

\* The executor runs; an exception of its ends the job, journal unwritten.
ExecutorStep(w) ==
  /\ job[w].pc = "calling"
  /\ Step(Root)
  /\ IF op'[Root].pc # "idle" THEN UNCHANGED job
     ELSE IF CallOutcome = "raised" THEN Finish(w, NoJob)
     ELSE Finish(w, Proceed(job[w], CallOutcome))
  /\ overtaken' = IF terminal[Root].commit # "done" /\ terminal'[Root].commit = "done"
                    THEN overtaken \union (Workers \ {w}) ELSE overtaken
  /\ UNCHANGED <<workflow, lock, environment, recorded>>

\* _append_workflow_journal: the entries read at the start and the new ones.
Truncate(w) ==
  /\ job[w].pc = "journal"
  /\ workflow' = Torn
  /\ job' = [job EXCEPT ![w].pc = "fill"]
  /\ UNCHANGED <<vars, lock, environment, toolHistory>>

Fill(w) ==
  /\ job[w].pc = "fill"
  /\ workflow' = [completed |-> job[w].read.completed \union job[w].done,
                  lease     |-> job[w].lease]
  /\ recorded' = recorded \union job[w].done
  /\ Finish(w, NoJob)
  /\ UNCHANGED <<vars, lock, environment, overtaken>>

JobStep(w) ==
  SkipStep(w) \/ LockStep(w) \/ RunnerCheck(w) \/ TransitionCheck(w) \/ CallExecutor(w)
    \/ ExecutorStep(w) \/ Truncate(w) \/ Fill(w)

-----------------------------------------------------------------------------
Calling(r) == r = Root /\ \E w \in Workers : job[w].pc = "calling"

\* The process of a job dies, with the call it is in.
CrashJob(w) ==
  /\ crashes < MaxCrashes
  /\ job[w].pc # "idle"
  /\ IF job[w].pc = "calling" THEN Crash(Root) \/ TearJournal(Root) ELSE UNCHANGED vars
  /\ Finish(w, NoJob)
  /\ crashes' = crashes + 1
  /\ UNCHANGED <<workflow, lock, clock, approved, toolHistory>>

\* A delivery of artifacts, to this root or another of the same manifest.
StartDelivery(r) ==
  /\ \E q \in ApplyRequests : Call(r, q)
  /\ UNCHANGED tools

DeliveryStep(r) ==
  /\ ~Calling(r)
  /\ Step(r)
  /\ UNCHANGED tools

CrashDelivery(r) ==
  /\ crashes < MaxCrashes
  /\ ~Calling(r)
  /\ Crash(r) \/ TearJournal(r)
  /\ crashes' = crashes + 1
  /\ UNCHANGED <<job, workflow, lock, clock, approved, toolHistory>>

\* A reviewer adds approvals to the ledger.
Approve ==
  /\ \E g \in Grants :
       /\ g \notin SUBSET approved
       /\ approved' = approved \union g
  /\ UNCHANGED <<vars, job, workflow, lock, clock, crashes, toolHistory>>

Tick ==
  /\ clock < MaxClock
  /\ clock' = clock + 1
  /\ UNCHANGED <<vars, job, workflow, lock, approved, crashes, toolHistory>>

ResumeNext ==
  \/ \E w \in Workers :
       StartWorkflow(w) \/ StartRunner(w) \/ StartRecovery(w) \/ StartRollback(w)
         \/ JobStep(w) \/ CrashJob(w)
  \/ \E r \in Roots : StartDelivery(r) \/ DeliveryStep(r) \/ CrashDelivery(r)
  \/ Approve \/ Tick

\* A live process carries its job, or its delivery, to the end.  Nobody is
\* obliged to start one, to approve one or to let time pass.
Fairness ==
  /\ \A w \in Workers : WF_allVars(JobStep(w))
  /\ \A r \in Roots : WF_allVars(DeliveryStep(r))

ResumeSpec == ResumeInit /\ [][ResumeNext]_allVars /\ Fairness

-----------------------------------------------------------------------------
ResumeTypeOK ==
  /\ TypeOK
  /\ job \in [Workers -> Job]
  /\ workflow \in WorkflowJournal \union {Torn}
  /\ lock \in Nat \union {None}
  /\ clock \in 0 .. MaxClock
  /\ approved \subseteq StepActions
  /\ crashes \in 0 .. MaxCrashes
  /\ recorded \subseteq StepActions
  /\ overtaken \subseteq Workers

\* The workflow journal never calls a recovery or a commit completed that the
\* root has no record of, whatever was blocked, skipped, torn or run again, as long
\* as the calls of two workers on the root do not overlap (LIMIT above).
JournalTruthful ==
  workflow # Torn =>
    /\ "recover" \in workflow.completed => terminal[Root].recovery = "done"
    /\ "commit" \in workflow.completed => terminal[Root].commit = "done"

\* Once a commit record says committed, neither the scheduler, the runner nor the
\* rollback workflow rolls the manifest back, a crash before the journal was
\* written included: the planner and the rollback workflow see the record as well.
\* But nothing is held between their check and the restore, so the one exception
\* is a record that another worker wrote after it: with one worker there is none.
\* The recovery tool does not ask whether the transaction is over.
Restores(w) ==
  /\ op[Root].pc = "restore" /\ op'[Root].pc = "terminal_record"
  /\ job[w].pc = "calling" /\ job[w].tool # "recovery"

CommittedNotRolledBack ==
  [][ \A w \in Workers :
        Restores(w) /\ terminal[Root].commit = "done" => w \in overtaken ]_allVars

\* A run gives the lock back only when a record says that the transaction is
\* over: a step that was blocked keeps the release behind it from running.
ReleaseOnlyWhenSettled ==
  [][ lock # None /\ lock' = None => Recovered(Root) \/ Committed(Root) ]_allVars

\* If a workflow with a recovery is started again and again, as the planner lets
\* it, a mutated transaction does not stay open, although processes crash and
\* journals are torn: it is recovered, or its root is blocked for a reviewer.
Open == Mutated(Root) /\ State(Root) = "recovery_required"

StartRecoveryWorkflow ==
  \E w \in Workers, given \in StepLists : "recover" \in ToSet(given) /\ StartGiven(w, given)

Settles == []<><<StartRecoveryWorkflow>>_allVars => (Open ~> ~Open)

\* What runs have recorded in the workflow journal stays there: the journal is
\* an append-only record of the steps.
StepsStayRecorded == workflow # Torn => recorded \subseteq workflow.completed
=============================================================================
