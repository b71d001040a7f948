-------------------------- MODULE ResumeWorkflowProofs --------------------------
(***************************************************************************)
(* Theorems about ResumeWorkflow: the tools drive the executor by calls it  *)
(* accepts, so what is proved of it carries over, and what the tools record *)
(* of it is true.  Any number of roots, step lists and crashes, and workers *)
(* whose executor calls on the root do not overlap: ResumeWorkflow models   *)
(* no others, so a theorem that is true of the code only while that holds   *)
(* has OneWorker as its hypothesis.                                         *)
(***************************************************************************)
EXTENDS ResumeWorkflow, DeliverySerialProofs, SequenceTheorems

\* The three operations the runner's actions stand for are requests.
LEMMA RunnerRequests ==
  ASSUME NEW a \in RunnerActions
  PROVE  [Nothing EXCEPT !.kind = a] \in Requests
  BY DEF RunnerActions, Requests

\* A step of the tools is a step of the executor, or leaves its state alone.
LEMMA ToolsStep ==
  ASSUME [ResumeNext]_allVars
  PROVE  [Next]_vars
<1>root. Root \in Roots
  BY WorkflowAssumption
<1>1. ASSUME NEW w \in Workers,
             StartWorkflow(w) \/ StartRunner(w) \/ StartRecovery(w) \/ StartRollback(w)
      PROVE  UNCHANGED vars
  BY <1>1 DEF StartWorkflow, StartGiven, StartRunner, StartRecovery, StartRollback, Start
<1>2. ASSUME NEW w \in Workers, CallExecutor(w) PROVE [Next]_vars
  <2>1. Head(job[w].plan) \in RunnerActions
    BY <1>2 DEF CallExecutor, At
  <2>2. Call(Root, [Nothing EXCEPT !.kind = Head(job[w].plan)]) => Begin(Root)
    BY <2>1, RunnerRequests DEF Begin
  <2> QED BY <1>2, <1>root, <2>2 DEF CallExecutor, Next
<1>3. ASSUME NEW w \in Workers, JobStep(w) PROVE [Next]_vars
  BY <1>2, <1>3, <1>root
  DEF JobStep, SkipStep, LockStep, RunnerCheck, TransitionCheck, ExecutorStep, Truncate, Fill, Next
<1>4. ASSUME NEW w \in Workers, CrashJob(w) PROVE [Next]_vars
  BY <1>4, <1>root DEF CrashJob, Next
<1>5. ASSUME NEW r \in Roots, StartDelivery(r) \/ DeliveryStep(r) \/ CrashDelivery(r)
      PROVE  [Next]_vars
  BY <1>5 DEF StartDelivery, DeliveryStep, CrashDelivery, Next, Begin, Requests
<1>6. CASE Approve \/ Tick \/ UNCHANGED allVars
  BY <1>6 DEF Approve, Tick, allVars
<1> QED BY <1>1, <1>3, <1>4, <1>5, <1>6 DEF ResumeNext

\* The tools implement the executor's specification: they reach its files
\* through the calls it accepts and its own steps, in no other way.
THEOREM ToolsImplementExecutor == ResumeSpec => Spec
<1>1. ResumeInit => Init
  BY DEF ResumeInit
<1>2. [ResumeNext]_allVars => [Next]_vars
  BY ToolsStep
<1> QED BY <1>1, <1>2, PTL DEF ResumeSpec, Spec

\* So, whatever mix of tools drives a root, with calls one at a time the backend
\* manifest they leave behind is one that its abstract specification allows:
\* entries are published, withdrawn only by their own root, and kept once promised.
THEOREM ToolsKeepManifest == Serial => (ResumeSpec => ImplementsSharedManifest)
  BY ToolsImplementExecutor, RefinesSharedManifest

-----------------------------------------------------------------------------
(***************************************************************************)
(* What the workflow journal says.  A job in a call is the only one, and    *)
(* the call is that of its step; so when the call ends well the record of   *)
(* its success is in the root, and it stays there.                          *)
(***************************************************************************)
\* The recoveries and commits named are on record.
Truthful(actions) ==
  /\ "recover" \in actions => terminal[Root].recovery = "done"
  /\ "commit" \in actions => terminal[Root].commit = "done"

\* A job is a record.  That its fields have their types is proved on its own.
JobShape(j) ==
  j \in [pc : {j.pc}, tool : {j.tool}, plan : {j.plan}, at : {j.at}, read : {j.read},
         done : {j.done}, lease : {j.lease}]

JobInv(w) ==
  /\ JobShape(job[w])
  /\ Truthful(job[w].read.completed)
  /\ Truthful(job[w].done)
  /\ job[w].pc = "calling" =>
       /\ op[Root].pc # "idle"
       /\ op[Root].req.kind = Head(job[w].plan)

ResumeInv ==
  /\ DeliveryInv
  /\ job = [w \in Workers |-> job[w]]
  /\ \A w \in Workers : JobInv(w)
  /\ \A v, w \in Workers : job[v].pc = "calling" /\ job[w].pc = "calling" => v = w
  /\ workflow # Torn => Truthful(workflow.completed)

\* What is on record stays on record.
LEMMA RecordsStay ==
  ASSUME DeliveryInv, [ResumeNext]_allVars
  PROVE  /\ terminal[Root].recovery = "done" => terminal'[Root].recovery = "done"
         /\ terminal[Root].commit = "done" => terminal'[Root].commit = "done"
  BY ToolsStep, TerminalWritten, WorkflowAssumption

\* Nothing is claimed of an empty set of actions.
LEMMA NothingClaimed == Truthful(NoEntries.completed)
  BY DEF Truthful, NoEntries

\* What a job reads of the journal is truthful, also when it is torn.
LEMMA EntriesTruthful ==
  ASSUME ResumeInv
  PROVE  Truthful(Entries.completed)
  BY NothingClaimed DEF ResumeInv, Entries

\* A job without work.
LEMMA NoJobOK ==
  ASSUME NEW w \in Workers, job'[w] = NoJob
  PROVE  JobInv(w)' /\ job'[w].pc # "calling"
<1>1. NoJob.read.completed = {} /\ NoJob.done = {} /\ NoJob.pc = "idle" /\ JobShape(NoJob)
  BY DEF NoJob, NoEntries, JobShape
<1> QED BY <1>1 DEF JobInv, Truthful

\* A job that goes on: what it has done is what it had done, and its step when
\* that was not blocked.
LEMMA ProceedOK ==
  ASSUME NEW j, JobShape(j), NEW outcome
  PROVE  /\ JobShape(Proceed(j, outcome))
         /\ Proceed(j, outcome).pc \in {"step", "journal", "idle"}
         /\ Proceed(j, outcome).read = j.read
         /\ Proceed(j, outcome).tool = j.tool
         /\ Proceed(j, outcome).plan = IF outcome = "blocked" THEN <<>> ELSE Tail(j.plan)
         /\ Proceed(j, outcome).pc = "step" => Proceed(j, outcome).plan # <<>>
         /\ Proceed(j, outcome).pc = "journal" => j.tool = "workflow"
         /\ Proceed(j, outcome).done = IF outcome = "done" THEN j.done \union {Head(j.plan)} ELSE j.done
<1>1. ASSUME NEW s, NEW d,
             Proceed(j, outcome) = [j EXCEPT !.pc = Continue(s, j.tool), !.plan = s, !.done = d]
      PROVE  /\ JobShape(Proceed(j, outcome))
             /\ Proceed(j, outcome).pc \in {"step", "journal", "idle"}
             /\ Proceed(j, outcome).read = j.read
             /\ Proceed(j, outcome).tool = j.tool
             /\ Proceed(j, outcome).plan = s
             /\ Proceed(j, outcome).pc = "step" => s # <<>>
             /\ Proceed(j, outcome).pc = "journal" => j.tool = "workflow"
             /\ Proceed(j, outcome).done = d
  <2>1. /\ Continue(s, j.tool) \in {"step", "journal", "idle"}
        /\ Continue(s, j.tool) = "step" => s # <<>>
        /\ Continue(s, j.tool) = "journal" => j.tool = "workflow"
    BY DEF Continue
  <2> QED BY <1>1, <2>1 DEF JobShape
<1> DEFINE t == IF outcome = "blocked" THEN <<>> ELSE Tail(j.plan)
           d == IF outcome = "done" THEN j.done \union {Head(j.plan)} ELSE j.done
<1>2. Proceed(j, outcome) = [j EXCEPT !.pc = Continue(t, j.tool), !.plan = t, !.done = d]
  BY DEF Proceed
<1>3. /\ t = IF outcome = "blocked" THEN <<>> ELSE Tail(j.plan)
      /\ d = IF outcome = "done" THEN j.done \union {Head(j.plan)} ELSE j.done
  OBVIOUS
<1> HIDE DEF t, d
<1>4. /\ JobShape(Proceed(j, outcome))
      /\ Proceed(j, outcome).pc \in {"step", "journal", "idle"}
      /\ Proceed(j, outcome).read = j.read
      /\ Proceed(j, outcome).tool = j.tool
      /\ Proceed(j, outcome).plan = t
      /\ Proceed(j, outcome).pc = "step" => t # <<>>
      /\ Proceed(j, outcome).pc = "journal" => j.tool = "workflow"
      /\ Proceed(j, outcome).done = d
  BY <1>1, <1>2
<1> QED BY <1>3, <1>4

\* The other jobs, when one job moves and the call in progress is not theirs.
LEMMA OtherJobs ==
  ASSUME ResumeInv, [ResumeNext]_allVars, NEW w \in Workers, NEW v \in Workers \ {w},
         job'[v] = job[v], op'[Root] = op[Root] \/ job[v].pc # "calling"
  PROVE  JobInv(v)'
  BY RecordsStay DEF ResumeInv, JobInv, JobShape, Truthful

\* The executor's invariant holds of what the tools do.
LEMMA ExecutorKept ==
  ASSUME DeliveryInv, [ResumeNext]_allVars
  PROVE  DeliveryInv'
  BY ToolsStep, NextInv

\* A step of one job that leaves the calls of the others alone.
LEMMA JobFrame ==
  ASSUME ResumeInv, [ResumeNext]_allVars, NEW w \in Workers, NEW k,
         job' = [job EXCEPT ![w] = k],
         op'[Root] = op[Root] \/ \A v \in Workers \ {w} : job[v].pc # "calling",
         k.pc = "calling" => \A v \in Workers \ {w} : job[v].pc # "calling",
         job'[w] = k => JobInv(w)',
         workflow' = workflow \/ (workflow # Torn => Truthful(workflow.completed))'
  PROVE  ResumeInv'
<1>1. job' = [v \in Workers |-> IF v = w THEN k ELSE job[v]] /\ job'[w] = k
      /\ \A v \in Workers \ {w} : job'[v] = job[v]
  BY DEF ResumeInv
<1>2. \A v \in Workers : JobInv(v)'
  BY <1>1, OtherJobs
<1>3. \A u, v \in Workers : job'[u].pc = "calling" /\ job'[v].pc = "calling" => u = v
  BY <1>1 DEF ResumeInv
<1>4. (workflow # Torn => Truthful(workflow.completed))'
  BY RecordsStay DEF ResumeInv, Truthful
<1>5. job' = [v \in Workers |-> job'[v]]
  BY <1>1
<1>6. DeliveryInv'
  BY ExecutorKept DEF ResumeInv
<1> QED BY <1>2, <1>3, <1>4, <1>5, <1>6 DEF ResumeInv

\* A step of the deliveries or of the environment, which no job sees.
LEMMA NoJobFrame ==
  ASSUME ResumeInv, [ResumeNext]_allVars, UNCHANGED <<job, workflow>>,
         op'[Root] = op[Root] \/ \A v \in Workers : job[v].pc # "calling"
  PROVE  ResumeInv'
<1>1. \A v \in Workers : JobInv(v)'
  BY RecordsStay DEF ResumeInv, JobInv, JobShape, Truthful
<1>2. (workflow # Torn => Truthful(workflow.completed))'
  BY RecordsStay DEF ResumeInv, Truthful
<1> QED BY <1>1, <1>2, ExecutorKept DEF ResumeInv

\* A job that finishes a step it may claim.
LEMMA FinishStep ==
  ASSUME ResumeInv, [ResumeNext]_allVars, NEW w \in Workers, NEW k, Finish(w, k),
         JobShape(k), k.pc # "calling", k.read = job[w].read,
         NEW extra, k.done = job[w].done \union extra, Truthful(extra),
         UNCHANGED workflow,
         op'[Root] = op[Root] \/ \A v \in Workers \ {w} : job[v].pc # "calling"
  PROVE  ResumeInv'
<1>1. CASE k.pc = "idle"
  BY <1>1, NoJobOK, JobFrame DEF Finish, NoJob
<1>2. CASE k.pc # "idle"
  <2>1. job'[w] = k => JobInv(w)'
    BY RecordsStay DEF ResumeInv, JobInv, Truthful
  <2> QED BY <1>2, <2>1, JobFrame DEF Finish
<1> QED BY <1>1, <1>2

\* The calls of the other roots are not disturbed by a step of one.
LEMMA StepIsLocal ==
  ASSUME DeliveryInv, NEW r \in Roots, NEW s \in Roots \ {r},
         Step(r) \/ Crash(r) \/ TearJournal(r) \/ (\E q \in Request : Call(r, q))
  PROVE  op'[s] = op[s]
<1>1. \E o : op' = [op EXCEPT ![r] = o]
  BY DEF Step, Call, Copy, Patch, Check, WriteManifest, Digest, Deliver, WriteMutationRecord, WriteResult,
         Raise, RecoveryPreflight, Recover, Restore, Commit, Refuse, WriteTerminalRecord, WriteJournal,
         Crash, TearJournal, Goto, Done
<1> QED BY <1>1 DEF DeliveryInv, TypeOK

\* A call serves one request from its start to its end.
LEMMA StepKeepsRequest ==
  ASSUME DeliveryInv, NEW r \in Roots, Step(r), op'[r].pc # "idle"
  PROVE  op'[r].req = op[r].req
<1>1. op \in [Roots -> Op] /\ op[r] \in Op /\ Idle.pc = "idle"
  BY DEF DeliveryInv, TypeOK, Idle
<1>2. CASE Raise(r) \/ RecoveryPreflight(r) \/ WriteJournal(r)
  BY <1>1, <1>2 DEF Raise, RecoveryPreflight, WriteJournal, Done
<1>3. CASE Copy(r)
  <2> DEFINE q == op[r].req
             n == IF q.mutate /\ ~CopyFails(r) THEN "patch" ELSE AfterManifest(q, CopyFails(r), FALSE)
             c == CopyFails(r)
  <2>1. op' = [op EXCEPT ![r] = IF n = "idle" THEN Idle ELSE [op[r] EXCEPT !.pc = n, !.failed = c]]
    BY <1>3 DEF Copy
  <2> HIDE DEF n, c
  <2> QED BY <1>1, <2>1 DEF Op
<1>4. CASE Patch(r) \/ WriteManifest(r)
  BY <1>1, <1>4 DEF Patch, WriteManifest, Goto, Op
<1>6. CASE Check(r)
  <2> DEFINE n == AfterManifest(op[r].req, FALSE, TRUE)
             m == [pre |-> manifest, post |-> None]
  <2>1. \/ op' = [op EXCEPT ![r] = [op[r] EXCEPT !.pc = "write", !.record = m]]
        \/ op' = [op EXCEPT ![r] = [op[r] EXCEPT !.pc = n, !.record = m]]
    BY <1>6 DEF Check
  <2> HIDE DEF n, m
  <2> QED BY <1>1, <2>1 DEF Op
<1>7. CASE Digest(r)
  <2> DEFINE n == AfterManifest(op[r].req, FALSE, TRUE)
             m == [op[r].record EXCEPT !.post = manifest]
  <2>1. op' = [op EXCEPT ![r] = [op[r] EXCEPT !.pc = n, !.record = m, !.mutated = TRUE]]
    BY <1>7 DEF Digest
  <2> HIDE DEF n, m
  <2> QED BY <1>1, <2>1 DEF Op
<1>8. CASE Deliver(r)
  <2> DEFINE n == IF op[r].record # None THEN "mutation_record" ELSE "result"
  <2>1. PICK m : op' = [op EXCEPT ![r] = [op[r] EXCEPT !.outcome = m, !.pc = n]]
    BY <1>8 DEF Deliver
  <2> HIDE DEF n
  <2> QED BY <1>1, <2>1 DEF Op
<1>9. CASE WriteMutationRecord(r) \/ WriteResult(r)
  <2>1. (op' = [op EXCEPT ![r] = Idle]) \/ \E n : op' = [op EXCEPT ![r] = [op[r] EXCEPT !.pc = n]]
    BY <1>9 DEF WriteMutationRecord, WriteResult, Goto, Done
  <2> QED BY <1>1, <2>1 DEF Op
<1>5. CASE Recover(r) \/ Restore(r) \/ Commit(r) \/ WriteTerminalRecord(r)
  BY <1>1, <1>5 DEF Recover, Restore, Commit, WriteTerminalRecord, Refuse, Goto, Done, Op
<1> QED BY <1>2, <1>3, <1>4, <1>5, <1>6, <1>7, <1>8, <1>9 DEF Step

\* A call that ends well has the record of its success in place.
LEMMA OutcomeTruthful ==
  ASSUME DeliveryInv, CallOutcome = "done"
  PROVE  Truthful({op[Root].req.kind})
  BY WorkflowAssumption DEF DeliveryInv, CallOutcome, CallInv, RefusalInv, Successful, Truthful

\* A job that starts.
LEMMA StartInv ==
  ASSUME ResumeInv, [ResumeNext]_allVars, NEW w \in Workers, NEW tool, NEW steps,
         NEW read \in {Entries, NoEntries}, Start(w, tool, steps, read)
  PROVE  ResumeInv'
<1> DEFINE c == Continue(steps, tool)
           lease == read.lease
           k == [NoJob EXCEPT !.pc = c, !.tool = tool, !.plan = steps, !.at = clock,
                              !.read = read, !.lease = lease]
<1>1. job' = [job EXCEPT ![w] = k] /\ UNCHANGED <<vars, workflow>>
  BY DEF Start
<1>2. Truthful(read.completed)
  BY EntriesTruthful, NothingClaimed
<1>3. c \in {"step", "journal", "idle"}
  BY DEF Continue
<1>4. JobShape(NoJob) /\ NoJob.done = {}
  BY DEF NoJob, JobShape
<1> HIDE DEF c, lease
<1>5. JobShape(k) /\ k.pc # "calling" /\ k.read = read /\ k.done = {}
  BY <1>3, <1>4 DEF JobShape
<1> HIDE DEF k
<1>6. job'[w] = k => JobInv(w)'
  BY <1>2, <1>5, RecordsStay DEF ResumeInv, JobInv, Truthful
<1>7. op' = op /\ workflow' = workflow
  BY <1>1 DEF vars
<1> QED BY <1>1, <1>5, <1>6, <1>7, JobFrame

\* A step that is skipped claims nothing of this run.
LEMMA SkipStepInv ==
  ASSUME ResumeInv, [ResumeNext]_allVars, NEW w \in Workers, SkipStep(w)
  PROVE  ResumeInv'
<1> DEFINE k == Proceed(job[w], "skipped")
<1>1. Finish(w, k) /\ op' = op /\ workflow' = workflow /\ Truthful({})
  BY DEF SkipStep, vars, Truthful
<1>2. JobShape(job[w])
  BY DEF ResumeInv, JobInv
<1>3. /\ JobShape(k) /\ k.pc \in {"step", "journal", "idle"} /\ k.read = job[w].read
      /\ k.done = IF "skipped" = "done" THEN job[w].done \union {Head(job[w].plan)} ELSE job[w].done
  BY <1>2, ProceedOK
<1> HIDE DEF k
<1>4. k.pc # "calling" /\ k.done = job[w].done \union {}
  BY <1>3
<1> QED BY <1>1, <1>3, <1>4, FinishStep

\* A lock step, which is no claim about the root.
LEMMA LockStepInv ==
  ASSUME ResumeInv, [ResumeNext]_allVars, NEW w \in Workers, LockStep(w)
  PROVE  ResumeInv'
<1> DEFINE j == job[w]
           action == Head(j.plan)
           lease == IF action = "release" THEN None ELSE j.at + LeaseSeconds
           k1 == [Proceed(j, "done") EXCEPT !.lease = lease]
           k2 == Proceed(j, "blocked")
<1>1. (Finish(w, k1) \/ Finish(w, k2)) /\ UNCHANGED <<vars, workflow>> /\ action \in LockActions
  BY DEF LockStep, At
<1>2. JobShape(j)
  BY DEF ResumeInv, JobInv
<1>3. Truthful({action}) /\ Truthful({})
  BY <1>1 DEF Truthful, LockActions
<1>4. JobShape(k2) /\ k2.pc # "calling" /\ k2.read = j.read /\ k2.done = j.done \union {}
  BY <1>2, ProceedOK
<1>5. JobShape(k1) /\ k1.pc # "calling" /\ k1.read = j.read /\ k1.done = j.done \union {action}
  <2> DEFINE p == Proceed(j, "done")
  <2>1. JobShape(p) /\ p.pc # "calling" /\ p.read = j.read /\ p.done = j.done \union {action}
    BY <1>2, ProceedOK
  <2>2. k1 = [p EXCEPT !.lease = lease]
    OBVIOUS
  <2> HIDE DEF p, lease, k1, action
  <2> QED BY <2>1, <2>2 DEF JobShape
<1>6. op' = op /\ workflow' = workflow
  BY <1>1 DEF vars
<1> HIDE DEF k1, k2, action
<1> QED BY <1>1, <1>3, <1>4, <1>5, <1>6, FinishStep

\* A check that moves the job on, or refuses the step.
LEMMA CheckInv ==
  ASSUME ResumeInv, [ResumeNext]_allVars, NEW w \in Workers,
         RunnerCheck(w) \/ TransitionCheck(w)
  PROVE  ResumeInv'
<1>1. JobShape(job[w]) /\ op' = op /\ workflow' = workflow
  BY DEF ResumeInv, JobInv, RunnerCheck, TransitionCheck, vars
<1>2. CASE Finish(w, Proceed(job[w], "blocked"))
  <2> DEFINE k == Proceed(job[w], "blocked")
  <2>1. JobShape(k) /\ k.pc # "calling" /\ k.read = job[w].read /\ k.done = job[w].done \union {}
    BY <1>1, ProceedOK
  <2>2. Truthful({}) /\ Finish(w, k)
    BY <1>2 DEF Truthful
  <2> HIDE DEF k
  <2> QED BY <1>1, <2>1, <2>2, FinishStep
<1>3. ASSUME NEW c \in {"transition", "call"}, job' = [job EXCEPT ![w].pc = c]
      PROVE  ResumeInv'
  <2> DEFINE k == [job[w] EXCEPT !.pc = c]
  <2>1. JobShape(k) /\ k.pc # "calling" /\ k.read = job[w].read /\ k.done = job[w].done
    BY <1>1 DEF JobShape
  <2>2. job' = [job EXCEPT ![w] = k]
    BY <1>3
  <2> HIDE DEF k
  <2>3. job'[w] = k => JobInv(w)'
    BY <2>1, RecordsStay DEF ResumeInv, JobInv, Truthful
  <2> QED BY <1>1, <2>1, <2>2, <2>3, JobFrame
<1> QED BY <1>2, <1>3 DEF RunnerCheck, TransitionCheck

\* A call starts while none is there.
LEMMA CallExecutorInv ==
  ASSUME ResumeInv, [ResumeNext]_allVars, NEW w \in Workers, CallExecutor(w)
  PROVE  ResumeInv'
<1> DEFINE a == Head(job[w].plan)
           q == [Nothing EXCEPT !.kind = a]
           k == [job[w] EXCEPT !.pc = "calling"]
<1>1. JobShape(job[w]) /\ Root \in Roots /\ DeliveryInv
  BY WorkflowAssumption DEF ResumeInv, JobInv
<1>2. a \in RunnerActions /\ workflow' = workflow /\ Call(Root, q) /\ job' = [job EXCEPT ![w] = k]
  BY DEF CallExecutor, At
<1>3. q.kind = a /\ q.mutate = FALSE
  BY DEF Nothing
<1>4. JobShape(k) /\ k.pc = "calling" /\ k.read = job[w].read /\ k.done = job[w].done
      /\ k.plan = job[w].plan /\ a = Head(k.plan)
  BY <1>1 DEF JobShape
<1> HIDE DEF a, q, k
<1>5. op[Root].pc = "idle"
  BY <1>2 DEF Call
<1>6. op'[Root].pc = a /\ op'[Root].req = q
  BY <1>1, <1>2, <1>3 DEF Call, Idle, RunnerActions, DeliveryInv, TypeOK
<1>7. \A v \in Workers : job[v].pc # "calling"
  BY <1>5 DEF ResumeInv, JobInv
<1>8. job'[w] = k => JobInv(w)'
  BY <1>2, <1>3, <1>4, <1>6, RecordsStay DEF ResumeInv, JobInv, Truthful, RunnerActions
<1> QED BY <1>2, <1>7, <1>8, JobFrame

\* A step of the call a job is in.
LEMMA ExecutorStepInv ==
  ASSUME ResumeInv, [ResumeNext]_allVars, NEW w \in Workers, ExecutorStep(w)
  PROVE  ResumeInv'
<1>1. /\ JobShape(job[w]) /\ Root \in Roots /\ DeliveryInv /\ Step(Root) /\ workflow' = workflow
      /\ job[w].pc = "calling"
      /\ op[Root].req.kind = Head(job[w].plan)
      /\ \A v \in Workers \ {w} : job[v].pc # "calling"
  BY WorkflowAssumption DEF ResumeInv, JobInv, ExecutorStep
<1>2. CASE op'[Root].pc # "idle" /\ UNCHANGED job
  <2>1. op'[Root].req = op[Root].req
    BY <1>1, <1>2, StepKeepsRequest
  <2>2. JobInv(w)'
    BY <1>1, <1>2, <2>1, RecordsStay DEF ResumeInv, JobInv, Truthful, JobShape
  <2>3. job' = [job EXCEPT ![w] = job[w]]
    BY <1>2 DEF ResumeInv
  <2> QED BY <1>1, <1>2, <2>2, <2>3, JobFrame
<1>3. CASE Finish(w, NoJob)
  BY <1>1, <1>3, NoJobOK, JobFrame DEF Finish, NoJob
<1>4. CASE CallOutcome # "raised" /\ Finish(w, Proceed(job[w], CallOutcome))
  <2> DEFINE k == Proceed(job[w], CallOutcome)
             extra == IF CallOutcome = "done" THEN {op[Root].req.kind} ELSE {}
  <2>1. JobShape(k) /\ k.pc # "calling" /\ k.read = job[w].read /\ k.done = job[w].done \union extra
    <3>1. /\ JobShape(k) /\ k.pc \in {"step", "journal", "idle"} /\ k.read = job[w].read
          /\ k.done = IF CallOutcome = "done" THEN job[w].done \union {Head(job[w].plan)} ELSE job[w].done
      BY <1>1, ProceedOK
    <3> HIDE DEF k
    <3> QED BY <1>1, <3>1
  <2>2. Truthful(extra)
    <3>1. CallOutcome \in {"done", "blocked"}
      BY <1>4 DEF CallOutcome
    <3>2. CASE CallOutcome = "done"
      BY <1>1, <3>2, OutcomeTruthful
    <3>3. CASE CallOutcome = "blocked"
      BY <3>3 DEF Truthful
    <3> QED BY <3>1, <3>2, <3>3
  <2>3. Finish(w, k)
    BY <1>4
  <2> HIDE DEF k, extra
  <2> QED BY <1>1, <2>1, <2>2, <2>3, FinishStep
<1> QED BY <1>2, <1>3, <1>4 DEF ExecutorStep

\* The journal is rewritten, and the job or its process ends.
LEMMA JournalStepsInv ==
  ASSUME ResumeInv, [ResumeNext]_allVars, NEW w \in Workers,
         Truncate(w) \/ Fill(w) \/ CrashJob(w)
  PROVE  ResumeInv'
<1>1. JobShape(job[w]) /\ Root \in Roots /\ DeliveryInv
  BY WorkflowAssumption DEF ResumeInv, JobInv
<1>2. CASE Truncate(w)
  <2> DEFINE k == [job[w] EXCEPT !.pc = "fill"]
  <2>1. JobShape(k) /\ k.pc = "fill" /\ k.read = job[w].read /\ k.done = job[w].done
    BY <1>1 DEF JobShape
  <2>2. job' = [job EXCEPT ![w] = k] /\ workflow' = Torn /\ op' = op
    BY <1>2 DEF Truncate, vars
  <2> HIDE DEF k
  <2>3. job'[w] = k => JobInv(w)'
    BY <2>1, RecordsStay DEF ResumeInv, JobInv, Truthful
  <2> QED BY <2>1, <2>2, <2>3, JobFrame
<1>3. CASE Fill(w)
  <2>1. Finish(w, NoJob) /\ op' = op
        /\ workflow' = [completed |-> job[w].read.completed \union job[w].done, lease |-> job[w].lease]
    BY <1>3 DEF Fill, vars
  <2>2. (workflow # Torn => Truthful(workflow.completed))'
    BY <2>1, RecordsStay DEF ResumeInv, JobInv, Truthful
  <2> QED BY <2>1, <2>2, NoJobOK, JobFrame DEF Finish, NoJob
<1>4. CASE CrashJob(w)
  <2>1. Finish(w, NoJob) /\ workflow' = workflow
    BY <1>4 DEF CrashJob
  <2>2. op'[Root] = op[Root] \/ \A v \in Workers \ {w} : job[v].pc # "calling"
    BY <1>4 DEF CrashJob, vars, ResumeInv
  <2> QED BY <2>1, <2>2, NoJobOK, JobFrame DEF Finish, NoJob
<1> QED BY <1>2, <1>3, <1>4

\* Deliveries stay out of the calls of the jobs.
LEMMA DeliveryStepsInv ==
  ASSUME ResumeInv, [ResumeNext]_allVars, NEW r \in Roots,
         StartDelivery(r) \/ DeliveryStep(r) \/ CrashDelivery(r)
  PROVE  ResumeInv'
<1>1. Root \in Roots /\ DeliveryInv /\ UNCHANGED <<job, workflow>>
  BY WorkflowAssumption DEF ResumeInv, StartDelivery, DeliveryStep, CrashDelivery, tools
<1>2. op'[Root] = op[Root] \/ \A v \in Workers : job[v].pc # "calling"
  <2>1. CASE StartDelivery(r)
    <3>1. PICK q \in ApplyRequests : Call(r, q)
      BY <2>1 DEF StartDelivery
    <3>2. q \in Request
      <4>1. profile \in Profile
        BY <1>1, TransactionAssumption DEF DeliveryInv, TypeOK
      <4> QED BY <4>1, RequestsOK DEF Requests
    <3>3. CASE r = Root
      BY <3>1, <3>3 DEF Call, ResumeInv, JobInv
    <3>4. CASE r # Root
      BY <1>1, <3>1, <3>2, <3>4, StepIsLocal
    <3> QED BY <3>3, <3>4
  <2>2. CASE DeliveryStep(r) \/ CrashDelivery(r)
    <3>1. ~Calling(r) /\ (Step(r) \/ Crash(r) \/ TearJournal(r))
      BY <2>2 DEF DeliveryStep, CrashDelivery
    <3>2. CASE r = Root
      BY <3>1, <3>2 DEF Calling
    <3>3. CASE r # Root
      BY <1>1, <3>1, <3>3, StepIsLocal
    <3> QED BY <3>2, <3>3
  <2> QED BY <2>1, <2>2
<1> QED BY <1>1, <1>2, NoJobFrame

\* Every step keeps the invariant.
LEMMA ResumeStep == ResumeInv /\ [ResumeNext]_allVars => ResumeInv'
<1> SUFFICES ASSUME ResumeInv, [ResumeNext]_allVars PROVE ResumeInv'
  OBVIOUS
<1>1. ASSUME NEW w \in Workers, StartWorkflow(w) PROVE ResumeInv'
  BY <1>1, StartInv DEF StartWorkflow, StartGiven
<1>2. ASSUME NEW w \in Workers, StartRunner(w) \/ StartRecovery(w) \/ StartRollback(w) PROVE ResumeInv'
  BY <1>2, StartInv DEF StartRunner, StartRecovery, StartRollback
<1>3. ASSUME NEW w \in Workers, JobStep(w) PROVE ResumeInv'
  BY <1>3, SkipStepInv, LockStepInv, CheckInv, CallExecutorInv, ExecutorStepInv, JournalStepsInv DEF JobStep
<1>4. ASSUME NEW w \in Workers, CrashJob(w) PROVE ResumeInv'
  BY <1>4, JournalStepsInv
<1>5. ASSUME NEW r \in Roots, StartDelivery(r) \/ DeliveryStep(r) \/ CrashDelivery(r) PROVE ResumeInv'
  BY <1>5, DeliveryStepsInv
<1>6. CASE Approve \/ Tick \/ UNCHANGED allVars
  BY <1>6, NoJobFrame DEF Approve, Tick, allVars, vars, tools
<1> QED BY <1>1, <1>2, <1>3, <1>4, <1>5, <1>6 DEF ResumeNext

\* It holds at the start.
LEMMA ResumeStart == ResumeInit => ResumeInv
<1> SUFFICES ASSUME ResumeInit PROVE ResumeInv
  OBVIOUS
<1>1. NoJob.pc = "idle" /\ NoJob.read.completed = {} /\ NoJob.done = {} /\ JobShape(NoJob)
  BY DEF NoJob, NoEntries, JobShape
<1>2. job = [w \in Workers |-> NoJob] /\ workflow = NoEntries
  BY DEF ResumeInit
<1>3. \A w \in Workers : JobInv(w)
  BY <1>1, <1>2 DEF JobInv, Truthful
<1> QED BY <1>1, <1>2, <1>3, InitInv, NothingClaimed DEF ResumeInit, ResumeInv

\* It is an invariant.
LEMMA ResumeInvariance == ResumeSpec => []ResumeInv
  BY ResumeStart, ResumeStep, PTL DEF ResumeSpec

\* One worker runs the tools.  Deliveries, by other processes, may come between
\* any two of its calls; they write no terminal record.
OneWorker == \A v, w \in Workers : v = w

\* The workflow journal never calls a recovery or a commit completed that the
\* root has no record of, over deliveries and crashes, when one worker runs the
\* tools.  With more, a refused recovery that overlaps a successful one can
\* replace its record, a case ResumeWorkflow does not have.
THEOREM JournalIsTruthful ==
  ASSUME OneWorker
  PROVE  ResumeSpec => []JournalTruthful
<1>1. ResumeInv => JournalTruthful
  BY DEF ResumeInv, Truthful, JournalTruthful
<1> QED BY <1>1, ResumeInvariance, PTL

-----------------------------------------------------------------------------
(***************************************************************************)
(* No rollback after a commit, of which the worker could have known.  Each  *)
(* step of the scheduler and the runner asks whether the transaction is     *)
(* over, the rollback workflow once, at its start.  From there to the       *)
(* restore either no commit is on record, or another worker has overtaken   *)
(* the job.                                                                 *)
(***************************************************************************)
RollbackPlans == {<<"preflight">>, <<"preflight", "recover">>, <<"recover">>}

CommitOnRecord == terminal[Root].commit = "done"

\* The jobs that have asked and may still restore: any rollback, and a recovery
\* that has passed the check of its step.
Minding(w) ==
  \/ job[w].pc # "idle" /\ job[w].tool = "rollback"
  \/ /\ job[w].pc \in {"transition", "call", "calling"}
     /\ job[w].tool # "recovery"
     /\ Head(job[w].plan) = "recover"

Excused(w) == CommitOnRecord => w \in overtaken

ToolInv(w) ==
  /\ job[w].pc # "idle" => job[w].tool \in AllTools
  /\ job[w].pc # "idle" /\ job[w].tool = "rollback" => job[w].plan \in RollbackPlans
  /\ Minding(w) => Excused(w)

CommitsAreCalled ==
  op[Root].pc # "idle" /\ op[Root].req.kind = "commit" =>
    \E w \in Workers : job[w].pc = "calling"

SettleInv == ResumeInv /\ (\A w \in Workers : ToolInv(w)) /\ CommitsAreCalled

\* With a commit on record the planner calls the root terminal or blocked, and
\* the runner's checks fail; the rollback phases are left for good.
LEMMA RunnerRefused ==
  ASSUME CommitOnRecord
  PROVE  ~RunnerAllows(Root)
  BY DEF CommitOnRecord, RunnerAllows, PlanStatus, PlanBlocked, State, Committed

LEMMA RollbackRefused ==
  ASSUME NEW a, RollbackAllows(Root, a)
  PROVE  ~CommitOnRecord
  BY DEF CommitOnRecord, RollbackAllows, Phase, TerminalPhases, Committed

\* The commit record is written by the call of a commit, and by nothing else.
LEMMA CommitWritten ==
  ASSUME DeliveryInv, [ResumeNext]_allVars, terminal'[Root].commit # terminal[Root].commit
  PROVE  /\ op[Root].pc = "terminal_record"
         /\ op[Root].req.kind = "commit"
         /\ op'[Root].pc \in {"idle", "journal"}
<1>0. Root \in Roots /\ [Next]_vars /\ op \in [Roots -> Op] /\ op[Root] \in Op
      /\ terminal \in [Roots -> [recovery : Outcomes, commit : Outcomes]]
  BY WorkflowAssumption, ToolsStep DEF DeliveryInv, TypeOK
<1>1. \E r \in Roots : WriteTerminalRecord(r)
  BY <1>0 DEF Next, Step, vars, files, records, Begin, Call, Copy, Patch, Check, WriteManifest, Digest, Deliver,
         WriteMutationRecord, WriteResult, Raise, RecoveryPreflight, Recover, Restore, Commit, WriteJournal,
         Crash, TearJournal
<1>2. PICK r \in Roots : WriteTerminalRecord(r)
  BY <1>1
<1>3. r = Root
  BY <1>0, <1>2 DEF WriteTerminalRecord
<1>4. op[Root].pc = "terminal_record" /\ op[Root].req.kind \in {"recover", "commit"}
  BY <1>2, <1>3 DEF WriteTerminalRecord, DeliveryInv, CallInv
<1>5. op[Root].req.kind # "recover"
  BY <1>0, <1>2, <1>3 DEF WriteTerminalRecord
<1>6. op' = [op EXCEPT ![Root] = Idle] \/ op' = [op EXCEPT ![Root] = [op[Root] EXCEPT !.pc = "journal"]]
  BY <1>2, <1>3 DEF WriteTerminalRecord, Goto, Done
<1>7. op'[Root].pc \in {"idle", "journal"}
  BY <1>0, <1>6 DEF Idle, Op
<1> QED BY <1>4, <1>5, <1>7

\* It is written in a step of the job that called it.
LEMMA CommitWriter ==
  ASSUME SettleInv, [ResumeNext]_allVars, terminal'[Root].commit # terminal[Root].commit
  PROVE  \E w \in Workers : ExecutorStep(w) /\ Head(job[w].plan) = "commit"
<1>0. Root \in Roots /\ DeliveryInv
  BY WorkflowAssumption DEF SettleInv, ResumeInv
<1>1. /\ op[Root].pc = "terminal_record" /\ op[Root].req.kind = "commit"
      /\ op'[Root].pc \in {"idle", "journal"}
  BY <1>0, CommitWritten
<1>2. PICK u \in Workers : job[u].pc = "calling"
  BY <1>1 DEF SettleInv, CommitsAreCalled
<1>3. Head(job[u].plan) = "commit"
  BY <1>1, <1>2 DEF SettleInv, ResumeInv, JobInv
<1>4. ASSUME NEW r \in Roots, StartDelivery(r) \/ DeliveryStep(r) \/ CrashDelivery(r) PROVE FALSE
  <2>1. CASE StartDelivery(r)
    BY <2>1 DEF StartDelivery, Call, files, records
  <2>2. CASE DeliveryStep(r) \/ CrashDelivery(r)
    <3>1. r # Root /\ (Step(r) \/ Crash(r) \/ TearJournal(r))
      BY <1>2, <2>2 DEF DeliveryStep, CrashDelivery, Calling
    <3> QED BY <1>0, <1>1, <3>1, StepIsLocal
  <2> QED BY <1>4, <2>1, <2>2
<1>5. ASSUME NEW w \in Workers, CrashJob(w) PROVE FALSE
  BY <1>5 DEF CrashJob, Crash, TearJournal, vars, files, records
<1>6. ~(Approve \/ Tick \/ UNCHANGED allVars)
  BY DEF Approve, Tick, allVars, vars, files, records
<1>7. ASSUME NEW w \in Workers,
             StartWorkflow(w) \/ StartRunner(w) \/ StartRecovery(w) \/ StartRollback(w)
      PROVE  FALSE
  BY <1>7 DEF StartWorkflow, StartGiven, StartRunner, StartRecovery, StartRollback, Start,
     vars, files, records
<1>8. ASSUME NEW w \in Workers,
             SkipStep(w) \/ LockStep(w) \/ RunnerCheck(w) \/ TransitionCheck(w) \/ CallExecutor(w)
               \/ Truncate(w) \/ Fill(w)
      PROVE  FALSE
  BY <1>8 DEF SkipStep, LockStep, RunnerCheck, TransitionCheck, CallExecutor, Call, Truncate, Fill,
     vars, files, records
<1>9. PICK w \in Workers : ExecutorStep(w)
  BY <1>4, <1>5, <1>6, <1>7, <1>8 DEF ResumeNext, JobStep
<1>10. w = u
  BY <1>2, <1>9 DEF ExecutorStep, SettleInv, ResumeInv
<1> QED BY <1>3, <1>9, <1>10

\* A worker that was overtaken stays so until it asks again.
LEMMA OvertakenStays ==
  ASSUME [ResumeNext]_allVars, NEW w \in overtaken,
         job[w].pc # "idle", job[w].pc = "step" => job[w].tool \notin Checking
  PROVE  w \in overtaken'
<1>1. ASSUME NEW v \in Workers,
             StartWorkflow(v) \/ StartRunner(v) \/ StartRecovery(v) \/ StartRollback(v)
      PROVE  w \in overtaken'
  BY <1>1 DEF StartWorkflow, StartGiven, StartRunner, StartRecovery, StartRollback, Start
<1>2. ASSUME NEW v \in Workers, JobStep(v) PROVE w \in overtaken'
  BY <1>2 DEF JobStep, SkipStep, LockStep, RunnerCheck, At, TransitionCheck, CallExecutor,
     ExecutorStep, Truncate, Fill, toolHistory
<1>3. ASSUME NEW v \in Workers, CrashJob(v) PROVE w \in overtaken'
  BY <1>3 DEF CrashJob, toolHistory
<1>4. CASE \E r \in Roots : StartDelivery(r) \/ DeliveryStep(r) \/ CrashDelivery(r)
  BY <1>4 DEF StartDelivery, DeliveryStep, CrashDelivery, tools, toolHistory
<1>5. CASE Approve \/ Tick \/ UNCHANGED allVars
  BY <1>5 DEF Approve, Tick, allVars, tools, toolHistory
<1> QED BY <1>1, <1>2, <1>3, <1>4, <1>5 DEF ResumeNext

\* A commit that comes on record while a job is minding is another worker's, and
\* overtakes it.
LEMMA ExcusedKept ==
  ASSUME SettleInv, [ResumeNext]_allVars, NEW w \in Workers, Minding(w)
  PROVE  Excused(w)'
<1> SUFFICES ASSUME CommitOnRecord' PROVE w \in overtaken'
  BY DEF Excused
<1>1. ToolInv(w) /\ Excused(w)
  BY DEF SettleInv, ToolInv
<1>2. CASE CommitOnRecord
  BY <1>1, <1>2, OvertakenStays DEF Excused, Minding, Checking
<1>3. CASE ~CommitOnRecord
  <2>1. PICK u \in Workers : ExecutorStep(u) /\ Head(job[u].plan) = "commit"
    BY <1>3, CommitWriter DEF CommitOnRecord
  <2>2. job[u].pc = "calling"
    BY <2>1 DEF ExecutorStep
  <2>3. u # w
    <3>1. Head(job[w].plan) # "commit"
      BY <1>1, <2>2 DEF Minding, ToolInv, RollbackPlans
    <3> QED BY <2>1, <3>1
  <2>4. overtaken' = overtaken \union (Workers \ {u})
    BY <1>3, <2>1 DEF ExecutorStep, CommitOnRecord
  <2> QED BY <2>3, <2>4
<1> QED BY <1>2, <1>3

\* A job that does not move keeps what is said of it.
LEMMA ToolKept ==
  ASSUME SettleInv, [ResumeNext]_allVars, NEW w \in Workers, job'[w] = job[w]
  PROVE  ToolInv(w)'
<1>1. Minding(w)' => Minding(w)
  BY DEF Minding
<1> QED BY <1>1, ExcusedKept DEF SettleInv, ToolInv

\* One job moves, with the tool it has, on a plan its tool may have.
LEMMA ToolFrame ==
  ASSUME SettleInv, [ResumeNext]_allVars, NEW w \in Workers, NEW k,
         job' = [job EXCEPT ![w] = k], ToolInv(w)', CommitsAreCalled'
  PROVE  SettleInv'
<1>1. \A v \in Workers \ {w} : job'[v] = job[v]
  BY DEF SettleInv, ResumeInv
<1> QED BY <1>1, ToolKept, ResumeStep DEF SettleInv

\* A job that ends a step, or ends.
LEMMA ToolFinish ==
  ASSUME SettleInv, [ResumeNext]_allVars, NEW w \in Workers, NEW outcome,
         job[w].pc # "idle",
         Finish(w, NoJob) \/ Finish(w, Proceed(job[w], outcome)),
         CommitsAreCalled'
  PROVE  SettleInv'
<1>1. JobShape(job[w]) /\ ToolInv(w)
  BY DEF SettleInv, ResumeInv, JobInv
<1>2. job = [v \in Workers |-> job[v]] /\ NoJob.pc = "idle"
  BY DEF SettleInv, ResumeInv, NoJob
<1>3. CASE job' = [job EXCEPT ![w] = NoJob]
  <2>1. ToolInv(w)'
    BY <1>2, <1>3 DEF ToolInv, Minding
  <2> QED BY <1>3, <2>1, ToolFrame
<1>4. CASE Finish(w, Proceed(job[w], outcome)) /\ Proceed(job[w], outcome).pc # "idle"
  <2> DEFINE k == Proceed(job[w], outcome)
  <2>1. /\ k.pc \in {"step", "journal"}
        /\ k.tool = job[w].tool
        /\ k.plan = IF outcome = "blocked" THEN <<>> ELSE Tail(job[w].plan)
        /\ k.pc = "step" => k.plan # <<>>
        /\ k.pc = "journal" => job[w].tool = "workflow"
    BY <1>1, <1>4, ProceedOK
  <2>2. job' = [job EXCEPT ![w] = k]
    BY <1>4 DEF Finish
  <2> HIDE DEF k
  <2>3. job'[w] = k
    BY <1>2, <2>2
  <2>4. ASSUME job[w].tool = "rollback"
        PROVE  k.plan \in RollbackPlans /\ Excused(w)'
    <3>1. job[w].plan \in RollbackPlans /\ Excused(w)'
      BY <1>1, <2>4, ExcusedKept DEF ToolInv, Minding
    <3>2. k.plan # <<>> /\ k.plan = Tail(job[w].plan)
      BY <2>1, <2>4
    <3>3. job[w].plan = <<"preflight", "recover">> \/ Tail(job[w].plan) = <<>>
      <4>1. \A x \in {"preflight", "recover"} :
              <<x>> \in Seq(RunnerActions) /\ Tail(<<x>>) \in Seq(RunnerActions) /\ Len(Tail(<<x>>)) = 0
        BY DEF RunnerActions
      <4>2. \A x \in {"preflight", "recover"} : Tail(<<x>>) = <<>>
        BY <4>1, EmptySeq
      <4> QED BY <3>1, <4>2 DEF RollbackPlans
    <3>4. Tail(<<"preflight", "recover">>) = <<"recover">>
      OBVIOUS
    <3> QED BY <3>1, <3>2, <3>3, <3>4 DEF RollbackPlans
  <2>5. ToolInv(w)'
    BY <1>1, <2>1, <2>3, <2>4 DEF ToolInv, Minding
  <2> QED BY <2>2, <2>5, ToolFrame
<1> QED BY <1>2, <1>3, <1>4 DEF Finish

\* A step that touches no root leaves the commits with their callers, whoever
\* else moves.
LEMMA CallersKept ==
  ASSUME SettleInv, NEW w \in Workers, NEW k, job' = [job EXCEPT ![w] = k],
         job[w].pc # "calling", op'[Root] = op[Root]
  PROVE  CommitsAreCalled'
<1>1. \A v \in Workers \ {w} : job'[v] = job[v]
  BY DEF SettleInv, ResumeInv
<1> QED BY <1>1 DEF SettleInv, CommitsAreCalled

\* A job starts: a rollback only with no commit on record.
LEMMA ToolStart ==
  ASSUME SettleInv, [ResumeNext]_allVars, NEW w \in Workers,
         NEW tool \in AllTools, NEW steps, NEW read,
         Start(w, tool, steps, read),
         tool = "rollback" => steps \in RollbackPlans /\ ~CommitOnRecord
  PROVE  SettleInv'
<1> DEFINE c == Continue(steps, tool)
           lease == read.lease
           k == [NoJob EXCEPT !.pc = c, !.tool = tool, !.plan = steps, !.at = clock,
                              !.read = read, !.lease = lease]
<1>1. job' = [job EXCEPT ![w] = k] /\ UNCHANGED vars /\ job[w].pc = "idle"
  BY DEF Start
<1>2. c \in {"step", "journal", "idle"}
  BY DEF Continue
<1> HIDE DEF c, lease
<1>3. k.pc = c /\ k.tool = tool /\ k.plan = steps
  BY DEF NoJob
<1> HIDE DEF k
<1>4. job'[w] = k /\ op' = op /\ terminal' = terminal
  BY <1>1 DEF SettleInv, ResumeInv, vars, files, records
<1>5. ToolInv(w)'
  BY <1>1, <1>2, <1>3, <1>4 DEF ToolInv, Minding, Excused, CommitOnRecord
<1>6. CommitsAreCalled'
  BY <1>1, <1>4, CallersKept
<1> QED BY <1>1, <1>5, <1>6, ToolFrame

\* A step that is skipped.
LEMMA ToolSkipStep ==
  ASSUME SettleInv, [ResumeNext]_allVars, NEW w \in Workers, SkipStep(w)
  PROVE  SettleInv'
<1>1. Finish(w, Proceed(job[w], "skipped")) /\ op' = op /\ job[w].pc = "step"
  BY DEF SkipStep, At, vars
<1>2. CommitsAreCalled'
  BY <1>1, CallersKept DEF Finish
<1> QED BY <1>1, <1>2, ToolFinish

\* A lock step; no rollback has one.
LEMMA ToolLockStep ==
  ASSUME SettleInv, [ResumeNext]_allVars, NEW w \in Workers, LockStep(w)
  PROVE  SettleInv'
<1> DEFINE j == job[w]
           action == Head(j.plan)
           lease == IF action = "release" THEN None ELSE j.at + LeaseSeconds
           p == Proceed(j, "done")
           k == [p EXCEPT !.lease = lease]
<1>1. /\ Finish(w, k) \/ Finish(w, Proceed(j, "blocked"))
      /\ UNCHANGED vars /\ action \in LockActions /\ j.pc = "step"
  BY DEF LockStep, At
<1>2. JobShape(j) /\ ToolInv(w) /\ job = [v \in Workers |-> job[v]] /\ NoJob.pc = "idle"
  BY DEF SettleInv, ResumeInv, JobInv, NoJob
<1>3. op' = op
  BY <1>1 DEF vars
<1>4. CommitsAreCalled'
  BY <1>1, <1>3, CallersKept DEF Finish
<1>5. CASE Finish(w, Proceed(j, "blocked"))
  BY <1>1, <1>4, <1>5, ToolFinish
<1>6. CASE Finish(w, k)
  <2>1. j.tool # "rollback"
    <3>1. \A q \in RollbackPlans : Head(q) \notin LockActions
      BY DEF RollbackPlans, LockActions
    <3> QED BY <1>1, <1>2, <3>1 DEF ToolInv
  <2>2. JobShape(p) /\ p.pc \in {"step", "journal", "idle"} /\ p.tool = j.tool
    BY <1>2, ProceedOK
  <2> HIDE DEF p, lease
  <2>3. k.pc = p.pc /\ k.tool = p.tool
    BY <2>2 DEF JobShape
  <2> HIDE DEF k
  <2>4. job' = [job EXCEPT ![w] = IF k.pc = "idle" THEN NoJob ELSE k]
    BY <1>6 DEF Finish
  <2>5. ToolInv(w)'
    BY <1>1, <1>2, <2>1, <2>2, <2>3, <2>4 DEF ToolInv, Minding
  <2> QED BY <1>4, <2>4, <2>5, ToolFrame
<1> QED BY <1>1, <1>5, <1>6

\* A check: refused, or passed, that of the planner only with no commit on record.
LEMMA ToolChecks ==
  ASSUME SettleInv, [ResumeNext]_allVars, NEW w \in Workers, RunnerCheck(w) \/ TransitionCheck(w)
  PROVE  SettleInv'
<1>1. /\ JobShape(job[w]) /\ ToolInv(w) /\ job = [v \in Workers |-> job[v]]
      /\ job[w].pc \in {"step", "transition"} /\ op' = op /\ terminal' = terminal
  BY DEF SettleInv, ResumeInv, JobInv, RunnerCheck, TransitionCheck, At, vars, files, records
<1>2. CASE Finish(w, Proceed(job[w], "blocked"))
  <2>1. CommitsAreCalled'
    BY <1>1, <1>2, CallersKept DEF Finish
  <2> QED BY <1>1, <1>2, <2>1, ToolFinish
<1>3. ASSUME NEW c \in {"transition", "call"}, job' = [job EXCEPT ![w].pc = c],
             job[w].tool \in Checking /\ c = "transition" => ~CommitOnRecord,
             job[w].pc = IF c = "call" THEN "transition" ELSE "step"
      PROVE  SettleInv'
  <2> DEFINE k == [job[w] EXCEPT !.pc = c]
  <2>1. job' = [job EXCEPT ![w] = k] /\ k.pc = c /\ k.tool = job[w].tool /\ k.plan = job[w].plan
    BY <1>1, <1>3 DEF JobShape
  <2> HIDE DEF k
  <2>2. job'[w] = k
    BY <1>1, <2>1
  <2>3. CommitsAreCalled'
    BY <1>1, <2>1, CallersKept
  <2>4. ASSUME Minding(w)' PROVE Excused(w)'
    <3>1. Minding(w) \/ (c = "transition" /\ job[w].tool \in Checking)
      BY <1>1, <1>3, <2>1, <2>2, <2>4 DEF Minding, ToolInv, Checking, AllTools
    <3>2. CASE c = "transition" /\ job[w].tool \in Checking
      BY <1>1, <1>3, <3>2 DEF CommitOnRecord, Excused
    <3> QED BY <3>1, <3>2, ExcusedKept
  <2>5. ToolInv(w)'
    BY <1>1, <1>3, <2>1, <2>2, <2>4 DEF ToolInv
  <2> QED BY <2>1, <2>3, <2>5, ToolFrame
<1>4. CASE RunnerCheck(w) /\ RunnerCheckPassed(job[w])
  BY <1>3, <1>4, RunnerRefused DEF RunnerCheck, RunnerCheckPassed, At
<1>5. CASE TransitionCheck(w) /\ TransitionAllows(Root)
  BY <1>3, <1>5 DEF TransitionCheck, At
<1> QED BY <1>2, <1>4, <1>5 DEF RunnerCheck, TransitionCheck

\* A call starts.
LEMMA ToolCallExecutor ==
  ASSUME SettleInv, [ResumeNext]_allVars, NEW w \in Workers, CallExecutor(w)
  PROVE  SettleInv'
<1>1. /\ JobShape(job[w]) /\ ToolInv(w) /\ job = [v \in Workers |-> job[v]] /\ job[w].pc = "call"
      /\ job' = [job EXCEPT ![w].pc = "calling"]
  BY DEF SettleInv, ResumeInv, JobInv, CallExecutor, At
<1> DEFINE k == [job[w] EXCEPT !.pc = "calling"]
<1>2. job' = [job EXCEPT ![w] = k] /\ k.pc = "calling" /\ k.tool = job[w].tool /\ k.plan = job[w].plan
  BY <1>1 DEF JobShape
<1> HIDE DEF k
<1>3. job'[w] = k
  BY <1>1, <1>2
<1>4. CommitsAreCalled'
  BY <1>2, <1>3 DEF CommitsAreCalled
<1>5. Minding(w)' => Minding(w)
  BY <1>1, <1>2, <1>3 DEF Minding
<1>6. ToolInv(w)'
  BY <1>1, <1>2, <1>3, <1>5, ExcusedKept DEF ToolInv
<1> QED BY <1>2, <1>4, <1>6, ToolFrame

\* A step of the executor, in a job's call.
LEMMA ToolExecutorStep ==
  ASSUME SettleInv, [ResumeNext]_allVars, NEW w \in Workers, ExecutorStep(w)
  PROVE  SettleInv'
<1>1. job[w].pc = "calling" /\ Step(Root) /\ DeliveryInv /\ Root \in Roots
  BY WorkflowAssumption DEF SettleInv, ResumeInv, ExecutorStep
<1>2. CASE op'[Root].pc # "idle" /\ UNCHANGED job
  <2>1. CommitsAreCalled'
    BY <1>1, <1>2 DEF CommitsAreCalled
  <2> QED BY <1>2, <2>1, ToolKept, ResumeStep DEF SettleInv
<1>3. CASE op'[Root].pc = "idle"
  <2>1. CommitsAreCalled'
    BY <1>3 DEF CommitsAreCalled
  <2>2. Finish(w, NoJob) \/ Finish(w, Proceed(job[w], CallOutcome))
    BY <1>3 DEF ExecutorStep
  <2> QED BY <1>1, <2>1, <2>2, ToolFinish
<1> QED BY <1>2, <1>3 DEF ExecutorStep

\* The journal is rewritten, or the process of a job dies.
LEMMA ToolJournalSteps ==
  ASSUME SettleInv, [ResumeNext]_allVars, NEW w \in Workers,
         Truncate(w) \/ Fill(w) \/ CrashJob(w)
  PROVE  SettleInv'
<1>1. JobShape(job[w]) /\ ToolInv(w) /\ job = [v \in Workers |-> job[v]] /\ Root \in Roots /\ Idle.pc = "idle"
      /\ op \in [Roots -> Op]
  BY WorkflowAssumption DEF SettleInv, ResumeInv, JobInv, Idle, DeliveryInv, TypeOK
<1>2. CASE Truncate(w)
  <2> DEFINE k == [job[w] EXCEPT !.pc = "fill"]
  <2>1. job' = [job EXCEPT ![w] = k] /\ job[w].pc = "journal" /\ UNCHANGED vars
    BY <1>2 DEF Truncate
  <2>2. k.pc = "fill" /\ k.tool = job[w].tool /\ k.plan = job[w].plan
    BY <1>1 DEF JobShape
  <2> HIDE DEF k
  <2>3. ToolInv(w)'
    BY <1>1, <2>1, <2>2, ExcusedKept DEF ToolInv, Minding
  <2>4. CommitsAreCalled'
    BY <2>1, CallersKept DEF vars
  <2> QED BY <2>1, <2>3, <2>4, ToolFrame
<1>3. CASE Fill(w)
  <2>1. CommitsAreCalled'
    BY <1>3, CallersKept DEF Fill, Finish, vars
  <2> QED BY <1>3, <2>1, ToolFinish DEF Fill
<1>4. CASE CrashJob(w)
  <2>1. CommitsAreCalled'
    <3>1. CASE job[w].pc = "calling"
      BY <1>1, <1>4, <3>1 DEF CrashJob, Crash, TearJournal, Done, CommitsAreCalled
    <3>2. CASE job[w].pc # "calling"
      BY <1>4, <3>2, CallersKept DEF CrashJob, Finish, vars
    <3> QED BY <3>1, <3>2
  <2> QED BY <1>4, <2>1, ToolFinish DEF CrashJob
<1> QED BY <1>2, <1>3, <1>4

\* Deliveries call no commit.
LEMMA ToolDeliveries ==
  ASSUME SettleInv, [ResumeNext]_allVars, NEW r \in Roots,
         StartDelivery(r) \/ DeliveryStep(r) \/ CrashDelivery(r)
  PROVE  SettleInv'
<1>1. /\ Root \in Roots /\ DeliveryInv /\ job' = job /\ op \in [Roots -> Op] /\ Idle.pc = "idle"
      /\ CommitsAreCalled
  BY WorkflowAssumption
  DEF SettleInv, ResumeInv, DeliveryInv, TypeOK, StartDelivery, DeliveryStep, CrashDelivery, tools, Idle
<1>2. CommitsAreCalled'
  <2>1. CASE StartDelivery(r)
    <3>1. PICK q \in ApplyRequests : Call(r, q)
      BY <2>1 DEF StartDelivery
    <3>2. q \in Request /\ q.kind = "apply"
      <4>1. profile \in Profile
        BY <1>1, TransactionAssumption DEF DeliveryInv, TypeOK
      <4> QED BY <4>1, RequestsOK DEF Requests, ApplyRequests
    <3>3. CASE r = Root
      <4>1. op'[Root].req = q
        BY <1>1, <3>1, <3>3 DEF Call, Idle
      <4> QED BY <3>2, <4>1 DEF CommitsAreCalled
    <3>4. CASE r # Root
      BY <1>1, <3>1, <3>2, <3>4, StepIsLocal DEF CommitsAreCalled
    <3> QED BY <3>3, <3>4
  <2>2. CASE DeliveryStep(r) \/ CrashDelivery(r)
    <3>1. ~Calling(r) /\ (Step(r) \/ Crash(r) \/ TearJournal(r))
      BY <2>2 DEF DeliveryStep, CrashDelivery
    <3>2. CASE r # Root
      BY <1>1, <3>1, <3>2, StepIsLocal DEF CommitsAreCalled
    <3>3. CASE r = Root /\ op'[Root].pc = "idle"
      BY <3>3 DEF CommitsAreCalled
    <3>4. CASE r = Root /\ op'[Root].pc # "idle"
      <4>1. Step(Root)
        BY <1>1, <3>1, <3>4 DEF Crash, TearJournal, Done
      <4>2. op[Root].pc # "idle"
        BY <4>1 DEF Step, Copy, Patch, Check, WriteManifest, Digest, Deliver, WriteMutationRecord, WriteResult,
               Raise, ReadsTorn, RecoveryPreflight, Recover, Restore, Commit, WriteTerminalRecord, WriteJournal
      <4>3. op'[Root].req = op[Root].req
        BY <1>1, <3>4, <4>1, StepKeepsRequest
      <4> QED BY <1>1, <3>1, <3>4, <4>2, <4>3 DEF CommitsAreCalled, Calling
    <3> QED BY <3>2, <3>3, <3>4
  <2> QED BY <2>1, <2>2
<1> QED BY <1>1, <1>2, ToolKept, ResumeStep DEF SettleInv

\* Every step keeps the invariant.
LEMMA SettleStep == SettleInv /\ [ResumeNext]_allVars => SettleInv'
<1> SUFFICES ASSUME SettleInv, [ResumeNext]_allVars PROVE SettleInv'
  OBVIOUS
<1>1. ASSUME NEW w \in Workers, StartWorkflow(w) \/ StartRunner(w) \/ StartRecovery(w)
      PROVE  SettleInv'
  BY <1>1, ToolStart DEF StartWorkflow, StartGiven, StartRunner, StartRecovery, AllTools
<1>2. ASSUME NEW w \in Workers, StartRollback(w) PROVE SettleInv'
  BY <1>2, ToolStart, RollbackRefused DEF StartRollback, AllTools, RollbackPlans
<1>3. ASSUME NEW w \in Workers, JobStep(w) PROVE SettleInv'
  BY <1>3, ToolSkipStep, ToolLockStep, ToolChecks, ToolCallExecutor, ToolExecutorStep, ToolJournalSteps
  DEF JobStep
<1>4. ASSUME NEW w \in Workers, CrashJob(w) PROVE SettleInv'
  BY <1>4, ToolJournalSteps
<1>5. ASSUME NEW r \in Roots, StartDelivery(r) \/ DeliveryStep(r) \/ CrashDelivery(r) PROVE SettleInv'
  BY <1>5, ToolDeliveries
<1>6. CASE Approve \/ Tick \/ UNCHANGED allVars
  <2>1. job' = job /\ op' = op
    BY <1>6 DEF Approve, Tick, allVars, vars, tools
  <2> QED BY <2>1, ToolKept, ResumeStep DEF SettleInv, CommitsAreCalled
<1> QED BY <1>1, <1>2, <1>3, <1>4, <1>5, <1>6 DEF ResumeNext

\* It holds at the start.
LEMMA SettleStart == ResumeInit => SettleInv
<1> SUFFICES ASSUME ResumeInit PROVE SettleInv
  OBVIOUS
<1>1. NoJob.pc = "idle" /\ Idle.pc = "idle" /\ job = [w \in Workers |-> NoJob] /\ Root \in Roots
      /\ op = [r \in Roots |-> Idle]
  BY WorkflowAssumption DEF NoJob, Idle, ResumeInit, Init
<1>2. \A w \in Workers : ToolInv(w)
  BY <1>1 DEF ToolInv, Minding
<1>3. CommitsAreCalled
  BY <1>1 DEF CommitsAreCalled
<1> QED BY <1>2, <1>3, ResumeStart DEF SettleInv

\* A rollback of a committed transaction is one of a worker that was overtaken.
LEMMA RestoresExcused ==
  ASSUME SettleInv, NEW w \in Workers, Restores(w), terminal[Root].commit = "done"
  PROVE  w \in overtaken
<1>1. /\ job[w].pc = "calling" /\ job[w].tool # "recovery" /\ op[Root].pc = "restore"
      /\ ToolInv(w) /\ JobInv(w)
  BY DEF Restores, SettleInv, ResumeInv
<1>2. Head(job[w].plan) = "recover"
  BY <1>1, WorkflowAssumption DEF JobInv, SettleInv, ResumeInv, DeliveryInv, CallInv
<1> QED BY <1>1, <1>2 DEF ToolInv, Minding, Excused, CommitOnRecord

\* Once a commit record says committed, the scheduler, the runner and the rollback
\* workflow roll the manifest back only when another worker wrote that record
\* after they had asked, whatever crashes.
THEOREM CommittedStays == ResumeSpec => CommittedNotRolledBack
<1>1. ResumeSpec => []SettleInv
  BY SettleStart, SettleStep, PTL DEF ResumeSpec
<1>2. SettleInv =>
        \A w \in Workers :
          Restores(w) /\ terminal[Root].commit = "done" => w \in overtaken
  BY RestoresExcused
<1> QED BY <1>1, <1>2, PTL DEF CommittedNotRolledBack

NoneOvertaken == overtaken = {}

\* With one worker these tools never roll a committed transaction back.
THEOREM CommittedStaysAlone ==
  ASSUME OneWorker
  PROVE  ResumeSpec =>
           [][\A w \in Workers : Restores(w) => terminal[Root].commit # "done"]_allVars
<1>1. ResumeInit => NoneOvertaken
  BY DEF ResumeInit, NoneOvertaken
<1>2. NoneOvertaken /\ [ResumeNext]_allVars => NoneOvertaken'
  <2> SUFFICES ASSUME overtaken = {}, [ResumeNext]_allVars PROVE overtaken' = {}
    BY DEF NoneOvertaken
  <2>1. ASSUME NEW v \in Workers,
               StartWorkflow(v) \/ StartRunner(v) \/ StartRecovery(v) \/ StartRollback(v)
        PROVE  overtaken' = {}
    BY <2>1 DEF StartWorkflow, StartGiven, StartRunner, StartRecovery, StartRollback, Start
  <2>2. ASSUME NEW v \in Workers, JobStep(v) PROVE overtaken' = {}
    BY <2>2 DEF OneWorker, JobStep, SkipStep, LockStep, RunnerCheck, TransitionCheck, CallExecutor,
       ExecutorStep, Truncate, Fill, toolHistory
  <2>3. ASSUME NEW v \in Workers, CrashJob(v) PROVE overtaken' = {}
    BY <2>3 DEF CrashJob, toolHistory
  <2>4. CASE \E r \in Roots : StartDelivery(r) \/ DeliveryStep(r) \/ CrashDelivery(r)
    BY <2>4 DEF StartDelivery, DeliveryStep, CrashDelivery, tools, toolHistory
  <2>5. CASE Approve \/ Tick \/ UNCHANGED allVars
    BY <2>5 DEF Approve, Tick, allVars, tools, toolHistory
  <2> QED BY <2>1, <2>2, <2>3, <2>4, <2>5 DEF ResumeNext
<1>3. ResumeSpec => []SettleInv
  BY SettleStart, SettleStep, PTL DEF ResumeSpec
<1>4. SettleInv /\ NoneOvertaken =>
        \A w \in Workers : Restores(w) => terminal[Root].commit # "done"
  BY RestoresExcused DEF NoneOvertaken
<1> QED BY <1>1, <1>2, <1>3, <1>4, PTL DEF ResumeSpec

-----------------------------------------------------------------------------
(***************************************************************************)
(* Types: plans are sequences of supported actions with a step left for a   *)
(* job that is at one, and what a run records is made of them.              *)
(***************************************************************************)
StepLeft(j) == j.pc \in {"step", "transition", "call", "calling"} => j.plan # <<>>

TypeInv == ResumeTypeOK /\ \A w \in Workers : StepLeft(job[w])

\* What a run reads of its journal.
LEMMA EntriesOK ==
  ASSUME workflow \in WorkflowJournal \union {Torn}
  PROVE  Entries \in WorkflowJournal /\ NoEntries \in WorkflowJournal
  BY DEF Entries, NoEntries, WorkflowJournal

\* Every plan is a list of supported actions, given or made around the default.
LEMMA PlannedOK ==
  ASSUME NEW given \in StepLists
  PROVE  Planned(given) \in Seq(StepActions)
<1>1. given \in Seq(StepActions)
  BY WorkflowAssumption
<1>2. /\ <<>> \in Seq(StepActions) /\ <<"renew">> \in Seq(StepActions)
      /\ <<"acquire">> \in Seq(StepActions) /\ <<"release">> \in Seq(StepActions)
      /\ <<"preflight">> \in Seq(StepActions)
  BY DEF StepActions, RunnerActions, LockActions
<1>3. DefaultSteps(Root) \in Seq(StepActions)
  BY <1>2 DEF DefaultSteps
<1>4. \A x, y, z \in Seq(StepActions) :
        x \o y \o DefaultSteps(Root) \o z \in Seq(StepActions)
  BY <1>3, ConcatProperties
<1> DEFINE absent(a) == a \notin Entries.completed
           has == Evidence # None
           renews == has /\ Evidence <= clock + Warning /\ absent("renew")
           acquires == DefaultSteps(Root) # <<>> /\ ~has /\ absent("acquire")
             /\ PlanStatus(Root) \notin {"terminal", "no_transaction", "blocked"}
           releases == has /\ PlanStatus(Root) = "terminal" /\ absent("release")
           a == IF renews THEN <<"renew">> ELSE <<>>
           b == IF acquires THEN <<"acquire">> ELSE <<>>
           c == IF releases THEN <<"release">> ELSE <<>>
<1>5. DefaultPlan \in Seq(StepActions)
  <2>1. DefaultPlan = a \o b \o DefaultSteps(Root) \o c
    BY DEF DefaultPlan
  <2>2. a \in Seq(StepActions) /\ b \in Seq(StepActions) /\ c \in Seq(StepActions)
    BY <1>2, Zenon
  <2> HIDE DEF a, b, c
  <2> QED BY <1>4, <2>1, <2>2
<1> QED BY <1>1, <1>5 DEF Planned

\* A job that goes on is a job.
LEMMA ProceedTyped ==
  ASSUME NEW j \in Job, j.plan # <<>>, NEW outcome
  PROVE  Proceed(j, outcome) \in Job /\ StepLeft(Proceed(j, outcome))
<1>1. /\ j.plan \in Seq(StepActions) /\ j.done \subseteq StepActions
      /\ <<>> \in Seq(StepActions)
  BY DEF Job
<1>2. Tail(j.plan) \in Seq(StepActions) /\ Head(j.plan) \in StepActions
  BY <1>1, HeadTailProperties
<1> DEFINE t == IF outcome = "blocked" THEN <<>> ELSE Tail(j.plan)
           d == IF outcome = "done" THEN j.done \union {Head(j.plan)} ELSE j.done
<1>3. Proceed(j, outcome) = [j EXCEPT !.pc = Continue(t, j.tool), !.plan = t, !.done = d]
  BY DEF Proceed
<1>4. t \in Seq(StepActions) /\ d \subseteq StepActions
  BY <1>1, <1>2
<1> HIDE DEF t, d
<1>5. Continue(t, j.tool) \in {"step", "journal", "idle"} /\ (Continue(t, j.tool) = "step" => t # <<>>)
  BY DEF Continue
<1> QED BY <1>3, <1>4, <1>5 DEF Job, StepLeft

\* A job without work is a job.
LEMMA NoJobTyped == NoJob \in Job /\ StepLeft(NoJob)
<1>1. <<>> \in Seq(StepActions) /\ NoEntries \in WorkflowJournal
  BY DEF NoEntries, WorkflowJournal
<1> QED BY <1>1 DEF NoJob, Job, AllTools, StepLeft

\* One job moves.
LEMMA JobTyped ==
  ASSUME TypeInv, NEW w \in Workers, NEW k \in Job, StepLeft(k),
         job' = [job EXCEPT ![w] = k] \/ Finish(w, k)
  PROVE  job' \in [Workers -> Job] /\ \A v \in Workers : StepLeft(job'[v])
<1>1. job \in [Workers -> Job] /\ \A v \in Workers : StepLeft(job[v])
  BY DEF TypeInv, ResumeTypeOK
<1>2. PICK m \in Job : StepLeft(m) /\ job' = [job EXCEPT ![w] = m]
  BY NoJobTyped DEF Finish
<1> QED BY <1>1, <1>2

\* Every step keeps the types.
LEMMA TypeStep ==
  ASSUME TypeInv, TypeOK', [ResumeNext]_allVars
  PROVE  TypeInv'
<1> DEFINE Files ==
  /\ workflow \in WorkflowJournal \union {Torn}
  /\ lock \in Nat \union {None}
  /\ clock \in 0 .. MaxClock
  /\ approved \subseteq StepActions
  /\ crashes \in 0 .. MaxCrashes
  /\ recorded \subseteq StepActions
  /\ overtaken \subseteq Workers
<1>0. job \in [Workers -> Job] /\ (\A w \in Workers : StepLeft(job[w])) /\ Files
  BY DEF TypeInv, ResumeTypeOK
<1>1. ASSUME NEW w \in Workers, NEW tool \in AllTools, NEW steps \in Seq(StepActions),
             NEW read \in {Entries, NoEntries}, Start(w, tool, steps, read)
      PROVE  TypeInv'
  <2> DEFINE c == Continue(steps, tool)
             k == [NoJob EXCEPT !.pc = c, !.tool = tool, !.plan = steps, !.at = clock,
                                !.read = read, !.lease = read.lease]
  <2>1. /\ job' = [job EXCEPT ![w] = k] /\ UNCHANGED <<workflow, lock, environment, recorded>>
        /\ overtaken' \subseteq overtaken
    BY <1>1 DEF Start
  <2>2. read \in WorkflowJournal /\ read.lease \in Nat \union {None}
    BY <1>0, EntriesOK DEF WorkflowJournal
  <2>3. c \in {"step", "journal", "idle"} /\ (c = "step" => steps # <<>>)
    BY DEF Continue
  <2>4. clock \in Nat
    BY <1>0
  <2> HIDE DEF c
  <2>5. k \in Job /\ StepLeft(k)
    BY <2>2, <2>3, <2>4, NoJobTyped DEF Job, StepLeft
  <2> HIDE DEF k
  <2>6. Files'
    BY <1>0, <2>1 DEF environment
  <2> QED BY <2>1, <2>5, <2>6, JobTyped DEF TypeInv, ResumeTypeOK
<1>2. ASSUME NEW w \in Workers, NEW outcome,
             job[w].pc \in {"step", "transition", "call", "calling"},
             Finish(w, Proceed(job[w], outcome)), UNCHANGED <<workflow, environment, recorded>>,
             lock' = lock, overtaken' \subseteq Workers
      PROVE  TypeInv'
  <2>1. job[w] \in Job /\ job[w].plan # <<>>
    BY <1>0, <1>2 DEF StepLeft
  <2>2. Files'
    BY <1>0, <1>2 DEF environment
  <2> QED BY <1>2, <2>1, <2>2, ProceedTyped, JobTyped DEF TypeInv, ResumeTypeOK
<1>3. ASSUME NEW w \in Workers, LockStep(w) PROVE TypeInv'
  <2> DEFINE j == job[w]
             lease == IF Head(j.plan) = "release" THEN None ELSE j.at + LeaseSeconds
             p == Proceed(j, "done")
             k == [p EXCEPT !.lease = lease]
  <2>1. /\ j.pc = "step" /\ UNCHANGED <<workflow, environment, recorded, overtaken>>
        /\ \/ lock' = lease /\ Finish(w, k)
           \/ lock' = lock /\ Finish(w, Proceed(j, "blocked"))
    BY <1>3 DEF LockStep, At, toolHistory
  <2>2. j \in Job /\ j.plan # <<>>
    BY <1>0, <2>1 DEF StepLeft
  <2>3. lease \in Nat \union {None}
    BY <2>2, WorkflowAssumption DEF Job
  <2>4. p \in Job /\ StepLeft(p)
    BY <2>2, ProceedTyped
  <2> HIDE DEF p, lease
  <2>5. k \in Job /\ StepLeft(k)
    BY <2>3, <2>4 DEF Job, StepLeft
  <2> HIDE DEF k
  <2>6. CASE lock' = lease /\ Finish(w, k)
    <3>1. Files'
      BY <1>0, <2>1, <2>3, <2>6 DEF environment
    <3> QED BY <2>5, <2>6, <3>1, JobTyped DEF TypeInv, ResumeTypeOK
  <2>7. overtaken' \subseteq Workers
    BY <1>0, <2>1
  <2> QED BY <1>2, <2>1, <2>6, <2>7
<1>4. ASSUME NEW w \in Workers,
             SkipStep(w) \/ RunnerCheck(w) \/ TransitionCheck(w) \/ CallExecutor(w) \/ ExecutorStep(w)
      PROVE  TypeInv'
  <2>1. /\ job[w].pc \in {"step", "transition", "call", "calling"}
        /\ UNCHANGED <<workflow, lock, environment, recorded>>
    BY <1>4 DEF SkipStep, RunnerCheck, TransitionCheck, CallExecutor, ExecutorStep, At, toolHistory
  <2>2. \/ \E outcome : Finish(w, Proceed(job[w], outcome))
        \/ \E c \in {"transition", "call", "calling"} : job' = [job EXCEPT ![w].pc = c]
        \/ job' = job
        \/ Finish(w, NoJob)
    BY <1>4 DEF SkipStep, RunnerCheck, TransitionCheck, CallExecutor, ExecutorStep
  <2>3. overtaken' \subseteq Workers
    BY <1>0, <1>4 DEF SkipStep, RunnerCheck, TransitionCheck, CallExecutor, ExecutorStep, toolHistory
  <2>4. Files'
    BY <1>0, <2>1, <2>3 DEF environment
  <2>5. ASSUME NEW c \in {"transition", "call", "calling"}, job' = [job EXCEPT ![w].pc = c]
        PROVE  TypeInv'
    <3> DEFINE k == [job[w] EXCEPT !.pc = c]
    <3>1. k \in Job /\ StepLeft(k)
      BY <1>0, <2>1 DEF Job, StepLeft
    <3>2. job' = [job EXCEPT ![w] = k]
      BY <2>5
    <3> HIDE DEF k
    <3> QED BY <2>4, <3>1, <3>2, JobTyped DEF TypeInv, ResumeTypeOK
  <2>6. CASE job' = job \/ Finish(w, NoJob)
    BY <1>0, <2>4, <2>6, NoJobTyped, JobTyped DEF TypeInv, ResumeTypeOK
  <2>7. CASE \E outcome : Finish(w, Proceed(job[w], outcome))
    <3>1. PICK outcome : Finish(w, Proceed(job[w], outcome))
      BY <2>7
    <3>2. UNCHANGED <<workflow, environment, recorded>> /\ lock' = lock
      BY <2>1
    <3> QED BY <1>2, <2>1, <2>3, <3>1, <3>2
  <2> QED BY <2>2, <2>5, <2>6, <2>7
<1>5. ASSUME NEW w \in Workers, Truncate(w) \/ Fill(w) \/ CrashJob(w) PROVE TypeInv'
  <2>0. job[w] \in Job
    BY <1>0
  <2>1. CASE Truncate(w)
    <3> DEFINE k == [job[w] EXCEPT !.pc = "fill"]
    <3>1. k \in Job /\ StepLeft(k)
      BY <2>0 DEF Job, StepLeft
    <3>2. job' = [job EXCEPT ![w] = k] /\ Files'
      BY <1>0, <2>1 DEF Truncate, environment, toolHistory
    <3> HIDE DEF k
    <3> QED BY <3>1, <3>2, JobTyped DEF TypeInv, ResumeTypeOK
  <2>2. CASE Fill(w)
    <3>1. /\ job[w].done \subseteq StepActions /\ job[w].read.completed \subseteq StepActions
          /\ job[w].lease \in Nat \union {None}
      BY <2>0 DEF Job, WorkflowJournal
    <3>2. Finish(w, NoJob) /\ Files'
      BY <1>0, <2>2, <3>1 DEF Fill, environment, WorkflowJournal
    <3> QED BY <3>2, NoJobTyped, JobTyped DEF TypeInv, ResumeTypeOK
  <2>3. CASE CrashJob(w)
    <3>1. Finish(w, NoJob) /\ Files'
      BY <1>0, <2>3, WorkflowAssumption DEF CrashJob, toolHistory
    <3> QED BY <3>1, NoJobTyped, JobTyped DEF TypeInv, ResumeTypeOK
  <2> QED BY <1>5, <2>1, <2>2, <2>3
<1>6. ASSUME NEW w \in Workers,
             StartWorkflow(w) \/ StartRunner(w) \/ StartRecovery(w) \/ StartRollback(w)
      PROVE  TypeInv'
  <2>1. /\ \A a \in RunnerActions : <<a>> \in Seq(StepActions)
        /\ <<"preflight">> \in Seq(StepActions) /\ <<"preflight", "recover">> \in Seq(StepActions)
    BY DEF StepActions, RunnerActions
  <2>2. {"workflow", "runner", "recovery", "rollback"} \subseteq AllTools
    BY DEF AllTools
  <2>3. CASE StartWorkflow(w)
    BY <1>1, <2>2, <2>3, PlannedOK DEF StartWorkflow, StartGiven
  <2>4. CASE StartRunner(w) \/ StartRecovery(w) \/ StartRollback(w)
    BY <1>1, <2>1, <2>2, <2>4 DEF StartRunner, StartRecovery, StartRollback
  <2> QED BY <1>6, <2>3, <2>4
<1>7. CASE \E r \in Roots : StartDelivery(r) \/ DeliveryStep(r) \/ CrashDelivery(r)
  BY <1>0, <1>7, WorkflowAssumption
  DEF StartDelivery, DeliveryStep, CrashDelivery, tools, environment, toolHistory, TypeInv, ResumeTypeOK
<1>8. CASE Approve \/ Tick \/ UNCHANGED allVars
  BY <1>0, <1>8, WorkflowAssumption
  DEF Approve, Tick, allVars, tools, environment, toolHistory, TypeInv, ResumeTypeOK
<1> QED BY <1>1, <1>3, <1>4, <1>5, <1>6, <1>7, <1>8 DEF ResumeNext, JobStep

\* The type invariant of the tools: the plan of a run is made of supported
\* actions and the journal of those it ran, whatever callers ask for.
THEOREM ResumeTypes == ResumeSpec => []ResumeTypeOK
<1>1. ResumeSpec => []TypeOK
  BY ToolsImplementExecutor, DeliveryTypes, PTL
<1>2. ResumeInit /\ TypeOK => TypeInv
  <2> SUFFICES ASSUME ResumeInit, TypeOK PROVE TypeInv
    OBVIOUS
  <2>1. NoEntries \in WorkflowJournal
    BY DEF NoEntries, WorkflowJournal
  <2> QED BY <2>1, NoJobTyped, WorkflowAssumption DEF ResumeInit, TypeInv, ResumeTypeOK
<1>3. TypeInv /\ TypeOK' /\ [ResumeNext]_allVars => TypeInv'
  BY TypeStep
<1>4. TypeInv => ResumeTypeOK
  BY DEF TypeInv
<1> QED BY <1>1, <1>2, <1>3, <1>4, PTL DEF ResumeSpec
=============================================================================
