--------------------------- MODULE TransactionState ---------------------------
(***************************************************************************)
(* What the inspector and its evaluators (inspector.py, state_machine.py,   *)
(* rollback_state.py, resume.py) say of a delivery root, and what each      *)
(* reviewed tool (transitions.py, resume_runner.py, recovery.py,            *)
(* rollback.py) therefore lets pass.  Pure operators over the files of      *)
(* DeliveryTransaction: nothing here writes.                                *)
(*                                                                         *)
(* The milestones that precede the mutation (revision committed, patch      *)
(* written, preflight passed) are one state, local_applied: no tool tells   *)
(* them apart.  No local transaction lock is held (the executor writes none *)
(* unless asked to), so the planner's lock check passes.                    *)
(***************************************************************************)
EXTENDS DeliveryTransaction

States ==
  {"planned", "local_applied", "recovery_required", "recovered",
   "external_delivery_attempted", "external_delivered", "committed", "blocked"}

Readable(r) == journal[r] \notin {None, Torn}
LoadErrors(r) == journal[r] = Torn

\* _state_flags: a flag of the journal, or the record that proves it.
Mutated(r) == Readable(r) /\ journal[r].mutated
PreflightPassed(r) == preflight[r] # None /\ preflight[r].status # "blocked"
Recovered(r) == (Readable(r) /\ journal[r].recovered) \/ terminal[r].recovery = "done"
JournalCommitted(r) == Readable(r) /\ journal[r].committed
Committed(r) == JournalCommitted(r) \/ terminal[r].commit = "done"
ExternalPerformed(r) == (Readable(r) /\ journal[r].external) \/ result[r] = "performed"
ExternalAttempted(r) == (Readable(r) /\ journal[r].resultPath # "none") \/ result[r] # "none"

\* _blocking_reasons: a record that says it was refused blocks the root for as
\* long as it is there.
StateBlocked(r) ==
  \/ result[r] = "blocked"
  \/ r \in guarded
  \/ preflight[r] # None /\ preflight[r].status = "blocked"
  \/ "blocked" \in {terminal[r].recovery, terminal[r].commit}

\* _current_state
State(r) ==
  IF StateBlocked(r) THEN "blocked"
  ELSE IF Committed(r) THEN "committed"
  ELSE IF ExternalPerformed(r) THEN "external_delivered"
  ELSE IF ExternalAttempted(r) THEN "external_delivery_attempted"
  ELSE IF Recovered(r) THEN "recovered"
  ELSE IF PreflightPassed(r) \/ Mutated(r) THEN "recovery_required"
  ELSE IF Readable(r) THEN "local_applied"
  ELSE "planned"

\* _phase
Phase(r) ==
  IF r \in guarded THEN "duplicate_terminal_action_blocked"
  ELSE IF ExternalPerformed(r) THEN "external_delivery_performed"
  ELSE IF Committed(r) THEN "committed"
  ELSE IF StateBlocked(r) THEN "blocked"
  ELSE IF Recovered(r) THEN "rollback_applied"
  ELSE IF PreflightPassed(r) THEN "rollback_decision_required"
  ELSE IF Mutated(r) THEN "rollback_preflight_required"
  ELSE IF Readable(r) THEN "local_delivery_applied"
  ELSE "no_transaction"

TerminalPhases ==
  {"committed", "external_delivery_performed", "duplicate_terminal_action_blocked"}

-----------------------------------------------------------------------------
\* DeliveryResumePlanner: its checks and its status.
PlanBlocked(r) == LoadErrors(r) \/ StateBlocked(r)

PlanStatus(r) ==
  IF PlanBlocked(r) THEN "blocked"
  ELSE IF Phase(r) = "no_transaction" /\ State(r) = "planned" THEN "no_transaction"
  ELSE IF Phase(r) \in TerminalPhases \/ State(r) \in {"committed", "external_delivered"}
    THEN "terminal"
  ELSE IF Phase(r) = "rollback_decision_required" \/ State(r) = "recovery_required"
    THEN "review_required"
  ELSE "planned"

\* _default_step_actions: of the planner's recommendations only
\* apply_recovery_or_commit_after_review leads to a step.
DefaultSteps(r) ==
  IF ~StateBlocked(r) /\ State(r) = "recovery_required" THEN <<"preflight">> ELSE <<>>

\* DeliveryResumeRunner._checks, the approval left to the caller.
RunnerAllowsNoReview(r) ==
  PlanStatus(r) \notin {"blocked", "terminal", "no_transaction", "review_required"}
RunnerAllows(r) == PlanStatus(r) \notin {"blocked", "terminal", "no_transaction"}

\* DeliveryTransactionTransitionExecutor._build_checks for an explicit transition
TransitionAllows(r) == ~StateBlocked(r) /\ ~ExternalPerformed(r)

\* DeliveryTransactionRecoveryExecutor._build_checks, approval given
RecoveryAllows(r) == ~StateBlocked(r) /\ ~ExternalPerformed(r)

\* DeliveryRollbackExecutor._build_checks, approval given.  A preflight has the
\* phase it needs; an apply takes the phase its caller expects, any but a
\* terminal one.
RollbackAllows(r, action) ==
  /\ ~LoadErrors(r)
  /\ ~StateBlocked(r)
  /\ Phase(r) \notin TerminalPhases
  /\ action = "preflight_rollback" => Phase(r) = "rollback_preflight_required"
=============================================================================
