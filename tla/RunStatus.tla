------------------------------ MODULE RunStatus ------------------------------
(***************************************************************************)
(* The status vocabulary of an agent run and the source states a terminal  *)
(* transition accepts (run.types.ts, run.repository.ts).  Shared by every  *)
(* module that touches a row of agent_runs.                                *)
(***************************************************************************)

\* ACTIVE_STATUSES: the states the partial unique index counts.
ActiveStatuses == {"queued", "running", "cancel_requested"}

\* TERMINAL_RUN_STATUSES: a run in one of these states has ended.
TerminalStatuses == {"completed", "failed", "cancelled"}

RunStatuses == ActiveStatuses \cup TerminalStatuses

\* Mutant: a run whose cancellation was accepted may still complete.
AllowedFromCancelRequested(status) ==
  IF status = "completed" THEN {"running", "cancel_requested"}
  ELSE IF status = "cancelled" THEN {"cancel_requested"}
  ELSE {"running", "cancel_requested"}

\* Mutant: the terminal update is keyed by the run id alone.
AllowedFromAnyStatus(status) == RunStatuses

\* The states terminal() may leave when it commits the given terminal status.
AllowedFromStatuses(status) ==
  IF status = "completed" THEN {"running"}
  ELSE IF status = "cancelled" THEN {"cancel_requested"}
  ELSE {"running", "cancel_requested"}

==============================================================================
