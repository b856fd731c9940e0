------------------------------ MODULE RunStore ------------------------------
(***************************************************************************)
(* The guarded UPDATE statements of app/database/repositories, as pure     *)
(* operators on one status column: what a row holds after the statement,   *)
(* given what it held before.  Every module that touches a run, a step, a  *)
(* tool call or an approval request goes through these operators.          *)
(***************************************************************************)

RunTerminal == {"completed", "failed", "cancelled", "timed_out"}
RunActive   == {"pending", "running", "waiting_approval"}
RunStatus   == RunActive \cup RunTerminal

\* The two terminal statuses that also close the rows a run owns.
RunClosed == {"cancelled", "timed_out"}

\* UPDATE agent_runs ... WHERE status NOT IN terminal OR status = new.
UpdateRunStatus(cur, new) ==
  IF cur \notin RunTerminal \/ cur = new THEN new ELSE cur

-----------------------------------------------------------------------------
\* "absent" stands for a row that has not been inserted.
ToolStartable == {"pending", "waiting_approval"}
ToolOpen      == ToolStartable \cup {"running"}
ToolTerminal  == {"completed", "failed", "rejected", "cancelled", "timed_out"}
ToolStatus    == {"absent"} \cup ToolOpen \cup ToolTerminal

StartExecution(cur) == IF cur \in ToolStartable THEN "running" ELSE cur

\* Mutant: save_result without the condition on the row's status.
SaveSources_Any(new) == ToolStatus

SaveSources(new) == IF new = "rejected" THEN {"waiting_approval"} ELSE {"running"}

SaveResult(cur, new) == IF cur \in SaveSources(new) THEN new ELSE cur

-----------------------------------------------------------------------------
StepOpen     == {"pending", "running", "waiting_approval"}
StepTerminal == {"completed", "failed", "cancelled", "timed_out"}
\* The CHECK constraint of run_steps has no "rejected": writing one raises.
StepStatus   == {"absent"} \cup StepOpen \cup StepTerminal

\* create_step is idempotent on (run_id, step_index): a row that exists is
\* returned as it is.
CreateStepRow(cur, new) == IF cur = "absent" THEN new ELSE cur

\* Mutant: a status that the CHECK constraint does not know.
StartStep_InProgress(cur) == IF cur = "pending" THEN "in_progress" ELSE cur

StartStep(cur) == IF cur = "pending" THEN "running" ELSE cur

CompleteStep(cur, new) == IF cur \in StepOpen THEN new ELSE cur

-----------------------------------------------------------------------------
RequestStatus == {"absent", "pending", "approved", "rejected", "expired", "cancelled"}

\* Mutant: the update does not ask for a pending request.
ResolveRequest_Any(cur, new) == new

\* The compare-and-set of ApprovalRepository.resolve_request.
ResolveRequest(cur, new) == IF cur = "pending" THEN new ELSE cur
=============================================================================
