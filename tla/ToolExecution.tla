---------------------------- MODULE ToolExecution ----------------------------
(***************************************************************************)
(* agent/tool_execution.py: execute_and_persist_tool_call, the one path by *)
(* which a tool call of a run reaches its executor, run by several tasks   *)
(* (workers) on their own database sessions, while cancel_run and          *)
(* mark_timed_out_runs close the run from yet another session.             *)
(*                                                                         *)
(* Every commit and every fresh read is a step of its own.  The closing    *)
(* transaction is four statements that become visible together: the rows   *)
(* an UPDATE has matched stay locked until the commit, so other sessions   *)
(* wait for them, while rows inserted after the UPDATE escape it.          *)
(***************************************************************************)
EXTENDS RunStore, FiniteSets

CONSTANTS Calls,     \* the tool calls of the run
          Workers,   \* the tasks that execute them
          None       \* no call, no status

ASSUME NoneAssumption == None \notin Calls \cup ToolStatus

VARIABLES
  run,       \* agent_runs.status
  call,      \* tool_calls.status of each call
  step,      \* run_steps.status of the execution step of each call
  result,    \* who wrote tool_calls.result_json
  started,   \* is tool_calls.started_at set?
  closing,   \* the closing transaction in progress
  pc, job,   \* where each worker is, and for which call
  view,      \* the tool call status the worker's session holds
  verdict,   \* the status the worker is about to persist
  invoked,   \* the workers that entered the executor, per call
  told       \* the calls for which a tool message was saved

rowVars  == <<run, call, step, result, started>>
taskVars == <<pc, job, view, verdict>>
vars     == <<rowVars, closing, taskVars, invoked, told>>

ClosePhase == {"idle", "steps", "calls", "commit"}
Idle == [phase |-> "idle", status |-> None, steps |-> {}, calls |-> {}]

PC == {"idle", "step", "gate", "obtain", "claim", "recheck", "gate2", "invoke",
       "await", "save", "finish", "note",
       "skipSave", "skipStep", "skipNote", "done"}

Result == {"none", "output", "error", "closure", "skip", "rejection"}

TypeOK ==
  /\ run \in RunStatus
  /\ call \in [Calls -> ToolStatus]
  /\ step \in [Calls -> StepStatus]
  /\ result \in [Calls -> Result]
  /\ started \in [Calls -> BOOLEAN]
  /\ closing \in [phase : ClosePhase, status : RunClosed \cup {None},
                  steps : SUBSET Calls, calls : SUBSET Calls]
  /\ pc \in [Workers -> PC]
  /\ job \in [Workers -> Calls \cup {None}]
  /\ view \in [Workers -> ToolStatus \cup {None}]
  /\ verdict \in [Workers -> ToolTerminal \cup {None}]
  /\ invoked \in [Calls -> SUBSET Workers]
  /\ told \in SUBSET Calls

\* A row matched by an uncommitted UPDATE cannot be written by another session.
RunLocked     == closing.phase # "idle"
StepLocked(c) == c \in closing.steps
CallLocked(c) == c \in closing.calls

-----------------------------------------------------------------------------
(***************************************************************************)
(* The closing transaction of cancel_run and mark_timed_out_runs.          *)
(***************************************************************************)
CloseRun(status) ==
  /\ ~RunLocked
  /\ UpdateRunStatus(run, status) = status
  /\ run # status
  /\ closing' = [Idle EXCEPT !.phase = "steps", !.status = status]
  /\ UNCHANGED <<rowVars, taskVars, invoked, told>>

CloseSteps ==
  /\ closing.phase = "steps"
  /\ closing' = [closing EXCEPT !.phase = "calls",
                                !.steps = {c \in Calls : step[c] \in StepOpen}]
  /\ UNCHANGED <<rowVars, taskVars, invoked, told>>

CloseCalls ==
  /\ closing.phase = "calls"
  /\ closing' = [closing EXCEPT !.phase = "commit",
                                !.calls = {c \in Calls : call[c] \in ToolOpen}]
  /\ UNCHANGED <<rowVars, taskVars, invoked, told>>

\* Mutant: close_open_tool_calls_by_run forgets result_json.
CloseCommit_KeepsResult ==
  /\ closing.phase = "commit"
  /\ run' = closing.status
  /\ step' = [c \in Calls |-> IF StepLocked(c) THEN closing.status ELSE step[c]]
  /\ call' = [c \in Calls |-> IF CallLocked(c) THEN closing.status ELSE call[c]]
  /\ closing' = Idle
  /\ UNCHANGED <<result, started, taskVars, invoked, told>>

CloseCommit ==
  /\ closing.phase = "commit"
  /\ run' = closing.status
  /\ step' = [c \in Calls |-> IF StepLocked(c) THEN closing.status ELSE step[c]]
  /\ call' = [c \in Calls |-> IF CallLocked(c) THEN closing.status ELSE call[c]]
  /\ result' = [c \in Calls |-> IF CallLocked(c) THEN "closure" ELSE result[c]]
  /\ closing' = Idle
  /\ UNCHANGED <<started, taskVars, invoked, told>>

\* Another task of the same run ends it; update_run_status closes no other row.
EndRun(status) ==
  /\ ~RunLocked
  /\ run \in RunActive
  /\ run' = UpdateRunStatus(run, status)
  /\ UNCHANGED <<call, step, result, started, closing, taskVars, invoked, told>>
-----------------------------------------------------------------------------
(***************************************************************************)
(* One worker.  The caller creates the execution step (create_step or      *)
(* append_step), starts it, and calls execute_and_persist_tool_call.       *)
(***************************************************************************)
Goto(w, l) == pc' = [pc EXCEPT ![w] = l]

CreateStep(w, c) ==
  /\ pc[w] = "idle"
  /\ \A v \in Workers : job[v] # c
  /\ step[c] = "absent"
  /\ step' = [step EXCEPT ![c] = CreateStepRow(@, "pending")]
  /\ job' = [job EXCEPT ![w] = c]
  /\ Goto(w, "step")
  /\ UNCHANGED <<run, call, result, started, closing, view, verdict, invoked, told>>

BeginStep(w) ==
  /\ pc[w] = "step"
  /\ ~StepLocked(job[w])
  /\ step' = [step EXCEPT ![job[w]] = StartStep(@)]
  /\ Goto(w, "gate")
  /\ UNCHANGED <<run, call, result, started, closing, job, view, verdict, invoked, told>>

\* _skip_status_for_terminal_run
SkipStatus(status) == IF status = "timed_out" THEN "timed_out" ELSE "cancelled"

\* Mutant: a skip never closes the tool call row.
Skip_StepOnly(w, status, seen) ==
  /\ verdict' = [verdict EXCEPT ![w] = status]
  /\ view' = [view EXCEPT ![w] = seen]
  /\ Goto(w, "skipStep")

Skip(w, status, seen) ==
  /\ verdict' = [verdict EXCEPT ![w] = status]
  /\ view' = [view EXCEPT ![w] = seen]
  /\ Goto(w, IF seen = "running" THEN "skipSave" ELSE "skipStep")

\* The first look at the run; the caller's tool call row, if any, is not running.
Gate(w) ==
  /\ pc[w] = "gate"
  /\ IF run \in RunTerminal
     THEN Skip(w, SkipStatus(run), None)
     ELSE Goto(w, "obtain") /\ UNCHANGED <<view, verdict>>
  /\ UNCHANGED <<rowVars, closing, job, invoked, told>>

Obtain(w) ==
  /\ pc[w] = "obtain"
  /\ LET c == job[w] IN
     \/ /\ call[c] = "absent"                        \* create_tool_call
        /\ call' = [call EXCEPT ![c] = "pending"]
        /\ view' = [view EXCEPT ![w] = "pending"]
        /\ Goto(w, "claim")
        /\ UNCHANGED verdict
     \/ /\ call[c] \in ToolOpen                      \* an approved call
        /\ view' = [view EXCEPT ![w] = call[c]]
        /\ Goto(w, "claim")
        /\ UNCHANGED <<call, verdict>>
     \/ /\ call[c] \in ToolTerminal           \* never executed again
        /\ IF call[c] = "completed"
           THEN /\ view' = [view EXCEPT ![w] = "completed"]
                /\ Goto(w, "done")
                /\ UNCHANGED verdict
           ELSE Skip(w, IF call[c] = "failed" THEN "cancelled" ELSE call[c], call[c])
        /\ UNCHANGED call
  /\ UNCHANGED <<run, step, result, started, closing, job, invoked, told>>

\* Mutant: what start_execution returned is executed without a second look.
Claim_Trusting(w) ==
  /\ pc[w] = "claim"
  /\ ~CallLocked(job[w])
  /\ call' = [call EXCEPT ![job[w]] = StartExecution(@)]
  /\ started' = [started EXCEPT ![job[w]] = @ \/ call[job[w]] \in ToolStartable]
  /\ Goto(w, "invoke")
  /\ UNCHANGED <<run, step, result, closing, job, view, verdict, invoked, told>>

\* ToolCallRepository.start_execution
Claim(w) ==
  /\ pc[w] = "claim"
  /\ ~CallLocked(job[w])
  /\ call' = [call EXCEPT ![job[w]] = StartExecution(@)]
  /\ started' = [started EXCEPT ![job[w]] = @ \/ call[job[w]] \in ToolStartable]
  /\ Goto(w, "recheck")
  /\ UNCHANGED <<run, step, result, closing, job, view, verdict, invoked, told>>

Recheck(w) ==
  /\ pc[w] = "recheck"
  /\ LET seen == call[job[w]] IN
     IF seen = "running"
     THEN /\ view' = [view EXCEPT ![w] = seen]
          /\ Goto(w, "gate2")
          /\ UNCHANGED verdict
     ELSE Skip(w, SkipStatus(seen), seen)
  /\ UNCHANGED <<rowVars, closing, job, invoked, told>>

Gate2(w) ==
  /\ pc[w] = "gate2"
  /\ IF run \in RunTerminal
     THEN Skip(w, SkipStatus(run), view[w])
     ELSE Goto(w, "invoke") /\ UNCHANGED <<view, verdict>>
  /\ UNCHANGED <<rowVars, closing, job, invoked, told>>

Invoke(w) ==
  /\ pc[w] = "invoke"
  /\ invoked' = [invoked EXCEPT ![job[w]] = @ \cup {w}]
  /\ Goto(w, "await")
  /\ UNCHANGED <<rowVars, closing, job, view, verdict, told>>

\* Mutant: the step is completed before the result is saved.
Return_StepFirst(w) ==
  /\ pc[w] = "await"
  /\ \E outcome \in {"completed", "failed"} :
       verdict' = [verdict EXCEPT ![w] = outcome]
  /\ Goto(w, "finish")
  /\ UNCHANGED <<rowVars, closing, job, view, invoked, told>>

\* The executor returns, or raises.
Return(w) ==
  /\ pc[w] = "await"
  /\ \E outcome \in {"completed", "failed"} :
       verdict' = [verdict EXCEPT ![w] = outcome]
  /\ Goto(w, "save")
  /\ UNCHANGED <<rowVars, closing, job, view, invoked, told>>

Write(w, what, next) ==
  LET c == job[w] IN
  /\ ~CallLocked(c)
  /\ call' = [call EXCEPT ![c] = SaveResult(@, verdict[w])]
  /\ result' = [result EXCEPT ![c] =
                  IF call[c] \in SaveSources(verdict[w]) THEN what ELSE @]
  /\ Goto(w, next)
  /\ UNCHANGED <<run, step, started, closing, job, view, verdict, invoked, told>>

Save(w) ==
  /\ pc[w] = "save"
  /\ Write(w, IF verdict[w] = "completed" THEN "output" ELSE "error", "finish")

SkipSave(w) == pc[w] = "skipSave" /\ Write(w, "skip", "skipStep")

\* Mutant: a skipped call saves no tool message.
Finish_SilentSkip(w) ==
  /\ pc[w] \in {"finish", "skipStep"}
  /\ ~StepLocked(job[w])
  /\ step' = [step EXCEPT ![job[w]] = CompleteStep(@, verdict[w])]
  /\ Goto(w, IF pc[w] = "finish" THEN "note" ELSE "done")
  /\ UNCHANGED <<run, call, result, started, closing, job, view, verdict, invoked, told>>

Finish(w) ==
  /\ pc[w] \in {"finish", "skipStep"}
  /\ ~StepLocked(job[w])
  /\ step' = [step EXCEPT ![job[w]] = CompleteStep(@, verdict[w])]
  /\ Goto(w, IF pc[w] = "finish" THEN "note" ELSE "skipNote")
  /\ UNCHANGED <<run, call, result, started, closing, job, view, verdict, invoked, told>>

Note(w) ==
  /\ pc[w] \in {"note", "skipNote"}
  /\ told' = told \cup {job[w]}
  /\ Goto(w, "done")
  /\ UNCHANGED <<rowVars, closing, job, view, verdict, invoked>>

\* execute_and_persist_tool_call, after its caller has started the step.
Execute(w) ==
  \/ Gate(w) \/ Obtain(w) \/ Claim(w) \/ Recheck(w) \/ Gate2(w) \/ Invoke(w)
  \/ Return(w) \/ Save(w) \/ SkipSave(w) \/ Finish(w) \/ Note(w)

Close == CloseSteps \/ CloseCalls \/ CloseCommit
-----------------------------------------------------------------------------
\* Calls that wait for approval already have a row when they are executed.
Init ==
  /\ run = "running"
  /\ call \in [Calls -> {"absent", "waiting_approval"}]
  /\ step = [c \in Calls |-> "absent"]
  /\ result = [c \in Calls |-> "none"]
  /\ started = [c \in Calls |-> FALSE]
  /\ closing = Idle
  /\ pc = [w \in Workers |-> "idle"]
  /\ job = [w \in Workers |-> None]
  /\ view = [w \in Workers |-> None]
  /\ verdict = [w \in Workers |-> None]
  /\ invoked = [c \in Calls |-> {}]
  /\ told = {}

Next ==
  \/ \E status \in RunClosed : CloseRun(status)
  \/ Close
  \/ \E status \in {"completed", "failed"} : EndRun(status)
  \/ \E w \in Workers : \/ \E c \in Calls : CreateStep(w, c)
                        \/ BeginStep(w)
                        \/ Execute(w)

\* A task that has begun runs on, executors return (every connector has a
\* timeout), and an open transaction commits; nobody has to cancel or begin.
Fairness == /\ WF_vars(Close)
            /\ \A w \in Workers : WF_vars(BeginStep(w) \/ Execute(w))

Spec == Init /\ [][Next]_vars /\ Fairness
-----------------------------------------------------------------------------
(***************************************************************************)
(* A call that cancel or timeout closed before start_execution claimed it  *)
(* never reaches its executor, whatever the task of that call had already  *)
(* read: start_execution matches startable rows only, and the row is read  *)
(* again before the executor is called.                                    *)
(***************************************************************************)
ClosedBeforeStartNeverRuns ==
  \A c \in Calls : call[c] \in RunClosed /\ ~started[c] => invoked[c] = {}

(***************************************************************************)
(* result_json belongs to the outcome in status: the executor's output     *)
(* with "completed", its error with "failed", a closing or skipping text   *)
(* with "cancelled" and "timed_out", nothing while the call is open.  The  *)
(* executor's answer that arrives after a cancel must leave the row alone. *)
(***************************************************************************)
ResultMatchesStatus ==
  \A c \in Calls :
    /\ call[c] = "completed" => result[c] = "output" /\ invoked[c] # {}
    /\ call[c] = "failed" => result[c] = "error" /\ invoked[c] # {}
    /\ call[c] \in RunClosed => result[c] \in {"closure", "skip"}
    /\ call[c] \in ToolOpen => result[c] = "none"

(***************************************************************************)
(* A step shown as completed never stands for a tool call that is still    *)
(* open or that failed: save_result commits before complete_step.          *)
(***************************************************************************)
StepTellsTruth ==
  \A c \in Calls : step[c] = "completed" => call[c] \in {"completed"} \cup RunClosed

(***************************************************************************)
(* A task that has returned leaves nothing open behind, in particular not  *)
(* the rows it inserted after the closing transaction of a cancel looked   *)
(* for open rows.  (The first gate of a completed or failed run leaves a   *)
(* call row that waits for approval as it is.)                             *)
(***************************************************************************)
NothingLeftOpen ==
  \A w \in Workers :
    pc[w] = "done" =>
      /\ step[job[w]] \notin StepOpen
      /\ call[job[w]] \in ToolOpen => run \in {"completed", "failed"}

\* A run keeps its terminal status, and a closed tool call keeps its status and
\* its result, against every late writer.
TerminalIsFinal ==
  [][/\ run \in RunTerminal => run' = run
     /\ \A c \in Calls : call[c] \in ToolTerminal =>
          call'[c] = call[c] /\ result'[c] = result[c]]_vars

\* Every dispatched call ends with a tool message in the conversation, which
\* the providers require before the next turn.
EveryCallIsAnswered ==
  \A c \in Calls : (step[c] # "absent") ~> (c \in told)
=============================================================================
