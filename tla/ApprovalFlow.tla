---------------------------- MODULE ApprovalFlow ----------------------------
(***************************************************************************)
(* One run whose model asks for one batch of tool calls that needs human   *)
(* approval: the task that drives the graph (AgentNodes.suspend_for_human, *)
(* services/agent_execution.py: _stream_graph_and_finalize), the tasks     *)
(* that resolve approval requests and resume the graph                     *)
(* (resolve_approval_and_resume_lifecycle), cancel, the timeout sweeper,   *)
(* expiry, and a crash of the process.                                     *)
(*                                                                         *)
(* All graph and resolver tasks share one asyncio loop and call the        *)
(* database synchronously: `loop` is the task that holds it, and a task    *)
(* gives it up only where it awaits (an executor, the model, the           *)
(* checkpointer).  Cancel and the sweeper run in threads, at any commit.   *)
(***************************************************************************)
EXTENDS ToolExecution, Sequences, Naturals

CONSTANTS Batch,    \* the calls in the order the model listed them
          Driver,   \* the worker that runs the graph; the others resolve
          MayCrash  \* may the process restart once?

ASSUME BatchAssumption ==
  /\ Batch \in Seq(Calls)
  /\ \A c \in Calls : \E i \in DOMAIN Batch : Batch[i] = c
  /\ Driver \in Workers
  /\ MayCrash \in BOOLEAN

ASSUME WorkersAssumption == IsFiniteSet(Workers) /\ None \notin Workers \cup {"approved"}

VARIABLES
  kind,      \* "auto" or "approve": the plan's risk level of each call
  talk,      \* does the model's response carry text beside the batch?
  req,       \* approval_requests.status of each call's request
  lapsed,    \* the requests whose expires_at has passed
  aStep,     \* run_steps.status of the step that waits for the approval
  lockA,     \* approval steps matched by the closing transaction
  lockR,     \* requests matched by it, or None before that statement
  at,        \* where each task is
  item,      \* its index in the batch; 0 in a resolver that has not resumed
  target,    \* the call whose request a resolver resolves
  act,       \* "approved" or "rejected"
  resumed,   \* has the task streamed Command(resume=...)?
  ckpt,      \* the thread's checkpoint: what latest_response is
  fed,       \* the statuses from which a resume built the tool messages
  event,     \* the last event the task sends
  replies,   \* final assistant messages saved
  loop,      \* the task that holds the event loop
  crashed    \* has the process restarted?

planVars == <<kind, talk>>
gateVars == <<req, lapsed, aStep>>
lockVars == <<lockA, lockR>>
flowVars == <<item, target, act, resumed, ckpt, fed, event, replies>>
allVars  == <<vars, planVars, gateVars, lockVars, at, flowVars, loop, crashed>>

Resolvers == Workers \ {Driver}

At == {"idle", "llm", "build", "buildCall", "buildReq", "exec", "interrupt",
       "resolve", "rejStep", "rejCall", "appStep", "appAppend",
       "expire", "pending", "getState", "rerun",
       "state", "finExpire", "finPending", "complete", "reply",
       "suspend", "fail", "done", "dead"}

FlowTypeOK ==
  /\ TypeOK
  /\ kind \in [Calls -> {"auto", "approve"}] /\ talk \in BOOLEAN
  /\ req \in [Calls -> RequestStatus] /\ lapsed \in SUBSET Calls
  /\ aStep \in [Calls -> StepStatus]
  /\ lockA \in SUBSET Calls /\ lockR \in (SUBSET Calls) \cup {None}
  /\ at \in [Workers -> At]
  /\ item \in [Workers -> 0 .. Len(Batch) + 1]
  /\ target \in [Workers -> Calls \cup {None}]
  /\ act \in [Workers -> {"approved", "rejected", None}]
  /\ resumed \in [Workers -> BOOLEAN]
  /\ ckpt \in {"none", "batch", "answer", "error"}
  /\ fed \in [Workers -> [Calls -> ToolStatus] \cup {None}]
  /\ event \in [Workers -> {"none", "error", "suspended", "failed", "completed"}]
  /\ replies \in 0 .. Cardinality(Workers)
  /\ loop \in Workers \cup {None} /\ crashed \in BOOLEAN
-----------------------------------------------------------------------------
\* The task goes on without an await, or goes on to an await.
Go(w, l)    == loop \in {None, w} /\ loop' = w /\ at' = [at EXCEPT ![w] = l]
Await(w, l) == loop \in {None, w} /\ loop' = None /\ at' = [at EXCEPT ![w] = l]
Stop(w, e)  == /\ Await(w, "done")
               /\ event' = [event EXCEPT ![w] = e]

ReqLocked(c)   == lockR # None /\ c \in lockR
AStepLocked(c) == c \in lockA

RequestPending(c) == req[c] = "pending" /\ c \notin lapsed
-----------------------------------------------------------------------------
(***************************************************************************)
(* Cancel and timeout: the closing transaction of ToolExecution, which     *)
(* also closes the approval steps and cancels the pending requests.        *)
(***************************************************************************)
FlowCloseRun(status) ==
  /\ CloseRun(status)
  /\ UNCHANGED <<planVars, gateVars, lockVars, at, flowVars, loop, crashed>>

FlowCloseSteps ==
  /\ CloseSteps
  /\ lockA' = {c \in Calls : aStep[c] \in StepOpen}
  /\ UNCHANGED <<planVars, gateVars, lockR, at, flowVars, loop, crashed>>

FlowCloseCalls ==
  /\ CloseCalls
  /\ UNCHANGED <<planVars, gateVars, lockVars, at, flowVars, loop, crashed>>

CancelPendingByRun ==
  /\ closing.phase = "commit" /\ lockR = None
  /\ lockR' = {c \in Calls : req[c] = "pending"}
  /\ UNCHANGED <<vars, planVars, gateVars, lockA, at, flowVars, loop, crashed>>

\* Mutant: the transaction commits only when it has closed a tool call.
FlowCloseCommit_OnlyIfCalls ==
  /\ lockR # None /\ closing.calls # {}
  /\ CloseCommit
  /\ aStep' = [c \in Calls |-> IF AStepLocked(c) THEN closing.status ELSE aStep[c]]
  /\ req' = [c \in Calls |-> IF ReqLocked(c) THEN "cancelled" ELSE req[c]]
  /\ lockA' = {} /\ lockR' = None
  /\ UNCHANGED <<planVars, lapsed, at, flowVars, loop, crashed>>

FlowCloseCommit ==
  /\ lockR # None
  /\ CloseCommit
  /\ aStep' = [c \in Calls |-> IF AStepLocked(c) THEN closing.status ELSE aStep[c]]
  /\ req' = [c \in Calls |-> IF ReqLocked(c) THEN "cancelled" ELSE req[c]]
  /\ lockA' = {} /\ lockR' = None
  /\ UNCHANGED <<planVars, lapsed, at, flowVars, loop, crashed>>

\* Thirty minutes pass.
Lapse(c) ==
  /\ req[c] = "pending" /\ c \notin lapsed
  /\ lapsed' = lapsed \cup {c}
  /\ UNCHANGED <<vars, planVars, req, aStep, lockVars, at, flowVars, loop, crashed>>

\* The process dies with all its tasks and its open transaction; operators
\* may still resolve requests after the restart.
Crash ==
  /\ MayCrash /\ ~crashed
  /\ crashed' = TRUE
  /\ at' = [w \in Workers |-> IF at[w] \in {"idle", "done"} THEN at[w] ELSE "dead"]
  /\ loop' = None /\ closing' = Idle /\ lockA' = {} /\ lockR' = None
  /\ UNCHANGED <<rowVars, taskVars, invoked, told, planVars, gateVars, flowVars>>
-----------------------------------------------------------------------------
(***************************************************************************)
(* The graph: call_llm_gateway, then suspend_for_human over the batch.     *)
(* Only the first turn of the driver asks for tools.                       *)
(***************************************************************************)
CallLLM(w) ==
  /\ at[w] = "llm"
  /\ \/ /\ ~resumed[w]
        /\ ckpt' = "batch"
        /\ item' = [item EXCEPT ![w] = 1]
        /\ Await(w, "build")
     \/ /\ ckpt' \in {"answer", "error"}
        /\ Await(w, "state")
        /\ UNCHANGED item
  /\ UNCHANGED <<vars, planVars, gateVars, lockVars, target, act, resumed, fed,
                 event, replies, crashed>>

Item(w) == Batch[item[w]]

\* An item whose idempotency key is known was handled before.
KnownItem(w) ==
  /\ at[w] = "build" /\ item[w] <= Len(Batch)
  /\ call[Item(w)] # "absent"
  /\ item' = [item EXCEPT ![w] = @ + 1]
  /\ Go(w, "build")
  /\ UNCHANGED <<vars, planVars, gateVars, lockVars, target, act, resumed, ckpt,
                 fed, event, replies, crashed>>

\* Three commits: the step, the tool call, the request.
ApprovalStep(w) ==
  /\ at[w] = "build" /\ item[w] <= Len(Batch)
  /\ call[Item(w)] = "absent" /\ kind[Item(w)] = "approve"
  /\ aStep' = [aStep EXCEPT ![Item(w)] = CreateStepRow(@, "waiting_approval")]
  /\ Go(w, "buildCall")
  /\ UNCHANGED <<vars, planVars, req, lapsed, lockVars, flowVars, crashed>>

ApprovalCall(w) ==
  /\ at[w] = "buildCall"
  /\ call' = [call EXCEPT ![Item(w)] = "waiting_approval"]
  /\ Go(w, "buildReq")
  /\ UNCHANGED <<run, step, result, started, closing, taskVars, invoked, told,
                 planVars, gateVars, lockVars, flowVars, crashed>>

ApprovalRequest(w) ==
  /\ at[w] = "buildReq"
  /\ req' = [req EXCEPT ![Item(w)] = "pending"]
  /\ item' = [item EXCEPT ![w] = @ + 1]
  /\ Go(w, "build")
  /\ UNCHANGED <<vars, planVars, lapsed, aStep, lockVars, target, act, resumed,
                 ckpt, fed, event, replies, crashed>>

\* The execution step of call c, which task w is going to execute.
Dispatch(w, c) ==
  /\ step' = [step EXCEPT ![c] = CreateStepRow(@, "pending")]
  /\ job' = [job EXCEPT ![w] = c]
  /\ Goto(w, "step")
  /\ Go(w, "exec")
  /\ UNCHANGED <<run, call, result, started, closing, view, verdict, invoked, told,
                 planVars, gateVars, lockVars, flowVars, crashed>>

AutoItem(w) ==
  /\ at[w] = "build" /\ item[w] <= Len(Batch)
  /\ call[Item(w)] = "absent" /\ kind[Item(w)] = "auto"
  /\ Dispatch(w, Item(w))

\* execute_and_persist_tool_call holds the loop except while its executor runs.
ExecStep(w) ==
  /\ at[w] = "exec"
  /\ BeginStep(w) \/ Execute(w)
  /\ loop \in {None, w}
  /\ loop' = IF pc'[w] = "await" THEN None ELSE w
  /\ UNCHANGED <<planVars, gateVars, lockVars, at, flowVars, crashed>>

ExecDone(w) ==
  /\ at[w] = "exec" /\ pc[w] = "done"
  /\ pc' = [pc EXCEPT ![w] = "idle"] /\ job' = [job EXCEPT ![w] = None]
  /\ view' = [view EXCEPT ![w] = None] /\ verdict' = [verdict EXCEPT ![w] = None]
  /\ IF item[w] = 0
     THEN Go(w, "expire") /\ UNCHANGED item
     ELSE Go(w, "build") /\ item' = [item EXCEPT ![w] = @ + 1]
  /\ UNCHANGED <<rowVars, closing, invoked, told, planVars, gateVars, lockVars,
                 target, act, resumed, ckpt, fed, event, replies, crashed>>

\* interrupt() stops the first pass and returns the payload in a resumed one.
Interrupt(w) ==
  /\ at[w] = "build" /\ item[w] > Len(Batch)
  /\ Await(w, IF resumed[w] THEN "llm" ELSE "state")
  /\ UNCHANGED <<vars, planVars, gateVars, lockVars, flowVars, crashed>>
-----------------------------------------------------------------------------
(***************************************************************************)
(* _finalize_graph_run                                                     *)
(***************************************************************************)
ReadState(w) ==
  /\ at[w] = "state"
  /\ Go(w, IF ckpt = "error" THEN "fail" ELSE "finExpire")
  /\ UNCHANGED <<vars, planVars, gateVars, lockVars, flowVars, crashed>>

\* expire_pending_requests(run_id=...), here and in a resolver.
ExpirePending(w) ==
  /\ at[w] \in {"finExpire", "expire"}
  /\ \A c \in lapsed : req[c] = "pending" => ~ReqLocked(c)
  /\ req' = [c \in Calls |-> IF req[c] = "pending" /\ c \in lapsed
                             THEN "expired" ELSE req[c]]
  /\ Go(w, IF at[w] = "finExpire" THEN "finPending" ELSE "pending")
  /\ UNCHANGED <<vars, planVars, lapsed, aStep, lockVars, flowVars, crashed>>

FinalizePending(w) ==
  /\ at[w] = "finPending"
  /\ Go(w, IF \E c \in Calls : RequestPending(c) THEN "suspend"
           ELSE IF ckpt = "batch" /\ ~talk THEN "fail" ELSE "complete")
  /\ UNCHANGED <<vars, planVars, gateVars, lockVars, flowVars, crashed>>

SetRun(status) ==
  /\ ~RunLocked
  /\ run' = UpdateRunStatus(run, status)
  /\ UNCHANGED <<call, step, result, started, closing, taskVars, invoked, told>>

\* Mutant: the task reports the suspension and leaves the run as it is.
Suspend_Silent(w) ==
  /\ at[w] = "suspend"
  /\ Stop(w, "suspended")
  /\ UNCHANGED <<vars, planVars, gateVars, lockVars, item, target, act, resumed, ckpt,
                 fed, replies, crashed>>

Suspend(w) ==
  /\ at[w] = "suspend"
  /\ SetRun("waiting_approval")
  /\ Stop(w, "suspended")
  /\ UNCHANGED <<planVars, gateVars, lockVars, item, target, act, resumed, ckpt, fed,
                 replies, crashed>>

\* Mutant: the status that update_run_status returned is not looked at.
Complete_Trusting(w) ==
  /\ at[w] = "complete"
  /\ SetRun("completed")
  /\ Go(w, "reply")
  /\ UNCHANGED <<planVars, gateVars, lockVars, flowVars, crashed>>

\* _terminal_error_message knows only of cancelled and timed-out runs.
Complete(w) ==
  /\ at[w] = "complete"
  /\ SetRun("completed")
  /\ IF run' \in RunClosed
     THEN Stop(w, "failed")
     ELSE Go(w, "reply") /\ UNCHANGED event
  /\ UNCHANGED <<planVars, gateVars, lockVars, item, target, act, resumed, ckpt, fed,
                 replies, crashed>>

Reply(w) ==
  /\ at[w] = "reply"
  /\ replies' = replies + 1
  /\ Stop(w, "completed")
  /\ UNCHANGED <<vars, planVars, gateVars, lockVars, item, target, act, resumed, ckpt,
                 fed, crashed>>

\* _mark_run_failed
Fail(w) ==
  /\ at[w] = "fail"
  /\ SetRun("failed")
  /\ Stop(w, "failed")
  /\ UNCHANGED <<planVars, gateVars, lockVars, item, target, act, resumed, ckpt, fed,
                 replies, crashed>>
-----------------------------------------------------------------------------
(***************************************************************************)
(* resolve_approval_and_resume_lifecycle                                   *)
(***************************************************************************)
Look(w, c, a) ==
  /\ at[w] = "idle" /\ w \in Resolvers
  /\ req[c] # "absent"
  /\ target' = [target EXCEPT ![w] = c] /\ act' = [act EXCEPT ![w] = a]
  /\ IF req[c] = "pending" /\ run \notin RunTerminal
     THEN Go(w, "resolve") /\ UNCHANGED event
     ELSE Stop(w, "error")
  /\ UNCHANGED <<vars, planVars, gateVars, lockVars, item, resumed, ckpt, fed, replies,
                 crashed>>

\* Mutant: the caller carries on with a request that has just expired.
Resolve_IgnoresExpiry(w) ==
  /\ at[w] = "resolve"
  /\ LET c == target[w] IN
     /\ ~ReqLocked(c)
     /\ req' = [req EXCEPT ![c] = IF c \in lapsed THEN "expired"
                                   ELSE ResolveRequest(@, act[w])]
  /\ Go(w, IF act[w] = "rejected" THEN "rejStep" ELSE "appStep")
  /\ UNCHANGED <<vars, planVars, lapsed, aStep, lockVars, flowVars, crashed>>

\* The task read the request as pending.  A lapsed one is written as expired
\* through the ORM, whatever another session wrote since.
Resolve(w) ==
  /\ at[w] = "resolve"
  /\ LET c == target[w] IN
     /\ ~ReqLocked(c)
     /\ IF c \in lapsed
        THEN /\ req' = [req EXCEPT ![c] = "expired"]
             /\ Stop(w, "error")
        ELSE /\ req' = [req EXCEPT ![c] = ResolveRequest(@, act[w])]
             /\ IF req[c] = "pending"
                THEN /\ Go(w, IF act[w] = "rejected" THEN "rejStep" ELSE "appStep")
                     /\ UNCHANGED event
                ELSE Stop(w, "error")
  /\ UNCHANGED <<vars, planVars, lapsed, aStep, lockVars, item, target, act, resumed,
                 ckpt, fed, replies, crashed>>

\* Mutant: the approval step takes the status of the rejected call.
CloseApprovalStep_Rejected(w) ==
  /\ at[w] \in {"rejStep", "appStep"}
  /\ ~AStepLocked(target[w])
  /\ aStep' = [aStep EXCEPT ![target[w]] =
                 CompleteStep(@, IF at[w] = "rejStep" THEN "rejected" ELSE "completed")]
  /\ Go(w, IF at[w] = "rejStep" THEN "rejCall" ELSE "appAppend")
  /\ UNCHANGED <<vars, planVars, req, lapsed, lockVars, flowVars, crashed>>

\* The approval step ends: failed by persist_rejected_tool_call, else completed.
CloseApprovalStep(w) ==
  /\ at[w] \in {"rejStep", "appStep"}
  /\ ~AStepLocked(target[w])
  /\ aStep' = [aStep EXCEPT ![target[w]] =
                 CompleteStep(@, IF at[w] = "rejStep" THEN "failed" ELSE "completed")]
  /\ Go(w, IF at[w] = "rejStep" THEN "rejCall" ELSE "appAppend")
  /\ UNCHANGED <<vars, planVars, req, lapsed, lockVars, flowVars, crashed>>

\* Mutant: a rejected call is executed all the same.
RejectCall_FallsThrough(w) ==
  /\ at[w] = "rejCall"
  /\ LET c == target[w] IN
     /\ ~CallLocked(c)
     /\ call' = [call EXCEPT ![c] = SaveResult(@, "rejected")]
     /\ result' = [result EXCEPT ![c] =
                     IF call[c] \in SaveSources("rejected") THEN "rejection" ELSE @]
     /\ told' = told \cup {c}
  /\ Go(w, "appAppend")
  /\ UNCHANGED <<run, step, started, closing, taskVars, invoked, planVars, gateVars,
                 lockVars, flowVars, crashed>>

\* Mutant: a rejection writes the conversation and not the tool call.
RejectCall_MessageOnly(w) ==
  /\ at[w] = "rejCall"
  /\ told' = told \cup {target[w]}
  /\ Go(w, "expire")
  /\ UNCHANGED <<rowVars, closing, taskVars, invoked, planVars, gateVars, lockVars,
                 flowVars, crashed>>

RejectCall(w) ==
  /\ at[w] = "rejCall"
  /\ LET c == target[w] IN
     /\ ~CallLocked(c)
     /\ call' = [call EXCEPT ![c] = SaveResult(@, "rejected")]
     /\ result' = [result EXCEPT ![c] =
                     IF call[c] \in SaveSources("rejected") THEN "rejection" ELSE @]
     /\ told' = told \cup {c}
  /\ Go(w, "expire")
  /\ UNCHANGED <<run, step, started, closing, taskVars, invoked, planVars, gateVars,
                 lockVars, flowVars, crashed>>

\* append_step and attach_to_step: the call moves to a step of its own.
ExecuteApproved(w) ==
  /\ at[w] = "appAppend"
  /\ Dispatch(w, target[w])

ResolverPending(w) ==
  /\ at[w] = "pending"
  /\ \/ /\ \E c \in Calls : RequestPending(c)
        /\ Go(w, "suspend")
     \/ /\ ~ \E c \in Calls : RequestPending(c)
        /\ IF \E c \in Calls : req[c] \in {"expired", "cancelled"}
           THEN Go(w, "fail")
           ELSE Await(w, "getState")
  /\ UNCHANGED <<vars, planVars, gateVars, lockVars, flowVars, crashed>>

\* Every provider id of latest_response needs a row; the run's new status is
\* not looked at before the graph is resumed.
Resume(w) ==
  /\ at[w] = "getState"
  /\ IF ckpt = "batch" /\ \E c \in Calls : call[c] = "absent"
     THEN /\ Go(w, "fail")
          /\ UNCHANGED <<vars, fed, resumed>>
     ELSE /\ SetRun("running")
          /\ fed' = [fed EXCEPT ![w] = IF ckpt = "batch" THEN call ELSE None]
          /\ resumed' = [resumed EXCEPT ![w] = TRUE]
          /\ Await(w, "rerun")
  /\ UNCHANGED <<planVars, gateVars, lockVars, item, target, act, ckpt, event, replies,
                 crashed>>

\* Command(resume=...): the interrupted node runs again from its first line; a
\* thread that has ended has nothing to run.
Rerun(w) ==
  /\ at[w] = "rerun"
  /\ IF ckpt = "batch"
     THEN Go(w, "build") /\ item' = [item EXCEPT ![w] = 1]
     ELSE Await(w, "state") /\ UNCHANGED item
  /\ UNCHANGED <<vars, planVars, gateVars, lockVars, target, act, resumed, ckpt, fed,
                 event, replies, crashed>>
-----------------------------------------------------------------------------
FlowInit ==
  /\ Init /\ call = [c \in Calls |-> "absent"]
  /\ kind \in [Calls -> {"auto", "approve"}]
  /\ \E c \in Calls : kind[c] = "approve"
  /\ talk \in BOOLEAN
  /\ req = [c \in Calls |-> "absent"] /\ lapsed = {}
  /\ aStep = [c \in Calls |-> "absent"]
  /\ lockA = {} /\ lockR = None
  /\ at = [w \in Workers |-> IF w = Driver THEN "llm" ELSE "idle"]
  /\ item = [w \in Workers |-> 0]
  /\ target = [w \in Workers |-> None] /\ act = [w \in Workers |-> None]
  /\ resumed = [w \in Workers |-> FALSE]
  /\ ckpt = "none" /\ fed = [w \in Workers |-> None]
  /\ event = [w \in Workers |-> "none"]
  /\ replies = 0 /\ loop = None /\ crashed = FALSE

Task(w) ==
  \/ CallLLM(w) \/ KnownItem(w) \/ ApprovalStep(w) \/ ApprovalCall(w)
  \/ ApprovalRequest(w) \/ AutoItem(w) \/ ExecStep(w) \/ ExecDone(w) \/ Interrupt(w)
  \/ ReadState(w) \/ ExpirePending(w) \/ FinalizePending(w) \/ Suspend(w)
  \/ Complete(w) \/ Reply(w) \/ Fail(w)
  \/ Resolve(w) \/ CloseApprovalStep(w) \/ RejectCall(w) \/ ExecuteApproved(w)
  \/ ResolverPending(w) \/ Resume(w) \/ Rerun(w)

\* No task is at work.
Quiet == \A w \in Workers : at[w] \in {"idle", "done", "dead"}

FlowClose == FlowCloseSteps \/ FlowCloseCalls \/ CancelPendingByRun \/ FlowCloseCommit

FlowNext ==
  \/ \E status \in RunClosed : FlowCloseRun(status)
  \/ FlowClose
  \/ \E c \in Calls : Lapse(c)
  \/ Crash
  \/ \E w \in Workers :
       \/ Task(w)
       \/ \E c \in Calls, a \in {"approved", "rejected"} : Look(w, c, a)

\* The sweeper of a restarted process: a run that no task touches grows stale.
SweepAfterCrash == crashed /\ Quiet /\ FlowCloseRun("timed_out")

FlowFairness == /\ WF_allVars(FlowClose) /\ WF_allVars(SweepAfterCrash)
                /\ \A w \in Workers : WF_allVars(Task(w))

FlowSpec == FlowInit /\ [][FlowNext]_allVars /\ FlowFairness
-----------------------------------------------------------------------------
(***************************************************************************)
(* A call that needs approval reaches its executor only if its request was *)
(* approved, and no call reaches it twice: not when two operators answer   *)
(* one request, not when the resumed graph runs suspend_for_human again.   *)
(***************************************************************************)
OnlyApprovedOnce ==
  \A c \in Calls : /\ kind[c] = "approve" /\ invoked[c] # {} => req[c] = "approved"
                   /\ Cardinality(invoked[c]) <= 1

(***************************************************************************)
(* The flow implements the abstract gate: whatever the tasks, the sweeper, *)
(* a cancel and a crash do, every step of theirs is one of its steps.  In  *)
(* particular an answer is never revised by a second operator, by expiry   *)
(* or by a cancel, and the run ends in one way only.                       *)
(***************************************************************************)
Human == INSTANCE HumanGate WITH
  dangerous <- {c \in Calls : kind[c] = "approve"},
  outcome   <- IF run \in RunTerminal THEN run ELSE "open",
  decision  <- req,
  ran       <- [c \in Calls |-> Cardinality(invoked[c])]

ImplementsGate == Human!GateSpec

\* No skip ever writes "rejected" into run_steps, whose CHECK would refuse it.
NoRejectedStep == \A w \in Workers : verdict[w] # "rejected"

(***************************************************************************)
(* No run is forgotten: when every task has returned and the process has   *)
(* not crashed, the run has ended, or it waits for approval with a request *)
(* that can be answered or that lapsed, which leaves it to the sweeper.    *)
(***************************************************************************)
QuietRunIsEnded ==
  Quiet /\ ~crashed => \/ run \in RunTerminal
                       \/ /\ run = "waiting_approval"
                          /\ \E c \in Calls : req[c] \in {"pending", "expired"}

(***************************************************************************)
(* A run that a task reports as completed has completed, and is never one  *)
(* that was cancelled or timed out (test_cancelled_run_is_not_reported_    *)
(* completed asks this of one schedule).  The one report that is not true  *)
(* is that of a run which another task has failed, and reported as failed: *)
(* _terminal_error_message does not ask for that status.                   *)
(***************************************************************************)
CompletedReportIsTrue ==
  \A w \in Workers : event[w] = "completed" =>
    \/ run = "completed"
    \/ run = "failed" /\ \E v \in Workers : event[v] = "failed"

(***************************************************************************)
(* A decision is carried out: once a request is approved or rejected, its  *)
(* call ends or the run does, also if the process dies between the commit  *)
(* of the decision and the call, where no request is left to be answered.  *)
(***************************************************************************)
DecisionTakesEffect ==
  \A c \in Calls :
    (req[c] \in {"approved", "rejected"}) ~>
      (call[c] \in ToolTerminal \/ run \in RunTerminal)

\* Every task returns: nothing waits for a lock or for the loop forever.
TasksReturn == \A w \in Workers : [](at[w] # "idle" => <>(at[w] \in {"done", "dead"}))

(***************************************************************************)
(* "Approval batch is incomplete and cannot be resumed."                   *)
(* (agent_execution.py:327): the graph is resumed only with the outcome of *)
(* every call of the batch.  The check counts rows, not outcomes; here it  *)
(* is asked of a batch none of whose requests has lapsed.                  *)
(***************************************************************************)
IncompleteBatchIsNotResumed ==
  lapsed = {} =>
    \A w \in Workers : fed[w] # None => \A c \in Calls : fed[w][c] \in ToolTerminal

(***************************************************************************)
(* test_cancel_run_marks_run_and_open_child_records_cancelled, over all    *)
(* schedules: a cancelled run keeps no open child record once its tasks    *)
(* have returned.                                                          *)
(***************************************************************************)
CancelledRunHasNoOpenChild ==
  run \in RunClosed /\ Quiet /\ ~crashed =>
    \A c \in Calls : /\ req[c] # "pending"
                     /\ aStep[c] \notin StepOpen
                     /\ call[c] \notin ToolOpen
=============================================================================
