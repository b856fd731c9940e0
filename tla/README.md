# A TLA+ model of the Telecom Agent Execution Engine

This directory specifies the part of the engine that decides *what an agent may
do, what the database says about it and what its user is told*: runs, timeline
steps, tool calls, approval requests, chat messages, operator interventions and
skills, the tool runners with their connectors and sandbox, the model gateway
and the event stream, and the tasks, operators, browsers, cancels, timeouts and
crashes that work on them at the same time. TLC checks the modules on small
instances; TLAPS proves every safety property of the runs for all instances.

Paths below are relative to `src/backend/app/` unless they start with `src/`.

## 1. The system

A FastAPI application, one uvicorn process (`src/Makefile`), one asyncio event
loop, a thread pool for the synchronous handlers, PostgreSQL, and LangGraph with
a checkpointer.

| Component | State it keeps | Operations | What makes it correct |
|---|---|---|---|
| **Row updates** `database/repositories/*` | status columns of `agent_runs`, `run_steps`, `tool_calls`, `approval_requests`, `chat_messages.metadata_json` | conditional `UPDATE`s: `update_run_status`, `start_execution`, `save_result`, `start_step`, `complete_step`, `resolve_request`, closing and expiring updates | a terminal status is final; a status is one the CHECK constraints know |
| **Tool execution** `agent/tool_execution.py` | one `tool_calls` row and one step per call | gate, create or obtain, claim, look again, execute, save, finish the step, save the tool message | a closed call does not run; late answers change nothing; nothing stays open; every call is answered |
| **Run lifecycle** `services/runs.py`, `main.py` | — | `cancel_run`, `mark_timed_out_runs` (endpoint and sweeper), `queue_intervention` | the closing transaction covers all rows a run owns |
| **Graph and loop** `agent/graph.py`, `nodes.py`, `routing.py` | `AgentState` in the checkpoint; the numbered timeline | `call_llm_gateway`, `reliability_router`, `execute_tools`, `suspend_for_human`, `fail_unsafe_or_exhausted` | the step budget; a step per turn and call; the graph ends |
| **Approval and resume** `services/agent_execution.py`, `api/approvals.py` | requests, the interrupted thread | run lifecycle, resolve and resume, finalize, mark failed | a dangerous call runs once and only after approval; a decision is carried out; no run is forgotten |
| **Interventions** `database/repositories/messages.py` | `intervention_status` of operator messages | queue, list, inject, mark undelivered, requeue | each is consumed once, by a prompt that contained it |
| **Batch planner, validation** `agent/tool_batch_planner.py`, `tool_validation.py`, `safety.py`, `sandbox/domain_validator.py`, `security_analyzer.py` | none | classify calls, check arguments, route batches, check SQL, SSH and scripts | dangerous calls never take the automatic route; no part of a batch with an invalid call is put to an operator |
| **Tools and runners** `agent/builtin_tools.py`, `builtin_runners.py`, `connectors/*` | an open connector per call | the catalog of a turn, the approval gate, one runner per tool, retries of PostgreSQL | only approved calls change a device; nothing is repeated blindly; connectors are closed; today's settings count |
| **Sandbox** `sandbox/docker_executor.py` | a container and a directory per script | run, time out, remove | nothing is left behind |
| **Skill registry** `services/skills.py`, `api/skills.py` | skills and their files | upload, validate, approve, reject, load | only reviewed skills are ready |
| **Chat messages** `database/repositories/messages.py` | `chat_messages`, numbered per session | save under an advisory lock, history, status of interventions | numbers without a gap, no insert refused |
| **LLM gateway** `llm/*` | adapters | invoke and stream with fallback providers | no text of two providers in one answer |
| **Context window** `agent/context_window.py` | none | compact the history | never larger than before; tool messages stay with their request |
| **Streaming** `streaming/*`, `api/chat.py` | a queue per subscriber | shielded stream, SSE | a client that leaves does not stop the run; the verdict of the stream is that of the row |
| **Telemetry** `observability/langfuse.py` | root spans of runs | start, end | every root is ended |
| **Prompts, frontend, sample skills, migrations** | — | texts, rendering, data | out of scope (section 7) |

How they interact. The graph and the resolvers are coroutines on one loop that
call the database synchronously, so they alternate only where they await (an
executor, the model, the checkpointer). Cancel, the sweeper, interventions and
queries run in threads with sessions of their own and can commit between any
two statements of a coroutine. A coroutine keeps one session for its whole run
with `expire_on_commit=False`; what it read stays as it was until it asks again
(`get_run_fresh`, `get_tool_call_fresh`). LangGraph runs an interrupted node
again from its first line when the thread is resumed.

The hard behaviours are therefore: check-then-act across sessions, rows that
appear after the closing transaction looked for them, two operators on one
request or on two requests of one batch, a node that runs twice, two counters
that number one timeline, messages that arrive while the model answers, tasks
that die with the process, plans that outlive it, browsers that leave, providers
that fail in the middle of an answer, and containers that outlive their client. `PROJECT.json` lists each hazard at its line,
with the properties that cover it or the reason why none does yet.

## 2. Modules

| Module | Models | Uses |
|---|---|---|
| `RunStore` | the guarded UPDATEs as operators on a status | — |
| `ToolExecution` | `execute_and_persist_tool_call` by several tasks against the closing transaction | `RunStore` |
| `ToolExecutionProofs` | theorems on `ToolExecution` | TLAPS |
| `HumanGate` | abstract: what the approval flow promises | — |
| `HumanGateProofs` | theorems on `HumanGate` | TLAPS |
| `ApprovalFlow` | one run with one batch that needs approval; refines `HumanGate` | `ToolExecution`, `HumanGate` |
| `ApprovalFlowProofs` | theorems on `ApprovalFlow`, the refinement of `HumanGate` among them | TLAPS |
| `Mailbox` | abstract: what operators may expect of the messages they write to runs | — |
| `AgentLoop` | the graph loop, the timeline and interventions over the runs of a session; refines `Mailbox` | `RunStore`, `Mailbox` |
| `AgentLoopProofs` | theorems on `AgentLoop`, the refinement of `Mailbox` among them | TLAPS |
| `SkillRegistry` | upload, review and use of skills | — |
| `SkillRegistryProofs` | theorems on `SkillRegistry` | TLAPS |
| `ToolCatalog` | pure: the catalog of a turn, argument validation, plan and route of a batch, the SSH guard | — |
| `DockerSandbox` | `_run_in_container`: the thread, its client, the daemon | — |
| `ToolRunners` | one batch from its plan to the devices, over a restart | `ToolCatalog`, `DockerSandbox` |
| `ToolRunnersProofs` | theorems on `ToolRunners` with its catalog and sandbox | TLAPS |
| `MessageStore` | the messages of a session and the statements of `save_message` | — |
| `LlmGateway` | the providers of a request, fallback and errors | — |
| `ShieldedStream` | the queue between a task and its browser | — |
| `ContextWindow` | pure: compaction | — |
| `ChatRequest` | `POST /chat/stream` from the request to the end of its task | the four above |
| `ChatRequestProofs` | theorems on the messages, the types and the prompts of `ChatRequest` | TLAPS |
| `ChatStreamProofs` | theorems on the event stream of `ChatRequest` | TLAPS |
| `MC*` | batches, packages, cases and symmetry for TLC | |

Definitions named `X_Something` with the comment "Mutant" are plausible bugs of
definition `X`; nothing uses them. Each property is known to fail when one of
them takes the place of its original.

### RunStore
`UpdateRunStatus`, `StartExecution`, `SaveResult`, `StartStep`, `CompleteStep`,
`CreateStepRow`, `ResolveRequest` return what a status column holds after the
statement, given what it held. "absent" is a row not yet inserted. `StepStatus` has no "rejected": the
CHECK constraint of `run_steps` refuses it, so a model that could write it
fails its type invariant where the program would raise.

### ToolExecution
`run`, `call`, `step`, `result` and `started` are columns; `pc`, `job`, `view` and
`verdict` are a worker's position and local variables; `invoked` and `told`
record entries of the executor and saved tool messages. One action per commit
or fresh read: `Gate`, `Obtain`, `Claim`, `Recheck`, `Gate2`, `Invoke`, `Return`,
`Save`/`SkipSave`, `Finish`, `Note`. The closing transaction is `CloseRun`,
`CloseSteps`, `CloseCalls`, `CloseCommit`: each UPDATE collects the rows it
matches, these stay locked (other sessions wait) and all change at the commit;
a row inserted in between is missed, as under READ COMMITTED. In this module
tasks interleave freely, which is more than one event loop allows.

### ApprovalFlow
Adds the batch (`kind`, `Batch`), requests (`req`, `lapsed`), approval steps
(`aStep`), the checkpoint (`ckpt`) and tasks (`at`, `item`, `target`, `act`,
`resumed`, `fed`, `event`). `Driver` runs the graph; each other worker is one
HTTP request that resolves an approval. `loop` is the task that holds the event
loop: `Go` continues without an await, `Await` gives the loop up. `ExecStep`
reuses the actions of `ToolExecution` for the tool call itself. `Rerun` sends the
resumed node back to its first item. `Resolve` writes an expired request through
the ORM, which asks for nothing but the primary key, exactly as the code does;
that is why the abstract `Expire` admits requests that a cancel has just closed.
`Crash` ends every task and rolls back the open transaction, once.
`_terminal_error_message` knows only cancelled and timed-out runs, so `Complete`
on a failed run still reports completion; the model keeps that, and
`CompletedReportIsTrue` names it: the failure was then reported by another task.

### AgentLoop
`timeline[r]` is the sequence of steps with indexes 0, 1, ...; `idx` is
`current_step_index`. `CreateStep` returns an existing step with that index and
`AppendStep` takes the next free one, as in the repository; `CloseSteps` is the
closing transaction's UPDATE of the open ones. A tool call is one step here. `OwnsCall` is the unique constraint on `tool_calls.run_step_id`: a
task that violates it dies, because `_mark_run_failed` uses the same broken
session; the run then waits for the sweeper. Interventions go through
`AskToQueue`/`QueueNote` (the status is read before the message is saved),
`ReadNotes`, `Consume`, `FailRun` and `Requeue`. The read of a run's status and
the insertion of a message are separate steps, so a message can arrive at a run
that has ended. The module refines `Mailbox`, in which a letter is opened once, by
an answer to the prompt that showed it, and by the reader it was waiting for:
`box` is `note` (the rows of `interventions`), `prompt` is `seen` (what a turn
read), `opened` is `taken` (how often a row was consumed). Tasks, timelines,
cancels and the sweeper do not exist there. `Open` asks that all letters of the
prompt still wait; `mark_interventions_injected` asks nothing.

### SkillRegistry
An upload (`pack`, `upc`, `judged`, `manifest`, `verdict`) goes through `Receive`
(parse, look the name up, scan), `Judge`, `Smoke`, `Store` and `Settle`; the last
two are the two commits, of which the first shows the row as "uploaded". The row
of a name is `row` (whose package), `status` and `flag` (`is_malicious`). A review
is a read (`OpenReview`) and an unconditional write (`CommitReview`): an ORM
attribute set to the value the session already holds is not written. A run
(`at`, `held`, `cached`, `offered`, `asked`) selects a skill, builds the catalog of
each turn from the ready skills and calls `load_skill` in its own session, or
`run_skill_script` after an operator's answer in another request's session.
`cached` says that the run's generator still holds the selected skill's object,
in which case `get_skill_by_name` returns the status it had then. What the checks
find in a package is part of the package. Uploads of one process do not really
interleave between `Store` and `Settle`; the model allows it.

### ToolCatalog, DockerSandbox and ToolRunners
`ToolCatalog` has no state. A tool call is a name and a record of JSON values
`[type, val]`; a schema is a record that has only the keywords it uses, so that
`ValidValue` can ask for them as `_validate_value` does. `PlanItem` and `PlanRoute`
are `plan_tool_batch`. The arms of every CASE exclude one another, since TLA+ does
not say which of two true ones is taken, where Python takes the first. `SshHost` and `NodeAllowed` resolve a node; `VerifySsh` is
the guard of the SSH connector, on a command's first word and on the name put
into it, which is what its patterns look at.

`DockerSandbox` has the thread of a job (`box`), its directory (`workspace`), its
container as the daemon sees it and `stuck`, the jobs whose `docker rm -f` failed.
A timeout kills the client alone; a container that the daemon has still to
create cannot be removed and is created later, but only a living client starts
it.

`ToolRunners` plans a batch (`MakePlan`), lets the node carry its items out one at
a time (`RefuseItem`, `DispatchItem`, `AskForItem`; approved calls run in other
tasks) and follows each call through its runner. `Stages` lists, per tool, the
connectors it opens and the commands it sends through each. `Connect`,
`Answered`, `ConnectionFails`, `OpFails`, `Blocked` and `Close` are the connector's
life; `sent` records what left the process, also when no answer came. `Restart`
replaces the settings: calls in hand are lost, calls that wait for an operator
survive with the plan they were given.

### MessageStore, LlmGateway, ShieldedStream, ContextWindow and ChatRequest
A request (`at`) is accepted by `Arrive`, its task begins with `StartStream`, saves
the user's message statement by statement (`AcquireLock`, `ReadMax`, `Insert`),
begins its run (`BeginRun`: the run, taking over undelivered interventions,
history, root span) and then takes turns: `StartTurn` reads interventions and
decides whether to compact, `Compact` is the await for a summary, `StreamText` and
`ProviderFails` are the answer's chunks, `FinishAnswer` the commit at its end.
`Route`, `RunTools`, `GraphRaises` are the rest of the graph; `Finalize`, `Complete`
and `MakeTitle` end the request. What lies between two awaits is one action, since
all requests share one event loop; `LoopFree` says that a request in `save_message`
blocks that loop, while threads (`PostIntervention`, cancel, the sweeper) go on.
`convo` is `state.messages` with its reducer (`Newest`).

`call[r]` is the position in the order of providers and the parts streamed so far;
`FallBack` is possible before the first part only. `made` and `seen` observe what
the task produced and what the browser got; `queue` lies between. A message of
`ContextWindow` is a role and a number of tokens; `Fitting` enumerates the lengths
that the binary search for a truncated summary may end at. `InOrder` is `ORDER BY`:
the rows at hand by their rank, as in `History`. `Verbatim` is what a prompt holds
besides the summary in front.

## 3. Runs

| Run | Bounds | Shows |
|---|---|---|
| `tool_execution` | 2 calls (each new or waiting for approval), 2 tasks | `ClosedBeforeStartNeverRuns`, `ResultMatchesStatus`, `StepTellsTruth`, `NothingLeftOpen`, `TerminalIsFinal`, `EveryCallIsAnswered` |
| `approval_flow` | 2 calls (automatic or dangerous), driver and 2 resolvers, one crash | `OnlyApprovedOnce`, `NoRejectedStep`, `QuietRunIsEnded`, `CompletedReportIsTrue`, refinement `ImplementsGate` |
| `approval_flow_live` | as above with 1 resolver | `DecisionTakesEffect`, `TasksReturn` |
| `agent_loop` | a session of 2 runs with 1 intervention and a limit of 2 steps, or of 1 run with 2 interventions and a limit of 5 | `InjectedWasHeard`, `ConsumedOnce`, `StepBudget`, `NoStepLeftOpen`, `EveryRunEnds`; refinement `ImplementsMailbox` |
| `skill_registry` | 2 uploads of 5 packages, 2 names, 2 scripts, 2 reviews, 1 run, crashes | `OnlyVettedSkillsUsed`, `ReviewableIsSound`, `AnswerMatchesStore`, `StoredIsNotReplaced` |
| `tool_runners` | 13 batches of 1 or 2 calls under 5 settings, 1 restart into other settings, docker present or not | `MutationsWereApproved`, `NoBlindRepeat`, `SentWithinLimits`, `NothingLeftBehind`, `TodaysSettings`, `EveryCallReturns` |
| `chat_request` | 2 requests, 1 thread, 2 providers; texts of 2 parts; 3 messages remembered; cases below | `NumberedInOrder`, `AnswerIsOneVoice`, `StreamTellsTruth`, `PromptIsSound`, `EveryRequestEnds` |
| `approval_flow_incomplete`, `approval_flow_cancelled`, `agent_loop_lost_turn`, `agent_loop_unsettled`, `skill_registry_stale` | see section 4 | disagreements |

Why the bounds are enough. Conflicts are between one closing transaction and a
task, or between two tasks and one row or one batch; two calls let one of them
be inserted before and one after every statement of the transaction, and let a
batch be half decided. Three workers are the driver and two operators, on the
same request or on different ones. Two runs are needed to hand an undelivered
message on. A limit of five steps is long enough for two approved calls to append
steps (indexes 3 and 4) that the next turn (3) and its tool (4) meet. Two
uploads of one name meet at the unique constraint, two reviews of one skill at its
status, and two scripts let one fail and one pass. The batches of `tool_runners`
meet every branch of the plan and every runner, each together with a call of
another kind; its settings differ in every field a runner asks, and one restart
puts any two of them in sequence. `chat_request` is the union of four kinds of
sessions: two requests and a thread that number their messages at once (three
writers: two can be one behind the other at the lock while the third holds it);
one request whose browser may leave at any event and whose two providers may
fail at any of two parts; one request after each of the 80 histories of two or
three messages, large or small, where 7 tokens trigger the compaction and 5 are
its target, so that every path of it is taken, including those where no summary
fits; and one request with more turns than the three messages its state keeps.
The program's 40 and 200,000 change only how long it takes to get there. The
resolvers are interchangeable, hence the symmetry of `approval_flow`, which has
no liveness property; its temporal property is a safety formula.

Every wait in the models may be infinite by design (a request nobody answers),
so deadlock is not checked; the liveness properties say what must not stop.

`SaveResult` and the other updates see one status column. Data is abstract: a
tool's arguments and output, prompts and messages appear only as far as a
property tells them apart (`result` says who wrote `result_json`).

## 4. Disagreements between code and documentation

1. `IncompleteBatchIsNotResumed`. "Approval batch is incomplete and cannot be
   resumed." (`services/agent_execution.py:327`) is decided by counting rows, not
   outcomes. In a batch of an automatic and a dangerous call the request can be
   answered while `suspend_for_human` still executes the automatic call: the
   resolver finds no pending request and a row for every call, resumes the graph
   and feeds the model an empty error outcome for the call that is running. Two
   operators who answer two requests side by side get the same (with a second
   resolver). `lapsed = {}` leaves out a third way, in which a request lapses
   between `expire_pending_requests` and `get_pending_requests`.
2. `CancelledRunHasNoOpenChild`. `src/backend/tests/test_run_lifecycle.py:111`
   (`test_cancel_run_marks_run_and_open_child_records_cancelled`) holds for rows
   that exist at the cancel. `suspend_for_human` does not look at the run, so
   items it creates afterwards stay open.
3. `LlmTurnHasItsStep`. `agent/nodes.py:425`: "persist an LLM timeline step". After
   an approval the resumed graph's `current_step_index` is the index that
   `append_step` gave to the approved execution; `create_step` returns that
   completed step and the turn leaves no step. With two approvals and a tool in
   the next turn the unique constraint on `run_step_id` is violated as well.
4. `InterventionIsSettled`. `common/enums.py:31` documents "pending → undelivered
   (run failed/cancelled before injection)"; cancel does not touch interventions,
   and `_mark_run_failed` rolls back on a cancelled run. The run shows a
   message that is pending when its run is cancelled: the task ends without
   consuming it, and it stays pending, since requeueing looks for "undelivered". The
   property asks only about messages that were pending while the run was active;
   one that is inserted after its run ended stays pending as well (section 7).
5. `LoadedIsReady`. `src/README.md:82`: "`load_skill`: Load approved skill metadata."
   `run_agent_lifecycle` keeps the selected skill's object in a local variable
   (`services/agent_execution.py:65`), so the session's identity map never loses
   it and `_run_load_skill` sees "ready" after an operator rejected the skill
   during the model's turn. The next turn notices, since it asks the database.

## 5. Fairness

`ToolExecution`: weak fairness of each worker's steps (a coroutine that has begun
is scheduled again; every connector and the sandbox have timeouts, so executors
return) and of the closing transaction (three statements and a commit in one
function). Nobody has to start a call or to cancel. `ApprovalFlow`: the same for
each task and the transaction, and of the sweeper for a run that no task of a
restarted process touches (`SweepAfterCrash`: it lists running and waiting runs by
`updated_at`, every minute); operators, expiry and crash are not fair.
`AgentLoop`: weak fairness of each run's task and of the sweeper for a run whose
task is gone or waits, since the sweeper repeats as long as the server lives
(`main.py:38`). Weak fairness is enough: a task that is ready stays ready until
it moves, locks are held by one transaction that always commits, and the loop is
given up at every await. `SkillRegistry` has no liveness property and assumes no
fairness. `ToolRunners`: weak fairness of planning, of the node's next item and of
each call's runner and thread, because every connector has a timeout and the
docker client is given one; scripts, the daemon and operators owe nothing.
`ChatRequest`: weak fairness of a request's task and of the statements of
`save_message`; providers have a timeout and a bounded number of retries, so a
call answers or fails. No fairness for browsers: one may stop reading without
leaving. A text has a bounded number of parts and a run a bounded number of
steps and interventions.

## 6. Proofs

`ToolExecutionProofs` proves, for any finite or infinite sets `Calls` and
`Workers`, from the assumption that `None` is neither a call nor a status:

* `TypeCorrect`, `ClosedCallsNeverRun`, `ResultsMatch`, `StepsTellTruth`,
  `NothingStaysOpen`: `Spec => []I` for the invariants of the run;
* `TerminalStaysFinal`: `Spec => TerminalIsFinal`.

None of the invariants is inductive. `ResultMatchesStatus`, for instance, needs to
know that a worker about to save holds a call it entered the executor with, and
that two workers never hold one call. The inductive invariant `IInv` is their
conjunction with
`JobInv` (a busy worker has a call, no two the same, and its step exists),
`CallInv` (what `started` and `invoked` imply for a call's status),
`WorkerInv` (what is known of a call at each `pc`, e.g. a call at `gate2` or later
is running or was closed), `LeftInv` (what a worker that returned left behind)
and `ClosingInv` (which rows are locked in which phase, and that those rows are
still open). There is one lemma per action; `Invariance` combines them, and the
theorems follow with PTL. `TerminalIsFinal` is proved from `ClosingInv` (only open
rows are closed) and the guards in `SaveSources` and `UpdateRunStatus`.

`HumanGateProofs` proves for any set of calls that the abstract gate runs a
dangerous call at most once and only while approved (`OnlyApprovedCallsRun`), and
that answers and ends of runs are final (`AnswersStayFinal`).

`ApprovalFlowProofs` proves, for any batch, any number of resolvers and with or
without a crash, from `BatchAssumption` (the batch is a sequence of all calls) and
`WorkersAssumption` (workers are finitely many, none of them is `None`), the five
invariants of the run `approval_flow` (`FlowTypesHold`, `OnlyApprovedRunOnce`,
`NoStepIsRejected`, `ReportsAreTrue`, `QuietRunsAreEnded`) and
`FlowImplementsGate`: every step of the flow is a step of `HumanGate` or a stutter,
so that what `HumanGateProofs` says of the gate holds of the flow. The invariants of
`ToolExecution` cannot be reused as they stand, for here a node runs a second time
and calls begin without a claim of their own. The inductive invariant `AInv` says
instead that *the right to execute a call has one owner*. An automatic call
belongs to the driver: a resolver that resumed the graph finds a row for every
call of the batch and creates none (`ResumedInv`), and `DriverInv` says that the
driver passes the batch once. A dangerous call belongs to the resolver whose
compare-and-set found its request pending (`AnswerInv`, `OneOwner`): no request is
pending twice. `RequestInv` and `InvokedInv` tie a request to its call and to the
executor, `CloseInv` and `ReportInv` carry what the reports need; `FailureInv`, proved
on top of them, says that a failed run was reported as failed. `ChargeInv` is
what `QuietRunIsEnded` needs: while the process lives, a run that is not over has a
task in charge of it, or waits with a request that somebody can still answer.
The refinement maps step by step (`CommitMaps`, `ResolveMaps`, `ExecMaps`, ...);
commits of the closing transaction are the only steps that change several
components of the gate at once.

`AgentLoopProofs` proves, for any sessions, batches, messages and limits, from
`LoopAssumption` (a session has between one and `MaxRuns` runs, messages are
finitely many), the invariants of the run `agent_loop` (`LoopTypesHold`,
`InjectedWereHeard`, `ConsumedAtMostOnce`, `StepsAreBounded`, `NoStepStaysOpen`), that the loop
implements the mailbox (`LoopImplementsMailbox`), and the action property
`InterventionLifecycle` (`LifecycleIsKept`): the transitions of the docstring, which
no run lists because the steps of the mailbox make no other. The invariant
`LoopInv` has three ideas. The index of a run never passes the end of its timeline
(`Placed`), so `create_step` inserts at the end or finds an old step, although two
counters number one timeline; this gives the types and, with `Tidy` (only the step
of a turn under way is open), `NoStepLeftOpen`. A message in a prompt stays pending
for the run of that prompt until the turn ends (`SeenInv`), which is why an UPDATE
that looks neither at the status nor at the run consumes it once; `NoteInv` counts.
And a turn that the router did not count against the limit has a message to
consume (`Within`), which bounds the steps: every message is consumed once. The
refinement needs `SeenInv` again: because the letters of a prompt still wait for
its run when the turn ends, `EndTurn` is an `Open`. Each action that touches a
message has a lemma (`ReadNotesMaps`, `EndTurnMaps`, `FailRunMaps`, ...); all
others leave the mailbox unchanged.

`ToolRunnersProofs` proves, for any batches, settings, skills and restarts, from
`JobsAssumption` (a batch is a sequence whose calls are jobs, and a JSON integer is
an integer), the five invariants of the run `tool_runners` (`RunnerTypesHold`,
`ChangesAreApproved`, `RepeatsAreHarmless`, `LimitsAreKept`, `NothingIsLeft`) and the
action property `TodaysSettings` (`SettingsAreCurrent`). The invariant `RunnerInv`
follows one call. `Sound` is what the plan vouches for: its types are checked
against the schema once (`ValidIsLimited`, over the catalog of every tool) and the
arguments do not change later. `Gates` says which checks a call has passed where it
is; those on settings hold only while the process lives, and a restart loses
every call that relies on them. `Place` locates it in the stages of its tool, with
the connector it holds. `Log` is the heart: no operation that lies ahead was sent
(`Past`), the one at hand was sent by the failed attempts alone (`Counted`), and what
was sent is judged for good (`Judged`). Together with `StageFacts` (no operation has
two places, and only PostgreSQL's are repeatable) this counts every send. `Boxed`
ties the sandbox to the call. An action accounts for its own call alone
(`Assemble`, `BoxKeeps`).

`SkillRegistryProofs` proves, for any sets of names, scripts, packages, uploads,
reviews and runs, from `PackagesAssumption` (packages are records of the type) and
`NoneAssumption`: `TypeCorrect`, `OnlyVettedAreUsed`, `ReviewableAreSound`,
`AnswersHold` and `StoredStaysStored`. The inductive invariant joins `UploadInv` (a
verdict of "testing" is only given to a sound package), `RowInv` (a row that may
be approved belongs to such a verdict), `AnswerInv`, `ReviewInv` (an approval under
way has seen "testing", so its target was put forward, whatever happened to the
status since) and `UseInv`. `ReviewInv` is why it is needed: the properties speak
of statuses, and an approval writes without looking at the status again.
`Frame` collects what no step takes back and is proved once per actor.

`ChatRequestProofs` proves, for any number of requests, threads, providers and
messages, from `ChatAssumption` and `AdaptersAssumption`: `MessagesAreNumbered` and
`ChatTypesHold`. For the first the invariant is `StoreInv`: at most one writer is
behind the lock, and what it read as the maximum is still the number of rows
(`OneBehindTheLock`). `MaxIsLength` is the fact about `max(sequence_no)` it rests on.
For the second it is `TypeInv`, split by `TypeParts` into `Globals`, which is only
about ranges, and `Local(r)`, which relates the variables of one request, so that
an action has to account for its own request alone (`OneMoves`). `OrderType` is the
lemma about the order of providers.

The third theorem, `PromptsAreSound`, is about what the model is sent, and needs to
know what a sum over a list and a sort compute, for lists of any length. The
library's induction theorems take an operator as a parameter, which the provers
cannot instantiate; `NatSets` states induction for a *set* of numbers and follows
from the well-foundedness of `<` (`WFMin`, `NatLessThanWellFounded`), and a property is
turned into the set of numbers that have it. In this way: a bounded set has a
maximum (`MaxOf`), every set a minimum (`MinOf`), each rank of a finite set has its
element (`Ordered`), the function that the library's fold chooses exists
(`FoldExists`) and gives the prefix sums (`TokensAreSums`), which grow with every
message (`SumsGrow`) and differ by what is left (`SuffixSums`). Hence `LessIsLess`: the
proper end of a context is smaller. `Compaction` is the result for
`compact_messages_if_needed`: on each of its paths, with the summary whole, cut to
either budget or left out, what is retained is kept word for word and the result
is smaller than the original. It needs that every message costs tokens, which
`ChatAssumption` states since the estimate counts the role of every message, and
that the reducer keeps at least one message (it keeps 40).

The invariant of the theorem is `PromptInv`, checked by TLC on the bounds of
`chat_request` before it was proved. `Memory` says of `state.messages`, in the
whole graph, that it is not empty, within the limit of the reducer, and that
each tool result follows the message that asked for it unless it comes first in
a list as long as the limit (a shorter list was never cut, which is what keeps
the exception of `PromptIsSound` narrow). Around it
stand the facts that make it hold: a turn after tools has the call at its end;
the prompt is sound while it is used, although rows are marked and appended
meanwhile (`RowsKept`, `CandidatesStay`: nobody changes the text of a message, and no
intervention becomes an ordinary message or the reverse); and a run starts with at least
the message of its user, which was saved by a statement of its own before and
cannot have been lost (`NumberedIsSorted`, `FromHistoryType`).

`ChatStreamProofs` adds two invariants about the stream and proves
`StreamIsTruthful` and `AnswerHasOneVoice`. In `StreamInv`, `Story(r)` says what the
stream may hold at each place of the task and how the row of the run stands: no
verdict while the graph runs, one at the end, true when given. It stays true
afterwards since a closed run is never reopened and only a waiting one can still
be closed. `Carried(r)` says that what was made is what was read and what is queued.
The two need each other: a browser that reads the sentinel leaves, and nothing is
lost only because the sentinel is the last event (`OnlyLastEnds`, from `Story`).
`VoiceInv` says, for a turn that streams, that the stream ends in the first n parts
of one provider's text behind a timeline event (`Speaking`), which is where a
fallback would break it if it were possible after the first part, and, from the
end of the turn until the answer is saved, that the stored answer is that text
(`Spoken`).

Only model-checked: liveness (`EveryCallIsAnswered`, `DecisionTakesEffect`,
`TasksReturn`, `EveryRunEnds`, `EveryCallReturns`, `EveryRequestEnds`), which is out of
the prover's reach. Every invariant and action property of a passing run, and each
refinement, is a theorem.

## 7. Not covered, though modelled nearby

* Cancel between `Gate2` and `Invoke` lets the executor run on a cancelled run.
  The code narrows this window and does not close it; no property claims it.
* A message queued after the router's last look and before the run completes is
  never read, nor is one that is inserted after its run failed or was cancelled.
* What lies deeper in the arguments of a script than the members of a property
  (`services/skills.py:790` admits schemas of depth 4) is not validated in the model.
* `_mark_run_failed` leaves pending requests and open rows behind;
  `NothingLeftOpen` names the exception.
* A provider that gives its calls no ids makes every batch use `call_0`, `call_1`,
  ... (`llm/langchain_messages.py:73`), and the second batch of a run would find
  the rows of the first. The models give calls identities, as the registered
  providers do.
* The reducer keeps the newest 40 messages wherever that cuts (`agent/state.py:29`):
  in a long run the user's request is lost, and a tool result may come first
  without its call. `PromptIsSound` names this exception; the run contains it.
* Database failures inside a request. A failed insert of the answer, after the
  run was committed as completed (`services/agent_execution.py:561`), would end
  the stream with `run_failed`.
* A run that waits for an operator keeps its Langfuse root; if a cancel or the
  sweeper closes the run, nobody ends the root.
* A container of a server that was killed, or one that Docker refused to remove,
  runs on; `NothingLeftBehind` names the second and is silent on the first.
* In `ApprovalFlow` the resumed model asks for no further tools and the error
  steps of the timeline are left out (they are in `AgentLoop`); a refused item
  in `suspend_for_human` cannot occur, since `_plan_route` sends batches with an
  invalid call elsewhere.
* Two reviews of one skill race: the last writer wins, so a reject that commits
  between an approval's read and its write is lost. No line of the repository
  promises the contrary.
* A crash between the two commits of an upload leaves a row "uploaded" that can
  only be rejected, and a name that no upload can use again.
* A rollback in a run's session would drop the stale skill object; the model
  keeps it until the run continues in another session.

Not modelled at all:

* What patterns find in text: SQL validation, the security analyser, secrets,
  redaction, prompts. The models take their verdict as a property of the input.
* Startup and shutdown (`telecom_agent_lifespan`), opening of the checkpointer,
  LangGraph and LangChain themselves: straight-line code and libraries.
* Child spans and logging; queries and serialisation of the API; the frontend;
  sample skills, evaluations, migrations and build files.
* `step_count` (`database/repositories/runs.py:146`), which is only displayed and may
  lose updates.

## 8. Order of work

Written in this order: `RunStore`, `ToolExecution`, its proofs, `HumanGate`,
`ApprovalFlow`, `AgentLoop`, `SkillRegistry`, its proofs, `ToolCatalog` with
`DockerSandbox` and `ToolRunners`, `MessageStore` with `LlmGateway`,
`ShieldedStream`, `ContextWindow` and `ChatRequest`, its proofs and those of its
stream, then the proofs of `ApprovalFlow`, `AgentLoop` and `ToolRunners`, the prompt of a
chat request, and `Mailbox` with its refinement.

Left to do: database failures inside a request.
