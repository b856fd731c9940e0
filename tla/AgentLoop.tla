----------------------------- MODULE AgentLoop -----------------------------
(***************************************************************************)
(* The runs of one chat session: the graph loop of agent/graph.py          *)
(* (call_llm_gateway, reliability_router, execute_tools,                   *)
(* suspend_for_human, fail), the numbered timeline it writes, and the      *)
(* operator interventions that are queued while it runs.                   *)
(*                                                                         *)
(* A tool call is one step here: how it races with cancel is the subject   *)
(* of ToolExecution, and how answers to approval requests race with each   *)
(* other is the subject of ApprovalFlow.  A task dies when the database    *)
(* refuses a row, because the session cannot be used after that.           *)
(***************************************************************************)
EXTENDS RunStore, Naturals, Sequences, FiniteSets

CONSTANTS MaxRuns,   \* how many runs a session has at most
          Msgs,      \* operator interventions
          Sessions,  \* the sessions to look at: see SessionType
          NoMsgRun   \* the run of a message that is not queued

\* In the order in which they are posted.
Runs == 1 .. MaxRuns

ItemKind == {"auto", "approve", "invalid", "unavailable"}

\* What happens in a session: the configuration of each run (max_steps of its
\* config_json, AGENT_MAX_STEPS by default), the tool batches the model may ask
\* for in it, and the interventions that operators may write.
RunConfig   == [max_steps : Nat \ {0}, batches : SUBSET (Seq(ItemKind) \ {<<>>})]
SessionType == [runs : Seq(RunConfig), notes : SUBSET Msgs]

ASSUME LoopAssumption ==
  /\ MaxRuns \in Nat /\ NoMsgRun \notin Runs /\ IsFiniteSet(Msgs)
  /\ Sessions \subseteq SessionType
  /\ \A s \in Sessions : Len(s.runs) \in 1 .. MaxRuns

VARIABLES
  session,   \* what the session is; it does not change
  status,    \* agent_runs.status, or "absent"
  timeline,  \* run_steps by step_index: the step with index i is timeline[i + 1]
  at,        \* where the task of each run is
  idx,       \* state.current_step_index
  batch,     \* state.latest_response.tool_calls, as the kinds of the items
  pos,       \* the item the node works on
  waiting,   \* the items whose approval request is pending
  rejected,  \* state.approval_rejected
  error,     \* state.execution_error
  turns,     \* completed model turns
  note,      \* status and run of each intervention
  asked,     \* the run that queue_intervention found active
  seen,      \* the interventions in the prompt of the current turn
  heard,     \* the interventions that were in a prompt
  taken      \* in how many completed turns each of them was consumed

runVars  == <<status, timeline, at, idx, batch, pos, waiting, rejected, error, turns>>
noteVars == <<note, asked, seen, heard, taken>>
loopVars == <<runVars, noteVars>>

StepKind == {"llm", "tool", "approval", "error"}
Step(kind, st, owns) == [kind |-> kind, status |-> st, call |-> owns]

MaxSteps(r) == session.runs[r].max_steps
Batches(r)  == session.runs[r].batches

At == {"idle", "requeue", "llm", "read", "await", "route", "tools", "suspend",
       "waiting", "state", "done", "dead"}

NoteStatus == {"absent", "pending", "injected", "undelivered"}

LoopTypeOK ==
  /\ session \in Sessions
  /\ status \in [Runs -> RunStatus \cup {"absent"}]
  /\ timeline \in [Runs -> Seq([kind : StepKind, status : StepStatus, call : BOOLEAN])]
  /\ at \in [Runs -> At]
  /\ \A r \in Runs : idx[r] \in 0 .. Len(timeline[r])
  /\ \A r \in Runs : batch[r] # <<>> => batch[r] \in Batches(r)
  /\ \A r \in Runs : pos[r] \in 1 .. Len(batch[r]) + 1
  /\ \A r \in Runs : waiting[r] \subseteq DOMAIN batch[r]
  /\ rejected \in [Runs -> BOOLEAN] /\ error \in [Runs -> BOOLEAN]
  /\ turns \in [Runs -> Nat]
  /\ note \in [Msgs -> [status : NoteStatus, run : Runs \cup {NoMsgRun}]]
  /\ asked \in [Msgs -> Runs \cup {NoMsgRun}]
  /\ seen \in [Runs -> SUBSET Msgs] /\ heard \in SUBSET Msgs
  /\ taken \in [Msgs -> Nat]
-----------------------------------------------------------------------------
Goto(r, l) == at' = [at EXCEPT ![r] = l]

\* create_step: the step that has the index is returned, whatever its type.
CreateStep(steps, i, new) == IF i < Len(steps) THEN steps ELSE Append(steps, new)

\* append_step and create_error_step take the next free index.
AppendStep(steps, new) == Append(steps, new)

StartAt(steps, i) == [steps EXCEPT ![i + 1].status = StartStep(@)]
CompleteAt(steps, i, st) == [steps EXCEPT ![i + 1].status = CompleteStep(@, st)]

\* close_open_steps_by_run
CloseSteps(steps, st) ==
  [i \in DOMAIN steps |-> [steps[i] EXCEPT !.status = CompleteStep(@, st)]]

\* Mutant: the query asks for the status only.
PendingFor_AnyRun(r) == {m \in Msgs : note[m].status = "pending"}

PendingFor(r) == {m \in Msgs : note[m].status = "pending" /\ note[m].run = r}
-----------------------------------------------------------------------------
(***************************************************************************)
(* A new run.  Nothing asks whether an earlier run of the session is over. *)
(***************************************************************************)
StartRun(r) ==
  /\ status[r] = "absent" /\ r \in DOMAIN session.runs
  /\ r > 1 => status[r - 1] # "absent"
  /\ status' = [status EXCEPT ![r] = "running"]
  /\ Goto(r, "requeue")
  /\ UNCHANGED <<timeline, idx, batch, pos, waiting, rejected, error, turns, noteVars>>

\* Mutant: everything that is not pending is queued again.
Requeue_All(r) ==
  /\ at[r] = "requeue"
  /\ note' = [m \in Msgs |-> IF note[m].status \in {"undelivered", "injected"}
                             THEN [status |-> "pending", run |-> r] ELSE note[m]]
  /\ Goto(r, "llm")
  /\ UNCHANGED <<status, timeline, idx, batch, pos, waiting, rejected, error, turns,
                 asked, seen, heard, taken>>

\* requeue_undelivered_interventions
Requeue(r) ==
  /\ at[r] = "requeue"
  /\ note' = [m \in Msgs |-> IF note[m].status = "undelivered"
                             THEN [status |-> "pending", run |-> r] ELSE note[m]]
  /\ Goto(r, "llm")
  /\ UNCHANGED <<status, timeline, idx, batch, pos, waiting, rejected, error, turns,
                 asked, seen, heard, taken>>
-----------------------------------------------------------------------------
(***************************************************************************)
(* call_llm_gateway                                                        *)
(***************************************************************************)
OpenTurn(r) ==
  /\ at[r] = "llm"
  /\ timeline' = [timeline EXCEPT ![r] =
                    StartAt(CreateStep(@, idx[r], Step("llm", "pending", FALSE)), idx[r])]
  /\ Goto(r, "read")
  /\ UNCHANGED <<status, idx, batch, pos, waiting, rejected, error, turns, noteVars>>

ReadNotes(r) ==
  /\ at[r] = "read"
  /\ seen' = [seen EXCEPT ![r] = PendingFor(r)]
  /\ heard' = heard \cup PendingFor(r)
  /\ Goto(r, "await")
  /\ UNCHANGED <<status, timeline, idx, batch, pos, waiting, rejected, error, turns,
                 note, asked, taken>>

\* Mutant: the turn marks what is pending when it ends.
Consume_Pending(r) ==
  /\ note' = [m \in Msgs |-> IF m \in PendingFor(r)
                             THEN [note[m] EXCEPT !.status = "injected"] ELSE note[m]]
  /\ taken' = [m \in Msgs |-> IF m \in PendingFor(r) THEN taken[m] + 1 ELSE taken[m]]

\* mark_interventions_injected asks neither for the status nor for the run.
Consume(r) ==
  /\ note' = [m \in Msgs |-> IF m \in seen[r]
                             THEN [note[m] EXCEPT !.status = "injected"] ELSE note[m]]
  /\ taken' = [m \in Msgs |-> IF m \in seen[r] THEN taken[m] + 1 ELSE taken[m]]

\* The answer: the step, the interventions and the state change together.  After
\* a rejection the model is asked with tool_choice "none".
EndTurn(r) ==
  /\ at[r] = "await"
  /\ \E calls \in {<<>>} \cup IF rejected[r] THEN {} ELSE Batches(r) :
       batch' = [batch EXCEPT ![r] = calls]
  /\ pos' = [pos EXCEPT ![r] = 1]
  /\ timeline' = [timeline EXCEPT ![r] = CompleteAt(@, idx[r], "completed")]
  /\ Consume(r)
  /\ idx' = [idx EXCEPT ![r] = @ + 1]
  /\ turns' = [turns EXCEPT ![r] = @ + 1]
  /\ seen' = [seen EXCEPT ![r] = {}]
  /\ Goto(r, "route")
  /\ UNCHANGED <<status, waiting, rejected, error, asked, heard>>

\* Mutant: the failed turn forgets its step.
FailTurn_StepOpen(r) ==
  /\ at[r] \in {"read", "await"}
  /\ error' = [error EXCEPT ![r] = TRUE]
  /\ seen' = [seen EXCEPT ![r] = {}]
  /\ Goto(r, "state")
  /\ UNCHANGED <<status, timeline, idx, batch, pos, waiting, rejected, turns, note,
                 asked, heard, taken>>

\* The selected skill is not ready any more, or _record_llm_step_failure.
FailTurn(r) ==
  /\ at[r] \in {"read", "await"}
  /\ timeline' = [timeline EXCEPT ![r] = CompleteAt(@, idx[r], "failed")]
  /\ error' = [error EXCEPT ![r] = TRUE]
  /\ seen' = [seen EXCEPT ![r] = {}]
  /\ Goto(r, "state")
  /\ UNCHANGED <<status, idx, batch, pos, waiting, rejected, turns, note, asked, heard,
                 taken>>
-----------------------------------------------------------------------------
(***************************************************************************)
(* reliability_router, and the node "fail".                                *)
(***************************************************************************)
Kinds(r) == {batch[r][i] : i \in DOMAIN batch[r]}

\* Mutant: the router does not count steps.
MustFail_PlanOnly(r) == "unavailable" \in Kinds(r)

MustFail(r) == idx[r] >= MaxSteps(r) \/ "unavailable" \in Kinds(r)

Route(r) ==
  /\ at[r] = "route"
  /\ \/ /\ batch[r] = <<>>
        /\ Goto(r, IF PendingFor(r) # {} THEN "llm" ELSE "state")
        /\ UNCHANGED error
     \/ /\ batch[r] # <<>> /\ MustFail(r)
        /\ error' = [error EXCEPT ![r] = TRUE]
        /\ Goto(r, "state")
     \/ /\ batch[r] # <<>> /\ ~MustFail(r)
        /\ Goto(r, IF "approve" \in Kinds(r) /\ "invalid" \notin Kinds(r)
                   THEN "suspend" ELSE "tools")
        /\ UNCHANGED error
  /\ UNCHANGED <<status, timeline, idx, batch, pos, waiting, rejected, turns, noteVars>>
-----------------------------------------------------------------------------
(***************************************************************************)
(* execute_tools and suspend_for_human, item by item.                      *)
(***************************************************************************)
ItemIndex(r) == idx[r] + pos[r] - 1
HasItem(r)   == pos[r] <= Len(batch[r])
ThisItem(r)  == batch[r][pos[r]]

\* The unique constraint on tool_calls.run_step_id.
OwnsCall(steps, i) == steps[i + 1].call

NextItem(r) ==
  /\ pos' = [pos EXCEPT ![r] = @ + 1]
  /\ UNCHANGED <<status, at, idx, batch, rejected, error, turns, noteVars>>

\* The exception finds the session unusable, and so does _mark_run_failed.
Die(r) ==
  /\ Goto(r, "dead")
  /\ UNCHANGED <<status, idx, batch, pos, waiting, rejected, error, turns, noteVars>>

\* The tool runs, or is skipped because the run has ended.  Whether it completes
\* or fails makes no difference to the loop: "completed" stands for both.
RunItem(r) ==
  /\ at[r] \in {"tools", "suspend"} /\ HasItem(r) /\ ThisItem(r) = "auto"
  /\ LET i     == ItemIndex(r)
         steps == StartAt(CreateStep(timeline[r], i, Step("tool", "pending", FALSE)), i)
     IN \/ /\ status[r] \in RunTerminal
           /\ timeline' = [timeline EXCEPT ![r] = CompleteAt(steps, i, "cancelled")]
           /\ NextItem(r)
        \/ /\ status[r] \notin RunTerminal /\ ~OwnsCall(steps, i)
           /\ timeline' = [timeline EXCEPT ![r] =
                CompleteAt([steps EXCEPT ![i + 1].call = TRUE], i, "completed")]
           /\ NextItem(r)
        \/ /\ status[r] \notin RunTerminal /\ OwnsCall(steps, i)
           /\ timeline' = [timeline EXCEPT ![r] = steps]
           /\ Die(r)
  /\ UNCHANGED waiting

\* _record_tool_validation_error: an invalid call, or a dangerous one beside it.
RefuseItem(r) ==
  /\ at[r] = "tools" /\ HasItem(r) /\ ThisItem(r) # "auto"
  /\ LET i     == ItemIndex(r)
         steps == StartAt(CreateStep(timeline[r], i, Step("tool", "pending", FALSE)), i)
     IN timeline' = [timeline EXCEPT ![r] = CompleteAt(steps, i, "failed")]
  /\ NextItem(r)
  /\ UNCHANGED waiting

AskForItem(r) ==
  /\ at[r] = "suspend" /\ HasItem(r) /\ ThisItem(r) = "approve"
  /\ LET i     == ItemIndex(r)
         steps == CreateStep(timeline[r], i, Step("approval", "waiting_approval", FALSE))
     IN IF OwnsCall(steps, i)
        THEN Die(r) /\ UNCHANGED timeline
        ELSE /\ timeline' = [timeline EXCEPT ![r] = [steps EXCEPT ![i + 1].call = TRUE]]
             /\ waiting' = [waiting EXCEPT ![r] = @ \cup {pos[r]}]
             /\ NextItem(r)

\* execute_tools returns to the model; suspend_for_human interrupts the graph.
EndItems(r) ==
  /\ at[r] \in {"tools", "suspend"} /\ ~HasItem(r)
  /\ IF at[r] = "tools"
     THEN idx' = [idx EXCEPT ![r] = @ + Len(batch[r])] /\ Goto(r, "llm")
     ELSE Goto(r, "state") /\ UNCHANGED idx
  /\ UNCHANGED <<status, timeline, batch, pos, waiting, rejected, error, turns, noteVars>>
-----------------------------------------------------------------------------
(***************************************************************************)
(* The operator answers the request of item i; with the last answer the    *)
(* graph is resumed and suspend_for_human returns.                         *)
(***************************************************************************)
\* Mutant: room for the steps that approvals append, whether or not they did.
ResumeGraph_Twice(r, refused) ==
  /\ status' = [status EXCEPT ![r] = UpdateRunStatus(@, "running")]
  /\ idx' = [idx EXCEPT ![r] = @ + 2 * Len(batch[r])]
  /\ rejected' = [rejected EXCEPT ![r] = refused]
  /\ Goto(r, "llm")

ResumeGraph(r, refused) ==
  /\ status' = [status EXCEPT ![r] = UpdateRunStatus(@, "running")]
  /\ idx' = [idx EXCEPT ![r] = @ + Len(batch[r])]
  /\ rejected' = [rejected EXCEPT ![r] = refused]
  /\ Goto(r, "llm")

Answer(r, i, steps, refused) ==
  /\ at[r] = "waiting" /\ i \in waiting[r] /\ status[r] \notin RunTerminal
  /\ timeline' = [timeline EXCEPT ![r] = steps]
  /\ waiting' = [waiting EXCEPT ![r] = @ \ {i}]
  /\ IF waiting[r] = {i}
     THEN ResumeGraph(r, rejected[r] \/ refused)
     ELSE rejected' = [rejected EXCEPT ![r] = @ \/ refused] /\ UNCHANGED <<status, idx, at>>
  /\ UNCHANGED <<batch, pos, error, turns, noteVars>>

Reject(r, i) ==
  LET a == idx[r] + i - 1 IN
  Answer(r, i, CompleteAt(timeline[r], a, "failed"), TRUE)

\* append_step and attach_to_step: the call moves to a new step at the end.
Approve(r, i) ==
  LET a     == idx[r] + i - 1
      freed == [CompleteAt(timeline[r], a, "completed") EXCEPT ![a + 1].call = FALSE]
  IN Answer(r, i, AppendStep(freed, Step("tool", "completed", TRUE)), FALSE)
-----------------------------------------------------------------------------
(***************************************************************************)
(* _finalize_graph_run                                                     *)
(***************************************************************************)
\* A final answer without content fails the run as well.
FailRun(r) ==
  /\ at[r] = "state" /\ (error[r] \/ waiting[r] = {})
  /\ status' = [status EXCEPT ![r] = UpdateRunStatus(@, "failed")]
  /\ IF status[r] \in RunClosed
     THEN UNCHANGED <<note, timeline>>                         \* rolled back
     ELSE /\ note' = [m \in Msgs |-> IF m \in PendingFor(r)
                                     THEN [note[m] EXCEPT !.status = "undelivered"]
                                     ELSE note[m]]
          /\ timeline' = [timeline EXCEPT ![r] =
                            AppendStep(@, Step("error", "failed", FALSE))]
  /\ Goto(r, "done")
  /\ UNCHANGED <<idx, batch, pos, waiting, rejected, error, turns, asked, seen, heard,
                 taken>>

SuspendRun(r) ==
  /\ at[r] = "state" /\ ~error[r] /\ waiting[r] # {}
  /\ status' = [status EXCEPT ![r] = UpdateRunStatus(@, "waiting_approval")]
  /\ Goto(r, IF status[r] \in RunTerminal THEN "done" ELSE "waiting")
  /\ UNCHANGED <<timeline, idx, batch, pos, waiting, rejected, error, turns, noteVars>>

CompleteRun(r) ==
  /\ at[r] = "state" /\ ~error[r] /\ waiting[r] = {}
  /\ status' = [status EXCEPT ![r] = UpdateRunStatus(@, "completed")]
  /\ Goto(r, "done")
  /\ UNCHANGED <<timeline, idx, batch, pos, waiting, rejected, error, turns, noteVars>>
-----------------------------------------------------------------------------
(***************************************************************************)
(* Other sessions: cancel, the sweeper, and operators who write.           *)
(***************************************************************************)
\* The closing transaction knows nothing of interventions.
CloseRun(r, st) ==
  /\ status[r] \in RunActive
  /\ status' = [status EXCEPT ![r] = st]
  /\ timeline' = [timeline EXCEPT ![r] = CloseSteps(@, st)]
  /\ waiting' = [waiting EXCEPT ![r] = {}]
  /\ Goto(r, IF at[r] = "waiting" THEN "done" ELSE at[r])
  /\ UNCHANGED <<idx, batch, pos, rejected, error, turns, noteVars>>

Cancel(r) == CloseRun(r, "cancelled")

\* Mutant: only running runs are listed as stale.
Sweep_RunningOnly(r) == at[r] = "dead" /\ CloseRun(r, "timed_out")

\* A run whose row no task touches any more becomes stale.
Sweep(r) == at[r] \in {"waiting", "dead"} /\ CloseRun(r, "timed_out")

\* queue_intervention reads the run and then saves the message.
AskToQueue(m, r) ==
  /\ note[m].status = "absent" /\ asked[m] = NoMsgRun /\ m \in session.notes
  /\ status[r] \in RunActive
  /\ asked' = [asked EXCEPT ![m] = r]
  /\ UNCHANGED <<runVars, note, seen, heard, taken>>

QueueNote(m) ==
  /\ note[m].status = "absent" /\ asked[m] # NoMsgRun
  /\ note' = [note EXCEPT ![m] = [status |-> "pending", run |-> asked[m]]]
  /\ UNCHANGED <<runVars, asked, seen, heard, taken>>
-----------------------------------------------------------------------------
LoopInit ==
  /\ session \in Sessions
  /\ status = [r \in Runs |-> "absent"]
  /\ timeline = [r \in Runs |-> <<>>]
  /\ at = [r \in Runs |-> "idle"]
  /\ idx = [r \in Runs |-> 0]
  /\ batch = [r \in Runs |-> <<>>]
  /\ pos = [r \in Runs |-> 1]
  /\ waiting = [r \in Runs |-> {}]
  /\ rejected = [r \in Runs |-> FALSE]
  /\ error = [r \in Runs |-> FALSE]
  /\ turns = [r \in Runs |-> 0]
  /\ note = [m \in Msgs |-> [status |-> "absent", run |-> NoMsgRun]]
  /\ asked = [m \in Msgs |-> NoMsgRun]
  /\ seen = [r \in Runs |-> {}]
  /\ heard = {}
  /\ taken = [m \in Msgs |-> 0]

Task(r) ==
  \/ Requeue(r) \/ OpenTurn(r) \/ ReadNotes(r) \/ EndTurn(r) \/ FailTurn(r) \/ Route(r)
  \/ RunItem(r) \/ RefuseItem(r) \/ AskForItem(r) \/ EndItems(r)
  \/ FailRun(r) \/ SuspendRun(r) \/ CompleteRun(r)

LoopNext ==
  /\ \/ \E r \in Runs :
          \/ StartRun(r) \/ Task(r) \/ Cancel(r) \/ Sweep(r)
          \/ \E i \in waiting[r] : Approve(r, i) \/ Reject(r, i)
     \/ \E m \in Msgs : QueueNote(m) \/ \E r \in Runs : AskToQueue(m, r)
  /\ UNCHANGED session

\* Tasks run on, and the sweeper runs once a minute as long as the server does.
LoopFairness == \A r \in Runs : WF_loopVars(Task(r)) /\ WF_loopVars(Sweep(r))

LoopSpec == LoopInit /\ [][LoopNext]_<<loopVars, session>> /\ LoopFairness
-----------------------------------------------------------------------------
(***************************************************************************)
(* AGENT_MAX_STEPS bounds the run although interventions start turns that  *)
(* the router does not count: the last batch may pass the limit by its own *)
(* length and one turn, and each intervention adds one turn at most.       *)
(***************************************************************************)
StepBudget ==
  \A r \in DOMAIN session.runs : \A b \in Batches(r) :
    (\A c \in Batches(r) : Len(c) <= Len(b)) =>
      idx[r] <= MaxSteps(r) + Len(b) + Cardinality(session.notes)

\* A message is marked as injected only if a prompt contained it: one that is
\* queued while the model answers stays pending for the next turn.
InjectedWasHeard == \A m \in Msgs : note[m].status = "injected" => m \in heard

\* No message is consumed by two completed turns, though a failed run hands its
\* messages to the next one and two runs of a session may be active at once.
ConsumedOnce == \A m \in Msgs : taken[m] <= 1

\* The transitions that the docstring of InterventionStatus lists, and no other:
\* what the mailbox below makes of a message, whoever moves it.
InterventionLifecycle ==
  [][\A m \in Msgs :
       note'[m] # note[m] =>
         <<note[m].status, note'[m].status>> \in
           {<<"absent", "pending">>, <<"pending", "injected">>,
            <<"pending", "undelivered">>, <<"undelivered", "pending">>}]_loopVars

(***************************************************************************)
(* The loop implements the abstract mailbox: whatever turns, failures,     *)
(* cancels and other runs of the session do, a completed turn marks what   *)
(* its own prompt showed, and all of it was still waiting for that run --  *)
(* though mark_interventions_injected looks at neither.                    *)
(***************************************************************************)
Box == INSTANCE Mailbox WITH
  Letters <- Msgs, Readers <- Runs, NoReader <- NoMsgRun,
  box <- note, prompt <- seen, opened <- taken

ImplementsMailbox == Box!MailSpec

(***************************************************************************)
(* The task of a run closes every model and tool step it opened, those     *)
(* included that it opened after the run was cancelled.  (An approval step *)
(* it opens that late stays open.)                                         *)
(***************************************************************************)
NoStepLeftOpen ==
  \A r \in Runs : at[r] = "done" =>
    \A i \in DOMAIN timeline[r] :
      timeline[r][i].kind # "approval" => timeline[r][i].status \notin StepOpen

\* Every run ends: through its task, or else through the sweeper.
EveryRunEnds == \A r \in Runs : (status[r] # "absent") ~> (status[r] \in RunTerminal)

(***************************************************************************)
(* "Call the provider-independent LLM gateway and persist an LLM timeline  *)
(* step." (nodes.py:425): every completed model turn has its own step.     *)
(***************************************************************************)
LlmTurnHasItsStep ==
  \A r \in Runs :
    turns[r] <= Cardinality({i \in DOMAIN timeline[r] : timeline[r][i].kind = "llm"})

(***************************************************************************)
(* "pending -> undelivered (run failed/cancelled before injection)"        *)
(* (common/enums.py:31): a message that is pending while its run is active *)
(* does not stay so, unless the run completes or times out, of which the   *)
(* docstring says nothing.                                                 *)
(***************************************************************************)
InterventionIsSettled ==
  \A m \in Msgs, r \in Runs :
    (m \in PendingFor(r) /\ status[r] \in RunActive) ~>
      (m \notin PendingFor(r) \/ status[r] \in {"completed", "timed_out"})
=============================================================================
