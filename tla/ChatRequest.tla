---------------------------- MODULE ChatRequest ----------------------------
(***************************************************************************)
(* POST /chat/stream from the request of the browser to the end of its     *)
(* run: api/chat.py, run_agent_lifecycle with its finalization, the turns  *)
(* of call_llm_gateway with compaction and provider fallback, the messages *)
(* of the session, the event stream and the root spans of Langfuse.        *)
(*                                                                         *)
(* Requests are tasks of one event loop: what lies between two awaits is   *)
(* one action.  Only the statements of save_message, which block the loop, *)
(* are steps of their own, because threads of the server run between them. *)
(* How tool calls and approvals are recorded is left to ToolExecution and  *)
(* ApprovalFlow, where the server may be restarted too.                    *)
(***************************************************************************)
EXTENDS MessageStore, LlmGateway, ShieldedStream, ContextWindow

CONSTANTS
  Requests,      \* the requests, which also name their runs
  Threads,       \* threads that carry out queue_run_intervention
  Cases,         \* the sessions to check, each a record of the fields below
  HistoryLimit,  \* how many messages a run starts with, and its state keeps (40)
  MaxSteps       \* the largest AGENT_MAX_STEPS of the cases

(***************************************************************************)
(* A case: the messages of the session, the requests that come and the     *)
(* providers they ask for, whether Langfuse opens spans, and bounds: the   *)
(* browsers that are followed, the threads that write, the parts of a      *)
(* text, the steps (AGENT_MAX_STEPS), what the model may ask for, how      *)
(* providers may fail, how others may close a run, and the tokens a        *)
(* summary or a tool result may have: some, since the estimate counts the  *)
(* role of every message too.                                              *)
(***************************************************************************)
ASSUME ChatAssumption ==
  /\ Writers = Requests \cup Threads /\ Requests \cap Threads = {}
  /\ NoRun \notin Requests /\ HistoryLimit \in Nat \ {0} /\ MaxSteps \in Nat
  /\ \A c \in Cases : /\ c.requests \subseteq Requests /\ c.watched \subseteq c.requests
                      /\ c.parts \in Nat /\ c.steps \in 1 .. MaxSteps
                      /\ c.calls \subseteq {"none", "auto_execute", "require_approval"}
                      /\ c.providers \subseteq Registered /\ c.traced \subseteq BOOLEAN
                      /\ c.threads \subseteq Threads
                      /\ c.errors \subseteq {"unavailable", "invalid_request"}
                      /\ c.closes \subseteq {"cancelled", "timed_out"} /\ c.sizes \subseteq Nat \ {0}
                      /\ c.history \in Seq(Row(Requests \cup {NoRun}, Nat \ {0}))
                      /\ \A i \in DOMAIN c.history : c.history[i].no = i

VARIABLES
  case,      \* the case at hand; it stays as it is
  at,        \* where each request is
  provider,  \* the provider the request asked for
  run,       \* status of the run
  convo,     \* state.messages
  steps,     \* state.current_step_index
  heard,     \* pending_interventions of the turn
  prompt,    \* what the model is sent
  answer,    \* state.latest_response
  failed,    \* state.execution_error is set
  roots,     \* runs in _active_runs
  title,     \* the session has its title
  untitled   \* requests whose session object has none

requestVars == <<at, provider, run, convo, steps, heard, prompt, answer, failed>>
traceVars   == <<case, roots, title, untitled>>
chatVars    == <<requestVars, traceVars, storeVars, call, streamVars>>

Place == {"absent", "new", "rejected", "accepted", "abandoned", "task", "save_user", "turn",
          "compact", "stream", "route", "tools", "finalize", "save_answer", "title", "done"}

RunStatus == {"none", "running", "waiting_approval", "completed", "failed", "cancelled",
              "timed_out"}
Active    == {"running", "waiting_approval"}
Closed    == {"cancelled", "timed_out"}

NoAnswer == [from |-> "none", parts |-> 0, calls |-> "none"]

Answer == [from : Registered \cup {"none"}, parts : Nat,
           calls : {"none", "auto_execute", "require_approval"}]

ChatTypeOK ==
  /\ case \in Cases
  /\ at \in [Requests -> Place] /\ run \in [Requests -> RunStatus]
  /\ provider \in [Requests -> Registered \cup {"none"}]
  /\ steps \in [Requests -> Nat] /\ heard \in [Requests -> SUBSET DOMAIN rows]
  /\ answer \in [Requests -> Answer] /\ failed \in SUBSET Requests
  /\ roots \in SUBSET Requests /\ untitled \in SUBSET Requests /\ title \in BOOLEAN
  /\ \A r \in Requests :
       /\ answer[r].parts <= case.parts /\ call[r].parts <= case.parts
       /\ IF at[r] = "stream" THEN call[r].next \in DOMAIN call[r].order ELSE call[r] = NoCall
       /\ Saving(r) => at[r] \in {"save_user", "save_answer"}

ChatInit ==
  /\ case \in Cases
  /\ StoreInit(case.history)
  /\ at = [r \in Requests |-> IF r \in case.requests THEN "new" ELSE "absent"]
  /\ provider = [r \in Requests |-> "none"]
  /\ run = [r \in Requests |-> "none"]
  /\ convo = [r \in Requests |-> <<>>]
  /\ steps = [r \in Requests |-> 0]
  /\ heard = [r \in Requests |-> {}]
  /\ prompt = [r \in Requests |-> <<>>]
  /\ answer = [r \in Requests |-> NoAnswer]
  /\ failed = {}
  /\ roots = {} /\ title = FALSE /\ untitled = {}
  /\ GatewayInit(Requests) /\ StreamInit(Requests)
-----------------------------------------------------------------------------
Event(kind)  == [kind |-> kind]
Timeline     == Event("timeline_updated")
Delta(p, n)  == [kind |-> "text_delta", from |-> p, part |-> n]
Final(a)     == [kind |-> "run_completed", from |-> a.from, parts |-> a.parts]

LoopFree == \A r \in Requests : ~Saving(r)

Goes(r, place) == at' = [at EXCEPT ![r] = place]

\* run_id IS NULL until the run exists.
NewMessage(role, r, st) == [role |-> role, run |-> r, status |-> st, size |-> 1]

\* The generator returns: the database session closes, the sentinel follows.
Ends(r, events) == Goes(r, "done") /\ Put(r, Append(events, EndOfStream))

\* update_run_status: the WHERE clause spares a terminal run.
Updated(r, st) == IF run[r] \in Active THEN [run EXCEPT ![r] = st] ELSE run

\* trace_run_end
TraceEnds(r) == roots' = roots \ {r}
-----------------------------------------------------------------------------
(***************************************************************************)
(* The request.                                                            *)
(***************************************************************************)
\* stream_agent_conversation: an unknown provider is answered with 422.
Arrive(r) ==
  /\ at[r] = "new"
  /\ \/ /\ Goes(r, "rejected") /\ UNCHANGED provider
     \/ /\ Goes(r, "accepted")
        /\ \E p \in case.providers : provider' = [provider EXCEPT ![r] = p]
  /\ UNCHANGED <<run, convo, steps, heard, prompt, answer, failed, traceVars, storeVars, call,
                 streamVars>>

\* The first step of the response body starts the task.
StartStream(r) ==
  /\ at[r] = "accepted"
  /\ Goes(r, "task") /\ Attach(r)
  /\ UNCHANGED <<provider, run, convo, steps, heard, prompt, answer, failed, traceVars,
                 storeVars, call>>

\* Mutant: the task is a child of the transport and is cancelled with it.
BrowserLeaves_Cancels(r) ==
  /\ r \in case.watched /\ Detach(r)
  /\ IF at[r] \in {"save_user", "save_answer"} THEN UNCHANGED at ELSE Goes(r, "done")
  /\ UNCHANGED <<provider, run, convo, steps, heard, prompt, answer, failed, traceVars,
                 storeVars, call>>

\* Before its body has started, a response that is cancelled starts nothing.
BrowserLeaves(r) ==
  /\ r \in case.watched
  /\ \/ Detach(r) /\ UNCHANGED at
     \/ at[r] = "accepted" /\ Goes(r, "abandoned") /\ UNCHANGED streamVars
  /\ UNCHANGED <<provider, run, convo, steps, heard, prompt, answer, failed, traceVars,
                 storeVars, call>>

BrowserReads(r) ==
  r \in case.watched /\ Read(r) /\ UNCHANGED <<requestVars, traceVars, storeVars, call>>

\* run_agent_lifecycle up to the message of the user; the session was deleted
\* or the selected skill is not ready in the second case.
StartTask(r) ==
  /\ at[r] = "task"
  /\ \/ /\ Goes(r, "save_user")
        /\ AskToSave(r, NewMessage("user", NoRun, "plain"))
        /\ untitled' = IF title THEN untitled ELSE untitled \cup {r}
        /\ UNCHANGED streamVars
     \/ Ends(r, <<Event("error")>>) /\ UNCHANGED <<save, untitled>>
  /\ UNCHANGED <<provider, run, convo, steps, heard, prompt, answer, failed, case, roots, title,
                 rows, refused, call>>

\* append_messages, the reducer of state.messages.
Newest(messages) ==
  IF Len(messages) > HistoryLimit THEN LastN(messages, HistoryLimit) ELSE messages

\* _llm_messages_from_history
FromHistory(table) ==
  LET told == InOrder({i \in DOMAIN table : table[i].status \notin {"pending", "undelivered"}})
  IN  Newest([k \in DOMAIN told |->
                [role |-> table[told[k]].role, size |-> table[told[k]].size]])

\* trace_run_start, which may fail to open a span or have no client.
TraceStarts(r) ==
  \E traced \in case.traced : roots' = IF traced THEN roots \cup {r} ELSE roots

\* create_run, requeue, history, run_started, trace, initial_state.
BeginRun(r) ==
  /\ at[r] = "save_user" /\ ~Saving(r)
  /\ run' = [run EXCEPT ![r] = "running"]
  /\ rows' = Requeue(r, save[r].row)
  /\ convo' = [convo EXCEPT ![r] = FromHistory(History')]
  /\ TraceStarts(r)
  /\ Goes(r, "turn") /\ Put(r, <<Event("run_started")>>)
  /\ UNCHANGED <<provider, steps, heard, prompt, answer, failed, case, title, untitled, save,
                 refused, call>>
-----------------------------------------------------------------------------
(***************************************************************************)
(* call_llm_gateway.                                                       *)
(***************************************************************************)
\* The rows of the turn's interventions, in their order, as user messages.
Interventions(ids) ==
  [i \in 1 .. Cardinality(ids) |->
     [role |-> "user", size |-> rows[InOrder(ids)[i]].size]]

Candidates(r, ids) == convo[r] \o Interventions(ids)

\* Up to the first await: the summary of a long context, or the answer.
StartTurn(r) ==
  /\ at[r] = "turn"
  /\ heard' = [heard EXCEPT ![r] = PendingFor(r)]
  /\ Put(r, <<Timeline>>)
  /\ LET messages == Candidates(r, PendingFor(r))
     IN  IF NeedsSummary(messages)
         THEN Goes(r, "compact") /\ UNCHANGED <<prompt, call>>
         ELSE /\ Goes(r, "stream") /\ OpenStream(r, provider[r])
              /\ prompt' = [prompt EXCEPT ![r] = messages]
  /\ UNCHANGED <<provider, run, convo, steps, answer, failed, traceVars, storeVars>>

\* _summarize_messages_with_llm; without a summary older history is dropped.
Compact(r) ==
  /\ at[r] = "compact"
  /\ LET messages == Candidates(r, heard[r])
     IN  \E outcome \in InvokeOutcome, size \in case.sizes :
           prompt' = [prompt EXCEPT ![r] = IF outcome = "text" THEN WithinBudget(messages, size)
                                                               ELSE Retained(messages)]
  /\ Goes(r, "stream") /\ OpenStream(r, provider[r])
  /\ UNCHANGED <<provider, run, convo, steps, heard, answer, failed, traceVars, storeVars,
                 streamVars>>

\* A chunk with text, handed to the browser through the stream writer.
StreamText(r) ==
  /\ at[r] = "stream"
  /\ call[r].parts < case.parts /\ Emit(r) /\ Put(r, <<Delta(Speaker(r), call[r].parts + 1)>>)
  /\ UNCHANGED <<requestVars, traceVars, storeVars>>

Answered(r, calls) ==
  [from |-> Speaker(r), parts |-> call[r].parts, calls |-> calls]

\* FINISH: step and interventions are committed, the state is updated.
FinishAnswer(r) ==
  /\ at[r] = "stream"
  /\ \E calls \in case.calls :
       /\ answer' = [answer EXCEPT ![r] = Answered(r, calls)]
       /\ convo' = [convo EXCEPT ![r] = Newest(Candidates(r, heard[r]) \o
            <<[role |-> IF calls = "none" THEN "assistant" ELSE "call", size |-> 1]>>)]
  /\ rows' = MarkInjected(heard[r])
  /\ steps' = [steps EXCEPT ![r] = @ + 1]
  /\ heard' = [heard EXCEPT ![r] = {}] /\ prompt' = [prompt EXCEPT ![r] = <<>>]
  /\ CloseStream(r) /\ Goes(r, "route") /\ Put(r, <<Timeline>>)
  /\ UNCHANGED <<provider, run, failed, traceVars, save, refused>>

\* The provider fails, before or after its first chunk.
ProviderFails(r) ==
  /\ at[r] = "stream"
  /\ \E error \in case.errors :
       \/ FallBack(r, error) /\ UNCHANGED <<requestVars, streamVars>>
       \/ /\ Raises(r, error)  \* _record_llm_step_failure
          /\ failed' = failed \cup {r}
          /\ heard' = [heard EXCEPT ![r] = {}] /\ prompt' = [prompt EXCEPT ![r] = <<>>]
          /\ CloseStream(r) /\ Goes(r, "finalize") /\ Put(r, <<Timeline>>)
          /\ UNCHANGED <<provider, run, convo, steps, answer>>
  /\ UNCHANGED <<traceVars, storeVars>>
-----------------------------------------------------------------------------
(***************************************************************************)
(* reliability_router, the tool nodes, and the end of the graph.           *)
(***************************************************************************)
\* fail_invalid_request sets execution_error; an approval interrupts the graph.
Route(r) ==
  /\ at[r] = "route"
  /\ \/ /\ answer[r].calls = "none"
        /\ Goes(r, IF PendingFor(r) # {} THEN "turn" ELSE "finalize")
        /\ UNCHANGED <<failed, streamVars>>
     \/ /\ answer[r].calls # "none" /\ steps[r] >= case.steps
        /\ failed' = failed \cup {r} /\ Goes(r, "finalize") /\ Put(r, <<Timeline>>)
     \/ /\ answer[r].calls # "none" /\ steps[r] < case.steps
        /\ Goes(r, IF answer[r].calls = "auto_execute" THEN "tools" ELSE "finalize")
        /\ UNCHANGED <<failed, streamVars>>
  /\ UNCHANGED <<provider, run, convo, steps, heard, prompt, answer, traceVars, storeVars, call>>

RunTools(r) ==
  /\ at[r] = "tools"
  /\ \E size \in case.sizes :
       convo' = [convo EXCEPT ![r] = Newest(Append(@, [role |-> "tool", size |-> size]))]
  /\ Goes(r, "turn") /\ Put(r, <<Timeline>>)
  /\ UNCHANGED <<provider, run, steps, heard, prompt, answer, failed, traceVars, storeVars, call>>

\* _mark_run_failed, trace_run_end, run_failed.  For a run that was cancelled
\* or timed out everything is rolled back.
FailRun(r) ==
  /\ run' = Updated(r, "failed")
  /\ rows' = IF run[r] \in Closed THEN rows ELSE MarkUndelivered(r)
  /\ TraceEnds(r) /\ Ends(r, <<Event("run_failed")>>)

\* The checkpointer or LangGraph raises between two nodes.
GraphRaises(r) ==
  /\ at[r] = "route"
  /\ FailRun(r)
  /\ UNCHANGED <<provider, convo, steps, heard, prompt, answer, failed, case, title, untitled, save,
                 refused, call>>

\* _finalize_graph_run: an error or an empty answer, a request for approval,
\* a run closed by others, and a run to complete.  Of the requests of a batch
\* none may be pending any more: a cancel closed them, or they have lapsed.
Finalize(r) ==
  /\ at[r] = "finalize"
  /\ \E waits \in {FALSE, answer[r].calls = "require_approval"} :
     LET empty == answer[r].parts = 0
     IN  \/ /\ r \in failed \/ (~waits /\ empty)
            /\ FailRun(r) /\ UNCHANGED save
         \/ /\ r \notin failed /\ waits
            /\ run' = Updated(r, "waiting_approval")
            /\ Ends(r, <<Event("run_suspended")>>)
            /\ UNCHANGED <<rows, roots, save>>
         \/ /\ r \notin failed /\ ~waits /\ ~empty /\ run[r] \in Closed
            /\ TraceEnds(r) /\ Ends(r, <<Event("run_failed")>>)
            /\ UNCHANGED <<run, rows, save>>
         \/ /\ r \notin failed /\ ~waits /\ ~empty /\ run[r] \notin Closed
            /\ run' = Updated(r, "completed")
            /\ AskToSave(r, NewMessage("assistant", r, "plain"))
            /\ Goes(r, "save_answer") /\ UNCHANGED <<rows, roots, streamVars>>
  /\ UNCHANGED <<provider, convo, steps, heard, prompt, answer, failed, case, title, untitled,
                 refused, call>>

\* The answer is saved: run_completed, and the title of a new session.
Complete(r) ==
  /\ at[r] = "save_answer" /\ ~Saving(r)
  /\ TraceEnds(r)
  /\ IF r \in untitled
     THEN Goes(r, "title") /\ Put(r, <<Final(answer[r])>>)
     ELSE Ends(r, <<Final(answer[r])>>)
  /\ UNCHANGED <<provider, run, convo, steps, heard, prompt, answer, failed, case, title, untitled,
                 storeVars, call>>

\* Mutant: an error of the title is an error of the stream.
MakeTitle_Raises(r) ==
  /\ at[r] = "title"
  /\ \/ title' = TRUE /\ Ends(r, <<>>)
     \/ UNCHANGED title /\ Ends(r, <<Event("run_failed")>>)
  /\ UNCHANGED <<provider, run, convo, steps, heard, prompt, answer, failed, case, roots, untitled,
                 storeVars, call>>

\* _maybe_update_session_title: whatever the model answers, nobody hears of it.
MakeTitle(r) ==
  /\ at[r] = "title"
  /\ \E outcome \in InvokeOutcome : title' = (title \/ outcome = "text")
  /\ Ends(r, <<>>)
  /\ UNCHANGED <<provider, run, convo, steps, heard, prompt, answer, failed, case, roots, untitled,
                 storeVars, call>>
-----------------------------------------------------------------------------
(***************************************************************************)
(* Other writers: threads with interventions, cancel and the sweeper.      *)
(***************************************************************************)
\* queue_intervention looks at the status, then saves without a lock on it.
PostIntervention(t, r) ==
  /\ t \in case.threads /\ save[t] = Idle /\ run[r] \in Active
  /\ AskToSave(t, NewMessage("user", r, "pending"))
  /\ UNCHANGED <<requestVars, traceVars, rows, refused, call, streamVars>>

SaveMessage(w) == Statement(w) /\ UNCHANGED <<requestVars, traceVars, call, streamVars>>

CloseRun(r) ==
  /\ run[r] \in Active
  /\ \E st \in case.closes : run' = [run EXCEPT ![r] = st]
  /\ UNCHANGED <<at, provider, convo, steps, heard, prompt, answer, failed, traceVars, storeVars,
                 call, streamVars>>

TaskStep(r) ==
  \/ StartTask(r) \/ BeginRun(r) \/ StartTurn(r) \/ Compact(r)
  \/ StreamText(r) \/ FinishAnswer(r) \/ ProviderFails(r) \/ Route(r) \/ GraphRaises(r)
  \/ RunTools(r) \/ Finalize(r) \/ Complete(r) \/ MakeTitle(r)

BrowserStep(r) == Arrive(r) \/ StartStream(r) \/ BrowserLeaves(r) \/ BrowserReads(r)

OnLoop(r) == LoopFree /\ TaskStep(r)

ChatNext ==
  \/ \E r \in Requests : OnLoop(r) \/ (LoopFree /\ BrowserStep(r)) \/ CloseRun(r)
  \/ \E t \in Threads, r \in Requests : PostIntervention(t, r)
  \/ \E w \in Writers : SaveMessage(w)

\* Every call of a provider has a timeout and a bounded number of retries; a
\* thread in save_message goes on.  A browser need not read, nor come at all.
ChatFairness ==
  /\ \A r \in Requests : WF_chatVars(OnLoop(r))
  /\ \A w \in Writers : WF_chatVars(SaveMessage(w))

ChatSpec == ChatInit /\ [][ChatNext]_chatVars /\ ChatFairness
-----------------------------------------------------------------------------
(***************************************************************************)
(* Properties.                                                             *)
(***************************************************************************)
DeltaAt(r, i) == i \in DOMAIN made[r] /\ made[r][i].kind = "text_delta"

(***************************************************************************)
(* In what a task streams, no part of a text is repeated, skipped or mixed *)
(* with another provider's: a fallback happens before the first part or    *)
(* not at all.  And the final answer of run_completed is, part by part,    *)
(* the text that was streamed in the last turn.                            *)
(***************************************************************************)
AnswerIsOneVoice ==
  \A r \in Requests : \A i \in DOMAIN made[r] :
    /\ DeltaAt(r, i) =>
         IF DeltaAt(r, i - 1)
         THEN made[r][i] = Delta(made[r][i - 1].from, made[r][i - 1].part + 1)
         ELSE made[r][i].part = 1
    /\ made[r][i].kind = "run_completed" =>
         LET n == made[r][i].parts
         IN  /\ made[r][i - 1] = Timeline /\ made[r][i - n - 2] = Timeline
             /\ SubSeq(made[r], i - n - 1, i - 2) =
                  [k \in 1 .. n |-> Delta(made[r][i].from, k)]

Verdicts == {"run_completed", "run_failed", "run_suspended", "error"}

VerdictIsTrue(r, kind) ==
  CASE kind = "run_completed" -> run[r] = "completed"
    [] kind = "run_failed"    -> run[r] \in {"failed", "cancelled", "timed_out"}
    [] kind = "run_suspended" -> run[r] \in {"waiting_approval", "cancelled", "timed_out"}
    [] kind = "error"         -> run[r] = "none"

(***************************************************************************)
(* What the browser gets is a prefix of what the task streamed; the stream *)
(* carries one verdict on the run, before its end, and the row of the run  *)
(* agrees with it.  The title, which is made after the verdict, changes    *)
(* nothing about that.  A run that waits may be closed afterwards.         *)
(***************************************************************************)
StreamTellsTruth ==
  \A r \in Requests :
    /\ Delivered(r)
    /\ \A i \in DOMAIN made[r] : made[r][i].kind \in Verdicts =>
         /\ VerdictIsTrue(r, made[r][i].kind)
         /\ \A j \in DOMAIN made[r] : j > i => made[r][j] = EndOfStream
    /\ at[r] = "done" => \E i \in DOMAIN made[r] : made[r][i].kind \in Verdicts

(***************************************************************************)
(* The model is never sent more than the turn has, and less if anything    *)
(* was summarised.  What is kept word for word is the end of the turn's    *)
(* messages from a user message on, and a tool result is sent only with    *)
(* the assistant message that asked for it, whichever path compaction took *)
(* -- unless the reducer, which keeps the newest messages of a run, has    *)
(* cut between the two before.                                             *)
(***************************************************************************)
PromptIsSound ==
  \A r \in Requests : at[r] = "stream" =>
    LET all  == Candidates(r, heard[r])
        kept == Verbatim(prompt[r])
    IN  /\ IsSuffix(kept, all)
        /\ kept # <<>> /\ (kept # all => kept[1].role = "user")
        /\ prompt[r] # all => Estimate(prompt[r]) < Estimate(all)
        /\ \A i \in DOMAIN kept : kept[i].role = "tool" =>
             \/ i > 1 /\ kept[i - 1].role = "call"
             \/ i = 1 /\ kept = all /\ Len(convo[r]) = HistoryLimit

Settled(r) ==
  /\ at[r] = "done" /\ run[r] # "running"
  /\ r \in roots => \E i \in DOMAIN made[r] : made[r][i].kind = "run_suspended"

(***************************************************************************)
(* A task that was started comes to its end, and with it its database      *)
(* session, whether or not the browser stays: its run is not left running, *)
(* and its root span is closed unless the run waits for an operator.       *)
(***************************************************************************)
EveryRequestEnds == \A r \in Requests : at[r] = "task" ~> Settled(r)
=============================================================================
