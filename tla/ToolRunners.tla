---------------------------- MODULE ToolRunners ----------------------------
(***************************************************************************)
(* One batch of tool calls from the plan to the devices: the plan made     *)
(* with the catalog of the turn, the nodes that carry it out, and the      *)
(* runners of agent/builtin_runners.py with their connectors and the       *)
(* sandbox.  The plan is kept in the checkpoint, so that a call may run    *)
(* in another server process, with other settings, than it was planned in. *)
(*                                                                         *)
(* How calls and requests are recorded, and how cancel interferes, is the  *)
(* subject of ToolExecution and ApprovalFlow.                              *)
(***************************************************************************)
EXTENDS ToolCatalog, DockerSandbox, FiniteSets

CONSTANTS Batches,      \* what the model may ask for: sequences of calls
          AllSettings,  \* what the settings of a process may be
          Bundle,       \* skill -> path -> [passed, intact, input]
          MaxRestarts   \* bound on restarts of the server

\* A batch is a sequence of calls whose arguments are JSON.
ASSUME JobsAssumption ==
  /\ MaxRestarts \in Nat
  /\ \A b \in Batches :
       /\ b \in Seq({b[i] : i \in DOMAIN b}) /\ DOMAIN b \subseteq Jobs
       /\ \A i \in DOMAIN b : \A key \in DOMAIN b[i].args :
            b[i].args[key].type = "integer" => b[i].args[key].val \in Int

VARIABLES
  settings,   \* of the process that is up
  ready,      \* names of the skills with status "ready"
  batch,      \* latest_response.tool_calls
  plan,       \* state.tool_batch_plan
  node,       \* the graph node that carries the plan out
  at,         \* where each call is
  confirmed,  \* calls an operator approved
  stage,      \* which connector of its runner a call is at
  pos,        \* which command or query of that connector
  tries,      \* failed attempts of that query
  conn,       \* the connector a call holds
  found,      \* calls whose site lookup returned devices
  broken,     \* calls on their way out with an exception
  outcome,    \* what execute_builtin_tool returned
  sent,       \* what was sent to devices and databases, in order
  epoch       \* restarts so far

callVars   == <<at, stage, pos, tries, conn, found, broken, outcome, sent>>
runnerVars == <<settings, ready, batch, plan, node, confirmed, callVars, epoch, sandboxVars>>

Position == {"new", "refused", "asked", "start", "connect", "work", "close", "script",
             "returned", "lost"}
Busy     == {"start", "connect", "work", "close", "script"}
Backend  == {"postgres", "clickhouse", "ssh"}

RunnerTypeOK ==
  /\ SandboxTypeOK
  /\ settings \in AllSettings /\ ready \subseteq DOMAIN Bundle
  /\ batch \in Batches /\ plan # <<>> => PlanMatches(plan, batch)
  /\ node \in {"plan", "execute_tools", "suspend_for_human", "fail"}
  /\ at \in [Jobs -> Position] /\ confirmed \subseteq Jobs
  /\ \A i \in Jobs : stage[i] \in Nat /\ pos[i] \in Nat /\ tries[i] \in 0 .. 2
  /\ conn \in [Jobs -> Backend \cup {"none"}]
  /\ found \subseteq Jobs /\ broken \subseteq Jobs
  /\ outcome \in [Jobs -> {"none", "ok", "empty", "error"}]
  /\ epoch \in 0 .. MaxRestarts
-----------------------------------------------------------------------------
(***************************************************************************)
(* The runners as data: per connector, the commands or queries in order.   *)
(***************************************************************************)
Use(backend, ops) == [on |-> backend, ops |-> ops]

Stages(tool) ==
  CASE tool = "get_site_alarm_summary" ->
         <<Use("postgres", <<"devices">>), Use("clickhouse", <<"summary">>)>>
    [] tool = "get_site_kpi_snapshot" ->
         <<Use("postgres", <<"devices">>), Use("clickhouse", <<"snapshot", "top_errors">>)>>
    [] tool = "get_active_alarms"  -> <<Use("clickhouse", <<"alarms">>)>>
    [] tool = "get_site_inventory" -> <<Use("postgres", <<"inventory">>)>>
    [] tool = "get_node_health_snapshot" ->
         <<Use("ssh", <<"hostname", "uptime", "free", "df">>)>>
    [] tool = "ping_node"          -> <<Use("ssh", <<"ping">>)>>
    [] tool = "restart_service"    -> <<Use("ssh", <<"restart", "is_active">>)>>
    [] OTHER                       -> <<>>

Tool(i)      == batch[i].name
Arg(i, key)  == batch[i].args[key].val
ThisStage(i) == Stages(Tool(i))[stage[i]]
ThisOp(i)    == ThisStage(i).ops[pos[i]]
IsLastOp(i)  == pos[i] = Len(ThisStage(i).ops)

Host(i) == SshHost(settings, Arg(i, "node_name"))

\* The command a runner builds, and the confirmations it vouches for.
Command(i) ==
  [word   |-> IF ThisOp(i) \in {"restart", "is_active"} THEN "systemctl" ELSE ThisOp(i),
   target |-> CASE Tool(i) = "restart_service" -> Arg(i, "service_name")
                [] Tool(i) = "ping_node"       -> Host(i)
                [] OTHER                       -> Blank]

Confirmations(i) == IF Tool(i) = "restart_service" THEN 1 ELSE 0

BackendUnset(backend) ==
  (backend = "postgres" /\ ~settings.pg) \/ (backend = "clickhouse" /\ ~settings.ch)
-----------------------------------------------------------------------------
(***************************************************************************)
(* The plan, and the nodes that carry it out item by item.                 *)
(***************************************************************************)
MakePlan ==
  /\ node = "plan"
  /\ plan' = PlanBatch(batch, settings, ready, settings.sandbox /\ docker)
  /\ node' = PlanRoute(plan')
  /\ UNCHANGED <<settings, ready, batch, confirmed, callVars, epoch, sandboxVars>>

\* A node has one call in hand at a time; approved calls run in other tasks.
Reached(i) ==
  /\ i \in DOMAIN plan /\ at[i] = "new"
  /\ \A j \in DOMAIN batch : j < i =>
       at[j] \notin (IF plan[j].risk = "auto_execute" THEN Busy ELSE {}) \cup {"new"}

MoveTo(i, p) == at' = [at EXCEPT ![i] = p]

OnlyMoves == UNCHANGED <<settings, ready, batch, plan, node, stage, pos, tries, conn, found,
                         broken, outcome, sent, epoch, sandboxVars>>

\* What execute_tools carries out itself.
Direct(i) == ~plan[i].error /\ plan[i].risk # "require_approval"

\* _record_tool_validation_error
RefuseItem(i) ==
  /\ Reached(i) /\ node = "execute_tools" /\ ~Direct(i)
  /\ MoveTo(i, "refused") /\ UNCHANGED confirmed /\ OnlyMoves

DispatchItem(i) ==
  /\ Reached(i)
  /\ \/ node = "execute_tools" /\ Direct(i)
     \/ node = "suspend_for_human" /\ plan[i].risk = "auto_execute"
  /\ MoveTo(i, "start") /\ UNCHANGED confirmed /\ OnlyMoves

AskForItem(i) ==
  /\ Reached(i) /\ node = "suspend_for_human" /\ plan[i].risk = "require_approval"
  /\ MoveTo(i, "asked") /\ UNCHANGED confirmed /\ OnlyMoves

\* The resolver passes approval_confirmations = 1.
Approve(i) ==
  /\ at[i] = "asked" /\ MoveTo(i, "start")
  /\ confirmed' = confirmed \cup {i} /\ OnlyMoves

Reject(i) ==
  /\ at[i] = "asked" /\ MoveTo(i, "refused") /\ UNCHANGED confirmed /\ OnlyMoves
-----------------------------------------------------------------------------
(***************************************************************************)
(* execute_builtin_tool: the gate, and the dispatch to a runner.           *)
(***************************************************************************)
Return(i, result) ==
  /\ MoveTo(i, "returned")
  /\ outcome' = [outcome EXCEPT ![i] = result]
  /\ UNCHANGED <<settings, ready, batch, plan, node, confirmed, stage, pos, tries, conn, found,
                 broken, sent, epoch>>

Permitted(i) == Risk(Tool(i)) = "require_approval" => i \in confirmed

\* _run_load_skill and _run_read_skill_file read the database and return.
BeginSkill(i) ==
  /\ at[i] = "start" /\ Tool(i) \in {"load_skill", "read_skill_file"}
  /\ LET ok == /\ Arg(i, "skill_name") \in ready
               /\ Tool(i) = "read_skill_file" =>
                    Arg(i, "file_path") \in DOMAIN Bundle[Arg(i, "skill_name")]
     IN Return(i, IF ok THEN "ok" ELSE "error")
  /\ UNCHANGED sandboxVars

\* The gates of _run_skill_script: a ready skill, a script that passed, its text
\* as it was approved, arguments that match.
ScriptAccepted(i) ==
  LET files == Bundle[Arg(i, "skill_name")]
      path  == Arg(i, "script_path")
  IN /\ Arg(i, "skill_name") \in ready
     /\ path \in DOMAIN files
     /\ files[path].passed /\ files[path].intact
     /\ ValidObject(Arg(i, "arguments"), files[path].input)

BeginScript(i) ==
  /\ at[i] = "start" /\ Tool(i) = "run_skill_script"
  /\ IF Permitted(i) /\ ScriptAccepted(i) /\ settings.sandbox /\ docker
     THEN /\ MoveTo(i, "script")
          /\ UNCHANGED <<settings, ready, batch, plan, node, confirmed, stage, pos, tries, conn,
                         found, broken, outcome, sent, epoch>>
     ELSE Return(i, "error")
  /\ UNCHANGED sandboxVars

\* asyncio.to_thread: docker is looked up once more, in the thread.
Outside == <<settings, ready, batch, plan, node, confirmed, callVars, epoch>>

ScriptThread(i) == at[i] = "script" /\ StartJob(i) /\ UNCHANGED Outside

\* Mutant: the names were checked when the call was planned.
Admissible_Planned(i) == TRUE

\* What a runner checks again before it builds a connector.
Admissible(i) ==
  /\ Tool(i) = "restart_service" => Arg(i, "service_name") \in AllowedServices(settings)
  /\ Tool(i) \in NodeTool => NodeAllowed(settings, Arg(i, "node_name"))

NoSite(i) ==
  Tool(i) \in {"get_site_alarm_summary", "get_site_kpi_snapshot"} /\ Arg(i, "site_id") = Blank

BeginCapability(i) ==
  /\ at[i] = "start" /\ Tool(i) \notin SkillTool
  /\ CASE ~Permitted(i) \/ ~Admissible(i) -> Return(i, "error")
       [] Permitted(i) /\ Admissible(i) /\ NoSite(i) -> Return(i, "empty")
       [] OTHER ->
            /\ MoveTo(i, "connect")
            /\ UNCHANGED <<settings, ready, batch, plan, node, confirmed, stage, pos, tries, conn,
                           found, broken, outcome, sent, epoch>>
  /\ UNCHANGED sandboxVars
-----------------------------------------------------------------------------
(***************************************************************************)
(* A connector: built before the try, closed in the finally.               *)
(***************************************************************************)
Elsewhere == <<settings, ready, batch, plan, node, confirmed, epoch, sandboxVars>>

Connect(i) ==
  /\ at[i] = "connect"
  /\ IF BackendUnset(ThisStage(i).on)
     THEN Return(i, "error") /\ UNCHANGED sandboxVars
     ELSE /\ conn' = [conn EXCEPT ![i] = ThisStage(i).on]
          /\ MoveTo(i, "work")
          /\ UNCHANGED <<Elsewhere, stage, pos, tries, found, broken, outcome, sent>>

GiveUp(i) == MoveTo(i, "close") /\ broken' = broken \cup {i}

\* verify_ssh_command says no: nothing is sent.
Blocked(i) ==
  /\ at[i] = "work" /\ conn[i] = "ssh" /\ ~VerifySsh(Command(i), Confirmations(i))
  /\ GiveUp(i)
  /\ UNCHANGED <<Elsewhere, stage, pos, tries, conn, found, outcome, sent>>

MaySend(i) ==
  at[i] = "work" /\ (conn[i] = "ssh" => VerifySsh(Command(i), Confirmations(i)))

\* Sent once more; the other side may have acted even if no answer arrives.
Send(i) ==
  sent' = [sent EXCEPT ![i] =
    Append(@, [on |-> conn[i], op |-> ThisOp(i),
               host |-> IF conn[i] = "ssh" THEN Host(i) ELSE NoHost])]

Answered(i) ==
  /\ MaySend(i) /\ Send(i)
  /\ IF IsLastOp(i) THEN MoveTo(i, "close") /\ UNCHANGED pos
                    ELSE pos' = [pos EXCEPT ![i] = @ + 1] /\ UNCHANGED at
  /\ tries' = [tries EXCEPT ![i] = 0]
  /\ found' \in IF ThisOp(i) = "devices" THEN {found, found \cup {i}} ELSE {found}
  /\ UNCHANGED <<Elsewhere, stage, conn, broken, outcome>>

\* Mutant: every backend gets three attempts.
Retryable_Any(i) == tries[i] < 2

\* Mutant: one attempt too many.
Retryable_OneMore(i) == conn[i] = "postgres" /\ tries[i] <= 2

\* OperationalError of PostgreSQL: three attempts with a fresh pool.
Retryable(i) == conn[i] = "postgres" /\ tries[i] < 2

ConnectionFails(i) ==
  /\ MaySend(i) /\ Send(i)
  /\ IF Retryable(i)
     THEN tries' = [tries EXCEPT ![i] = @ + 1] /\ UNCHANGED <<at, broken>>
     ELSE GiveUp(i) /\ UNCHANGED tries
  /\ UNCHANGED <<Elsewhere, stage, pos, conn, found, outcome>>

\* Any other exception of the query or command.
OpFails(i) ==
  /\ MaySend(i) /\ Send(i) /\ GiveUp(i)
  /\ UNCHANGED <<Elsewhere, stage, pos, tries, conn, found, outcome>>

Perform(i) == Blocked(i) \/ Answered(i) \/ ConnectionFails(i) \/ OpFails(i)

Release(i) == conn' = [conn EXCEPT ![i] = "none"]

NoDevices(i) == ThisOp(i) = "devices" /\ i \notin found

Close(i) ==
  /\ at[i] = "close" /\ Release(i)
  /\ IF i \notin broken /\ ~NoDevices(i) /\ stage[i] < Len(Stages(Tool(i)))
     THEN /\ stage' = [stage EXCEPT ![i] = @ + 1]
          /\ pos' = [pos EXCEPT ![i] = 1]
          /\ MoveTo(i, "connect") /\ UNCHANGED outcome
     ELSE /\ outcome' = [outcome EXCEPT ![i] =
            CASE i \in broken                     -> "error"
              [] i \notin broken /\ NoDevices(i) -> "empty"
              [] OTHER                            -> "ok"]
          /\ MoveTo(i, "returned") /\ UNCHANGED <<stage, pos>>
  /\ UNCHANGED <<Elsewhere, tries, found, broken, sent>>

\* The exit code, and then the output contract.
ScriptReturns(i) ==
  /\ at[i] = "script" /\ box[i] = "done"
  /\ \E contract \in BOOLEAN : Return(i, IF exit[i] = "ok" /\ contract THEN "ok" ELSE "error")
  /\ UNCHANGED sandboxVars
-----------------------------------------------------------------------------
(***************************************************************************)
(* The environment: reviewers, the host, and a new server process.  Calls  *)
(* that wait for an operator are in the database and outlive a restart;    *)
(* nobody begins the others again.                                         *)
(***************************************************************************)
RejectSkill ==
  /\ \E k \in ready : ready' = ready \ {k}
  /\ UNCHANGED <<settings, batch, plan, node, confirmed, callVars, epoch, sandboxVars>>

Restart ==
  /\ epoch < MaxRestarts /\ epoch' = epoch + 1
  /\ settings' \in AllSettings \ {settings}
  /\ at' = [i \in Jobs |-> IF at[i] \in Busy \cup {"new"} THEN "lost" ELSE at[i]]
  /\ conn' = [i \in Jobs |-> "none"]
  /\ node' = IF node = "plan" THEN "fail" ELSE node
  /\ SandboxCrash
  /\ UNCHANGED <<ready, batch, plan, confirmed, stage, pos, tries, found, broken, outcome, sent>>

RunnerInit ==
  /\ SandboxInit
  /\ settings \in AllSettings /\ ready = DOMAIN Bundle /\ batch \in Batches
  /\ plan = <<>> /\ node = "plan" /\ confirmed = {}
  /\ at = [i \in Jobs |-> "new"]
  /\ stage = [i \in Jobs |-> 1] /\ pos = [i \in Jobs |-> 1] /\ tries = [i \in Jobs |-> 0]
  /\ conn = [i \in Jobs |-> "none"]
  /\ found = {} /\ broken = {}
  /\ outcome = [i \in Jobs |-> "none"]
  /\ sent = [i \in Jobs |-> <<>>]
  /\ epoch = 0

Item(i) == RefuseItem(i) \/ DispatchItem(i) \/ AskForItem(i)

Runner(i) ==
  \/ BeginSkill(i) \/ BeginScript(i) \/ BeginCapability(i)
  \/ ScriptThread(i) \/ Connect(i) \/ Perform(i) \/ Close(i) \/ ScriptReturns(i)

RunnerNext ==
  \/ MakePlan
  \/ \E i \in Jobs :
       \/ Item(i) \/ Approve(i) \/ Reject(i) \/ Runner(i)
       \/ (JobStep(i) \/ Daemon(i)) /\ UNCHANGED Outside
  \/ DockerGone /\ UNCHANGED Outside
  \/ RejectSkill \/ Restart

\* Every connector has a timeout, and so has the docker client; scripts and
\* operators have none.
RunnerFairness ==
  /\ WF_runnerVars(MakePlan)
  /\ \A i \in Jobs : /\ WF_runnerVars(Item(i)) /\ WF_runnerVars(Runner(i))
                     /\ WF_runnerVars(JobStep(i) /\ UNCHANGED Outside)

RunnerSpec == RunnerInit /\ [][RunnerNext]_runnerVars /\ RunnerFairness
-----------------------------------------------------------------------------
Mutates(e) == e.on = "ssh" /\ e.op \in {"restart", "is_active"}

(***************************************************************************)
(* A command that changes a device is sent, and a script is started, only  *)
(* for a call that an operator approved, in a batch all of whose calls     *)
(* were valid when the approval was asked for.  Planner, execute_tools,    *)
(* suspend_for_human, the gate of execute_builtin_tool and the SSH guard   *)
(* share this work.                                                        *)
(***************************************************************************)
MutationsWereApproved ==
  \A i \in Jobs :
    at[i] = "asked" \/ container[i] # "none" \/ (\E a \in DOMAIN sent[i] : Mutates(sent[i][a])) =>
      /\ at[i] = "asked" \/ i \in confirmed
      /\ \A j \in DOMAIN plan : ~plan[j].error

(***************************************************************************)
(* Only PostgreSQL queries are repeated, and three times at most.  In      *)
(* particular a restart is sent once per approval, whatever became of its  *)
(* answer, and no alarm query goes out for a site without devices.         *)
(***************************************************************************)
NoBlindRepeat ==
  \A i \in Jobs :
    /\ \A a \in DOMAIN sent[i] :
         Cardinality({b \in DOMAIN sent[i] : sent[i][b] = sent[i][a]})
           <= (IF sent[i][a].on = "postgres" THEN 3 ELSE 1)
    /\ (\E a, b \in DOMAIN sent[i] : sent[i][a].op = "devices" /\ sent[i][b].on = "clickhouse")
         => i \in found

\* The limits that the catalog states for arguments.
Limited(args) ==
  LET In(key, hi) == key \in DOMAIN args => args[key].val \in 1 .. hi
  IN In("window_minutes", 1440) /\ In("limit", 1000) /\ In("count", 10)

\* Whatever a call did, what it sent obeys them.
SentWithinLimits == \A i \in Jobs : sent[i] # <<>> => Limited(batch[i].args)

(***************************************************************************)
(* A call that returned holds no connector and no directory, and its       *)
(* script runs on only if Docker refused to remove the container.  What a  *)
(* refused call would have touched was never touched.                      *)
(***************************************************************************)
NothingLeftBehind ==
  \A i \in Jobs :
    /\ at[i] = "returned" =>
         conn[i] = "none" /\ i \notin workspace /\ (container[i] = "running" => i \in stuck)
    /\ at[i] = "refused" => sent[i] = <<>> /\ container[i] = "none"

(***************************************************************************)
(* What is sent to a device obeys the settings of the process that sends   *)
(* it, although the call was planned, and approved, under those of another *)
(* process: the service and the node are still allowed, and the host is    *)
(* the one the node has now.                                               *)
(***************************************************************************)
TodaysSettings ==
  [][\A i \in Jobs : Len(sent'[i]) > Len(sent[i]) =>
       LET e == sent'[i][Len(sent'[i])] IN
       /\ e.on = "ssh" =>
            /\ settings.nodes # {} => Arg(i, "node_name") \in settings.nodes
            /\ e.host = SshHost(settings, Arg(i, "node_name"))
       /\ e.op = "restart" => Arg(i, "service_name") \in settings.services \ UnsafeName]_runnerVars

\* Every call that a node has in hand is answered, unless its process ends:
\* attempts are bounded and a script that hangs is given up.
EveryCallReturns ==
  \A i \in Jobs :
    /\ at[i] = "start" ~> at[i] \in {"returned", "lost"}
    /\ (node = "execute_tools" /\ i \in DOMAIN batch) ~> at[i] \in {"refused", "returned", "lost"}
=============================================================================
