---------------------------- MODULE ToolCatalog ----------------------------
(***************************************************************************)
(* What a model may ask for and how a batch of its tool calls is judged:   *)
(* the catalog of a turn (agent/builtin_tools.py), the validation of       *)
(* arguments (agent/tool_validation.py), the plan and the route of a batch *)
(* (agent/tool_batch_planner.py), and the guard in front of an SSH         *)
(* connection (agent/safety.py).  Pure operators, no state.                *)
(***************************************************************************)
EXTENDS Integers, Sequences

CONSTANTS UnsafeName,  \* names that _SAFE_RESTART_SERVICE_PATTERN does not match
          Forbidden,   \* names that put a command on a block list of the guard
          Blank,       \* the empty string
          NoHost       \* SSH_HOST is not set

SkillTool == {"load_skill", "read_skill_file", "run_skill_script"}
AlarmTool == {"get_site_alarm_summary", "get_active_alarms", "get_site_kpi_snapshot"}
NodeTool  == {"get_node_health_snapshot", "ping_node", "restart_service"}
BuiltinTool == SkillTool \cup AlarmTool \cup NodeTool \cup {"get_site_inventory"}

(***************************************************************************)
(* Settings: ch and pg say whether the two database hosts are configured;  *)
(* nodes, map, host and services are SSH_ALLOWED_NODES, SSH_NODE_HOST_MAP, *)
(* SSH_HOST and SSH_RESTART_ALLOWED_SERVICES; sandbox is SANDBOX_ENABLED.  *)
(***************************************************************************)
AllowedServices(s) == s.services \ UnsafeName

SshConfigured(s) == s.nodes # {} \/ s.host # NoHost \/ DOMAIN s.map # {}

Configured(t, s) ==
  CASE t \in AlarmTool            -> s.ch
    [] t = "get_site_inventory"   -> s.pg
    [] t \in NodeTool             ->
         SshConfigured(s) /\ (t = "restart_service" => AllowedServices(s) # {})
    [] OTHER                      -> FALSE

-----------------------------------------------------------------------------
(***************************************************************************)
(* JSON values are [type, val]; an object's val maps its keys to values.   *)
(* A schema is a record that has only the keywords it uses.                *)
(***************************************************************************)
Text            == [types |-> {"string"}]
OneOf(names)    == [types |-> {"string"}, enum |-> names]
Range1(hi)      == [types |-> {"integer"}, minimum |-> 1, maximum |-> hi]
AnyObject       == [types |-> {"object"}]
Closed(props, req) ==
  [types |-> {"object"}, properties |-> props, required |-> req, closed |-> TRUE]

\* _schema: every property required, unless said otherwise.
AllOf(props) == Closed(props, DOMAIN props)

SiteWindow == [site_id |-> Text, window_minutes |-> Range1(1440), limit |-> Range1(1000)]

SiteSchema ==
  [get_site_alarm_summary |-> AllOf(SiteWindow),
   get_site_kpi_snapshot  |-> AllOf(SiteWindow),
   get_site_inventory     |-> AllOf([site_id |-> Text, limit |-> Range1(1000)]),
   get_active_alarms      |->
     Closed([window_minutes |-> Range1(1440), limit |-> Range1(1000), severity |-> Text],
            {"window_minutes", "limit"})]

NodeSchema(services) ==
  [get_node_health_snapshot |-> AllOf([node_name |-> Text]),
   ping_node       |-> AllOf([node_name |-> Text, count |-> Range1(10)]),
   restart_service |-> AllOf([node_name |-> Text, service_name |-> OneOf(services)])]

SkillSchema(skills) ==
  [load_skill       |-> AllOf([skill_name |-> OneOf(skills)]),
   read_skill_file  |-> AllOf([skill_name |-> OneOf(skills), file_path |-> Text]),
   run_skill_script |-> AllOf([skill_name |-> OneOf(skills), script_path |-> Text,
                               arguments |-> AnyObject])]

\* Skill tools need a ready skill, scripts the sandbox, the others a connector.
Offered(s, ready, sandbox) ==
  {t \in BuiltinTool :
     IF t \in SkillTool THEN ready # {} /\ (t = "run_skill_script" => sandbox)
                        ELSE Configured(t, s)}

SchemaOf(t, s, ready) ==
  CASE t \in SkillTool -> SkillSchema(ready)[t]
    [] t \in NodeTool  -> NodeSchema(AllowedServices(s))[t]
    [] OTHER           -> SiteSchema[t]

Catalog(s, ready, sandbox) ==
  [t \in Offered(s, ready, sandbox) |-> SchemaOf(t, s, ready)]
-----------------------------------------------------------------------------
(***************************************************************************)
(* _validate_value, for the arguments object, a property of it, and the    *)
(* members or items of that.  The schema of a skill script may nest to     *)
(* depth 4 (_sanitize_json_schema_node); what lies deeper is left out.     *)
(***************************************************************************)
Has(s, keyword) == keyword \in DOMAIN s

MatchesType(v, s) ==
  Has(s, "types") =>
    v.type \in s.types \/ (v.type = "integer" /\ "number" \in s.types)

\* Mutant: the maximum is not looked at.
InBounds_NoMaximum(v, s) ==
  v.type \in {"integer", "number"} => (Has(s, "minimum") => v.val >= s.minimum)

InBounds(v, s) ==
  v.type \in {"integer", "number"} =>
    /\ Has(s, "minimum") => v.val >= s.minimum
    /\ Has(s, "maximum") => v.val <= s.maximum

ValidScalar(v, s) ==
  MatchesType(v, s) /\ InBounds(v, s) /\ (Has(s, "enum") => v.val \in s.enum)

Properties(s) == IF Has(s, "properties") THEN s.properties ELSE << >>

ValidKeys(obj, s) ==
  /\ Has(s, "required") => s.required \subseteq DOMAIN obj
  /\ Has(s, "closed") => DOMAIN obj \subseteq DOMAIN Properties(s)

Described(obj, s) == DOMAIN obj \cap DOMAIN Properties(s)

ValidValue(v, s) ==
  /\ ValidScalar(v, s)
  /\ v.type = "object" =>
       /\ ValidKeys(v.val, s)
       /\ \A key \in Described(v.val, s) : ValidScalar(v.val[key], Properties(s)[key])
  /\ v.type = "array" /\ Has(s, "items") => \A i \in DOMAIN v.val : ValidScalar(v.val[i], s.items)

ValidObject(obj, s) ==
  /\ ValidKeys(obj, s)
  /\ \A key \in Described(obj, s) : ValidValue(obj[key], Properties(s)[key])

\* validate_tool_call_arguments: a tool that is not in the catalog is an error too.
ValidArguments(call, catalog) ==
  call.name \in DOMAIN catalog /\ ValidObject(call.args, catalog[call.name])
-----------------------------------------------------------------------------
(***************************************************************************)
(* plan_tool_batch.                                                        *)
(***************************************************************************)
Risk(tool) ==
  IF tool \in {"restart_service", "run_skill_script"} THEN "require_approval" ELSE "auto_execute"

\* The name of a ready skill is an error the model can correct; any other
\* unknown name makes the batch fail.
PlanItem(call, s, ready, sandbox) ==
  LET ok == ValidArguments(call, Catalog(s, ready, sandbox))
  IN [call        |-> call,
      error       |-> call.name \notin BuiltinTool \/ ~ok,
      unavailable |-> call.name \notin BuiltinTool \cup ready,
      risk        |-> IF call.name \in BuiltinTool /\ ok THEN Risk(call.name) ELSE "none"]

PlanBatch(calls, s, ready, sandbox) ==
  [i \in DOMAIN calls |-> PlanItem(calls[i], s, ready, sandbox)]

Some(items, field)  == \E i \in DOMAIN items : items[i][field]
NeedsApproval(items) == \E i \in DOMAIN items : items[i].risk = "require_approval"

\* Mutant: an approval is asked for although a call of the batch is invalid.
PlanRoute_ApprovalFirst(items) ==
  CASE Some(items, "unavailable")                            -> "fail"
    [] ~Some(items, "unavailable") /\ NeedsApproval(items)   -> "suspend_for_human"
    [] OTHER                                                 -> "execute_tools"

\* The first of three answers that applies; an error outweighs an approval.
PlanRoute(items) ==
  CASE Some(items, "unavailable") -> "fail"
    [] ~Some(items, "unavailable") /\ ~Some(items, "error") /\ NeedsApproval(items) ->
         "suspend_for_human"
    [] OTHER -> "execute_tools"

PlanMatches(items, calls) ==
  Len(items) = Len(calls) /\ \A i \in DOMAIN calls : items[i].call = calls[i]
-----------------------------------------------------------------------------
(***************************************************************************)
(* AgentSafetyGuard, on commands [word, target]: the first token, and the  *)
(* name that was put into the command.                                     *)
(***************************************************************************)
ReadOnlyWords == {"cat", "df", "display", "free", "get", "grep", "head", "hostname",
                  "journalctl", "list", "ls", "ping", "ps", "show", "stat", "status",
                  "tail", "uname", "uptime", "whoami"}

\* The three block lists: command chains, sensitive paths, the critical list.
OnBlockList(name) == name \in Forbidden

ValidCommand(cmd) == ~OnBlockList(cmd.target)

ClassifySsh(cmd) ==
  IF cmd.word \in ReadOnlyWords THEN "auto_execute" ELSE "require_approval"

VerifySsh(cmd, confirmations) ==
  ValidCommand(cmd) /\ (ClassifySsh(cmd) = "require_approval" => confirmations >= 1)
-----------------------------------------------------------------------------
\* _resolve_ssh_host: the map, the name itself if there is an allow list, the
\* default host, or the name.
SshHost(s, node) ==
  LET named == (s.nodes # {} /\ node # Blank) \/ s.host = NoHost
  IN CASE node \in DOMAIN s.map            -> s.map[node]
       [] node \notin DOMAIN s.map /\ named -> node
       [] OTHER                            -> s.host

\* _resolve_capability_node raises unless this holds.
NodeAllowed(s, node) ==
  (s.nodes # {} => node \in s.nodes) /\ SshHost(s, node) # Blank
=============================================================================
