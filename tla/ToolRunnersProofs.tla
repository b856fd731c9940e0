-------------------------- MODULE ToolRunnersProofs --------------------------
(***************************************************************************)
(* The safety properties of a batch of tool calls, for any batch, any      *)
(* settings, any skills and any number of restarts.                        *)
(*                                                                         *)
(* The inductive invariant follows one call: what the plan says of a call  *)
(* that was begun, which gates it has passed under the settings of the     *)
(* process that is up, and which of the operations of its tool it may have *)
(* sent, and how often, at its place in the tool's stages.                 *)
(***************************************************************************)
EXTENDS ToolRunners, FiniteSetTheorems, SequenceTheorems, TLAPS

\* A sequence, over whatever its elements are.
Image(s) == {s[a] : a \in DOMAIN s}
IsLog(s) == s \in Seq(Image(s))

RunnerTypes ==
  /\ SandboxTypeOK
  /\ settings \in AllSettings /\ ready \subseteq DOMAIN Bundle /\ batch \in Batches
  /\ node \in {"plan", "execute_tools", "suspend_for_human", "fail"}
  /\ at \in [Jobs -> Position] /\ confirmed \subseteq Jobs
  /\ stage \in [Jobs -> Nat] /\ pos \in [Jobs -> Nat] /\ tries \in [Jobs -> 0 .. 2]
  /\ conn \in [Jobs -> Backend \cup {"none"}]
  /\ found \subseteq Jobs /\ broken \subseteq Jobs
  /\ outcome \in [Jobs -> {"none", "ok", "empty", "error"}]
  /\ DOMAIN sent = Jobs /\ \A i \in Jobs : IsLog(sent[i])
  /\ epoch \in 0 .. MaxRestarts

\* What the plan knows of a call that is not an error.
Sound(i) ==
  /\ plan[i].risk # "none" => ~plan[i].error
  /\ ~plan[i].error => /\ Tool(i) \in BuiltinTool /\ plan[i].risk = Risk(Tool(i))
                       /\ Limited(batch[i].args)

PlanInv ==
  /\ node = "plan" => plan = <<>> /\ \A i \in Jobs : at[i] = "new"
  /\ plan # <<>> => DOMAIN plan = DOMAIN batch /\ PlanMatches(plan, batch)
  /\ \A i \in DOMAIN plan : Sound(i)
  /\ node = "suspend_for_human" => \A i \in DOMAIN plan : ~plan[i].error

Vetted(i) == i \in DOMAIN plan /\ ~plan[i].error

\* The gates that a call has passed where it is.
Gates(i) ==
  /\ at[i] \in Busy \cup {"asked"} \/ sent[i] # <<>> => Vetted(i)
  /\ at[i] = "asked" \/ i \in confirmed => node = "suspend_for_human"
  /\ at[i] \in {"connect", "work", "close"} =>
       Permitted(i) /\ Admissible(i) /\ Tool(i) \notin SkillTool
  /\ at[i] = "script" => i \in confirmed

\* Where a call is in the stages of its tool.
Place(i) ==
  /\ at[i] \in {"new", "refused", "asked", "start"} =>
       /\ sent[i] = <<>> /\ stage[i] = 1 /\ pos[i] = 1 /\ tries[i] = 0
       /\ i \notin found /\ i \notin broken
  /\ at[i] \in {"connect", "work", "close"} =>
       stage[i] \in 1 .. Len(Stages(Tool(i))) /\ pos[i] \in 1 .. Len(ThisStage(i).ops)
  /\ conn[i] = IF at[i] \in {"work", "close"} THEN ThisStage(i).on ELSE "none"
  /\ at[i] \in {"connect", "work"} => i \notin broken
  /\ at[i] = "connect" => pos[i] = 1
  /\ tries[i] # 0 /\ at[i] \in {"connect", "work", "close"} =>
       at[i] # "connect" /\ conn[i] = "postgres" /\ (at[i] = "close" => i \in broken)
  /\ stage[i] > 1 => i \in found

\* The operations of the stages st after operation p of stage s.
Beyond(st, s, p, op) ==
  \E t \in 1 .. Len(st) : \E q \in 1 .. Len(st[t].ops) :
    st[t].ops[q] = op /\ (t > s \/ (t = s /\ q > p))

Sends(s, op) == {a \in DOMAIN s : s[a].op = op}

Repeatable == {"devices", "inventory"}

\* What a call has sent, and how often.
Judged(i) ==
  \A a \in DOMAIN sent[i] :
    /\ sent[i][a].on = "postgres" <=> sent[i][a].op \in Repeatable
    /\ Mutates(sent[i][a]) => i \in confirmed
    /\ sent[i][a].op = "devices" => Len(Stages(Tool(i))) = 2
    /\ sent[i][a].on = "clickhouse" /\ Len(Stages(Tool(i))) = 2 => stage[i] > 1
    /\ Cardinality(Sends(sent[i], sent[i][a].op))
         <= (IF sent[i][a].op \in Repeatable THEN 3 ELSE 1)

\* What it is about to send was sent by the failed attempts only.
Counted(i) ==
  at[i] \in {"connect", "work"} => Cardinality(Sends(sent[i], ThisOp(i))) <= tries[i]

\* Nothing that lies ahead was sent.
Past(i) ==
  at[i] \in {"connect", "work"} \/ (at[i] = "close" /\ i \notin broken) =>
    \A a \in DOMAIN sent[i] : ~Beyond(Stages(Tool(i)), stage[i], pos[i], sent[i][a].op)

Log(i) == Judged(i) /\ Counted(i) /\ Past(i)

\* The sandbox of a call.
Boxed(i) ==
  /\ box[i] # "idle" => i \in confirmed /\ at[i] \in {"script", "returned", "lost"}
  /\ at[i] = "returned" => box[i] \in {"idle", "done"}
  /\ box[i] \in {"idle", "done"} => i \notin workspace
  /\ box[i] \in {"idle", "materialize", "launch"} => container[i] = "none"
  /\ box[i] \in {"cleanup", "done"} /\ container[i] = "running" => i \in stuck

RunnerInv ==
  /\ RunnerTypes /\ PlanInv
  /\ \A i \in Jobs : Gates(i) /\ Place(i) /\ Log(i) /\ Boxed(i)
-----------------------------------------------------------------------------
(***************************************************************************)
(* The stages of the tools.                                                *)
(***************************************************************************)
\* A query of PostgreSQL is the only kind that is repeated, and no operation has two
\* places; a second stage comes after the lookup of the site's devices.
LEMMA StageFacts ==
  ASSUME NEW t \in BuiltinTool \ SkillTool
  PROVE  /\ Len(Stages(t)) \in {1, 2}
         /\ \A s \in 1 .. Len(Stages(t)) :
              /\ Stages(t)[s].on \in Backend /\ Len(Stages(t)[s].ops) \in Nat \ {0}
              /\ Stages(t)[s].on = "ssh" => t \in NodeTool
              /\ \A p \in 1 .. Len(Stages(t)[s].ops) :
                   /\ Stages(t)[s].on = "postgres" <=> Stages(t)[s].ops[p] \in Repeatable
                   /\ Stages(t)[s].ops[p] \in {"restart", "is_active"} => t = "restart_service"
                   /\ Stages(t)[s].ops[p] = "devices" <=> Len(Stages(t)) = 2 /\ s = 1
                   /\ \A s2 \in 1 .. Len(Stages(t)) : \A p2 \in 1 .. Len(Stages(t)[s2].ops) :
                        Stages(t)[s].ops[p] = Stages(t)[s2].ops[p2] => s = s2 /\ p = p2
<1>1. CASE t = "get_site_alarm_summary"
  <2>1. Stages(t) = <<Use("postgres", <<"devices">>), Use("clickhouse", <<"summary">>)>>
    BY <1>1 DEF Stages
  <2> QED BY <1>1, <2>1 DEF Use, Backend, Repeatable
<1>2. CASE t = "get_site_kpi_snapshot"
  <2>1. Stages(t) = <<Use("postgres", <<"devices">>),
                      Use("clickhouse", <<"snapshot", "top_errors">>)>>
    BY <1>2 DEF Stages
  <2> QED BY <1>2, <2>1 DEF Use, Backend, Repeatable
<1>3. CASE t = "get_active_alarms"
  <2>1. Stages(t) = <<Use("clickhouse", <<"alarms">>)>>
    BY <1>3 DEF Stages
  <2> QED BY <1>3, <2>1 DEF Use, Backend, Repeatable
<1>4. CASE t = "get_site_inventory"
  <2>1. Stages(t) = <<Use("postgres", <<"inventory">>)>>
    BY <1>4 DEF Stages
  <2> QED BY <1>4, <2>1 DEF Use, Backend, Repeatable
<1>5. CASE t = "get_node_health_snapshot"
  <2>1. Stages(t) = <<Use("ssh", <<"hostname", "uptime", "free", "df">>)>>
    BY <1>5 DEF Stages
  <2> DEFINE o == <<"hostname", "uptime", "free", "df">>
  <2>2. Len(Stages(t)) = 1 /\ Stages(t)[1].on = "ssh" /\ Stages(t)[1].ops = o
    BY <2>1 DEF Use
  <2>3. /\ Len(o) = 4 /\ o[1] = "hostname" /\ o[2] = "uptime" /\ o[3] = "free" /\ o[4] = "df"
        /\ \A p \in 1 .. 4 : p \in {1, 2, 3, 4}
    OBVIOUS
  <2> HIDE DEF o
  <2>4. /\ \A p \in 1 .. 4 : o[p] \notin {"devices", "inventory", "restart", "is_active"}
        /\ \A p, q \in 1 .. 4 : o[p] = o[q] => p = q
    BY <2>3
  <2>5. \A s \in 1 .. Len(Stages(t)) : s = 1
    BY <2>2
  <2>6. Stages(t)[1].on \in Backend /\ Stages(t)[1].on # "postgres" /\ t \in NodeTool
    BY <1>5, <2>2 DEF Backend, NodeTool
  <2>7. /\ Len(Stages(t)) \in {1, 2} /\ Len(Stages(t)) # 2
        /\ \A s \in 1 .. Len(Stages(t)) : s = 1 /\ Len(Stages(t)[s].ops) = 4 /\ Stages(t)[s].ops = o
    BY <2>2, <2>3, <2>5
  <2>8. \A p \in 1 .. 4 : o[p] \notin Repeatable
    BY <2>4 DEF Repeatable
  <2> QED BY <2>4, <2>6, <2>7, <2>8
<1>6. CASE t = "ping_node"
  <2>1. Stages(t) = <<Use("ssh", <<"ping">>)>>
    BY <1>6 DEF Stages
  <2> QED BY <1>6, <2>1 DEF Use, Backend, Repeatable, NodeTool
<1>7. CASE t = "restart_service"
  <2>1. Stages(t) = <<Use("ssh", <<"restart", "is_active">>)>>
    BY <1>7 DEF Stages
  <2> QED BY <1>7, <2>1 DEF Use, Backend, Repeatable, NodeTool
<1> QED BY <1>1, <1>2, <1>3, <1>4, <1>5, <1>6, <1>7 DEF BuiltinTool, SkillTool, AlarmTool, NodeTool
-----------------------------------------------------------------------------
(***************************************************************************)
(* What the plan says of a valid call.                                     *)
(***************************************************************************)
LEMMA RangeValid ==
  ASSUME NEW v, NEW hi \in Nat, ValidValue(v, Range1(hi)), v.type = "integer" => v.val \in Int
  PROVE  v.val \in 1 .. hi
<1>1. DOMAIN Range1(hi) = {"types", "minimum", "maximum"} /\ Range1(hi).types = {"integer"}
      /\ Range1(hi).minimum = 1 /\ Range1(hi).maximum = hi
  BY DEF Range1
<1>2. MatchesType(v, Range1(hi)) /\ InBounds(v, Range1(hi))
  BY DEF ValidValue, ValidScalar
<1>3. v.type = "integer"
  BY <1>1, <1>2 DEF MatchesType, Has
<1> QED BY <1>1, <1>2, <1>3 DEF InBounds, Has

LEMMA ClosedValid ==
  ASSUME NEW obj, NEW props, NEW req, ValidObject(obj, Closed(props, req)),
         NEW key \in DOMAIN obj
  PROVE  key \in DOMAIN props /\ ValidValue(obj[key], props[key])
<1> DEFINE s == Closed(props, req)
<1>1. /\ DOMAIN s = {"types", "properties", "required", "closed"} /\ s.properties = props
  BY DEF Closed
<1> HIDE DEF s
<1>2. Properties(s) = props /\ Has(s, "closed")
  BY <1>1 DEF Properties, Has
<1>3. ValidObject(obj, s)
  BY DEF s
<1>4. key \in DOMAIN props
  BY <1>2, <1>3 DEF ValidObject, ValidKeys
<1> QED BY <1>2, <1>3, <1>4 DEF ValidObject, Described

\* The three properties whose limits the catalog states.
LimitsIn(props) ==
  /\ "window_minutes" \in DOMAIN props => props["window_minutes"] = Range1(1440)
  /\ "limit" \in DOMAIN props => props["limit"] = Range1(1000)
  /\ "count" \in DOMAIN props => props["count"] = Range1(10)

LEMMA SchemaFacts ==
  ASSUME NEW t \in BuiltinTool, NEW s, NEW rdy
  PROVE  \E props, req : SchemaOf(t, s, rdy) = Closed(props, req) /\ LimitsIn(props)
<1>1. CASE t \in {"get_site_alarm_summary", "get_site_kpi_snapshot"}
  <2>1. SchemaOf(t, s, rdy) = Closed(SiteWindow, DOMAIN SiteWindow)
    BY <1>1 DEF SchemaOf, SiteSchema, AllOf, SkillTool, NodeTool
  <2>2. LimitsIn(SiteWindow)
    BY DEF LimitsIn, SiteWindow
  <2> QED BY <2>1, <2>2
<1>2. CASE t = "get_site_inventory"
  <2> DEFINE props == [site_id |-> Text, limit |-> Range1(1000)]
  <2>1. SchemaOf(t, s, rdy) = Closed(props, DOMAIN props)
    BY <1>2 DEF SchemaOf, SiteSchema, AllOf, SkillTool, NodeTool
  <2>2. LimitsIn(props)
    BY DEF LimitsIn
  <2> QED BY <2>1, <2>2
<1>3. CASE t = "get_active_alarms"
  <2> DEFINE props == [window_minutes |-> Range1(1440), limit |-> Range1(1000),
                       severity |-> Text]
  <2>1. SchemaOf(t, s, rdy) = Closed(props, {"window_minutes", "limit"})
    BY <1>3 DEF SchemaOf, SiteSchema, SkillTool, NodeTool
  <2>2. LimitsIn(props)
    BY DEF LimitsIn
  <2> QED BY <2>1, <2>2
<1>4. CASE t = "get_node_health_snapshot"
  <2> DEFINE props == [node_name |-> Text]
  <2>1. SchemaOf(t, s, rdy) = Closed(props, DOMAIN props)
    BY <1>4 DEF SchemaOf, NodeSchema, AllOf, SkillTool, NodeTool
  <2>2. LimitsIn(props)
    BY DEF LimitsIn
  <2> QED BY <2>1, <2>2
<1>5. CASE t = "ping_node"
  <2> DEFINE props == [node_name |-> Text, count |-> Range1(10)]
  <2>1. SchemaOf(t, s, rdy) = Closed(props, DOMAIN props)
    BY <1>5 DEF SchemaOf, NodeSchema, AllOf, SkillTool, NodeTool
  <2>2. LimitsIn(props)
    BY DEF LimitsIn
  <2> QED BY <2>1, <2>2
<1>6. CASE t = "restart_service"
  <2> DEFINE props == [node_name |-> Text, service_name |-> OneOf(AllowedServices(s))]
  <2>1. SchemaOf(t, s, rdy) = Closed(props, DOMAIN props)
    BY <1>6 DEF SchemaOf, NodeSchema, AllOf, SkillTool, NodeTool
  <2>2. LimitsIn(props)
    BY DEF LimitsIn
  <2> QED BY <2>1, <2>2
<1>7. CASE t = "load_skill"
  <2> DEFINE props == [skill_name |-> OneOf(rdy)]
  <2>1. SchemaOf(t, s, rdy) = Closed(props, DOMAIN props)
    <3>1. SchemaOf(t, s, rdy) = SkillSchema(rdy)[t]
      BY <1>7 DEF SchemaOf, SkillTool, NodeTool
    <3>2. SkillSchema(rdy)["load_skill"] = AllOf(props)
      BY DEF SkillSchema
    <3> QED BY <1>7, <3>1, <3>2 DEF AllOf
  <2>2. LimitsIn(props)
    BY DEF LimitsIn
  <2> QED BY <2>1, <2>2
<1>8. CASE t = "read_skill_file"
  <2> DEFINE props == [skill_name |-> OneOf(rdy), file_path |-> Text]
  <2>1. SchemaOf(t, s, rdy) = Closed(props, DOMAIN props)
    <3>1. SchemaOf(t, s, rdy) = SkillSchema(rdy)[t]
      BY <1>8 DEF SchemaOf, SkillTool, NodeTool
    <3>2. SkillSchema(rdy)["read_skill_file"] = AllOf(props)
      BY DEF SkillSchema
    <3> QED BY <1>8, <3>1, <3>2 DEF AllOf
  <2>2. LimitsIn(props)
    BY DEF LimitsIn
  <2> QED BY <2>1, <2>2
<1>9. CASE t = "run_skill_script"
  <2> DEFINE props == [skill_name |-> OneOf(rdy), script_path |-> Text, arguments |-> AnyObject]
  <2>1. SchemaOf(t, s, rdy) = Closed(props, DOMAIN props)
    <3>1. SchemaOf(t, s, rdy) = SkillSchema(rdy)[t]
      BY <1>9 DEF SchemaOf, SkillTool, NodeTool
    <3>2. SkillSchema(rdy)["run_skill_script"] = AllOf(props)
      BY DEF SkillSchema
    <3> QED BY <1>9, <3>1, <3>2 DEF AllOf
  <2>2. LimitsIn(props)
    BY DEF LimitsIn
  <2> QED BY <2>1, <2>2
<1> QED BY <1>1, <1>2, <1>3, <1>4, <1>5, <1>6, <1>7, <1>8, <1>9
        DEF BuiltinTool, SkillTool, AlarmTool, NodeTool

LEMMA ArgsLimited ==
  ASSUME NEW args, NEW props, LimitsIn(props),
         \A key \in DOMAIN args : /\ key \in DOMAIN props /\ ValidValue(args[key], props[key])
                                  /\ args[key].type = "integer" => args[key].val \in Int
  PROVE  Limited(args)
<1>1. ASSUME NEW key \in DOMAIN args, NEW hi \in Nat, props[key] = Range1(hi)
      PROVE  args[key].val \in 1 .. hi
  <2>1. ValidValue(args[key], Range1(hi))
    BY <1>1
  <2> QED BY <2>1, RangeValid
<1>2. ASSUME "window_minutes" \in DOMAIN args PROVE args["window_minutes"].val \in 1 .. 1440
  <2> DEFINE hi == 1440
  <2>1. hi \in Nat /\ props["window_minutes"] = Range1(hi)
    BY <1>2 DEF LimitsIn
  <2> HIDE DEF hi
  <2>2. args["window_minutes"].val \in 1 .. hi
    BY <1>1, <1>2, <2>1
  <2> QED BY <2>2 DEF hi
<1>3. ASSUME "limit" \in DOMAIN args PROVE args["limit"].val \in 1 .. 1000
  <2> DEFINE hi == 1000
  <2>1. hi \in Nat /\ props["limit"] = Range1(hi)
    BY <1>3 DEF LimitsIn
  <2> HIDE DEF hi
  <2>2. args["limit"].val \in 1 .. hi
    BY <1>1, <1>3, <2>1
  <2> QED BY <2>2 DEF hi
<1>4. ASSUME "count" \in DOMAIN args PROVE args["count"].val \in 1 .. 10
  <2>1. props["count"] = Range1(10)
    BY <1>4 DEF LimitsIn
  <2> QED BY <1>1, <1>4, <2>1
<1> QED BY <1>2, <1>3, <1>4 DEF Limited

LEMMA ValidIsLimited ==
  ASSUME NEW call, NEW s, NEW rdy, NEW sb, ValidArguments(call, Catalog(s, rdy, sb)),
         \A key \in DOMAIN call.args :
           call.args[key].type = "integer" => call.args[key].val \in Int
  PROVE  Limited(call.args)
<1>1. /\ call.name \in BuiltinTool
      /\ ValidObject(call.args, SchemaOf(call.name, s, rdy))
  BY DEF ValidArguments, Catalog, Offered
<1>2. PICK props, req : SchemaOf(call.name, s, rdy) = Closed(props, req) /\ LimitsIn(props)
  BY <1>1, SchemaFacts
<1>3. \A key \in DOMAIN call.args :
        key \in DOMAIN props /\ ValidValue(call.args[key], props[key])
  BY <1>1, <1>2, ClosedValid
<1> QED BY <1>2, <1>3, ArgsLimited
-----------------------------------------------------------------------------
\* A sequence is one over any set that holds its elements.
LEMMA SeqWithRange ==
  ASSUME NEW S, NEW T, NEW t \in Seq(S), \A a \in 1 .. Len(t) : t[a] \in T
  PROVE  t \in Seq(T)
<1>1. Len(t) \in Nat /\ DOMAIN t = 1 .. Len(t) /\ t = [a \in 1 .. Len(t) |-> t[a]]
  OBVIOUS
<1>2. t \in [1 .. Len(t) -> T]
  BY <1>1
<1> QED BY <1>1, <1>2

LEMMA AppendFacts ==
  ASSUME NEW s, IsLog(s), NEW e, NEW t, t = Append(s, e)
  PROVE  /\ IsLog(t) /\ Len(s) \in Nat /\ Len(t) = Len(s) + 1
         /\ DOMAIN s = 1 .. Len(s) /\ DOMAIN t = 1 .. Len(s) + 1
         /\ t[Len(s) + 1] = e /\ \A a \in DOMAIN s : t[a] = s[a]
<1> DEFINE S == Image(s) \cup {e}
<1>1. s \in Seq(S) /\ e \in S
  <2>1. \A a \in 1 .. Len(s) : s[a] \in S
    BY DEF IsLog, Image
  <2>2. Len(s) \in Nat /\ DOMAIN s = 1 .. Len(s) /\ s = [a \in 1 .. Len(s) |-> s[a]]
    BY DEF IsLog, Image
  <2> HIDE DEF S
  <2>3. s \in Seq(S)
    BY <2>1, <2>2
  <2> QED BY <2>3 DEF S
<1> HIDE DEF S
<1>2. /\ t \in Seq(S) /\ Len(s) \in Nat /\ Len(t) = Len(s) + 1
      /\ DOMAIN s = 1 .. Len(s) /\ DOMAIN t = 1 .. Len(s) + 1
      /\ t[Len(s) + 1] = e /\ \A a \in DOMAIN s : t[a] = s[a]
  BY <1>1
<1>3. IsLog(t)
  <2>1. \A a \in 1 .. Len(t) : t[a] \in Image(t)
    BY <1>2 DEF Image
  <2>2. Len(t) \in Nat /\ DOMAIN t = 1 .. Len(t)
    BY <1>2
  <2> QED BY <1>2, <2>1, <2>2, SeqWithRange DEF IsLog
<1> QED BY <1>2, <1>3

LEMMA SendsCount ==
  ASSUME NEW s, IsLog(s), NEW op
  PROVE  /\ IsFiniteSet(Sends(s, op)) /\ Cardinality(Sends(s, op)) \in Nat
         /\ (\A a \in DOMAIN s : s[a].op # op) => Cardinality(Sends(s, op)) = 0
<1>1. IsFiniteSet(1 .. Len(s)) /\ Sends(s, op) \subseteq 1 .. Len(s)
  BY FS_Interval DEF Sends, IsLog, Image
<1>2. IsFiniteSet(Sends(s, op)) /\ Cardinality(Sends(s, op)) \in Nat
  BY <1>1, FS_Subset, FS_CardinalityType
<1>3. (\A a \in DOMAIN s : s[a].op # op) => Sends(s, op) = {}
  BY DEF Sends
<1> QED BY <1>2, <1>3, FS_EmptySet

\* One more send adds one to the count of its operation.
LEMMA SendCounts ==
  ASSUME NEW s, IsLog(s), NEW e, NEW op
  PROVE  Cardinality(Sends(Append(s, e), op))
           = Cardinality(Sends(s, op)) + (IF e.op = op THEN 1 ELSE 0)
<1> DEFINE t == Append(s, e)
<1>1. /\ Len(s) \in Nat /\ DOMAIN s = 1 .. Len(s) /\ DOMAIN t = 1 .. Len(s) + 1
      /\ t[Len(s) + 1] = e /\ \A a \in DOMAIN s : t[a] = s[a]
  BY AppendFacts
<1> HIDE DEF t
<1>2. IsFiniteSet(Sends(s, op)) /\ Cardinality(Sends(s, op)) \in Nat
  BY SendsCount
<1>3. CASE e.op = op
  <2>1. Sends(t, op) = Sends(s, op) \cup {Len(s) + 1} /\ Len(s) + 1 \notin Sends(s, op)
    BY <1>1, <1>3 DEF Sends
  <2>2. Cardinality(Sends(t, op)) = Cardinality(Sends(s, op)) + 1
    BY <1>2, <2>1, FS_AddElement
  <2> QED BY <1>3, <2>2 DEF t
<1>4. CASE e.op # op
  <2>1. Sends(t, op) = Sends(s, op)
    BY <1>1, <1>4 DEF Sends
  <2> QED BY <1>2, <1>4, <2>1 DEF t
<1> QED BY <1>3, <1>4
-----------------------------------------------------------------------------
(***************************************************************************)
(* A step that one call takes leaves the others alone.                     *)
(***************************************************************************)
USE DEF Position, Busy, Backend, callVars, sandboxVars, Elsewhere, Outside, MoveTo

Still == UNCHANGED <<batch, plan, node, settings>>

SameCall(q) ==
  /\ at'[q] = at[q] /\ stage'[q] = stage[q] /\ pos'[q] = pos[q] /\ tries'[q] = tries[q]
  /\ conn'[q] = conn[q] /\ sent'[q] = sent[q]
  /\ q \in found' <=> q \in found
  /\ q \in broken' <=> q \in broken
  /\ q \in confirmed' <=> q \in confirmed

SameBox(q) ==
  /\ box'[q] = box[q] /\ container'[q] = container[q]
  /\ q \in workspace' <=> q \in workspace
  /\ q \in stuck' <=> q \in stuck

\* What a step that leaves plan and settings alone does not change.
LEMMA StillFacts ==
  ASSUME Still, NEW i \in Jobs
  PROVE  /\ Tool(i)' = Tool(i) /\ (Admissible(i)' <=> Admissible(i)) /\ (Vetted(i)' <=> Vetted(i))
         /\ confirmed \subseteq confirmed' => (Permitted(i) => Permitted(i)')
<1>1. Tool(i)' = Tool(i)
  BY DEF Still, Tool
<1>2. Admissible(i)' <=> Admissible(i)
  BY <1>1 DEF Still, Admissible, Arg
<1> QED BY <1>1, <1>2 DEF Still, Vetted, Permitted

LEMMA SameCallKeeps ==
  ASSUME Still, NEW q \in Jobs, SameCall(q), Gates(q), Place(q), Log(q)
  PROVE  Gates(q)' /\ Place(q)' /\ Log(q)'
<1>1. Tool(q)' = Tool(q) /\ ThisStage(q)' = ThisStage(q) /\ ThisOp(q)' = ThisOp(q)
  BY StillFacts DEF SameCall, ThisStage, ThisOp
<1>2. Gates(q)'
  <2>1. /\ Admissible(q)' <=> Admissible(q)
        /\ Vetted(q)' <=> Vetted(q)
        /\ Permitted(q)' <=> Permitted(q)
    BY <1>1, StillFacts DEF SameCall, Permitted
  <2> QED BY <1>1, <2>1 DEF Still, SameCall, Gates
<1>3. Place(q)'
  BY <1>1 DEF SameCall, Place
<1>4. Judged(q)'
  BY <1>1 DEF SameCall, Log, Judged, Mutates
<1>5. Counted(q)'
  BY <1>1 DEF SameCall, Log, Counted
<1>6. Past(q)'
  BY <1>1 DEF SameCall, Log, Past
<1> QED BY <1>2, <1>3, <1>4, <1>5, <1>6 DEF Log

LEMMA SameBoxKeeps ==
  ASSUME NEW q \in Jobs, SameCall(q), SameBox(q), Boxed(q)
  PROVE  Boxed(q)'
BY DEF SameCall, SameBox, Boxed

LEMMA Assemble ==
  ASSUME RunnerInv, Still, NEW i \in Jobs, \A q \in Jobs \ {i} : SameCall(q) /\ SameBox(q),
         RunnerTypes', node # "plan", Gates(i)', Place(i)', Log(i)', Boxed(i)'
  PROVE  RunnerInv'
<1>1. PlanInv'
  BY DEF RunnerInv, PlanInv, Still, Sound, Tool
<1>2. ASSUME NEW q \in Jobs \ {i} PROVE Gates(q)' /\ Place(q)' /\ Log(q)' /\ Boxed(q)'
  BY <1>2, SameCallKeeps, SameBoxKeeps DEF RunnerInv
<1> QED BY <1>1, <1>2 DEF RunnerInv

\* What holds of the call that takes a step, and what its plan knows.
LEMMA CallFacts ==
  ASSUME RunnerInv, NEW i \in Jobs
  PROVE  /\ RunnerTypes /\ PlanInv /\ Gates(i) /\ Place(i) /\ Log(i) /\ Boxed(i)
         /\ (at[i] # "new" \/ i \in DOMAIN plan) => node # "plan"
         /\ Vetted(i) => Tool(i) \in BuiltinTool /\ plan[i].risk = Risk(Tool(i))
         /\ Vetted(i) => Limited(batch[i].args)
BY DEF RunnerInv, PlanInv, Vetted, Sound

\* What was sent is judged as before while nothing is sent.
LEMMA LogStays ==
  ASSUME Still, NEW i \in Jobs, Log(i), sent'[i] = sent[i], stage'[i] = stage[i],
         confirmed \subseteq confirmed',
         at'[i] \in {"connect", "work"} =>
           \/ sent[i] = <<>> /\ tries'[i] \in Nat
           \/ pos'[i] = pos[i] /\ tries'[i] = tries[i] /\ at[i] \in {"connect", "work"},
         at'[i] = "close" => i \in broken'
  PROVE  Log(i)'
<1>1. Tool(i)' = Tool(i)
  BY StillFacts
<1>2. Judged(i)'
  BY <1>1 DEF Log, Judged, Mutates
<1>3. Counted(i)'
  <2> SUFFICES ASSUME at'[i] \in {"connect", "work"}
               PROVE  Cardinality(Sends(sent[i], ThisOp(i)')) <= tries'[i]
    BY DEF Counted
  <2>1. CASE sent[i] = <<>> /\ tries'[i] \in Nat
    <3>1. Sends(sent[i], ThisOp(i)') = {}
      BY <2>1 DEF Sends
    <3>2. Cardinality(Sends(sent[i], ThisOp(i)')) = 0
      BY <3>1, FS_EmptySet
    <3> QED BY <2>1, <3>2
  <2>2. CASE pos'[i] = pos[i] /\ tries'[i] = tries[i] /\ at[i] \in {"connect", "work"}
    <3>1. ThisOp(i)' = ThisOp(i)
      BY <1>1, <2>2 DEF ThisOp, ThisStage
    <3> QED BY <2>2, <3>1 DEF Log, Counted
  <2> QED BY <2>1, <2>2
<1>4. Past(i)'
  <2> SUFFICES ASSUME at'[i] \in {"connect", "work"}, NEW a \in DOMAIN sent[i]
               PROVE  ~Beyond(Stages(Tool(i)), stage[i], pos'[i], sent[i][a].op)
    BY <1>1 DEF Past
  <2>1. pos'[i] = pos[i] /\ at[i] \in {"connect", "work"}
    OBVIOUS
  <2> QED BY <2>1 DEF Log, Past
<1> QED BY <1>2, <1>3, <1>4 DEF Log
-----------------------------------------------------------------------------
(***************************************************************************)
(* Where a call is that has begun.                                         *)
(***************************************************************************)
\* The stage and the operation that a call is at.
LEMMA AtStage ==
  ASSUME RunnerInv, NEW i \in Jobs, at[i] \in {"connect", "work", "close"}
  PROVE  /\ Tool(i) \in BuiltinTool \ SkillTool /\ Vetted(i) /\ node # "plan"
         /\ Len(Stages(Tool(i))) \in {1, 2} /\ stage[i] \in 1 .. Len(Stages(Tool(i)))
         /\ Len(ThisStage(i).ops) \in Nat \ {0} /\ pos[i] \in 1 .. Len(ThisStage(i).ops)
         /\ ThisStage(i).on \in Backend
         /\ ThisStage(i).on = "postgres" <=> ThisOp(i) \in Repeatable
         /\ ThisStage(i).on = "ssh" => Tool(i) \in NodeTool
         /\ ThisOp(i) \in {"restart", "is_active"} => Tool(i) = "restart_service"
         /\ ThisOp(i) = "devices" <=> Len(Stages(Tool(i))) = 2 /\ stage[i] = 1
         /\ (ThisStage(i).on = "clickhouse" /\ Len(Stages(Tool(i))) = 2) => stage[i] > 1
         /\ ~Beyond(Stages(Tool(i)), stage[i], pos[i], ThisOp(i))
<1> DEFINE t == Tool(i)
<1>1. t \in BuiltinTool \ SkillTool /\ Vetted(i) /\ node # "plan"
  BY CallFacts DEF Gates
<1>2. stage[i] \in 1 .. Len(Stages(t)) /\ pos[i] \in 1 .. Len(Stages(t)[stage[i]].ops)
  BY CallFacts DEF Place, ThisStage
<1>3. /\ Len(Stages(t)) \in {1, 2}
      /\ \A s \in 1 .. Len(Stages(t)) :
           /\ Stages(t)[s].on \in Backend /\ Len(Stages(t)[s].ops) \in Nat \ {0}
           /\ Stages(t)[s].on = "ssh" => t \in NodeTool
           /\ \A p \in 1 .. Len(Stages(t)[s].ops) :
                /\ Stages(t)[s].on = "postgres" <=> Stages(t)[s].ops[p] \in Repeatable
                /\ Stages(t)[s].ops[p] \in {"restart", "is_active"} => t = "restart_service"
                /\ Stages(t)[s].ops[p] = "devices" <=> Len(Stages(t)) = 2 /\ s = 1
                /\ \A s2 \in 1 .. Len(Stages(t)) : \A p2 \in 1 .. Len(Stages(t)[s2].ops) :
                     Stages(t)[s].ops[p] = Stages(t)[s2].ops[p2] => s = s2 /\ p = p2
  BY <1>1, StageFacts
<1>4. ThisStage(i) = Stages(t)[stage[i]] /\ ThisOp(i) = Stages(t)[stage[i]].ops[pos[i]]
  BY DEF ThisStage, ThisOp
<1> HIDE DEF t
<1>5. ~Beyond(Stages(t), stage[i], pos[i], ThisOp(i))
  <2> SUFFICES ASSUME NEW s \in 1 .. Len(Stages(t)), NEW p \in 1 .. Len(Stages(t)[s].ops),
                      Stages(t)[s].ops[p] = ThisOp(i),
                      s > stage[i] \/ (s = stage[i] /\ p > pos[i])
               PROVE  FALSE
    BY DEF Beyond
  <2>1. s = stage[i] /\ p = pos[i]
    BY <1>2, <1>3, <1>4
  <2> QED BY <1>2, <1>3, <2>1
<1>6. ThisOp(i) = "devices" <=> Len(Stages(t)) = 2 /\ stage[i] = 1
  BY <1>2, <1>3, <1>4
<1>7. ASSUME ThisStage(i).on = "clickhouse", Len(Stages(t)) = 2 PROVE stage[i] > 1
  <2>1. ThisOp(i) \notin Repeatable
    BY <1>2, <1>3, <1>4, <1>7
  <2>2. stage[i] # 1
    BY <1>6, <1>7, <2>1 DEF Repeatable
  <2> QED BY <1>2, <1>3, <1>7, <2>2
<1> QED BY <1>1, <1>2, <1>3, <1>4, <1>5, <1>6, <1>7 DEF t

\* A step inside the tool node: a call is picked up, asked for, decided or begun.
LEMMA MoveKeeps ==
  ASSUME RunnerInv, NEW i \in Jobs, NEW p, MoveTo(i, p), OnlyMoves,
         at[i] \in {"new", "asked", "start"}, node # "plan",
         p \in {"refused", "start", "asked", "script", "connect"},
         confirmed' = confirmed \/ (confirmed' = confirmed \cup {i} /\ at[i] = "asked"),
         p # "refused" => Vetted(i),
         p = "asked" => node = "suspend_for_human",
         p = "script" => i \in confirmed,
         p = "connect" => Permitted(i) /\ Admissible(i) /\ Tool(i) \notin SkillTool
  PROVE  RunnerInv'
<1> USE DEF OnlyMoves
<1>1. /\ RunnerTypes /\ PlanInv /\ Gates(i) /\ Place(i) /\ Log(i) /\ Boxed(i)
      /\ Vetted(i) => Tool(i) \in BuiltinTool
  BY CallFacts
<1>2. Still /\ at'[i] = p /\ i \in Jobs
  BY <1>1 DEF Still, RunnerTypes
<1>3. \A q \in Jobs \ {i} : SameCall(q) /\ SameBox(q)
  BY <1>1 DEF SameCall, SameBox, RunnerTypes
<1>4. RunnerTypes'
  <2>1. SandboxTypeOK'
    BY <1>1 DEF RunnerTypes, SandboxTypeOK
  <2>2. at' \in [Jobs -> Position] /\ confirmed' \subseteq Jobs
    BY <1>1 DEF RunnerTypes
  <2> QED BY <1>1, <2>1, <2>2 DEF RunnerTypes, Image
<1>5. /\ sent[i] = <<>> /\ stage[i] = 1 /\ pos[i] = 1 /\ tries[i] = 0 /\ conn[i] = "none"
      /\ i \notin found /\ i \notin broken /\ box[i] = "idle"
  BY <1>1 DEF Place, Boxed
<1>6. Gates(i)'
  <2>1. /\ Tool(i)' = Tool(i) /\ (Admissible(i)' <=> Admissible(i)) /\ (Vetted(i)' <=> Vetted(i))
        /\ Permitted(i) => Permitted(i)'
    BY <1>2, StillFacts
  <2>2. p = "asked" \/ i \in confirmed' => node = "suspend_for_human"
    BY <1>1 DEF Gates
  <2> QED BY <1>2, <1>5, <2>1, <2>2 DEF Gates, Still
<1>7. Place(i)'
  <2>1. CASE p # "connect"
    BY <1>2, <1>5, <2>1 DEF Place
  <2>2. CASE p = "connect"
    <3>1. 1 \in 1 .. Len(Stages(Tool(i))) /\ 1 \in 1 .. Len(Stages(Tool(i))[1].ops)
      BY <1>1, <2>2, StageFacts
    <3>2. ThisStage(i)' = Stages(Tool(i))[1] /\ Tool(i)' = Tool(i)
      BY <1>2, <1>5, StillFacts DEF ThisStage
    <3> QED BY <1>2, <1>5, <2>2, <3>1, <3>2 DEF Place
  <2> QED BY <2>1, <2>2
<1>8. Log(i)'
  BY <1>1, <1>2, <1>5, LogStays
<1>9. Boxed(i)'
  BY <1>1, <1>2, <1>5 DEF Boxed
<1> QED BY <1>2, <1>3, <1>4, <1>6, <1>7, <1>8, <1>9, Assemble

\* A runner that returns before it has a connector, or a script that has ended.
LEMMA ReturnKeeps ==
  ASSUME RunnerInv, NEW i \in Jobs, NEW r \in {"ok", "empty", "error"}, Return(i, r),
         UNCHANGED sandboxVars, at[i] \in {"start", "connect", "script"},
         box[i] \in {"idle", "done"}
  PROVE  RunnerInv'
<1> USE DEF Return
<1>1. RunnerTypes /\ PlanInv /\ Gates(i) /\ Place(i) /\ Log(i) /\ Boxed(i) /\ node # "plan"
  BY CallFacts
<1>2. Still /\ at'[i] = "returned"
  BY <1>1 DEF Still, RunnerTypes
<1>3. \A q \in Jobs \ {i} : SameCall(q) /\ SameBox(q)
  BY <1>1 DEF SameCall, SameBox, RunnerTypes
<1>4. RunnerTypes'
  <2>1. SandboxTypeOK'
    BY <1>1 DEF RunnerTypes, SandboxTypeOK
  <2>2. at' \in [Jobs -> Position] /\ outcome' \in [Jobs -> {"none", "ok", "empty", "error"}]
    BY <1>1 DEF RunnerTypes
  <2>3. UNCHANGED <<settings, ready, batch, node, confirmed, stage, pos, tries, conn, found,
                    broken, sent, epoch>>
    OBVIOUS
  <2> HIDE DEF Return
  <2> QED BY <1>1, <2>1, <2>2, <2>3 DEF RunnerTypes
<1>5. Gates(i)'
  BY <1>1, <1>2, StillFacts DEF Gates, Still
<1>6. Place(i)'
  BY <1>1, <1>2 DEF Place
<1>7. Log(i)'
  BY <1>1, <1>2, LogStays
<1>8. Boxed(i)'
  BY <1>1, <1>2 DEF Boxed
<1> QED BY <1>1, <1>2, <1>3, <1>4, <1>5, <1>6, <1>7, <1>8, Assemble
-----------------------------------------------------------------------------
(***************************************************************************)
(* The tool nodes and the gate of execute_builtin_tool.                    *)
(***************************************************************************)
LEMMA ItemKeeps ==
  ASSUME RunnerInv, NEW i \in Jobs, Item(i)
  PROVE  RunnerInv'
<1>1. i \in DOMAIN plan /\ at[i] = "new" /\ node # "plan"
  <2>1. i \in DOMAIN plan /\ at[i] = "new"
    BY DEF Item, RefuseItem, DispatchItem, AskForItem, Reached
  <2> QED BY <2>1, CallFacts
<1>2. plan[i].risk # "none" => ~plan[i].error
  BY <1>1 DEF RunnerInv, PlanInv, Sound
<1>3. CASE RefuseItem(i)
  BY <1>1, <1>3, MoveKeeps DEF RefuseItem
<1>4. CASE DispatchItem(i)
  <2>1. Vetted(i)
    BY <1>1, <1>2, <1>4 DEF DispatchItem, Direct, Vetted
  <2> QED BY <1>1, <1>4, <2>1, MoveKeeps DEF DispatchItem
<1>5. CASE AskForItem(i)
  <2>1. Vetted(i)
    BY <1>1, <1>2, <1>5 DEF AskForItem, Vetted
  <2> QED BY <1>1, <1>5, <2>1, MoveKeeps DEF AskForItem
<1> QED BY <1>3, <1>4, <1>5 DEF Item

LEMMA ApproveKeeps ==
  ASSUME RunnerInv, NEW i \in Jobs, Approve(i)
  PROVE  RunnerInv'
<1>1. at[i] = "asked" /\ node # "plan" /\ Vetted(i)
  BY CallFacts DEF Approve, Gates
<1> QED BY <1>1, MoveKeeps DEF Approve

LEMMA RejectKeeps ==
  ASSUME RunnerInv, NEW i \in Jobs, Reject(i)
  PROVE  RunnerInv'
<1>1. at[i] = "asked" /\ node # "plan"
  BY CallFacts DEF Reject
<1> QED BY <1>1, MoveKeeps DEF Reject

\* A call that is about to begin has nothing in the sandbox.
LEMMA StartFacts ==
  ASSUME RunnerInv, NEW i \in Jobs, at[i] \in {"start", "connect"}
  PROVE  node # "plan" /\ Vetted(i) /\ box[i] = "idle"
BY CallFacts DEF Gates, Boxed

LEMMA BeginSkillKeeps ==
  ASSUME RunnerInv, NEW i \in Jobs, BeginSkill(i)
  PROVE  RunnerInv'
<1>1. at[i] = "start" /\ box[i] = "idle"
  BY StartFacts DEF BeginSkill
<1>2. PICK r \in {"ok", "error"} : Return(i, r)
  BY DEF BeginSkill
<1> QED BY <1>1, <1>2, ReturnKeeps DEF BeginSkill

LEMMA BeginScriptKeeps ==
  ASSUME RunnerInv, NEW i \in Jobs, BeginScript(i)
  PROVE  RunnerInv'
<1>1. /\ at[i] = "start" /\ box[i] = "idle" /\ node # "plan" /\ Vetted(i)
      /\ Tool(i) = "run_skill_script" /\ UNCHANGED sandboxVars
  BY StartFacts DEF BeginScript
<1>2. CASE Return(i, "error")
  BY <1>1, <1>2, ReturnKeeps
<1>3. CASE Permitted(i) /\ MoveTo(i, "script") /\ OnlyMoves /\ UNCHANGED confirmed
  <2>1. i \in confirmed
    BY <1>1, <1>3 DEF Permitted, Risk
  <2> QED BY <1>1, <1>3, <2>1, MoveKeeps
<1>4. \/ Return(i, "error")
      \/ Permitted(i) /\ MoveTo(i, "script") /\ OnlyMoves /\ UNCHANGED confirmed
  BY <1>1 DEF BeginScript, OnlyMoves
<1> QED BY <1>2, <1>3, <1>4

LEMMA BeginCapabilityKeeps ==
  ASSUME RunnerInv, NEW i \in Jobs, BeginCapability(i)
  PROVE  RunnerInv'
<1>1. /\ at[i] = "start" /\ box[i] = "idle" /\ node # "plan" /\ Vetted(i)
      /\ Tool(i) \notin SkillTool /\ UNCHANGED sandboxVars
  BY StartFacts DEF BeginCapability
<1>2. CASE \E r \in {"error", "empty"} : Return(i, r)
  BY <1>1, <1>2, ReturnKeeps
<1>3. CASE /\ Permitted(i) /\ Admissible(i)
           /\ MoveTo(i, "connect") /\ OnlyMoves /\ UNCHANGED confirmed
  BY <1>1, <1>3, MoveKeeps
<1>4. \/ \E r \in {"error", "empty"} : Return(i, r)
      \/ /\ Permitted(i) /\ Admissible(i)
         /\ MoveTo(i, "connect") /\ OnlyMoves /\ UNCHANGED confirmed
  BY <1>1 DEF BeginCapability, OnlyMoves
<1> QED BY <1>2, <1>3, <1>4

LEMMA ScriptReturnsKeeps ==
  ASSUME RunnerInv, NEW i \in Jobs, ScriptReturns(i)
  PROVE  RunnerInv'
<1>1. PICK r \in {"ok", "error"} : Return(i, r)
  BY DEF ScriptReturns
<1> QED BY <1>1, ReturnKeeps DEF ScriptReturns
-----------------------------------------------------------------------------
(***************************************************************************)
(* A connector is opened.                                                  *)
(***************************************************************************)
LEMMA ConnectKeeps ==
  ASSUME RunnerInv, NEW i \in Jobs, Connect(i)
  PROVE  RunnerInv'
<1>1. RunnerTypes /\ PlanInv /\ Gates(i) /\ Place(i) /\ Log(i) /\ Boxed(i) /\ at[i] = "connect"
  BY CallFacts DEF Connect
<1>2. box[i] = "idle" /\ node # "plan" /\ Vetted(i)
  BY <1>1, StartFacts
<1>3. CASE Return(i, "error") /\ UNCHANGED sandboxVars
  BY <1>1, <1>2, <1>3, ReturnKeeps
<1>4. CASE /\ conn' = [conn EXCEPT ![i] = ThisStage(i).on] /\ MoveTo(i, "work")
           /\ UNCHANGED <<Elsewhere, stage, pos, tries, found, broken, outcome, sent>>
  <2>1. ThisStage(i).on \in Backend
    BY <1>1, AtStage
  <2>2. Still /\ at'[i] = "work" /\ conn'[i] = ThisStage(i).on
    BY <1>1, <1>4 DEF Still, RunnerTypes
  <2>3. \A q \in Jobs \ {i} : SameCall(q) /\ SameBox(q)
    BY <1>1, <1>4 DEF SameCall, SameBox, RunnerTypes
  <2>4. RunnerTypes'
    <3>1. SandboxTypeOK'
      BY <1>1, <1>4 DEF RunnerTypes, SandboxTypeOK
    <3>2. at' \in [Jobs -> Position] /\ conn' \in [Jobs -> Backend \cup {"none"}]
      BY <1>1, <1>4, <2>1 DEF RunnerTypes
    <3>3. UNCHANGED <<settings, ready, batch, node, confirmed, stage, pos, tries, found,
                      broken, outcome, sent, epoch>>
      BY <1>4
    <3> QED BY <1>1, <3>1, <3>2, <3>3 DEF RunnerTypes
  <2>5. /\ Tool(i)' = Tool(i) /\ (Admissible(i)' <=> Admissible(i)) /\ (Vetted(i)' <=> Vetted(i))
        /\ Permitted(i) => Permitted(i)'
    BY <1>4, <2>2, StillFacts
  <2>6. Gates(i)'
    BY <1>1, <1>4, <2>2, <2>5 DEF Gates, Still
  <2>7. Place(i)'
    <3>1. ThisStage(i)' = ThisStage(i)
      BY <1>4, <2>5 DEF ThisStage
    <3> QED BY <1>1, <1>4, <2>2, <2>5, <3>1 DEF Place
  <2>8. Log(i)'
    BY <1>1, <1>4, <2>2, LogStays
  <2>9. Boxed(i)'
    BY <1>1, <1>2, <1>4, <2>2 DEF Boxed
  <2> QED BY <1>2, <2>2, <2>3, <2>4, <2>6, <2>7, <2>8, <2>9, Assemble
<1> QED BY <1>3, <1>4 DEF Connect
-----------------------------------------------------------------------------
(***************************************************************************)
(* A connector at work.                                                    *)
(***************************************************************************)
\* One operation is sent, for the first time or by one of the failed attempts.
LEMMA SendFacts ==
  ASSUME RunnerInv, NEW i \in Jobs, MaySend(i), Send(i), Still, confirmed' = confirmed,
         stage'[i] = stage[i]
  PROVE  /\ DOMAIN sent' = Jobs /\ \A q \in Jobs \ {i} : sent'[q] = sent[q]
         /\ IsLog(sent'[i]) /\ sent'[i] # <<>>
         /\ Judged(i)'
         /\ \A a \in DOMAIN sent'[i] : ~Beyond(Stages(Tool(i)), stage[i], pos[i], sent'[i][a].op)
         /\ Cardinality(Sends(sent'[i], ThisOp(i))) <= tries[i] + 1
         /\ \A op : Cardinality(Sends(sent[i], op)) \in Nat
<1>1. /\ RunnerTypes /\ Gates(i) /\ Place(i) /\ Judged(i) /\ Counted(i) /\ Past(i)
      /\ at[i] = "work"
  BY CallFacts DEF MaySend, Log
<1>2. /\ Tool(i) \in BuiltinTool \ SkillTool
      /\ ThisStage(i).on = "postgres" <=> ThisOp(i) \in Repeatable
      /\ ThisOp(i) \in {"restart", "is_active"} => Tool(i) = "restart_service"
      /\ ThisOp(i) = "devices" <=> Len(Stages(Tool(i))) = 2 /\ stage[i] = 1
      /\ (ThisStage(i).on = "clickhouse" /\ Len(Stages(Tool(i))) = 2) => stage[i] > 1
      /\ ~Beyond(Stages(Tool(i)), stage[i], pos[i], ThisOp(i))
  BY <1>1, AtStage
<1>3. conn[i] = ThisStage(i).on /\ tries[i] \in 0 .. 2 /\ (tries[i] # 0 => conn[i] = "postgres")
  BY <1>1 DEF Place, RunnerTypes
<1>4. PICK s, e, t :
        /\ s = sent[i] /\ e.on = conn[i] /\ e.op = ThisOp(i) /\ t = Append(s, e)
        /\ sent' = [sent EXCEPT ![i] = t]
  <2> DEFINE e == [on |-> conn[i], op |-> ThisOp(i),
                   host |-> IF conn[i] = "ssh" THEN Host(i) ELSE NoHost]
  <2>1. e.on = conn[i] /\ e.op = ThisOp(i) /\ sent' = [sent EXCEPT ![i] = Append(sent[i], e)]
    BY DEF Send
  <2> HIDE DEF e
  <2> QED BY <2>1
<1>5. /\ DOMAIN sent' = Jobs /\ sent'[i] = t /\ \A q \in Jobs \ {i} : sent'[q] = sent[q]
      /\ IsLog(s)
  BY <1>1, <1>4 DEF RunnerTypes
<1>6. /\ IsLog(t) /\ Len(s) \in Nat /\ Len(t) = Len(s) + 1
      /\ DOMAIN s = 1 .. Len(s) /\ DOMAIN t = 1 .. Len(s) + 1
      /\ t[Len(s) + 1] = e /\ \A a \in DOMAIN s : t[a] = s[a]
  <2>1. IsLog(t) /\ Len(s) \in Nat /\ Len(t) = Len(s) + 1
    <3>1. t = Append(s, e) /\ IsLog(s)
      BY <1>4, <1>5
    <3> QED BY <3>1, AppendFacts
  <2>2. DOMAIN s = 1 .. Len(s) /\ DOMAIN t = 1 .. Len(s) + 1 /\ t[Len(s) + 1] = e
    BY <1>4, <1>5, AppendFacts
  <2>3. \A a \in DOMAIN s : t[a] = s[a]
    BY <1>4, <1>5, AppendFacts
  <2> QED BY <2>1, <2>2, <2>3
<1>7. \A op : /\ Cardinality(Sends(t, op))
                   = Cardinality(Sends(s, op)) + (IF e.op = op THEN 1 ELSE 0)
              /\ Cardinality(Sends(s, op)) \in Nat
  BY <1>4, <1>5, SendCounts, SendsCount
<1>8. Cardinality(Sends(s, ThisOp(i))) <= tries[i]
  BY <1>1, <1>4 DEF Counted
<1>9. Cardinality(Sends(t, ThisOp(i))) <= (IF ThisOp(i) \in Repeatable THEN 3 ELSE 1)
  BY <1>2, <1>3, <1>4, <1>5, <1>7, <1>8
<1>10. \A a \in DOMAIN t : t[a] = e \/ (a \in DOMAIN s /\ t[a] = s[a])
  BY <1>6
<1>11. Judged(i)'
  <2>1. ASSUME NEW a \in DOMAIN t
        PROVE  /\ t[a].on = "postgres" <=> t[a].op \in Repeatable
               /\ Mutates(t[a]) => i \in confirmed
               /\ t[a].op = "devices" => Len(Stages(Tool(i))) = 2
               /\ t[a].on = "clickhouse" /\ Len(Stages(Tool(i))) = 2 => stage[i] > 1
               /\ Cardinality(Sends(t, t[a].op)) <= (IF t[a].op \in Repeatable THEN 3 ELSE 1)
    <3>1. CASE t[a] = e
      <4>1. ASSUME Mutates(e) PROVE i \in confirmed
        <5>1. Tool(i) = "restart_service"
          BY <1>2, <1>4, <4>1 DEF Mutates
        <5>2. Permitted(i)
          BY <1>1 DEF Gates
        <5> QED BY <5>1, <5>2 DEF Permitted, Risk
      <4> QED BY <1>2, <1>3, <1>4, <1>5, <1>9, <3>1, <4>1
    <3>2. CASE a \in DOMAIN s /\ t[a] = s[a] /\ s[a].op = ThisOp(i)
      BY <1>1, <1>4, <1>9, <3>2 DEF Judged
    <3>3. CASE a \in DOMAIN s /\ t[a] = s[a] /\ s[a].op # ThisOp(i)
      <4>1. Cardinality(Sends(t, t[a].op)) = Cardinality(Sends(s, s[a].op))
        BY <1>4, <1>7, <3>3
      <4> QED BY <1>1, <1>4, <3>3, <4>1 DEF Judged
    <3> QED BY <1>10, <3>1, <3>2, <3>3
  <2>2. Tool(i)' = Tool(i)
    BY StillFacts
  <2> QED BY <1>5, <2>1, <2>2 DEF Judged, Mutates
<1>12. \A a \in DOMAIN t : ~Beyond(Stages(Tool(i)), stage[i], pos[i], t[a].op)
  BY <1>1, <1>2, <1>4, <1>10 DEF Past
<1>13. Cardinality(Sends(t, ThisOp(i))) <= tries[i] + 1
  BY <1>3, <1>4, <1>7, <1>8
<1> QED BY <1>4, <1>5, <1>6, <1>7, <1>11, <1>12, <1>13

\* What lies ahead was not sent.
LEMMA NextIsNew ==
  ASSUME NEW st, NEW s, NEW p, NEW log,
         \A a \in DOMAIN log : ~Beyond(st, s, p, log[a].op),
         NEW t \in 1 .. Len(st), NEW q \in 1 .. Len(st[t].ops), t > s \/ (t = s /\ q > p)
  PROVE  Cardinality(Sends(log, st[t].ops[q])) = 0
<1>1. Beyond(st, s, p, st[t].ops[q])
  BY DEF Beyond
<1>2. Sends(log, st[t].ops[q]) = {}
  BY <1>1 DEF Sends
<1> QED BY <1>2, FS_EmptySet

\* How a send leaves the call: given up, tried again, at the next operation, or done.
Aborts(i)    == GiveUp(i) /\ UNCHANGED <<pos, tries>>
TriesOn(i)   == /\ Retryable(i) /\ tries' = [tries EXCEPT ![i] = @ + 1]
                /\ UNCHANGED <<at, pos, broken>>
Advances(i)  == /\ ~IsLastOp(i) /\ pos' = [pos EXCEPT ![i] = @ + 1]
                /\ tries' = [tries EXCEPT ![i] = 0] /\ UNCHANGED <<at, broken>>
Completes(i) == /\ IsLastOp(i) /\ MoveTo(i, "close") /\ tries' = [tries EXCEPT ![i] = 0]
                /\ UNCHANGED <<pos, broken>>

\* What all sends leave alone.
LEMMA SendFrame ==
  ASSUME RunnerInv, NEW i \in Jobs, MaySend(i), Send(i),
         UNCHANGED <<Elsewhere, stage, conn, outcome>>,
         found' \in {found, found \cup {i}},
         Aborts(i) \/ TriesOn(i) \/ Advances(i) \/ Completes(i)
  PROVE  /\ Still /\ \A q \in Jobs \ {i} : SameCall(q) /\ SameBox(q)
         /\ RunnerTypes' /\ Gates(i)' /\ Boxed(i)'
         /\ at'[i] \in {"work", "close"}
<1>1. /\ RunnerTypes /\ Gates(i) /\ Boxed(i) /\ at[i] = "work"
      /\ Len(ThisStage(i).ops) \in Nat
  BY CallFacts, AtStage DEF MaySend
<1>2. Still /\ confirmed' = confirmed /\ stage'[i] = stage[i]
  BY DEF Still
<1>3. /\ DOMAIN sent' = Jobs /\ \A q \in Jobs \ {i} : sent'[q] = sent[q]
      /\ IsLog(sent'[i])
  BY <1>2, SendFacts
<1>4. /\ at' \in [Jobs -> Position] /\ pos' \in [Jobs -> Nat] /\ tries' \in [Jobs -> 0 .. 2]
      /\ found' \subseteq Jobs /\ broken' \subseteq Jobs
      /\ at'[i] \in {"work", "close"}
      /\ \A q \in Jobs \ {i} : /\ at'[q] = at[q] /\ pos'[q] = pos[q] /\ tries'[q] = tries[q]
                               /\ (q \in found' <=> q \in found)
                               /\ (q \in broken' <=> q \in broken)
  <2>0. /\ at \in [Jobs -> Position] /\ pos \in [Jobs -> Nat] /\ tries \in [Jobs -> 0 .. 2]
        /\ found \subseteq Jobs /\ broken \subseteq Jobs
    BY <1>1 DEF RunnerTypes
  <2>1. CASE Aborts(i)
    BY <1>1, <2>0, <2>1 DEF Aborts, GiveUp
  <2>2. CASE TriesOn(i)
    BY <1>1, <2>0, <2>2 DEF TriesOn, Retryable
  <2>3. CASE Advances(i)
    BY <1>1, <2>0, <2>3 DEF Advances
  <2>4. CASE Completes(i)
    BY <1>1, <2>0, <2>4 DEF Completes
  <2> QED BY <2>1, <2>2, <2>3, <2>4
<1>5. \A q \in Jobs \ {i} : SameCall(q) /\ SameBox(q)
  BY <1>3, <1>4 DEF SameCall, SameBox
<1>6. RunnerTypes'
  <2>1. SandboxTypeOK'
    BY <1>1 DEF RunnerTypes, SandboxTypeOK
  <2>2. UNCHANGED <<settings, ready, batch, node, confirmed, stage, conn, outcome, epoch>>
    OBVIOUS
  <2>3. \A q \in Jobs : IsLog(sent'[q])
    BY <1>1, <1>3 DEF RunnerTypes
  <2> QED BY <1>1, <1>3, <1>4, <2>1, <2>2, <2>3 DEF RunnerTypes
<1>7. Gates(i)'
  BY <1>1, <1>2, <1>4, StillFacts DEF Gates, Still
<1>8. Boxed(i)'
  <2>1. box[i] = "idle"
    BY <1>1 DEF Boxed
  <2> QED BY <1>1, <1>4, <2>1 DEF Boxed
<1> QED BY <1>2, <1>4, <1>5, <1>6, <1>7, <1>8

LEMMA SendKeeps ==
  ASSUME RunnerInv, NEW i \in Jobs, MaySend(i), Send(i),
         UNCHANGED <<Elsewhere, stage, conn, outcome>>,
         found' \in {found, found \cup {i}},
         Aborts(i) \/ TriesOn(i) \/ Advances(i) \/ Completes(i)
  PROVE  RunnerInv'
<1> DEFINE st == Stages(Tool(i))
<1>1. RunnerTypes /\ Place(i) /\ at[i] = "work"
  BY CallFacts DEF MaySend
<1>2. /\ Still /\ \A q \in Jobs \ {i} : SameCall(q) /\ SameBox(q)
      /\ RunnerTypes' /\ Gates(i)' /\ Boxed(i)'
  BY SendFrame
<1>3. /\ Judged(i)'
      /\ \A a \in DOMAIN sent'[i] : ~Beyond(st, stage[i], pos[i], sent'[i][a].op)
      /\ Cardinality(Sends(sent'[i], ThisOp(i))) <= tries[i] + 1
  BY <1>2, SendFacts
<1>4. /\ stage[i] \in 1 .. Len(st) /\ Len(ThisStage(i).ops) \in Nat
      /\ pos[i] \in 1 .. Len(ThisStage(i).ops) /\ node # "plan"
  BY <1>1, AtStage
<1>5. /\ Tool(i)' = Tool(i) /\ ThisStage(i)' = ThisStage(i) /\ ThisStage(i) = st[stage[i]]
      /\ stage'[i] = stage[i] /\ conn'[i] = conn[i]
      /\ (i \in found => i \in found')
  BY <1>2, StillFacts DEF ThisStage
<1>6. /\ at \in [Jobs -> Position] /\ pos \in [Jobs -> Nat] /\ tries \in [Jobs -> 0 .. 2]
      /\ i \notin broken /\ conn[i] = ThisStage(i).on /\ (stage[i] > 1 => i \in found)
      /\ (tries[i] # 0 => conn[i] = "postgres")
  BY <1>1 DEF RunnerTypes, Place
<1>7. CASE Aborts(i)
  <2>1. /\ at'[i] = "close" /\ i \in broken' /\ pos'[i] = pos[i] /\ tries'[i] = tries[i]
    BY <1>6, <1>7 DEF Aborts, GiveUp
  <2>2. Place(i)'
    BY <1>4, <1>5, <1>6, <2>1 DEF Place
  <2>3. Log(i)'
    BY <1>3, <2>1 DEF Log, Counted, Past
  <2> QED BY <1>2, <1>4, <2>2, <2>3, Assemble
<1>8. CASE TriesOn(i)
  <2>1. /\ at'[i] = "work" /\ i \notin broken' /\ pos'[i] = pos[i] /\ tries'[i] = tries[i] + 1
        /\ conn[i] = "postgres"
    BY <1>1, <1>6, <1>8 DEF TriesOn, Retryable
  <2>2. Place(i)'
    BY <1>4, <1>5, <1>6, <2>1 DEF Place
  <2>3. ThisOp(i)' = ThisOp(i)
    BY <1>5, <2>1 DEF ThisOp
  <2>4. Counted(i)'
    BY <1>3, <2>1, <2>3 DEF Counted
  <2>5. Past(i)'
    BY <1>3, <1>5, <2>1 DEF Past
  <2> QED BY <1>2, <1>3, <1>4, <2>2, <2>4, <2>5, Assemble DEF Log
<1>9. CASE Advances(i)
  <2>1. /\ at'[i] = "work" /\ i \notin broken' /\ pos'[i] = pos[i] + 1 /\ tries'[i] = 0
        /\ pos[i] # Len(ThisStage(i).ops)
    BY <1>1, <1>6, <1>9 DEF Advances, IsLastOp
  <2>2. pos'[i] \in 1 .. Len(ThisStage(i).ops) /\ pos'[i] > pos[i]
    BY <1>4, <2>1
  <2>3. Place(i)'
    BY <1>4, <1>5, <1>6, <2>1, <2>2 DEF Place
  <2>4. ThisOp(i)' = st[stage[i]].ops[pos'[i]]
    BY <1>5 DEF ThisOp
  <2>5. Cardinality(Sends(sent'[i], st[stage[i]].ops[pos'[i]])) = 0
    BY <1>3, <1>4, <1>5, <2>2, NextIsNew
  <2>6. Counted(i)'
    BY <2>1, <2>4, <2>5 DEF Counted
  <2>7. Past(i)'
    <3> SUFFICES ASSUME NEW a \in DOMAIN sent'[i]
                 PROVE  ~Beyond(st, stage[i], pos'[i], sent'[i][a].op)
      BY <1>5 DEF Past
    <3>1. ~Beyond(st, stage[i], pos[i], sent'[i][a].op)
      BY <1>3
    <3>2. st = st /\ \A n : n > pos'[i] /\ n \in Nat => n > pos[i]
      BY <1>4, <2>1
    <3> HIDE DEF st
    <3> QED BY <3>1, <3>2 DEF Beyond
  <2> QED BY <1>2, <1>3, <1>4, <2>3, <2>6, <2>7, Assemble DEF Log
<1>10. CASE Completes(i)
  <2>1. /\ at'[i] = "close" /\ i \notin broken' /\ pos'[i] = pos[i] /\ tries'[i] = 0
    BY <1>1, <1>6, <1>10 DEF Completes
  <2>2. Place(i)'
    BY <1>4, <1>5, <1>6, <2>1 DEF Place
  <2>3. Counted(i)'
    BY <2>1 DEF Counted
  <2>4. Past(i)'
    BY <1>3, <1>5, <2>1 DEF Past
  <2> QED BY <1>2, <1>3, <1>4, <2>2, <2>3, <2>4, Assemble DEF Log
<1> QED BY <1>7, <1>8, <1>9, <1>10
\* Nothing is sent, and the call is on its way out.
LEMMA BlockedKeeps ==
  ASSUME RunnerInv, NEW i \in Jobs, Blocked(i)
  PROVE  RunnerInv'
<1>1. /\ RunnerTypes /\ Gates(i) /\ Place(i) /\ Log(i) /\ Boxed(i) /\ at[i] = "work"
      /\ node # "plan" /\ box[i] = "idle"
  BY CallFacts DEF Blocked, Boxed
<1>2. /\ Still /\ at'[i] = "close" /\ i \in broken'
      /\ UNCHANGED <<Elsewhere, stage, pos, tries, conn, found, outcome, sent>>
  BY <1>1 DEF Still, RunnerTypes, Blocked, GiveUp
<1>3. \A q \in Jobs \ {i} : SameCall(q) /\ SameBox(q)
  BY <1>1 DEF SameCall, SameBox, RunnerTypes, Blocked, GiveUp
<1>4. RunnerTypes'
  <2>1. SandboxTypeOK'
    BY <1>1, <1>2 DEF RunnerTypes, SandboxTypeOK
  <2>2. at' \in [Jobs -> Position] /\ broken' \subseteq Jobs
    BY <1>1 DEF RunnerTypes, Blocked, GiveUp
  <2> QED BY <1>1, <1>2, <2>1, <2>2 DEF RunnerTypes
<1>5. Gates(i)'
  BY <1>1, <1>2, StillFacts DEF Gates, Still
<1>6. Place(i)'
  <2>1. Tool(i)' = Tool(i) /\ ThisStage(i)' = ThisStage(i)
    BY <1>2, StillFacts DEF ThisStage
  <2> QED BY <1>1, <1>2, <2>1 DEF Place
<1>7. Log(i)'
  BY <1>1, <1>2, LogStays
<1>8. Boxed(i)'
  BY <1>1, <1>2 DEF Boxed
<1> QED BY <1>1, <1>2, <1>3, <1>4, <1>5, <1>6, <1>7, <1>8, Assemble

LEMMA PerformKeeps ==
  ASSUME RunnerInv, NEW i \in Jobs, Perform(i)
  PROVE  RunnerInv'
<1>1. CASE Blocked(i)
  BY <1>1, BlockedKeeps
<1>2. CASE Answered(i)
  <2>1. /\ MaySend(i) /\ Send(i) /\ UNCHANGED <<Elsewhere, stage, conn, outcome>>
        /\ found' \in {found, found \cup {i}}
    BY <1>2 DEF Answered
  <2>2. Advances(i) \/ Completes(i)
    BY <1>2 DEF Answered, Advances, Completes
  <2> QED BY <2>1, <2>2, SendKeeps
<1>3. CASE ConnectionFails(i)
  <2>1. /\ MaySend(i) /\ Send(i) /\ UNCHANGED <<Elsewhere, stage, conn, outcome>>
        /\ found' \in {found, found \cup {i}}
    BY <1>3 DEF ConnectionFails
  <2>2. TriesOn(i) \/ Aborts(i)
    BY <1>3 DEF ConnectionFails, TriesOn, Aborts
  <2> QED BY <2>1, <2>2, SendKeeps
<1>4. CASE OpFails(i)
  <2>1. /\ MaySend(i) /\ Send(i) /\ UNCHANGED <<Elsewhere, stage, conn, outcome>>
        /\ found' \in {found, found \cup {i}} /\ Aborts(i)
    BY <1>4 DEF OpFails, Aborts
  <2> QED BY <2>1, SendKeeps
<1> QED BY <1>1, <1>2, <1>3, <1>4 DEF Perform

\* The finally of a connector: the next one, or the result.
LEMMA CloseKeeps ==
  ASSUME RunnerInv, NEW i \in Jobs, Close(i)
  PROVE  RunnerInv'
<1> DEFINE st == Stages(Tool(i))
           on == i \notin broken /\ ~NoDevices(i) /\ stage[i] < Len(Stages(Tool(i)))
<1>1. /\ RunnerTypes /\ Gates(i) /\ Place(i) /\ Log(i) /\ Boxed(i) /\ at[i] = "close"
      /\ box[i] = "idle"
  BY CallFacts DEF Close, Boxed
<1>2. /\ node # "plan" /\ Vetted(i) /\ Len(st) \in {1, 2} /\ stage[i] \in 1 .. Len(st)
      /\ Tool(i) \in BuiltinTool \ SkillTool
      /\ ThisOp(i) = "devices" <=> Len(st) = 2 /\ stage[i] = 1
  BY <1>1, AtStage
<1>3. /\ Still /\ conn'[i] = "none" /\ UNCHANGED <<Elsewhere, tries, found, broken, sent>>
      /\ conn' \in [Jobs -> Backend \cup {"none"}]
      /\ \A q \in Jobs \ {i} : conn'[q] = conn[q]
  BY <1>1 DEF Still, RunnerTypes, Close, Release
<1>4. /\ on => /\ stage' = [stage EXCEPT ![i] = @ + 1] /\ pos' = [pos EXCEPT ![i] = 1]
               /\ MoveTo(i, "connect") /\ outcome' = outcome
      /\ ~on => /\ MoveTo(i, "returned") /\ UNCHANGED <<stage, pos>>
                /\ \E r \in {"error", "empty", "ok"} : outcome' = [outcome EXCEPT ![i] = r]
  BY DEF Close
<1>5. /\ at \in [Jobs -> Position] /\ stage \in [Jobs -> Nat] /\ pos \in [Jobs -> Nat]
      /\ outcome \in [Jobs -> {"none", "ok", "empty", "error"}]
  BY <1>1 DEF RunnerTypes
<1>6. /\ at' \in [Jobs -> Position] /\ stage' \in [Jobs -> Nat] /\ pos' \in [Jobs -> Nat]
      /\ outcome' \in [Jobs -> {"none", "ok", "empty", "error"}]
      /\ \A q \in Jobs \ {i} : at'[q] = at[q] /\ stage'[q] = stage[q] /\ pos'[q] = pos[q]
  <2>1. CASE on
    <3>1. /\ stage' = [stage EXCEPT ![i] = stage[i] + 1] /\ pos' = [pos EXCEPT ![i] = 1]
          /\ at' = [at EXCEPT ![i] = "connect"] /\ outcome' = outcome
      BY <1>4, <2>1
    <3> QED BY <1>5, <3>1
  <2>2. CASE ~on
    BY <1>4, <1>5, <2>2
  <2> QED BY <2>1, <2>2
<1>7. \A q \in Jobs \ {i} : SameCall(q) /\ SameBox(q)
  BY <1>3, <1>6 DEF SameCall, SameBox
<1>8. RunnerTypes'
  <2>1. SandboxTypeOK'
    BY <1>1, <1>3 DEF RunnerTypes, SandboxTypeOK
  <2> QED BY <1>1, <1>3, <1>6, <2>1 DEF RunnerTypes
<1>9. Tool(i)' = Tool(i) /\ (Permitted(i) => Permitted(i)') /\ (Admissible(i)' <=> Admissible(i))
      /\ (Vetted(i)' <=> Vetted(i))
  BY <1>3, StillFacts
<1>10. CASE ~on
  <2>1. at'[i] = "returned" /\ stage'[i] = stage[i]
    BY <1>4, <1>5, <1>10
  <2>2. Gates(i)'
    BY <1>1, <1>3, <1>9, <2>1 DEF Gates, Still
  <2>3. Place(i)'
    BY <1>1, <1>3, <2>1 DEF Place
  <2>4. Log(i)'
    BY <1>1, <1>3, <2>1, LogStays
  <2>5. Boxed(i)'
    BY <1>1, <1>3, <2>1 DEF Boxed
  <2> QED BY <1>2, <1>3, <1>7, <1>8, <2>2, <2>3, <2>4, <2>5, Assemble
<1>11. CASE on
  <2>1. /\ at'[i] = "connect" /\ stage'[i] = 2 /\ pos'[i] = 1 /\ stage[i] = 1 /\ Len(st) = 2
        /\ i \in found /\ i \notin broken
    <3>0. stage[i] < Len(st)
      BY <1>11
    <3>1. stage[i] = 1 /\ Len(st) = 2
      <4>1. Len(st) \in {1, 2} /\ stage[i] \in 1 .. Len(st)
        BY <1>2
      <4> HIDE DEF on, st
      <4>2. CASE Len(st) = 1
        BY <3>0, <4>1, <4>2
      <4>3. CASE Len(st) = 2
        BY <3>0, <4>1, <4>3
      <4> QED BY <4>1, <4>2, <4>3
    <3>2. i \in found
      BY <1>2, <1>11, <3>1 DEF NoDevices
    <3> QED BY <1>4, <1>5, <1>11, <3>1, <3>2
  <2>2. /\ ThisStage(i)' = st[2] /\ ThisOp(i)' = st[2].ops[1]
        /\ 2 \in 1 .. Len(st) /\ 1 \in 1 .. Len(st[2].ops)
    <3>1. 2 \in 1 .. Len(st)
      BY <2>1
    <3>2. Len(st[2].ops) \in Nat \ {0}
      BY <1>2, <3>1, StageFacts
    <3> QED BY <1>9, <2>1, <3>1, <3>2 DEF ThisStage, ThisOp
  <2>3. Gates(i)'
    <3>1. Permitted(i) /\ Admissible(i)
      BY <1>1 DEF Gates
    <3> QED BY <1>1, <1>2, <1>3, <1>9, <2>1, <3>1 DEF Gates, Still
  <2>4. tries[i] = 0
    BY <1>1, <2>1 DEF Place
  <2>5. Place(i)'
    BY <1>3, <1>9, <2>1, <2>2, <2>4 DEF Place
  <2>6. \A a \in DOMAIN sent[i] : ~Beyond(st, stage[i], pos[i], sent[i][a].op)
    BY <1>1, <2>1 DEF Log, Past
  <2>7. Judged(i)'
    <3>1. sent'[i] = sent[i] /\ (i \in confirmed' <=> i \in confirmed)
      BY <1>3
    <3> QED BY <1>1, <1>9, <2>1, <3>1 DEF Log, Judged, Mutates
  <2>8. Counted(i)'
    <3> HIDE DEF on, st
    <3>1. Cardinality(Sends(sent[i], st[2].ops[1])) = 0
      <4>1. 2 > stage[i] \/ (2 = stage[i] /\ 1 > pos[i])
        BY <2>1
      <4> QED BY <2>2, <2>6, <4>1, NextIsNew
    <3> QED BY <1>3, <2>2, <2>4, <3>1 DEF Counted
  <2>9. Past(i)'
    <3> SUFFICES ASSUME NEW a \in DOMAIN sent[i] PROVE ~Beyond(st, 2, 1, sent[i][a].op)
      BY <1>3, <1>9, <2>1 DEF Past
    <3>1. ~Beyond(st, 1, pos[i], sent[i][a].op)
      BY <2>1, <2>6
    <3> HIDE DEF st
    <3> QED BY <3>1 DEF Beyond
  <2>10. Boxed(i)'
    BY <1>1, <1>3, <2>1 DEF Boxed
  <2> QED BY <1>2, <1>3, <1>7, <1>8, <2>3, <2>5, <2>7, <2>8, <2>9, <2>10, Assemble DEF Log
<1> QED BY <1>10, <1>11
-----------------------------------------------------------------------------
(***************************************************************************)
(* The sandbox: the thread of a script, its container, the host.           *)
(***************************************************************************)
\* The types of the sandbox, kept by every step of a job or of the daemon.
LEMMA JobTypes ==
  ASSUME SandboxTypeOK, NEW i \in Jobs, StartJob(i) \/ JobStep(i) \/ Daemon(i)
  PROVE  /\ SandboxTypeOK'
         /\ \A q \in Jobs \ {i} : SameBox(q)
<1> USE DEF SandboxTypeOK, SameBox, BoxState, ContainerState, ExitCode
<1>1. CASE StartJob(i)
  <2>1. CASE docker
    BY <1>1, <2>1 DEF StartJob
  <2>2. CASE ~docker
    BY <1>1, <2>2 DEF StartJob
  <2> QED BY <2>1, <2>2
<1>2. CASE Materialize(i)
  BY <1>2 DEF Materialize
<1>3. CASE Launch(i)
  BY <1>3 DEF Launch
<1>4. CASE ClientReturns(i)
  BY <1>4 DEF ClientReturns
<1>5. CASE ClientTimesOut(i)
  BY <1>5 DEF ClientTimesOut
<1>6. CASE ForceRemove(i)
  <2>1. /\ box' = [box EXCEPT ![i] = "cleanup"] /\ UNCHANGED <<docker, workspace, exit>>
        /\ \/ \E c \in {"gone", container[i]} : /\ container' = [container EXCEPT ![i] = c]
                                               /\ UNCHANGED stuck
           \/ stuck' = stuck \cup {i} /\ UNCHANGED container
    BY <1>6 DEF ForceRemove
  <2> QED BY <2>1
<1>7. CASE CleanUp(i)
  BY <1>7 DEF CleanUp
<1>8. CASE Daemon(i)
  <2>1. /\ UNCHANGED <<docker, box, workspace, stuck, exit>>
        /\ \E c \in {"created", "gone", "running"} : container' = [container EXCEPT ![i] = c]
    BY <1>8 DEF Daemon, DaemonCreates, DaemonRefuses, DaemonStarts, ScriptEnds
  <2> QED BY <2>1
<1> QED BY <1>1, <1>2, <1>3, <1>4, <1>5, <1>6, <1>7, <1>8 DEF JobStep

\* A step of the sandbox that leaves its own invariant true leaves all true.
LEMMA BoxKeeps ==
  ASSUME RunnerInv, NEW i \in Jobs, UNCHANGED Outside,
         SandboxTypeOK', \A q \in Jobs \ {i} : SameBox(q), Boxed(i)'
  PROVE  RunnerInv'
<1>1. RunnerTypes /\ PlanInv
  BY DEF RunnerInv
<1>2. Still /\ \A q \in Jobs : SameCall(q)
  BY DEF Still, SameCall
<1>3. RunnerTypes'
  BY <1>1 DEF RunnerTypes
<1>4. PlanInv'
  BY <1>1, <1>2 DEF Still, PlanInv, Sound, Tool
<1>5. ASSUME NEW q \in Jobs PROVE Gates(q)' /\ Place(q)' /\ Log(q)' /\ Boxed(q)'
  <2>1. Gates(q) /\ Place(q) /\ Log(q) /\ Boxed(q)
    BY DEF RunnerInv
  <2>2. Gates(q)' /\ Place(q)' /\ Log(q)'
    BY <1>2, <2>1, SameCallKeeps
  <2>3. CASE q # i
    BY <1>2, <2>1, <2>2, <2>3, SameBoxKeeps
  <2> QED BY <2>2, <2>3
<1> QED BY <1>3, <1>4, <1>5 DEF RunnerInv

LEMMA ScriptThreadKeeps ==
  ASSUME RunnerInv, NEW i \in Jobs, ScriptThread(i)
  PROVE  RunnerInv'
<1>1. SandboxTypeOK' /\ \A q \in Jobs \ {i} : SameBox(q)
  BY JobTypes DEF ScriptThread, RunnerInv, RunnerTypes
<1>2. /\ SandboxTypeOK /\ Gates(i) /\ Boxed(i) /\ at[i] = "script" /\ box[i] = "idle"
      /\ UNCHANGED Outside
  BY DEF ScriptThread, StartJob, RunnerInv, RunnerTypes
<1>3. Boxed(i)'
  <2>1. i \in confirmed /\ i \notin workspace /\ container[i] = "none"
    BY <1>2 DEF Gates, Boxed
  <2>2. CASE docker
    <3>1. /\ box'[i] = "materialize" /\ container'[i] = container[i]
      BY <1>2, <2>2 DEF ScriptThread, StartJob, SandboxTypeOK
    <3> QED BY <1>2, <2>1, <3>1 DEF Boxed
  <2>3. CASE ~docker
    <3>1. box'[i] = "done" /\ container'[i] = container[i] /\ workspace' = workspace
      BY <1>2, <2>3 DEF ScriptThread, StartJob, SandboxTypeOK
    <3> QED BY <1>2, <2>1, <3>1 DEF Boxed
  <2> QED BY <2>2, <2>3
<1> QED BY <1>1, <1>2, <1>3, BoxKeeps

LEMMA JobKeeps ==
  ASSUME RunnerInv, NEW i \in Jobs, JobStep(i) \/ Daemon(i), UNCHANGED Outside
  PROVE  RunnerInv'
<1>1. SandboxTypeOK' /\ \A q \in Jobs \ {i} : SameBox(q)
  BY JobTypes DEF RunnerInv, RunnerTypes
<1>2. /\ box \in [Jobs -> BoxState] /\ container \in [Jobs -> ContainerState] /\ Boxed(i)
      /\ workspace \subseteq Jobs
  BY DEF RunnerInv, RunnerTypes, SandboxTypeOK
<1> USE DEF Boxed
<1>3. Boxed(i)'
  <2>1. CASE Materialize(i)
    BY <1>2, <2>1 DEF Materialize
  <2>2. CASE Launch(i)
    BY <1>2, <2>2 DEF Launch
  <2>3. CASE ClientReturns(i)
    BY <1>2, <2>3 DEF ClientReturns
  <2>4. CASE ClientTimesOut(i)
    BY <1>2, <2>4 DEF ClientTimesOut
  <2>5. CASE ForceRemove(i)
    <3>1. box[i] = "remove" /\ box'[i] = "cleanup" /\ container'[i] = "running" => i \in stuck'
      BY <1>2, <2>5 DEF ForceRemove
    <3>2. box'[i] = "cleanup" /\ box[i] = "remove"
      BY <1>2, <2>5 DEF ForceRemove
    <3> QED BY <1>2, <3>1, <3>2
  <2>6. CASE CleanUp(i)
    BY <1>2, <2>6 DEF CleanUp
  <2>7. CASE Daemon(i)
    <3>1. UNCHANGED <<docker, box, workspace, stuck, exit>> /\ container[i] # "none"
      BY <2>7 DEF Daemon, DaemonCreates, DaemonRefuses, DaemonStarts, ScriptEnds
    <3>2. container'[i] = "running" => box[i] \in {"client", "lost"}
      BY <1>2, <2>7 DEF Daemon, DaemonCreates, DaemonRefuses, DaemonStarts, ScriptEnds
    <3> QED BY <1>2, <3>1, <3>2
  <2> QED BY <2>1, <2>2, <2>3, <2>4, <2>5, <2>6, <2>7 DEF JobStep
<1> QED BY <1>1, <1>3, BoxKeeps

LEMMA DockerGoneKeeps ==
  ASSUME RunnerInv, DockerGone, UNCHANGED Outside
  PROVE  RunnerInv'
<1>1. RunnerTypes /\ PlanInv
  BY DEF RunnerInv
<1>2. Still /\ \A q \in Jobs : SameCall(q) /\ SameBox(q)
  BY DEF Still, SameCall, SameBox, DockerGone
<1>3. SandboxTypeOK'
  BY <1>1 DEF RunnerTypes, SandboxTypeOK, DockerGone
<1>4. RunnerTypes'
  BY <1>1, <1>3 DEF RunnerTypes
<1>5. PlanInv'
  BY <1>1, <1>2 DEF Still, PlanInv, Sound, Tool
<1>6. ASSUME NEW q \in Jobs PROVE Gates(q)' /\ Place(q)' /\ Log(q)' /\ Boxed(q)'
  BY <1>2, SameCallKeeps, SameBoxKeeps DEF RunnerInv
<1> QED BY <1>4, <1>5, <1>6 DEF RunnerInv
-----------------------------------------------------------------------------
(***************************************************************************)
(* The plan, a new server process, and the reviewers.                      *)
(***************************************************************************)
LEMMA PlanItemSound ==
  ASSUME NEW call, NEW s, NEW rdy, NEW sb,
         \A key \in DOMAIN call.args :
           call.args[key].type = "integer" => call.args[key].val \in Int
  PROVE  /\ PlanItem(call, s, rdy, sb).call = call
         /\ PlanItem(call, s, rdy, sb).risk # "none" => ~PlanItem(call, s, rdy, sb).error
         /\ ~PlanItem(call, s, rdy, sb).error =>
              /\ call.name \in BuiltinTool /\ Limited(call.args)
              /\ PlanItem(call, s, rdy, sb).risk = Risk(call.name)
<1> DEFINE ok == ValidArguments(call, Catalog(s, rdy, sb))
           item == PlanItem(call, s, rdy, sb)
<1>1. ok => Limited(call.args)
  BY ValidIsLimited
<1>2. /\ item.call = call
      /\ item.error <=> call.name \notin BuiltinTool \/ ~ok
      /\ item.risk = IF call.name \in BuiltinTool /\ ok THEN Risk(call.name) ELSE "none"
  BY DEF PlanItem
<1> HIDE DEF ok, item
<1>3. /\ item.risk # "none" => ~item.error
      /\ ~item.error => /\ call.name \in BuiltinTool /\ Limited(call.args)
                        /\ item.risk = Risk(call.name)
  BY <1>1, <1>2
<1> QED BY <1>2, <1>3 DEF item

LEMMA RouteFacts ==
  ASSUME NEW items
  PROVE  /\ PlanRoute(items) \in {"execute_tools", "suspend_for_human", "fail"}
         /\ PlanRoute(items) = "suspend_for_human" => \A i \in DOMAIN items : ~items[i].error
<1>1. CASE Some(items, "unavailable")
  BY <1>1 DEF PlanRoute
<1>2. CASE ~Some(items, "unavailable") /\ ~Some(items, "error") /\ NeedsApproval(items)
  BY <1>2 DEF PlanRoute, Some
<1>3. CASE /\ ~Some(items, "unavailable")
           /\ Some(items, "error") \/ ~NeedsApproval(items)
  BY <1>3 DEF PlanRoute
<1> QED BY <1>1, <1>2, <1>3

LEMMA MakePlanKeeps ==
  ASSUME RunnerInv, MakePlan
  PROVE  RunnerInv'
<1>1. RunnerTypes /\ PlanInv /\ node = "plan" /\ \A i \in Jobs : at[i] = "new"
  BY DEF RunnerInv, PlanInv, MakePlan
<1>2. /\ plan' = PlanBatch(batch, settings, ready, settings.sandbox /\ docker)
      /\ node' = PlanRoute(plan')
      /\ UNCHANGED <<settings, ready, batch, confirmed, callVars, epoch, sandboxVars>>
  BY DEF MakePlan
<1>3. /\ DOMAIN batch \subseteq Jobs /\ Len(batch) \in Nat /\ DOMAIN batch = 1 .. Len(batch)
      /\ \A i \in DOMAIN batch : \A key \in DOMAIN batch[i].args :
           batch[i].args[key].type = "integer" => batch[i].args[key].val \in Int
  <2>1. batch \in Batches
    BY <1>1 DEF RunnerTypes
  <2>2. /\ batch \in Seq({batch[i] : i \in DOMAIN batch}) /\ DOMAIN batch \subseteq Jobs
        /\ \A i \in DOMAIN batch : \A key \in DOMAIN batch[i].args :
             batch[i].args[key].type = "integer" => batch[i].args[key].val \in Int
    BY <2>1, JobsAssumption
  <2>3. Len(batch) \in Nat /\ DOMAIN batch = 1 .. Len(batch)
    BY <2>2
  <2> QED BY <2>2, <2>3
<1>4. RunnerTypes'
  <2>1. node' \in {"plan", "execute_tools", "suspend_for_human", "fail"}
    BY <1>2, RouteFacts
  <2>2. SandboxTypeOK'
    BY <1>1, <1>2 DEF RunnerTypes, SandboxTypeOK
  <2> QED BY <1>1, <1>2, <2>1, <2>2 DEF RunnerTypes
<1>5. PlanInv'
  <2> DEFINE item(i) == PlanItem(batch[i], settings, ready, settings.sandbox /\ docker)
  <2>1. plan' = [i \in 1 .. Len(batch) |-> item(i)]
    BY <1>2, <1>3 DEF PlanBatch
  <2>2. \A i \in DOMAIN batch :
          /\ item(i).call = batch[i]
          /\ item(i).risk # "none" => ~item(i).error
          /\ ~item(i).error => /\ batch[i].name \in BuiltinTool
                               /\ item(i).risk = Risk(batch[i].name)
                               /\ Limited(batch[i].args)
    BY <1>3, PlanItemSound
  <2> HIDE DEF item
  <2>3. DOMAIN plan' = DOMAIN batch /\ Len(plan') = Len(batch)
        /\ \A i \in DOMAIN batch : plan'[i] = item(i)
    BY <1>3, <2>1
  <2>4. PlanMatches(plan', batch)
    BY <2>2, <2>3 DEF PlanMatches
  <2>5. \A i \in DOMAIN plan' : Sound(i)'
    BY <1>2, <2>2, <2>3 DEF Sound, Tool
  <2>6. node' # "plan" /\ (node' = "suspend_for_human" => \A i \in DOMAIN plan' : ~plan'[i].error)
    BY <1>2, RouteFacts
  <2> QED BY <1>2, <2>3, <2>4, <2>5, <2>6 DEF PlanInv, PlanMatches
<1>6. ASSUME NEW i \in Jobs PROVE Gates(i)' /\ Place(i)' /\ Log(i)' /\ Boxed(i)'
  <2>1. /\ Gates(i) /\ Place(i) /\ Boxed(i) /\ at'[i] = "new" /\ sent[i] = <<>>
        /\ UNCHANGED <<batch, confirmed, callVars, sandboxVars>>
    BY <1>1, <1>2 DEF RunnerInv, Place
  <2>2. i \notin confirmed
    BY <1>1, <2>1 DEF Gates
  <2>3. Gates(i)'
    BY <2>1, <2>2 DEF Gates
  <2>4. Place(i)'
    BY <1>1, <2>1 DEF Place
  <2>5. Log(i)'
    BY <2>1 DEF Log, Judged, Counted, Past
  <2>6. Boxed(i)'
    BY <2>1 DEF Boxed
  <2> QED BY <2>3, <2>4, <2>5, <2>6
<1> QED BY <1>4, <1>5, <1>6 DEF RunnerInv

LEMMA RejectSkillKeeps ==
  ASSUME RunnerInv, RejectSkill
  PROVE  RunnerInv'
<1>1. RunnerTypes /\ PlanInv
  BY DEF RunnerInv
<1>2. Still /\ \A q \in Jobs : SameCall(q) /\ SameBox(q)
  BY DEF Still, SameCall, SameBox, RejectSkill
<1>3. RunnerTypes'
  <2>1. SandboxTypeOK'
    BY <1>1 DEF RunnerTypes, SandboxTypeOK, RejectSkill
  <2>2. ready' \subseteq DOMAIN Bundle
    BY <1>1 DEF RunnerTypes, RejectSkill
  <2>3. UNCHANGED <<settings, batch, node, confirmed, callVars, epoch>>
    BY DEF RejectSkill
  <2> QED BY <1>1, <2>1, <2>2, <2>3 DEF RunnerTypes
<1>4. PlanInv'
  BY <1>1, <1>2 DEF Still, PlanInv, Sound, Tool, RejectSkill
<1>5. ASSUME NEW q \in Jobs PROVE Gates(q)' /\ Place(q)' /\ Log(q)' /\ Boxed(q)'
  BY <1>2, SameCallKeeps, SameBoxKeeps DEF RunnerInv
<1> QED BY <1>3, <1>4, <1>5 DEF RunnerInv

\* A restart loses the calls in hand and keeps what is in the database.
LEMMA RestartKeeps ==
  ASSUME RunnerInv, Restart
  PROVE  RunnerInv'
<1>1. RunnerTypes /\ PlanInv
  BY DEF RunnerInv
<1>2. /\ epoch < MaxRestarts /\ epoch' = epoch + 1 /\ settings' \in AllSettings
      /\ at' = [i \in Jobs |-> IF at[i] \in Busy \cup {"new"} THEN "lost" ELSE at[i]]
      /\ conn' = [i \in Jobs |-> "none"]
      /\ node' = IF node = "plan" THEN "fail" ELSE node
      /\ box' = [j \in Jobs |-> IF box[j] \in {"idle", "done"} THEN box[j] ELSE "lost"]
      /\ UNCHANGED <<docker, workspace, container, stuck, exit>>
      /\ UNCHANGED <<ready, batch, plan, confirmed, stage, pos, tries, found, broken, outcome,
                     sent>>
  BY DEF Restart, SandboxCrash
<1>3. RunnerTypes'
  <2>1. SandboxTypeOK'
    <3>1. /\ docker \in BOOLEAN /\ box \in [Jobs -> BoxState] /\ workspace \in SUBSET Jobs
          /\ container \in [Jobs -> ContainerState] /\ stuck \in SUBSET Jobs
          /\ exit \in [Jobs -> ExitCode]
      BY <1>1 DEF RunnerTypes, SandboxTypeOK
    <3>2. box' \in [Jobs -> BoxState]
      BY <1>2, <3>1 DEF BoxState
    <3> QED BY <1>2, <3>1, <3>2 DEF SandboxTypeOK
  <2>2. at' \in [Jobs -> Position] /\ conn' \in [Jobs -> Backend \cup {"none"}]
    BY <1>1, <1>2 DEF RunnerTypes
  <2>3. epoch' \in 0 .. MaxRestarts
    BY <1>1, <1>2, JobsAssumption DEF RunnerTypes
  <2>4. node' \in {"plan", "execute_tools", "suspend_for_human", "fail"}
    BY <1>1, <1>2 DEF RunnerTypes
  <2> QED BY <1>1, <1>2, <2>1, <2>2, <2>3, <2>4 DEF RunnerTypes
<1>4. PlanInv'
  <2>1. node' # "plan" /\ (node' = "suspend_for_human" => node = "suspend_for_human")
    BY <1>2
  <2> QED BY <1>1, <1>2, <2>1 DEF PlanInv, Sound, Tool
<1>5. ASSUME NEW i \in Jobs PROVE Gates(i)' /\ Place(i)' /\ Log(i)' /\ Boxed(i)'
  <2>1. /\ Gates(i) /\ Place(i) /\ Judged(i) /\ Boxed(i)
    BY DEF RunnerInv, Log
  <2>2. /\ at'[i] \in {"refused", "asked", "returned", "lost"}
        /\ at'[i] # "lost" => at'[i] = at[i]
        /\ at[i] \in {"script", "lost"} => at'[i] = "lost"
        /\ conn'[i] = "none"
        /\ node = "suspend_for_human" => node' = "suspend_for_human"
    BY <1>1, <1>2 DEF RunnerTypes
  <2>3. Gates(i)'
    <3>1. Vetted(i)' <=> Vetted(i)
      BY <1>2 DEF Vetted
    <3> QED BY <1>2, <2>1, <2>2, <3>1 DEF Gates
  <2>4. Place(i)'
    BY <1>2, <2>1, <2>2 DEF Place
  <2>5. Log(i)'
    <3>1. Tool(i)' = Tool(i)
      BY <1>2 DEF Tool
    <3>2. Judged(i)'
      BY <1>2, <2>1, <3>1 DEF Judged, Mutates
    <3> QED BY <2>2, <3>2 DEF Log, Counted, Past
  <2>6. Boxed(i)'
    <3>1. /\ box'[i] \in {"idle", "done"} => box'[i] = box[i]
          /\ box'[i] \notin {"idle", "done"} => box'[i] = "lost"
          /\ box[i] \in {"idle", "done"} => box'[i] = box[i]
      BY <1>2
    <3> QED BY <1>2, <2>1, <2>2, <3>1 DEF Boxed
  <2> QED BY <2>3, <2>4, <2>5, <2>6
<1> QED BY <1>3, <1>4, <1>5 DEF RunnerInv
-----------------------------------------------------------------------------
(***************************************************************************)
(* The invariant.                                                          *)
(***************************************************************************)
LEMMA InitInv ==
  ASSUME RunnerInit
  PROVE  RunnerInv
<1> USE DEF RunnerInit, SandboxInit
<1>1. RunnerTypes
  <2>1. SandboxTypeOK
    BY DEF SandboxTypeOK, BoxState, ContainerState, ExitCode
  <2>2. IsLog(<<>>)
    BY DEF IsLog
  <2> QED BY <2>1, <2>2, JobsAssumption DEF RunnerTypes
<1>2. PlanInv
  BY DEF PlanInv
<1>3. ASSUME NEW i \in Jobs PROVE Gates(i) /\ Place(i) /\ Log(i) /\ Boxed(i)
  <2>1. /\ at[i] = "new" /\ stage[i] = 1 /\ pos[i] = 1 /\ tries[i] = 0 /\ conn[i] = "none"
        /\ sent[i] = <<>> /\ box[i] = "idle" /\ container[i] = "none"
        /\ i \notin confirmed /\ i \notin found /\ i \notin broken /\ i \notin workspace
    OBVIOUS
  <2> QED BY <2>1 DEF Gates, Place, Log, Judged, Counted, Past, Boxed
<1> QED BY <1>1, <1>2, <1>3 DEF RunnerInv

LEMMA StutterKeeps ==
  ASSUME RunnerInv, UNCHANGED runnerVars
  PROVE  RunnerInv'
<1>1. RunnerTypes /\ PlanInv
  BY DEF RunnerInv
<1>2. Still /\ \A q \in Jobs : SameCall(q) /\ SameBox(q)
  BY DEF Still, SameCall, SameBox, runnerVars
<1>3. UNCHANGED <<settings, ready, batch, plan, node, confirmed, callVars, epoch, sandboxVars>>
  BY DEF runnerVars
<1>4. RunnerTypes'
  <2>1. SandboxTypeOK'
    BY <1>1, <1>3 DEF RunnerTypes, SandboxTypeOK
  <2> QED BY <1>1, <1>3, <2>1 DEF RunnerTypes
<1>5. PlanInv'
  BY <1>1, <1>2, <1>3 DEF Still, PlanInv, Sound, Tool
<1>6. ASSUME NEW q \in Jobs PROVE Gates(q)' /\ Place(q)' /\ Log(q)' /\ Boxed(q)'
  BY <1>2, SameCallKeeps, SameBoxKeeps DEF RunnerInv
<1> QED BY <1>4, <1>5, <1>6 DEF RunnerInv

LEMMA StepKeeps ==
  ASSUME RunnerInv, [RunnerNext]_runnerVars
  PROVE  RunnerInv'
<1>1. ASSUME NEW i \in Jobs, Runner(i) PROVE RunnerInv'
  BY <1>1, BeginSkillKeeps, BeginScriptKeeps, BeginCapabilityKeeps, ScriptThreadKeeps,
     ConnectKeeps, PerformKeeps, CloseKeeps, ScriptReturnsKeeps DEF Runner
<1>2. ASSUME NEW i \in Jobs, Item(i) \/ Approve(i) \/ Reject(i) PROVE RunnerInv'
  BY <1>2, ItemKeeps, ApproveKeeps, RejectKeeps
<1>3. CASE RunnerNext
  BY <1>1, <1>2, <1>3, MakePlanKeeps, JobKeeps, DockerGoneKeeps, RejectSkillKeeps, RestartKeeps
     DEF RunnerNext
<1> QED BY <1>3, StutterKeeps

\* A call is followed from the plan to the devices (RunnerNext), for any batch.
THEOREM RunnerInvariant == RunnerSpec => []RunnerInv
<1>1. RunnerInit => RunnerInv
  BY InitInv
<1>2. RunnerInv /\ [RunnerNext]_runnerVars => RunnerInv'
  BY StepKeeps
<1> QED BY <1>1, <1>2, PTL DEF RunnerSpec

\* Every variable keeps its type, and the plan stays the plan of its batch.
THEOREM RunnerTypesHold == RunnerSpec => []RunnerTypeOK
<1>1. RunnerInv => RunnerTypeOK
  BY DEF RunnerInv, RunnerTypes, PlanInv, RunnerTypeOK
<1> QED BY <1>1, RunnerInvariant, PTL

\* A command that changes a device is sent, and a script is started, only for a
\* call that an operator approved (suspend_for_human, execute_builtin_tool).
THEOREM ChangesAreApproved == RunnerSpec => []MutationsWereApproved
<1>1. RunnerInv => MutationsWereApproved
  <2> SUFFICES ASSUME RunnerInv, NEW i \in Jobs,
                      \/ at[i] = "asked" \/ container[i] # "none"
                      \/ \E a \in DOMAIN sent[i] : Mutates(sent[i][a])
               PROVE  /\ at[i] = "asked" \/ i \in confirmed
                      /\ \A j \in DOMAIN plan : ~plan[j].error
    BY DEF MutationsWereApproved
  <2>1. PlanInv /\ Gates(i) /\ Log(i) /\ Boxed(i)
    BY CallFacts
  <2>2. at[i] = "asked" \/ i \in confirmed
    <3>1. ASSUME container[i] # "none" PROVE i \in confirmed
      BY <2>1, <3>1 DEF Boxed
    <3>2. ASSUME NEW a \in DOMAIN sent[i], Mutates(sent[i][a]) PROVE i \in confirmed
      BY <2>1, <3>2 DEF Log, Judged
    <3> QED BY <3>1, <3>2
  <2>3. node = "suspend_for_human"
    BY <2>1, <2>2 DEF Gates
  <2> QED BY <2>1, <2>2, <2>3 DEF PlanInv
<1> QED BY <1>1, RunnerInvariant, PTL

\* Only a query of PostgreSQL is repeated, three times at most; a restart is sent
\* once (ConnectionFails), and no alarm query for a site without devices (Close).
THEOREM RepeatsAreHarmless == RunnerSpec => []NoBlindRepeat
<1>1. RunnerInv => NoBlindRepeat
  <2> SUFFICES ASSUME RunnerInv, NEW i \in Jobs
               PROVE  /\ \A a \in DOMAIN sent[i] :
                           Cardinality({b \in DOMAIN sent[i] : sent[i][b] = sent[i][a]})
                             <= (IF sent[i][a].on = "postgres" THEN 3 ELSE 1)
                      /\ (\E a, b \in DOMAIN sent[i] :
                            sent[i][a].op = "devices" /\ sent[i][b].on = "clickhouse")
                           => i \in found
    BY DEF NoBlindRepeat
  <2>1. RunnerTypes /\ Judged(i) /\ Place(i)
    BY CallFacts DEF Log
  <2>2. ASSUME NEW a \in DOMAIN sent[i]
        PROVE  Cardinality({b \in DOMAIN sent[i] : sent[i][b] = sent[i][a]})
                 <= (IF sent[i][a].on = "postgres" THEN 3 ELSE 1)
    <3> DEFINE Same == {b \in DOMAIN sent[i] : sent[i][b] = sent[i][a]}
               Ops  == Sends(sent[i], sent[i][a].op)
    <3>1. IsFiniteSet(Ops) /\ Cardinality(Ops) \in Nat
      BY <2>1, SendsCount DEF RunnerTypes
    <3>2. Same \subseteq Ops
      BY DEF Sends
    <3>3. Cardinality(Same) <= Cardinality(Ops) /\ Cardinality(Same) \in Nat
      <4> HIDE DEF Same, Ops
      <4> QED BY <3>1, <3>2, FS_Subset, FS_CardinalityType
    <3>4. /\ Cardinality(Ops) <= (IF sent[i][a].op \in Repeatable THEN 3 ELSE 1)
          /\ sent[i][a].on = "postgres" <=> sent[i][a].op \in Repeatable
      BY <2>1 DEF Judged
    <3> HIDE DEF Same, Ops
    <3>5. Cardinality(Same) <= (IF sent[i][a].on = "postgres" THEN 3 ELSE 1)
      BY <3>1, <3>3, <3>4
    <3> QED BY <3>5 DEF Same
  <2>3. ASSUME NEW a \in DOMAIN sent[i], NEW b \in DOMAIN sent[i],
               sent[i][a].op = "devices", sent[i][b].on = "clickhouse"
        PROVE  i \in found
    <3>1. stage[i] > 1
      BY <2>1, <2>3 DEF Judged
    <3> QED BY <2>1, <3>1 DEF Place
  <2> QED BY <2>2, <2>3
<1> QED BY <1>1, RunnerInvariant, PTL

\* What a call sent obeys the limits of the catalog, for the planner refused the
\* others (validate_tool_call_arguments) and nobody changes arguments later.
THEOREM LimitsAreKept == RunnerSpec => []SentWithinLimits
<1>1. RunnerInv => SentWithinLimits
  BY CallFacts DEF Gates, SentWithinLimits
<1> QED BY <1>1, RunnerInvariant, PTL

\* A call that returned holds nothing, and a refused one touched nothing (the
\* finally blocks of the runners and of _run_in_container).
THEOREM NothingIsLeft == RunnerSpec => []NothingLeftBehind
<1>1. RunnerInv => NothingLeftBehind
  <2>1. ASSUME RunnerInv, NEW i \in Jobs, at[i] = "returned"
        PROVE  conn[i] = "none" /\ i \notin workspace /\ (container[i] = "running" => i \in stuck)
    BY <2>1, CallFacts DEF Place, Boxed
  <2>2. ASSUME RunnerInv, NEW i \in Jobs, at[i] = "refused"
        PROVE  sent[i] = <<>> /\ container[i] = "none"
    BY <2>2, CallFacts DEF Place, Boxed
  <2> QED BY <2>1, <2>2 DEF NothingLeftBehind
<1> QED BY <1>1, RunnerInvariant, PTL
-----------------------------------------------------------------------------
\* What a step sends for a call.
SendsToday(i) ==
  Len(sent'[i]) > Len(sent[i]) =>
    LET e == sent'[i][Len(sent'[i])] IN
    /\ e.on = "ssh" =>
         /\ settings.nodes # {} => Arg(i, "node_name") \in settings.nodes
         /\ e.host = SshHost(settings, Arg(i, "node_name"))
    /\ e.op = "restart" => Arg(i, "service_name") \in settings.services \ UnsafeName

LEMMA SendIsToday ==
  ASSUME RunnerInv, NEW i \in Jobs, MaySend(i), Send(i)
  PROVE  SendsToday(i)
<1>1. RunnerTypes /\ Gates(i) /\ Place(i) /\ at[i] = "work"
  BY CallFacts DEF MaySend
<1>2. /\ conn[i] = ThisStage(i).on /\ Admissible(i)
      /\ ThisStage(i).on = "ssh" => Tool(i) \in NodeTool
      /\ ThisOp(i) = "restart" => Tool(i) = "restart_service"
  BY <1>1, AtStage DEF Place, Gates
<1>3. PICK e : /\ e.on = conn[i] /\ e.op = ThisOp(i)
               /\ conn[i] = "ssh" => e.host = Host(i)
               /\ sent' = [sent EXCEPT ![i] = Append(sent[i], e)]
  <2> DEFINE e == [on |-> conn[i], op |-> ThisOp(i),
                   host |-> IF conn[i] = "ssh" THEN Host(i) ELSE NoHost]
  <2>1. /\ e.on = conn[i] /\ e.op = ThisOp(i) /\ (conn[i] = "ssh" => e.host = Host(i))
        /\ sent' = [sent EXCEPT ![i] = Append(sent[i], e)]
    BY DEF Send
  <2> HIDE DEF e
  <2> QED BY <2>1
<1>4. sent'[i][Len(sent'[i])] = e
  <2>1. IsLog(sent[i]) /\ sent'[i] = Append(sent[i], e)
    BY <1>1, <1>3 DEF RunnerTypes
  <2>2. Len(sent'[i]) = Len(sent[i]) + 1
    BY <2>1, AppendFacts
  <2>3. sent'[i][Len(sent[i]) + 1] = e
    BY <2>1, AppendFacts
  <2> QED BY <2>2, <2>3
<1>5. ASSUME e.on = "ssh"
      PROVE  /\ settings.nodes # {} => Arg(i, "node_name") \in settings.nodes
             /\ e.host = SshHost(settings, Arg(i, "node_name"))
  BY <1>2, <1>3, <1>5 DEF Admissible, NodeAllowed, Host
<1>6. ASSUME e.op = "restart"
      PROVE  Arg(i, "service_name") \in settings.services \ UnsafeName
  BY <1>2, <1>3, <1>6 DEF Admissible, AllowedServices
<1> QED BY <1>4, <1>5, <1>6 DEF SendsToday

\* What a step does not send needs no leave.
LEMMA SilentIsToday ==
  ASSUME RunnerInv, NEW i \in Jobs, sent'[i] = sent[i]
  PROVE  SendsToday(i)
<1>1. Len(sent[i]) \in Nat
  BY DEF RunnerInv, RunnerTypes, IsLog
<1> QED BY <1>1 DEF SendsToday

\* Every send is checked against the settings of the process that sends, at the
\* connector (_resolve_capability_node, _run_restart_service), not by the plan.
THEOREM SettingsAreCurrent == RunnerSpec => TodaysSettings
<1>1. ASSUME RunnerInv, [RunnerNext]_runnerVars, NEW i \in Jobs PROVE SendsToday(i)
  <2>1. DOMAIN sent = Jobs
    BY <1>1 DEF RunnerInv, RunnerTypes
  <2>2. ASSUME NEW j \in Jobs, MaySend(j), Send(j) PROVE SendsToday(i)
    <3>1. i # j => sent'[i] = sent[i]
      BY <2>1, <2>2 DEF Send
    <3> QED BY <1>1, <2>2, <3>1, SendIsToday, SilentIsToday
  <2>3. ASSUME NEW j \in Jobs, Perform(j) PROVE SendsToday(i)
    <3>1. CASE Blocked(j)
      BY <1>1, <3>1, SilentIsToday DEF Blocked
    <3>2. CASE MaySend(j) /\ Send(j)
      BY <2>2, <3>2
    <3> QED BY <2>3, <3>1, <3>2 DEF Perform, Answered, ConnectionFails, OpFails
  <2>4. CASE UNCHANGED sent
    BY <1>1, <2>4, SilentIsToday
  <2>5. ASSUME NEW j \in Jobs, Runner(j), ~Perform(j) PROVE UNCHANGED sent
    BY <2>5 DEF Runner, BeginSkill, BeginScript, BeginCapability, Return, ScriptThread, Connect,
                Close, ScriptReturns
  <2>6. ASSUME NEW j \in Jobs, Item(j) \/ Approve(j) \/ Reject(j) PROVE UNCHANGED sent
    BY <2>6 DEF Item, RefuseItem, DispatchItem, AskForItem, Approve, Reject, OnlyMoves
  <2>7. CASE MakePlan \/ RejectSkill \/ Restart
    BY <2>4, <2>7 DEF MakePlan, RejectSkill, Restart
  <2>8. CASE UNCHANGED Outside
    BY <2>4, <2>8
  <2>9. CASE UNCHANGED runnerVars
    BY <2>4, <2>9 DEF runnerVars
  <2>10. CASE RunnerNext
    BY <2>3, <2>4, <2>5, <2>6, <2>7, <2>8, <2>10 DEF RunnerNext
  <2> QED BY <1>1, <2>9, <2>10
<1>2. RunnerInv /\ [RunnerNext]_runnerVars => \A i \in Jobs : SendsToday(i)
  BY <1>1
<1>3. RunnerInv /\ [RunnerNext]_runnerVars => [\A i \in Jobs : SendsToday(i)]_runnerVars
  BY <1>2
<1>4. TodaysSettings <=> [][\A i \in Jobs : SendsToday(i)]_runnerVars
  BY DEF TodaysSettings, SendsToday
<1> QED BY <1>3, <1>4, RunnerInvariant, PTL DEF RunnerSpec
=============================================================================
