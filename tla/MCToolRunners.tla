--------------------------- MODULE MCToolRunners ---------------------------
(***************************************************************************)
(* Batches of one or two calls that meet every branch of the plan and of   *)
(* the runners, under settings that a restart replaces by others.          *)
(***************************************************************************)
EXTENDS ToolRunners, TLC

Str(v) == [type |-> "string", val |-> v]
Num(v) == [type |-> "integer", val |-> v]
Obj(v) == [type |-> "object", val |-> v]

Call(name, args) == [name |-> name, args |-> args]

RestartOf(n, service) ==
  Call("restart_service", [node_name |-> Str(n), service_name |-> Str(service)])
Ping(dev, n) == Call("ping_node", [node_name |-> Str(dev), count |-> Num(n)])
Health(n)  == Call("get_node_health_snapshot", [node_name |-> Str(n)])
Site(tool, site, minutes) ==
  Call(tool, [site_id |-> Str(site), window_minutes |-> Num(minutes), limit |-> Num(1000)])
Alarms(args)   == Call("get_active_alarms", args @@ [limit |-> Num(1)])
Inventory      == Call("get_site_inventory", [site_id |-> Str("s1"), limit |-> Num(10)])
Load(skill)    == Call("load_skill", [skill_name |-> Str(skill)])
ReadFile(path) == Call("read_skill_file", [skill_name |-> Str("kpi"), file_path |-> Str(path)])
Script(path, args) ==
  Call("run_skill_script",
       [skill_name |-> Str("kpi"), script_path |-> Str(path), arguments |-> Obj(args)])

MCBundle ==
  "kpi" :> ("run.py" :> [passed |-> TRUE, intact |-> TRUE,
                         input |-> Closed([days |-> Range1(7)], {"days"})]
            @@ "raw.py" :> [passed |-> FALSE, intact |-> TRUE, input |-> AnyObject])

Days(n) == [days |-> Num(n)]

MCBatches ==
  {<<RestartOf("n1", "ntp"), Ping("n1", 10)>>,
   <<Script("run.py", Days(1)), RestartOf("n2", "snmp")>>,
   <<Script("run.py", Days(9)), Load("kpi")>>,
   <<Script("raw.py", Days(1))>>,
   <<Site("get_site_alarm_summary", "s1", 1440), RestartOf("n1", "root")>>,
   <<Site("get_site_kpi_snapshot", "s1", 60), Ping("odd", 1)>>,
   <<Site("get_site_kpi_snapshot", "", 60), Site("get_site_alarm_summary", "s1", 1441)>>,
   <<Alarms([window_minutes |-> Num(60)]), Ping("n1", 11)>>,
   <<RestartOf("n1", "ntp"), Alarms([window_minutes |-> Str("60")])>>,
   <<Inventory, Health("n1")>>,
   <<ReadFile("run.py"), ReadFile("none.md")>>,
   <<Call("kpi", << >>), Health("n1")>>,
   <<Call("reboot", << >>), RestartOf("n1", "ntp")>>}

Base == [ch |-> TRUE, pg |-> TRUE, sandbox |-> TRUE, nodes |-> {"n1", "n2"},
         map |-> "n1" :> "h1", host |-> NoHost, services |-> {"ntp", "snmp", "root"}]

MCSettings ==
  {Base,
   [Base EXCEPT !.nodes = {"n1"}, !.map = << >>, !.services = {"snmp"}],
   [Base EXCEPT !.nodes = {}, !.host = "h0", !.pg = FALSE],
   [Base EXCEPT !.nodes = {}, !.ch = FALSE],
   [Base EXCEPT !.nodes = {}, !.map = << >>, !.sandbox = FALSE]}
=============================================================================
