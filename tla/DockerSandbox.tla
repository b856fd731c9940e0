--------------------------- MODULE DockerSandbox ---------------------------
(***************************************************************************)
(* _run_in_container of sandbox/docker_executor.py, one job per script:    *)
(* the temporary directory, the docker client that subprocess.run waits    *)
(* for, and the container behind the daemon, which knows nothing of the    *)
(* client once the client is killed.                                       *)
(***************************************************************************)
EXTENDS Naturals

CONSTANT Jobs

VARIABLES
  docker,     \* the docker CLI is on the PATH
  box,        \* where the thread of each job is
  workspace,  \* jobs whose temporary directory exists
  container,  \* the container of each job, as the daemon sees it
  stuck,      \* jobs whose "docker rm -f" failed
  exit        \* what the job returned

sandboxVars == <<docker, box, workspace, container, stuck, exit>>

BoxState == {"idle", "materialize", "launch", "client", "remove", "cleanup", "done",
             "lost"}

\* "requested": the daemon has the request to create it; "gone": --rm or rm -f.
ContainerState == {"none", "requested", "created", "running", "gone"}

ExitCode == {"none", "ok", "failed", "timeout", "error"}

SandboxTypeOK ==
  /\ docker \in BOOLEAN
  /\ box \in [Jobs -> BoxState]
  /\ workspace \in SUBSET Jobs
  /\ container \in [Jobs -> ContainerState]
  /\ stuck \in SUBSET Jobs
  /\ exit \in [Jobs -> ExitCode]

SandboxInit ==
  /\ docker \in BOOLEAN
  /\ box = [j \in Jobs |-> "idle"]
  /\ workspace = {}
  /\ container = [j \in Jobs |-> "none"]
  /\ stuck = {}
  /\ exit = [j \in Jobs |-> "none"]
-----------------------------------------------------------------------------
\* mkdtemp comes after the look at the PATH: without docker nothing is left.
StartJob(j) ==
  /\ box[j] = "idle"
  /\ IF docker
     THEN /\ box' = [box EXCEPT ![j] = "materialize"]
          /\ workspace' = workspace \cup {j}
          /\ UNCHANGED exit
     ELSE /\ box' = [box EXCEPT ![j] = "done"]
          /\ exit' = [exit EXCEPT ![j] = "error"]
          /\ UNCHANGED workspace
  /\ UNCHANGED <<docker, container, stuck>>

\* A file with an unsafe path or an unknown encoding raises inside the try.
Materialize(j) ==
  /\ box[j] = "materialize"
  /\ \/ box' = [box EXCEPT ![j] = "launch"] /\ UNCHANGED exit
     \/ /\ box' = [box EXCEPT ![j] = "cleanup"]
        /\ exit' = [exit EXCEPT ![j] = "error"]
  /\ UNCHANGED <<docker, workspace, container, stuck>>

\* docker run --rm --name ...
Launch(j) ==
  /\ box[j] = "launch"
  /\ box' = [box EXCEPT ![j] = "client"]
  /\ container' = [container EXCEPT ![j] = "requested"]
  /\ UNCHANGED <<docker, workspace, stuck, exit>>

\* The client reports the exit code of the script, or its own.
ClientReturns(j) ==
  /\ box[j] = "client" /\ container[j] = "gone"
  /\ \E code \in {"ok", "failed"} : exit' = [exit EXCEPT ![j] = code]
  /\ box' = [box EXCEPT ![j] = "cleanup"]
  /\ UNCHANGED <<docker, workspace, container, stuck>>

\* Mutant: a timeout only kills the client.
ClientTimesOut_Leaves(j) ==
  /\ box[j] = "client"
  /\ box' = [box EXCEPT ![j] = "cleanup"]
  /\ exit' = [exit EXCEPT ![j] = "timeout"]
  /\ UNCHANGED <<docker, workspace, container, stuck>>

\* Mutant: subprocess.run is called without a timeout.
ClientTimesOut_Never(j) == FALSE /\ UNCHANGED sandboxVars

\* TimeoutExpired: subprocess.run has killed the client, not the container.
ClientTimesOut(j) ==
  /\ box[j] = "client"
  /\ box' = [box EXCEPT ![j] = "remove"]
  /\ exit' = [exit EXCEPT ![j] = "timeout"]
  /\ UNCHANGED <<docker, workspace, container, stuck>>

\* _force_remove_container: its failure is logged, or not even noticed.  A
\* container that the daemon has yet to create cannot be removed.
ForceRemove(j) ==
  /\ box[j] = "remove"
  /\ box' = [box EXCEPT ![j] = "cleanup"]
  /\ \/ /\ container' = [container EXCEPT ![j] = IF @ \in {"created", "running"} THEN "gone" ELSE @]
        /\ UNCHANGED stuck
     \/ stuck' = stuck \cup {j} /\ UNCHANGED container
  /\ UNCHANGED <<docker, workspace, exit>>

\* finally: shutil.rmtree
CleanUp(j) ==
  /\ box[j] = "cleanup"
  /\ box' = [box EXCEPT ![j] = "done"]
  /\ workspace' = workspace \ {j}
  /\ UNCHANGED <<docker, container, stuck, exit>>

JobStep(j) ==
  Materialize(j) \/ Launch(j) \/ ClientReturns(j) \/ ClientTimesOut(j) \/ ForceRemove(j) \/ CleanUp(j)
-----------------------------------------------------------------------------
(***************************************************************************)
(* The daemon.  It creates what it was asked for even if the client has    *)
(* been killed meanwhile, but only a client that lives (it may outlive the *)
(* server) asks it to start.                                               *)
(***************************************************************************)
DaemonCreates(j) ==
  /\ container[j] = "requested"
  /\ container' = [container EXCEPT ![j] = "created"]

DaemonRefuses(j) ==
  /\ container[j] = "requested" /\ container' = [container EXCEPT ![j] = "gone"]

DaemonStarts(j) ==
  /\ container[j] = "created" /\ box[j] \in {"client", "lost"}
  /\ container' = [container EXCEPT ![j] = "running"]

ScriptEnds(j) ==
  /\ container[j] = "running"
  /\ container' = [container EXCEPT ![j] = "gone"]

Daemon(j) ==
  /\ DaemonCreates(j) \/ DaemonRefuses(j) \/ DaemonStarts(j) \/ ScriptEnds(j)
  /\ UNCHANGED <<docker, box, workspace, stuck, exit>>

\* Someone removes the CLI from the PATH.
DockerGone ==
  /\ docker /\ docker' = FALSE
  /\ UNCHANGED <<box, workspace, container, stuck, exit>>

\* The server process ends: nobody cleans up behind its threads.
SandboxCrash ==
  /\ box' = [j \in Jobs |-> IF box[j] \in {"idle", "done"} THEN box[j] ELSE "lost"]
  /\ UNCHANGED <<docker, workspace, container, stuck, exit>>
=============================================================================
