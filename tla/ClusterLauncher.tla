--------------------------- MODULE ClusterLauncher ---------------------------
(***************************************************************************)
(* nrl-k8s: the command line that brings RayClusters up, submits daemons   *)
(* and the training driver, and tears everything down again.  One command  *)
(* works on a namespace at a time, for one of several users; it may be     *)
(* interrupted between any two calls to the API server, while KubeRay and  *)
(* the Ray jobs move on by themselves.                                     *)
(***************************************************************************)
EXTENDS Integers, Sequences, FiniteSets, SequencesExt

CONSTANTS
  RoleOrder,    \* ALL_ROLES, those the recipe declares
  Daemons,      \* roles with a daemon entrypoint
  HasDeployment,\* whether the recipe declares a Deployment
  Users, Specs, \* who runs commands, and the manifests they may render
  Commands,     \* [verb, user, spec, opts] a user may type
  MaxCommands,
  None

Roles == Range(RoleOrder)
Options == {"replace", "recreate", "skip_daemons", "exec", "wait"}
Verbs == {"run", "up", "down", "rayjob"}

ASSUME LauncherAssumption ==
  /\ RoleOrder \in Seq(Roles) /\ IsInjective(RoleOrder)
  /\ "training" \in Roles /\ Daemons \subseteq Roles
  /\ None \notin Users \cup {"running", "terminal"}
  /\ HasDeployment \in BOOLEAN /\ MaxCommands \in Nat
  /\ Commands \subseteq [verb : Verbs, user : Users, spec : Specs,
                         opts : SUBSET Options]

VARIABLES
  clusters,   \* the RayCluster of each role
  dra,        \* roles with ComputeDomain and claim template
  deployment, \* [owner, service] of the Deployment
  rayjob,     \* the RayJob named like the training cluster: None, "running",
              \* "terminal"
  procs,      \* per cluster: its daemons and training drivers, oldest first
  registry,   \* whether the gym is in the endpoint-registry ConfigMap
  cli,        \* the command being executed
  typed       \* commands so far

world == <<clusters, dra, deployment, rayjob, procs, registry>>
vars == <<world, cli, typed>>

Absent == [state |-> "absent", owner |-> None, spec |-> None, deleting |-> FALSE]
NoDeployment == [owner |-> None, service |-> FALSE]
Shell == [cmd |-> None, pc |-> "idle", at |-> 1, live |-> Absent, todo |-> {}]

Terminal == {"STOPPED", "FAILED", "SUCCEEDED"}
JobKinds == {"daemon", "fresh", "ray", "exec"}
           \* submissionId as configured, with --replace's suffix; driver as
           \* Ray job or as process on the head pod

Role == RoleOrder[cli.at]
Has(opt) == opt \in cli.cmd.opts
Me == cli.cmd.user
Exists(r) == clusters[r].state # "absent"
Reachable(r) == clusters[r].state = "ready"     \* a port-forward succeeds
Jobs(r) == DOMAIN procs[r]
(* get_job_status: a job told to stop is RUNNING until it has stopped      *)
Status(r, j) ==
  IF procs[r][j].status = "STOPPING" THEN "RUNNING" ELSE procs[r][j].status
WithStatus(r, j, s) == [procs EXCEPT ![r][j].status = s]
Started(r, kind, status) ==
  [procs EXCEPT ![r] = Append(@, [kind |-> kind, status |-> status])]
(* get_job_status of the configured submissionId *)
Existing(r) ==
  IF \E j \in Jobs(r) : procs[r][j].kind = "daemon"
    THEN CHOOSE j \in Jobs(r) : procs[r][j].kind = "daemon" ELSE None

Goto(pc) == cli' = [cli EXCEPT !.pc = pc]
Exit == cli' = Shell              \* an error: the command ends where it is
At(verbs, pc) == cli.pc = pc /\ cli.cmd.verb \in verbs

(* The first step for a role, and what follows the last role *)
FirstStep(verb) ==
  CASE verb = "run" -> "get" [] verb = "up" -> "collision"
    [] verb = "down" -> "delete"
AfterRoles(verb) ==
  IF verb = "run" THEN "reset" ELSE IF HasDeployment THEN "deployment" ELSE "done"
NextRole ==
  cli' = IF cli.at < Len(RoleOrder)
           THEN [cli EXCEPT !.at = @ + 1, !.pc = FirstStep(cli.cmd.verb)]
           ELSE [cli EXCEPT !.pc = AfterRoles(cli.cmd.verb)]

Init ==
  /\ clusters = [r \in Roles |-> Absent] /\ dra = {}
  /\ deployment = NoDeployment /\ rayjob = None
  /\ procs = [r \in Roles |-> <<>>] /\ registry = FALSE
  /\ cli = Shell /\ typed = 0

Type ==
  /\ cli.pc = "idle" /\ typed < MaxCommands
  /\ \E c \in Commands :
       cli' = [Shell EXCEPT !.cmd = c,
                 !.at = IF c.verb = "rayjob"
                          THEN CHOOSE i \in DOMAIN RoleOrder : RoleOrder[i] = "training"
                          ELSE 1,
                 !.pc = IF c.verb \in {"run", "rayjob"} THEN "collision"
                        ELSE FirstStep(c.verb)]
  /\ typed' = typed + 1 /\ UNCHANGED world
Done == cli.pc = "done" /\ cli' = Shell /\ UNCHANGED <<world, typed>>
Interrupt == cli.pc # "idle" /\ cli' = Shell /\ UNCHANGED <<world, typed>>

-----------------------------------------------------------------------------
(* Before anything is created                                              *)

(* _check_head_svc_collision: of every role for run, of the role at hand   *)
(* for cluster up; the only RayJob is named like the training cluster.     *)
CheckCollision ==
  /\ At({"run", "up"}, "collision")
  /\ IF rayjob # None /\ (cli.cmd.verb = "run" \/ Role = "training") THEN Exit
     ELSE Goto(CASE cli.cmd.verb = "up" -> "dra"
                 [] Has("replace") -> "first_reset"
                 [] ~Has("replace") /\ HasDeployment -> "deployment"
                 [] OTHER -> "get")
  /\ UNCHANGED <<world, typed>>

(* _reset_endpoint_registry, at the head of run() and again in             *)
(* submit_training, there followed by stop_all_running                     *)
ResetEndpointRegistry ==
  \/ /\ At({"run"}, "first_reset") /\ registry' = FALSE
     /\ Goto(IF HasDeployment THEN "deployment" ELSE "get")
     /\ UNCHANGED <<clusters, dra, deployment, rayjob, procs, typed>>
  \/ /\ At({"run"}, "reset")
     /\ registry' = (registry /\ ~Has("replace"))
     /\ Goto(IF ~Has("replace") THEN "launch"
             ELSE IF Has("exec") THEN "stop_exec" ELSE "list_jobs")
     /\ UNCHANGED <<clusters, dra, deployment, rayjob, procs, typed>>

(* ensure_deployment: first in run, last in cluster up *)
AfterDeployment == IF cli.cmd.verb = "run" THEN "get" ELSE "done"
EnsureDeployment ==
  /\ At({"run", "up"}, "deployment")
  /\ IF deployment.owner \notin {None, Me} THEN Exit /\ UNCHANGED deployment
     ELSE Goto("service") /\ deployment' = [deployment EXCEPT !.owner = Me]
  /\ UNCHANGED <<clusters, dra, rayjob, procs, registry, typed>>
ApplyService ==
  /\ At({"run", "up"}, "service")
  /\ deployment' = [deployment EXCEPT !.service = TRUE]
  /\ Goto(AfterDeployment) \/ Exit                    \* healthCheckTimeoutS
  /\ UNCHANGED <<clusters, dra, rayjob, procs, registry, typed>>

-----------------------------------------------------------------------------
(* RayClusters                                                             *)

(* Mutant: whoever owns it *)
EnsureClusterOfAnyone ==
  /\ At({"run"}, "get")
  /\ cli' = [cli EXCEPT !.pc = "dra", !.live = clusters[Role]]
  /\ UNCHANGED <<world, typed>>
(* ensure_cluster reads the live cluster and refuses another user's        *)
EnsureCluster ==
  /\ At({"run"}, "get")
  /\ IF Exists(Role) /\ clusters[Role].owner # Me THEN Exit
     ELSE cli' = [cli EXCEPT !.pc = "dra", !.live = clusters[Role]]
  /\ UNCHANGED <<world, typed>>

(* ensure_cluster decides by what it read; bring_up_cluster applies        *)
AfterDra ==
  CASE cli.cmd.verb # "run" \/ cli.live.state = "absent" -> "apply"
    [] cli.cmd.verb = "run" /\ cli.live.state # "absent" ->
         IF cli.live.spec # cli.cmd.spec /\ Has("recreate") THEN "delete"
         ELSE "ready"
(* Mutant: only for a new cluster *)
EnsureDraResourcesOnce ==
  /\ At({"run", "up", "rayjob"}, "dra") /\ Goto(AfterDra)
  /\ dra' = IF cli.live.state = "absent" THEN dra \cup {Role} ELSE dra
  /\ UNCHANGED <<clusters, deployment, rayjob, procs, registry, typed>>
EnsureDraResources ==
  /\ At({"run", "up", "rayjob"}, "dra")
  /\ dra' = dra \cup {Role} /\ Goto(AfterDra)
  /\ UNCHANGED <<clusters, deployment, rayjob, procs, registry, typed>>

(* delete_raycluster: a finalizer may keep the object for a while          *)
DeleteRaycluster ==
  /\ At({"run", "down"}, "delete")
  /\ clusters' = [clusters EXCEPT ![Role].deleting = Exists(Role)]
  /\ Goto(IF cli.cmd.verb = "run" \/ Has("wait") THEN "gone" ELSE "delete_dra")
  /\ UNCHANGED <<dra, deployment, rayjob, procs, registry, typed>>
WaitForRayclusterGone ==
  /\ At({"run", "down"}, "gone")
  /\ \/ Exit                                          \* after 600 s
     \/ ~Exists(Role) /\ Goto(IF cli.cmd.verb = "run" THEN "apply" ELSE "delete_dra")
  /\ UNCHANGED <<world, typed>>
DeleteDraResources ==
  /\ At({"down", "rayjob"}, "delete_dra")
  /\ dra' = dra \ {Role}
  /\ IF cli.cmd.verb = "rayjob" THEN Goto("done") ELSE NextRole
  /\ UNCHANGED <<clusters, deployment, rayjob, procs, registry, typed>>

(* apply_raycluster creates; on a conflict it patches spec and labels      *)
ApplyRaycluster ==
  /\ At({"run", "up"}, "apply")
  /\ clusters' = [clusters EXCEPT ![Role] =
       IF Exists(Role) THEN [@ EXCEPT !.owner = Me, !.spec = cli.cmd.spec]
       ELSE [state |-> "pending", owner |-> Me, spec |-> cli.cmd.spec,
             deleting |-> FALSE]]
  /\ IF cli.cmd.verb = "run" \/ Has("wait") THEN Goto("ready") ELSE NextRole
  /\ UNCHANGED <<dra, deployment, rayjob, procs, registry, typed>>

(* Mutant: no deadline *)
WaitForRayclusterReadyForever ==
  /\ At({"run", "up"}, "ready")
  /\ clusters[Role].state = "ready" /\ Goto("daemon")
  /\ UNCHANGED <<world, typed>>
(* Only the state is looked at: a cluster being deleted may still be ready *)
WaitForRayclusterReady ==
  /\ At({"run", "up"}, "ready")
  /\ \/ Exit                                          \* after 900 s
     \/ clusters[Role].state = "ready" /\ Goto("daemon")
  /\ UNCHANGED <<world, typed>>

-----------------------------------------------------------------------------
(* submit_daemon                                                           *)

SkipsDaemon ==
  Role \notin Daemons \/ (cli.cmd.verb = "run" /\ Has("skip_daemons") /\ Role # "training")
CheckDaemon ==
  LET j == Existing(Role)
      status == IF j = None THEN "none" ELSE Status(Role, j)
  IN  /\ At({"run", "up"}, "daemon")
      /\ CASE SkipsDaemon -> NextRole /\ UNCHANGED procs
           [] ~SkipsDaemon /\ ~Reachable(Role) -> Exit /\ UNCHANGED procs
           [] ~SkipsDaemon /\ Reachable(Role) /\ ~Has("replace") ->
                /\ CASE status \in {"RUNNING", "SUCCEEDED"} -> NextRole
                     [] status \in {"FAILED", "STOPPED"} -> Exit
                     [] OTHER -> Goto("submit")
                /\ UNCHANGED procs
           [] OTHER ->
                IF status = "RUNNING"
                  THEN /\ procs' = WithStatus(Role, j, "STOPPING")
                       /\ Goto("stopped")
                  ELSE Goto("submit") /\ UNCHANGED procs
      /\ UNCHANGED <<clusters, dra, deployment, rayjob, registry, typed>>

(* _wait_job_stopped: terminal, unreachable, or 60 s over: the submission  *)
(* goes on in any case                                                     *)
WaitJobStopped ==
  /\ At({"run", "up"}, "stopped") /\ Goto("submit")
  /\ UNCHANGED <<world, typed>>

(* A submissionId that is taken is refused; --replace takes a fresh one    *)
SubmitDaemon ==
  /\ At({"run", "up"}, "submit")
  /\ IF ~Reachable(Role) \/ (Existing(Role) # None /\ ~Has("replace"))
       THEN Exit /\ UNCHANGED procs
       ELSE /\ procs' = Started(Role, IF Existing(Role) = None THEN "daemon" ELSE "fresh",
                                "PENDING")
            /\ Goto("health")
  /\ UNCHANGED <<clusters, dra, deployment, rayjob, registry, typed>>
WaitForHealth ==
  /\ At({"run", "up"}, "health")
  /\ \/ Exit                                          \* healthCheckTimeoutS
     \/ /\ \E j \in Jobs(Role) : Status(Role, j) = "RUNNING"
                                /\ procs[Role][j].kind \in {"daemon", "fresh"}
        /\ NextRole
  /\ UNCHANGED <<world, typed>>

-----------------------------------------------------------------------------
(* submit_training                                                         *)

(* stop_all_running: SIGTERM to the drivers on the head pod; it waits 10 s *)
StopAllRunning ==
  /\ At({"run"}, "stop_exec")
  /\ IF ~Reachable("training") THEN Exit /\ UNCHANGED procs
     ELSE /\ procs' = [procs EXCEPT !["training"] = [j \in DOMAIN @ |->
               IF @[j].kind = "exec" /\ @[j].status = "RUNNING"
                 THEN [@[j] EXCEPT !.status = "STOPPING"] ELSE @[j]]]
          /\ Goto("list_jobs")
  /\ UNCHANGED <<clusters, dra, deployment, rayjob, registry, typed>>

(* Every RUNNING Ray job that list_jobs names is stopped, one by one, each *)
(* waited for, but not for longer than 60 s.                               *)
ListJobs ==
  /\ At({"run"}, "list_jobs")
  /\ IF ~Reachable("training") THEN Exit
     ELSE cli' = [cli EXCEPT !.pc = "stop_job", !.todo =
            {j \in Jobs("training") : /\ procs["training"][j].kind # "exec"
                                      /\ Status("training", j) = "RUNNING"}]
  /\ UNCHANGED <<world, typed>>
StopJob ==
  /\ At({"run"}, "stop_job")
  /\ IF cli.todo = {} THEN Goto("launch") /\ UNCHANGED procs
     ELSE \E j \in cli.todo :
            /\ cli' = [cli EXCEPT !.todo = @ \ {j}]
            /\ procs' = IF j \in Jobs("training") /\ Status("training", j) = "RUNNING"
                          THEN WithStatus("training", j, "STOPPING") ELSE procs
  /\ UNCHANGED <<clusters, dra, deployment, rayjob, registry, typed>>

(* submitter.submit: a Ray job through the port-forward, or a process on   *)
(* the head pod, whose pidfile may fail to appear although it started      *)
Launch ==
  /\ At({"run"}, "launch")
  /\ IF ~Reachable("training") THEN Exit /\ UNCHANGED procs
     ELSE /\ IF Has("exec")
               THEN /\ procs' = Started("training", "exec", "RUNNING")
                    /\ Goto("done") \/ Exit
               ELSE /\ procs' = Started("training", "ray", "PENDING")
                    /\ Goto("done")
  /\ UNCHANGED <<clusters, dra, deployment, rayjob, registry, typed>>

-----------------------------------------------------------------------------
(* The rest of cluster down, and run --rayjob                              *)

DeleteDeployment ==
  \/ /\ At({"down"}, "deployment") /\ Goto("service")
     /\ deployment' = [deployment EXCEPT !.service = FALSE]
     /\ UNCHANGED <<clusters, dra, rayjob, procs, registry, typed>>
  \/ /\ At({"down"}, "service") /\ Goto("done")
     /\ deployment' = [deployment EXCEPT !.owner = None]
     /\ UNCHANGED <<clusters, dra, rayjob, procs, registry, typed>>

(* _check_stale_rayjobs and _check_head_svc_collision                      *)
CheckStale ==
  /\ At({"rayjob"}, "collision")
  /\ IF rayjob # None \/ Exists(Role) THEN Exit ELSE Goto("dra")
  /\ UNCHANGED <<world, typed>>
ApplyRayjob ==
  /\ At({"rayjob"}, "apply") /\ rayjob' = "running"
  /\ Goto(IF Has("wait") THEN "rayjob" ELSE "done")
  /\ UNCHANGED <<clusters, dra, deployment, procs, registry, typed>>
WaitForRayjobTerminal ==
  /\ At({"rayjob"}, "rayjob")
  /\ Exit \/ (rayjob = "terminal" /\ Goto("delete_dra"))  \* or gone, or a day over
  /\ UNCHANGED <<world, typed>>

-----------------------------------------------------------------------------
(* KubeRay, Ray and the jobs                                               *)

ClusterReady ==
  /\ \E r \in Roles :
       /\ clusters[r].state = "pending" /\ ~clusters[r].deleting
       /\ clusters' = [clusters EXCEPT ![r].state = "ready"]
  /\ UNCHANGED <<dra, deployment, rayjob, procs, registry, cli, typed>>
ClusterGone ==
  /\ \E r \in Roles :
       /\ clusters[r].deleting
       /\ clusters' = [clusters EXCEPT ![r] = Absent]
       /\ procs' = [procs EXCEPT ![r] = <<>>]
  /\ UNCHANGED <<dra, deployment, rayjob, registry, cli, typed>>
RayjobMoves ==
  /\ \/ rayjob = "running" /\ rayjob' = "terminal"
     \/ rayjob = "terminal" /\ rayjob' = None           \* ttlSecondsAfterFinished
  /\ UNCHANGED <<clusters, dra, deployment, procs, registry, cli, typed>>
JobMoves ==
  /\ \E r \in Roles : \E j \in Jobs(r) :
       \E s \in CASE procs[r][j].status = "PENDING" -> {"RUNNING", "FAILED"}
                 [] procs[r][j].status = "RUNNING" -> {"SUCCEEDED", "FAILED"}
                 [] procs[r][j].status = "STOPPING" -> {"STOPPED"}
                 [] OTHER -> {} :
         procs' = WithStatus(r, j, s)
  /\ UNCHANGED <<clusters, dra, deployment, rayjob, registry, cli, typed>>
(* A running gym daemon publishes gym_head_server                          *)
GymPublishes ==
  /\ ~registry /\ "gym" \in Roles
  /\ \E j \in Jobs("gym") : Status("gym", j) = "RUNNING"
  /\ registry' = TRUE
  /\ UNCHANGED <<clusters, dra, deployment, rayjob, procs, cli, typed>>

Command ==
  \/ CheckCollision \/ ResetEndpointRegistry \/ EnsureDeployment
  \/ ApplyService \/ EnsureCluster \/ EnsureDraResources \/ DeleteRaycluster
  \/ WaitForRayclusterGone \/ DeleteDraResources \/ ApplyRaycluster
  \/ WaitForRayclusterReady \/ CheckDaemon \/ WaitJobStopped \/ SubmitDaemon
  \/ WaitForHealth \/ StopAllRunning \/ ListJobs \/ StopJob \/ Launch
  \/ DeleteDeployment \/ CheckStale \/ ApplyRayjob \/ WaitForRayjobTerminal
  \/ Done
Environment ==
  ClusterReady \/ ClusterGone \/ RayjobMoves \/ JobMoves \/ GymPublishes
Next == Type \/ Interrupt \/ Command \/ Environment

Spec == Init /\ [][Next]_vars
FairSpec == Spec /\ WF_vars(Command)

-----------------------------------------------------------------------------
Live(r) == Exists(r) /\ ~clusters[r].deleting

ResourcesHeld ==
  /\ \A r \in Roles : Live(r) => r \in dra
  /\ rayjob # None => ~Exists("training")

(* LeavesAlone: `run` changes nothing of another user; it replaces its own *)
(* cluster only if that has drifted and --recreate is given; and without   *)
(* --replace it stops no job and forgets no published endpoint.            *)
Stops(r) ==
  \E j \in Jobs(r) \cap DOMAIN procs'[r] :
    procs'[r][j].status = "STOPPING" /\ procs[r][j].status # "STOPPING"
Untouched(r) ==
  clusters'[r] \in {clusters[r], Absent, [clusters[r] EXCEPT !.state = "ready"]}
RunLeavesAlone ==
  /\ \A r \in Roles : Exists(r) =>
       /\ clusters[r].owner # Me \/ ~Has("recreate") \/ clusters[r].spec = cli.cmd.spec
            => Untouched(r)
       /\ clusters[r].owner # Me \/ ~Has("replace") => ~Stops(r)
  /\ deployment.owner \notin {None, Me} => deployment' = deployment
  /\ registry /\ ~registry' => Has("replace")
LeavesAlone ==
  [][cli.pc # "idle" /\ cli.cmd.verb = "run" => RunLeavesAlone]_vars

NothingLeft ==
  cli.pc = "done" /\ cli.cmd.verb = "down" =>
    /\ dra = {} /\ deployment = NoDeployment
    /\ \A r \in Roles : ~Live(r) /\ (Has("wait") => ~Exists(r))

(* ClustersWhole: a live RayCluster has the DRA resources its pods claim,  *)
(* through drift, recreation and teardowns cut short, no RayJob shares the *)
(* name of its head service, and a cluster down that went through leaves   *)
(* nothing that costs GPUs or that the next command would stumble over.    *)
ClustersWhole == ResourcesHeld /\ NothingLeft

(* EveryCommandEnds: no command waits for ever for a cluster, a job or a   *)
(* health check that does not come.                                        *)
EveryCommandEnds == cli.pc # "idle" ~> cli.pc = "idle"
=============================================================================
