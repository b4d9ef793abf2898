--------------------------- MODULE LauncherProofs ---------------------------
(***************************************************************************)
(* Proofs about ClusterLauncher, for any roles, users, manifests and       *)
(* commands, whatever KubeRay and the jobs do between two calls and        *)
(* wherever a command is interrupted.                                      *)
(***************************************************************************)
EXTENDS ClusterLauncher, TLAPS

-----------------------------------------------------------------------------
(* The command and how far it has come                                     *)

Verb(v) == cli.pc # "idle" /\ cli.cmd.verb = v

(* All roles have been gone through, *)
Finished ==
  \/ Verb("run") /\ cli.pc \in {"reset", "stop_exec", "list_jobs", "stop_job",
                                "launch", "done"}
  \/ Verb("down") /\ cli.pc \in {"deployment", "service", "done"}

(* or those before the one at hand. *)
Visited ==
  {RoleOrder[i] : i \in {k \in DOMAIN RoleOrder : k < cli.at \/ Finished}}

AtRole == {"dra", "delete", "gone", "apply", "ready", "daemon", "stopped",
           "submit", "health"}
Cluster ==
  [state : {"absent", "pending", "ready"}, owner : Users \cup {None},
   spec : Specs \cup {None}, deleting : BOOLEAN]

Places == AtRole \cup {"idle", "collision", "first_reset", "deployment", "service",
  "get", "delete_dra", "reset", "stop_exec", "list_jobs", "stop_job", "launch",
  "rayjob", "done"}
Statuses == Terminal \cup {"PENDING", "RUNNING", "STOPPING"}
Job == [kind : JobKinds, status : Statuses]

TypeInv ==
  /\ clusters \in [Roles -> Cluster] /\ dra \subseteq Roles
  /\ deployment \in [owner : Users \cup {None}, service : BOOLEAN]
  /\ rayjob \in {None, "running", "terminal"}
  /\ cli \in [cmd : Commands \cup {None}, pc : Places, at : DOMAIN RoleOrder,
              live : Cluster, todo : SUBSET Nat]
  /\ cli.pc # "idle" => cli.cmd \in Commands
  /\ procs \in [Roles -> Seq(Job)]

(* A RayJob shares its name with no cluster: whoever would create either   *)
(* has looked for the other, and nobody else works on the namespace.       *)
RayjobAlone ==
  /\ rayjob # None => ~Exists("training")
  /\ Verb("rayjob") => Role = "training"
  /\ Verb("rayjob") /\ cli.pc \in {"dra", "apply", "rayjob", "delete_dra"} =>
       ~Exists("training")
  /\ Verb("run") /\ cli.pc # "collision" => rayjob = None
  /\ Verb("up") /\ Role = "training" /\ cli.pc # "collision" => rayjob = None

(* Resources come before the cluster that claims them, and go after it.    *)
DraFirst ==
  /\ \A r \in Roles : Live(r) => r \in dra
  /\ Verb("run") \/ Verb("up") => (cli.pc = "apply" => Role \in dra)
  /\ Verb("run") /\ cli.pc \in {"delete", "gone"} => Role \in dra

(* What cluster down has cleared stays cleared until it ends.              *)
Clean(r) == ~Live(r) /\ (Has("wait") => ~Exists(r))
DownClears ==
  /\ Verb("down") => \A r \in Visited : r \notin dra /\ Clean(r)
  /\ Verb("down") /\ cli.pc = "delete_dra" => Clean(Role)
  /\ Verb("down") /\ cli.pc = "service" => ~deployment.service
  /\ Verb("down") /\ cli.pc = "done" => deployment = NoDeployment
  /\ HasDeployment \/ deployment = NoDeployment
  /\ cli.pc \in {"deployment", "service"} => HasDeployment

(* run goes on with its own clusters only, and deletes one, to apply it    *)
(* anew, only if its manifest has drifted and it was told to.              *)
Own(r) == Exists(r) => clusters[r].owner = Me
RunsOwn ==
  Verb("run") =>
    /\ \A r \in Visited : Own(r)
    /\ cli.pc \in AtRole => Own(Role)
    /\ cli.pc \in {"dra", "delete"} /\ Exists(Role) =>
         cli.live.state # "absent" /\ clusters[Role].spec = cli.live.spec
    /\ cli.pc = "delete" => Has("recreate") /\ cli.live.spec # cli.cmd.spec
    /\ cli.pc = "apply" => ~Exists(Role)
    /\ cli.pc = "service" => deployment.owner = Me
    /\ cli.pc \in {"first_reset", "stop_exec", "list_jobs", "stop_job"} => Has("replace")

Inv == TypeInv /\ RayjobAlone /\ DraFirst /\ DownClears /\ RunsOwn

-----------------------------------------------------------------------------
(* Steps that leave the command where it is, end it or move it on          *)

LEMMA Constants ==
  /\ RoleOrder \in Seq(Roles) /\ Len(RoleOrder) \in Nat
  /\ DOMAIN RoleOrder = 1 .. Len(RoleOrder) /\ 1 \in DOMAIN RoleOrder
  /\ "training" \in Roles /\ \A i \in DOMAIN RoleOrder : RoleOrder[i] \in Roles
  /\ None \notin {"running", "terminal"} /\ None \notin Users
  /\ HasDeployment \in BOOLEAN
  /\ \A c \in Commands : c.verb \in Verbs /\ c.user \in Users /\ c.spec \in Specs
<1>1. /\ RoleOrder \in Seq(Roles) /\ "training" \in Roles /\ HasDeployment \in BOOLEAN
      /\ None \notin {"running", "terminal"} /\ None \notin Users
      /\ \A c \in Commands : c.verb \in Verbs /\ c.user \in Users /\ c.spec \in Specs
  BY LauncherAssumption
<1>2. /\ Len(RoleOrder) \in Nat /\ DOMAIN RoleOrder = 1 .. Len(RoleOrder)
      /\ \A i \in DOMAIN RoleOrder : RoleOrder[i] \in Roles
  BY <1>1
<1>3. 1 \in DOMAIN RoleOrder
  <2>1. PICK i \in DOMAIN RoleOrder : RoleOrder[i] = "training"
    BY <1>1 DEF Roles, Range
  <2> QED BY <1>2, <2>1
<1> QED BY <1>1, <1>2, <1>3

LEMMA RoleTyped == ASSUME TypeInv PROVE Role \in Roles
BY Constants DEF TypeInv, Role

LEMMA AbsentTyped == Absent \in Cluster BY DEF Absent, Cluster

LEMMA InitInv == Init => Inv
<1> SUFFICES ASSUME Init PROVE Inv OBVIOUS
<1>1. /\ cli = Shell /\ cli.pc = "idle" /\ \A r \in Roles : ~Exists(r)
      /\ deployment = NoDeployment /\ rayjob = None /\ dra = {}
  BY DEF Init, Shell, Exists, Absent
<1>2. TypeInv
  <2>1. Shell \in [cmd : Commands \cup {None}, pc : Places, at : DOMAIN RoleOrder,
                   live : Cluster, todo : SUBSET Nat]
    BY Constants, AbsentTyped DEF Shell, Places
  <2> QED BY <1>1, <2>1, AbsentTyped, Constants DEF TypeInv, Init, NoDeployment
<1>3. RayjobAlone BY <1>1, Constants DEF RayjobAlone, Verb
<1>4. DraFirst BY <1>1 DEF DraFirst, Verb, Live
<1>5. DownClears BY <1>1 DEF DownClears, Verb
<1>6. RunsOwn BY <1>1 DEF RunsOwn, Verb
<1> QED BY <1>2, <1>3, <1>4, <1>5, <1>6 DEF Inv

LEMMA StatusTyped ==
  ASSUME TypeInv, NEW r \in Roles, NEW j \in Jobs(r), NEW s \in Statuses
  PROVE  WithStatus(r, j, s) \in [Roles -> Seq(Job)]
<1>1. procs \in [Roles -> Seq(Job)] BY DEF TypeInv
<1>2. procs[r] \in Seq(Job) /\ j \in DOMAIN procs[r] BY <1>1 DEF Jobs
<1>3. [procs[r][j] EXCEPT !.status = s] \in Job
  <2>1. procs[r][j] \in Job BY <1>2
  <2> QED BY <2>1 DEF Job
<1>4. [procs[r] EXCEPT ![j] = [procs[r][j] EXCEPT !.status = s]] \in Seq(Job)
  BY <1>2, <1>3
<1>5. WithStatus(r, j, s)
        = [procs EXCEPT ![r] = [procs[r] EXCEPT ![j] = [procs[r][j] EXCEPT !.status = s]]]
  BY DEF WithStatus
<1> QED BY <1>1, <1>4, <1>5

(* KubeRay, Ray and the jobs *)
LEMMA EnvironmentKeeps == ASSUME Inv, Environment PROVE Inv'
<1> USE DEF Inv
<1>1. UNCHANGED <<dra, deployment, cli>>
  BY DEF Environment, ClusterReady, ClusterGone, RayjobMoves, JobMoves, GymPublishes
<1>2. \/ rayjob' = rayjob
      \/ rayjob # None /\ rayjob' \in {None, "terminal"} /\ clusters' = clusters
  BY Constants DEF Environment, ClusterReady, ClusterGone, RayjobMoves, JobMoves, GymPublishes
<1>3. /\ clusters' \in [Roles -> Cluster]
      /\ \A r \in Roles :
           \/ clusters'[r] = clusters[r]
           \/ clusters'[r] = Absent
           \/ /\ clusters[r].state = "pending" /\ clusters'[r].state = "ready"
              /\ clusters'[r].owner = clusters[r].owner /\ clusters'[r].spec = clusters[r].spec
              /\ clusters'[r].deleting = clusters[r].deleting
  <2>1. CASE ClusterReady
    <3>1. PICK r \in Roles : /\ clusters[r].state = "pending"
                             /\ clusters' = [clusters EXCEPT ![r].state = "ready"]
      BY <2>1 DEF ClusterReady
    <3>2. [clusters[r] EXCEPT !.state = "ready"] \in Cluster BY DEF TypeInv, Cluster
    <3> QED BY <3>1, <3>2 DEF TypeInv, Cluster
  <2>2. CASE ClusterGone BY <2>2, AbsentTyped DEF ClusterGone, TypeInv
  <2>3. CASE RayjobMoves \/ JobMoves \/ GymPublishes
    BY <2>3 DEF RayjobMoves, JobMoves, GymPublishes, TypeInv
  <2> QED BY <2>1, <2>2, <2>3 DEF Environment
<1>4. \A r \in Roles : /\ Exists(r)' => Exists(r)
                       /\ Live(r)' => Live(r)
                       /\ Exists(r)' => clusters'[r].owner = clusters[r].owner
                                        /\ clusters'[r].spec = clusters[r].spec
  BY <1>3 DEF Exists, Live, Absent
<1>5. procs' \in [Roles -> Seq(Job)]
  <2>1. procs \in [Roles -> Seq(Job)] BY DEF TypeInv
  <2>2. CASE ClusterGone BY <2>1, <2>2 DEF ClusterGone
  <2>3. CASE JobMoves
    <3>1. PICK r \in Roles : \E j \in Jobs(r) :
            \E s \in {"RUNNING", "FAILED", "SUCCEEDED", "STOPPED"} : procs' = WithStatus(r, j, s)
      BY <2>3 DEF JobMoves
    <3>2. PICK j \in Jobs(r) : \E s \in {"RUNNING", "FAILED", "SUCCEEDED", "STOPPED"} :
            procs' = WithStatus(r, j, s)
      BY <3>1
    <3>3. PICK s \in Statuses : procs' = WithStatus(r, j, s)
      BY <3>2 DEF Statuses, Terminal
    <3> QED BY <3>3, StatusTyped
  <2>4. CASE ClusterReady \/ RayjobMoves \/ GymPublishes
    BY <2>1, <2>4 DEF ClusterReady, RayjobMoves, GymPublishes
  <2> QED BY <2>2, <2>3, <2>4 DEF Environment
<1>6. TypeInv' BY <1>1, <1>2, <1>3, <1>5 DEF TypeInv
<1>7. /\ Visited' = Visited /\ Role' = Role /\ Role \in Roles /\ Visited \subseteq Roles
      /\ \A v : Verb(v)' = Verb(v)
  <2>1. \A v : Verb(v)' = Verb(v) BY <1>1 DEF Verb
  <2>2. Finished' = Finished BY <1>1 DEF Finished, Verb
  <2> QED BY <1>1, <2>1, <2>2, RoleTyped, Constants DEF Visited, Role
<1>8. RayjobAlone' BY <1>1, <1>2, <1>4, <1>7, Constants DEF RayjobAlone
<1>9. DraFirst' BY <1>1, <1>4, <1>7 DEF DraFirst
<1>10. DownClears' BY <1>1, <1>4, <1>7 DEF DownClears, Clean, Has
<1>11. RunsOwn' BY <1>1, <1>4, <1>7 DEF RunsOwn, Own, Has, Me
<1> QED BY <1>6, <1>8, <1>9, <1>10, <1>11

(* A command that ends, for whatever reason *)
LEMMA ExitKeeps ==
  ASSUME Inv, Exit, UNCHANGED <<clusters, dra, rayjob>>,
         procs' \in [Roles -> Seq(Job)],
         deployment' \in [owner : Users \cup {None}, service : BOOLEAN],
         HasDeployment \/ deployment' = deployment
  PROVE  Inv'
<1> USE DEF Inv
<1>1. cli' = Shell /\ cli'.pc = "idle" BY DEF Exit, Shell
<1>2. TypeInv'
  <2>1. cli' \in [cmd : Commands \cup {None}, pc : Places, at : DOMAIN RoleOrder,
                  live : Cluster, todo : SUBSET Nat]
    BY <1>1, Constants, AbsentTyped DEF Shell, Places
  <2> QED BY <1>1, <2>1 DEF TypeInv
<1>3. RayjobAlone' BY <1>1 DEF RayjobAlone, Verb, Exists
<1>4. DraFirst' BY <1>1 DEF DraFirst, Verb, Live, Exists
<1>5. DownClears' BY <1>1 DEF DownClears, Verb
<1>6. RunsOwn' BY <1>1 DEF RunsOwn, Verb
<1> QED BY <1>2, <1>3, <1>4, <1>5, <1>6

(* A command that stays with its role *)
LEMMA SameRole ==
  ASSUME cli.pc # "idle", cli'.pc # "idle", cli'.cmd = cli.cmd, cli'.at = cli.at,
         Finished' = Finished
  PROVE  /\ Verb("run")' = Verb("run") /\ Verb("up")' = Verb("up")
         /\ Verb("down")' = Verb("down") /\ Verb("rayjob")' = Verb("rayjob")
         /\ Role' = Role /\ Visited' = Visited /\ Me' = Me
         /\ \A opt \in Options : Has(opt)' = Has(opt)
BY DEF Verb, Role, Visited, Me, Has

(* What the place that a command goes on to asks of the world it finds,    *)
(* with d for the Deployment                                               *)
EntitledTo(p, d) ==
  /\ Verb("rayjob") /\ p \in {"dra", "apply", "rayjob", "delete_dra"} => ~Exists("training")
  /\ Verb("run") \/ (Verb("up") /\ Role = "training") => rayjob = None
  /\ (Verb("run") \/ Verb("up")) /\ p = "apply" => Role \in dra
  /\ Verb("run") /\ p \in {"delete", "gone"} => Role \in dra
  /\ Verb("down") /\ p = "delete_dra" => Clean(Role)
  /\ Verb("down") /\ p = "service" => ~d.service
  /\ Verb("down") /\ p = "done" => d = NoDeployment
  /\ p \in {"deployment", "service"} => HasDeployment
  /\ Verb("run") =>
       /\ p \in AtRole => Own(Role)
       /\ p = "apply" => ~Exists(Role)
       /\ p = "service" => d.owner = Me
       /\ p \in {"first_reset", "stop_exec", "list_jobs", "stop_job"} => Has("replace")
Entitled(p) == EntitledTo(p, deployment)

(* and, where it will look at what it read, of that *)
HasRead(p, live) ==
  Verb("run") =>
    /\ p \in {"dra", "delete"} /\ Exists(Role) =>
         live.state # "absent" /\ clusters[Role].spec = live.spec
    /\ p = "delete" => Has("recreate") /\ live.spec # cli.cmd.spec

(* A command that goes on and has changed at most the Deployment: the jobs *)
(* and the registry are no part of what others rely on.                    *)
LEMMA MoveKeeps ==
  ASSUME Inv, NEW p \in Places \ {"idle"}, NEW live \in Cluster, NEW todo \in SUBSET Nat,
         cli.pc # "idle", cli' = [cli EXCEPT !.pc = p, !.live = live, !.todo = todo],
         UNCHANGED <<clusters, dra, rayjob>>, procs' \in [Roles -> Seq(Job)],
         deployment' \in [owner : Users \cup {None}, service : BOOLEAN],
         HasDeployment \/ deployment' = NoDeployment,
         Finished' = Finished, EntitledTo(p, deployment'), HasRead(p, live)
  PROVE  Inv'
<1> USE DEF Inv
<1>1. /\ cli'.pc = p /\ cli'.cmd = cli.cmd /\ cli'.at = cli.at /\ cli'.live = live
      /\ cli' \in [cmd : Commands \cup {None}, pc : Places, at : DOMAIN RoleOrder,
                   live : Cluster, todo : SUBSET Nat]
  BY DEF TypeInv
<1>2. /\ Verb("run")' = Verb("run") /\ Verb("up")' = Verb("up")
      /\ Verb("down")' = Verb("down") /\ Verb("rayjob")' = Verb("rayjob")
      /\ Role' = Role /\ Visited' = Visited /\ Me' = Me
      /\ \A opt \in Options : Has(opt)' = Has(opt)
  BY <1>1, SameRole
<1>3. TypeInv' BY <1>1 DEF TypeInv
<1>4. /\ \A r : Exists(r)' = Exists(r) /\ Live(r)' = Live(r)
      /\ Exists("training")' = Exists("training") /\ Exists(Role)' = Exists(Role)
  <2>1. \A r : Exists(r)' = Exists(r) /\ Live(r)' = Live(r) BY DEF Exists, Live
  <2>2. Exists(Role)' = (clusters'[Role'].state # "absent") BY DEF Exists
  <2> QED BY <1>2, <2>1, <2>2 DEF Exists
<1>5. RayjobAlone' BY <1>1, <1>2, <1>4 DEF RayjobAlone, EntitledTo
<1>6. DraFirst' BY <1>1, <1>2, <1>4 DEF DraFirst, EntitledTo
<1>7. DownClears'
  <2>1. \A r : Clean(r)' = Clean(r) BY <1>2 DEF Clean, Live, Exists, Options
  <2>2. Clean(Role)' = Clean(Role) BY <1>2, <2>1
  <2> QED BY <1>1, <1>2, <2>1, <2>2 DEF DownClears, EntitledTo
<1>8. RunsOwn'
  <2>1. \A r : Own(r)' = Own(r) BY <1>2 DEF Own, Exists
  <2>2. Own(Role)' = Own(Role) BY <1>2, <2>1
  <2>3. cli'.cmd.spec = cli.cmd.spec /\ clusters'[Role'] = clusters[Role] BY <1>1, <1>2
  <2> QED BY <1>1, <1>2, <1>4, <2>1, <2>2, <2>3 DEF RunsOwn, EntitledTo, HasRead, Options
<1> QED BY <1>3, <1>5, <1>6, <1>7, <1>8

LEMMA GotoKeeps ==
  ASSUME Inv, NEW p \in Places \ {"idle"}, NEW live \in Cluster, NEW todo \in SUBSET Nat,
         cli.pc # "idle", cli' = [cli EXCEPT !.pc = p, !.live = live, !.todo = todo],
         UNCHANGED <<clusters, dra, deployment, rayjob>>,
         procs' \in [Roles -> Seq(Job)],
         Finished' = Finished, Entitled(p), HasRead(p, live)
  PROVE  Inv'
<1>1. /\ deployment' \in [owner : Users \cup {None}, service : BOOLEAN]
      /\ HasDeployment \/ deployment' = NoDeployment
  BY DEF Inv, TypeInv, DownClears
<1>2. EntitledTo(p, deployment') BY DEF Entitled
<1> QED BY <1>1, <1>2, MoveKeeps

(* Guards of the steps *)
LEMMA AtFacts ==
  ASSUME Inv, NEW verbs, NEW p, p # "idle", At(verbs, p)
  PROVE  /\ cli.pc = p /\ cli.pc # "idle" /\ cli.cmd \in Commands /\ cli.cmd.verb \in verbs
         /\ Role \in Roles /\ cli.at \in DOMAIN RoleOrder /\ cli.live \in Cluster
         /\ cli.todo \in SUBSET Nat /\ Me \in Users /\ cli.cmd.spec \in Specs
         /\ cli \in [cmd : Commands \cup {None}, pc : Places, at : DOMAIN RoleOrder,
                     live : Cluster, todo : SUBSET Nat]
         /\ \A v : Verb(v) <=> cli.cmd.verb = v
BY RoleTyped, Constants DEF Inv, TypeInv, At, Verb, Me

LEMMA Pure ==
  ASSUME Inv, UNCHANGED world
  PROVE  /\ UNCHANGED <<clusters, dra, deployment, rayjob, procs>>
         /\ procs' \in [Roles -> Seq(Job)]
         /\ deployment' \in [owner : Users \cup {None}, service : BOOLEAN]
BY DEF world, Inv, TypeInv

LEMMA Going ==
  ASSUME Inv, NEW p, Goto(p)
  PROVE  cli' = [cli EXCEPT !.pc = p, !.live = cli.live, !.todo = cli.todo]
BY DEF Goto, Inv, TypeInv

(* Finished, of a command at p *)
PastRoles(p) ==
  \/ Verb("run") /\ p \in {"reset", "stop_exec", "list_jobs", "stop_job", "launch", "done"}
  \/ Verb("down") /\ p \in {"deployment", "service", "done"}

LEMMA GoesOn ==
  ASSUME Inv, NEW p \in Places \ {"idle"}, cli.pc # "idle", Goto(p),
         UNCHANGED <<clusters, dra, deployment, rayjob>>,
         procs' \in [Roles -> Seq(Job)],
         PastRoles(p) <=> PastRoles(cli.pc), Entitled(p), HasRead(p, cli.live)
  PROVE  Inv'
<1>1. cli' = [cli EXCEPT !.pc = p, !.live = cli.live, !.todo = cli.todo] BY Going
<1>2. cli'.pc = p /\ cli'.cmd = cli.cmd BY DEF Goto, Inv, TypeInv
<1>3. Finished' = Finished BY <1>2 DEF Finished, PastRoles, Verb
<1>4. cli.live \in Cluster /\ cli.todo \in SUBSET Nat BY DEF Inv, TypeInv
<1> QED BY <1>1, <1>3, <1>4, GotoKeeps

LEMMA CheckCollisionKeeps == ASSUME Inv, CheckCollision PROVE Inv'
<1> DEFINE p == CASE cli.cmd.verb = "up" -> "dra"
                  [] Has("replace") -> "first_reset"
                  [] ~Has("replace") /\ HasDeployment -> "deployment"
                  [] OTHER -> "get"
<1>1. At({"run", "up"}, "collision") /\ UNCHANGED world BY DEF CheckCollision
<1>2. /\ cli.pc = "collision" /\ cli.cmd.verb \in {"run", "up"}
      /\ \A v : Verb(v) <=> cli.cmd.verb = v
  BY <1>1, AtFacts
<1>3. CASE Exit BY <1>1, <1>3, Pure, ExitKeeps
<1>4. CASE /\ Goto(p)
           /\ ~(rayjob # None /\ (cli.cmd.verb = "run" \/ Role = "training"))
  <2>1. /\ p \in {"dra", "first_reset", "deployment", "get"}
        /\ p = "dra" => cli.cmd.verb = "up"
        /\ p = "first_reset" => Has("replace")
        /\ p = "deployment" => HasDeployment /\ cli.cmd.verb # "down"
    BY <1>2
  <2> HIDE DEF p
  <2>2. Entitled(p) /\ HasRead(p, cli.live) /\ (PastRoles(p) <=> PastRoles(cli.pc))
    BY <1>2, <1>4, <2>1 DEF Entitled, EntitledTo, HasRead, AtRole, PastRoles
  <2>3. p \in Places \ {"idle"} BY <2>1 DEF Places, AtRole
  <2> QED BY <1>1, <1>2, <1>4, <2>2, <2>3, Pure, GoesOn
<1> QED BY <1>3, <1>4 DEF CheckCollision

LEMMA ResetEndpointRegistryKeeps == ASSUME Inv, ResetEndpointRegistry PROVE Inv'
<1>1. /\ UNCHANGED <<clusters, dra, deployment, rayjob>> /\ procs' \in [Roles -> Seq(Job)]
  BY DEF ResetEndpointRegistry, Inv, TypeInv
<1>2. CASE At({"run"}, "first_reset")
  <2>1. /\ cli.pc = "first_reset" /\ cli.cmd.verb = "run" /\ \A v : Verb(v) <=> v = "run"
    BY <1>2, AtFacts
  <2>2. PICK p \in {"deployment", "get"} : Goto(p) /\ (p = "deployment" => HasDeployment)
    BY <2>1 DEF ResetEndpointRegistry, At
  <2>3. Entitled(p) /\ HasRead(p, cli.live) /\ (PastRoles(p) <=> PastRoles(cli.pc))
    BY <2>1, <2>2 DEF Entitled, EntitledTo, HasRead, AtRole, PastRoles, Inv, RayjobAlone
  <2>4. p \in Places \ {"idle"} BY DEF Places
  <2> QED BY <1>1, <2>1, <2>2, <2>3, <2>4, GoesOn
<1>3. CASE At({"run"}, "reset")
  <2>1. /\ cli.pc = "reset" /\ cli.cmd.verb = "run" /\ \A v : Verb(v) <=> v = "run"
    BY <1>3, AtFacts
  <2>2. PICK p \in {"launch", "stop_exec", "list_jobs"} : Goto(p) /\ (p # "launch" => Has("replace"))
    BY <2>1 DEF ResetEndpointRegistry, At
  <2>3. Entitled(p) /\ HasRead(p, cli.live) /\ (PastRoles(p) <=> PastRoles(cli.pc))
    BY <2>1, <2>2 DEF Entitled, EntitledTo, HasRead, AtRole, PastRoles, Inv, RayjobAlone
  <2>4. p \in Places \ {"idle"} BY DEF Places
  <2> QED BY <1>1, <2>1, <2>2, <2>3, <2>4, GoesOn
<1> QED BY <1>2, <1>3 DEF ResetEndpointRegistry

(* ensure_cluster: what was read of one's own cluster *)
LEMMA EnsureClusterKeeps == ASSUME Inv, EnsureCluster PROVE Inv'
<1>1. At({"run"}, "get") /\ UNCHANGED world BY DEF EnsureCluster
<1>2. /\ cli.pc = "get" /\ cli.cmd.verb = "run" /\ \A v : Verb(v) <=> v = "run"
      /\ Role \in Roles /\ cli.todo \in SUBSET Nat
      /\ cli \in [cmd : Commands \cup {None}, pc : Places, at : DOMAIN RoleOrder,
                  live : Cluster, todo : SUBSET Nat]
  BY <1>1, AtFacts
<1>3. CASE Exit BY <1>1, <1>3, Pure, ExitKeeps
<1>4. CASE /\ ~(Exists(Role) /\ clusters[Role].owner # Me)
           /\ cli' = [cli EXCEPT !.pc = "dra", !.live = clusters[Role]]
  <2>1. Entitled("dra") /\ HasRead("dra", clusters[Role])
    BY <1>2, <1>4 DEF Entitled, EntitledTo, HasRead, AtRole, Own, Exists, Inv, RayjobAlone
  <2>2. clusters[Role] \in Cluster BY <1>2 DEF Inv, TypeInv
  <2>3. cli' = [cli EXCEPT !.pc = "dra", !.live = clusters[Role], !.todo = cli.todo]
    BY <1>2, <1>4
  <2>4. Finished' = Finished BY <1>2, <1>4 DEF Finished, Verb
  <2>5. "dra" \in Places \ {"idle"} BY DEF Places, AtRole
  <2> QED BY <1>1, <1>2, <2>1, <2>2, <2>3, <2>4, <2>5, Pure, GotoKeeps
<1> QED BY <1>3, <1>4 DEF EnsureCluster

LEMMA WaitForRayclusterGoneKeeps == ASSUME Inv, WaitForRayclusterGone PROVE Inv'
<1>1. At({"run", "down"}, "gone") /\ UNCHANGED world BY DEF WaitForRayclusterGone
<1>2. /\ cli.pc = "gone" /\ cli.cmd.verb \in {"run", "down"}
      /\ \A v : Verb(v) <=> cli.cmd.verb = v
  BY <1>1, AtFacts
<1>3. CASE Exit BY <1>1, <1>3, Pure, ExitKeeps
<1>4. CASE /\ ~Exists(Role)
           /\ Goto(IF cli.cmd.verb = "run" THEN "apply" ELSE "delete_dra")
  <2>1. PICK p \in {"apply", "delete_dra"} :
          Goto(p) /\ p = IF cli.cmd.verb = "run" THEN "apply" ELSE "delete_dra"
    BY <1>4
  <2>2. Entitled(p) /\ HasRead(p, cli.live) /\ (PastRoles(p) <=> PastRoles(cli.pc))
    BY <1>2, <1>4, <2>1 DEF Entitled, EntitledTo, HasRead, AtRole, PastRoles, Own, Clean, Live, Inv,
         RayjobAlone, DraFirst
  <2>3. p \in Places \ {"idle"} BY <2>1 DEF Places, AtRole
  <2> QED BY <1>1, <1>2, <2>1, <2>2, <2>3, Pure, GoesOn
<1> QED BY <1>3, <1>4 DEF WaitForRayclusterGone

LEMMA WaitForRayclusterReadyKeeps == ASSUME Inv, WaitForRayclusterReady PROVE Inv'
<1>1. At({"run", "up"}, "ready") /\ UNCHANGED world BY DEF WaitForRayclusterReady
<1>2. /\ cli.pc = "ready" /\ cli.cmd.verb \in {"run", "up"}
      /\ \A v : Verb(v) <=> cli.cmd.verb = v
  BY <1>1, AtFacts
<1>3. CASE Exit BY <1>1, <1>3, Pure, ExitKeeps
<1>4. CASE Goto("daemon")
  <2>1. /\ Entitled("daemon") /\ HasRead("daemon", cli.live)
        /\ PastRoles("daemon") <=> PastRoles(cli.pc)
    BY <1>2 DEF Entitled, EntitledTo, HasRead, AtRole, PastRoles, Inv, RayjobAlone, RunsOwn
  <2>2. "daemon" \in Places \ {"idle"} BY DEF Places, AtRole
  <2> QED BY <1>1, <1>2, <1>4, <2>1, <2>2, Pure, GoesOn
<1> QED BY <1>3, <1>4 DEF WaitForRayclusterReady

LEMMA WaitJobStoppedKeeps == ASSUME Inv, WaitJobStopped PROVE Inv'
<1>1. At({"run", "up"}, "stopped") /\ UNCHANGED world /\ Goto("submit") BY DEF WaitJobStopped
<1>2. /\ cli.pc = "stopped" /\ cli.cmd.verb \in {"run", "up"}
      /\ \A v : Verb(v) <=> cli.cmd.verb = v
  BY <1>1, AtFacts
<1>3. /\ Entitled("submit") /\ HasRead("submit", cli.live)
      /\ PastRoles("submit") <=> PastRoles(cli.pc)
  BY <1>2 DEF Entitled, EntitledTo, HasRead, AtRole, PastRoles, Inv, RayjobAlone, RunsOwn
<1>4. "submit" \in Places \ {"idle"} BY DEF Places, AtRole
<1> QED BY <1>1, <1>2, <1>3, <1>4, Pure, GoesOn

(* On to the next role *)
LEMMA NextRoleFacts ==
  ASSUME Inv, cli.pc # "idle", cli.cmd.verb \in {"run", "up", "down"}, ~Finished, NextRole
  PROVE  /\ cli' \in [cmd : Commands \cup {None}, pc : Places, at : DOMAIN RoleOrder,
                      live : Cluster, todo : SUBSET Nat]
         /\ cli'.cmd = cli.cmd /\ cli'.pc # "idle" /\ cli.cmd \in Commands
         /\ Verb("run") => cli'.pc \in {"get", "reset"} /\ Visited' = Visited \cup {Role}
         /\ Verb("up") => \/ cli'.pc = "collision"
                          \/ cli'.pc \in {"deployment", "done"} /\ Role' = Role
         /\ Verb("down") => /\ cli'.pc \in {"delete", "deployment", "done"}
                            /\ Visited' = Visited \cup {Role}
         /\ cli'.pc = "deployment" => HasDeployment
         /\ cli'.pc = "done" => ~HasDeployment
         /\ Verb("run")' = Verb("run") /\ Verb("up")' = Verb("up")
         /\ Verb("down")' = Verb("down") /\ Verb("rayjob")' = Verb("rayjob")
         /\ Me' = Me /\ \A opt \in Options : Has(opt)' = Has(opt)
<1>1. /\ cli \in [cmd : Commands \cup {None}, pc : Places, at : DOMAIN RoleOrder,
                  live : Cluster, todo : SUBSET Nat]
      /\ cli.cmd \in Commands
  BY DEF Inv, TypeInv
<1>2. /\ Len(RoleOrder) \in Nat /\ DOMAIN RoleOrder = 1 .. Len(RoleOrder)
      /\ cli.at \in DOMAIN RoleOrder /\ cli.at \in Nat
  BY <1>1, Constants
<1>3. CASE cli.at < Len(RoleOrder)
  <2>1. cli' = [cli EXCEPT !.at = cli.at + 1, !.pc = FirstStep(cli.cmd.verb)]
    BY <1>3 DEF NextRole
  <2>2. /\ cli.cmd.verb = "run" => FirstStep(cli.cmd.verb) = "get"
        /\ cli.cmd.verb = "up" => FirstStep(cli.cmd.verb) = "collision"
        /\ cli.cmd.verb = "down" => FirstStep(cli.cmd.verb) = "delete"
    BY DEF FirstStep
  <2>3. /\ cli'.cmd = cli.cmd /\ cli'.at = cli.at + 1 /\ cli'.live = cli.live
        /\ cli'.pc = FirstStep(cli.cmd.verb) /\ cli'.todo = cli.todo
    BY <1>1, <2>1
  <2>4. FirstStep(cli.cmd.verb) \in {"get", "collision", "delete"} BY <2>2
  <2>5. FirstStep(cli.cmd.verb) \in Places /\ FirstStep(cli.cmd.verb) # "idle"
    BY <2>4 DEF Places, AtRole
  <2>6. cli.at + 1 \in DOMAIN RoleOrder BY <1>2, <1>3
  <2>7. cli' \in [cmd : Commands \cup {None}, pc : Places, at : DOMAIN RoleOrder,
                  live : Cluster, todo : SUBSET Nat]
    BY <1>1, <2>1, <2>5, <2>6
  <2>8. ~Finished' BY <2>3, <2>4 DEF Finished, Verb
  <2>9. Visited' = Visited \cup {Role}
    <3>1. {k \in DOMAIN RoleOrder : k < cli.at + 1} = {k \in DOMAIN RoleOrder : k < cli.at} \cup {cli.at}
      BY <1>2
    <3>2. Visited = {RoleOrder[i] : i \in {k \in DOMAIN RoleOrder : k < cli.at}} BY DEF Visited
    <3>3. Visited' = {RoleOrder[i] : i \in {k \in DOMAIN RoleOrder : k < cli.at + 1}}
      BY <2>3, <2>8 DEF Visited
    <3> QED BY <3>1, <3>2, <3>3 DEF Role
  <2>10. /\ Verb("run")' = Verb("run") /\ Verb("up")' = Verb("up")
         /\ Verb("down")' = Verb("down") /\ Verb("rayjob")' = Verb("rayjob")
         /\ Me' = Me /\ \A opt \in Options : Has(opt)' = Has(opt)
    BY <2>3, <2>5 DEF Verb, Me, Has
  <2>11. /\ Verb("run") => cli'.pc = "get"
         /\ Verb("up") => cli'.pc = "collision"
         /\ Verb("down") => cli'.pc = "delete"
         /\ cli'.pc # "deployment" /\ cli'.pc # "done" /\ cli'.pc # "idle"
    BY <2>2, <2>3, <2>4 DEF Verb
  <2>12. Verb("run") => cli'.pc \in {"get", "reset"} /\ Visited' = Visited \cup {Role}
    BY <2>9, <2>11
  <2>13. Verb("up") => \/ cli'.pc = "collision"
                       \/ cli'.pc \in {"deployment", "done"} /\ Role' = Role
    BY <2>11
  <2>14. Verb("down") => /\ cli'.pc \in {"delete", "deployment", "done"}
                         /\ Visited' = Visited \cup {Role}
    BY <2>9, <2>11
  <2>15. cli'.pc # "idle" /\ cli'.pc # "deployment" /\ cli'.pc # "done" BY <2>11
  <2> QED BY <1>1, <2>3, <2>7, <2>10, <2>12, <2>13, <2>14, <2>15
<1>4. CASE cli.at = Len(RoleOrder)
  <2>1. cli' = [cli EXCEPT !.pc = AfterRoles(cli.cmd.verb)]
    BY <1>4 DEF NextRole
  <2>2. /\ cli.cmd.verb = "run" => AfterRoles(cli.cmd.verb) = "reset"
        /\ cli.cmd.verb # "run" /\ HasDeployment => AfterRoles(cli.cmd.verb) = "deployment"
        /\ cli.cmd.verb # "run" /\ ~HasDeployment => AfterRoles(cli.cmd.verb) = "done"
    BY DEF AfterRoles
  <2>3. /\ cli'.cmd = cli.cmd /\ cli'.at = cli.at /\ cli'.live = cli.live
        /\ cli'.pc = AfterRoles(cli.cmd.verb) /\ cli'.todo = cli.todo
    BY <1>1, <2>1
  <2>4. AfterRoles(cli.cmd.verb) \in {"reset", "deployment", "done"} BY <2>2
  <2>5. AfterRoles(cli.cmd.verb) \in Places /\ AfterRoles(cli.cmd.verb) # "idle"
    BY <2>4 DEF Places
  <2>6. cli' \in [cmd : Commands \cup {None}, pc : Places, at : DOMAIN RoleOrder,
                  live : Cluster, todo : SUBSET Nat]
    BY <1>1, <2>1, <2>5
  <2>7. /\ Verb("run")' = Verb("run") /\ Verb("up")' = Verb("up")
        /\ Verb("down")' = Verb("down") /\ Verb("rayjob")' = Verb("rayjob")
        /\ Me' = Me /\ \A opt \in Options : Has(opt)' = Has(opt)
    BY <2>3, <2>5 DEF Verb, Me, Has
  <2>8. Verb("run") \/ Verb("down") => Finished' BY <2>2, <2>3, <2>7 DEF Finished, Verb
  <2>9. Verb("run") \/ Verb("down") => Visited' = Visited \cup {Role}
    <3>1. DOMAIN RoleOrder = {k \in DOMAIN RoleOrder : k < cli.at} \cup {cli.at}
      BY <1>2, <1>4
    <3>2. Visited = {RoleOrder[i] : i \in {k \in DOMAIN RoleOrder : k < cli.at}} BY DEF Visited
    <3>3. Verb("run") \/ Verb("down") => Visited' = {RoleOrder[i] : i \in DOMAIN RoleOrder}
      BY <2>8 DEF Visited
    <3> QED BY <3>1, <3>2, <3>3 DEF Role
  <2>10. Role' = Role BY <2>3 DEF Role
  <2> QED BY <1>1, <2>2, <2>3, <2>4, <2>5, <2>6, <2>7, <2>9, <2>10 DEF Verb
<1> QED BY <1>2, <1>3, <1>4

LEMMA NextRoleKeeps ==
  ASSUME Inv, cli.cmd.verb \in {"run", "up"}, cli.pc \in AtRole, NextRole,
         UNCHANGED <<clusters, dra, deployment, rayjob>>,
         procs' \in [Roles -> Seq(Job)]
  PROVE  Inv'
<1> USE DEF Inv
<1>1. cli.pc # "idle" /\ ~Finished /\ cli.pc # "collision" BY DEF AtRole, Finished, Verb
<1>2. /\ cli' \in [cmd : Commands \cup {None}, pc : Places, at : DOMAIN RoleOrder,
                   live : Cluster, todo : SUBSET Nat]
      /\ cli'.cmd = cli.cmd /\ cli'.pc # "idle" /\ cli.cmd \in Commands
      /\ Verb("run") => cli'.pc \in {"get", "reset"} /\ Visited' = Visited \cup {Role}
      /\ Verb("up") => \/ cli'.pc = "collision"
                       \/ cli'.pc \in {"deployment", "done"} /\ Role' = Role
      /\ cli'.pc = "deployment" => HasDeployment
      /\ Verb("run")' = Verb("run") /\ Verb("up")' = Verb("up")
      /\ Verb("down")' = Verb("down") /\ Verb("rayjob")' = Verb("rayjob")
      /\ Me' = Me
  BY <1>1, NextRoleFacts
<1>3. Verb("run") \/ Verb("up") BY <1>1 DEF Verb
<1>4. ~Verb("down") /\ ~Verb("rayjob") BY DEF Verb
<1>5. /\ \A r : Exists(r)' = Exists(r) /\ Live(r)' = Live(r)
      /\ Exists("training")' = Exists("training")
  BY DEF Exists, Live
<1>6. TypeInv' BY <1>2 DEF TypeInv
<1>7. RayjobAlone' BY <1>1, <1>2, <1>3, <1>4, <1>5 DEF RayjobAlone
<1>8. DraFirst' BY <1>2, <1>3, <1>4, <1>5 DEF DraFirst
<1>9. DownClears' BY <1>2, <1>3, <1>4 DEF DownClears
<1>10. RunsOwn'
  <2>1. \A r : Own(r)' = Own(r) BY <1>2 DEF Own, Exists
  <2> QED BY <1>2, <2>1 DEF RunsOwn, AtRole
<1> QED BY <1>6, <1>7, <1>8, <1>9, <1>10

LEMMA StartedTyped ==
  ASSUME TypeInv, NEW r \in Roles, NEW kind \in JobKinds, NEW status \in Statuses
  PROVE  Started(r, kind, status) \in [Roles -> Seq(Job)]
<1>1. procs \in [Roles -> Seq(Job)] BY DEF TypeInv
<1>2. [kind |-> kind, status |-> status] \in Job BY DEF Job
<1>3. Append(procs[r], [kind |-> kind, status |-> status]) \in Seq(Job) BY <1>1, <1>2
<1> QED BY <1>1, <1>3 DEF Started

LEMMA ExistingIsJob == \A r : Existing(r) # None => Existing(r) \in Jobs(r)
BY DEF Existing

LEMMA CheckDaemonKeeps == ASSUME Inv, CheckDaemon PROVE Inv'
<1>1. /\ At({"run", "up"}, "daemon") /\ UNCHANGED <<clusters, dra, deployment, rayjob>>
  BY DEF CheckDaemon
<1>2. /\ cli.pc = "daemon" /\ cli.cmd.verb \in {"run", "up"} /\ Role \in Roles
      /\ cli.pc # "idle" /\ \A v : Verb(v) <=> cli.cmd.verb = v
  BY <1>1, AtFacts
<1>3. procs' \in [Roles -> Seq(Job)]
  <2>1. procs \in [Roles -> Seq(Job)] BY DEF Inv, TypeInv
  <2>2. \/ procs' = procs
        \/ /\ Existing(Role) # None
           /\ procs' = WithStatus(Role, Existing(Role), "STOPPING")
    BY DEF CheckDaemon
  <2>3. ASSUME Existing(Role) # None
        PROVE  WithStatus(Role, Existing(Role), "STOPPING") \in [Roles -> Seq(Job)]
    BY <1>2, <2>3, StatusTyped, ExistingIsJob DEF Inv, Statuses
  <2> QED BY <2>1, <2>2, <2>3
<1>4. NextRole \/ Exit \/ Goto("submit") \/ Goto("stopped") BY DEF CheckDaemon
<1>5. CASE NextRole BY <1>1, <1>2, <1>3, <1>5, NextRoleKeeps DEF AtRole
<1>6. CASE Exit BY <1>1, <1>3, <1>6, ExitKeeps DEF Inv, TypeInv
<1>7. CASE Goto("submit") \/ Goto("stopped")
  <2>1. PICK p \in {"submit", "stopped"} : Goto(p) BY <1>7
  <2>2. /\ Entitled(p) /\ HasRead(p, cli.live) /\ (PastRoles(p) <=> PastRoles(cli.pc))
    BY <1>2 DEF Entitled, EntitledTo, HasRead, AtRole, PastRoles, Inv, RayjobAlone, RunsOwn
  <2>3. p \in Places \ {"idle"} BY DEF Places, AtRole
  <2> QED BY <1>1, <1>2, <1>3, <2>1, <2>2, <2>3, GoesOn
<1> QED BY <1>4, <1>5, <1>6, <1>7

LEMMA SubmitDaemonKeeps == ASSUME Inv, SubmitDaemon PROVE Inv'
<1>1. /\ At({"run", "up"}, "submit") /\ UNCHANGED <<clusters, dra, deployment, rayjob>>
  BY DEF SubmitDaemon
<1>2. /\ cli.pc = "submit" /\ cli.cmd.verb \in {"run", "up"} /\ Role \in Roles
      /\ cli.pc # "idle" /\ \A v : Verb(v) <=> cli.cmd.verb = v
  BY <1>1, AtFacts
<1>3. procs' \in [Roles -> Seq(Job)]
  <2>1. procs \in [Roles -> Seq(Job)] BY DEF Inv, TypeInv
  <2>2. \/ procs' = procs
        \/ \E kind \in {"daemon", "fresh"} : procs' = Started(Role, kind, "PENDING")
    BY DEF SubmitDaemon
  <2>3. "daemon" \in JobKinds /\ "fresh" \in JobKinds /\ "PENDING" \in Statuses
    BY DEF JobKinds, Statuses
  <2> QED BY <1>2, <2>1, <2>2, <2>3, StartedTyped DEF Inv
<1>4. Exit \/ Goto("health") BY DEF SubmitDaemon
<1>5. CASE Exit BY <1>1, <1>3, <1>5, ExitKeeps DEF Inv, TypeInv
<1>6. CASE Goto("health")
  <2>1. /\ Entitled("health") /\ HasRead("health", cli.live)
        /\ PastRoles("health") <=> PastRoles(cli.pc)
    BY <1>2 DEF Entitled, EntitledTo, HasRead, AtRole, PastRoles, Inv, RayjobAlone, RunsOwn
  <2>2. "health" \in Places \ {"idle"} BY DEF Places, AtRole
  <2> QED BY <1>1, <1>2, <1>3, <1>6, <2>1, <2>2, GoesOn
<1> QED BY <1>4, <1>5, <1>6

LEMMA WaitForHealthKeeps == ASSUME Inv, WaitForHealth PROVE Inv'
<1>1. At({"run", "up"}, "health") /\ UNCHANGED world BY DEF WaitForHealth
<1>2. cli.pc = "health" /\ cli.cmd.verb \in {"run", "up"} BY <1>1, AtFacts
<1>3. CASE Exit BY <1>1, <1>3, Pure, ExitKeeps
<1>4. CASE NextRole BY <1>1, <1>2, <1>4, Pure, NextRoleKeeps DEF AtRole
<1> QED BY <1>3, <1>4 DEF WaitForHealth

(* submit_training *)
LEMMA StopAllRunningKeeps == ASSUME Inv, StopAllRunning PROVE Inv'
<1>1. /\ At({"run"}, "stop_exec") /\ UNCHANGED <<clusters, dra, deployment, rayjob>>
  BY DEF StopAllRunning
<1>2. /\ cli.pc = "stop_exec" /\ cli.pc # "idle" /\ \A v : Verb(v) <=> v = "run"
  BY <1>1, AtFacts
<1>3. procs' \in [Roles -> Seq(Job)]
  <2>1. procs \in [Roles -> Seq(Job)] /\ procs["training"] \in Seq(Job)
    BY Constants DEF Inv, TypeInv
  <2> DEFINE stopped == [j \in DOMAIN procs["training"] |->
               IF procs["training"][j].kind = "exec" /\ procs["training"][j].status = "RUNNING"
                 THEN [procs["training"][j] EXCEPT !.status = "STOPPING"]
                 ELSE procs["training"][j]]
  <2>2. \/ procs' = procs
        \/ procs' = [procs EXCEPT !["training"] = stopped]
    BY DEF StopAllRunning
  <2>3. \A j \in DOMAIN procs["training"] :
          [procs["training"][j] EXCEPT !.status = "STOPPING"] \in Job
    <3>1. SUFFICES ASSUME NEW j \in DOMAIN procs["training"]
                   PROVE  [procs["training"][j] EXCEPT !.status = "STOPPING"] \in Job
      OBVIOUS
    <3>2. procs["training"][j] \in Job BY <2>1
    <3> QED BY <3>2 DEF Job, Statuses
  <2>4. stopped \in Seq(Job)
    <3>1. DOMAIN procs["training"] = 1 .. Len(procs["training"]) BY <2>1
    <3>2. Len(procs["training"]) \in Nat BY <2>1
    <3>3. \A j \in 1 .. Len(procs["training"]) : procs["training"][j] \in Job BY <2>1
    <3>4. stopped \in [1 .. Len(procs["training"]) -> Job] BY <2>3, <3>1, <3>3
    <3> HIDE DEF stopped
    <3> QED BY <3>2, <3>4
  <2> QED BY <2>1, <2>2, <2>4
<1>4. CASE Exit BY <1>1, <1>3, <1>4, ExitKeeps DEF Inv, TypeInv
<1>5. CASE Goto("list_jobs")
  <2>1. /\ Entitled("list_jobs") /\ HasRead("list_jobs", cli.live)
        /\ PastRoles("list_jobs") <=> PastRoles(cli.pc)
    BY <1>2 DEF Entitled, EntitledTo, HasRead, AtRole, PastRoles, Inv, RayjobAlone, RunsOwn
  <2>2. "list_jobs" \in Places \ {"idle"} BY DEF Places
  <2> QED BY <1>1, <1>2, <1>3, <1>5, <2>1, <2>2, GoesOn
<1> QED BY <1>4, <1>5 DEF StopAllRunning

LEMMA ListJobsKeeps == ASSUME Inv, ListJobs PROVE Inv'
<1>1. At({"run"}, "list_jobs") /\ UNCHANGED world BY DEF ListJobs
<1>2. /\ cli.pc = "list_jobs" /\ cli.pc # "idle" /\ \A v : Verb(v) <=> v = "run"
      /\ cli.live \in Cluster
      /\ cli \in [cmd : Commands \cup {None}, pc : Places, at : DOMAIN RoleOrder,
                  live : Cluster, todo : SUBSET Nat]
  BY <1>1, AtFacts
<1>3. CASE Exit BY <1>1, <1>3, Pure, ExitKeeps
<1>4. CASE ~Exit
  <2>1. PICK todo \in SUBSET Jobs("training") :
          cli' = [cli EXCEPT !.pc = "stop_job", !.todo = todo]
    BY <1>4 DEF ListJobs
  <2>2. todo \in SUBSET Nat
    <3>1. procs["training"] \in Seq(Job) BY Constants DEF Inv, TypeInv
    <3>2. Jobs("training") \subseteq Nat BY <3>1 DEF Jobs
    <3> QED BY <2>1, <3>2
  <2>3. cli' = [cli EXCEPT !.pc = "stop_job", !.live = cli.live, !.todo = todo]
    BY <1>2, <2>1
  <2>4. /\ Entitled("stop_job") /\ HasRead("stop_job", cli.live)
    BY <1>2 DEF Entitled, EntitledTo, HasRead, AtRole, PastRoles, Inv, RayjobAlone, RunsOwn
  <2>5. cli'.pc = "stop_job" /\ cli'.cmd = cli.cmd BY <1>2, <2>1
  <2>6. Finished' = Finished BY <1>2, <2>5 DEF Finished, Verb
  <2>7. "stop_job" \in Places \ {"idle"} BY DEF Places
  <2> QED BY <1>1, <1>2, <2>2, <2>3, <2>4, <2>6, <2>7, Pure, GotoKeeps
<1> QED BY <1>3, <1>4

LEMMA StopJobKeeps == ASSUME Inv, StopJob PROVE Inv'
<1>1. /\ At({"run"}, "stop_job") /\ UNCHANGED <<clusters, dra, deployment, rayjob>>
  BY DEF StopJob
<1>2. /\ cli.pc = "stop_job" /\ cli.pc # "idle" /\ \A v : Verb(v) <=> v = "run"
      /\ cli.live \in Cluster /\ cli.todo \in SUBSET Nat
      /\ cli \in [cmd : Commands \cup {None}, pc : Places, at : DOMAIN RoleOrder,
                  live : Cluster, todo : SUBSET Nat]
  BY <1>1, AtFacts
<1>3. CASE Goto("launch") /\ UNCHANGED procs
  <2>1. /\ Entitled("launch") /\ HasRead("launch", cli.live)
        /\ PastRoles("launch") <=> PastRoles(cli.pc)
    BY <1>2 DEF Entitled, EntitledTo, HasRead, AtRole, PastRoles, Inv, RayjobAlone, RunsOwn
  <2>2. "launch" \in Places \ {"idle"} BY DEF Places
  <2>3. procs' \in [Roles -> Seq(Job)] BY <1>3 DEF Inv, TypeInv
  <2> QED BY <1>1, <1>2, <1>3, <2>1, <2>2, <2>3, GoesOn
<1>4. CASE cli.todo # {}
  <2>1. PICK j \in cli.todo :
          /\ cli' = [cli EXCEPT !.todo = @ \ {j}]
          /\ \/ procs' = procs
             \/ j \in Jobs("training") /\ procs' = WithStatus("training", j, "STOPPING")
    BY <1>4 DEF StopJob
  <2>2. procs' \in [Roles -> Seq(Job)]
    BY <2>1, StatusTyped, Constants DEF Inv, TypeInv, Statuses
  <2>3. cli' = [cli EXCEPT !.pc = "stop_job", !.live = cli.live, !.todo = cli.todo \ {j}]
    BY <1>2, <2>1
  <2>4. cli.todo \ {j} \in SUBSET Nat BY <1>2
  <2>5. /\ Entitled("stop_job") /\ HasRead("stop_job", cli.live)
    BY <1>2 DEF Entitled, EntitledTo, HasRead, AtRole, PastRoles, Inv, RayjobAlone, RunsOwn
  <2>6. Finished' = Finished BY <1>2, <2>1 DEF Finished, Verb
  <2>7. "stop_job" \in Places \ {"idle"} BY DEF Places
  <2> QED BY <1>1, <1>2, <2>2, <2>3, <2>4, <2>5, <2>6, <2>7, GotoKeeps
<1> QED BY <1>3, <1>4 DEF StopJob

LEMMA LaunchKeeps == ASSUME Inv, Launch PROVE Inv'
<1>1. /\ At({"run"}, "launch") /\ UNCHANGED <<clusters, dra, deployment, rayjob>>
  BY DEF Launch
<1>2. /\ cli.pc = "launch" /\ cli.pc # "idle" /\ \A v : Verb(v) <=> v = "run"
  BY <1>1, AtFacts
<1>3. procs' \in [Roles -> Seq(Job)]
  <2>1. procs \in [Roles -> Seq(Job)] BY DEF Inv, TypeInv
  <2>2. \/ procs' = procs
        \/ procs' = Started("training", "exec", "RUNNING")
        \/ procs' = Started("training", "ray", "PENDING")
    BY DEF Launch
  <2>3. {"exec", "ray"} \subseteq JobKinds /\ {"RUNNING", "PENDING"} \subseteq Statuses
    BY DEF JobKinds, Statuses
  <2>4. /\ Started("training", "exec", "RUNNING") \in [Roles -> Seq(Job)]
        /\ Started("training", "ray", "PENDING") \in [Roles -> Seq(Job)]
    BY <2>3, StartedTyped, Constants DEF Inv
  <2> QED BY <2>1, <2>2, <2>4
<1>4. CASE Exit BY <1>1, <1>3, <1>4, ExitKeeps DEF Inv, TypeInv
<1>5. CASE Goto("done")
  <2>1. /\ Entitled("done") /\ HasRead("done", cli.live)
        /\ PastRoles("done") <=> PastRoles(cli.pc)
    BY <1>2 DEF Entitled, EntitledTo, HasRead, AtRole, PastRoles, Inv, RayjobAlone, RunsOwn
  <2>2. "done" \in Places \ {"idle"} BY DEF Places
  <2> QED BY <1>1, <1>2, <1>3, <1>5, <2>1, <2>2, GoesOn
<1> QED BY <1>4, <1>5 DEF Launch

(* Beginnings and ends *)
LEMMA EndKeeps == ASSUME Inv, Done \/ Interrupt PROVE Inv'
<1>1. Exit /\ UNCHANGED world BY DEF Done, Interrupt, Exit
<1> QED BY <1>1, Pure, ExitKeeps

LEMMA TypeKeeps == ASSUME Inv, Type PROVE Inv'
<1> USE DEF Inv
<1>1. UNCHANGED <<clusters, dra, deployment, rayjob, procs>> BY DEF Type, world
<1> DEFINE at(c) == IF c.verb = "rayjob"
                      THEN CHOOSE i \in DOMAIN RoleOrder : RoleOrder[i] = "training" ELSE 1
           pc(c) == IF c.verb \in {"run", "rayjob"} THEN "collision" ELSE FirstStep(c.verb)
<1>2. PICK c \in Commands : cli' = [Shell EXCEPT !.cmd = c, !.at = at(c), !.pc = pc(c)]
  BY DEF Type
<1>3. c.verb \in {"run", "up", "down", "rayjob"} BY Constants DEF Verbs
<1>4. /\ pc(c) \in {"collision", "delete"} /\ (pc(c) = "delete" => c.verb = "down")
      /\ c.verb = "down" => pc(c) = "delete"
  BY <1>3 DEF FirstStep
<1>5. /\ at(c) \in DOMAIN RoleOrder /\ (c.verb # "rayjob" => at(c) = 1)
      /\ c.verb = "rayjob" => RoleOrder[at(c)] = "training"
  <2>1. PICK i \in DOMAIN RoleOrder : RoleOrder[i] = "training"
    BY Constants DEF Roles, Range
  <2> QED BY <2>1, Constants
<1> HIDE DEF at, pc
<1>6. /\ cli'.cmd = c /\ cli'.pc = pc(c) /\ cli'.at = at(c) /\ cli'.pc # "idle"
      /\ cli' \in [cmd : Commands \cup {None}, pc : Places, at : DOMAIN RoleOrder,
                   live : Cluster, todo : SUBSET Nat]
  <2>1. pc(c) \in Places BY <1>4 DEF Places, AtRole
  <2>2. cli' = [cmd |-> c, pc |-> pc(c), at |-> at(c), live |-> Absent, todo |-> {}]
    BY <1>2 DEF Shell
  <2> QED BY <1>4, <1>5, <2>1, <2>2, AbsentTyped
<1>7. \A v : Verb(v)' <=> c.verb = v BY <1>6 DEF Verb
<1>8. /\ Verb("run")' <=> c.verb = "run"
      /\ Verb("up")' <=> c.verb = "up"
      /\ Verb("down")' <=> c.verb = "down"
      /\ Verb("rayjob")' <=> c.verb = "rayjob"
  BY <1>6 DEF Verb
<1>9. Verb("run")' \/ Verb("down")' => Visited' = {}
  <2>1. ~Finished' BY <1>4, <1>6 DEF Finished
  <2>2. c.verb = "run" \/ c.verb = "down" => cli'.at = 1 BY <1>5, <1>6
  <2>3. \A k \in DOMAIN RoleOrder : ~(k < 1) BY Constants
  <2> QED BY <1>8, <2>1, <2>2, <2>3 DEF Visited
<1>10. TypeInv' BY <1>1, <1>6 DEF TypeInv
<1>11. RayjobAlone'
  <2>1. Exists("training")' = Exists("training") BY <1>1 DEF Exists
  <2>2. Verb("rayjob")' => Role' = "training" BY <1>5, <1>6, <1>8 DEF Role
  <2> QED BY <1>1, <1>4, <1>6, <1>8, <2>1, <2>2 DEF RayjobAlone
<1>12. DraFirst'
  <2>1. \A r : Live(r)' = Live(r) BY <1>1 DEF Live, Exists
  <2> QED BY <1>1, <1>4, <1>6, <1>8, <2>1 DEF DraFirst
<1>13. DownClears' BY <1>1, <1>4, <1>6, <1>8, <1>9 DEF DownClears
<1>14. RunsOwn' BY <1>4, <1>6, <1>8, <1>9 DEF RunsOwn, AtRole
<1> QED BY <1>10, <1>11, <1>12, <1>13, <1>14

(* run --rayjob looks before it creates *)
LEMMA CheckStaleKeeps == ASSUME Inv, CheckStale PROVE Inv'
<1>1. At({"rayjob"}, "collision") /\ UNCHANGED world BY DEF CheckStale
<1>2. /\ cli.pc = "collision" /\ cli.pc # "idle" /\ \A v : Verb(v) <=> v = "rayjob"
  BY <1>1, AtFacts
<1>3. CASE Exit BY <1>1, <1>3, Pure, ExitKeeps
<1>4. CASE Goto("dra") /\ ~(rayjob # None \/ Exists(Role))
  <2>1. /\ Entitled("dra") /\ HasRead("dra", cli.live)
        /\ PastRoles("dra") <=> PastRoles(cli.pc)
    BY <1>2, <1>4 DEF Entitled, EntitledTo, HasRead, AtRole, PastRoles, Inv, RayjobAlone
  <2>2. "dra" \in Places \ {"idle"} BY DEF Places, AtRole
  <2> QED BY <1>1, <1>2, <1>4, <2>1, <2>2, Pure, GoesOn
<1> QED BY <1>3, <1>4 DEF CheckStale

LEMMA WaitForRayjobTerminalKeeps == ASSUME Inv, WaitForRayjobTerminal PROVE Inv'
<1>1. At({"rayjob"}, "rayjob") /\ UNCHANGED world BY DEF WaitForRayjobTerminal
<1>2. /\ cli.pc = "rayjob" /\ cli.pc # "idle" /\ \A v : Verb(v) <=> v = "rayjob"
  BY <1>1, AtFacts
<1>3. CASE Exit BY <1>1, <1>3, Pure, ExitKeeps
<1>4. CASE Goto("delete_dra")
  <2>1. /\ Entitled("delete_dra") /\ HasRead("delete_dra", cli.live)
        /\ PastRoles("delete_dra") <=> PastRoles(cli.pc)
    BY <1>2 DEF Entitled, EntitledTo, HasRead, AtRole, PastRoles, Inv, RayjobAlone
  <2>2. "delete_dra" \in Places \ {"idle"} BY DEF Places
  <2> QED BY <1>1, <1>2, <1>4, <2>1, <2>2, Pure, GoesOn
<1> QED BY <1>3, <1>4 DEF WaitForRayjobTerminal

(* The Deployment and its Service *)
LEMMA DeploymentMoves ==
  ASSUME Inv, NEW verbs, NEW p, NEW q \in Places \ {"idle"}, p # "idle", At(verbs, p), Goto(q),
         HasDeployment, UNCHANGED <<clusters, dra, rayjob, procs>>,
         deployment' \in [owner : Users \cup {None}, service : BOOLEAN],
         EntitledTo(q, deployment'), HasRead(q, cli.live), PastRoles(q) <=> PastRoles(p)
  PROVE  Inv'
<1>1. cli.pc = p /\ cli.pc # "idle" /\ cli.live \in Cluster /\ cli.todo \in SUBSET Nat
  BY AtFacts
<1>2. cli' = [cli EXCEPT !.pc = q, !.live = cli.live, !.todo = cli.todo] BY Going
<1>3. cli'.pc = q /\ cli'.cmd = cli.cmd BY DEF Goto, Inv, TypeInv
<1>4. Finished' = Finished BY <1>1, <1>3 DEF Finished, PastRoles, Verb
<1>5. procs' \in [Roles -> Seq(Job)] BY DEF Inv, TypeInv
<1> QED BY <1>1, <1>2, <1>4, <1>5, MoveKeeps

LEMMA EnsureDeploymentKeeps == ASSUME Inv, EnsureDeployment PROVE Inv'
<1>1. /\ At({"run", "up"}, "deployment") /\ UNCHANGED <<clusters, dra, rayjob, procs>>
  BY DEF EnsureDeployment
<1>2. /\ cli.pc = "deployment" /\ cli.cmd.verb \in {"run", "up"} /\ Me \in Users
      /\ \A v : Verb(v) <=> cli.cmd.verb = v
  BY <1>1, AtFacts
<1>3. CASE Exit /\ UNCHANGED deployment
  BY <1>1, <1>3, ExitKeeps DEF Inv, TypeInv
<1>4. CASE Goto("service") /\ deployment' = [deployment EXCEPT !.owner = Me]
  <2>1. /\ deployment' \in [owner : Users \cup {None}, service : BOOLEAN]
        /\ deployment'.owner = Me
    BY <1>2, <1>4 DEF Inv, TypeInv
  <2>2. HasDeployment BY <1>2 DEF Inv, DownClears
  <2>3. /\ EntitledTo("service", deployment') /\ HasRead("service", cli.live)
        /\ PastRoles("service") <=> PastRoles("deployment")
    BY <1>2, <2>1, <2>2 DEF EntitledTo, HasRead, AtRole, PastRoles, Inv, RayjobAlone
  <2>4. "service" \in Places \ {"idle"} BY DEF Places
  <2> QED BY <1>1, <1>4, <2>1, <2>2, <2>3, <2>4, DeploymentMoves
<1> QED BY <1>3, <1>4 DEF EnsureDeployment

LEMMA ApplyServiceKeeps == ASSUME Inv, ApplyService PROVE Inv'
<1>1. /\ At({"run", "up"}, "service") /\ UNCHANGED <<clusters, dra, rayjob, procs>>
      /\ deployment' = [deployment EXCEPT !.service = TRUE]
  BY DEF ApplyService
<1>2. /\ cli.pc = "service" /\ cli.cmd.verb \in {"run", "up"}
      /\ \A v : Verb(v) <=> cli.cmd.verb = v
  BY <1>1, AtFacts
<1>3. deployment' \in [owner : Users \cup {None}, service : BOOLEAN]
  BY <1>1 DEF Inv, TypeInv
<1>4. HasDeployment BY <1>2 DEF Inv, DownClears
<1>5. CASE Exit BY <1>1, <1>3, <1>4, <1>5, ExitKeeps DEF Inv, TypeInv
<1>6. CASE Goto(AfterDeployment)
  <2>1. PICK q \in {"get", "done"} : Goto(q) /\ q = AfterDeployment
    BY <1>6 DEF AfterDeployment
  <2>2. EntitledTo(q, deployment') /\ HasRead(q, cli.live) /\ (PastRoles(q) <=> PastRoles("service"))
    BY <1>2, <2>1
       DEF EntitledTo, HasRead, AtRole, PastRoles, AfterDeployment, Inv, RayjobAlone
  <2>3. q \in Places \ {"idle"} BY DEF Places
  <2> QED BY <1>1, <1>3, <1>4, <2>1, <2>2, <2>3, DeploymentMoves
<1> QED BY <1>5, <1>6 DEF ApplyService

LEMMA DeleteDeploymentKeeps == ASSUME Inv, DeleteDeployment PROVE Inv'
<1>1. UNCHANGED <<clusters, dra, rayjob, procs>> BY DEF DeleteDeployment
<1>2. deployment \in [owner : Users \cup {None}, service : BOOLEAN] BY DEF Inv, TypeInv
<1>3. CASE /\ At({"down"}, "deployment") /\ Goto("service")
           /\ deployment' = [deployment EXCEPT !.service = FALSE]
  <2>1. cli.pc = "deployment" /\ \A v : Verb(v) <=> v = "down" BY <1>3, AtFacts
  <2>2. HasDeployment BY <2>1 DEF Inv, DownClears
  <2>3. /\ deployment' \in [owner : Users \cup {None}, service : BOOLEAN]
        /\ ~deployment'.service
    BY <1>2, <1>3
  <2>4. /\ EntitledTo("service", deployment') /\ HasRead("service", cli.live)
        /\ PastRoles("service") <=> PastRoles("deployment")
    BY <2>1, <2>2, <2>3 DEF EntitledTo, HasRead, AtRole, PastRoles
  <2>5. "service" \in Places \ {"idle"} BY DEF Places
  <2> QED BY <1>1, <1>3, <2>2, <2>3, <2>4, <2>5, DeploymentMoves
<1>4. CASE /\ At({"down"}, "service") /\ Goto("done")
           /\ deployment' = [deployment EXCEPT !.owner = None]
  <2>1. cli.pc = "service" /\ \A v : Verb(v) <=> v = "down" BY <1>4, AtFacts
  <2>2. HasDeployment /\ deployment.service = FALSE BY <1>2, <2>1 DEF Inv, DownClears
  <2>3. /\ deployment' \in [owner : Users \cup {None}, service : BOOLEAN]
        /\ deployment' = NoDeployment
    BY <1>2, <1>4, <2>2 DEF NoDeployment
  <2>4. /\ EntitledTo("done", deployment') /\ HasRead("done", cli.live)
        /\ PastRoles("done") <=> PastRoles("service")
    BY <2>1, <2>2, <2>3 DEF EntitledTo, HasRead, AtRole, PastRoles
  <2>5. "done" \in Places \ {"idle"} BY DEF Places
  <2> QED BY <1>1, <1>4, <2>2, <2>3, <2>4, <2>5, DeploymentMoves
<1> QED BY <1>3, <1>4 DEF DeleteDeployment

(* Steps that create and delete what others rely on *)
LEMMA GotoFacts ==
  ASSUME Inv, NEW verbs, NEW p, NEW q \in Places \ {"idle"}, p # "idle", At(verbs, p), Goto(q),
         PastRoles(q) <=> PastRoles(p)
  PROVE  /\ cli'.pc = q /\ cli'.cmd = cli.cmd /\ cli'.live = cli.live /\ cli.cmd \in Commands
         /\ cli' \in [cmd : Commands \cup {None}, pc : Places, at : DOMAIN RoleOrder,
                      live : Cluster, todo : SUBSET Nat]
         /\ Verb("run")' = Verb("run") /\ Verb("up")' = Verb("up")
         /\ Verb("down")' = Verb("down") /\ Verb("rayjob")' = Verb("rayjob")
         /\ Role' = Role /\ Visited' = Visited /\ Me' = Me
         /\ \A opt \in Options : Has(opt)' = Has(opt)
<1>1. /\ cli.pc = p /\ cli.cmd \in Commands
      /\ cli \in [cmd : Commands \cup {None}, pc : Places, at : DOMAIN RoleOrder,
                  live : Cluster, todo : SUBSET Nat]
  BY AtFacts
<1>2. /\ cli'.pc = q /\ cli'.cmd = cli.cmd /\ cli'.at = cli.at /\ cli'.live = cli.live
      /\ cli' \in [cmd : Commands \cup {None}, pc : Places, at : DOMAIN RoleOrder,
                   live : Cluster, todo : SUBSET Nat]
  BY <1>1 DEF Goto
<1>3. Finished' = Finished BY <1>1, <1>2 DEF Finished, PastRoles, Verb
<1> QED BY <1>1, <1>2, <1>3, SameRole

LEMMA EnsureDraResourcesKeeps == ASSUME Inv, EnsureDraResources PROVE Inv'
<1> USE DEF Inv
<1>1. /\ At({"run", "up", "rayjob"}, "dra") /\ dra' = dra \cup {Role} /\ Goto(AfterDra)
      /\ UNCHANGED <<clusters, deployment, rayjob, procs>>
  BY DEF EnsureDraResources
<1>2. /\ cli.pc = "dra" /\ cli.cmd.verb \in {"run", "up", "rayjob"} /\ Role \in Roles
      /\ \A v : Verb(v) <=> cli.cmd.verb = v
  BY <1>1, AtFacts
<1>3. /\ AfterDra \in {"apply", "delete", "ready"}
      /\ cli.cmd.verb # "run" => AfterDra = "apply"
      /\ AfterDra = "delete" => Has("recreate") /\ cli.live.spec # cli.cmd.spec
      /\ cli.cmd.verb = "run" /\ AfterDra = "apply" => cli.live.state = "absent"
  BY <1>2 DEF AfterDra
<1>4. AfterDra \in Places \ {"idle"} /\ (PastRoles(AfterDra) <=> PastRoles("dra"))
  BY <1>3 DEF Places, AtRole, PastRoles
<1>5. /\ cli'.pc = AfterDra /\ cli'.cmd = cli.cmd /\ cli'.live = cli.live /\ cli.cmd \in Commands
      /\ cli' \in [cmd : Commands \cup {None}, pc : Places, at : DOMAIN RoleOrder,
                   live : Cluster, todo : SUBSET Nat]
      /\ Verb("run")' = Verb("run") /\ Verb("up")' = Verb("up")
      /\ Verb("down")' = Verb("down") /\ Verb("rayjob")' = Verb("rayjob")
      /\ Role' = Role /\ Visited' = Visited /\ Me' = Me
      /\ \A opt \in Options : Has(opt)' = Has(opt)
  BY <1>1, <1>4, GotoFacts
<1>6. /\ \A r : Exists(r)' = Exists(r) /\ Live(r)' = Live(r) /\ Own(r)' = Own(r)
      /\ Exists("training")' = Exists("training") /\ Exists(Role)' = Exists(Role)
      /\ Own(Role)' = Own(Role)
  <2>1. \A r : Exists(r)' = Exists(r) /\ Live(r)' = Live(r) /\ Own(r)' = Own(r)
    BY <1>1, <1>5 DEF Exists, Live, Own
  <2>2. Exists(Role)' = (clusters'[Role'].state # "absent") BY DEF Exists
  <2>3. Own(Role)' = (Exists(Role)' => clusters'[Role'].owner = Me') BY DEF Own
  <2> QED BY <1>1, <1>5, <2>1, <2>2, <2>3 DEF Exists, Own
<1>7. TypeInv' BY <1>1, <1>2, <1>5 DEF TypeInv
<1>8. RayjobAlone' BY <1>1, <1>2, <1>3, <1>5, <1>6 DEF RayjobAlone
<1>9. DraFirst' BY <1>1, <1>2, <1>3, <1>5, <1>6 DEF DraFirst
<1>10. DownClears' BY <1>1, <1>2, <1>3, <1>5 DEF DownClears
<1>11. RunsOwn'
  <2>1. Verb("run") => /\ \A r \in Visited : Own(r)
                       /\ Own(Role)
                       /\ Exists(Role) => cli.live.state # "absent"
                                          /\ clusters[Role].spec = cli.live.spec
    BY <1>2 DEF RunsOwn, AtRole
  <2>2. clusters'[Role'] = clusters[Role] BY <1>1, <1>5
  <2> QED BY <1>2, <1>3, <1>5, <1>6, <2>1, <2>2 DEF RunsOwn, Options
<1> QED BY <1>7, <1>8, <1>9, <1>10, <1>11

LEMMA ApplyRayjobKeeps == ASSUME Inv, ApplyRayjob PROVE Inv'
<1> USE DEF Inv
<1>1. /\ At({"rayjob"}, "apply") /\ rayjob' = "running"
      /\ UNCHANGED <<clusters, dra, deployment, procs>>
      /\ \E q \in {"rayjob", "done"} : Goto(q)
  BY DEF ApplyRayjob
<1>2. /\ cli.pc = "apply" /\ cli.pc # "idle" /\ \A v : Verb(v) <=> v = "rayjob"
  BY <1>1, AtFacts
<1>3. PICK q \in {"rayjob", "done"} : Goto(q) BY <1>1
<1>4. q \in Places \ {"idle"} /\ (PastRoles(q) <=> PastRoles("apply"))
  BY <1>2 DEF Places, PastRoles
<1>5. /\ cli'.pc = q /\ cli.cmd \in Commands /\ cli'.cmd = cli.cmd
      /\ cli' \in [cmd : Commands \cup {None}, pc : Places, at : DOMAIN RoleOrder,
                   live : Cluster, todo : SUBSET Nat]
      /\ Verb("run")' = Verb("run") /\ Verb("up")' = Verb("up")
      /\ Verb("down")' = Verb("down") /\ Verb("rayjob")' = Verb("rayjob") /\ Role' = Role
  BY <1>1, <1>3, <1>4, GotoFacts
<1>6. /\ \A r : Live(r)' = Live(r) /\ Exists(r)' = Exists(r)
      /\ Exists("training")' = Exists("training")
  BY <1>1 DEF Exists, Live
<1>7. TypeInv' BY <1>1, <1>5 DEF TypeInv
<1>8. RayjobAlone' BY <1>1, <1>2, <1>5, <1>6 DEF RayjobAlone
<1>9. DraFirst' BY <1>1, <1>2, <1>5, <1>6 DEF DraFirst
<1>10. DownClears' BY <1>1, <1>2, <1>5 DEF DownClears
<1>11. RunsOwn' BY <1>2, <1>5 DEF RunsOwn
<1> QED BY <1>7, <1>8, <1>9, <1>10, <1>11

LEMMA DeleteRayclusterKeeps == ASSUME Inv, DeleteRaycluster PROVE Inv'
<1> USE DEF Inv
<1>1. /\ At({"run", "down"}, "delete") /\ UNCHANGED <<dra, deployment, rayjob, procs>>
      /\ clusters' = [clusters EXCEPT ![Role].deleting = Exists(Role)]
      /\ \E q \in {"gone", "delete_dra"} :
           Goto(q) /\ (q = "delete_dra" => cli.cmd.verb # "run" /\ ~Has("wait"))
  BY DEF DeleteRaycluster
<1>2. /\ cli.pc = "delete" /\ cli.cmd.verb \in {"run", "down"} /\ Role \in Roles
      /\ \A v : Verb(v) <=> cli.cmd.verb = v
  BY <1>1, AtFacts
<1>3. PICK q \in {"gone", "delete_dra"} :
        Goto(q) /\ (q = "delete_dra" => cli.cmd.verb # "run" /\ ~Has("wait"))
  BY <1>1
<1>4. q \in Places \ {"idle"} /\ (PastRoles(q) <=> PastRoles("delete"))
  BY DEF Places, AtRole, PastRoles
<1>5. /\ cli'.pc = q /\ cli'.cmd = cli.cmd /\ cli'.live = cli.live /\ cli.cmd \in Commands
      /\ cli' \in [cmd : Commands \cup {None}, pc : Places, at : DOMAIN RoleOrder,
                   live : Cluster, todo : SUBSET Nat]
      /\ Verb("run")' = Verb("run") /\ Verb("up")' = Verb("up")
      /\ Verb("down")' = Verb("down") /\ Verb("rayjob")' = Verb("rayjob")
      /\ Role' = Role /\ Visited' = Visited /\ Me' = Me
      /\ \A opt \in Options : Has(opt)' = Has(opt)
  BY <1>1, <1>3, <1>4, GotoFacts
<1>6. clusters \in [Roles -> Cluster] BY DEF TypeInv
<1>7. /\ clusters' \in [Roles -> Cluster]
      /\ \A r \in Roles : /\ clusters'[r].state = clusters[r].state
                          /\ clusters'[r].owner = clusters[r].owner
                          /\ r # Role => clusters'[r] = clusters[r]
      /\ clusters'[Role].deleting = Exists(Role)
  <2>1. Exists(Role) \in BOOLEAN BY DEF Exists
  <2>2. clusters[Role] \in Cluster BY <1>2, <1>6
  <2>3. [clusters[Role] EXCEPT !.deleting = Exists(Role)] \in Cluster
    BY <2>1, <2>2 DEF Cluster
  <2>4. clusters' = [clusters EXCEPT ![Role] = [clusters[Role] EXCEPT !.deleting = Exists(Role)]]
    BY <1>1
  <2> QED BY <1>2, <1>6, <2>2, <2>3, <2>4 DEF Cluster
<1>8. /\ \A r \in Roles : Exists(r)' = Exists(r) /\ (Live(r)' => Live(r)) /\ Own(r)' = Own(r)
      /\ Exists("training")' = Exists("training")
      /\ ~Live(Role)' /\ Exists(Role)' = Exists(Role) /\ Own(Role)' = Own(Role)
  <2>1. \A r \in Roles : Exists(r)' = Exists(r) BY <1>7 DEF Exists
  <2>2. \A r \in Roles : Own(r)' = Own(r) BY <1>5, <1>7, <2>1 DEF Own
  <2>3. Exists(Role)' = (clusters'[Role'].state # "absent") BY DEF Exists
  <2>4. Exists(Role)' = Exists(Role) BY <1>2, <1>5, <1>7, <2>3 DEF Exists
  <2>5. Own(Role)' = (Exists(Role)' => clusters'[Role'].owner = Me') BY DEF Own
  <2>6. Own(Role)' = Own(Role) BY <1>2, <1>5, <1>7, <2>4, <2>5 DEF Own
  <2>7. ~Live(Role)' BY <1>5, <1>7, <2>4 DEF Live
  <2>8. \A r \in Roles : Live(r)' => Live(r) BY <1>5, <1>7, <2>1, <2>7 DEF Live
  <2> QED BY <2>1, <2>2, <2>4, <2>6, <2>7, <2>8, Constants
<1>9. Visited \subseteq Roles BY Constants DEF Visited
<1>10. TypeInv' BY <1>1, <1>5, <1>7 DEF TypeInv
<1>11. RayjobAlone' BY <1>1, <1>2, <1>5, <1>8 DEF RayjobAlone
<1>12. DraFirst' BY <1>1, <1>2, <1>5, <1>8 DEF DraFirst
<1>13. DownClears'
  <2>1. \A r \in Roles : Clean(r) => Clean(r)' BY <1>5, <1>8 DEF Clean, Options
  <2>2. Clean(Role)' = (~Live(Role)' /\ (Has("wait")' => ~Exists(Role)')) BY DEF Clean
  <2>3. q = "delete_dra" => Clean(Role)' BY <1>3, <1>5, <1>8, <2>2 DEF Options
  <2> QED BY <1>1, <1>2, <1>5, <1>9, <2>1, <2>3 DEF DownClears
<1>14. RunsOwn' BY <1>2, <1>3, <1>5, <1>8, <1>9 DEF RunsOwn, AtRole
<1> QED BY <1>10, <1>11, <1>12, <1>13, <1>14

LEMMA DeleteDraResourcesKeeps == ASSUME Inv, DeleteDraResources PROVE Inv'
<1> USE DEF Inv
<1>1. /\ At({"down", "rayjob"}, "delete_dra") /\ dra' = dra \ {Role}
      /\ UNCHANGED <<clusters, deployment, rayjob, procs>>
  BY DEF DeleteDraResources
<1>2. /\ cli.pc = "delete_dra" /\ cli.pc # "idle" /\ cli.cmd.verb \in {"down", "rayjob"}
      /\ Role \in Roles /\ \A v : Verb(v) <=> cli.cmd.verb = v
  BY <1>1, AtFacts
<1>3. /\ \A r : Exists(r)' = Exists(r) /\ Live(r)' = Live(r)
      /\ Exists("training")' = Exists("training")
  BY <1>1 DEF Exists, Live
<1>4. Clean(Role) BY <1>2 DEF DownClears, RayjobAlone, Clean, Live
<1>5. \A r \in Roles : Live(r)' => r \in dra' BY <1>1, <1>3, <1>4 DEF DraFirst, Clean
<1>6. CASE cli.cmd.verb = "rayjob"
  <2>1. Goto("done") BY <1>6 DEF DeleteDraResources
  <2>2. "done" \in Places \ {"idle"} /\ (PastRoles("done") <=> PastRoles("delete_dra"))
    BY <1>2, <1>6 DEF Places, PastRoles
  <2>3. /\ cli'.pc = "done" /\ cli'.cmd = cli.cmd /\ cli.cmd \in Commands
        /\ cli' \in [cmd : Commands \cup {None}, pc : Places, at : DOMAIN RoleOrder,
                     live : Cluster, todo : SUBSET Nat]
        /\ Verb("run")' = Verb("run") /\ Verb("up")' = Verb("up")
        /\ Verb("down")' = Verb("down") /\ Verb("rayjob")' = Verb("rayjob") /\ Role' = Role
    BY <1>1, <2>1, <2>2, GotoFacts
  <2>4. ~Verb("run") /\ ~Verb("up") /\ ~Verb("down") BY <1>2, <1>6
  <2>5. TypeInv' BY <1>1, <2>3 DEF TypeInv
  <2>6. RayjobAlone' BY <1>1, <1>2, <1>3, <2>3, <2>4 DEF RayjobAlone
  <2>7. DraFirst' BY <1>5, <2>3, <2>4 DEF DraFirst
  <2>8. DownClears' BY <1>1, <2>3, <2>4 DEF DownClears
  <2>9. RunsOwn' BY <2>3, <2>4 DEF RunsOwn
  <2> QED BY <2>5, <2>6, <2>7, <2>8, <2>9
<1>7. CASE cli.cmd.verb = "down"
  <2>1. NextRole BY <1>7 DEF DeleteDraResources
  <2>2. ~Finished BY <1>2 DEF Finished
  <2>3. /\ cli' \in [cmd : Commands \cup {None}, pc : Places, at : DOMAIN RoleOrder,
                     live : Cluster, todo : SUBSET Nat]
        /\ cli'.cmd = cli.cmd /\ cli'.pc # "idle" /\ cli.cmd \in Commands
        /\ cli'.pc \in {"delete", "deployment", "done"} /\ Visited' = Visited \cup {Role}
        /\ cli'.pc = "deployment" => HasDeployment
        /\ cli'.pc = "done" => ~HasDeployment
        /\ Verb("run")' = Verb("run") /\ Verb("up")' = Verb("up")
        /\ Verb("down")' = Verb("down") /\ Verb("rayjob")' = Verb("rayjob")
        /\ \A opt \in Options : Has(opt)' = Has(opt)
    BY <1>2, <1>7, <2>1, <2>2, NextRoleFacts
  <2>4. Verb("down") /\ ~Verb("run") /\ ~Verb("up") /\ ~Verb("rayjob") BY <1>2, <1>7
  <2>5. TypeInv' BY <1>1, <2>3 DEF TypeInv
  <2>6. RayjobAlone' BY <1>1, <1>3, <2>3, <2>4 DEF RayjobAlone
  <2>7. DraFirst' BY <1>5, <2>3, <2>4 DEF DraFirst
  <2>8. DownClears'
    <3>1. \A r : Clean(r)' = Clean(r) BY <1>3, <2>3 DEF Clean, Options
    <3>2. \A r \in Visited : r \notin dra /\ Clean(r) BY <2>4 DEF DownClears
    <3>3. \A r \in Visited' : r \notin dra' /\ Clean(r)'
      BY <1>1, <1>4, <2>3, <3>1, <3>2
    <3>4. HasDeployment \/ deployment' = NoDeployment BY <1>1 DEF DownClears
    <3> QED BY <2>3, <3>3, <3>4 DEF DownClears
  <2>9. RunsOwn' BY <2>3, <2>4 DEF RunsOwn
  <2> QED BY <2>5, <2>6, <2>7, <2>8, <2>9
<1> QED BY <1>2, <1>6, <1>7

LEMMA ApplyRayclusterKeeps == ASSUME Inv, ApplyRaycluster PROVE Inv'
<1> USE DEF Inv
<1>1. /\ At({"run", "up"}, "apply") /\ UNCHANGED <<dra, deployment, rayjob, procs>>
      /\ clusters' = [clusters EXCEPT ![Role] =
           IF Exists(Role) THEN [clusters[Role] EXCEPT !.owner = Me, !.spec = cli.cmd.spec]
           ELSE [state |-> "pending", owner |-> Me, spec |-> cli.cmd.spec, deleting |-> FALSE]]
  BY DEF ApplyRaycluster
<1>2. /\ cli.pc = "apply" /\ cli.pc # "idle" /\ cli.cmd.verb \in {"run", "up"}
      /\ Role \in Roles /\ Me \in Users /\ cli.cmd.spec \in Specs
      /\ \A v : Verb(v) <=> cli.cmd.verb = v
  BY <1>1, AtFacts
<1>3. clusters \in [Roles -> Cluster] BY DEF TypeInv
<1>4. /\ clusters' \in [Roles -> Cluster] /\ clusters'[Role].owner = Me
      /\ \A r \in Roles : r # Role => clusters'[r] = clusters[r]
  <2> DEFINE new == IF Exists(Role)
                      THEN [clusters[Role] EXCEPT !.owner = Me, !.spec = cli.cmd.spec]
                      ELSE [state |-> "pending", owner |-> Me, spec |-> cli.cmd.spec,
                            deleting |-> FALSE]
  <2>1. clusters[Role] \in Cluster BY <1>2, <1>3
  <2>2. new \in Cluster /\ new.owner = Me BY <1>2, <2>1 DEF Cluster
  <2>3. clusters' = [clusters EXCEPT ![Role] = new] BY <1>1
  <2> HIDE DEF new
  <2> QED BY <1>2, <1>3, <2>2, <2>3
<1>5. Verb("run") \/ Verb("up") BY <1>2
<1>6. ~Verb("down") /\ ~Verb("rayjob") BY <1>2
<1>7. Role \in dra BY <1>2, <1>5 DEF DraFirst
<1>8. rayjob = None \/ ~Exists("training")'
  <2>1. CASE Role = "training" BY <1>2, <1>5, <2>1 DEF RayjobAlone
  <2>2. CASE Role # "training"
    <3>1. clusters'["training"] = clusters["training"] BY <1>4, <2>2, Constants
    <3> QED BY <3>1 DEF RayjobAlone, Exists
  <2> QED BY <2>1, <2>2
<1>9. \A r \in Roles : Live(r)' => r \in dra'
  <2>1. \A r \in Roles : r # Role => Live(r)' = Live(r) BY <1>4 DEF Live, Exists
  <2> QED BY <1>1, <1>7, <2>1 DEF DraFirst
<1>10. Visited \subseteq Roles BY Constants DEF Visited
<1>11. ASSUME Me' = Me
       PROVE  Verb("run") => \A r \in Visited \cup {Role} : (Own(r))'
  <2>1. \A r \in Roles : r # Role => (Own(r) => Own(r)') BY <1>4, <1>11 DEF Own, Exists
  <2>2. clusters'[Role].owner = Me' BY <1>4, <1>11
  <2>3. \A r \in Roles : r = Role => Own(r)' BY <2>2 DEF Own
  <2>4. Verb("run") => \A r \in Visited : Own(r) BY DEF RunsOwn
  <2> QED BY <1>2, <1>10, <2>1, <2>3, <2>4
<1>12. Goto("ready") \/ (cli.cmd.verb = "up" /\ NextRole) BY <1>2 DEF ApplyRaycluster
<1>13. CASE Goto("ready")
  <2>1. "ready" \in Places \ {"idle"} /\ (PastRoles("ready") <=> PastRoles("apply"))
    BY DEF Places, AtRole, PastRoles
  <2>2. /\ cli'.pc = "ready" /\ cli'.cmd = cli.cmd /\ cli.cmd \in Commands
        /\ cli' \in [cmd : Commands \cup {None}, pc : Places, at : DOMAIN RoleOrder,
                     live : Cluster, todo : SUBSET Nat]
        /\ Verb("run")' = Verb("run") /\ Verb("up")' = Verb("up")
        /\ Verb("down")' = Verb("down") /\ Verb("rayjob")' = Verb("rayjob")
        /\ Role' = Role /\ Visited' = Visited /\ Me' = Me
    BY <1>1, <1>13, <2>1, GotoFacts
  <2>3. TypeInv' BY <1>1, <1>4, <2>2 DEF TypeInv
  <2>4. RayjobAlone' BY <1>1, <1>2, <1>6, <1>8, <2>2 DEF RayjobAlone
  <2>5. DraFirst' BY <1>6, <1>9, <2>2 DEF DraFirst
  <2>6. DownClears' BY <1>1, <1>6, <2>2 DEF DownClears
  <2>7. RunsOwn'
    <3>1. Verb("run") => \A r \in Visited \cup {Role} : (Own(r))' BY <1>11, <2>2
    <3>2. Own(Role)' = (Exists(Role)' => clusters'[Role'].owner = Me') BY DEF Own
    <3>3. Own(Role)' BY <1>4, <2>2, <3>2
    <3> QED BY <2>2, <3>1, <3>3 DEF RunsOwn
  <2> QED BY <2>3, <2>4, <2>5, <2>6, <2>7
<1>14. CASE cli.cmd.verb = "up" /\ NextRole
  <2>1. ~Finished BY <1>2 DEF Finished
  <2>2. /\ cli' \in [cmd : Commands \cup {None}, pc : Places, at : DOMAIN RoleOrder,
                     live : Cluster, todo : SUBSET Nat]
        /\ cli'.cmd = cli.cmd /\ cli'.pc # "idle" /\ cli.cmd \in Commands
        /\ \/ cli'.pc = "collision"
           \/ cli'.pc \in {"deployment", "done"} /\ Role' = Role
        /\ cli'.pc = "deployment" => HasDeployment
        /\ Verb("run")' = Verb("run") /\ Verb("up")' = Verb("up")
        /\ Verb("down")' = Verb("down") /\ Verb("rayjob")' = Verb("rayjob")
    BY <1>2, <1>14, <2>1, NextRoleFacts
  <2>3. Verb("up") /\ ~Verb("run") BY <1>2, <1>14
  <2>4. TypeInv' BY <1>1, <1>4, <2>2 DEF TypeInv
  <2>5. RayjobAlone' BY <1>1, <1>2, <1>6, <1>8, <2>2, <2>3 DEF RayjobAlone
  <2>6. DraFirst' BY <1>6, <1>9, <2>2, <2>3 DEF DraFirst
  <2>7. DownClears' BY <1>1, <1>6, <2>2 DEF DownClears
  <2>8. RunsOwn' BY <2>2, <2>3 DEF RunsOwn
  <2> QED BY <2>4, <2>5, <2>6, <2>7, <2>8
<1> QED BY <1>12, <1>13, <1>14

LEMMA NextKeeps == Inv /\ [Next]_vars => Inv'
<1> SUFFICES ASSUME Inv, [Next]_vars PROVE Inv' OBVIOUS
<1>1. CASE Type BY <1>1, TypeKeeps
<1>2. CASE Interrupt BY <1>2, EndKeeps
<1>3. CASE Environment BY <1>3, EnvironmentKeeps
<1>4. CASE Command
  <2>1. CASE CheckCollision \/ ResetEndpointRegistry \/ EnsureDeployment \/ ApplyService
    BY <2>1, CheckCollisionKeeps, ResetEndpointRegistryKeeps, EnsureDeploymentKeeps,
       ApplyServiceKeeps
  <2>2. CASE EnsureCluster \/ EnsureDraResources \/ DeleteRaycluster \/ WaitForRayclusterGone
    BY <2>2, EnsureClusterKeeps, EnsureDraResourcesKeeps, DeleteRayclusterKeeps,
       WaitForRayclusterGoneKeeps
  <2>3. CASE DeleteDraResources \/ ApplyRaycluster \/ WaitForRayclusterReady \/ CheckDaemon
    BY <2>3, DeleteDraResourcesKeeps, ApplyRayclusterKeeps, WaitForRayclusterReadyKeeps,
       CheckDaemonKeeps
  <2>4. CASE WaitJobStopped \/ SubmitDaemon \/ WaitForHealth \/ StopAllRunning
    BY <2>4, WaitJobStoppedKeeps, SubmitDaemonKeeps, WaitForHealthKeeps, StopAllRunningKeeps
  <2>5. CASE ListJobs \/ StopJob \/ Launch \/ DeleteDeployment
    BY <2>5, ListJobsKeeps, StopJobKeeps, LaunchKeeps, DeleteDeploymentKeeps
  <2>6. CASE CheckStale \/ ApplyRayjob \/ WaitForRayjobTerminal \/ Done
    BY <2>6, CheckStaleKeeps, ApplyRayjobKeeps, WaitForRayjobTerminalKeeps, EndKeeps
  <2> QED BY <1>4, <2>1, <2>2, <2>3, <2>4, <2>5, <2>6 DEF Command
<1>5. CASE UNCHANGED vars
  <2>1. UNCHANGED <<clusters, dra, deployment, rayjob, procs, cli>> BY <1>5 DEF vars, world
  <2>2. /\ \A r : Exists(r)' = Exists(r) /\ Live(r)' = Live(r)
        /\ Exists("training")' = Exists("training") /\ Exists(Role)' = Exists(Role)
    BY <2>1 DEF Exists, Live, Role
  <2>3. /\ Role' = Role /\ Visited' = Visited /\ Me' = Me
        /\ \A opt : Has(opt)' = Has(opt)
        /\ Verb("run")' = Verb("run") /\ Verb("up")' = Verb("up")
        /\ Verb("down")' = Verb("down") /\ Verb("rayjob")' = Verb("rayjob")
    BY <2>1 DEF Role, Visited, Finished, Verb, Me, Has
  <2>4. TypeInv' BY <2>1 DEF Inv, TypeInv
  <2>5. RayjobAlone' BY <2>1, <2>2, <2>3 DEF Inv, RayjobAlone
  <2>6. DraFirst' BY <2>1, <2>2, <2>3 DEF Inv, DraFirst
  <2>7. DownClears' BY <2>1, <2>2, <2>3 DEF Inv, DownClears, Clean
  <2>8. RunsOwn' BY <2>1, <2>2, <2>3 DEF Inv, RunsOwn, Own
  <2> QED BY <2>4, <2>5, <2>6, <2>7, <2>8 DEF Inv
<1> QED BY <1>1, <1>2, <1>3, <1>4, <1>5 DEF Next

(* The namespace and the command working on it fit together in every state *)
(* that KubeRay, the jobs and interrupted commands can lead to.            *)
THEOREM NamespaceInOrder == Spec => []Inv
BY InitInv, NextKeeps, PTL DEF Spec

(* A finished command has gone through every role *)
LEMMA AllVisited == ASSUME Finished PROVE Visited = Roles
<1>1. Visited = {RoleOrder[i] : i \in DOMAIN RoleOrder} BY DEF Visited
<1> QED BY <1>1 DEF Roles, Range

(* ensure_dra_resources comes before apply_raycluster and its deletion     *)
(* after the cluster's, so a live RayCluster always has what its pods      *)
(* claim; _check_head_svc_collision keeps RayJob and training cluster      *)
(* apart; and a cluster down that reports success has left nothing behind. *)
THEOREM ClustersStayWhole == Spec => []ClustersWhole
<1>1. ASSUME Inv PROVE ClustersWhole
  <2>1. ResourcesHeld BY <1>1 DEF Inv, DraFirst, RayjobAlone, ResourcesHeld
  <2>2. NothingLeft
    <3> SUFFICES ASSUME cli.pc = "done", cli.cmd.verb = "down"
                 PROVE  /\ dra = {} /\ deployment = NoDeployment
                        /\ \A r \in Roles : ~Live(r) /\ (Has("wait") => ~Exists(r))
      BY DEF NothingLeft
    <3>1. Verb("down") /\ Finished BY DEF Verb, Finished
    <3>2. \A r \in Roles : r \notin dra /\ Clean(r)
      BY <1>1, <3>1, AllVisited DEF Inv, DownClears
    <3>3. dra \subseteq Roles /\ deployment = NoDeployment
      BY <1>1, <3>1 DEF Inv, TypeInv, DownClears
    <3> QED BY <3>2, <3>3 DEF Clean
  <2> QED BY <2>1, <2>2 DEF ClustersWhole
<1> QED BY <1>1, NamespaceInOrder, PTL

-----------------------------------------------------------------------------
(* What run leaves alone                                                   *)

LEMMA ClustersAlone ==
  ASSUME Inv, Next, Verb("run"), NEW r \in Roles, Exists(r),
         clusters[r].owner # Me \/ ~Has("recreate") \/ clusters[r].spec = cli.cmd.spec
  PROVE  Untouched(r)
<1> USE DEF Inv
<1>1. CASE DeleteRaycluster
  <2>1. /\ At({"run", "down"}, "delete")
        /\ clusters' = [clusters EXCEPT ![Role].deleting = Exists(Role)]
    BY <1>1 DEF DeleteRaycluster
  <2>2. cli.pc = "delete" /\ Role \in Roles BY <2>1, AtFacts
  <2>3. /\ Own(Role) /\ Has("recreate") /\ cli.live.spec # cli.cmd.spec
        /\ Exists(Role) => clusters[Role].spec = cli.live.spec
    BY <2>2 DEF RunsOwn, AtRole
  <2>4. r # Role BY <2>3 DEF Own
  <2>5. clusters'[r] = clusters[r] BY <2>1, <2>4 DEF TypeInv
  <2> QED BY <2>5 DEF Untouched
<1>2. CASE ApplyRaycluster
  <2>1. At({"run", "up"}, "apply") /\ \A x \in Roles : x # Role => clusters'[x] = clusters[x]
    BY <1>2 DEF ApplyRaycluster, TypeInv
  <2>2. cli.pc = "apply" BY <2>1, AtFacts
  <2>3. ~Exists(Role) BY <2>2 DEF RunsOwn
  <2>4. r # Role BY <2>3
  <2> QED BY <2>1, <2>4 DEF Untouched
<1>3. CASE ClusterReady
  <2>1. PICK x \in Roles : clusters' = [clusters EXCEPT ![x].state = "ready"]
    BY <1>3 DEF ClusterReady
  <2>2. CASE r = x BY <2>1, <2>2 DEF TypeInv, Untouched
  <2>3. CASE r # x BY <2>1, <2>3 DEF TypeInv, Untouched
  <2> QED BY <2>2, <2>3
<1>4. CASE ClusterGone
  <2>1. PICK x \in Roles : clusters' = [clusters EXCEPT ![x] = Absent]
    BY <1>4 DEF ClusterGone
  <2> QED BY <2>1 DEF TypeInv, Untouched
<1>5. CASE UNCHANGED clusters BY <1>5 DEF Untouched
<1>6. DeleteRaycluster \/ ApplyRaycluster \/ ClusterReady \/ ClusterGone \/ UNCHANGED clusters
  <2>1. CASE Type \/ Interrupt \/ Environment
    BY <2>1 DEF Type, Interrupt, Environment, RayjobMoves, JobMoves, GymPublishes, world
  <2>2. CASE Command
    BY <2>2 DEF Command, CheckCollision, ResetEndpointRegistry, EnsureDeployment, ApplyService,
         EnsureCluster, EnsureDraResources, WaitForRayclusterGone, DeleteDraResources,
         WaitForRayclusterReady, CheckDaemon, WaitJobStopped, SubmitDaemon, WaitForHealth,
         StopAllRunning, ListJobs, StopJob, Launch, DeleteDeployment, CheckStale, ApplyRayjob,
         WaitForRayjobTerminal, Done, world
  <2> QED BY <2>1, <2>2 DEF Next
<1> QED BY <1>1, <1>2, <1>3, <1>4, <1>5, <1>6

(* Steps that change the status of one job, or add one *)
LEMMA OneStopped ==
  ASSUME TypeInv, NEW x \in Roles, NEW j \in Jobs(x), NEW s,
         procs' = WithStatus(x, j, s), s # "STOPPING", NEW r \in Roles
  PROVE  ~Stops(r)
<1>1. procs \in [Roles -> Seq(Job)] BY DEF TypeInv
<1>2. procs[x] \in Seq(Job) /\ j \in DOMAIN procs[x] BY <1>1 DEF Jobs
<1>3. procs' = [procs EXCEPT ![x] = [procs[x] EXCEPT ![j] = [procs[x][j] EXCEPT !.status = s]]]
  BY DEF WithStatus
<1>4. procs[x][j] \in Job BY <1>2
<1>5. \A k \in DOMAIN procs'[r] : procs'[r][k].status \in {procs[r][k].status, s}
  <2>1. CASE r # x BY <1>1, <1>3, <2>1
  <2>2. CASE r = x
    <3>1. procs'[x] = [procs[x] EXCEPT ![j] = [procs[x][j] EXCEPT !.status = s]]
      BY <1>1, <1>3
    <3>2. \A k \in DOMAIN procs[x] : k # j => procs'[x][k] = procs[x][k] BY <3>1
    <3>3. procs'[x][j] = [procs[x][j] EXCEPT !.status = s] BY <1>2, <3>1
    <3>4. procs'[x][j].status = s BY <1>4, <3>3 DEF Job
    <3>5. DOMAIN procs'[x] = DOMAIN procs[x] BY <3>1
    <3> QED BY <2>2, <3>2, <3>4, <3>5
  <2> QED BY <2>1, <2>2
<1> QED BY <1>5 DEF Stops

LEMMA OneMore ==
  ASSUME TypeInv, NEW x \in Roles, NEW kind, NEW s, procs' = Started(x, kind, s),
         NEW r \in Roles
  PROVE  ~Stops(r)
<1>1. procs \in [Roles -> Seq(Job)] BY DEF TypeInv
<1>2. \A k \in DOMAIN procs[r] : procs'[r][k] = procs[r][k]
  <2>1. CASE r # x BY <1>1, <2>1 DEF Started
  <2>2. CASE r = x
    <3> DEFINE job == [kind |-> kind, status |-> s]
    <3>1. procs[x] \in Seq(Job) BY <1>1
    <3>2. procs'[x] = Append(procs[x], job) BY <1>1 DEF Started
    <3> HIDE DEF job
    <3>3. \A k \in DOMAIN procs[x] : Append(procs[x], job)[k] = procs[x][k] BY <3>1
    <3> QED BY <2>2, <3>2, <3>3
  <2> QED BY <2>1, <2>2
<1> QED BY <1>2 DEF Stops, Jobs

LEMMA JobsAlone ==
  ASSUME Inv, Next, Verb("run"), NEW r \in Roles, Exists(r),
         clusters[r].owner # Me \/ ~Has("replace")
  PROVE  ~Stops(r)
<1> USE DEF Inv
<1>1. CASE UNCHANGED procs BY <1>1 DEF Stops
<1>2. CASE ClusterGone
  <2>1. PICK x \in Roles : procs' = [procs EXCEPT ![x] = <<>>] BY <1>2 DEF ClusterGone
  <2>2. CASE r = x
    <3>1. procs'[r] = <<>> BY <2>1, <2>2 DEF TypeInv
    <3> QED BY <3>1 DEF Stops
  <2>3. CASE r # x
    <3>1. procs'[r] = procs[r] BY <2>1, <2>3 DEF TypeInv
    <3> QED BY <3>1 DEF Stops
  <2> QED BY <2>2, <2>3
<1>3. CASE JobMoves
  <2>1. PICK x \in Roles : \E j \in Jobs(x) :
          \E s \in {"RUNNING", "FAILED", "SUCCEEDED", "STOPPED"} : procs' = WithStatus(x, j, s)
    BY <1>3 DEF JobMoves
  <2>2. PICK j \in Jobs(x) :
          \E s \in {"RUNNING", "FAILED", "SUCCEEDED", "STOPPED"} : procs' = WithStatus(x, j, s)
    BY <2>1
  <2>3. PICK s : s # "STOPPING" /\ procs' = WithStatus(x, j, s) BY <2>2
  <2> QED BY <2>3, OneStopped
<1>4. CASE CheckDaemon
  <2>1. At({"run", "up"}, "daemon") BY <1>4 DEF CheckDaemon
  <2>2. cli.pc = "daemon" /\ Role \in Roles BY <2>1, AtFacts
  <2>3. \/ procs' = procs
        \/ Has("replace") /\ procs' = WithStatus(Role, Existing(Role), "STOPPING")
    BY <1>4 DEF CheckDaemon
  <2>4. Own(Role) BY <2>2 DEF RunsOwn, AtRole
  <2>5. Has("replace") => r # Role BY <2>4 DEF Own
  <2>6. r # Role => WithStatus(Role, Existing(Role), "STOPPING")[r] = procs[r]
    BY DEF WithStatus, TypeInv
  <2> QED BY <2>3, <2>5, <2>6 DEF Stops
<1>5. CASE SubmitDaemon
  <2>1. At({"run", "up"}, "submit") BY <1>5 DEF SubmitDaemon
  <2>2. Role \in Roles BY <2>1, AtFacts
  <2>3. procs' = procs \/ \E kind : procs' = Started(Role, kind, "PENDING")
    BY <1>5 DEF SubmitDaemon
  <2> QED BY <1>1, <2>2, <2>3, OneMore
<1>6. CASE Launch
  <2>1. procs' = procs \/ \E kind, s : procs' = Started("training", kind, s)
    BY <1>6 DEF Launch
  <2> QED BY <1>1, <2>1, Constants, OneMore
<1>7. CASE StopAllRunning \/ StopJob
  <2>1. cli.pc \in {"stop_exec", "stop_job"}
    BY <1>7 DEF StopAllRunning, StopJob, At
  <2>2. Has("replace") /\ Own("training")
    BY <2>1, AllVisited, Constants DEF RunsOwn, Finished
  <2>3. r # "training" BY <2>2 DEF Own
  <2>4. \A x \in Roles : x # "training" => procs'[x] = procs[x]
    BY <1>7 DEF StopAllRunning, StopJob, WithStatus, TypeInv
  <2> QED BY <2>3, <2>4 DEF Stops
<1>8. \/ ClusterGone \/ JobMoves \/ CheckDaemon \/ SubmitDaemon \/ Launch \/ StopAllRunning
      \/ StopJob \/ UNCHANGED procs
  <2>1. CASE Type \/ Interrupt \/ Environment
    BY <2>1 DEF Type, Interrupt, Environment, RayjobMoves, ClusterReady, GymPublishes, world
  <2>2. CASE Command
    BY <2>2 DEF Command, CheckCollision, ResetEndpointRegistry, EnsureDeployment, ApplyService,
         EnsureCluster, EnsureDraResources, WaitForRayclusterGone, DeleteDraResources,
         WaitForRayclusterReady, WaitJobStopped, WaitForHealth, DeleteRaycluster,
         ApplyRaycluster, ListJobs, DeleteDeployment, CheckStale, ApplyRayjob,
         WaitForRayjobTerminal, Done, world
  <2> QED BY <2>1, <2>2 DEF Next
<1> QED BY <1>1, <1>2, <1>3, <1>4, <1>5, <1>6, <1>7, <1>8

LEMMA DeploymentAlone ==
  ASSUME Inv, Next, Verb("run"), deployment.owner \notin {None, Me}
  PROVE  deployment' = deployment
<1>1. ~ApplyService
  <2>1. ASSUME ApplyService PROVE cli.pc = "service" BY <2>1 DEF ApplyService, At
  <2> QED BY <2>1 DEF Inv, RunsOwn
<1>2. ~DeleteDeployment BY DEF DeleteDeployment, At, Verb
<1>3. EnsureDeployment => deployment' = deployment BY DEF EnsureDeployment
<1>4. Type \/ Interrupt \/ Environment => deployment' = deployment
  BY DEF Type, Interrupt, Environment, ClusterReady, ClusterGone, RayjobMoves, JobMoves,
         GymPublishes, world
<1>5. Command /\ ~EnsureDeployment => deployment' = deployment
  BY <1>1, <1>2
     DEF Command, CheckCollision, ResetEndpointRegistry, EnsureCluster, EnsureDraResources,
         DeleteRaycluster, WaitForRayclusterGone, DeleteDraResources, ApplyRaycluster,
         WaitForRayclusterReady, CheckDaemon, WaitJobStopped, SubmitDaemon, WaitForHealth,
         StopAllRunning, ListJobs, StopJob, Launch, CheckStale, ApplyRayjob,
         WaitForRayjobTerminal, Done, world
<1> QED BY <1>3, <1>4, <1>5 DEF Next

LEMMA RegistryAlone ==
  ASSUME Inv, Next, Verb("run"), registry, ~registry'
  PROVE  Has("replace")
<1>1. CASE ResetEndpointRegistry
  <2>1. CASE cli.pc = "first_reset" BY <2>1 DEF Inv, RunsOwn
  <2>2. CASE registry' = (registry /\ ~Has("replace")) BY <2>2
  <2> QED BY <1>1, <2>1, <2>2 DEF ResetEndpointRegistry, At
<1>2. ~(Type \/ Interrupt \/ Environment)
  BY DEF Type, Interrupt, Environment, ClusterReady, ClusterGone, RayjobMoves, JobMoves,
         GymPublishes, world
<1>3. Command => ResetEndpointRegistry
  BY DEF Command, CheckCollision, EnsureDeployment, ApplyService, EnsureCluster,
         EnsureDraResources, DeleteRaycluster, WaitForRayclusterGone, DeleteDraResources,
         ApplyRaycluster, WaitForRayclusterReady, CheckDaemon, WaitJobStopped, SubmitDaemon,
         WaitForHealth, StopAllRunning, ListJobs, StopJob, Launch, DeleteDeployment, CheckStale,
         ApplyRayjob, WaitForRayjobTerminal, Done, world
<1> QED BY <1>1, <1>2, <1>3 DEF Next

(* ensure_cluster and ensure_deployment refuse what another user owns, the *)
(* cluster is deleted only on a drift that was read from it, and nothing   *)
(* is stopped or forgotten without --replace: so a run never touches       *)
(* another user's clusters, jobs or Deployment, at whatever call it is.    *)
THEOREM OthersLeftAlone == Spec => LeavesAlone
<1>1. ASSUME Inv, Next, cli.pc # "idle", cli.cmd.verb = "run" PROVE RunLeavesAlone
  <2>1. Verb("run") BY <1>1 DEF Verb
  <2>2. \A r \in Roles : Exists(r) =>
          (clusters[r].owner # Me \/ ~Has("recreate") \/ clusters[r].spec = cli.cmd.spec
             => Untouched(r))
    BY <1>1, <2>1, ClustersAlone
  <2>3. \A r \in Roles : Exists(r) =>
          (clusters[r].owner # Me \/ ~Has("replace") => ~Stops(r))
    BY <1>1, <2>1, JobsAlone
  <2>4. deployment.owner \notin {None, Me} => deployment' = deployment
    BY <1>1, <2>1, DeploymentAlone
  <2>5. registry /\ ~registry' => Has("replace") BY <1>1, <2>1, RegistryAlone
  <2> QED BY <2>2, <2>3, <2>4, <2>5 DEF RunLeavesAlone
<1>2. Inv /\ [Next]_vars => [cli.pc # "idle" /\ cli.cmd.verb = "run" => RunLeavesAlone]_vars
  BY <1>1
<1> QED BY <1>2, NamespaceInOrder, PTL DEF Spec, LeavesAlone
=============================================================================
