------------------------------ MODULE JobSetup ------------------------------
(***************************************************************************)
(* How a job gets its GPUs.  The driver splits the hosts into virtual      *)
(* clusters, pins them to NVLink domains where a segment size is asked     *)
(* for, and starts groups of workers on them: generation engines, policy,  *)
(* value model, teachers.  A cluster asks Ray for its placement groups     *)
(* when its first worker group needs them, so it matters who comes first;  *)
(* groups that do not share GPUs are started by threads of their own, and  *)
(* a reward model's environment places itself whenever its actor runs.     *)
(*                                                                         *)
(* Ray is external: it places a whole placement group or none of it, PACK  *)
(* on as few and SPREAD on as many hosts as it can, and each bundle on any *)
(* free GPU of its host.  Hosts are numbered in the order of their node    *)
(* ids; a GPU is its host and its index there.                             *)
(***************************************************************************)
EXTENDS Integers, Sequences, FiniteSets, SequencesExt

CONSTANTS
  Deployments,     \* the configurations, see Deployment
  MasterPorts,     \* port_range_low .. port_range_high
  PlacementTries,  \* NRL_VIRTUAL_CLUSTER_MAX_RETRIES
  MaxSetupFaults   \* bound: engines and servers that fail to start

Unpinned == "unknown"      \* NVLINK_DOMAIN_UNKNOWN
Backends == {"vllm", "sglang", "megatron"}

(* hosts: the NVLink domain and rank ray.sub registered for each; mp: GPUs  *)
(* of an engine; infNodes, infGpus: colocated.resources; rm: nodes of the   *)
(* reward model, or its GPUs on a single node; teachers: nodes of each      *)
(* teacher (grpo) or how many there are (xtoken).                           *)
Deployment ==
  [hosts : Seq([domain : STRING, topo : Int]),
   algo : {"grpo", "ppo", "distillation", "pairs", "xtoken"}, nodes : Nat, gpus : Nat,
   colocated : BOOLEAN, backend : Backends, mp : Nat \ {0}, infNodes : Nat, infGpus : Nat,
   segment : Nat, rm : Nat, teachers : Seq(Nat), gym : BOOLEAN]

ASSUME SetupConstants ==
  /\ PlacementTries \in Nat \ {0} /\ MaxSetupFaults \in Nat
  /\ Deployments \subseteq Deployment
  /\ \A d \in Deployments : d.algo = "distillation" => d.backend # "sglang"    \* it starts none
  /\ \A d \in Deployments : \A h, i \in DOMAIN d.hosts :    \* the ranks ray.sub registers differ
       d.hosts[h].domain # Unpinned /\ d.hosts[h].topo = d.hosts[i].topo => h = i

VARIABLES
  deploy, setupAt,  \* "none", "split", "starting", "ready", "raised"
  alive,            \* the hosts that have joined the Ray cluster
  clusters,         \* [name -> RayVirtualCluster]
  groups,           \* [name -> its workers, its engines, its master port]
  later,            \* the stages of the setup that are still to come
  tasks,             \* [thread of this stage -> the operations before it]
  broken,           \* threads that have raised
  attempts,         \* [thread -> tries of its placement]
  spare,            \* hosts left for teachers; Unread: not looked at
  comm,             \* <<rank, GPU>>: the group that updates the weights
  setupFaults

setupVars == <<deploy, setupAt, alive, clusters, groups, later, tasks, broken, attempts,
               spare, comm, setupFaults>>

Unread == {0}
Threads == {"main", "gen", "policy", "gym", "rm"}
CeilDiv(a, b) == (a + b - 1) \div b
LesserOf(a, b) == IF a < b THEN a ELSE b
SumOver(s) == FoldLeft(LAMBDA a, b : a + b, 0, s)

-----------------------------------------------------------------------------
(* The hosts: whole segments of each domain, in topological order.         *)

TopoRank(h) == deploy.hosts[h].topo
DomainOf(h) == deploy.hosts[h].domain
DomainRank(D, hs) == Min({TopoRank(h) : h \in {i \in hs : DomainOf(i) = D}})
InTopoOrder(hs) == SetToSortSeq(hs, LAMBDA a, b : TopoRank(a) < TopoRank(b))
SelectSegments(top, size) ==
  LET known == {h \in top : DomainOf(h) # Unpinned}
      doms == SetToSortSeq({DomainOf(h) : h \in known},
                           LAMBDA a, b : DomainRank(a, known) < DomainRank(b, known))
      Whole(D) == LET q == InTopoOrder({h \in known : DomainOf(h) = D})
                  IN  SubSeq(q, 1, (Len(q) \div size) * size)
  IN  FoldLeft(LAMBDA q, D : q \o Whole(D), <<>>, doms)

Refused == [ok |-> FALSE, pins |-> <<>>, rest |-> {}]
Unplanned(rest) == [ok |-> TRUE, pins |-> <<>>, rest |-> rest]
PrepareSegments(size, nodes, top) ==
  LET q == SelectSegments(top, size)
  IN  CASE size = 0 -> Unplanned({})
        [] size > 0 /\ (\A h \in top : DomainOf(h) = Unpinned) -> Unplanned(top)
        [] OTHER -> IF nodes % size # 0 \/ Len(q) < nodes THEN Refused
                    ELSE [ok |-> TRUE, pins |-> [i \in 1 .. nodes |-> DomainOf(q[i])],
                          rest |-> top \ {q[i] : i \in 1 .. nodes}]

(* A RayVirtualCluster that has no placement groups yet.                   *)
NewCluster(nodes, perNode, share, segment, pins) ==
  [nodes |-> nodes, perNode |-> perNode, share |-> share, segment |-> segment, pins |-> pins,
   unified |-> FALSE, order |-> <<>>, ports |-> {}]
OneCluster(nodes, perNode, share, segment) ==
  LET P == PrepareSegments(segment, nodes, alive)
  IN  IF ~P.ok \/ nodes <= 0 \/ perNode <= 0 THEN Refused
      ELSE [ok |-> TRUE, rest |-> P.rest,
            of |-> [train |-> NewCluster(nodes, perNode, share, segment, P.pins)]]

-----------------------------------------------------------------------------
(* Each algorithm's setup: who gets which hosts.                           *)

IsMegatron == deploy.backend = "megatron"
Engine == deploy.mp
OnOneNode == deploy.nodes = 1
PolicyNodes ==
  (IF OnOneNode THEN 1 ELSE deploy.nodes - deploy.rm)
    - (IF deploy.algo = "grpo" THEN SumOver(deploy.teachers) ELSE 0)
PolicyGpus == IF OnOneNode THEN deploy.gpus - deploy.rm ELSE deploy.gpus

Apart(trainNodes, trainGpus, infNodes, share, perInstance, enough) ==
  LET P == PrepareSegments(deploy.segment, trainNodes, alive)
      pinned == P.pins # <<>> /\ perInstance > 1 /\ infNodes % perInstance = 0
      Q == IF pinned THEN PrepareSegments(perInstance, infNodes, P.rest) ELSE Unplanned(P.rest)
  IN  IF ~(trainNodes > 0 /\ infNodes > 0 /\ trainGpus > 0 /\ deploy.infGpus > 0 /\ enough /\ P.ok /\ Q.ok)
        THEN Refused
      ELSE [ok |-> TRUE, rest |-> Q.rest,
            of |-> [train |-> NewCluster(trainNodes, trainGpus, share, deploy.segment, P.pins),
                    inference |-> NewCluster(infNodes, deploy.infGpus, share,
                                             IF pinned THEN perInstance ELSE 0, Q.pins)]]

GRPOSplit ==
  LET one == PolicyNodes = 1
      trainNodes == IF one THEN 1 ELSE PolicyNodes - deploy.infNodes
      infNodes == IF one THEN 1 ELSE deploy.infNodes
      trainGpus == IF ~one THEN deploy.gpus
                   ELSE deploy.gpus - deploy.infGpus - (IF OnOneNode THEN deploy.rm ELSE 0)
      perInstance == IF deploy.backend = "vllm" THEN CeilDiv(Engine, deploy.infGpus) ELSE 1
  IN  IF deploy.colocated
        THEN OneCluster(PolicyNodes, PolicyGpus, IF IsMegatron THEN 1 ELSE 2, deploy.segment)
      ELSE IF ~one /\ deploy.infGpus # deploy.gpus THEN Refused
      ELSE Apart(trainNodes, trainGpus, infNodes, 1, perInstance,
                 deploy.segment = 0 \/ Cardinality(alive) >= trainNodes + infNodes)

PPOSplit ==
  IF ~deploy.colocated \/ IsMegatron THEN Refused ELSE OneCluster(PolicyNodes, PolicyGpus, 3, 0)

DistillationSplit ==
  LET one == OnOneNode
  IN  IF deploy.colocated
        THEN OneCluster(deploy.nodes, deploy.gpus, IF IsMegatron THEN 1 ELSE 3, deploy.segment)
      ELSE IF IsMegatron \/ (~one /\ deploy.infGpus # deploy.gpus) THEN Refused
      ELSE Apart(IF one THEN 1 ELSE deploy.nodes - deploy.infNodes,
                 IF one THEN deploy.gpus - deploy.infGpus ELSE deploy.gpus,
                 IF one THEN 1 ELSE deploy.infNodes, 3, 1, TRUE)

PairsSplit == OneCluster(deploy.nodes, deploy.gpus, 1, deploy.segment)
XTokenSplit == OneCluster(deploy.nodes, deploy.gpus, Len(deploy.teachers) + 1, 0)

Split ==
  CASE deploy.algo = "grpo" -> GRPOSplit
    [] deploy.algo = "ppo" -> PPOSplit
    [] deploy.algo = "distillation" -> DistillationSplit
    [] deploy.algo = "pairs" -> PairsSplit
    [] deploy.algo = "xtoken" -> XTokenSplit

-----------------------------------------------------------------------------
(* What it starts on them: stages, each a set of threads, each a sequence  *)
(* of <<"place", cluster, unified>>, <<"start", group, cluster>>, <<"load">>, *)
(* <<"gym">>, <<"join">> and <<"teacher", i>>.                             *)

InferenceOf == IF deploy.colocated THEN "train" ELSE "inference"
AcrossNodes(cl) == deploy.backend = "sglang" \/ Engine > cl.perNode
StartPolicy(name) == << <<"place", "train", FALSE>>, <<"start", name, "train">> >>
StartEngine(of) ==
  << <<"place", InferenceOf, AcrossNodes(of[InferenceOf])>>, <<"start", "engine", InferenceOf>> >>
Load == << <<"load">> >>
Gym == << <<"gym">> >>

OnThread(ops) == [main |-> ops]
EngineAndPolicy(of) ==
  IF deploy.colocated THEN OnThread(StartEngine(of) \o Load \o StartPolicy("policy"))
  ELSE [gen |-> StartEngine(of) \o Load, policy |-> StartPolicy("policy")]
WithGym ==
  IF deploy.colocated THEN [main |-> Load \o StartPolicy("policy"), gym |-> Gym]
  ELSE [gen |-> Load, policy |-> StartPolicy("policy"), gym |-> Gym]
Join == IF deploy.colocated THEN <<>> ELSE <<OnThread(<< <<"join">> >>)>>
GymIf == IF deploy.gym THEN Gym ELSE <<>>

ClaimPinned(of) ==
  IF deploy.colocated \/ of.train.pins = <<>> THEN <<>>
  ELSE <<OnThread(<< <<"place", "train", FALSE>> >>
         \o (IF of.inference.pins = <<>> THEN <<>>
             ELSE << <<"place", "inference", AcrossNodes(of.inference)>> >>))>>

GRPOStages(of) ==
  ClaimPinned(of)
  \o (CASE IsMegatron ->
             <<OnThread(StartPolicy("policy")
                        \o (IF deploy.colocated THEN <<>> ELSE StartEngine(of) \o Load) \o GymIf)>>
        [] deploy.backend = "vllm" /\ deploy.gym -> <<OnThread(StartEngine(of)), WithGym>>
        [] OTHER -> <<EngineAndPolicy(of)>>)
  \o Join
  \o <<OnThread([i \in DOMAIN deploy.teachers |-> <<"teacher", i>>])>>

PPOStages(of) == <<OnThread(StartEngine(of) \o Load \o StartPolicy("policy") \o StartPolicy("value"))>>

DistillationStages(of) ==
  <<OnThread(StartPolicy("teacher"))>>
  \o (CASE IsMegatron -> <<>>
        [] deploy.backend = "vllm" /\ deploy.gym -> <<OnThread(StartEngine(of)), [gen |-> Load, gym |-> Gym]>>
        [] OTHER -> <<OnThread(StartEngine(of) \o Load)>>)
  \o <<OnThread(StartPolicy("policy"))>> \o Join

XTokenStages ==
  <<OnThread(FlattenSeq([i \in DOMAIN deploy.teachers |-> StartPolicy("teacher" \o ToString(i))])
             \o StartPolicy("policy"))>>

Stages(of) ==
  CASE deploy.algo = "grpo" -> GRPOStages(of)
    [] deploy.algo = "ppo" -> PPOStages(of)
    [] deploy.algo = "distillation" -> DistillationStages(of)
    [] deploy.algo = "pairs" -> <<OnThread(StartPolicy("policy"))>>
    [] deploy.algo = "xtoken" -> XTokenStages

-----------------------------------------------------------------------------
(* Placement groups.                                                       *)

TakenGpus == UNION {ToSet(clusters[c].order) : c \in DOMAIN clusters}
FreeGpus(hs) == (hs \X (0 .. deploy.gpus - 1)) \ TakenGpus
WorldOf(c) == clusters[c].nodes * clusters[c].perNode
HostsOf(gs) == {g[1] : g \in gs}

(* Every way to place bundles, bundle j in a domain wants[j], on free GPUs. *)
Placings(wants, free, spread) ==
  LET Fits == {f \in [DOMAIN wants -> free] :
                 /\ IsInjective(f)
                 /\ \A j \in DOMAIN wants : wants[j] \in {Unpinned, DomainOf(f[j][1])}}
      Width(f) == Cardinality(HostsOf(ToSet(f)))
      Best == IF spread THEN Max({Width(f) : f \in Fits}) ELSE Min({Width(f) : f \in Fits})
  IN  {f \in Fits : Width(f) = Best}

Want(c, node) == IF clusters[c].pins = <<>> THEN Unpinned ELSE clusters[c].pins[node]
Bundles(c, node) == [j \in 1 .. clusters[c].perNode |-> Want(c, node)]

(* A group per node, one after the other, as far as they can be placed; or *)
(* one for all nodes.                                                      *)
PerNode(c) ==
  LET From[node \in 1 .. clusters[c].nodes + 1, free \in SUBSET FreeGpus(alive)] ==
        LET here == IF node > clusters[c].nodes THEN {} ELSE Placings(Bundles(c, node), free, FALSE)
        IN  IF here = {} THEN {<<>>}
            ELSE UNION {{f \o rest : rest \in From[node + 1, free \ ToSet(f)]} : f \in here}
  IN  From[1, FreeGpus(alive)]
Unified(c, spread) ==
  LET all == FlattenSeq([node \in 1 .. clusters[c].nodes |-> Bundles(c, node)])
      here == Placings(all, FreeGpus(alive), spread)
  IN  IF here = {} THEN {<<>>} ELSE here

(* Ranks follow the domains, their hosts, and the GPUs of a host.          *)
TopologyKnown(hs) == \E h \in hs : DomainOf(h) # Unpinned
Before(hs, a, b) ==
  LET Key(g) == IF TopologyKnown(hs) THEN <<DomainRank(DomainOf(g[1]), hs), TopoRank(g[1]), g[2]>>
                ELSE <<g[1], 0, g[2]>>
      i == {k \in 1 .. 3 : Key(a)[k] # Key(b)[k]}
  IN  i # {} /\ Key(a)[Min(i)] < Key(b)[Min(i)]
AsPlaced(order) == order
ByTopology(order) ==
  LET hs == HostsOf(ToSet(order)) IN SortSeq(order, LAMBDA a, b : Before(hs, a, b))

(* Trimmed: a domain has hosts that fill no segment.                       *)
Trimmed(c, order) ==
  LET hs == HostsOf(ToSet(order))
      Nodes(D) == Cardinality({h \in hs : DomainOf(h) = D})
      Held(D) == Len(SelectSeq(order, LAMBDA g : DomainOf(g[1]) = D))
      size == clusters[c].segment
  IN  /\ size > 0 /\ TopologyKnown(hs)
      /\ \E h \in hs : LET D == DomainOf(h)
                       IN  Held(D) > (Nodes(D) \div size) * size * clusters[c].perNode

-----------------------------------------------------------------------------
(* Workers.                                                                *)

Slices(s, n) == [i \in 1 .. Len(s) \div n |-> SubSeq(s, (i - 1) * n + 1, i * n)]
OneGroup(c) == clusters[c].unified \/ clusters[c].nodes = 1
NodeChunks(c, n) ==
  FlattenSeq([i \in 1 .. clusters[c].nodes |->
                Slices(SubSeq(clusters[c].order, (i - 1) * clusters[c].perNode + 1, i * clusters[c].perNode), n)])

(* vLLM ties consecutive bundles; Megatron's ranks follow one another;     *)
(* SGLang has an actor on every so many bundles, and it takes the GPUs of  *)
(* its host from the bundle's on.                                          *)
EngineGroups(c) ==
  LET local == LesserOf(Engine, clusters[c].perNode)
      Actor(i) == LET g == clusters[c].order[(i - 1) * local + 1]
                  IN  [j \in 1 .. local |-> <<g[1], g[2] + j - 1>>]
      nodes == IF Engine < clusters[c].perNode THEN 1 ELSE Engine \div clusters[c].perNode
  IN  CASE deploy.backend = "sglang" ->
             [e \in 1 .. WorldOf(c) \div (local * nodes) |->
                FlattenSeq([k \in 1 .. nodes |-> Actor((e - 1) * nodes + k)])]
        [] deploy.backend = "vllm" /\ ~OneGroup(c) -> NodeChunks(c, Engine)
        [] OTHER -> Slices(clusters[c].order, Engine)

EnginesFit(c) ==
  deploy.backend # "vllm" \/ (WorldOf(c) % Engine = 0 /\ Len(EngineGroups(c)) = WorldOf(c) \div Engine)

-----------------------------------------------------------------------------
(* The threads of the setup.                                               *)

NoSetup ==
  /\ deploy = {} /\ setupAt = "none" /\ alive = {} /\ clusters = <<>> /\ groups = <<>>
  /\ later = <<>> /\ tasks = <<>> /\ broken = {} /\ attempts = [t \in Threads |-> 0]
  /\ spare = Unread /\ comm = {} /\ setupFaults = 0

Busy(t) == setupAt \in {"split", "starting", "ready"} /\ t \in DOMAIN tasks \ broken /\ tasks[t] # <<>>
Doing(t, op) == Busy(t) /\ Head(tasks[t])[1] = op
Arg(t, i) == Head(tasks[t])[i]
Proceed(t) ==
  /\ tasks' = [tasks EXCEPT ![t] = Tail(@)] /\ attempts' = [attempts EXCEPT ![t] = 0]
  /\ UNCHANGED broken
Raise(t) == broken' = broken \cup {t} /\ UNCHANGED <<tasks, attempts>>
SetupFault(t) == setupFaults < MaxSetupFaults /\ setupFaults' = setupFaults + 1 /\ Raise(t)

(* The environments' actors are created first; a host may come late.       *)
SetUp(d) ==
  /\ setupAt = "none" /\ setupAt' = "split" /\ deploy' = d
  /\ \E late \in {0, Len(d.hosts)} : alive' = DOMAIN d.hosts \ {late}
  /\ clusters' = IF d.rm = 0 THEN <<>>
                 ELSE [rm |-> IF d.nodes = 1 THEN NewCluster(1, d.rm, 1, 0, <<>>)
                              ELSE NewCluster(d.rm, d.gpus, 1, 0, <<>>)]
  /\ tasks' = IF d.rm = 0 THEN <<>>
             ELSE [rm |-> << <<"place", "rm", FALSE>>, <<"start", "rm", "rm">> >>]
  /\ UNCHANGED <<groups, later, broken, attempts, spare, comm, setupFaults>>

HostJoins ==
  /\ setupAt \in {"split", "starting"} /\ alive # DOMAIN deploy.hosts
  /\ alive' = DOMAIN deploy.hosts
  /\ UNCHANGED <<deploy, setupAt, clusters, groups, later, tasks, broken, attempts, spare, comm, setupFaults>>

SplitNodes ==
  /\ setupAt = "split"
  /\ \E S \in {Split} :
       IF ~S.ok THEN setupAt' = "raised" /\ UNCHANGED <<clusters, later, tasks, spare>>
       ELSE /\ setupAt' = "starting" /\ clusters' = S.of @@ clusters
            /\ \E stages \in {Stages(S.of)} :
                 tasks' = stages[1] @@ tasks /\ later' = Tail(stages)
            /\ spare' = IF S.rest = {} THEN Unread ELSE S.rest
  /\ UNCHANGED <<deploy, alive, groups, broken, attempts, comm, setupFaults>>

(* _init_placement_groups: tries again when the job's hosts are too few,   *)
(* not when they are busy.                                                 *)
Enough(c) == WorldOf(c) <= Cardinality(alive) * deploy.gpus
PlacementWays(t) ==
  LET c == Arg(t, 2)
  IN  IF Arg(t, 3) THEN Unified(c, deploy.colocated /\ deploy.backend # "sglang") ELSE PerNode(c)

PlacedBefore(t) ==
  Doing(t, "place") /\ clusters[Arg(t, 2)].order # <<>> /\ Proceed(t) /\ UNCHANGED clusters
TooFewHosts(t) ==
  /\ Doing(t, "place") /\ clusters[Arg(t, 2)].order = <<>> /\ ~Enough(Arg(t, 2))
  /\ IF attempts[t] + 1 = PlacementTries THEN Raise(t)
     ELSE attempts' = [attempts EXCEPT ![t] = @ + 1] /\ UNCHANGED <<tasks, broken>>
  /\ UNCHANGED clusters
Place(t) ==
  /\ Doing(t, "place") /\ clusters[Arg(t, 2)].order = <<>> /\ Enough(Arg(t, 2))
  /\ LET c == Arg(t, 2)
     IN  \E o \in PlacementWays(t) :
           IF Len(o) < WorldOf(c) THEN Raise(t) /\ UNCHANGED clusters    \* timed out: all are removed
           ELSE /\ clusters' = [clusters EXCEPT ![c].unified = Arg(t, 3),
                                                ![c].order = IF Arg(t, 3) THEN ByTopology(o) ELSE o]
                /\ IF Arg(t, 3) /\ Trimmed(c, o) THEN Raise(t) ELSE Proceed(t)
PlaceGroups(t) ==
  /\ PlacedBefore(t) \/ TooFewHosts(t) \/ Place(t)
  /\ UNCHANGED <<deploy, setupAt, alive, groups, later, spare, comm, setupFaults>>

MasterPort(c, port) == port \in MasterPorts \ clusters[c].ports
StartWorkers(t) ==
  /\ Doing(t, "start")
  /\ LET name == Arg(t, 2)
         c == Arg(t, 3)
         engine == name = "engine"
         Started(port) ==
           groups' = (name :> [on |-> c, ranks |-> clusters[c].order, port |-> port,
                               engines |-> IF engine THEN EngineGroups(c) ELSE <<>>]) @@ groups
     IN  /\ Cardinality({g \in DOMAIN groups : groups[g].on = c}) < clusters[c].share    \* else Ray waits
         /\ IF engine /\ ~EnginesFit(c)
              THEN Raise(t) /\ UNCHANGED <<clusters, groups, setupFaults>>
            ELSE IF engine /\ deploy.backend = "sglang"
              THEN Started(0) /\ Proceed(t) /\ UNCHANGED <<clusters, setupFaults>>
            ELSE \/ \E port \in MasterPorts :
                      /\ MasterPort(c, port) /\ Started(port) /\ Proceed(t)
                      /\ clusters' = [clusters EXCEPT ![c].ports = @ \cup {port}]
                      /\ UNCHANGED setupFaults
                 \/ clusters[c].ports # {} /\ SetupFault(t) /\ UNCHANGED <<clusters, groups>>    \* ten ports, all taken
  /\ UNCHANGED <<deploy, setupAt, alive, later, spare, comm>>

LoadOrGym(t) ==
  /\ Doing(t, "load") \/ Doing(t, "gym")
  /\ (Proceed(t) /\ UNCHANGED setupFaults) \/ SetupFault(t)
  /\ UNCHANGED <<deploy, setupAt, alive, clusters, groups, later, spare, comm>>

(* One communicator of all trainers and all engines.  SGLang's engines do  *)
(* not join: the trainers wait for them until the store times out.         *)
JoinCollective(t) ==
  /\ Doing(t, "join")
  /\ LET trainers == groups["policy"].ranks
         engines == groups["engine"].engines
         step == Len(groups["engine"].ranks) \div Len(engines)
     IN  IF deploy.backend = "sglang" THEN Raise(t) /\ UNCHANGED <<clusters, comm>>
         ELSE /\ \E port \in MasterPorts :
                   MasterPort("train", port) /\ clusters' = [clusters EXCEPT !["train"].ports = @ \cup {port}]
              /\ comm' = {<<r - 1, trainers[r]>> : r \in DOMAIN trainers}
                   \cup {<<Len(trainers) + (e - 1) * step + l - 1, engines[e][l]>>
                          : e \in DOMAIN engines, l \in 1 .. step}
              /\ Proceed(t)
  /\ UNCHANGED <<deploy, setupAt, alive, groups, later, spare, setupFaults>>

(* Each teacher is one segment of what the ones before it have left.       *)
PlaceTeacher(t) ==
  /\ Doing(t, "teacher")
  /\ LET i == Arg(t, 2)
         name == "teacher" \o ToString(i)
         n == deploy.teachers[i]
         size == IF deploy.segment = 0 THEN 0 ELSE n
         P == PrepareSegments(size, n, IF spare = Unread THEN alive ELSE spare)
     IN  IF ~P.ok THEN Raise(t) /\ UNCHANGED <<clusters, spare>>
         ELSE /\ clusters' = (name :> NewCluster(n, deploy.gpus, 1, size, P.pins)) @@ clusters
              /\ spare' = IF spare = Unread THEN Unread ELSE P.rest
              /\ tasks' = [tasks EXCEPT ![t] = << <<"place", name, FALSE>>, <<"start", name, name>> >> \o Tail(@)]
              /\ UNCHANGED <<broken, attempts>>
  /\ UNCHANGED <<deploy, setupAt, alive, groups, later, comm, setupFaults>>

EndStage ==
  /\ setupAt = "starting"
  /\ LET mine == DOMAIN tasks \ {"rm"}
         rest == [t \in DOMAIN tasks \cap {"rm"} |-> tasks[t]]
     IN  /\ \A t \in mine : tasks[t] = <<>> \/ t \in broken
         /\ CASE mine \cap broken # {} -> setupAt' = "raised" /\ UNCHANGED <<tasks, later>>
              [] mine \cap broken = {} /\ later = <<>> -> setupAt' = "ready" /\ UNCHANGED <<tasks, later>>
              [] mine \cap broken = {} /\ later # <<>> ->
                   tasks' = later[1] @@ rest /\ later' = Tail(later) /\ UNCHANGED setupAt
  /\ UNCHANGED <<deploy, alive, clusters, groups, broken, attempts, spare, comm, setupFaults>>

SetupStep ==
  \/ HostJoins \/ SplitNodes \/ EndStage
  \/ \E t \in Threads :
       PlaceGroups(t) \/ StartWorkers(t) \/ LoadOrGym(t) \/ JoinCollective(t) \/ PlaceTeacher(t)

SetupOver == setupAt \in {"ready", "raised"} /\ (setupAt = "ready" => ~Busy("rm"))

-----------------------------------------------------------------------------
(* Everyone is where the others think it is: no GPU is in two clusters; an *)
(* engine's GPUs are its own, on as few hosts as hold it and, when its     *)
(* nodes are pinned to segments that hold it, in one NVLink domain; the    *)
(* ranks of a node of the trainers are on one host; groups that share a    *)
(* cluster do not share a master port; and the group that updates the      *)
(* weights has every trainer and every engine's GPU at a rank of its own.  *)
GPUsApart ==
  \A c, d \in DOMAIN clusters :
    /\ IsInjective(clusters[c].order)
    /\ c # d => ToSet(clusters[c].order) \cap ToSet(clusters[d].order) = {}

EngineInPlace(e, c) ==
  /\ IsInjective(e) /\ ToSet(e) \subseteq ToSet(clusters[c].order)
  /\ Cardinality(HostsOf(ToSet(e))) = CeilDiv(Len(e), LesserOf(Len(e), clusters[c].perNode))
  /\ clusters[c].pins # <<>> /\ (clusters[c].segment * clusters[c].perNode) % Len(e) = 0
       => Cardinality({DomainOf(h) : h \in HostsOf(ToSet(e))}) = 1

GroupInPlace(g) ==
  LET c == groups[g].on
      engines == groups[g].engines
      n == clusters[c].perNode
  IN  /\ \A e \in DOMAIN engines : EngineInPlace(engines[e], c)
      /\ \A e, f \in DOMAIN engines : e # f => ToSet(engines[e]) \cap ToSet(engines[f]) = {}
      /\ \A i \in 1 .. clusters[c].nodes :
           Cardinality(HostsOf(ToSet(SubSeq(groups[g].ranks, (i - 1) * n + 1, i * n)))) = 1
      /\ \A f \in DOMAIN groups \ {g} : groups[f].on = c => groups[f].port # groups[g].port

CommComplete ==
  comm # {} =>
    /\ {p[1] : p \in comm} = 0 .. Cardinality(comm) - 1
    /\ {p[2] : p \in comm} = ToSet(clusters["train"].order) \cup ToSet(clusters["inference"].order)
    /\ Cardinality(comm) = WorldOf("train") + WorldOf("inference")

(* The parts above together, from the split of the nodes to the last       *)
(* worker of a job, whichever thread came first.                           *)
EveryoneInPlace == GPUsApart /\ CommComplete /\ \A g \in DOMAIN groups : GroupInPlace(g)
=============================================================================
