-------------------------- MODULE MCClusterLauncher --------------------------
EXTENDS ClusterLauncher

Order == <<"gym", "training">>
GymOnly == {"gym"}

Typed(verb, user, spec, opts) ==
  [verb |-> verb, user |-> user, spec |-> spec, opts |-> opts]

(* Two users and two renderings of the manifests; each flag is met alone   *)
(* and with those it works together with.                                  *)
Lines ==
  {Typed("run", "ann", "old", o) :
     o \in {{}, {"replace", "exec"}, {"skip_daemons"}}}
  \cup {Typed("run", "ann", "new", o) : o \in {{}, {"recreate"}}}
  \cup {Typed("run", "bob", "new", {"replace", "recreate"})}
  \cup {Typed("up", "bob", "new", {"wait"})}
  \cup {Typed("down", "ann", "old", o) : o \in {{}, {"wait"}}}
  \cup {Typed("rayjob", "ann", "old", {"wait"})}
=============================================================================
