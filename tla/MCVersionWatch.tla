--------------------------- MODULE MCVersionWatch ---------------------------
(* VersionWatch on a small instance; each cfg picks what may be published. *)
EXTENDS VersionWatch, TLC

CONSTANTS a, b, c1

Own(config, env_vars, secrets) ==
    [f \in Files |-> CASE f = "config" -> config [] f = "env_vars" -> env_vars [] OTHER -> secrets]
Defaults(config) == [r \in Resources |-> IF r = "config" THEN config ELSE Absent]

\* The file changes, its neighbours come, it goes and all go; defaults come and go.
WatchTrees ==
    {[own |-> o, defaults |-> Defaults(Absent)] :
        o \in {Own(a, Absent, Absent), Own(b, Absent, Absent), Own(a, a, Absent),
               Own(Absent, Absent, a), Own(Absent, Absent, Absent)}}
    \cup {[own |-> Own(a, Absent, Absent), defaults |-> Defaults(b)]}

Raw == [resource |-> "config", inherit |-> FALSE]
Inherited == [resource |-> "config", inherit |-> TRUE]
BothViews == {Raw, Inherited}
InheritedView == {Inherited}

\* The defaults of the configuration are removed, and nothing else.
DefaultsGo == {[own |-> Own(a, Absent, Absent), defaults |-> Defaults(x)] : x \in {a, Absent}}

\* The defaults of the configuration are changed, and nothing else.
DefaultsChange == {[own |-> Own(a, Absent, Absent), defaults |-> Defaults(x)] : x \in {a, b}}
=============================================================================
