----------------------------- MODULE Inheritance -----------------------------
(***************************************************************************)
(* What a service inherits (internal/store/store.go): the defaults of the  *)
(* deployment, the organization and the project are merged in this order,  *)
(* and the service's own file last, over the snapshot and over a past      *)
(* commit alike.  A configuration is a tree, here of two levels: a key's   *)
(* value is a scalar, null, or a map of scalars and nulls.  Environments   *)
(* are flat: plain values and references to secrets, by name.              *)
(***************************************************************************)
EXTENDS Sequences, Naturals

CONSTANTS
    Scalars, Null,
    NoFile          \* no file at that level, or none of the kind

VARIABLES
    configLevels,   \* the config of common.yaml at each level, then config.yaml's
    envLevels       \* the env_vars of each, then env_vars.yaml's

Level == 1..4    \* 1 to 3 the defaults, 4 the service

IsMap(v) == v \notin Scalars \cup {Null}

(***************************************************************************)
(* deepMergeMap, at the depth of leaves and above.                         *)
(***************************************************************************)
Deleted(override) == {k \in DOMAIN override : override[k] = Null}
MergedKeys(base, override) == (DOMAIN base \cup DOMAIN override) \ Deleted(override)

MergeLeaves(base, override) ==
    [k \in MergedKeys(base, override) |->
        IF k \in DOMAIN override THEN override[k] ELSE base[k]]

\* Slip: the override's maps replace the base's.
ShallowMergeMap(base, override) == MergeLeaves(base, override)

DeepMergeMap(base, override) ==
    [k \in MergedKeys(base, override) |->
        CASE k \notin DOMAIN override -> base[k]
          [] k \in DOMAIN base /\ k \in DOMAIN override /\ IsMap(base[k]) /\ IsMap(override[k])
               -> MergeLeaves(base[k], override[k])
          [] OTHER -> override[k]]

EmptyMap == [k \in {} |-> Null]

\* A level without a configuration, or with an empty one, is passed over.
Over(base, level) == IF level = NoFile THEN base ELSE DeepMergeMap(base, level)

\* inheritedConfigFor: nothing if no level has any; a service's empty file counts.
HasConfig ==
    \/ configLevels[4] # NoFile
    \/ \E l \in 1..3 : configLevels[l] # NoFile /\ DOMAIN configLevels[l] # {}

InheritedConfig ==
    IF HasConfig
    THEN Over(Over(Over(Over(EmptyMap, configLevels[1]), configLevels[2]),
              configLevels[3]), configLevels[4])
    ELSE NoFile

(***************************************************************************)
(* mergeEnvVars.                                                           *)
(***************************************************************************)
\* Slip: what is there already stays.
Underlay(base, override) ==
    [k \in DOMAIN base \cup DOMAIN override |->
        IF k \in DOMAIN base THEN base[k] ELSE override[k]]

Overlay(base, override) ==
    [k \in DOMAIN base \cup DOMAIN override |->
        IF k \in DOMAIN override THEN override[k] ELSE base[k]]

MergeEnvVars(base, override) ==
    IF override = NoFile THEN base
    ELSE [plain |-> Overlay(base.plain, override.plain),
          refs |-> Overlay(base.refs, override.refs)]

NoVars == [plain |-> EmptyMap, refs |-> EmptyMap]

\* hasEnvVarsConfig, and a service's empty file counts.
HasEnvVars ==
    \/ envLevels[4] # NoFile
    \/ \E l \in 1..3 : envLevels[l] # NoFile /\ envLevels[l] # NoVars

InheritedEnvVars ==
    IF HasEnvVars
    THEN MergeEnvVars(MergeEnvVars(MergeEnvVars(MergeEnvVars(NoVars,
             envLevels[1]), envLevels[2]), envLevels[3]), envLevels[4])
    ELSE NoFile

(***************************************************************************)
(* What should be true: the result, said without merging.                  *)
(***************************************************************************)
\* The levels that speak of a key, and the last of those that satisfy a condition.
Speaks(k) == {l \in Level : configLevels[l] # NoFile /\ k \in DOMAIN configLevels[l]}
Last(levels) == CHOOSE l \in levels : \A m \in levels : m <= l

\* The maps that a key's value is made of: those after the last level that gives
\* the key something else.
Layers(k) ==
    {l \in Speaks(k) : \A m \in Speaks(k) : m >= l => IsMap(configLevels[m][k])}

\* The last of the layers that speaks of a key in the map has its say; null removes
\* what an earlier one gave.
LeafLayers(k, j) == {l \in Layers(k) : j \in DOMAIN configLevels[l][k]}
HasLeaf(k, j) ==
    /\ LeafLayers(k, j) # {}
    /\ LET l == Last(LeafLayers(k, j))
       IN  \/ configLevels[l][k][j] # Null
           \/ \A m \in Layers(k) : l <= m    \* there was no map to remove it from

\* What a service inherits is, key by key, what the last level that speaks of the
\* key says, maps being put together leaf by leaf; a null removes the key, for good
\* or until a later level sets it anew (deepMergeMap folded over the levels).  A
\* null in the first of the maps that are put together stays in the result as null.
ConfigIsLastWord ==
    InheritedConfig # NoFile =>
        /\ \A k \in DOMAIN InheritedConfig : Speaks(k) # {}
        /\ \A l \in Level : configLevels[l] # NoFile =>
             \A k \in DOMAIN configLevels[l] :
                LET said == configLevels[Last(Speaks(k))][k]
                IN  /\ k \in DOMAIN InheritedConfig <=> said # Null
                    /\ said \in Scalars => InheritedConfig[k] = said
                    /\ IsMap(said) =>
                         InheritedConfig[k] =
                           [j \in {i \in UNION {DOMAIN configLevels[m][k] : m \in Layers(k)} :
                                      HasLeaf(k, i)} |->
                              configLevels[Last(LeafLayers(k, j))][k][j]]

\* An inherited variable has the value of the last level that defines it, plain
\* values and references each on their own, and none is lost (mergeEnvVars).
EnvIsLastWord ==
    InheritedEnvVars # NoFile =>
        \A part \in {"plain", "refs"} :
            LET defines(k) == {l \in Level : /\ envLevels[l] # NoFile
                                             /\ k \in DOMAIN envLevels[l][part]}
                names == UNION {DOMAIN envLevels[l][part] :
                                   l \in {m \in Level : envLevels[m] # NoFile}}
            IN  InheritedEnvVars[part] =
                    [k \in names |-> envLevels[Last(defines(k))][part][k]]

=============================================================================
