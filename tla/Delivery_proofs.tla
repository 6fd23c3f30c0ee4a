--------------------------- MODULE Delivery_proofs ---------------------------
(***************************************************************************)
(* The way from a commit to a running pod: what the agent's loop holds for *)
(* handled is running in the cluster, changes are applied in time, and     *)
(* what a service is served is what its levels say.                        *)
(***************************************************************************)
EXTENDS Agent, Debouncer, Inheritance, TLAPS

(***************************************************************************)
(* What a service inherits, for any keys, values and levels: the merge of  *)
(* the first n levels is what the last of them that speaks of a key says,  *)
(* for n from none to all.                                                 *)
(***************************************************************************)
LEMMA LastOf ==
    ASSUME NEW S \in SUBSET Level, S # {}
    PROVE  Last(S) \in S /\ \A m \in S : m <= Last(S)
<1>0. S \subseteq 1..4
    BY DEF Level
<1>1. CASE 4 \in S
  <2>1. 4 \in S /\ \A m \in S : m <= 4
      BY <1>0, <1>1
  <2> QED
      BY <2>1 DEF Last
<1>2. CASE 4 \notin S /\ 3 \in S
  <2>1. 3 \in S /\ \A m \in S : m <= 3
      BY <1>0, <1>2
  <2> QED
      BY <2>1 DEF Last
<1>3. CASE 4 \notin S /\ 3 \notin S /\ 2 \in S
  <2>1. 2 \in S /\ \A m \in S : m <= 2
      BY <1>0, <1>3
  <2> QED
      BY <2>1 DEF Last
<1>4. CASE 4 \notin S /\ 3 \notin S /\ 2 \notin S
  <2>1. \A m \in S : m = 1
      BY <1>0, <1>4
  <2>2. 1 \in S /\ \A m \in S : m <= 1
      BY <2>1
  <2> QED
      BY <2>2 DEF Last
<1> QED
    BY <1>1, <1>2, <1>3, <1>4

LEMMA LastIs ==
    ASSUME NEW S \in SUBSET Level, NEW l \in S, \A m \in S : m <= l
    PROVE  Last(S) = l
<1>1. Last(S) \in S /\ l <= Last(S) /\ Last(S) <= l
    BY LastOf
<1>2. \A m \in S : m \in Int
    BY DEF Level
<1> QED
    BY <1>1, <1>2

\* Environments: the levels to n that define a name, and what they make together.
Defines(part, k, n) == {l \in 1..n : envLevels[l] # NoFile /\ k \in DOMAIN envLevels[l][part]}

NamesTo(part, n) == UNION {DOMAIN envLevels[l][part] : l \in {m \in 1..n : envLevels[m] # NoFile}}

EnvTo(part, n) ==
    [k \in NamesTo(part, n) |-> envLevels[Last(Defines(part, k, n))][part][k]]

LEMMA EnvStep ==
    ASSUME NEW part \in {"plain", "refs"}, NEW n \in 0..3, NEW base, base[part] = EnvTo(part, n)
    PROVE  MergeEnvVars(base, envLevels[n + 1])[part] = EnvTo(part, n + 1)
<1> DEFINE level == envLevels[n + 1]
           result == MergeEnvVars(base, level)[part]
<1>0. \A k : k \in NamesTo(part, n + 1) <=> Defines(part, k, n + 1) # {}
    BY DEF NamesTo, Defines
<1>1. CASE level = NoFile
  <2>1. NamesTo(part, n + 1) = NamesTo(part, n)
      BY <1>1 DEF NamesTo
  <2>2. \A k : Defines(part, k, n + 1) = Defines(part, k, n)
      BY <1>1 DEF Defines
  <2> QED
      BY <1>1, <2>1, <2>2 DEF MergeEnvVars, EnvTo
<1>2. CASE level # NoFile
  <2>1. result = Overlay(base[part], level[part])
      BY <1>2 DEF MergeEnvVars
  <2>2. NamesTo(part, n + 1) = NamesTo(part, n) \cup DOMAIN level[part]
      BY <1>2 DEF NamesTo
  <2>3. DOMAIN base[part] = NamesTo(part, n)
      BY DEF EnvTo
  <2>4. ASSUME NEW k \in DOMAIN level[part]
        PROVE  Last(Defines(part, k, n + 1)) = n + 1
    <3>1. n + 1 \in Defines(part, k, n + 1) /\ Defines(part, k, n + 1) \in SUBSET Level
        BY <1>2 DEF Defines, Level
    <3>2. \A m \in Defines(part, k, n + 1) : m <= n + 1
        BY DEF Defines
    <3> QED
        BY <3>1, <3>2, LastIs
  <2>5. ASSUME NEW k, k \notin DOMAIN level[part]
        PROVE  Defines(part, k, n + 1) = Defines(part, k, n)
      BY <2>5 DEF Defines
  <2> HIDE DEF result, level
  <2>6. result = [k \in NamesTo(part, n + 1) |->
                    IF k \in DOMAIN level[part] THEN level[part][k] ELSE base[part][k]]
      BY <2>1, <2>2, <2>3 DEF Overlay
  <2>7. \A k \in NamesTo(part, n + 1) : k \notin DOMAIN level[part] =>
            base[part][k] = envLevels[Last(Defines(part, k, n + 1))][part][k]
      BY <2>2, <2>5 DEF EnvTo
  <2>8. \A k \in DOMAIN level[part] :
            level[part][k] = envLevels[Last(Defines(part, k, n + 1))][part][k]
      BY <2>4 DEF level
  <2> QED
      BY <2>6, <2>7, <2>8 DEF EnvTo, result, level
<1> QED
    BY <1>1, <1>2

\* Whatever the levels hold, an inherited variable has the value of the last level
\* that defines it, and none is lost (mergeEnvVars over the levels).
THEOREM EnvsAreLastWords == EnvIsLastWord
<1> SUFFICES ASSUME InheritedEnvVars # NoFile, NEW part \in {"plain", "refs"}
             PROVE  InheritedEnvVars[part] = EnvTo(part, 4)
    BY DEF EnvIsLastWord, EnvTo, NamesTo, Defines, Level
<1>1. NoVars[part] = EnvTo(part, 0)
  <2>1. NamesTo(part, 0) = {}
      BY DEF NamesTo
  <2>2. NoVars[part] = [k \in {} |-> Null]
      BY DEF NoVars, EmptyMap
  <2> QED
      BY <2>1, <2>2 DEF EnvTo
<1> DEFINE e1 == MergeEnvVars(NoVars, envLevels[1])
           e2 == MergeEnvVars(e1, envLevels[2])
           e3 == MergeEnvVars(e2, envLevels[3])
           e4 == MergeEnvVars(e3, envLevels[4])
<1>2. e1[part] = EnvTo(part, 1)
  <2>1. envLevels[0 + 1] = envLevels[1] /\ EnvTo(part, 0 + 1) = EnvTo(part, 1)
      OBVIOUS
  <2> QED
      BY <1>1, <2>1, EnvStep, 0 \in 0..3
<1> HIDE DEF e1
<1>3. e2[part] = EnvTo(part, 2)
    BY <1>2, EnvStep, 1 + 1 = 2, 1 \in 0..3
<1> HIDE DEF e2
<1>4. e3[part] = EnvTo(part, 3)
    BY <1>3, EnvStep, 2 + 1 = 3, 2 \in 0..3
<1> HIDE DEF e3
<1>5. e4[part] = EnvTo(part, 4)
    BY <1>4, EnvStep, 3 + 1 = 4, 3 \in 0..3
<1>6. InheritedEnvVars = e4
    BY DEF InheritedEnvVars, e1, e2, e3
<1> QED
    BY <1>5, <1>6

(***************************************************************************)
(* Configurations, key by key: a key's last word so far, the maps that its *)
(* value is put together from, and that value.                             *)
(***************************************************************************)
SpeaksTo(k, n) == {l \in 1..n : configLevels[l] # NoFile /\ k \in DOMAIN configLevels[l]}

SaidTo(k, n) == configLevels[Last(SpeaksTo(k, n))][k]

LayersTo(k, n) ==
    {l \in SpeaksTo(k, n) : \A m \in SpeaksTo(k, n) : m >= l => IsMap(configLevels[m][k])}

LeavesTo(k, j, n) == {l \in LayersTo(k, n) : j \in DOMAIN configLevels[l][k]}

HasLeafTo(k, j, n) ==
    /\ LeavesTo(k, j, n) # {}
    /\ LET l == Last(LeavesTo(k, j, n))
       IN  \/ configLevels[l][k][j] # Null
           \/ \A m \in LayersTo(k, n) : l <= m

MapTo(k, n) ==
    [j \in {i \in UNION {DOMAIN configLevels[m][k] : m \in LayersTo(k, n)} : HasLeafTo(k, i, n)} |->
        configLevels[Last(LeavesTo(k, j, n))][k][j]]

\* What base says of k is what the first n levels say of it.
SaysTo(base, k, n) ==
    IF SpeaksTo(k, n) = {}
    THEN k \notin DOMAIN base
    ELSE /\ k \in DOMAIN base <=> SaidTo(k, n) # Null
         /\ SaidTo(k, n) \in Scalars => base[k] = SaidTo(k, n)
         /\ IsMap(SaidTo(k, n)) => base[k] = MapTo(k, n)

\* A level is no file or a map; a key's value is a scalar, null or a map of such leaves,
\* which is neither a scalar nor null.
Partial(K, V) == UNION {[D -> V] : D \in SUBSET K}
LeafMaps(K) == Partial(K, Scalars \cup {Null})
ConfigTrees(K) == Partial(K, Scalars \cup {Null} \cup LeafMaps(K))

IsConfig(K) ==
    /\ Null \notin Scalars
    /\ \A m \in LeafMaps(K) : IsMap(m)
    /\ configLevels \in [Level -> ConfigTrees(K) \cup {NoFile}]

LEMMA ConfigFacts ==
    ASSUME NEW K, IsConfig(K), NEW l \in Level, configLevels[l] # NoFile,
           NEW k \in DOMAIN configLevels[l]
    PROVE  /\ configLevels[l][k] \in Scalars \cup {Null} \cup LeafMaps(K)
           /\ IsMap(configLevels[l][k]) => configLevels[l][k] \in LeafMaps(K)
<1>1. PICK D \in SUBSET K : configLevels[l] \in [D -> Scalars \cup {Null} \cup LeafMaps(K)]
    BY DEF IsConfig, ConfigTrees, Partial
<1> QED
    BY <1>1 DEF IsMap

LEMMA LeafMapFacts ==
    ASSUME NEW K, NEW m \in LeafMaps(K)
    PROVE  /\ m = [j \in DOMAIN m |-> m[j]] /\ DOMAIN m \in SUBSET K
           /\ \A j \in DOMAIN m : m[j] \in Scalars \cup {Null}
    BY DEF LeafMaps, Partial

\* The levels considered, of a key that is spoken of.
LEMMA LayerFacts ==
    ASSUME NEW K, IsConfig(K), NEW k, NEW n \in 0..4
    PROVE  /\ SpeaksTo(k, n) \in SUBSET Level /\ LayersTo(k, n) \in SUBSET SpeaksTo(k, n)
           /\ \A l \in LayersTo(k, n) : configLevels[l][k] \in LeafMaps(K)
           /\ \A j : LeavesTo(k, j, n) \in SUBSET LayersTo(k, n)
           /\ SpeaksTo(k, n) # {} /\ IsMap(SaidTo(k, n)) =>
                Last(SpeaksTo(k, n)) \in LayersTo(k, n)
<1>1. SpeaksTo(k, n) \in SUBSET Level /\ LayersTo(k, n) \in SUBSET SpeaksTo(k, n)
      /\ \A j : LeavesTo(k, j, n) \in SUBSET LayersTo(k, n)
    BY DEF SpeaksTo, LayersTo, LeavesTo, Level
<1>2. ASSUME NEW l \in LayersTo(k, n) PROVE configLevels[l][k] \in LeafMaps(K)
  <2>1. l \in Level /\ configLevels[l] # NoFile /\ k \in DOMAIN configLevels[l]
      BY <1>1 DEF SpeaksTo
  <2>2. IsMap(configLevels[l][k])
      BY <1>1, <2>1 DEF LayersTo, Level
  <2> QED
      BY <2>1, <2>2, ConfigFacts
<1>3. ASSUME SpeaksTo(k, n) # {}, IsMap(SaidTo(k, n))
      PROVE  Last(SpeaksTo(k, n)) \in LayersTo(k, n)
  <2> DEFINE l == Last(SpeaksTo(k, n))
  <2>1. l \in SpeaksTo(k, n) /\ \A m \in SpeaksTo(k, n) : m <= l
      BY <1>1, <1>3, LastOf
  <2>2. \A m \in SpeaksTo(k, n) : m >= l => m = l
      BY <1>1, <2>1 DEF Level
  <2> QED
      BY <1>3, <2>1, <2>2 DEF LayersTo, SaidTo
<1> QED
    BY <1>1, <1>2, <1>3

LEMMA MapToIsMap ==
    ASSUME NEW K, IsConfig(K), NEW k, NEW n \in 0..4
    PROVE  IsMap(MapTo(k, n))
<1> DEFINE D == {i \in UNION {DOMAIN configLevels[m][k] : m \in LayersTo(k, n)} : HasLeafTo(k, i, n)}
<1>1. D \in SUBSET K
    BY LayerFacts, LeafMapFacts
<1>2. ASSUME NEW j \in D
      PROVE  configLevels[Last(LeavesTo(k, j, n))][k][j] \in Scalars \cup {Null}
  <2>1. LeavesTo(k, j, n) # {} /\ LeavesTo(k, j, n) \in SUBSET Level
      BY LayerFacts DEF HasLeafTo
  <2>2. Last(LeavesTo(k, j, n)) \in LeavesTo(k, j, n)
      BY <2>1, LastOf
  <2> QED
      BY <2>2, LayerFacts, LeafMapFacts DEF LeavesTo
<1>3. MapTo(k, n) \in [D -> Scalars \cup {Null}]
    BY <1>2 DEF MapTo
<1>4. MapTo(k, n) \in LeafMaps(K)
    BY <1>1, <1>3 DEF LeafMaps, Partial
<1> QED
    BY <1>4 DEF IsConfig

\* A level that does not speak of the key.
LEMMA KeptByLevel ==
    ASSUME NEW K, IsConfig(K), NEW k, NEW n \in 0..3, NEW base, SaysTo(base, k, n),
           configLevels[n + 1] = NoFile \/ k \notin DOMAIN configLevels[n + 1]
    PROVE  SaysTo(Over(base, configLevels[n + 1]), k, n + 1)
<1> DEFINE level == configLevels[n + 1]
           next == Over(base, level)
<1>1. SpeaksTo(k, n + 1) = SpeaksTo(k, n)
    BY DEF SpeaksTo
<1>2. LayersTo(k, n + 1) = LayersTo(k, n) /\ SaidTo(k, n + 1) = SaidTo(k, n)
    BY <1>1 DEF LayersTo, SaidTo
<1>3. \A j : LeavesTo(k, j, n + 1) = LeavesTo(k, j, n)
    BY <1>2 DEF LeavesTo
<1>4. \A j : HasLeafTo(k, j, n + 1) <=> HasLeafTo(k, j, n)
    BY <1>2, <1>3 DEF HasLeafTo
<1>5. MapTo(k, n + 1) = MapTo(k, n)
    BY <1>2, <1>3, <1>4 DEF MapTo
<1>6. /\ k \in DOMAIN next <=> k \in DOMAIN base
      /\ k \in DOMAIN base => next[k] = base[k]
    BY DEF Over, DeepMergeMap, MergedKeys, Deleted
<1>7. SpeaksTo(k, n) # {} /\ (SaidTo(k, n) \in Scalars \/ IsMap(SaidTo(k, n))) => k \in DOMAIN base
    BY DEF SaysTo, IsMap, IsConfig
<1> HIDE DEF next
<1> QED
    BY <1>1, <1>2, <1>5, <1>6, <1>7 DEF SaysTo, next

\* A level that speaks of the key has the last word so far.
LEMMA SpokenByLevel ==
    ASSUME NEW K, IsConfig(K), NEW k, NEW n \in 0..3,
           configLevels[n + 1] # NoFile, k \in DOMAIN configLevels[n + 1]
    PROVE  /\ SpeaksTo(k, n + 1) = SpeaksTo(k, n) \cup {n + 1}
           /\ n + 1 \notin SpeaksTo(k, n)
           /\ SaidTo(k, n + 1) = configLevels[n + 1][k]
<1>1. SpeaksTo(k, n + 1) = SpeaksTo(k, n) \cup {n + 1} /\ n + 1 \notin SpeaksTo(k, n)
    BY DEF SpeaksTo
<1>2. /\ SpeaksTo(k, n + 1) \in SUBSET Level /\ n + 1 \in SpeaksTo(k, n + 1)
      /\ \A m \in SpeaksTo(k, n + 1) : m <= n + 1
    BY <1>1 DEF SpeaksTo, Level
<1>3. Last(SpeaksTo(k, n + 1)) = n + 1
    BY <1>2, LastIs
<1> QED
    BY <1>1, <1>3 DEF SaidTo

\* A map after something else than a map starts anew.
LEMMA FirstLayer ==
    ASSUME NEW K, IsConfig(K), NEW k, NEW n \in 0..3,
           configLevels[n + 1] # NoFile, k \in DOMAIN configLevels[n + 1],
           IsMap(configLevels[n + 1][k]),
           SpeaksTo(k, n) = {} \/ ~IsMap(SaidTo(k, n))
    PROVE  MapTo(k, n + 1) = configLevels[n + 1][k]
<1> DEFINE m == configLevels[n + 1][k]
<1>1. SpeaksTo(k, n + 1) = SpeaksTo(k, n) \cup {n + 1} /\ SpeaksTo(k, n) \in SUBSET (1..n)
    BY SpokenByLevel DEF SpeaksTo
<1>2. n + 1 \in LayersTo(k, n + 1)
    BY <1>1 DEF LayersTo
<1>3. ASSUME NEW l \in LayersTo(k, n + 1), l # n + 1 PROVE FALSE
  <2>1. l \in SpeaksTo(k, n) /\ SpeaksTo(k, n) \in SUBSET Level
      BY <1>1, <1>3 DEF LayersTo, Level
  <2>2. Last(SpeaksTo(k, n)) \in SpeaksTo(k, n) /\ l <= Last(SpeaksTo(k, n))
      BY <2>1, LastOf
  <2>3. IsMap(SaidTo(k, n))
      BY <1>1, <1>3, <2>1, <2>2 DEF LayersTo, SaidTo
  <2> QED
      BY <2>1, <2>3
<1>4. LayersTo(k, n + 1) = {n + 1}
    BY <1>2, <1>3
<1>5. \A j : LeavesTo(k, j, n + 1) = IF j \in DOMAIN m THEN {n + 1} ELSE {}
    BY <1>4 DEF LeavesTo
<1>6. Last({n + 1}) = n + 1
  <2>1. {n + 1} \in SUBSET Level /\ \A l \in {n + 1} : l <= n + 1
      BY DEF Level
  <2> QED
      BY <2>1, LastIs
<1>7. \A j : HasLeafTo(k, j, n + 1) <=> j \in DOMAIN m
    BY <1>4, <1>5, <1>6 DEF HasLeafTo
<1>8. MapTo(k, n + 1) = [j \in DOMAIN m |-> m[j]]
  <2>1. UNION {DOMAIN configLevels[l][k] : l \in LayersTo(k, n + 1)} = DOMAIN m
      BY <1>4
  <2>2. \A j \in DOMAIN m : configLevels[Last(LeavesTo(k, j, n + 1))][k][j] = m[j]
      BY <1>5, <1>6
  <2> HIDE DEF m
  <2> QED
      BY <1>7, <2>1, <2>2 DEF MapTo
<1>9. m \in LeafMaps(K)
  <2>1. n + 1 \in Level
      BY DEF Level
  <2> QED
      BY <2>1, ConfigFacts
<1> QED
    BY <1>8, <1>9, LeafMapFacts

\* A map after a map is put on top of it, leaf by leaf.
LEMMA NextLayer ==
    ASSUME NEW K, IsConfig(K), NEW k, NEW n \in 0..3,
           configLevels[n + 1] # NoFile, k \in DOMAIN configLevels[n + 1],
           IsMap(configLevels[n + 1][k]),
           SpeaksTo(k, n) # {}, IsMap(SaidTo(k, n))
    PROVE  MapTo(k, n + 1) = MergeLeaves(MapTo(k, n), configLevels[n + 1][k])
<1> DEFINE m == configLevels[n + 1][k]
<1>1. SpeaksTo(k, n + 1) = SpeaksTo(k, n) \cup {n + 1} /\ SpeaksTo(k, n) \in SUBSET (1..n)
    BY SpokenByLevel DEF SpeaksTo
<1>2. LayersTo(k, n + 1) = LayersTo(k, n) \cup {n + 1} /\ LayersTo(k, n) \in SUBSET (1..n)
    BY <1>1 DEF LayersTo
<1>3. \A j : LeavesTo(k, j, n + 1) = LeavesTo(k, j, n) \cup (IF j \in DOMAIN m THEN {n + 1} ELSE {})
    BY <1>2 DEF LeavesTo
<1>4. \E first \in LayersTo(k, n) : first < n + 1
  <2>1. Last(SpeaksTo(k, n)) \in LayersTo(k, n)
      BY LayerFacts
  <2> QED
      BY <1>2, <2>1
<1>5. ASSUME NEW j \in DOMAIN m
      PROVE  /\ Last(LeavesTo(k, j, n + 1)) = n + 1
             /\ HasLeafTo(k, j, n + 1) <=> m[j] # Null
  <2>1. LeavesTo(k, j, n + 1) \in SUBSET (1..(n + 1)) /\ n + 1 \in LeavesTo(k, j, n + 1)
      BY <1>2, <1>3, <1>5 DEF LeavesTo
  <2>2. LeavesTo(k, j, n + 1) \in SUBSET Level /\ \A l \in LeavesTo(k, j, n + 1) : l <= n + 1
      BY <2>1 DEF Level
  <2>3. Last(LeavesTo(k, j, n + 1)) = n + 1
      BY <2>1, <2>2, LastIs
  <2>4. ~\A l \in LayersTo(k, n + 1) : n + 1 <= l
      BY <1>2, <1>4
  <2> QED
      BY <2>1, <2>3, <2>4 DEF HasLeafTo
<1>6. ASSUME NEW j, j \notin DOMAIN m
      PROVE  /\ LeavesTo(k, j, n + 1) = LeavesTo(k, j, n)
             /\ HasLeafTo(k, j, n + 1) <=> HasLeafTo(k, j, n)
  <2>1. LeavesTo(k, j, n + 1) = LeavesTo(k, j, n)
      BY <1>3, <1>6
  <2>2. LeavesTo(k, j, n) # {} => Last(LeavesTo(k, j, n)) \in LeavesTo(k, j, n)
    <3>1. LeavesTo(k, j, n) \in SUBSET Level
        BY LayerFacts
    <3> QED
        BY <3>1, LastOf
  <2>3. LeavesTo(k, j, n) # {} => Last(LeavesTo(k, j, n)) <= n + 1
      BY <1>2, <2>2 DEF LeavesTo
  <2> QED
      BY <1>2, <2>1, <2>3 DEF HasLeafTo
<1> DEFINE Keys(i) == UNION {DOMAIN configLevels[l][k] : l \in LayersTo(k, i)}
           Leaves(i) == {j \in Keys(i) : HasLeafTo(k, j, i)}
<1>7. Leaves(n + 1) = (Leaves(n) \cup DOMAIN m) \ Deleted(m)
  <2>1. \A i, j : j \in Keys(i) <=> \E l \in LayersTo(k, i) : j \in DOMAIN configLevels[l][k]
      OBVIOUS
  <2>2. \A j : j \in Keys(n + 1) <=> j \in Keys(n) \/ j \in DOMAIN m
      BY <1>2, <2>1
  <2>3. \A i, j : j \in Leaves(i) <=> j \in Keys(i) /\ HasLeafTo(k, j, i)
      OBVIOUS
  <2> HIDE DEF Keys, Leaves, m
  <2>4. ASSUME NEW j \in DOMAIN m PROVE j \in Leaves(n + 1) <=> j \notin Deleted(m)
    <3>1. HasLeafTo(k, j, n + 1) <=> m[j] # Null
        BY <1>5, <2>4
    <3> QED
        BY <2>2, <2>3, <2>4, <3>1 DEF Deleted
  <2>5. ASSUME NEW j, j \notin DOMAIN m
        PROVE  j \in Leaves(n + 1) <=> j \in Leaves(n) /\ j \notin Deleted(m)
    <3>1. HasLeafTo(k, j, n + 1) <=> HasLeafTo(k, j, n)
        BY <1>6, <2>5
    <3> QED
        BY <2>2, <2>3, <2>5, <3>1 DEF Deleted
  <2>6. \A j : j \in Deleted(m) => j \in DOMAIN m
      BY DEF Deleted
  <2> QED
      BY <2>4, <2>5, <2>6
<1>8. DOMAIN MapTo(k, n) = Leaves(n)
    BY DEF MapTo
<1>9. MapTo(k, n + 1) = [j \in Leaves(n + 1) |-> configLevels[Last(LeavesTo(k, j, n + 1))][k][j]]
    BY DEF MapTo
<1>10. \A j \in Leaves(n + 1) :
          configLevels[Last(LeavesTo(k, j, n + 1))][k][j] =
              IF j \in DOMAIN m THEN m[j] ELSE MapTo(k, n)[j]
  <2>1. ASSUME NEW j \in Leaves(n + 1), j \notin DOMAIN m
        PROVE  MapTo(k, n)[j] = configLevels[Last(LeavesTo(k, j, n + 1))][k][j]
    <3>1. j \in Leaves(n)
        BY <1>7, <2>1
    <3> QED
        BY <1>6, <2>1, <3>1 DEF MapTo
  <2> QED
      BY <1>5, <2>1
<1>11. MergeLeaves(MapTo(k, n), m) =
          [j \in Leaves(n + 1) |-> IF j \in DOMAIN m THEN m[j] ELSE MapTo(k, n)[j]]
    BY <1>7, <1>8 DEF MergeLeaves, MergedKeys
<1> HIDE DEF Leaves, m
<1>12. MapTo(k, n + 1) = MergeLeaves(MapTo(k, n), m)
    BY <1>9, <1>10, <1>11
<1> QED
    BY <1>12 DEF m

LEMMA KeyStep ==
    ASSUME NEW K, IsConfig(K), NEW k, NEW n \in 0..3, NEW base, SaysTo(base, k, n)
    PROVE  SaysTo(Over(base, configLevels[n + 1]), k, n + 1)
<1> DEFINE level == configLevels[n + 1]
           next == Over(base, level)
<1>1. CASE level = NoFile \/ k \notin DOMAIN level
    BY <1>1, KeptByLevel
<1>2. CASE level # NoFile /\ k \in DOMAIN level
  <2>1. SpeaksTo(k, n + 1) # {} /\ SaidTo(k, n + 1) = level[k]
      BY <1>2, SpokenByLevel
  <2>2. /\ k \in DOMAIN next <=> level[k] # Null
        /\ level[k] # Null =>
              next[k] = IF k \in DOMAIN base /\ IsMap(base[k]) /\ IsMap(level[k])
                        THEN MergeLeaves(base[k], level[k]) ELSE level[k]
      BY <1>2 DEF Over, DeepMergeMap, MergedKeys, Deleted
  <2>3. level[k] \in Scalars => ~IsMap(level[k]) /\ level[k] # Null
      BY DEF IsMap, IsConfig
  <2>4. IsMap(level[k]) => level[k] # Null
      BY DEF IsMap
  <2>5. ASSUME IsMap(level[k]) PROVE next[k] = MapTo(k, n + 1)
    <3>1. CASE SpeaksTo(k, n) # {} /\ IsMap(SaidTo(k, n))
      <4>1. k \in DOMAIN base /\ base[k] = MapTo(k, n)
          BY <3>1 DEF SaysTo, IsMap
      <4>2. IsMap(base[k])
          BY <4>1, MapToIsMap
      <4> QED
          BY <1>2, <2>2, <2>4, <2>5, <3>1, <4>1, <4>2, NextLayer
    <3>2. CASE SpeaksTo(k, n) = {} \/ ~IsMap(SaidTo(k, n))
      <4>1. ~(k \in DOMAIN base /\ IsMap(base[k]))
          BY <3>2 DEF SaysTo, IsMap
      <4> QED
          BY <1>2, <2>2, <2>4, <2>5, <3>2, <4>1, FirstLayer
    <3> QED
        BY <3>1, <3>2
  <2> HIDE DEF next, level
  <2>6. SaysTo(next, k, n + 1)
      BY <2>1, <2>2, <2>3, <2>5 DEF SaysTo
  <2> QED
      BY <2>6 DEF next, level
<1> QED
    BY <1>1, <1>2

\* Whatever the levels hold, over any keys and values: each key of an inherited
\* configuration is what the last level that speaks of it says, maps being put together
\* leaf by leaf, and a null removes (deepMergeMap over the levels).
THEOREM ConfigsAreLastWords ==
    ASSUME NEW K, IsConfig(K)
    PROVE  ConfigIsLastWord
<1> DEFINE v1 == Over(EmptyMap, configLevels[1])
           v2 == Over(v1, configLevels[2])
           v3 == Over(v2, configLevels[3])
           v4 == Over(v3, configLevels[4])
<1>0. \A k : SaysTo(EmptyMap, k, 0)
    BY DEF SaysTo, SpeaksTo, EmptyMap
<1>1. \A k : SaysTo(v1, k, 1)
    BY <1>0, KeyStep, 0 + 1 = 1, 0 \in 0..3
<1> HIDE DEF v1
<1>2. \A k : SaysTo(v2, k, 2)
    BY <1>1, KeyStep, 1 + 1 = 2, 1 \in 0..3
<1> HIDE DEF v2
<1>3. \A k : SaysTo(v3, k, 3)
    BY <1>2, KeyStep, 2 + 1 = 3, 2 \in 0..3
<1> HIDE DEF v3
<1>4. \A k : SaysTo(v4, k, 4)
    BY <1>3, KeyStep, 3 + 1 = 4, 3 \in 0..3
<1>5. InheritedConfig # NoFile => InheritedConfig = v4
    BY DEF InheritedConfig, v1, v2, v3
<1> HIDE DEF v4
<1>6. \A k : /\ SpeaksTo(k, 4) = Speaks(k) /\ SaidTo(k, 4) = configLevels[Last(Speaks(k))][k]
    BY DEF SpeaksTo, Speaks, SaidTo, Level
<1>7. \A k : LayersTo(k, 4) = Layers(k)
    BY <1>6 DEF LayersTo, Layers
<1>8. \A k, j : LeavesTo(k, j, 4) = LeafLayers(k, j)
    BY <1>7 DEF LeavesTo, LeafLayers
<1>9. \A k, j : HasLeafTo(k, j, 4) <=> HasLeaf(k, j)
    BY <1>7, <1>8 DEF HasLeafTo, HasLeaf
<1>10. \A k : MapTo(k, 4) =
          [j \in {i \in UNION {DOMAIN configLevels[m][k] : m \in Layers(k)} : HasLeaf(k, i)} |->
              configLevels[Last(LeafLayers(k, j))][k][j]]
    BY <1>7, <1>8, <1>9 DEF MapTo
<1>11. \A l \in Level : configLevels[l] # NoFile => \A k \in DOMAIN configLevels[l] : Speaks(k) # {}
    BY DEF Speaks
<1>12. ASSUME NEW k, k \in DOMAIN v4 PROVE Speaks(k) # {}
    BY <1>4, <1>6, <1>12 DEF SaysTo
<1>13. ASSUME NEW k, Speaks(k) # {}
       PROVE  LET said == configLevels[Last(Speaks(k))][k]
              IN  /\ k \in DOMAIN v4 <=> said # Null
                  /\ said \in Scalars => v4[k] = said
                  /\ IsMap(said) =>
                       v4[k] =
                         [j \in {i \in UNION {DOMAIN configLevels[m][k] : m \in Layers(k)} :
                                    HasLeaf(k, i)} |->
                            configLevels[Last(LeafLayers(k, j))][k][j]]
    BY <1>4, <1>6, <1>10, <1>13 DEF SaysTo
<1> QED
    BY <1>5, <1>11, <1>12, <1>13 DEF ConfigIsLastWord

(***************************************************************************)
(* The loop, for any contents and any numbers of changes, failed calls,    *)
(* restarts and objects that others create.                                *)
(***************************************************************************)
\* How far a handler has come: what it applies has been fetched and can be
\* rendered; the ConfigMap is written before the Secret, and both before the rollout.
Progress ==
    /\ step \in Steps \ {"config", "env"} => fetched \in Contents
    /\ step = "env" => fetched.config \in Configs
    /\ step \in {"config", "env"} => target = "config"
    /\ step \in Steps \ {"config", "env"} /\ target = "env" =>
          touched /\ cluster.config = fetched.config
    /\ step = "rollout" => target = "env" /\ cluster.env = fetched.env

AgentInv == AgentTypeOK /\ Progress /\ HandledIsRunning

USE AgentAssumption

Cluster == [config : Configs \cup {None, Bare}, env : Envs \cup {None, Bare},
            rolled : Contents \cup {None}]

\* Writing an object of a pair leaves the rest of the cluster's record alone.
LEMMA PutFields ==
    ASSUME NEW c \in Cluster, NEW pair \in Contents, NEW o \in Objects
    PROVE  LET d == [c EXCEPT ![o] = pair[o]]
           IN  d \in Cluster /\ d.rolled = c.rolled
BY DEF Cluster, Contents, Objects

LEMMA RolledFields ==
    ASSUME NEW c \in Cluster, NEW pair \in Contents
    PROVE  LET d == [c EXCEPT !.rolled = pair]
           IN  d \in Cluster /\ d.config = c.config /\ d.env = c.env /\ d.rolled = pair
BY DEF Cluster, Contents

LEMMA AgentInitial == AgentInit => AgentInv
<1>. SUFFICES ASSUME AgentInit PROVE AgentInv
  OBVIOUS
<1>1. /\ cluster \in [config : Configs \cup {None, Bare}, env : Envs \cup {None, Bare},
                      rolled : Contents \cup {None}]
      /\ fetched \in [config : Configs \cup {None}, env : Envs \cup {None}]
  BY DEF AgentInit, Nothing
<1>2. AgentTypeOK
  BY <1>1 DEF AgentInit, AgentTypeOK, Steps, Objects
<1>3. Progress /\ HandledIsRunning
  BY DEF AgentInit, Progress, HandledIsRunning, Steps
<1>. QED  BY <1>2, <1>3 DEF AgentInv

LEMMA SpendKeepsType ==
    ASSUME left \in [AgentEvents -> Nat], NEW e \in AgentEvents, AgentSpend(e)
    PROVE  left' \in [AgentEvents -> Nat]
BY DEF AgentSpend

LEMMA BackoffStays ==
    ASSUME backoff = 0 \/ backoff \in InitialBackoff..MaxBackoff
    PROVE  NextBackoff = 0 \/ NextBackoff \in InitialBackoff..MaxBackoff
BY DEF NextBackoff

\* A new poll: nothing fetched, nothing being applied.
LEMMA PollIsFresh ==
    ASSUME Poll
    PROVE  /\ step' = "config" /\ target' = "config" /\ fetched' = Nothing
           /\ Progress'
           /\ fetched' \in [config : Configs \cup {None}, env : Envs \cup {None}]
BY DEF Poll, Progress, Nothing, Steps

\* An action that leaves the cluster and what is handled alone keeps what links them.
LEMMA SameRunning ==
    ASSUME HandledIsRunning, UNCHANGED <<cluster, touched, handled>>
    PROVE  HandledIsRunning'
BY DEF HandledIsRunning, InCluster

LEMMA FetchKeeps ==
    ASSUME AgentInv, FetchConfig \/ FetchEnvVars \/ FetchFails
    PROVE  AgentInv'
<1>1. CASE FetchConfig
  <2>1. Progress' /\ AgentTypeOK'
    BY <1>1 DEF AgentInv, AgentTypeOK, Progress, FetchConfig, Contents, Steps, Objects
  <2>. QED  BY <1>1, <2>1, SameRunning DEF AgentInv, FetchConfig
<1>2. CASE FetchEnvVars
  <2>. DEFINE pair == [fetched EXCEPT !.env = served.env]
  <2>1. pair \in Contents
    BY <1>2 DEF FetchEnvVars, AgentInv, AgentTypeOK, Progress, Contents
  <2>2. UNCHANGED <<served, cluster, touched, left, handled>>
    BY <1>2 DEF FetchEnvVars, Retry
  <2>3. CASE Poll /\ (backoff' = 0 \/ backoff' = NextBackoff)
    BY <2>2, <2>3, PollIsFresh, BackoffStays, SameRunning DEF AgentInv, AgentTypeOK, Steps, Objects
  <2>4. CASE fetched' = pair /\ step' = "patch" /\ UNCHANGED <<target, backoff>>
    <3>1. target = "config"
      BY <1>2 DEF FetchEnvVars, AgentInv, Progress
    <3>2. Progress'
      BY <2>1, <2>4, <3>1 DEF Progress, Steps
    <3>3. AgentTypeOK'
      BY <2>1, <2>2, <2>4 DEF AgentInv, AgentTypeOK, Contents, Steps, Objects
    <3>. QED  BY <2>2, <3>2, <3>3, SameRunning DEF AgentInv
  <2>. QED  BY <1>2, <2>3, <2>4 DEF FetchEnvVars, Retry
<1>3. CASE FetchFails
  <2>1. left' \in [AgentEvents -> Nat]
    BY <1>3, SpendKeepsType DEF FetchFails, AgentInv, AgentTypeOK, AgentEvents
  <2>. QED
    BY <1>3, <2>1, PollIsFresh, BackoffStays, SameRunning
       DEF FetchFails, Retry, AgentInv, AgentTypeOK, Steps, Objects
<1>. QED  BY <1>1, <1>2, <1>3

\* One object is written; from now on the handler has touched the cluster.
LEMMA AppliedKeeps ==
    ASSUME AgentInv, step \in {"patch", "create", "patchAgain"}, Applied
    PROVE  AgentInv'
<1>1. fetched \in Contents /\ cluster \in Cluster /\ target \in Objects
  BY DEF AgentInv, Progress, AgentTypeOK, Steps, Cluster
<1>2. /\ cluster' \in Cluster /\ cluster'[target] = fetched[target]
      /\ \A p \in Objects : p # target => cluster'[p] = cluster[p]
  <2>1. cluster' = [cluster EXCEPT ![target] = fetched[target]]
    BY DEF Applied, Put
  <2>. QED  BY <1>1, <2>1 DEF Cluster, Contents, Objects
<1>3. touched' /\ touched' \in BOOLEAN /\ UNCHANGED <<served, handled, fetched, backoff, left>>
  BY DEF Applied, Put
<1>4. CASE target = "config"
  <2>1. target' = "env" /\ step' = "patch"
    BY <1>4 DEF Applied
  <2>2. Progress'
    <3>1. fetched' \in Contents /\ cluster'.config = fetched'.config
      BY <1>1, <1>2, <1>3, <1>4
    <3>. QED  BY <1>3, <2>1, <3>1 DEF Progress, Steps
  <2>. QED
    BY <1>2, <1>3, <2>1, <2>2 DEF AgentInv, AgentTypeOK, HandledIsRunning, Cluster, Steps, Objects
<1>5. CASE target = "env"
  <2>1. target' = "env" /\ step' = "rollout"
    BY <1>5 DEF Applied
  <2>2. cluster.config = fetched.config
    BY <1>5 DEF AgentInv, Progress, Steps
  <2>3. Progress'
    BY <1>1, <1>2, <1>3, <1>5, <2>1, <2>2 DEF Progress, Steps, Objects
  <2>. QED
    BY <1>2, <1>3, <2>1, <2>3 DEF AgentInv, AgentTypeOK, HandledIsRunning, Cluster, Steps, Objects
<1>. QED  BY <1>1, <1>4, <1>5 DEF Objects

LEMMA GoesKeeps ==
    ASSUME AgentInv, NEW s \in {"create", "patchAgain"},
           step \in {"patch", "create", "patchAgain"}, Goes(s)
    PROVE  AgentInv'
<1>1. AgentTypeOK' /\ Progress'
  BY DEF AgentInv, AgentTypeOK, Progress, Goes, Steps
<1>. QED  BY <1>1, SameRunning DEF AgentInv, Goes

LEMMA RolloutKeeps ==
    ASSUME AgentInv, Rollout
    PROVE  AgentInv'
<1>1. /\ fetched \in Contents /\ cluster \in Cluster
      /\ cluster.config = fetched.config /\ cluster.env = fetched.env
  BY DEF Rollout, AgentInv, Progress, AgentTypeOK, Steps, Cluster
<1>2. /\ cluster' \in Cluster /\ cluster'.rolled = fetched
      /\ cluster'.config = fetched.config /\ cluster'.env = fetched.env
  BY <1>1, RolledFields DEF Rollout
<1>3. InCluster(handled)'
  BY <1>2 DEF InCluster, Rollout, Cluster
<1>4. AgentTypeOK'
  BY <1>1, <1>2, PollIsFresh DEF Rollout, AgentInv, AgentTypeOK, Cluster, Steps, Objects
<1>. QED  BY <1>3, <1>4, PollIsFresh DEF Rollout, AgentInv, HandledIsRunning

\* A failed call may have had its effect; the loop polls anew.
LEMMA CallFailsKeeps ==
    ASSUME AgentInv, CallFails
    PROVE  AgentInv'
<1>1. /\ fetched \in Contents /\ cluster \in Cluster /\ target \in Objects
      /\ left' \in [AgentEvents -> Nat]
  BY SpendKeepsType DEF CallFails, AgentInv, Progress, AgentTypeOK, Steps, Cluster, AgentEvents
<1>2. cluster' \in Cluster /\ touched' \in BOOLEAN /\ HandledIsRunning'
  <2>1. CASE UNCHANGED <<cluster, touched>>
    BY <1>1, <2>1, SameRunning DEF CallFails, Retry, AgentInv, AgentTypeOK
  <2>2. CASE Put
    BY <1>1, <2>2, PutFields DEF Put, HandledIsRunning
  <2>3. CASE /\ step = "rollout" /\ UNCHANGED touched
             /\ cluster' = [cluster EXCEPT !.rolled = fetched]
    <3>1. touched
      BY <2>3 DEF AgentInv, Progress, Steps
    <3>. QED  BY <1>1, <2>3, <3>1, RolledFields DEF HandledIsRunning
  <2>. QED  BY <2>1, <2>2, <2>3 DEF CallFails
<1>. QED
  BY <1>1, <1>2, PollIsFresh, BackoffStays
     DEF CallFails, Retry, AgentInv, AgentTypeOK, Cluster, Steps, Objects

LEMMA OutsideKeeps ==
    ASSUME AgentInv, ServedChanges \/ AgentRestarts \/ OutsiderCreates
    PROVE  AgentInv'
<1>1. left' \in [AgentEvents -> Nat]
  BY SpendKeepsType DEF ServedChanges, AgentRestarts, OutsiderCreates, AgentInv, AgentTypeOK, AgentEvents
<1>2. CASE ServedChanges
  <2>1. AgentTypeOK' /\ Progress'
    BY <1>1, <1>2 DEF ServedChanges, AgentInv, AgentTypeOK, Progress
  <2>. QED  BY <1>2, <2>1, SameRunning DEF ServedChanges, AgentInv
<1>3. CASE AgentRestarts
  BY <1>1, <1>3, PollIsFresh
     DEF AgentRestarts, AgentInv, AgentTypeOK, HandledIsRunning, Steps, Objects
<1>4. CASE OutsiderCreates
  <2>1. PICK o \in Objects : cluster[o] = None /\ cluster' = [cluster EXCEPT ![o] = Bare]
    BY <1>4 DEF OutsiderCreates
  <2>2. UNCHANGED <<served, handled, fetched, step, target, backoff, touched>>
    BY <1>4 DEF OutsiderCreates
  <2>3. /\ cluster \in Cluster /\ cluster' \in Cluster
        /\ \A p \in Objects : p # o => cluster'[p] = cluster[p]
    BY <2>1 DEF AgentInv, AgentTypeOK, Cluster, Objects
  <2>4. Progress'
    <3>1. step \in Steps \ {"config", "env"} /\ target = "env" => cluster'.config = cluster.config
      BY <2>1, <2>3 DEF AgentInv, Progress, Contents, Objects
    <3>2. step = "rollout" => cluster'.env = cluster.env
      BY <2>1, <2>3 DEF AgentInv, Progress, Contents, Objects, Steps
    <3>. QED  BY <2>2, <3>1, <3>2 DEF AgentInv, Progress, Steps
  <2>5. HandledIsRunning'
    <3>1. ~(handled # None /\ ~touched)
      <4>. SUFFICES ASSUME handled # None, ~touched PROVE FALSE
        OBVIOUS
      <4>1. handled \in Contents /\ InCluster(handled)
        BY DEF AgentInv, AgentTypeOK, HandledIsRunning
      <4>. QED  BY <2>1, <4>1 DEF InCluster, Contents, Objects
    <3>. QED  BY <2>2, <3>1 DEF HandledIsRunning
  <2>. QED  BY <1>1, <2>2, <2>3, <2>4, <2>5 DEF AgentInv, AgentTypeOK, Cluster
<1>. QED  BY <1>2, <1>3, <1>4

LEMMA AgentStep == AgentInv /\ [AgentNext]_agentVars => AgentInv'
<1> SUFFICES ASSUME AgentInv, [AgentNext]_agentVars PROVE AgentInv'
  OBVIOUS
<1>1. CASE FetchConfig \/ FetchEnvVars \/ FetchFails
  BY <1>1, FetchKeeps
<1>2. CASE Patch \/ Create \/ PatchAgain
  BY <1>2, AppliedKeeps, GoesKeeps DEF Patch, Create, PatchAgain
<1>3. CASE Rollout
  BY <1>3, RolloutKeeps
<1>4. CASE CallFails
  BY <1>4, CallFailsKeeps
<1>5. CASE ServedChanges \/ AgentRestarts \/ OutsiderCreates
  BY <1>5, OutsideKeeps
<1>6. CASE UNCHANGED agentVars
  BY <1>6 DEF agentVars, AgentInv, AgentTypeOK, Progress, HandledIsRunning, InCluster
<1>. QED  BY <1>1, <1>2, <1>3, <1>4, <1>5, <1>6 DEF AgentNext, LoopStep

LEMMA AgentAlways == AgentSpec => []AgentInv
BY AgentInitial, AgentStep, PTL DEF AgentSpec

\* The agent is well typed; its backoff stays between its bounds.
THEOREM AgentTypeCorrect == AgentSpec => []AgentTypeOK
<1>1. AgentInv => AgentTypeOK
  BY DEF AgentInv
<1>. QED  BY <1>1, AgentAlways, PTL

\* What the loop holds for handled is what the cluster runs, unless a later handler
\* has begun to write and not finished.
THEOREM HandledRuns == AgentSpec => []HandledIsRunning
<1>1. AgentInv => HandledIsRunning
  BY DEF AgentInv
<1>. QED  BY <1>1, AgentAlways, PTL

\* A rollout is only triggered for the contents that both objects hold by then.
THEOREM RolloutsSeePayloads == AgentSpec => RolloutSeesPayload
<1>1. ASSUME AgentInv, AgentNext, cluster'.rolled # cluster.rolled
      PROVE  InCluster(cluster.rolled)'
  <2>1. step = "rollout" /\ cluster' = [cluster EXCEPT !.rolled = fetched]
    <3>1. Put /\ step \in Steps \ {"config", "env"} => cluster'.rolled = cluster.rolled
      <4>. SUFFICES ASSUME Put, step \in Steps \ {"config", "env"}
                    PROVE  cluster'.rolled = cluster.rolled
        OBVIOUS
      <4>1. fetched \in Contents /\ cluster \in Cluster /\ target \in Objects
        BY <1>1 DEF AgentInv, Progress, AgentTypeOK, Cluster
      <4>. QED  BY <4>1, PutFields DEF Put
    <3>2. step \in {"patch", "create", "patchAgain"} /\ Applied => cluster'.rolled = cluster.rolled
      BY <3>1 DEF Applied, Steps
    <3>3. OutsiderCreates => cluster'.rolled = cluster.rolled
      <4>. SUFFICES ASSUME OutsiderCreates PROVE cluster'.rolled = cluster.rolled
        OBVIOUS
      <4>1. PICK o \in Objects : cluster' = [cluster EXCEPT ![o] = Bare]
        BY DEF OutsiderCreates
      <4>2. cluster \in Cluster
        BY <1>1 DEF AgentInv, AgentTypeOK, Cluster
      <4>. QED  BY <4>1, <4>2 DEF Objects, Cluster
    <3>4. CASE CallFails
      <4>1. step \in Steps \ {"config", "env"}
        BY <1>1, <3>4 DEF CallFails, AgentInv, AgentTypeOK
      <4>. QED  BY <1>1, <3>1, <3>4, <4>1 DEF CallFails
    <3>5. CASE Rollout
      BY <3>5 DEF Rollout
    <3>6. CASE Patch \/ Create \/ PatchAgain
      BY <1>1, <3>2, <3>6 DEF Patch, Create, PatchAgain, Goes
    <3>7. CASE \/ FetchConfig \/ FetchEnvVars \/ FetchFails
               \/ ServedChanges \/ AgentRestarts \/ OutsiderCreates
      BY <1>1, <3>3, <3>7
         DEF FetchConfig, FetchEnvVars, FetchFails, ServedChanges, AgentRestarts
    <3>. QED  BY <1>1, <3>4, <3>5, <3>6, <3>7 DEF AgentNext, LoopStep
  <2>2. /\ fetched \in Contents /\ cluster \in Cluster
        /\ cluster.config = fetched.config /\ cluster.env = fetched.env
    BY <1>1, <2>1 DEF AgentInv, Progress, AgentTypeOK, Steps, Cluster
  <2>. QED  BY <2>1, <2>2, RolledFields DEF InCluster, Cluster
<1>2. AgentInv /\ [AgentNext]_agentVars
        => [cluster'.rolled # cluster.rolled => InCluster(cluster.rolled)']_agentVars
  BY <1>1 DEF agentVars
<1>. QED  BY <1>2, AgentAlways, PTL DEF AgentSpec, RolloutSeesPayload

(***************************************************************************)
(* The debouncer, for every cooldown, quiet period, maximal wait, timer    *)
(* lateness and reporting lag.                                             *)
(***************************************************************************)
\* The pending window starts no later than its oldest change came, and the
\* cooldown is counted from the last decision to apply, less the lag.
WindowInv ==
    /\ DebounceTypeOK
    /\ AppliedInTime
    /\ waiting <= clock /\ lastApply <= clock
    /\ waiting # 0 => debouncer.debounceStart <= waiting /\ lastApply <= waiting
    /\ debouncer.cooldownUntil <= lastApply + Cooldown
    /\ lastApply # 0 => debouncer.cooldownUntil >= lastApply - Lag + Cooldown

Fields == [cooldownUntil : Nat, pending : BOOLEAN, debounceStart : Nat, lastChange : Nat]

USE DebounceAssumption

LEMMA DebounceInitial == DebounceInit => WindowInv
BY DEF DebounceInit, WindowInv, DebounceTypeOK, AppliedInTime, Idle

\* What joining a batch does to the fields.
LEMMA BatchedFields ==
    ASSUME NEW d \in Fields, NEW at \in Nat, NEW start \in Nat
    PROVE  LET e == [d EXCEPT !.pending = TRUE, !.debounceStart = start, !.lastChange = at]
           IN  /\ e \in Fields /\ e.pending = TRUE
               /\ e.cooldownUntil = d.cooldownUntil /\ e.debounceStart = start
BY DEF Fields

\* What RecordChange does to the invariant, for any reported time within the lag.
LEMMA RecordKeepsWindow ==
    ASSUME WindowInv, NEW at \in 1..MaxTime, clock - Lag <= at, at <= clock, RecordChange(at)
    PROVE  WindowInv'
<1> USE DEF WindowInv, DebounceTypeOK, AppliedInTime, Earlier, Later, Overdue, NextDueAt, Apply
<1>1. CASE ApplyAtOnce(at)
  <2>1. debouncer' = [debouncer EXCEPT !.cooldownUntil = at + Cooldown]
    BY <1>1 DEF ApplyAtOnce
  <2>2. /\ debouncer'.cooldownUntil = at + Cooldown
        /\ ~debouncer'.pending /\ debouncer'.pending \in BOOLEAN
        /\ debouncer' \in Fields
    BY <1>1, <2>1 DEF ApplyAtOnce, Fields
  <2>3. clock' = clock /\ waiting' = waiting /\ lastApply' = clock /\ waiting = 0
    BY <1>1 DEF ApplyAtOnce, RecordChange
  <2>. QED  BY <2>2, <2>3 DEF Fields
<1>2. CASE Batch(at)
  <2>1. PICK start \in Nat :
             /\ debouncer' = [debouncer EXCEPT !.pending = TRUE, !.debounceStart = start,
                                               !.lastChange = at]
             /\ start <= at
             /\ debouncer.pending => start <= debouncer.debounceStart
    <3>. DEFINE s == IF debouncer.pending THEN Earlier(debouncer.debounceStart, at) ELSE at
    <3>1. /\ s \in Nat
          /\ s <= at
          /\ debouncer.pending => s <= debouncer.debounceStart
      OBVIOUS
    <3>2. debouncer' = [debouncer EXCEPT !.pending = TRUE, !.debounceStart = s,
                                         !.lastChange = at]
      BY <1>2 DEF Batch
    <3>. HIDE DEF s
    <3>. QED  BY <3>1, <3>2
  <2>2. /\ debouncer' \in Fields
        /\ debouncer'.pending = TRUE
        /\ debouncer'.cooldownUntil = debouncer.cooldownUntil
        /\ debouncer'.debounceStart = start
    <3>1. debouncer \in Fields /\ at \in Nat
      BY DEF Fields
    <3>. QED  BY <2>1, <3>1, BatchedFields, Zenon
  <2>3. /\ clock' = clock /\ lastApply' = lastApply
        /\ waiting' = IF waiting = 0 THEN clock ELSE waiting
    BY <1>2 DEF Batch, RecordChange
  <2>. QED  BY <2>1, <2>2, <2>3 DEF Fields
<1>3. CASE Coalesce(at)
  BY <1>3 DEF Coalesce, RecordChange, Idle
<1>4. CASE FlushAndRecord(at)
  BY <1>4 DEF FlushAndRecord, RecordChange
<1>. QED  BY <1>1, <1>2, <1>3, <1>4 DEF RecordChange

LEMMA DueKeepsWindow ==
    ASSUME WindowInv, Due
    PROVE  WindowInv'
<1>1. /\ debouncer' = Idle(clock + Cooldown)
      /\ clock' = clock /\ waiting' = 0 /\ lastApply' = clock
  BY DEF Due, Apply
<1>2. /\ debouncer' \in Fields
      /\ debouncer'.pending = FALSE
      /\ debouncer'.cooldownUntil = clock + Cooldown
  BY <1>1 DEF Idle, Fields, WindowInv, DebounceTypeOK
<1>. QED
  BY <1>1, <1>2 DEF Fields, WindowInv, DebounceTypeOK, AppliedInTime

\* Time advances while the timer is not overdue, and the timer is set within the
\* maximal wait of the oldest change: that is the bound.
LEMMA TickKeepsWindow ==
    ASSUME WindowInv, Tick
    PROVE  WindowInv'
<1>1. debouncer.pending => NextDueAt <= waiting + MaxWait
  BY DEF WindowInv, DebounceTypeOK, NextDueAt, Earlier, Later
<1>2. debouncer.pending => NextDueAt \in Nat
  BY DEF WindowInv, DebounceTypeOK, NextDueAt, Earlier, Later
<1>. QED
  BY <1>1, <1>2 DEF WindowInv, DebounceTypeOK, AppliedInTime, Tick

LEMMA WindowStep == WindowInv /\ [DebounceNext]_debounceVars => WindowInv'
<1> SUFFICES ASSUME WindowInv, [DebounceNext]_debounceVars PROVE WindowInv'
  OBVIOUS
<1>1. CASE \E at \in 1..MaxTime : clock - Lag <= at /\ at <= clock /\ RecordChange(at)
  BY <1>1, RecordKeepsWindow
<1>2. CASE Due
  BY <1>2, DueKeepsWindow
<1>3. CASE Tick
  BY <1>3, TickKeepsWindow
<1>4. CASE UNCHANGED debounceVars
  BY <1>4 DEF debounceVars, WindowInv, DebounceTypeOK, AppliedInTime
<1>. QED  BY <1>1, <1>2, <1>3, <1>4 DEF DebounceNext

LEMMA WindowAlways == DebounceSpec => []WindowInv
BY DebounceInitial, WindowStep, PTL DEF DebounceSpec

\* The debouncer is well typed and pending exactly when a change waits.
THEOREM DebounceTypeCorrect == DebounceSpec => []DebounceTypeOK
<1>1. WindowInv => DebounceTypeOK
  BY DEF WindowInv
<1>. QED  BY <1>1, WindowAlways, PTL

\* No change waits longer than the maximal wait and the timer's lateness, for any
\* stream of changes (nextDueAtAndReason).
THEOREM WaitIsBounded == DebounceSpec => []AppliedInTime
<1>1. WindowInv => AppliedInTime
  BY DEF WindowInv
<1>. QED  BY <1>1, WindowAlways, PTL

\* Two rollouts are a cooldown apart, less the lag of the reported times.
THEOREM RolloutsAreApart == DebounceSpec => AppliesApart
<1> DEFINE Apart == \/ lastApply = 0
                    \/ lastApply' - lastApply >= Cooldown - Lag
<1>1. ASSUME WindowInv, DebounceNext, lastApply' # lastApply
      PROVE  Apart
  <2>1. CASE \E at \in 1..MaxTime : clock - Lag <= at /\ at <= clock /\ RecordChange(at)
    <3>1. PICK at \in 1..MaxTime : clock - Lag <= at /\ at <= clock /\ RecordChange(at)
      BY <2>1
    <3>2. lastApply' = clock /\ at >= debouncer.cooldownUntil
      BY <1>1, <3>1 DEF RecordChange, ApplyAtOnce, Batch, Coalesce, FlushAndRecord, Apply,
                        Overdue, NextDueAt, Later, Earlier, WindowInv, DebounceTypeOK
    <3>. QED  BY <1>1, <3>1, <3>2 DEF WindowInv, DebounceTypeOK
  <2>2. CASE Due
    <3>1. lastApply' = clock /\ clock >= debouncer.cooldownUntil
      BY <1>1, <2>2 DEF Due, Apply, Overdue, NextDueAt, Later, Earlier, WindowInv, DebounceTypeOK
    <3>. QED  BY <1>1, <3>1 DEF WindowInv, DebounceTypeOK
  <2>3. CASE Tick
    BY <1>1, <2>3 DEF Tick
  <2>. QED  BY <1>1, <2>1, <2>2, <2>3 DEF DebounceNext
<1>2. WindowInv /\ [DebounceNext]_debounceVars
        => [lastApply' # lastApply => Apart]_debounceVars
  BY <1>1 DEF debounceVars
<1>. QED  BY <1>2, WindowAlways, PTL DEF DebounceSpec, AppliesApart

=============================================================================
