------------------------------ MODULE MCDelivery ------------------------------
(***************************************************************************)
(* The way from a commit to a running pod, on small instances and in one   *)
(* run: secrets written, applied and read back, the inheritance of what is *)
(* served, the agent, and its debouncer.  They share no state: an initial  *)
(* state picks the part that is looked at, and the others rest, so that    *)
(* their states add up and do not multiply.                                *)
(***************************************************************************)
EXTENDS MCSecrets, Agent, Debouncer, Inheritance, TLC

CONSTANTS c1, e1, bad, s1, s2

VARIABLE focus

Budget == [change |-> 3, net |-> 1, api |-> 2, restart |-> 1, outsider |-> 1]

\* At rest: everything is applied, and the loop is between two polls.
AgentAtRest ==
    LET pair == [config |-> c1, env |-> e1]
    IN  /\ served = pair /\ handled = pair /\ fetched = Nothing
        /\ step = "config" /\ target = "config" /\ backoff = 0
        /\ cluster = [config |-> c1, env |-> e1, rolled |-> pair]
        /\ touched = FALSE /\ left = AgentBudget

LevelsAtRest ==
    /\ configLevels = [l \in Level |-> NoFile]
    /\ envLevels = [l \in Level |-> NoFile]

\* Every tree over one key and one leaf, and every environment over one name.
Trees ==
    LET leaves == {EmptyMap} \cup {"leaf" :> v : v \in Scalars \cup {Null}}
    IN  {EmptyMap} \cup {"key" :> v : v \in leaves \cup Scalars \cup {Null}}

Vars ==
    LET values == {EmptyMap} \cup {"NAME" :> v : v \in Scalars}
    IN  [plain : values, refs : values]

SecretsAtRest == SecretInit /\ VolumeInit /\ chances = Racing

AllLevels ==
    \/ /\ configLevels \in [Level -> Trees \cup {NoFile}]
       /\ envLevels = [l \in Level |-> NoFile]
    \/ /\ configLevels = [l \in Level |-> NoFile]
       /\ envLevels \in [Level -> Vars \cup {NoFile}]

MCInit ==
    \/ focus = "agent" /\ AgentInit /\ DebounceInit /\ LevelsAtRest /\ SecretsAtRest
    \/ focus = "debouncer" /\ AgentAtRest /\ DebounceInit /\ LevelsAtRest /\ SecretsAtRest
    \/ focus = "levels" /\ AgentAtRest /\ DebounceInit /\ AllLevels /\ SecretsAtRest
    \/ /\ focus = "secrets"
       /\ AgentAtRest /\ DebounceInit /\ LevelsAtRest /\ SecretInit /\ VolumeInit

deliveryVars ==
    <<focus, agentVars, debounceVars, configLevels, envLevels, allSecretVars>>

Levels == UNCHANGED <<configLevels, envLevels, focus>>

AgentRuns(A) ==
    focus = "agent" /\ A /\ UNCHANGED <<debounceVars, allSecretVars>> /\ Levels

MCNext ==
    \/ AgentRuns(AgentNext)
    \/ focus = "debouncer" /\ DebounceNext /\ UNCHANGED <<agentVars, allSecretVars>> /\ Levels
    \/ focus = "secrets" /\ VolumeNext /\ UNCHANGED <<agentVars, debounceVars>> /\ Levels

MCSpec == MCInit /\ [][MCNext]_deliveryVars /\ WF_agentVars(AgentRuns(LoopStep))
=============================================================================
