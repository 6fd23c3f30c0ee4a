-------------------------------- MODULE Agent --------------------------------
(***************************************************************************)
(* One Config Agent of internal/agent: the fetch loop polls a service's    *)
(* configuration and environment with two requests, and when either has    *)
(* changed its handler renders both and writes them to the cluster: the    *)
(* ConfigMap, the Secret, and the annotation that rolls the Deployment.    *)
(* The handler is composed as e2e_smoke_test.go composes it.  The config   *)
(* server and the Kubernetes API are external.  Nobody else writes the     *)
(* agent's keys; objects that hold other keys only may be created by others.*)
(***************************************************************************)
EXTENDS Naturals

CONSTANTS
    Configs, Envs,   \* the contents the server may serve
    Unrenderable,    \* environments that RenderEnvSH refuses
    None,            \* nothing: no object, nothing fetched, nothing handled
    Bare,            \* an object without the agent's key
    InitialBackoff, MaxBackoff,
    AgentBudget      \* how often each event that the agent does not choose may happen

AgentEvents == {"change", "net", "api", "restart", "outsider"}

ASSUME AgentAssumption ==
    /\ Unrenderable \subseteq Envs
    /\ None \notin Configs \cup Envs /\ Bare \notin Configs \cup Envs /\ None # Bare
    /\ InitialBackoff \in Nat \ {0} /\ MaxBackoff \in Nat /\ MaxBackoff >= InitialBackoff
    /\ AgentBudget \in [AgentEvents -> Nat]

VARIABLES
    served,     \* the contents the server answers with
    handled,    \* FetchLoop.state: the last contents handled, or None
    fetched,    \* what the current poll has read
    step,       \* where the loop is
    target,     \* the object being applied
    backoff,    \* RetryBackoff.current
    cluster,    \* the objects, and the contents the last rollout is for
    touched,    \* history: a handler has written to the cluster and not completed
    left        \* what is left of the budget

agentVars == <<served, handled, fetched, step, target, backoff, cluster, touched, left>>

Contents == [config : Configs, env : Envs]
Objects == {"config", "env"}     \* the ConfigMap's key and the Secret's
Steps == {"config", "env", "patch", "create", "patchAgain", "rollout"}

AgentTypeOK ==
    /\ served \in Contents
    /\ handled \in Contents \cup {None}
    /\ fetched \in [config : Configs \cup {None}, env : Envs \cup {None}]
    /\ step \in Steps /\ target \in Objects
    /\ backoff = 0 \/ backoff \in InitialBackoff..MaxBackoff
    /\ cluster \in [config : Configs \cup {None, Bare}, env : Envs \cup {None, Bare},
                    rolled : Contents \cup {None}]
    /\ touched \in BOOLEAN
    /\ left \in [AgentEvents -> Nat]

Nothing == [config |-> None, env |-> None]

AgentInit ==
    /\ served \in Contents
    /\ handled = None /\ fetched = Nothing
    /\ step = "config" /\ target = "config" /\ backoff = 0
    /\ cluster = [config |-> None, env |-> None, rolled |-> None]
    /\ touched = FALSE
    /\ left = AgentBudget

AgentSpend(e) == left[e] > 0 /\ left' = [left EXCEPT ![e] = @ - 1]

(***************************************************************************)
(* RetryBackoff and the turns of FetchLoop.Run.                            *)
(***************************************************************************)
\* Slip: the cap is forgotten.
NextUncapped == IF backoff = 0 THEN InitialBackoff ELSE backoff * 2

NextBackoff ==
    IF backoff = 0 THEN InitialBackoff
    ELSE IF backoff * 2 > MaxBackoff THEN MaxBackoff ELSE backoff * 2

Poll == step' = "config" /\ target' = "config" /\ fetched' = Nothing

\* A fetch or the handler failed: wait, and poll anew.
Retry == Poll /\ backoff' = NextBackoff /\ UNCHANGED handled

(***************************************************************************)
(* FetchOnce: two requests.  Contents are compared by their hashes with    *)
(* what was last handled.                                                  *)
(***************************************************************************)
FetchConfig ==
    /\ step = "config"
    /\ fetched' = [fetched EXCEPT !.config = served.config]
    /\ step' = "env"
    /\ UNCHANGED <<served, handled, target, backoff, cluster, touched, left>>

\* Slip: once something has been handled only the configuration is compared.
FetchComparingConfig ==
    /\ step = "env"
    /\ LET pair == [fetched EXCEPT !.env = served.env]
           same == handled # None /\ pair.config = handled.config
       IN  \/ same /\ Poll /\ backoff' = 0 /\ UNCHANGED handled
           \/ ~same /\ pair.env \in Unrenderable /\ Retry
           \/ /\ ~same /\ pair.env \notin Unrenderable
              /\ fetched' = pair
              /\ step' = "patch"
              /\ UNCHANGED <<handled, target, backoff>>
    /\ UNCHANGED <<served, cluster, touched, left>>

FetchEnvVars ==
    /\ step = "env"
    /\ LET pair == [fetched EXCEPT !.env = served.env]
       IN  \/ /\ pair = handled
              /\ Poll /\ backoff' = 0 /\ UNCHANGED handled
           \/ /\ pair # handled /\ pair.env \in Unrenderable    \* RenderEnvSH
              /\ Retry
           \/ /\ pair # handled /\ pair.env \notin Unrenderable
              /\ fetched' = pair
              /\ step' = "patch"
              /\ UNCHANGED <<handled, target, backoff>>
    /\ UNCHANGED <<served, cluster, touched, left>>

FetchFails ==
    /\ step \in {"config", "env"}
    /\ AgentSpend("net")
    /\ Retry
    /\ UNCHANGED <<served, cluster, touched>>

(***************************************************************************)
(* ApplyRenderedPayloads: applyConfigMap, then applySecret.  Each patches; *)
(* creates what is not there; and patches again if another was faster.     *)
(***************************************************************************)
Put == cluster' = [cluster EXCEPT ![target] = fetched[target]] /\ touched' = TRUE

Applied ==
    /\ Put
    /\ IF target = "config" THEN target' = "env" /\ step' = "patch"
                            ELSE step' = "rollout" /\ UNCHANGED target
    /\ UNCHANGED <<served, handled, fetched, backoff, left>>

Goes(s) ==
    step' = s /\ UNCHANGED <<served, handled, fetched, target, backoff, cluster, touched, left>>

Patch == step = "patch" /\ IF cluster[target] = None THEN Goes("create") ELSE Applied

\* Slip: that the object exists by now is taken for success.
CreateOrExists ==
    /\ step = "create"
    /\ IF cluster[target] = None
       THEN Applied
       ELSE /\ IF target = "config" THEN target' = "env" /\ step' = "patch"
                                    ELSE step' = "rollout" /\ UNCHANGED target
            /\ UNCHANGED <<served, handled, fetched, backoff, cluster, touched, left>>

Create ==
    /\ step = "create"
    /\ IF cluster[target] = None THEN Applied ELSE Goes("patchAgain")

PatchAgain == step = "patchAgain" /\ Applied

\* TriggerRollout, with the hash of both payloads; MarkHandled.
Rollout ==
    /\ step = "rollout"
    /\ cluster' = [cluster EXCEPT !.rolled = fetched]
    /\ handled' = fetched
    /\ touched' = FALSE
    /\ backoff' = 0
    /\ Poll
    /\ UNCHANGED <<served, left>>

\* Slip: handled although the rollout, or an apply before it, has failed.
MarkedAnyway ==
    /\ step \notin {"config", "env"}
    /\ AgentSpend("api")
    /\ Poll /\ backoff' = NextBackoff
    /\ handled' = fetched
    /\ touched' = FALSE
    /\ UNCHANGED <<served, cluster>>

\* A call fails: refused, or timed out when it had taken effect.
CallFails ==
    /\ step \notin {"config", "env"}
    /\ AgentSpend("api")
    /\ \/ UNCHANGED <<cluster, touched>>
       \/ /\ step # "rollout"
          /\ (cluster[target] = None) = (step = "create")
          /\ Put
       \/ /\ step = "rollout"
          /\ cluster' = [cluster EXCEPT !.rolled = fetched]
          /\ UNCHANGED touched
    /\ Retry
    /\ UNCHANGED served

(***************************************************************************)
(* The rest of the world.                                                  *)
(***************************************************************************)
\* A reload of the server: either part, or both.
ServedChanges ==
    /\ AgentSpend("change")
    /\ served' \in Contents \ {served}
    /\ UNCHANGED <<handled, fetched, step, target, backoff, cluster, touched>>

\* The agent's process starts again: what it had handled is forgotten.
AgentRestarts ==
    /\ AgentSpend("restart")
    /\ handled' = None
    /\ backoff' = 0
    /\ Poll
    /\ UNCHANGED <<served, cluster, touched>>

OutsiderCreates ==
    /\ AgentSpend("outsider")
    /\ \E o \in Objects :
          /\ cluster[o] = None
          /\ cluster' = [cluster EXCEPT ![o] = Bare]
    /\ UNCHANGED <<served, handled, fetched, step, target, backoff, touched>>

LoopStep == FetchConfig \/ FetchEnvVars \/ Patch \/ Create \/ PatchAgain \/ Rollout

AgentNext ==
    \/ LoopStep
    \/ FetchFails \/ CallFails
    \/ ServedChanges \/ AgentRestarts \/ OutsiderCreates

\* The loop runs on: every wait is a timer, every call has a timeout.
AgentFairness == WF_agentVars(LoopStep)

AgentSpec == AgentInit /\ [][AgentNext]_agentVars /\ AgentFairness

(***************************************************************************)
(* What should be true.                                                    *)
(***************************************************************************)
InCluster(pair) == cluster = [config |-> pair.config, env |-> pair.env, rolled |-> pair]

\* What the loop holds for handled is what the cluster runs: both objects, and a
\* rollout for both, unless a later handler has begun to write and not finished
\* (MarkHandled only after the handler's success).
HandledIsRunning == (handled # None /\ ~touched) => InCluster(handled)

\* A rollout is only triggered for the contents that both objects hold by then:
\* pods never restart into a half-applied pair (applyConfigMap, applySecret and
\* TriggerRollout in this order, each after the success of the one before).
RolloutSeesPayload ==
    [][cluster'.rolled # cluster.rolled => InCluster(cluster.rolled)']_agentVars

\* Once the server's contents stay the same, the cluster comes to run them, torn
\* pairs, failed calls and restarts notwithstanding (the comment in FetchOnce says
\* so), unless they cannot be rendered.  One case is excepted: contents that are
\* withdrawn when half of them are written.  The loop then finds again what it
\* handled before, sees no change, and leaves the half in place.
Converges ==
    <>[](\/ served.env \in Unrenderable
         \/ InCluster(served)
         \/ touched /\ handled = served)

=============================================================================
