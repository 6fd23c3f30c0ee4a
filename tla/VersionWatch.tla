---------------------------- MODULE VersionWatch ----------------------------
(***************************************************************************)
(* Version tokens of a service's resources, and the handlers that read and *)
(* long-poll them (internal/store/store.go: applyResourceVersions,         *)
(* WaitForVersionChange; internal/handler/handler.go: getConfig, watch).   *)
(*                                                                         *)
(* What the store serves comes from ServedHistory: one published version   *)
(* after another, and nothing for a while after a restart.  A handler      *)
(* looks at the snapshot several times; each look is a step.               *)
(***************************************************************************)
EXTENDS Naturals, Sequences, FiniteSets

CONSTANTS
    Trees,       \* the service's files and defaults: [own, defaults]
    Absent,      \* where there is no file, or it has no such section
    Clients,     \* those who read and watch
    Views,       \* what they ask for: a resource, with the inherited defaults or raw
    MaxVersions, \* bound: versions published
    MaxRestarts  \* bound: restarts of the server

Resources == {"config", "env_vars"}
Files == Resources \cup {"secrets"}

ASSUME VersionWatchAssumption ==
    /\ \A t \in Trees : DOMAIN t = {"own", "defaults"} /\ DOMAIN t.own = Files
                        /\ DOMAIN t.defaults = Resources
    /\ Views \subseteq [resource : Resources, inherit : BOOLEAN]
    /\ MaxVersions \in Nat /\ MaxRestarts \in Nat

NoTree == [own |-> [f \in Files |-> Absent], defaults |-> [r \in Resources |-> Absent]]

VARIABLES
    published,  \* ServedHistory: the versions on the branch
    served,     \* ... the version of Store.snapshot
    view,       \* ... its content
    token,      \* ConfigResourceVersion, EnvVarsResourceVersion of the snapshot
    loaded,     \* the versions loaded since the start (history, for the properties)
    notifying,  \* reloadUnlocked has swapped and not yet notified
    bell,       \* how often versionChanged has been closed
    pc,         \* where each client's request is
    look,       \* what it wants, and has seen of the store: token, head, data, channel
    held,       \* each client's last answer
    restarts

sourceVars == <<published, served, view>>
storeVars == <<sourceVars, token, loaded, notifying, bell, restarts>>
clientVars == <<pc, look, held>>
vars == <<storeVars, clientVars>>

Source == INSTANCE ServedHistory WITH Versions <- 1..MaxVersions, NoVersion <- 0, NoView <- NoTree

\* The service is in the snapshot if any of its own files is.
Exists(tree) == \E f \in Files : tree.own[f] # Absent

\* What a client is shown: deepMergeMap / mergeEnvVars of the defaults and the file.
Payload(v, tree) ==
    [own |-> tree.own[v.resource],
     defaults |-> IF v.inherit THEN tree.defaults[v.resource] ELSE Absent]

\* hasInheritedConfigSource, hasInheritedEnvVarsSource
HasInherited(v, tree) == v.inherit /\ tree.defaults[v.resource] # Absent

Nothing == [resource |-> "none", inherit |-> FALSE]
NoLook == [want |-> Nothing, token |-> 0, head |-> 0, tree |-> NoTree, channel |-> 0]
NoAnswer == [want |-> Nothing, version |-> 0, payload |-> NoTree]

Init ==
    /\ published \in [{1} -> [before : {{}}, tree : Trees]]
    /\ Source!Init
    /\ token = [r \in Resources |-> 0]
    /\ loaded = <<>>
    /\ notifying = FALSE /\ bell = 0 /\ restarts = 0
    /\ pc = [c \in Clients |-> "idle"]
    /\ look = [c \in Clients |-> NoLook]
    /\ held = [c \in Clients |-> NoAnswer]

(***************************************************************************)
(* The store.                                                              *)
(***************************************************************************)
Publish ==
    /\ \E t \in Trees :
         /\ t # published[Cardinality(DOMAIN published)].tree
         /\ published' = [v \in DOMAIN published \cup {Cardinality(DOMAIN published) + 1} |->
                            IF v \in DOMAIN published THEN published[v]
                            ELSE [before |-> DOMAIN published, tree |-> t]]
    /\ Source!Publish
    /\ UNCHANGED <<token, loaded, notifying, bell, restarts, clientVars>>

\* Slip: the digest of the payload is not compared.
AlwaysNewVersion(r, version, tree) == version

\* Slip: only whether there is a file is compared.
SameVersionIfPresent(r, version, tree) ==
    IF Exists(view) /\ (tree.own[r] = Absent <=> view.own[r] = Absent) THEN token[r] ELSE version

\* Slip: it is not asked if the service was there.
SameVersionIfNoService(r, version, tree) ==
    IF tree.own[r] = view.own[r] THEN token[r] ELSE version

\* A resource keeps its version while it has the same content, or stays absent.
NextResourceVersion(r, version, tree) ==
    IF Exists(view) /\ tree.own[r] = view.own[r] THEN token[r] ELSE version

\* reloadUnlocked: the snapshot with its resource versions is stored ...
Reload ==
    /\ ~notifying
    /\ Source!Serve
    /\ token' = [r \in Resources |->
                    IF Exists(view') THEN NextResourceVersion(r, served', view') ELSE 0]
    /\ loaded' = IF served' = served THEN loaded ELSE Append(loaded, served')
    /\ notifying' = (served' # served)
    /\ UNCHANGED <<bell, restarts, clientVars>>

\* Slip: the old channel is replaced and not closed.
NotifyNobody ==
    /\ notifying
    /\ notifying' = FALSE
    /\ UNCHANGED <<sourceVars, token, loaded, bell, restarts, clientVars>>

\* ... and then the waiters are woken.
NotifyVersionChange ==
    /\ notifying
    /\ notifying' = FALSE
    /\ bell' = bell + 1
    /\ UNCHANGED <<sourceVars, token, loaded, restarts, clientVars>>

Restart ==
    /\ restarts < MaxRestarts
    /\ restarts' = restarts + 1
    /\ Source!Restart
    /\ token' = [r \in Resources |-> 0]
    /\ loaded' = <<>>
    /\ notifying' = FALSE /\ bell' = 0
    /\ pc' = [c \in Clients |-> "idle"]
    /\ look' = [c \in Clients |-> NoLook]
    /\ UNCHANGED held

(***************************************************************************)
(* The handlers.                                                           *)
(***************************************************************************)
Goto(c, place) == pc' = [pc EXCEPT ![c] = place]

\* The request ends with an error, or "304 Not Modified"; the client keeps what it has.
EndWithout(c) ==
    /\ Goto(c, "idle")
    /\ look' = [look EXCEPT ![c] = NoLook]
    /\ UNCHANGED held

Answer(c, version, tree) ==
    /\ held' = [held EXCEPT ![c] = [want |-> look[c].want, version |-> version,
                                   payload |-> Payload(look[c].want, tree)]]
    /\ Goto(c, "idle")
    /\ look' = [look EXCEPT ![c] = NoLook]

Get(c) ==
    /\ pc[c] = "idle" /\ served # 0
    /\ \E v \in Views : look' = [look EXCEPT ![c].want = v]
    /\ Goto(c, "data")
    /\ UNCHANGED <<storeVars, held>>

Watch(c) ==
    /\ pc[c] = "idle" /\ served # 0 /\ held[c].version # 0
    /\ look' = [look EXCEPT ![c].want = held[c].want]
    /\ Goto(c, "version")
    /\ UNCHANGED <<storeVars, held>>

\* waitForWatchChange: compare with the version that the client has.
Compare(c, version) ==
    Goto(c, IF version # held[c].version THEN "data" ELSE "wait")

\* Store.ResourceVersion
ReadVersion(c) ==
    /\ pc[c] = "version"
    /\ \/ /\ Exists(view)
          /\ look' = [look EXCEPT ![c].token = token[look[c].want.resource], ![c].head = served]
          /\ IF look[c].want.inherit THEN Goto(c, "inherited")
             ELSE Compare(c, token[look[c].want.resource])
          /\ UNCHANGED held
       \/ ~Exists(view) /\ EndWithout(c)
    /\ UNCHANGED storeVars

\* Handler.resourceVersion looks again for inherited sources.
ReadInherited(c) ==
    /\ pc[c] = "inherited"
    /\ \/ /\ Exists(view)
          /\ Compare(c, IF HasInherited(look[c].want, view) THEN look[c].head ELSE look[c].token)
          /\ UNCHANGED <<look, held>>
       \/ ~Exists(view) /\ EndWithout(c)
    /\ UNCHANGED storeVars

\* Slip: the channel is taken without comparing once more.
BlockUnchecked(c) ==
    /\ pc[c] = "wait"
    /\ Goto(c, "blocked") /\ look' = [look EXCEPT ![c].channel = bell]
    /\ UNCHANGED <<storeVars, held>>

\* versionChangeState: the version, and the channel if it is still the same.
CheckVersion(c) ==
    /\ pc[c] = "wait"
    /\ IF served # look[c].head
       THEN Goto(c, "version") /\ UNCHANGED look
       ELSE Goto(c, "blocked") /\ look' = [look EXCEPT ![c].channel = bell]
    /\ UNCHANGED <<storeVars, held>>

WakeUp(c) ==
    /\ pc[c] = "blocked" /\ bell # look[c].channel
    /\ Goto(c, "wait")
    /\ UNCHANGED <<storeVars, look, held>>

\* The deadline is looked at before each comparison and while blocked.
Timeout(c) ==
    /\ pc[c] \in {"version", "blocked"}
    /\ EndWithout(c)
    /\ UNCHANGED storeVars

\* configPayloadFromData, envVarsPayloadFromData: the data, and its token ...
ReadData(c) ==
    /\ pc[c] = "data"
    /\ \/ /\ Exists(view)
          /\ IF HasInherited(look[c].want, view)
             THEN look' = [look EXCEPT ![c].tree = view] /\ Goto(c, "head") /\ UNCHANGED held
             ELSE Answer(c, token[look[c].want.resource], view)
       \/ ~Exists(view) /\ EndWithout(c)
    /\ UNCHANGED storeVars

\* Slip: the defaults are taken at the second look too.
MergeAtReply(c) ==
    /\ pc[c] = "head"
    /\ Answer(c, served, [look[c].tree EXCEPT !.defaults = view.defaults])
    /\ UNCHANGED storeVars

\* ... or, if there are inherited sources, the head at a second look.
ReadHead(c) ==
    /\ pc[c] = "head"
    /\ Answer(c, served, look[c].tree)
    /\ UNCHANGED storeVars

Handle(c) ==
    \/ ReadVersion(c) \/ ReadInherited(c) \/ CheckVersion(c) \/ WakeUp(c)
    \/ ReadData(c) \/ ReadHead(c)

Next ==
    \/ Publish \/ Reload \/ NotifyVersionChange \/ Restart
    \/ \E c \in Clients : Get(c) \/ Watch(c) \/ Handle(c) \/ Timeout(c)

Spec == Init /\ [][Next]_vars

\* A client reads once and then watches, again and again; what has started runs on,
\* and a request that is repeated is not for ever cut off before its first look at
\* the store (SF).  No watch needs its deadline to come to an end.
Fairness ==
    /\ WF_vars(NotifyVersionChange)
    /\ \A c \in Clients :
          /\ WF_vars(held[c].version = 0 /\ Get(c))
          /\ WF_vars(Watch(c))
          /\ SF_vars(Handle(c))

FairSpec == Spec /\ Fairness

(***************************************************************************)
(* What should be true.                                                    *)
(***************************************************************************)
TypeOK ==
    /\ served \in 0..MaxVersions
    /\ view \in Trees \cup {NoTree}
    /\ token \in [Resources -> IF Exists(view) THEN 1..MaxVersions ELSE {0}]
    /\ loaded \in Seq(1..MaxVersions)
    /\ notifying \in BOOLEAN /\ bell \in Nat
    /\ pc \in [Clients -> {"idle", "version", "inherited", "wait", "blocked", "data", "head"}]
    /\ \A c \in Clients : look[c].channel \in 0..bell
    /\ \A c \in Clients : held[c].version \in 0..MaxVersions

\* A token is the version "from the last loaded snapshot where that specific
\* resource payload changed" (RUNTIME.md), since the server was started or the
\* service came to be: not an earlier one, and not one where another file changed.
TokenIsLastChange ==
    served # 0 /\ Exists(view) =>
        \A r \in Resources :
            \E n \in DOMAIN loaded :
                LET tree(m) == published[loaded[m]].tree IN
                /\ token[r] = loaded[n]
                /\ \A m \in n..Len(loaded) : Exists(tree(m)) /\ tree(m).own[r] = view.own[r]
                /\ n > 1 => ~Exists(tree(n-1)) \/ tree(n-1).own[r] # view.own[r]

\* A client that reads the raw file holds exactly the file of the version that it
\* was told, whatever was loaded while it was served, before or after a restart.
RawAnswerIsExact ==
    \A c \in Clients :
        ~held[c].want.inherit /\ held[c].version # 0 =>
            held[c].payload = Payload(held[c].want, published[held[c].version].tree)

Current(c) ==
    Exists(view) /\ held[c].version # 0 => held[c].payload = Payload(held[c].want, view)

\* A raw watcher that waits for a channel which nobody is about to close holds what is
\* served: no reload falls between its last comparison and its wait, and none that
\* changes the payload leaves the token as it was (WaitForVersionChange,
\* NotifyVersionChange, nextResourceVersion).
BlockedIsCurrent ==
    \A c \in Clients :
        /\ pc[c] = "blocked" /\ look[c].channel = bell /\ ~notifying
        /\ ~held[c].want.inherit
        => Current(c)

\* A raw watcher is told of every change, in the end, without the help of a
\* deadline: no wake-up falls between the comparison and the wait, and no change of
\* the payload leaves the token as it was.
RawWatcherCatchesUp == \A c \in Clients : <>[](~held[c].want.inherit => Current(c))

\* The same of every view, also the inherited one, which is the default: "Config/env
\* watch endpoints use the same inherit view for version comparison and response
\* payloads" (RUNTIME.md).
WatcherCatchesUp == \A c \in Clients : <>[]Current(c)

\* An answer is the view of one published version: the file and the defaults merged
\* into it are of the same commit, however often the handler looks.
AnswerIsOneSnapshot ==
    \A c \in Clients :
        held[c].version # 0 =>
            \E v \in DOMAIN published :
                held[c].payload = Payload(held[c].want, published[v].tree)

=============================================================================
