------------------------------- MODULE Registry -------------------------------
(***************************************************************************)
(* The App Registry (internal/registry/cache.go, bootstrap.go): a cache of *)
(* the apps known to the console, filled from a list when the process      *)
(* starts and kept up to date by webhook events.                           *)
(*                                                                         *)
(* The console is external.  It sends an event for every change, at least  *)
(* once and in any order; it neither sends one, nor gives up on one, more  *)
(* than MaxSkew after the change.  Time is counted in changes.             *)
(***************************************************************************)
EXTENDS Naturals

CONSTANTS
    Keys,        \* org/project/service
    UntimedKeys, \* the apps that the console lists without updated_at
    Retention,   \* watermarkRetention
    MaxSkew,     \* how long after a change its event may arrive
    MaxAttempts, \* BootstrapOptions.MaxAttempts
    MaxTime,     \* bound: changes at the console
    MaxRestarts  \* bound: restarts of the server

\* "Console webhook delivery skew should never approach this value" (cache.go).
ASSUME RegistryAssumption ==
    /\ UntimedKeys \subseteq Keys
    /\ Retention \in Nat /\ MaxSkew \in Nat /\ MaxSkew <= Retention
    /\ MaxAttempts \in Nat \ {0}
    /\ MaxTime \in Nat /\ MaxRestarts \in Nat

VARIABLES
    clock,       \* how many changes there have been
    console,     \* what the console has: of each app whether, and since when
    sent,        \* the events of all changes
    pending,     \* ... those that have not been answered yet
    boot,        \* the bootstrap: "load", "replace", "done"
    attempt,     \* ... its attempts so far
    list,        \* ... the list that it has received
    apps,        \* Cache.apps
    lastEventAt, \* Cache.lastEventAt, the watermarks: 0 for none
    status,      \* Cache.status
    seen,        \* the newest that this process was told of each app (history)
    deleted,     \* the newest delete that any process was told of (history)
    restarts

consoleVars == <<clock, console, sent>>
cacheVars == <<apps, lastEventAt, status>>
bootVars == <<boot, attempt, list>>
vars == <<consoleVars, pending, bootVars, cacheVars, seen, deleted, restarts>>

Times == 0..MaxTime
State == [present : BOOLEAN, at : Times]
Event == [key : Keys, present : BOOLEAN, at : Times \ {0}]
Unknown == [present |-> FALSE, at |-> 0]

\* A cached registration: which it is, and its updated_at, 0 if it has none.
App == [version : Times, at : Times]
NoApp == [version |-> 0, at |-> 0]

NewCache ==
    [apps |-> [k \in Keys |-> NoApp], lastEventAt |-> [k \in Keys |-> 0],
     status |-> "not_configured"]

\* Without a CONSOLE_API_URL there is nothing to load.
Init ==
    /\ clock = 0
    /\ console = [k \in Keys |-> Unknown]
    /\ sent = {} /\ pending = {}
    /\ boot \in {"load", "done"} /\ attempt = 1
    /\ list = [k \in Keys |-> Unknown]
    /\ apps = NewCache.apps /\ lastEventAt = NewCache.lastEventAt /\ status = NewCache.status
    /\ seen = [k \in Keys |-> Unknown]
    /\ deleted = [k \in Keys |-> 0]
    /\ restarts = 0

(***************************************************************************)
(* The console (external).                                                 *)
(***************************************************************************)
Change(k, present) ==
    /\ clock < MaxTime
    /\ \A e \in pending : clock < e.at + MaxSkew
    /\ present \/ console[k].present
    /\ clock' = clock + 1
    /\ console' = [console EXCEPT ![k] = [present |-> present, at |-> clock']]
    /\ sent' = sent \cup {[key |-> k, present |-> present, at |-> clock']}
    /\ pending' = pending \cup {[key |-> k, present |-> present, at |-> clock']}
    /\ UNCHANGED <<bootVars, cacheVars, seen, deleted, restarts>>

(***************************************************************************)
(* Bootstrap: LoadApps with retries, then Replace; nothing is served yet.  *)
(***************************************************************************)
LoadApps ==
    /\ boot = "load"
    /\ list' = console
    /\ boot' = "replace"
    /\ UNCHANGED <<consoleVars, pending, attempt, cacheVars, seen, deleted, restarts>>

\* Slip: one attempt too many.
LoadFailsOnceMore ==
    /\ boot = "load"
    /\ IF attempt <= MaxAttempts
       THEN attempt' = attempt + 1 /\ UNCHANGED <<boot, status>>
       ELSE boot' = "done" /\ status' = "degraded" /\ UNCHANGED attempt
    /\ UNCHANGED <<consoleVars, pending, list, apps, lastEventAt, seen, deleted, restarts>>

\* The last failure is logged, and the process goes on with an empty cache.
LoadFails ==
    /\ boot = "load"
    /\ IF attempt < MaxAttempts
       THEN attempt' = attempt + 1 /\ UNCHANGED <<boot, status>>
       ELSE boot' = "done" /\ status' = "degraded" /\ UNCHANGED attempt
    /\ UNCHANGED <<consoleVars, pending, list, apps, lastEventAt, seen, deleted, restarts>>

\* Slip: an app without a time is taken for registered just now.
ListedAsOfNow(k) == IF k \in UntimedKeys THEN clock ELSE list[k].at

Listed(k) == IF k \in UntimedKeys THEN 0 ELSE list[k].at

Later(a, b) == IF a > b THEN a ELSE b

\* Watermarks of apps that are not listed are kept while they are recent.
Kept(k) == IF list[k].present \/ lastEventAt[k] + Retention > clock THEN lastEventAt[k] ELSE 0

Replace ==
    /\ boot = "replace"
    /\ apps' = [k \in Keys |->
                  IF list[k].present THEN [version |-> list[k].at, at |-> Listed(k)] ELSE NoApp]
    /\ lastEventAt' = [k \in Keys |->
                  IF list[k].present THEN Later(Kept(k), Listed(k)) ELSE Kept(k)]
    /\ status' = "ok"
    /\ boot' = "done"
    /\ seen' = [k \in Keys |->
                  IF list[k].present /\ k \notin UntimedKeys THEN list[k] ELSE Unknown]
    /\ UNCHANGED <<consoleVars, pending, attempt, list, deleted, restarts>>

(***************************************************************************)
(* Upsert and Delete.                                                      *)
(***************************************************************************)
\* Not older than the watermark, nor than what is registered (shouldApplyEvent).
Fresh(e, marks) == marks[e.key] <= e.at /\ apps[e.key].at <= e.at

\* Slip: every app that went before the event is forgotten.
PruneAll(at) == [k \in Keys |-> IF apps[k] = NoApp /\ lastEventAt[k] < at THEN 0 ELSE lastEventAt[k]]

\* pruneExpiredTombstonesLocked: an event makes the cache forget the apps that went
\* long before it, whichever app it is about.
Pruned(at) ==
    [k \in Keys |->
       IF apps[k] = NoApp /\ lastEventAt[k] + Retention < at THEN 0 ELSE lastEventAt[k]]

\* Slip: an event is remembered only with a registration.
ApplyForgettingDeletes(e, marks) ==
    /\ apps' = [apps EXCEPT ![e.key] = IF e.present THEN [version |-> e.at, at |-> e.at] ELSE NoApp]
    /\ lastEventAt' = IF e.present THEN [marks EXCEPT ![e.key] = e.at] ELSE marks

Apply(e, marks) ==
    /\ apps' = [apps EXCEPT ![e.key] = IF e.present THEN [version |-> e.at, at |-> e.at] ELSE NoApp]
    /\ lastEventAt' = [marks EXCEPT ![e.key] = Later(@, e.at)]

Ignore(marks) == lastEventAt' = marks /\ UNCHANGED apps

Told(e) ==
    /\ seen' = [seen EXCEPT ![e.key] =
                  IF @.at < e.at THEN [present |-> e.present, at |-> e.at] ELSE @]
    /\ deleted' = [deleted EXCEPT ![e.key] = IF e.present THEN @ ELSE Later(@, e.at)]

\* An event is sent for the first time, or again.
Deliver(e) ==
    /\ boot = "done"
    /\ clock <= e.at + MaxSkew
    /\ LET marks == Pruned(e.at) IN
       IF Fresh(e, marks) THEN Apply(e, marks) ELSE Ignore(marks)
    /\ Told(e)
    /\ pending' = pending \ {e}
    /\ UNCHANGED <<consoleVars, bootVars, status, restarts>>

Restart ==
    /\ restarts < MaxRestarts
    /\ restarts' = restarts + 1
    /\ boot' \in {"load", "done"} /\ attempt' = 1
    /\ list' = [k \in Keys |-> Unknown]
    /\ apps' = NewCache.apps /\ lastEventAt' = NewCache.lastEventAt /\ status' = NewCache.status
    /\ seen' = [k \in Keys |-> Unknown]
    /\ UNCHANGED <<consoleVars, pending, deleted>>

Next ==
    \/ \E k \in Keys, present \in BOOLEAN : Change(k, present)
    \/ LoadApps \/ LoadFails \/ Replace
    \/ \E e \in sent : Deliver(e)
    \/ Restart

Spec == Init /\ [][Next]_vars

\* The bootstrap comes to an end, and what has not been answered is sent again.
Fairness ==
    /\ WF_vars(LoadApps \/ LoadFails \/ Replace)
    /\ \A e \in Event : WF_vars(e \in pending /\ Deliver(e))

FairSpec == Spec /\ Fairness

(***************************************************************************)
(* What should be true.                                                    *)
(***************************************************************************)
TypeOK ==
    /\ clock \in Times
    /\ console \in [Keys -> State]
    /\ sent \subseteq Event /\ pending \subseteq sent
    /\ boot \in {"load", "replace", "done"} /\ attempt \in 1..MaxAttempts
    /\ list \in [Keys -> State]
    /\ apps \in [Keys -> App]
    /\ lastEventAt \in [Keys -> 0..clock]
    /\ status \in {"not_configured", "ok", "degraded"}
    /\ seen \in [Keys -> State]
    /\ deleted \in [Keys -> Times]
    /\ restarts \in 0..MaxRestarts

Shows(app, state) == app.version = IF state.present THEN state.at ELSE 0

\* The cache holds the newest that this process has been told of each app, in
\* whatever order and however often it was told, and whatever it has forgotten of
\* the apps that went (Upsert, Delete, pruneExpiredTombstonesLocked).
NewestWins == \A k \in Keys : seen[k].at # 0 => Shows(apps[k], seen[k])

\* What the console has had an answer for is in the cache: once no event of an app is
\* outstanding, the cache shows the app as the console has it.  That holds whatever was
\* sent while the list was read, and with or without a list, for the first process; a
\* later one has it from the list, if the list gives the app with its time (Replace,
\* Upsert, Delete).
AnsweredIsCached ==
    \A k \in Keys :
        /\ boot = "done"
        /\ \A e \in pending : e.key # k
        /\ restarts = 0 \/ (status = "ok" /\ console[k].present /\ k \notin UntimedKeys)
        => Shows(apps[k], console[k])

\* A process that has loaded the list arrives at what the console has, though the
\* list may be older than events that were sent while it was being read.
Converges ==
    <>[](status = "ok" /\ restarts = 0 => \A k \in Keys : Shows(apps[k], console[k]))

\* "stale async retries are ignored, including older upserts that arrive after a
\* newer delete" (RUNTIME.md), by a process that has loaded the list.
DeletedStaysDeleted ==
    status = "ok" => \A k \in Keys : apps[k] # NoApp => deleted[k] < apps[k].version

=============================================================================
