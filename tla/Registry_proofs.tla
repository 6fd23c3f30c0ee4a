--------------------------- MODULE Registry_proofs ---------------------------
(***************************************************************************)
(* The registry keeps the newest it was told of every app, for any number  *)
(* of apps, changes, attempts and restarts, and any retention that is not  *)
(* shorter than the console's delivery skew.                               *)
(***************************************************************************)
EXTENDS Registry, TLAPS

\* What is known of an app is what one of the events says.
Sent(k, state) == [key |-> k, present |-> state.present, at |-> state.at] \in sent

SentInv ==
    /\ \A e \in sent : e.at <= clock
    /\ \A d, e \in sent : d.at = e.at => d = e
    /\ \A k \in Keys : console[k].at # 0 => Sent(k, console[k])
    /\ \A k \in Keys : list[k].at # 0 => Sent(k, list[k])
    /\ \A k \in Keys : seen[k].at # 0 => Sent(k, seen[k])
    /\ \A k \in Keys : console[k].present => console[k].at # 0
    /\ \A k \in Keys : list[k].present => list[k].at # 0

Registered(state) ==
    IF state.present THEN [version |-> state.at, at |-> state.at] ELSE NoApp

\* The watermark is the time of the newest, unless that was a delete so long ago
\* that no older event can arrive any more.
Marked(k) ==
    \/ lastEventAt[k] = seen[k].at
    \/ /\ lastEventAt[k] = 0
       /\ ~seen[k].present
       /\ seen[k].at + Retention < clock

AppInv(k) ==
    IF seen[k].at # 0 THEN apps[k] = Registered(seen[k]) /\ Marked(k)
                      ELSE apps[k].at = 0 /\ lastEventAt[k] = 0

\* Nothing is cached before the bootstrap has ended.
BootInv ==
    boot # "done" => \A k \in Keys : apps[k] = NoApp /\ lastEventAt[k] = 0 /\ seen[k].at = 0

RegistryInv == TypeOK /\ SentInv /\ BootInv /\ \A k \in Keys : AppInv(k)

-----------------------------------------------------------------------------
USE RegistryAssumption

LEMMA InvInit == Init => RegistryInv
<1> SUFFICES ASSUME Init PROVE RegistryInv
    OBVIOUS
<1>1. TypeOK
    BY DEF Init, TypeOK, NewCache, Unknown, NoApp, State, App, Times
<1>2. SentInv
    BY DEF Init, SentInv, Unknown
<1>3. BootInv
    BY DEF Init, BootInv, NewCache, Unknown
<1>4. ASSUME NEW k \in Keys PROVE AppInv(k)
    BY DEF Init, AppInv, NewCache, Unknown, NoApp
<1> QED
    BY <1>1, <1>2, <1>3, <1>4 DEF RegistryInv

\* A change at the console is a new event; the cache does not know of it yet.
LEMMA ChangeKeeps ==
    ASSUME RegistryInv, NEW k \in Keys, NEW present \in BOOLEAN, Change(k, present)
    PROVE  RegistryInv'
<1> DEFINE e == [key |-> k, present |-> present, at |-> clock']
<1>1. /\ clock' = clock + 1 /\ clock' \in Times \ {0} /\ clock \in Nat
      /\ sent' = sent \cup {e} /\ e \in Event
      /\ console' = [console EXCEPT ![k] = [present |-> present, at |-> clock']]
    BY DEF RegistryInv, TypeOK, Change, Times, Event
<1>2. TypeOK'
    BY <1>1 DEF RegistryInv, TypeOK, Change, bootVars, cacheVars, State, Times
<1>3. SentInv'
  <2>1. \A d \in sent : d.at <= clock /\ d.at \in Nat
      BY DEF RegistryInv, TypeOK, SentInv, Event, Times
  <2>2. \A d \in sent' : d.at <= clock'
      BY <1>1, <2>1
  <2>3. \A c, d \in sent' : c.at = d.at => c = d
    <3>1. \A d \in sent : d.at # e.at
        BY <1>1, <2>1
    <3> QED
        BY <1>1, <3>1 DEF RegistryInv, SentInv
  <2>4. \A j \in Keys : console'[j] = IF j = k THEN [present |-> present, at |-> clock']
                                     ELSE console[j]
      BY <1>1 DEF RegistryInv, TypeOK
  <2>5. \A j \in Keys : (console[j].at # 0 => Sent(j, console[j]))'
      BY <1>1, <2>4 DEF RegistryInv, SentInv, Sent
  <2>6. \A j \in Keys : (console[j].present => console[j].at # 0)'
      BY <1>1, <2>4 DEF RegistryInv, SentInv
  <2>7. list' = list /\ seen' = seen
      BY DEF Change, bootVars
  <2> QED
      BY <1>1, <2>2, <2>3, <2>5, <2>6, <2>7 DEF RegistryInv, SentInv, Sent
<1>4. BootInv'
    BY DEF RegistryInv, BootInv, Change, bootVars, cacheVars
<1>5. ASSUME NEW j \in Keys PROVE AppInv(j)'
    BY <1>1 DEF RegistryInv, TypeOK, AppInv, Registered, Marked, Change, cacheVars, State, Times
<1> QED
    BY <1>2, <1>3, <1>4, <1>5 DEF RegistryInv

-----------------------------------------------------------------------------
(* The bootstrap. *)

LEMMA LoadKeeps ==
    ASSUME RegistryInv, LoadApps \/ LoadFails
    PROVE  RegistryInv'
<1>1. UNCHANGED <<clock, console, sent, pending, apps, lastEventAt, seen, deleted, restarts>>
    BY DEF LoadApps, LoadFails, consoleVars, cacheVars
<1>2. list' = list \/ list' = console
    BY DEF LoadApps, LoadFails
<1>3. TypeOK'
    BY <1>1, <1>2 DEF RegistryInv, TypeOK, LoadApps, LoadFails, cacheVars
<1>4. SentInv'
    BY <1>1, <1>2 DEF RegistryInv, SentInv, Sent
<1>5. BootInv'
    BY <1>1 DEF RegistryInv, BootInv, LoadApps, LoadFails
<1>6. ASSUME NEW k \in Keys PROVE AppInv(k)'
    BY <1>1 DEF RegistryInv, AppInv, Registered, Marked
<1> QED
    BY <1>3, <1>4, <1>5, <1>6 DEF RegistryInv

LEMMA ReplaceKeeps ==
    ASSUME RegistryInv, Replace
    PROVE  RegistryInv'
<1>1. UNCHANGED <<clock, console, sent, pending, attempt, list, deleted, restarts>>
    BY DEF Replace, consoleVars
<1>2. ASSUME NEW k \in Keys
      PROVE  /\ lastEventAt[k] = 0 /\ Kept(k) = 0
             /\ list[k] \in State /\ list[k].at <= clock /\ clock \in Times
             /\ list[k].present => list[k].at # 0 /\ Sent(k, list[k])
    BY DEF RegistryInv, TypeOK, SentInv, Sent, BootInv, Replace, Kept, State, Times
<1>3. ASSUME NEW k \in Keys
      PROVE  /\ apps'[k] = IF list[k].present THEN [version |-> list[k].at, at |-> Listed(k)] ELSE NoApp
             /\ lastEventAt'[k] = IF list[k].present THEN Listed(k) ELSE 0
             /\ seen'[k] = IF list[k].present /\ k \notin UntimedKeys THEN list[k] ELSE Unknown
    BY <1>2 DEF Replace, Later, Listed, State, Times
<1>4. TypeOK'
  <2>1. apps' \in [Keys -> App]
      BY <1>2 DEF Replace, App, NoApp, Listed, State, Times
  <2>2. lastEventAt' \in [Keys -> 0..clock]
      BY <1>2 DEF Replace, Later, Listed, State, Times
  <2>3. seen' \in [Keys -> State]
      BY <1>2 DEF Replace, Unknown, State, Times
  <2> QED
      BY <1>1, <2>1, <2>2, <2>3 DEF RegistryInv, TypeOK, Replace
<1>5. SentInv'
  <2>1. ASSUME NEW k \in Keys, seen'[k].at # 0 PROVE Sent(k, seen'[k])
    <3>1. CASE list[k].present /\ k \notin UntimedKeys
      <4>1. seen'[k] = list[k]
          BY <1>3, <3>1
      <4> QED
          BY <1>2, <3>1, <4>1
    <3>2. CASE ~(list[k].present /\ k \notin UntimedKeys)
      <4>1. seen'[k] = Unknown
          BY <1>3, <3>2
      <4> QED
          BY <2>1, <4>1 DEF Unknown
    <3> QED
        BY <3>1, <3>2
  <2>2. \A k \in Keys : (seen[k].at # 0 => Sent(k, seen[k]))'
      BY <1>1, <2>1 DEF Sent
  <2> QED
      BY <1>1, <2>2 DEF RegistryInv, SentInv, Sent
<1>6. BootInv'
    BY DEF BootInv, Replace
<1>7. ASSUME NEW k \in Keys PROVE AppInv(k)'
  <2>1. CASE list[k].present /\ k \notin UntimedKeys
    <3>1. /\ seen'[k] = list[k] /\ list[k].at # 0
          /\ apps'[k] = [version |-> list[k].at, at |-> list[k].at]
          /\ lastEventAt'[k] = list[k].at
        BY <1>2, <1>3, <2>1 DEF Listed
    <3> QED
        BY <2>1, <3>1 DEF AppInv, Registered, Marked
  <2>2. CASE ~(list[k].present /\ k \notin UntimedKeys)
    <3>1. seen'[k].at = 0 /\ apps'[k].at = 0 /\ lastEventAt'[k] = 0
      <4>1. seen'[k] = Unknown
          BY <1>3, <2>2
      <4>2. CASE list[k].present /\ k \in UntimedKeys
        <5>1. Listed(k) = 0
            BY <4>2 DEF Listed
        <5>2. apps'[k] = [version |-> list[k].at, at |-> 0] /\ lastEventAt'[k] = 0
            BY <1>3, <4>2, <5>1
        <5> QED
            BY <4>1, <5>2 DEF Unknown
      <4>3. CASE ~list[k].present
        <5>1. apps'[k] = NoApp /\ lastEventAt'[k] = 0
            BY <1>3, <4>3
        <5> QED
            BY <4>1, <5>1 DEF Unknown, NoApp
      <4> QED
          BY <2>2, <4>2, <4>3
    <3> QED
        BY <3>1 DEF AppInv
  <2> QED
      BY <2>1, <2>2
<1> QED
    BY <1>4, <1>5, <1>6, <1>7 DEF RegistryInv

LEMMA RestartKeeps ==
    ASSUME RegistryInv, Restart
    PROVE  RegistryInv'
<1>1. /\ UNCHANGED <<clock, console, sent, pending, deleted>>
      /\ \A k \in Keys : apps'[k] = NoApp /\ lastEventAt'[k] = 0 /\ seen'[k] = Unknown
                         /\ list'[k] = Unknown
    BY DEF Restart, consoleVars, NewCache
<1>2. TypeOK'
    BY <1>1 DEF RegistryInv, TypeOK, Restart, NewCache, Unknown, NoApp, State, App, Times
<1>3. SentInv'
    BY <1>1 DEF RegistryInv, SentInv, Sent, Unknown
<1>4. BootInv'
    BY <1>1 DEF BootInv, Unknown
<1>5. ASSUME NEW k \in Keys PROVE AppInv(k)'
    BY <1>1 DEF AppInv, Unknown, NoApp
<1> QED
    BY <1>2, <1>3, <1>4, <1>5 DEF RegistryInv

-----------------------------------------------------------------------------
(* An event. *)

\* What an event does to the app that it is about, by its age.
LEMMA DeliverToKey ==
    ASSUME RegistryInv, NEW e \in sent, Deliver(e)
    PROVE  AppInv(e.key)'
<1> DEFINE k == e.key
           mark == Pruned(e.at)[k]
<1>1. /\ k \in Keys /\ e.at \in Times \ {0} /\ e.present \in BOOLEAN /\ e \in Event
      /\ e.at <= clock /\ clock <= e.at + MaxSkew /\ clock \in Nat /\ e.at \in Nat
    BY DEF RegistryInv, TypeOK, SentInv, Deliver, Event, Times
<1>2. /\ apps[k] \in App /\ apps[k].at \in Nat
      /\ lastEventAt[k] \in Nat
      /\ seen[k] \in State /\ seen[k].at \in Nat /\ seen[k].present \in BOOLEAN
    BY <1>1 DEF RegistryInv, TypeOK, App, State, Times
<1>3. AppInv(k)
    BY <1>1 DEF RegistryInv
<1>4. mark = IF apps[k] = NoApp /\ lastEventAt[k] + Retention < e.at THEN 0 ELSE lastEventAt[k]
    BY <1>1 DEF Pruned
<1>5. clock' = clock
      /\ seen'[k] = IF seen[k].at < e.at THEN [present |-> e.present, at |-> e.at] ELSE seen[k]
    BY <1>1 DEF Deliver, Told, consoleVars, RegistryInv, TypeOK
<1>6. CASE mark <= e.at /\ apps[k].at <= e.at
  <2>1. Apply(e, Pruned(e.at))
      BY <1>6 DEF Deliver, Fresh
  <2>2. /\ apps'[k] = IF e.present THEN [version |-> e.at, at |-> e.at] ELSE NoApp
        /\ lastEventAt'[k] = Later(mark, e.at)
      BY <1>1, <2>1 DEF Apply, RegistryInv, TypeOK, Pruned
  <2>3. lastEventAt'[k] = e.at
      BY <1>1, <1>2, <1>4, <1>6, <2>2 DEF Later
  <2>4. seen[k].at <= e.at
    <3>1. CASE seen[k].at = 0
        BY <1>1, <3>1
    <3>2. CASE seen[k].at # 0 /\ lastEventAt[k] = seen[k].at
        BY <1>1, <1>2, <1>4, <1>6, <3>2
    <3>3. CASE seen[k].at # 0 /\ seen[k].at + Retention < clock
        BY <1>1, <1>2, <3>3
    <3> QED
        BY <1>3, <3>1, <3>2, <3>3 DEF AppInv, Marked
  <2>5. seen'[k] = [present |-> e.present, at |-> e.at]
    <3>1. CASE seen[k].at < e.at
        BY <1>5, <3>1
    <3>2. CASE seen[k].at = e.at
      <4>1. [key |-> k, present |-> seen[k].present, at |-> seen[k].at] = e
          BY <1>1, <3>2 DEF RegistryInv, SentInv, Sent
      <4>2. seen[k] = [present |-> e.present, at |-> e.at]
          BY <1>2, <4>1 DEF State
      <4> QED
          BY <1>1, <1>5, <3>2, <4>2
    <3> QED
        BY <1>1, <1>2, <2>4, <3>1, <3>2
  <2> QED
      BY <1>1, <2>2, <2>3, <2>5 DEF AppInv, Registered, Marked
<1>7. CASE ~(mark <= e.at /\ apps[k].at <= e.at)
  <2>1. Ignore(Pruned(e.at))
      BY <1>7 DEF Deliver, Fresh
  <2>2. apps'[k] = apps[k] /\ lastEventAt'[k] = mark
      BY <2>1 DEF Ignore
  <2>3. seen[k].at # 0
      BY <1>1, <1>2, <1>3, <1>4, <1>7 DEF AppInv
  <2>4. apps[k] = Registered(seen[k]) /\ Marked(k)
      BY <1>3, <2>3 DEF AppInv
  <2>5. apps[k].at <= seen[k].at
      BY <1>2, <2>4 DEF Registered, NoApp
  <2>6. e.at < seen[k].at
      BY <1>1, <1>2, <1>4, <1>7, <2>4, <2>5 DEF Marked
  <2>7. lastEventAt[k] = seen[k].at
      BY <1>1, <1>2, <2>4, <2>6 DEF Marked
  <2>8. mark = seen[k].at /\ seen'[k] = seen[k]
      BY <1>1, <1>2, <1>4, <1>5, <2>6, <2>7
  <2> QED
      BY <2>2, <2>3, <2>4, <2>8 DEF AppInv, Registered, Marked
<1> QED
    BY <1>6, <1>7

\* The others are pruned at most.
LEMMA DeliverToOthers ==
    ASSUME RegistryInv, NEW e \in sent, Deliver(e), NEW k \in Keys, k # e.key
    PROVE  AppInv(k)'
<1>1. e.at \in Nat /\ e.at <= clock /\ clock \in Nat /\ e.key \in Keys
    BY DEF RegistryInv, TypeOK, SentInv, Event, Times
<1>2. lastEventAt[k] \in Nat /\ seen[k] \in State /\ seen[k].at \in Nat
    BY DEF RegistryInv, TypeOK, State, Times
<1>3. AppInv(k)
    BY DEF RegistryInv
<1>4. /\ seen'[k] = seen[k] /\ apps'[k] = apps[k] /\ clock' = clock
      /\ lastEventAt'[k] =
           IF apps[k] = NoApp /\ lastEventAt[k] + Retention < e.at THEN 0 ELSE lastEventAt[k]
    BY <1>1 DEF Deliver, Apply, Ignore, Told, Pruned, consoleVars, RegistryInv, TypeOK
<1>5. CASE seen[k].at = 0
    BY <1>3, <1>4, <1>5 DEF AppInv
<1>6. CASE seen[k].at # 0
  <2>1. apps[k] = Registered(seen[k]) /\ Marked(k)
      BY <1>3, <1>6 DEF AppInv
  <2>2. apps[k] = NoApp => ~seen[k].present
      BY <1>2, <1>6, <2>1 DEF Registered, NoApp
  <2>3. Marked(k)'
      BY <1>1, <1>2, <1>4, <2>1, <2>2 DEF Marked
  <2> QED
      BY <1>4, <1>6, <2>1, <2>3 DEF AppInv, Registered
<1> QED
    BY <1>5, <1>6

LEMMA DeliverKeeps ==
    ASSUME RegistryInv, NEW e \in sent, Deliver(e)
    PROVE  RegistryInv'
<1>1. /\ UNCHANGED <<clock, console, sent, boot, attempt, list, status, restarts>>
      /\ pending' = pending \ {e}
    BY DEF Deliver, consoleVars, bootVars
<1>2. e \in Event /\ e.key \in Keys /\ e.at \in Times \ {0} /\ e.at <= clock /\ clock \in Times
    BY DEF RegistryInv, TypeOK, SentInv, Event
<1>3. Pruned(e.at) \in [Keys -> 0..clock]
    BY <1>2 DEF Pruned, RegistryInv, TypeOK, Times
<1>4. TypeOK'
  <2>1. apps' \in [Keys -> App] /\ lastEventAt' \in [Keys -> 0..clock]
    <3>1. CASE Apply(e, Pruned(e.at))
        BY <1>2, <1>3, <3>1 DEF Apply, Later, App, NoApp, Times, RegistryInv, TypeOK
    <3>2. CASE Ignore(Pruned(e.at))
        BY <1>3, <3>2 DEF Ignore, RegistryInv, TypeOK
    <3> QED
        BY <3>1, <3>2 DEF Deliver
  <2>2. seen' \in [Keys -> State] /\ deleted' \in [Keys -> Times]
      BY <1>2 DEF Deliver, Told, Later, State, Event, Times, RegistryInv, TypeOK
  <2> QED
      BY <1>1, <2>1, <2>2 DEF RegistryInv, TypeOK
<1>5. SentInv'
  <2>1. ASSUME NEW k \in Keys, seen'[k].at # 0 PROVE Sent(k, seen'[k])
    <3>1. CASE seen'[k] = seen[k]
        BY <2>1, <3>1 DEF RegistryInv, SentInv
    <3>2. CASE k = e.key /\ seen'[k] = [present |-> e.present, at |-> e.at]
        BY <1>2, <3>2 DEF Sent, Event
    <3> QED
        BY <1>2, <3>1, <3>2 DEF Deliver, Told, RegistryInv, TypeOK
  <2>2. \A k \in Keys : (seen[k].at # 0 => Sent(k, seen[k]))'
      BY <1>1, <2>1 DEF Sent
  <2> QED
      BY <1>1, <2>2 DEF RegistryInv, SentInv, Sent
<1>6. BootInv'
    BY <1>1 DEF BootInv, Deliver
<1>7. ASSUME NEW k \in Keys PROVE AppInv(k)'
    BY DeliverToKey, DeliverToOthers
<1> QED
    BY <1>4, <1>5, <1>6, <1>7 DEF RegistryInv

LEMMA InvNext == RegistryInv /\ [Next]_vars => RegistryInv'
<1> SUFFICES ASSUME RegistryInv, [Next]_vars PROVE RegistryInv'
    OBVIOUS
<1>1. CASE \E k \in Keys, present \in BOOLEAN : Change(k, present)
    BY <1>1, ChangeKeeps
<1>2. CASE LoadApps \/ LoadFails
    BY <1>2, LoadKeeps
<1>3. CASE Replace
    BY <1>3, ReplaceKeeps
<1>4. CASE \E e \in sent : Deliver(e)
    BY <1>4, DeliverKeeps
<1>5. CASE Restart
    BY <1>5, RestartKeeps
<1>6. CASE UNCHANGED vars
  <2>1. UNCHANGED <<clock, console, sent, pending, boot, attempt, list, apps, lastEventAt,
                    status, seen, deleted, restarts>>
      BY <1>6 DEF vars, consoleVars, bootVars, cacheVars
  <2> QED
      BY <2>1 DEF RegistryInv, TypeOK, SentInv, Sent, BootInv, AppInv, Registered, Marked
<1> QED
    BY <1>1, <1>2, <1>3, <1>4, <1>5, <1>6 DEF Next

LEMMA InvAlways == Spec => []RegistryInv
    BY InvInit, InvNext, PTL DEF Spec

\* Every variable keeps its type.
THEOREM RegistryTypeCorrect == Spec => []TypeOK
<1>1. RegistryInv => TypeOK
    BY DEF RegistryInv
<1> QED
    BY <1>1, InvAlways, PTL

\* The cache holds the newest that the process was told of every app: late, repeated
\* and reordered events do no harm, and neither does the pruning of tombstones while
\* the retention is at least the delivery skew (Upsert, Delete, Replace).
THEOREM NewestAlwaysWins == Spec => []NewestWins
<1>1. ASSUME RegistryInv, NEW k \in Keys, seen[k].at # 0
      PROVE  Shows(apps[k], seen[k])
  <2>1. apps[k] = Registered(seen[k])
      BY <1>1 DEF RegistryInv, AppInv
  <2>2. CASE seen[k].present
      BY <2>1, <2>2 DEF Registered, Shows
  <2>3. CASE ~seen[k].present
      BY <2>1, <2>3 DEF Registered, Shows, NoApp
  <2> QED
      BY <2>2, <2>3
<1>2. RegistryInv => NewestWins
    BY <1>1 DEF NewestWins
<1> QED
    BY <1>2, InvAlways, PTL

-----------------------------------------------------------------------------
(* What the console has had an answer for. *)

\* The event of the last change that the console has made to an app.
LastEvent(k) == [key |-> k, present |-> console[k].present, at |-> console[k].at]

\* The process has been told of the last change of an app, or will be.
Heard(k) == console[k].at <= seen[k].at \/ LastEvent(k) \in pending

\* Nothing is answered before the first bootstrap has ended, and what changes while a
\* list is read is outstanding when the list is taken over.
HeardInv ==
    /\ \A e \in sent : e.at <= console[e.key].at
    /\ boot # "done" => status # "ok"
    /\ \A k \in Keys :
         /\ console[k].at = 0 => apps[k].version = 0
         /\ restarts = 0 /\ boot # "done" => console[k].at = 0 \/ LastEvent(k) \in pending
         /\ boot = "replace" => list[k] = console[k] \/ LastEvent(k) \in pending
         /\ boot = "done" /\ restarts = 0 => Heard(k)
         /\ status = "ok" /\ console[k].present /\ k \notin UntimedKeys => Heard(k)

LEMMA StatesTyped ==
    ASSUME RegistryInv, NEW k \in Keys
    PROVE  /\ console[k] \in State /\ list[k] \in State /\ seen[k] \in State
           /\ console[k].at \in Nat /\ list[k].at \in Nat /\ seen[k].at \in Nat
<1>1. console[k] \in State /\ list[k] \in State /\ seen[k] \in State
    BY DEF RegistryInv, TypeOK
<1>2. \A state \in State : state.at \in Nat
    BY DEF State, Times
<1> QED
    BY <1>1, <1>2

LEMMA HeardInit == Init => HeardInv
    BY DEF Init, HeardInv, Heard, NewCache, NoApp, Unknown

LEMMA ChangeHeard ==
    ASSUME RegistryInv, HeardInv, NEW k \in Keys, NEW present \in BOOLEAN, Change(k, present)
    PROVE  HeardInv'
<1> DEFINE e == [key |-> k, present |-> present, at |-> clock']
<1>1. /\ UNCHANGED <<boot, attempt, list, apps, status, seen, restarts>>
      /\ sent' = sent \cup {e} /\ pending' = pending \cup {e}
      /\ clock' = clock + 1 /\ clock \in Nat
    BY DEF Change, bootVars, cacheVars, RegistryInv, TypeOK, Times
<1>2. /\ console'[k] = [present |-> present, at |-> clock']
      /\ \A j \in Keys : j # k => console'[j] = console[j]
    BY DEF Change, RegistryInv, TypeOK
<1>3. LastEvent(k)' \in pending'
    BY <1>1, <1>2 DEF LastEvent
<1>4. ASSUME NEW d \in sent' PROVE d.at <= console'[d.key].at
  <2>1. CASE d = e
      BY <1>1, <1>2, <2>1
  <2>2. CASE d \in sent
    <3>1. d.at <= console[d.key].at /\ d.at <= clock /\ d.at \in Nat /\ d.key \in Keys
        BY <2>2 DEF HeardInv, RegistryInv, SentInv, TypeOK, Event, Times
    <3>2. CASE d.key = k
        BY <1>1, <1>2, <3>1, <3>2
    <3>3. CASE d.key # k
        BY <1>2, <3>1, <3>3
    <3> QED
        BY <3>2, <3>3
  <2> QED
      BY <1>1, <2>1, <2>2
<1>5. ASSUME NEW j \in Keys, j # k
      PROVE  /\ LastEvent(j)' = LastEvent(j)
             /\ LastEvent(j) \in pending => LastEvent(j)' \in pending'
             /\ Heard(j) => Heard(j)'
    BY <1>1, <1>2, <1>5 DEF LastEvent, Heard
<1>6. Heard(k)' /\ console'[k].at # 0
    BY <1>1, <1>2, <1>3 DEF Heard
<1> QED
    BY <1>1, <1>2, <1>3, <1>4, <1>5, <1>6 DEF HeardInv

LEMMA BootstrapHeard ==
    ASSUME RegistryInv, HeardInv, LoadApps \/ LoadFails \/ Replace
    PROVE  HeardInv'
<1>1. UNCHANGED <<console, sent, pending, restarts>> /\ boot # "done"
    BY DEF LoadApps, LoadFails, Replace, consoleVars
<1>2. \A k \in Keys : LastEvent(k)' = LastEvent(k)
    BY <1>1 DEF LastEvent
<1>3. \A k \in Keys : console[k].at \in Nat /\ seen[k].at \in Nat
    BY StatesTyped
<1>4. CASE LoadApps
  <2>1. boot' = "replace" /\ list' = console /\ UNCHANGED <<apps, status, seen>>
      BY <1>4 DEF LoadApps, cacheVars
  <2> QED
      BY <1>1, <1>2, <2>1 DEF HeardInv, Heard
<1>5. CASE LoadFails
  <2>1. UNCHANGED <<list, apps, seen>> /\ boot' \in {boot, "done"} /\ status' # "ok"
      BY <1>5 DEF LoadFails, HeardInv
  <2>2. \A k \in Keys : seen[k].at = 0
      BY <1>1 DEF RegistryInv, BootInv
  <2> QED
      BY <1>1, <1>2, <1>3, <2>1, <2>2 DEF HeardInv, Heard
<1>6. CASE Replace
  <2>1. boot = "replace" /\ boot' = "done" /\ UNCHANGED list
      BY <1>6 DEF Replace
  <2>2. ASSUME NEW k \in Keys
        PROVE  /\ ~list[k].present => apps'[k] = NoApp
               /\ (list[k].present /\ k \notin UntimedKeys) => seen'[k] = list[k]
               /\ seen'[k].at \in Nat
      BY <1>6, StatesTyped DEF Replace, Unknown
  <2>3. ASSUME NEW k \in Keys, console[k].at = 0 PROVE apps'[k].version = 0
    <3>1. list[k].at # 0 => list[k].at <= console[k].at
      <4>1. list[k].at # 0 => Sent(k, list[k])
          BY DEF RegistryInv, SentInv
      <4> QED
          BY <4>1 DEF Sent, HeardInv
    <3>2. list[k].at = 0
        BY <2>3, <3>1, StatesTyped
    <3>3. ~list[k].present
        BY <3>2 DEF RegistryInv, SentInv
    <3> QED
        BY <2>2, <3>3 DEF NoApp
  <2>4. ASSUME NEW k \in Keys, restarts = 0 PROVE Heard(k)'
    <3>1. console[k].at = 0 \/ LastEvent(k) \in pending
        BY <1>1, <2>4 DEF HeardInv
    <3> QED
        BY <1>1, <1>2, <2>2, <3>1 DEF Heard
  <2>5. ASSUME NEW k \in Keys, console[k].present, k \notin UntimedKeys PROVE Heard(k)'
    <3>1. CASE list[k] = console[k]
        BY <1>1, <1>3, <2>2, <2>5, <3>1 DEF Heard
    <3>2. CASE LastEvent(k) \in pending
        BY <1>1, <1>2, <3>2 DEF Heard
    <3> QED
        BY <2>1, <3>1, <3>2 DEF HeardInv
  <2> QED
      BY <1>1, <1>2, <2>1, <2>3, <2>4, <2>5 DEF HeardInv
<1> QED
    BY <1>4, <1>5, <1>6

LEMMA DeliverHeard ==
    ASSUME RegistryInv, HeardInv, NEW e \in sent, Deliver(e)
    PROVE  HeardInv'
<1>1. /\ UNCHANGED <<console, sent, boot, list, status, restarts>>
      /\ boot = "done" /\ pending' = pending \ {e}
    BY DEF Deliver, consoleVars, bootVars
<1>2. /\ e.key \in Keys /\ e.at \in Nat \ {0}
      /\ \A k \in Keys : console[k].at \in Nat /\ seen[k].at \in Nat
    BY DEF RegistryInv, TypeOK, Event, State, Times
<1>3. \A k \in Keys : LastEvent(k)' = LastEvent(k)
    BY <1>1 DEF LastEvent
<1>4. \A k \in Keys : seen[k].at <= seen'[k].at /\ seen'[k].at \in Nat
    BY <1>2 DEF Deliver, Told, RegistryInv, TypeOK
<1>5. e.at <= seen'[e.key].at
    BY <1>2 DEF Deliver, Told, RegistryInv, TypeOK
<1>6. ASSUME NEW k \in Keys, Heard(k) PROVE Heard(k)'
  <2>1. CASE console[k].at <= seen[k].at
      BY <1>1, <1>2, <1>4, <2>1 DEF Heard
  <2>2. CASE LastEvent(k) = e
      BY <1>1, <1>2, <1>5, <2>2 DEF Heard, LastEvent
  <2>3. CASE LastEvent(k) \in pending /\ LastEvent(k) # e
      BY <1>1, <1>3, <2>3 DEF Heard
  <2> QED
      BY <1>6, <2>1, <2>2, <2>3 DEF Heard
<1>7. ASSUME NEW k \in Keys, console[k].at = 0 PROVE apps'[k].version = 0
  <2>1. k # e.key
      BY <1>2, <1>7 DEF HeardInv
  <2>2. apps'[k] = apps[k]
      BY <2>1 DEF Deliver, Apply, Ignore, RegistryInv, TypeOK
  <2> QED
      BY <1>7, <2>2 DEF HeardInv
<1> QED
    BY <1>1, <1>3, <1>6, <1>7 DEF HeardInv

LEMMA RestartHeard ==
    ASSUME RegistryInv, HeardInv, Restart
    PROVE  HeardInv'
<1>1. /\ UNCHANGED <<console, sent, pending>> /\ restarts' # 0
      /\ boot' \in {"load", "done"} /\ status' # "ok"
      /\ \A k \in Keys : apps'[k].version = 0
    BY DEF Restart, consoleVars, NewCache, NoApp, RegistryInv, TypeOK
<1> QED
    BY <1>1 DEF HeardInv

LEMMA HeardNext == RegistryInv /\ HeardInv /\ [Next]_vars => HeardInv'
<1> SUFFICES ASSUME RegistryInv, HeardInv, [Next]_vars PROVE HeardInv'
    OBVIOUS
<1>1. CASE \E k \in Keys, present \in BOOLEAN : Change(k, present)
    BY <1>1, ChangeHeard
<1>2. CASE LoadApps \/ LoadFails \/ Replace
    BY <1>2, BootstrapHeard
<1>3. CASE \E e \in sent : Deliver(e)
    BY <1>3, DeliverHeard
<1>4. CASE Restart
    BY <1>4, RestartHeard
<1>5. CASE UNCHANGED vars
    BY <1>5 DEF vars, consoleVars, bootVars, cacheVars, HeardInv, Heard, LastEvent
<1> QED
    BY <1>1, <1>2, <1>3, <1>4, <1>5 DEF Next

\* An app of which the console has nothing outstanding is in the cache as the console has
\* it, for the first process and, from a list with times, for every later one: however
\* the list and the events overtook each other, and however long ago the tombstones were
\* pruned (Replace, Upsert, Delete).
THEOREM AnsweredAreCached == Spec => []AnsweredIsCached
<1>1. ASSUME RegistryInv, HeardInv, NEW k \in Keys, boot = "done",
             \A e \in pending : e.key # k,
             restarts = 0 \/ (status = "ok" /\ console[k].present /\ k \notin UntimedKeys)
      PROVE  Shows(apps[k], console[k])
  <2>1. /\ console[k] \in State /\ console[k].at \in Nat
        /\ seen[k] \in State /\ seen[k].at \in Nat
      BY <1>1, StatesTyped
  <2>2. console[k].at <= seen[k].at
    <3>1. LastEvent(k) \notin pending
        BY <1>1 DEF LastEvent
    <3> QED
        BY <1>1, <3>1 DEF HeardInv, Heard
  <2>3. CASE console[k].at = 0
    <3>1. ~console[k].present /\ apps[k].version = 0
        BY <1>1, <2>3 DEF RegistryInv, SentInv, HeardInv
    <3> QED
        BY <3>1 DEF Shows
  <2>4. CASE console[k].at # 0
    <3>1. seen[k].at # 0 /\ Sent(k, seen[k]) /\ Sent(k, console[k])
        BY <1>1, <2>1, <2>2, <2>4 DEF RegistryInv, SentInv
    <3>2. seen[k].at <= console[k].at
        BY <1>1, <3>1 DEF HeardInv, Sent
    <3>3. [key |-> k, present |-> seen[k].present, at |-> seen[k].at]
            = [key |-> k, present |-> console[k].present, at |-> console[k].at]
      <4>1. seen[k].at = console[k].at
          BY <2>1, <2>2, <3>2
      <4>2. \A d, e \in sent : d.at = e.at => d = e
          BY <1>1 DEF RegistryInv, SentInv
      <4> QED
          BY <3>1, <4>1, <4>2 DEF Sent
    <3>4. seen[k].present = console[k].present /\ seen[k].at = console[k].at
        BY <3>3
    <3>5. apps[k] = Registered(console[k])
        BY <1>1, <3>1, <3>4 DEF RegistryInv, AppInv, Registered
    <3> QED
        BY <3>5 DEF Registered, Shows, NoApp
  <2> QED
      BY <2>3, <2>4
<1>2. RegistryInv /\ HeardInv => AnsweredIsCached
    BY <1>1 DEF AnsweredIsCached
<1>3. Spec => []HeardInv
    BY HeardInit, HeardNext, InvAlways, PTL DEF Spec
<1> QED
    BY <1>2, <1>3, InvAlways, PTL

=============================================================================
