------------------------- MODULE VersionWatch_proofs -------------------------
(***************************************************************************)
(* What a version token stands for, and what an answer is made of, for     *)
(* every set of contents, clients and views and any number of versions and *)
(* restarts.                                                               *)
(***************************************************************************)
EXTENDS VersionWatch, FiniteSetTheorems, SequenceTheorems, TLAPS

USE VersionWatchAssumption

Places == {"idle", "version", "inherited", "wait", "blocked", "data", "head"}
Looks == [want : Views \cup {Nothing}, token : Nat, head : Nat,
          tree : Trees \cup {NoTree}, channel : 0..bell]

Latest == Cardinality(DOMAIN published)

\* The branch: versions 1 to the latest, each after all those before it.
HistoryInv ==
    /\ Latest \in Nat
    /\ DOMAIN published = 1..Latest
    /\ Latest <= MaxVersions
    /\ published = [v \in DOMAIN published |-> published[v]]
    /\ \A v \in DOMAIN published : published[v].tree \in Trees

\* The snapshot is the version loaded last.
ServedInv ==
    /\ served \in DOMAIN published \cup {0}
    /\ loaded \in Seq(DOMAIN published)
    /\ served = 0 => view = NoTree /\ loaded = <<>>
    /\ served # 0 =>
          /\ view = published[served].tree
          /\ Len(loaded) # 0 /\ loaded[Len(loaded)] = served

\* TokenIsLastChange, of one resource: its token is the version loaded as the nth.
TreeAt(m) == published[loaded[m]].tree
StandsFor(r, n) ==
    /\ token[r] = loaded[n]
    /\ \A m \in n..Len(loaded) : Exists(TreeAt(m)) /\ TreeAt(m).own[r] = view.own[r]
    /\ n > 1 => ~Exists(TreeAt(n-1)) \/ TreeAt(n-1).own[r] # view.own[r]

TokenInv ==
    /\ token \in [Resources -> DOMAIN published \cup {0}]
    /\ \A r \in Resources : token[r] = 0 <=> ~Exists(view)
    /\ served # 0 /\ Exists(view) =>
          \A r \in Resources : \E n \in DOMAIN loaded : StandsFor(r, n)

StoreInv ==
    /\ HistoryInv /\ ServedInv /\ TokenInv
    /\ notifying \in BOOLEAN /\ bell \in Nat

\* A request in progress has something that it wants, and looks at the head for an
\* inherited view only, with the content of one version in hand.
RequestInv(c) ==
    /\ pc[c] \in Places
    /\ look[c] \in Looks
    /\ pc[c] # "idle" => look[c].want \in Views
    /\ pc[c] = "head" =>
          /\ look[c].want.inherit
          /\ \E v \in DOMAIN published : look[c].tree = published[v].tree

\* What a client holds.
AnswerOK(answer) ==
    /\ answer.version \in DOMAIN published \cup {0}
    /\ answer.version # 0 =>
          /\ answer.want \in Views
          /\ \E v \in DOMAIN published :
                answer.payload = Payload(answer.want, published[v].tree)
          /\ ~answer.want.inherit =>
                answer.payload = Payload(answer.want, published[answer.version].tree)

ClientInv ==
    /\ pc = [c \in Clients |-> pc[c]]
    /\ look = [c \in Clients |-> look[c]]
    /\ held = [c \in Clients |-> held[c]]
    /\ \A c \in Clients : RequestInv(c) /\ AnswerOK(held[c])

WatchInv == StoreInv /\ ClientInv

LEMMA NoService == ~Exists(NoTree)
BY DEF Exists, NoTree

LEMMA Initial == Init => WatchInv
<1>. SUFFICES ASSUME Init PROVE WatchInv
  OBVIOUS
<1>1. published \in [{1} -> [before : {{}}, tree : Trees]] /\ served = 0 /\ view = NoTree
  BY DEF Init, Source!Init
<1>2. DOMAIN published = 1..1 /\ Latest = 1
  <2>1. {1} = 1..1
    OBVIOUS
  <2>2. Cardinality({1}) = 1
    BY FS_Singleton
  <2>. QED  BY <1>1, <2>1, <2>2 DEF Latest
<1>3. MaxVersions >= 1
  BY <1>1 DEF Init, Source!Init, Source!IsVersion
<1>4. HistoryInv
  BY <1>1, <1>2, <1>3 DEF HistoryInv
<1>5. ServedInv
  BY <1>1 DEF Init, ServedInv
<1>6. TokenInv
  BY <1>1, NoService DEF Init, TokenInv
<1>7. ClientInv
  <2>1. NoLook \in Looks
    BY DEF Init, NoLook, Looks
  <2>2. AnswerOK(NoAnswer)
    BY DEF NoAnswer, AnswerOK
  <2>. QED  BY <2>1, <2>2 DEF Init, ClientInv, RequestInv, Places
<1>. QED  BY <1>4, <1>5, <1>6, <1>7 DEF WatchInv, StoreInv, Init

(***************************************************************************)
(* The store.                                                              *)
(***************************************************************************)
\* Versions are added, and those that are there stay as they are.
Extends ==
    /\ DOMAIN published \subseteq DOMAIN published'
    /\ \A v \in DOMAIN published : published'[v] = published[v]

\* Answers and requests outlive any change of the store.
LEMMA ClientsUnmoved ==
    ASSUME HistoryInv, ClientInv, Extends, bell \in Nat, bell' \in Nat, bell <= bell',
           UNCHANGED clientVars
    PROVE  ClientInv'
<1>1. UNCHANGED <<pc, look, held>>
  BY DEF clientVars
<1>2. Looks \subseteq Looks'
  BY DEF Looks
<1>3. \A c \in Clients : RequestInv(c)'
  <2>. SUFFICES ASSUME NEW c \in Clients PROVE RequestInv(c)'
    OBVIOUS
  <2>1. RequestInv(c)
    BY DEF ClientInv
  <2>. QED  BY <1>1, <1>2, <2>1 DEF RequestInv, Extends
<1>4. \A c \in Clients : AnswerOK(held[c])'
  <2>. SUFFICES ASSUME NEW c \in Clients PROVE AnswerOK(held[c])'
    OBVIOUS
  <2>. DEFINE a == held[c]
  <2>1. AnswerOK(a) /\ held'[c] = a
    BY <1>1 DEF ClientInv
  <2>2. a.version \in DOMAIN published' \cup {0}
    BY <2>1 DEF AnswerOK, Extends
  <2>3. a.version # 0 =>
          /\ a.want \in Views
          /\ \E v \in DOMAIN published' : a.payload = Payload(a.want, published'[v].tree)
          /\ ~a.want.inherit => a.payload = Payload(a.want, published'[a.version].tree)
    BY <2>1 DEF AnswerOK, Extends
  <2>. HIDE DEF a
  <2>. QED  BY <2>1, <2>2, <2>3 DEF AnswerOK, Payload
<1>. QED  BY <1>1, <1>3, <1>4 DEF ClientInv

\* What is known of the snapshot and its tokens does not hang on anything else.
LEMMA StoreStill ==
    ASSUME StoreInv, UNCHANGED <<published, served, view, token, loaded>>
    PROVE  HistoryInv' /\ ServedInv' /\ TokenInv'
<1>1. HistoryInv' /\ ServedInv'
  BY DEF StoreInv, HistoryInv, ServedInv, Latest
<1>2. \A r \in Resources, n \in DOMAIN loaded : StandsFor(r, n) => StandsFor(r, n)'
  BY DEF StandsFor, TreeAt, Exists
<1>3. Exists(view)' <=> Exists(view)
  BY DEF Exists
<1>4. TokenInv'
  BY <1>2, <1>3 DEF StoreInv, TokenInv
<1>. QED  BY <1>1, <1>4

LEMMA PublishKeeps ==
    ASSUME WatchInv, Publish
    PROVE  WatchInv'
<1>. DEFINE n == Latest
<1>1. PICK t \in Trees :
          published' = [v \in DOMAIN published \cup {n + 1} |->
                          IF v \in DOMAIN published THEN published[v]
                          ELSE [before |-> DOMAIN published, tree |-> t]]
  BY DEF Publish, Latest
<1>2. n \in Nat /\ DOMAIN published = 1..n /\ n + 1 \notin 1..n
  BY DEF WatchInv, StoreInv, HistoryInv
<1>3. DOMAIN published' = 1..(n + 1)
  BY <1>1, <1>2
<1>4. Latest' = n + 1
  BY <1>2, <1>3, FS_Interval DEF Latest
<1>5. n + 1 <= MaxVersions
  <2>1. PICK v \in DOMAIN published' \ DOMAIN published : Source!IsVersion(v)
    BY DEF Publish, Source!Publish
  <2>2. v = n + 1
    BY <1>2, <1>3, <2>1
  <2>. QED  BY <2>1, <2>2 DEF Source!IsVersion
<1>6. published'[n + 1].tree = t
  BY <1>1, <1>2
<1>7. Extends
  BY <1>1 DEF Extends
<1>8. HistoryInv'
  BY <1>1, <1>2, <1>3, <1>4, <1>5, <1>6, <1>7 DEF HistoryInv, WatchInv, StoreInv, Extends
<1>9. UNCHANGED <<served, view, token, loaded, notifying, bell, clientVars>>
  BY DEF Publish, Source!Publish
<1>10. ServedInv'
  <2>1. loaded' \in Seq(DOMAIN published')
    BY <1>7, <1>9, SeqMonotonic DEF WatchInv, StoreInv, ServedInv, Extends
  <2>. QED  BY <1>7, <1>9, <2>1 DEF WatchInv, StoreInv, ServedInv, Extends
<1>11. ASSUME NEW r \in Resources, NEW k \in DOMAIN loaded, StandsFor(r, k)
       PROVE  StandsFor(r, k)'
  <2>1. loaded \in Seq(DOMAIN published) /\ DOMAIN loaded = 1..Len(loaded)
    BY DEF WatchInv, StoreInv, ServedInv
  <2>2. \A m \in 1..Len(loaded) : TreeAt(m)' = TreeAt(m)
    BY <1>7, <1>9, <2>1 DEF TreeAt, Extends
  <2>3. /\ \A m \in k..Len(loaded) : m \in 1..Len(loaded)
        /\ k > 1 => k - 1 \in 1..Len(loaded)
    BY <2>1
  <2>. QED  BY <1>9, <1>11, <2>2, <2>3 DEF StandsFor, Exists
<1>12. TokenInv'
  BY <1>7, <1>9, <1>11 DEF WatchInv, StoreInv, TokenInv, Extends, Exists
<1>13. ClientInv'
  BY <1>7, <1>9, ClientsUnmoved DEF WatchInv, StoreInv
<1>. QED  BY <1>8, <1>9, <1>10, <1>12, <1>13 DEF WatchInv, StoreInv

\* The tokens of a new snapshot: a resource that is as before keeps its own, which
\* stands where it stood; any other takes the version just loaded.
LEMMA ReloadKeeps ==
    ASSUME WatchInv, Reload
    PROVE  WatchInv'
<1>1. PICK v \in DOMAIN published :
          served' = v /\ view' = published[v].tree /\ published' = published
  BY DEF Reload, Source!Serve
<1>2. HistoryInv' /\ Extends
  BY <1>1 DEF WatchInv, StoreInv, HistoryInv, Extends, Latest
<1>3. v # 0 /\ v \in Nat
  BY DEF WatchInv, StoreInv, HistoryInv
<1>4. token' = [r \in Resources |->
                   IF Exists(view') THEN NextResourceVersion(r, served', view') ELSE 0]
  BY DEF Reload
<1>5. \A r \in Resources :
          /\ token'[r] \in DOMAIN published \cup {0}
          /\ token'[r] = 0 <=> ~Exists(view')
  BY <1>1, <1>3, <1>4 DEF NextResourceVersion, WatchInv, StoreInv, TokenInv
<1>6. ASSUME v = served
      PROVE  TokenInv' /\ ServedInv'
  <2>1. view' = view /\ loaded' = loaded /\ served' = served
    BY <1>1, <1>3, <1>6 DEF Reload, WatchInv, StoreInv, ServedInv
  <2>2. ServedInv'
    BY <1>1, <2>1 DEF WatchInv, StoreInv, ServedInv
  <2>3. Exists(view) => \A r \in Resources : token'[r] = token[r]
    BY <1>4, <2>1 DEF NextResourceVersion, Exists
  <2>4. ASSUME NEW r \in Resources, NEW k \in DOMAIN loaded, StandsFor(r, k), Exists(view)
        PROVE  StandsFor(r, k)'
    BY <1>1, <2>1, <2>3, <2>4 DEF StandsFor, TreeAt, Exists
  <2>5. Exists(view)' <=> Exists(view)
    BY <2>1 DEF Exists
  <2>6. token' \in [Resources -> DOMAIN published' \cup {0}]
    BY <1>1, <1>4, <1>5
  <2>7. \A r \in Resources : token'[r] = 0 <=> ~Exists(view)'
    BY <1>5 DEF Exists
  <2>. QED  BY <2>1, <2>2, <2>4, <2>5, <2>6, <2>7 DEF WatchInv, StoreInv, TokenInv
<1>7. ASSUME v # served
      PROVE  TokenInv' /\ ServedInv'
  <2>0. PICK L \in Nat : L = Len(loaded)
    BY DEF WatchInv, StoreInv, ServedInv
  <2>1. loaded' = Append(loaded, v)
    BY <1>1, <1>7 DEF Reload
  <2>2. loaded \in Seq(DOMAIN published) /\ L = Len(loaded)
    BY <2>0 DEF WatchInv, StoreInv, ServedInv
  <2>3. /\ loaded' \in Seq(DOMAIN published)
        /\ Len(loaded') = L + 1
        /\ \A i \in 1..L : loaded'[i] = loaded[i]
        /\ loaded'[L + 1] = v
        /\ DOMAIN loaded = 1..L
        /\ DOMAIN loaded' = 1..(L + 1)
    BY <2>1, <2>2, AppendProperties
  <2>4. ServedInv'
    BY <1>1, <1>3, <2>2, <2>3 DEF ServedInv
  <2>5. /\ \A m \in 1..L : TreeAt(m)' = TreeAt(m)
        /\ TreeAt(L + 1)' = view'
    BY <1>1, <2>3 DEF TreeAt
  <2>6. served # 0 => L # 0 /\ TreeAt(L) = view
    BY <2>0 DEF WatchInv, StoreInv, ServedInv, TreeAt
  <2>7. \A tree : Exists(tree)' <=> Exists(tree')
    BY DEF Exists
  <2>8. ASSUME Exists(view'), NEW r \in Resources
        PROVE  \E n \in 1..(L + 1) : StandsFor(r, n)'
    <3>1. CASE Exists(view) /\ view'.own[r] = view.own[r]
      <4>1. token'[r] = token[r]
        BY <1>4, <2>8, <3>1 DEF NextResourceVersion
      <4>2. served # 0
        BY <3>1, NoService DEF WatchInv, StoreInv, ServedInv
      <4>3. PICK n \in 1..L : StandsFor(r, n)
        BY <2>0, <2>3, <3>1, <4>2 DEF WatchInv, StoreInv, TokenInv
      <4>4. token'[r] = loaded'[n]
        BY <2>3, <4>1, <4>3 DEF StandsFor
      <4>5. ASSUME NEW m \in n..(L + 1)
            PROVE  Exists(TreeAt(m)') /\ TreeAt(m)'.own[r] = view'.own[r]
        <5>1. CASE m = L + 1
          BY <2>5, <2>8, <5>1
        <5>2. CASE m # L + 1
          <6>1. m \in 1..L /\ m \in n..L
            BY <2>2, <5>2
          <6>. QED  BY <2>0, <2>5, <3>1, <4>3, <6>1 DEF StandsFor
        <5>. QED  BY <5>1, <5>2
      <4>6. n > 1 => ~Exists(TreeAt(n-1)') \/ TreeAt(n-1)'.own[r] # view'.own[r]
        <5>1. n > 1 => n - 1 \in 1..L
          BY <2>2
        <5>. QED  BY <2>5, <3>1, <4>3, <5>1 DEF StandsFor
      <4>7. n \in 1..(L + 1)
        BY <2>2
      <4>. QED  BY <2>3, <4>4, <4>5, <4>6, <4>7 DEF StandsFor, Exists
    <3>2. CASE ~(Exists(view) /\ view'.own[r] = view.own[r])
      <4>1. token'[r] = loaded'[L + 1]
        BY <1>1, <1>4, <2>3, <2>8, <3>2 DEF NextResourceVersion
      <4>2. L + 1 > 1 => TreeAt(L)' = view
        BY <2>2, <2>5, <2>6 DEF WatchInv, StoreInv, ServedInv
      <4>3. \A m \in (L + 1)..Len(loaded') : m = L + 1
        BY <2>2, <2>3
      <4>4. (L + 1) - 1 = L /\ L + 1 \in 1..(L + 1)
        BY <2>2
      <4>. QED  BY <2>5, <2>8, <3>2, <4>1, <4>2, <4>3, <4>4 DEF StandsFor, Exists
    <3>. QED  BY <3>1, <3>2
  <2>9. token' \in [Resources -> DOMAIN published' \cup {0}]
    BY <1>1, <1>4, <1>5
  <2>10. \A r \in Resources : token'[r] = 0 <=> ~Exists(view)'
    BY <1>5 DEF Exists
  <2>. QED  BY <2>3, <2>4, <2>7, <2>8, <2>9, <2>10 DEF TokenInv
<1>8. TokenInv' /\ ServedInv'
  BY <1>6, <1>7
<1>9. UNCHANGED <<bell, clientVars>> /\ notifying' = (served' # served)
  BY DEF Reload
<1>10. notifying' \in BOOLEAN
  BY <1>9
<1>11. ClientInv' /\ bell' \in Nat
  BY <1>2, <1>9, ClientsUnmoved DEF WatchInv, StoreInv
<1>. QED  BY <1>2, <1>8, <1>10, <1>11 DEF WatchInv, StoreInv

LEMMA NotifyKeeps ==
    ASSUME WatchInv, NotifyVersionChange
    PROVE  WatchInv'
<1>1. UNCHANGED <<published, served, view, token, loaded, clientVars>>
  BY DEF NotifyVersionChange, sourceVars
<1>2. bell \in Nat /\ bell' = bell + 1 /\ notifying' = FALSE
  BY DEF NotifyVersionChange, WatchInv, StoreInv
<1>3. Extends
  BY <1>1 DEF Extends
<1>4. ClientInv'
  BY <1>1, <1>2, <1>3, ClientsUnmoved DEF WatchInv, StoreInv
<1>5. HistoryInv' /\ ServedInv' /\ TokenInv'
  BY <1>1, StoreStill DEF WatchInv
<1>6. notifying' \in BOOLEAN
  BY <1>2
<1>7. bell' \in Nat
  BY <1>2
<1>. QED  BY <1>4, <1>5, <1>6, <1>7 DEF WatchInv, StoreInv

LEMMA RestartKeeps ==
    ASSUME WatchInv, Restart
    PROVE  WatchInv'
<1>1. /\ served' = 0 /\ view' = NoTree /\ published' = published /\ held' = held
      /\ loaded' = <<>> /\ token' = [r \in Resources |-> 0]
      /\ notifying' = FALSE /\ bell' = 0
      /\ pc' = [c \in Clients |-> "idle"] /\ look' = [c \in Clients |-> NoLook]
  BY DEF Restart, Source!Restart
<1>2. HistoryInv'
  BY <1>1 DEF WatchInv, StoreInv, HistoryInv, Latest
<1>3. ServedInv'
  BY <1>1 DEF ServedInv
<1>4. TokenInv'
  BY <1>1, NoService DEF TokenInv, Exists
<1>5. NoLook \in Looks'
  BY <1>1 DEF NoLook, Looks
<1>6. ClientInv'
  BY <1>1, <1>5 DEF WatchInv, ClientInv, RequestInv, AnswerOK, Places
<1>. QED  BY <1>1, <1>2, <1>3, <1>4, <1>6 DEF WatchInv, StoreInv

(***************************************************************************)
(* The handlers.                                                           *)
(***************************************************************************)
\* A step of one request: the others stay where they are.
Moves(c) ==
    /\ pc' = [d \in Clients |-> pc'[d]]
    /\ look' = [d \in Clients |-> look'[d]]
    /\ held' = [d \in Clients |-> held'[d]]
    /\ \A d \in Clients \ {c} :
          pc'[d] = pc[d] /\ look'[d] = look[d] /\ held'[d] = held[d]

LEMMA OneClient ==
    ASSUME WatchInv, NEW c \in Clients, UNCHANGED storeVars, Moves(c),
           RequestInv(c)', AnswerOK(held'[c])
    PROVE  WatchInv'
<1>1. UNCHANGED <<published, served, view, token, loaded, notifying, bell>>
  BY DEF storeVars, sourceVars
<1>2. StoreInv'
  BY <1>1, StoreStill DEF WatchInv, StoreInv
<1>3. ASSUME NEW d \in Clients
      PROVE  RequestInv(d)' /\ AnswerOK(held[d])'
  <2>1. CASE d = c
    BY <1>1, <2>1 DEF AnswerOK, Payload
  <2>2. CASE d # c
    <3>1. pc'[d] = pc[d] /\ look'[d] = look[d] /\ held'[d] = held[d]
      BY <2>2 DEF Moves
    <3>2. RequestInv(d) /\ AnswerOK(held[d])
      BY DEF WatchInv, ClientInv
    <3>3. RequestInv(d)'
      BY <1>1, <3>1, <3>2 DEF RequestInv, Looks
    <3>4. AnswerOK(held[d])'
      BY <1>1, <3>1, <3>2 DEF AnswerOK, Payload
    <3>. QED  BY <3>3, <3>4
  <2>. QED  BY <2>1, <2>2
<1>. QED  BY <1>2, <1>3 DEF WatchInv, ClientInv, Moves

LEMMA Shapes ==
    ASSUME WatchInv, NEW c \in Clients
    PROVE  /\ pc = [d \in Clients |-> pc[d]] /\ look = [d \in Clients |-> look[d]]
           /\ held = [d \in Clients |-> held[d]]
           /\ RequestInv(c) /\ AnswerOK(held[c])
           /\ served \in Nat /\ bell \in Nat
           /\ \A r \in Resources : token[r] \in Nat
BY DEF WatchInv, StoreInv, ClientInv, HistoryInv, ServedInv, TokenInv

LEMMA EndKeeps ==
    ASSUME WatchInv, NEW c \in Clients, EndWithout(c), UNCHANGED storeVars
    PROVE  WatchInv'
<1>1. bell' = bell /\ bell \in Nat
  BY Shapes DEF storeVars
<1>2. pc'[c] = "idle" /\ look'[c] = NoLook /\ held'[c] = held[c] /\ Moves(c)
  BY Shapes DEF EndWithout, Goto, Moves
<1>3. NoLook \in Looks'
  BY <1>1 DEF NoLook, Looks
<1>4. RequestInv(c)'
  BY <1>2, <1>3 DEF RequestInv, Places
<1>. QED  BY <1>2, <1>4, Shapes, OneClient

LEMMA AnswerKeeps ==
    ASSUME WatchInv, NEW c \in Clients, NEW version, NEW tree,
           Answer(c, version, tree), UNCHANGED storeVars,
           AnswerOK([want |-> look[c].want, version |-> version,
                     payload |-> Payload(look[c].want, tree)])
    PROVE  WatchInv'
<1>1. bell' = bell /\ bell \in Nat
  BY Shapes DEF storeVars
<1>2. /\ pc'[c] = "idle" /\ look'[c] = NoLook /\ Moves(c)
      /\ held'[c] = [want |-> look[c].want, version |-> version,
                     payload |-> Payload(look[c].want, tree)]
  BY Shapes DEF Answer, Goto, Moves
<1>3. NoLook \in Looks'
  BY <1>1 DEF NoLook, Looks
<1>4. RequestInv(c)'
  BY <1>2, <1>3 DEF RequestInv, Places
<1>. QED  BY <1>2, <1>4, OneClient

\* A request that goes on: its look stays well formed, and it is not at its last look.
LEMMA GoesOn ==
    ASSUME WatchInv, NEW c \in Clients, UNCHANGED storeVars, held' = held,
           NEW place \in Places \ {"idle", "head"}, Goto(c, place),
           NEW l \in Looks, l.want \in Views,
           look' = [look EXCEPT ![c] = l]
    PROVE  WatchInv'
<1>1. pc'[c] = place /\ look'[c] = l /\ held'[c] = held[c] /\ Moves(c)
  BY Shapes DEF Goto, Moves
<1>2. Looks' = Looks
  BY DEF Looks, storeVars
<1>3. RequestInv(c)'
  BY <1>1, <1>2 DEF RequestInv
<1>. QED  BY <1>1, <1>3, Shapes, OneClient

LEMMA StartKeeps ==
    ASSUME WatchInv, NEW c \in Clients, Get(c) \/ Watch(c)
    PROVE  WatchInv'
<1>1. PICK v \in Views : look' = [look EXCEPT ![c].want = v]
  BY Shapes DEF Get, Watch, AnswerOK
<1>2. look' = [look EXCEPT ![c] = [look[c] EXCEPT !.want = v]]
  BY <1>1, Shapes
<1>3. [look[c] EXCEPT !.want = v] \in Looks /\ [look[c] EXCEPT !.want = v].want = v
  BY Shapes DEF RequestInv, Looks
<1>4. UNCHANGED storeVars /\ held' = held /\ (Goto(c, "data") \/ Goto(c, "version"))
  BY DEF Get, Watch
<1>. QED  BY <1>2, <1>3, <1>4, GoesOn DEF Places

LEMMA VersionKeeps ==
    ASSUME WatchInv, NEW c \in Clients, ReadVersion(c)
    PROVE  WatchInv'
<1>1. CASE EndWithout(c)
  BY <1>1, EndKeeps DEF ReadVersion
<1>2. CASE ~EndWithout(c)
  <2>. DEFINE seen == [look[c] EXCEPT !.token = token[look[c].want.resource], !.head = served]
  <2>1. look[c] \in Looks /\ look[c].want \in Views /\ look[c].want.resource \in Resources
    BY Shapes DEF ReadVersion, RequestInv
  <2>2. seen \in Looks /\ seen.want = look[c].want
    BY <2>1, Shapes DEF Looks
  <2>3. look' = [look EXCEPT ![c] = seen]
    BY <1>2, Shapes DEF ReadVersion
  <2>4. /\ UNCHANGED storeVars /\ held' = held
        /\ Goto(c, "inherited") \/ Goto(c, "data") \/ Goto(c, "wait")
    BY <1>2 DEF ReadVersion, Compare
  <2>. HIDE DEF seen
  <2>. QED  BY <2>1, <2>2, <2>3, <2>4, GoesOn DEF Places
<1>. QED  BY <1>1, <1>2

LEMMA WaitKeeps ==
    ASSUME WatchInv, NEW c \in Clients, ReadInherited(c) \/ CheckVersion(c) \/ WakeUp(c)
    PROVE  WatchInv'
<1>1. look[c] \in Looks /\ look[c].want \in Views
  BY Shapes DEF ReadInherited, CheckVersion, WakeUp, RequestInv
<1>2. CASE EndWithout(c) /\ UNCHANGED storeVars
  BY <1>2, EndKeeps
<1>3. CASE look' = look /\ held' = held /\ UNCHANGED storeVars
           /\ (Goto(c, "data") \/ Goto(c, "wait") \/ Goto(c, "version"))
  <2>1. look' = [look EXCEPT ![c] = look[c]]
    BY <1>3, Shapes
  <2>. QED  BY <1>1, <1>3, <2>1, GoesOn DEF Places
<1>4. CASE /\ look' = [look EXCEPT ![c].channel = bell] /\ held' = held
           /\ UNCHANGED storeVars /\ Goto(c, "blocked")
  <2>. DEFINE seen == [look[c] EXCEPT !.channel = bell]
  <2>1. look' = [look EXCEPT ![c] = seen]
    BY <1>4, Shapes
  <2>2. seen \in Looks /\ seen.want = look[c].want
    BY <1>1, Shapes DEF Looks
  <2>. HIDE DEF seen
  <2>. QED  BY <1>1, <1>4, <2>1, <2>2, GoesOn DEF Places
<1>. QED  BY <1>2, <1>3, <1>4 DEF ReadInherited, CheckVersion, WakeUp, Compare

\* What is read, with its token or for a second look at the head: the snapshot is a
\* published version, and where the token stands the file was the same.
LEMMA DataKeeps ==
    ASSUME WatchInv, NEW c \in Clients, ReadData(c)
    PROVE  WatchInv'
<1>. DEFINE want == look[c].want
<1>1. look[c] \in Looks /\ want \in Views /\ want.resource \in Resources
  BY Shapes DEF ReadData, RequestInv
<1>2. UNCHANGED storeVars
  BY DEF ReadData
<1>3. CASE EndWithout(c)
  BY <1>2, <1>3, EndKeeps
<1>. SUFFICES ASSUME ~EndWithout(c) PROVE WatchInv'
  BY <1>3
<1>4. Exists(view)
  BY DEF ReadData
<1>5. served \in DOMAIN published /\ served # 0 /\ view = published[served].tree
  BY <1>4, NoService DEF WatchInv, StoreInv, ServedInv
<1>6. CASE HasInherited(want, view)
  <2>. DEFINE seen == [look[c] EXCEPT !.tree = view]
  <2>1. look' = [look EXCEPT ![c] = seen] /\ pc'[c] = "head" /\ held'[c] = held[c] /\ Moves(c)
    BY <1>6, Shapes DEF ReadData, Goto, Moves
  <2>2. view \in Trees
    BY <1>5 DEF WatchInv, StoreInv, HistoryInv
  <2>3. seen \in Looks /\ seen.want = want /\ seen.tree = view
    BY <1>1, <2>2 DEF Looks
  <2>. HIDE DEF seen
  <2>4. look'[c] = seen
    BY <2>1, Shapes
  <2>5. Looks' = Looks /\ published' = published
    BY <1>2 DEF Looks, storeVars, sourceVars
  <2>6. RequestInv(c)'
    BY <1>1, <1>5, <1>6, <2>1, <2>3, <2>4, <2>5 DEF RequestInv, Places, HasInherited
  <2>. QED  BY <1>2, <2>1, <2>6, Shapes, OneClient
<1>7. CASE ~HasInherited(want, view)
  <2>1. Answer(c, token[want.resource], view)
    BY <1>7 DEF ReadData
  <2>2. PICK n \in DOMAIN loaded : StandsFor(want.resource, n)
    BY <1>1, <1>4, <1>5 DEF WatchInv, StoreInv, TokenInv
  <2>3. /\ loaded \in Seq(DOMAIN published) /\ n \in n..Len(loaded)
        /\ loaded[n] \in DOMAIN published
    BY <2>2 DEF WatchInv, StoreInv, ServedInv
  <2>4. /\ token[want.resource] = loaded[n]
        /\ published[loaded[n]].tree.own[want.resource] = view.own[want.resource]
    BY <2>2, <2>3 DEF StandsFor, TreeAt
  <2>5. ~want.inherit =>
           Payload(want, view) = Payload(want, published[token[want.resource]].tree)
    BY <2>4 DEF Payload
  <2>6. AnswerOK([want |-> want, version |-> token[want.resource],
                  payload |-> Payload(want, view)])
    BY <1>1, <1>5, <2>3, <2>4, <2>5 DEF AnswerOK
  <2>. QED  BY <1>2, <2>1, <2>6, AnswerKeeps
<1>. QED  BY <1>6, <1>7

LEMMA HeadKeeps ==
    ASSUME WatchInv, NEW c \in Clients, ReadHead(c)
    PROVE  WatchInv'
<1>1. look[c].want \in Views /\ look[c].want.inherit
  BY Shapes DEF ReadHead, RequestInv
<1>2. PICK v \in DOMAIN published : look[c].tree = published[v].tree
  BY Shapes DEF ReadHead, RequestInv
<1>3. served \in DOMAIN published \cup {0}
  BY DEF WatchInv, StoreInv, ServedInv
<1>4. AnswerOK([want |-> look[c].want, version |-> served,
                payload |-> Payload(look[c].want, look[c].tree)])
  BY <1>1, <1>2, <1>3 DEF AnswerOK
<1>. QED  BY <1>4, AnswerKeeps DEF ReadHead

LEMMA WatchKeeps == WatchInv /\ [Next]_vars => WatchInv'
<1>. SUFFICES ASSUME WatchInv, [Next]_vars
              PROVE  WatchInv'
  OBVIOUS
<1>1. ASSUME NEW c \in Clients, Timeout(c)
      PROVE  WatchInv'
  BY <1>1, EndKeeps DEF Timeout
<1>2. ASSUME UNCHANGED vars
      PROVE  WatchInv'
  <2>1. UNCHANGED <<published, served, view, token, loaded, notifying, bell, pc, look, held>>
    BY <1>2 DEF vars, storeVars, sourceVars, clientVars
  <2>2. ClientInv'
    <3>1. Extends /\ UNCHANGED clientVars
      BY <1>2, <2>1 DEF Extends, vars
    <3>2. HistoryInv /\ ClientInv /\ bell \in Nat
      BY DEF WatchInv, StoreInv
    <3>3. bell' = bell /\ bell <= bell'
      BY <2>1, <3>2
    <3>. QED  BY <3>1, <3>2, <3>3, ClientsUnmoved
  <2>3. HistoryInv' /\ ServedInv' /\ TokenInv'
    BY <2>1, StoreStill DEF WatchInv
  <2>4. StoreInv'
    BY <2>1, <2>3 DEF WatchInv, StoreInv
  <2>. QED  BY <2>2, <2>4 DEF WatchInv
<1>3. CASE Publish \/ Reload \/ NotifyVersionChange \/ Restart
  BY <1>3, PublishKeeps, ReloadKeeps, NotifyKeeps, RestartKeeps
<1>4. ASSUME NEW c \in Clients, Handle(c)
      PROVE  WatchInv'
  BY <1>4, VersionKeeps, WaitKeeps, DataKeeps, HeadKeeps DEF Handle
<1>. QED  BY <1>1, <1>2, <1>3, <1>4, StartKeeps DEF Next

LEMMA Watched == Spec => []WatchInv
BY Initial, WatchKeeps, PTL DEF Spec

\* Every variable keeps its type; the tokens of a service are versions, and those of
\* none are zero.
THEOREM WatchTypeCorrect == Spec => []TypeOK
<1>1. WatchInv => TypeOK
  <2>. SUFFICES ASSUME WatchInv PROVE TypeOK
    OBVIOUS
  <2>1. DOMAIN published \subseteq 1..MaxVersions
    BY DEF WatchInv, StoreInv, HistoryInv
  <2>2. served \in 0..MaxVersions /\ view \in Trees \cup {NoTree}
    BY <2>1 DEF WatchInv, StoreInv, HistoryInv, ServedInv
  <2>3. token \in [Resources -> IF Exists(view) THEN 1..MaxVersions ELSE {0}]
    <3>1. \A r \in Resources : token[r] \in IF Exists(view) THEN 1..MaxVersions ELSE {0}
      BY <2>1 DEF WatchInv, StoreInv, TokenInv
    <3>2. token \in [Resources -> DOMAIN published \cup {0}]
      BY DEF WatchInv, StoreInv, TokenInv
    <3>. QED  BY <3>1, <3>2
  <2>4. loaded \in Seq(1..MaxVersions)
    BY <2>1, SeqMonotonic DEF WatchInv, StoreInv, ServedInv
  <2>5. notifying \in BOOLEAN /\ bell \in Nat
    BY DEF WatchInv, StoreInv
  <2>6. pc \in [Clients -> Places]
    BY DEF WatchInv, ClientInv, RequestInv
  <2>7. \A c \in Clients : look[c].channel \in 0..bell
    BY DEF WatchInv, ClientInv, RequestInv, Looks
  <2>8. \A c \in Clients : held[c].version \in 0..MaxVersions
    BY <2>1 DEF WatchInv, ClientInv, AnswerOK
  <2>. QED  BY <2>2, <2>3, <2>4, <2>5, <2>6, <2>7, <2>8 DEF TypeOK, Places
<1>. QED  BY Watched, <1>1, PTL

\* A token is the loaded version where its resource last changed or the service came
\* to be, whatever versions a reload skips (applyResourceVersions).
THEOREM TokensAreLastChanges == Spec => []TokenIsLastChange
<1>1. WatchInv => TokenIsLastChange
  BY DEF WatchInv, StoreInv, TokenInv, StandsFor, TreeAt, TokenIsLastChange
<1>. QED  BY Watched, <1>1, PTL

\* A raw answer holds the file of the very version that it names, whatever was loaded
\* while it was put together, and also after restarts (configPayloadFromData).
THEOREM RawAnswersAreExact == Spec => []RawAnswerIsExact
<1>1. WatchInv => RawAnswerIsExact
  BY DEF WatchInv, ClientInv, AnswerOK, RawAnswerIsExact
<1>. QED  BY Watched, <1>1, PTL

\* No answer mixes the file of one commit with the defaults of another, although the
\* handler looks at the store several times.
THEOREM AnswersAreOneSnapshot == Spec => []AnswerIsOneSnapshot
<1>1. WatchInv => AnswerIsOneSnapshot
  BY DEF WatchInv, ClientInv, AnswerOK, AnswerIsOneSnapshot
<1>. QED  BY Watched, <1>1, PTL

(***************************************************************************)
(* Waiting.                                                                *)
(***************************************************************************)
\* Where the head that a request has seen was seen, and not looked at since.
Awaiting(c) == pc[c] \in {"inherited", "wait", "blocked"}

\* What a raw watcher has compared with its token, it has compared at that head.
ComparedAtHead(c) ==
    ~look[c].want.inherit /\ look[c].head = served =>
        Exists(view) /\ held[c].version = token[look[c].want.resource]

WaitInv(c) ==
    /\ pc[c] # "idle" => served # 0
    /\ pc[c] = "version" \/ Awaiting(c) => look[c].want = held[c].want
    /\ pc[c] = "inherited" => look[c].want.inherit
    /\ Awaiting(c) => look[c].head <= served
    /\ pc[c] \in {"wait", "blocked"} => ComparedAtHead(c)
    /\ pc[c] = "blocked" /\ look[c].channel = bell => look[c].head = served \/ notifying

\* Versions are numbered in the order of the branch, so that no reload comes back to one.
OrderInv == \A v \in DOMAIN published : \A x \in published[v].before : x \in Nat /\ x < v

WakeInv == OrderInv /\ \A c \in Clients : WaitInv(c)

LEMMA WakeInitial == Init => WakeInv
<1>. SUFFICES ASSUME Init PROVE WakeInv
  OBVIOUS
<1>1. OrderInv
  BY DEF Init, OrderInv
<1>2. \A c \in Clients : pc[c] = "idle"
  BY DEF Init
<1>. QED  BY <1>1, <1>2 DEF WakeInv, WaitInv, Awaiting

\* A look at the head and what was compared there survive all but a later snapshot,
\* which is announced before another can come.
LEMMA StoreWakes ==
    ASSUME WatchInv, WakeInv, Publish \/ Reload \/ NotifyVersionChange \/ Restart
    PROVE  WakeInv'
<1>1. CASE Publish
  <2>1. UNCHANGED <<served, view, token, bell, notifying, pc, look, held>>
    BY <1>1 DEF Publish, Source!Publish, clientVars
  <2>2. PICK t : published' = [v \in DOMAIN published \cup {Latest + 1} |->
                                 IF v \in DOMAIN published THEN published[v]
                                 ELSE [before |-> DOMAIN published, tree |-> t]]
    BY <1>1 DEF Publish, Latest
  <2>3. \A x \in DOMAIN published : x \in Nat /\ x < Latest + 1
    BY DEF WatchInv, StoreInv, HistoryInv
  <2>4. OrderInv'
    BY <2>2, <2>3 DEF OrderInv, WakeInv
  <2>. QED  BY <2>1, <2>4 DEF WakeInv, WaitInv, Awaiting, ComparedAtHead, Exists
<1>2. CASE Reload
  <2>1. PICK v \in DOMAIN published :
            /\ served \in published[v].before \cup {v, 0}
            /\ served' = v /\ view' = published[v].tree /\ published' = published
    BY <1>2 DEF Reload, Source!Serve
  <2>2. /\ UNCHANGED <<bell, pc, look, held>> /\ notifying' = (served' # served)
        /\ token' = [r \in Resources |->
                        IF Exists(view') THEN NextResourceVersion(r, served', view') ELSE 0]
    BY <1>2 DEF Reload, clientVars
  <2>3. v \in Nat /\ v # 0 /\ served \in Nat
    BY DEF WatchInv, StoreInv, HistoryInv, ServedInv
  <2>4. served <= v
    BY <2>1, <2>3 DEF WakeInv, OrderInv
  <2>5. OrderInv'
    BY <2>1 DEF WakeInv, OrderInv
  <2>6. ASSUME NEW c \in Clients PROVE WaitInv(c)'
    <3>1. WaitInv(c) /\ look[c] \in Looks /\ look[c].head \in Nat
          /\ (pc[c] # "idle" => look[c].want.resource \in Resources)
      BY DEF WakeInv, WatchInv, ClientInv, RequestInv, Looks
    <3>2. CASE v = served
      <4>1. view' = view
        BY <2>1, <2>3, <3>2 DEF WatchInv, StoreInv, ServedInv
      <4>2. Exists(view) => \A r \in Resources : token'[r] = token[r]
        BY <2>2, <4>1 DEF NextResourceVersion, Exists
      <4>3. notifying => FALSE
        BY <1>2 DEF Reload
      <4>4. Exists(view)' <=> Exists(view)
        BY <4>1 DEF Exists
      <4>. QED  BY <2>1, <2>2, <3>1, <3>2, <4>2, <4>3, <4>4 DEF WaitInv, Awaiting, ComparedAtHead
    <3>3. CASE v # served
      <4>1. Awaiting(c) => look[c].head <= served' /\ look[c].head # served'
        BY <2>1, <2>3, <2>4, <3>1, <3>3 DEF WaitInv
      <4>2. notifying' = TRUE
        BY <2>1, <2>2, <3>3
      <4>. QED  BY <2>1, <2>2, <2>3, <3>1, <4>1, <4>2 DEF WaitInv, Awaiting, ComparedAtHead
    <3>. QED  BY <3>2, <3>3
  <2>. QED  BY <2>5, <2>6 DEF WakeInv
<1>3. CASE NotifyVersionChange
  <2>1. /\ UNCHANGED <<published, served, view, token, pc, look, held>>
        /\ bell' = bell + 1 /\ bell \in Nat
    BY <1>3 DEF NotifyVersionChange, sourceVars, clientVars, WatchInv, StoreInv
  <2>2. ASSUME NEW c \in Clients PROVE WaitInv(c)'
    <3>1. WaitInv(c) /\ look[c].channel \in 0..bell
      BY DEF WakeInv, WatchInv, ClientInv, RequestInv, Looks
    <3>2. look[c].channel # bell'
      BY <2>1, <3>1
    <3>. QED  BY <2>1, <3>1, <3>2 DEF WaitInv, Awaiting, ComparedAtHead, Exists
  <2>. QED  BY <2>1, <2>2 DEF WakeInv, OrderInv
<1>4. CASE Restart
  <2>1. published' = published /\ pc' = [c \in Clients |-> "idle"]
    BY <1>4 DEF Restart, Source!Restart
  <2>. QED  BY <2>1 DEF WakeInv, OrderInv, WaitInv, Awaiting
<1>. QED  BY <1>1, <1>2, <1>3, <1>4

LEMMA OneClientWaits ==
    ASSUME WatchInv, WakeInv, NEW c \in Clients, UNCHANGED storeVars, Moves(c), WaitInv(c)'
    PROVE  WakeInv'
<1>1. UNCHANGED <<published, served, view, token, notifying, bell>>
  BY DEF storeVars, sourceVars
<1>2. ASSUME NEW d \in Clients, d # c PROVE WaitInv(d)'
  <2>1. pc'[d] = pc[d] /\ look'[d] = look[d] /\ held'[d] = held[d] /\ WaitInv(d)
    BY <1>2 DEF Moves, WakeInv
  <2>. QED  BY <1>1, <2>1 DEF WaitInv, Awaiting, ComparedAtHead, Exists
<1>. QED  BY <1>1, <1>2 DEF WakeInv, OrderInv

LEMMA EndWaits ==
    ASSUME WatchInv, WakeInv, NEW c \in Clients, UNCHANGED storeVars,
           \/ EndWithout(c)
           \/ \E version, tree : Answer(c, version, tree)
    PROVE  WakeInv'
<1>1. pc'[c] = "idle" /\ Moves(c)
  BY Shapes DEF EndWithout, Answer, Goto, Moves
<1>. QED  BY <1>1, OneClientWaits DEF WaitInv, Awaiting

LEMMA StartWaits ==
    ASSUME WatchInv, WakeInv, NEW c \in Clients, Get(c) \/ Watch(c)
    PROVE  WakeInv'
<1>1. UNCHANGED storeVars /\ served' = served /\ served # 0
  BY DEF Get, Watch, storeVars, sourceVars
<1>2. Moves(c) /\ pc'[c] \in {"data", "version"}
  BY Shapes DEF Get, Watch, Goto, Moves
<1>3. pc'[c] = "version" => look'[c].want = held'[c].want
  <2>1. CASE Get(c)
    BY <2>1, Shapes DEF Get, Goto
  <2>2. CASE Watch(c)
    <3>1. look'[c] = [look[c] EXCEPT !.want = held[c].want] /\ held' = held
      BY <2>2, Shapes DEF Watch
    <3>2. look[c] \in Looks
      BY Shapes DEF RequestInv
    <3>. QED  BY <3>1, <3>2 DEF Looks
  <2>. QED  BY <2>1, <2>2
<1>4. WaitInv(c)'
  BY <1>1, <1>2, <1>3 DEF WaitInv, Awaiting
<1>. QED  BY <1>1, <1>2, <1>4, OneClientWaits

LEMMA VersionWaits ==
    ASSUME WatchInv, WakeInv, NEW c \in Clients, ReadVersion(c), ~EndWithout(c)
    PROVE  WakeInv'
<1>. DEFINE want == look[c].want
            seen == [look[c] EXCEPT !.token = token[want.resource], !.head = served]
<1>1. WaitInv(c) /\ pc[c] = "version" /\ UNCHANGED <<storeVars, held>> /\ Exists(view)
  BY DEF WakeInv, ReadVersion
<1>2. look[c] \in Looks /\ served \in Nat
  BY Shapes DEF RequestInv
<1>3. seen.want = want /\ seen.head = served
  BY <1>2 DEF Looks
<1>4. look' = [look EXCEPT ![c] = seen] /\ Moves(c) /\ look'[c] = seen
  BY Shapes DEF ReadVersion, Goto, Compare, Moves
<1>5. \/ pc'[c] = "inherited" /\ want.inherit
      \/ pc'[c] = "data"
      \/ pc'[c] = "wait" /\ token[want.resource] = held[c].version
  BY Shapes DEF ReadVersion, Goto, Compare
<1>. HIDE DEF seen
<1>6. UNCHANGED <<served, view, token, held>>
  BY <1>1 DEF storeVars, sourceVars
<1>7. Exists(view)'
  BY <1>1, <1>6 DEF Exists
<1>8. want = held[c].want /\ served # 0
  BY <1>1 DEF WaitInv
<1>9. WaitInv(c)'
  BY <1>2, <1>3, <1>4, <1>5, <1>6, <1>7, <1>8 DEF WaitInv, Awaiting, ComparedAtHead
<1>. QED  BY <1>1, <1>4, <1>9, OneClientWaits

LEMMA AgainWaits ==
    ASSUME WatchInv, WakeInv, NEW c \in Clients,
           ReadInherited(c) \/ CheckVersion(c) \/ WakeUp(c), ~EndWithout(c)
    PROVE  WakeInv'
<1>1. /\ WaitInv(c) /\ Awaiting(c) /\ UNCHANGED storeVars /\ held' = held
      /\ UNCHANGED <<served, view, token, bell, notifying>>
  BY DEF WakeInv, Awaiting, ReadInherited, CheckVersion, WakeUp, storeVars, sourceVars
<1>2. Exists(view)' <=> Exists(view)
  BY <1>1 DEF Exists
<1>3. Moves(c)
  BY Shapes DEF ReadInherited, CheckVersion, WakeUp, Goto, Compare, Moves
<1>4. CASE ReadInherited(c)
  <2>1. /\ look' = look /\ pc'[c] \in {"data", "wait"}
        /\ look[c].want.inherit /\ served # 0 /\ look[c].want = held[c].want
        /\ look[c].head <= served
    BY <1>1, <1>4, Shapes DEF ReadInherited, Compare, Goto, WaitInv
  <2>2. WaitInv(c)'
    BY <1>1, <2>1 DEF WaitInv, Awaiting, ComparedAtHead
  <2>. QED  BY <1>1, <1>3, <2>2, OneClientWaits
<1>5. CASE CheckVersion(c) /\ served # look[c].head
  <2>1. look' = look /\ pc'[c] = "version"
    BY <1>5, Shapes DEF CheckVersion, Goto
  <2>2. WaitInv(c)'
    BY <1>1, <2>1 DEF WaitInv, Awaiting
  <2>. QED  BY <1>1, <1>3, <2>2, OneClientWaits
<1>6. CASE CheckVersion(c) /\ served = look[c].head
  <2>. DEFINE seen == [look[c] EXCEPT !.channel = bell]
  <2>1. look'[c] = seen /\ pc'[c] = "blocked" /\ pc[c] = "wait"
    BY <1>6, Shapes DEF CheckVersion, Goto
  <2>2. look[c] \in Looks
    BY Shapes DEF RequestInv
  <2>3. seen.want = look[c].want /\ seen.head = look[c].head
    BY <2>2 DEF Looks
  <2>. HIDE DEF seen
  <2>4. WaitInv(c)'
    BY <1>1, <1>2, <1>6, <2>1, <2>3 DEF WaitInv, Awaiting, ComparedAtHead
  <2>. QED  BY <1>1, <1>3, <2>4, OneClientWaits
<1>7. CASE WakeUp(c)
  <2>1. look' = look /\ pc'[c] = "wait" /\ pc[c] = "blocked"
    BY <1>7, Shapes DEF WakeUp, Goto
  <2>2. WaitInv(c)'
    BY <1>1, <1>2, <2>1 DEF WaitInv, Awaiting, ComparedAtHead
  <2>. QED  BY <1>1, <1>3, <2>2, OneClientWaits
<1>. QED  BY <1>4, <1>5, <1>6, <1>7

LEMMA DataWaits ==
    ASSUME WatchInv, WakeInv, NEW c \in Clients, ReadData(c) \/ ReadHead(c)
    PROVE  WakeInv'
<1>1. UNCHANGED storeVars /\ served' = served
  BY DEF ReadData, ReadHead, storeVars, sourceVars
<1>2. CASE EndWithout(c) \/ \E version, tree : Answer(c, version, tree)
  BY <1>1, <1>2, EndWaits
<1>3. CASE /\ pc[c] = "data" /\ Goto(c, "head") /\ held' = held
           /\ look' = [look EXCEPT ![c].tree = view]
  <2>1. pc'[c] = "head" /\ Moves(c)
    BY <1>3, Shapes DEF Goto, Moves
  <2>2. served # 0
    BY <1>3 DEF WakeInv, WaitInv
  <2>3. WaitInv(c)'
    BY <1>1, <2>1, <2>2 DEF WaitInv, Awaiting
  <2>. QED  BY <1>1, <2>1, <2>3, OneClientWaits
<1>. QED  BY <1>2, <1>3 DEF ReadData, ReadHead

LEMMA WakeKeeps == WatchInv /\ WakeInv /\ [Next]_vars => WakeInv'
<1>. SUFFICES ASSUME WatchInv, WakeInv, [Next]_vars
              PROVE  WakeInv'
  OBVIOUS
<1>1. CASE Publish \/ Reload \/ NotifyVersionChange \/ Restart
  BY <1>1, StoreWakes
<1>2. ASSUME NEW c \in Clients, Get(c) \/ Watch(c) \/ Handle(c) \/ Timeout(c)
      PROVE  WakeInv'
  <2>1. CASE EndWithout(c) /\ UNCHANGED storeVars
    BY <2>1, EndWaits
  <2>2. CASE Timeout(c)
    BY <2>1, <2>2 DEF Timeout
  <2>3. CASE Get(c) \/ Watch(c)
    BY <2>3, StartWaits
  <2>4. CASE ReadData(c) \/ ReadHead(c)
    BY <2>4, DataWaits
  <2>5. CASE ReadVersion(c)
    BY <2>1, <2>5, VersionWaits DEF ReadVersion
  <2>6. CASE ReadInherited(c) \/ CheckVersion(c) \/ WakeUp(c)
    <3>1. UNCHANGED storeVars
      BY <2>6 DEF ReadInherited, CheckVersion, WakeUp
    <3>. QED  BY <2>1, <2>6, <3>1, AgainWaits
  <2>. QED  BY <1>2, <2>2, <2>3, <2>4, <2>5, <2>6 DEF Handle
<1>3. CASE UNCHANGED vars
  <2>1. UNCHANGED <<published, served, view, token, notifying, bell, pc, look, held>>
    BY <1>3 DEF vars, storeVars, sourceVars, clientVars
  <2>. QED  BY <2>1 DEF WakeInv, OrderInv, WaitInv, Awaiting, ComparedAtHead, Exists
<1>. QED  BY <1>1, <1>2, <1>3 DEF Next

\* A raw watcher that waits for a channel which nobody is about to close holds what is
\* served: neither a wake-up nor a change of the payload is lost, however reloads, looks
\* and restarts fall together (WaitForVersionChange, NotifyVersionChange).
THEOREM BlockedAreCurrent == Spec => []BlockedIsCurrent
<1>1. ASSUME WatchInv, WakeInv, NEW c \in Clients, pc[c] = "blocked",
             look[c].channel = bell, ~notifying, ~held[c].want.inherit,
             Exists(view), held[c].version # 0
      PROVE  held[c].payload = Payload(held[c].want, view)
  <2>. DEFINE want == held[c].want
  <2>1. WaitInv(c) /\ AnswerOK(held[c])
    BY <1>1, Shapes DEF WakeInv
  <2>2. look[c].want = want /\ look[c].head = served /\ served # 0
    BY <1>1, <2>1 DEF WaitInv, Awaiting
  <2>3. held[c].version = token[want.resource]
    BY <1>1, <2>1, <2>2 DEF WaitInv, ComparedAtHead
  <2>4. /\ want.resource \in Resources
        /\ held[c].payload = Payload(want, published[held[c].version].tree)
    BY <1>1, <2>1 DEF AnswerOK
  <2>5. PICK n \in DOMAIN loaded : StandsFor(want.resource, n)
    BY <1>1, <2>2, <2>4 DEF WatchInv, StoreInv, TokenInv
  <2>6. loaded \in Seq(DOMAIN published) /\ n \in n..Len(loaded)
    BY <1>1, <2>5 DEF WatchInv, StoreInv, ServedInv
  <2>7. /\ token[want.resource] = loaded[n]
        /\ published[loaded[n]].tree.own[want.resource] = view.own[want.resource]
    BY <2>5, <2>6 DEF StandsFor, TreeAt
  <2>. QED  BY <1>1, <2>3, <2>4, <2>7 DEF Payload
<1>2. WatchInv /\ WakeInv => BlockedIsCurrent
  BY <1>1 DEF BlockedIsCurrent, Current
<1>3. Spec => []WakeInv
  BY WakeInitial, WakeKeeps, Watched, PTL DEF Spec
<1>. QED  BY Watched, <1>2, <1>3, PTL

=============================================================================
