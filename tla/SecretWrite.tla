----------------------------- MODULE SecretWrite -----------------------------
(***************************************************************************)
(* Secrets of one service in an admin write or a revert                    *)
(* (internal/store/store.go, internal/secret): plaintext is sealed, the    *)
(* metadata is merged with what the branch holds, both are committed, and  *)
(* only then are the manifests applied to the cluster, one by one.  Git is *)
(* GitRepo's, reduced here to a branch that moves by whole contents; the   *)
(* Kubernetes API and the sealed-secrets controller are external.          *)
(***************************************************************************)
EXTENDS Naturals, Sequences, FiniteSets

CONSTANTS
    Words,            \* what names, keys and ids are put together from, besides numbers
    Plaintexts,       \* values of Secret keys
    SortedNames,      \* of Kubernetes Secrets, each a sequence of its dashed parts
    Namespace,        \* theirs, likewise
    Nothing_,         \* no manifest, no write, no request
    SecretRequests,   \* the secrets of a write: sequences of pairs in the sorted order
    OutsideEntries,   \* what others may add to secrets.yaml
    MaxAttempts,      \* MaxPushRetries
    SecretBudgets     \* how often what may happen, one of these

SecretEvents == {"write", "revert", "outside", "net", "api", "touch", "crash", "disk",
                 "resolve", "mount"}

Dashed == Seq(Words \cup Nat)
Names == {SortedNames[i] : i \in DOMAIN SortedNames}
SecretPair == [name : Names, key : Dashed, value : Plaintexts]

ASSUME SecretAssumption ==
    /\ MaxAttempts \in Nat \ {0}
    /\ SecretBudgets \subseteq [SecretEvents -> Nat]
    /\ SortedNames \in Seq(Dashed) /\ Namespace \in Dashed
    /\ \A pairs \in SecretRequests : pairs \in Seq(SecretPair)

VARIABLES
    branch,     \* secrets.yaml and sealed-secrets/ at the remote's head
    revision,   \* how often the branch has moved
    loaded,     \* what of it the snapshot holds that readers see
    write,      \* the write or revert that holds Store.mu
    objects,    \* the SealedSecrets in the cluster; resourceVersion 0: there is none
    past,       \* history: what the branch has held
    promised,   \* history: what the last plain answer about a secret has promised
    chances     \* what is left of the budget

secretVars == <<branch, revision, loaded, write, objects, past, promised, chances>>

NothingYet == [n \in Names |-> Nothing_]
Chance(e) == chances[e] > 0 /\ chances' = [chances EXCEPT ![e] = @ - 1]

(***************************************************************************)
(* uniqueSecretID and mergeSecretEntries.                                  *)
(***************************************************************************)
Pointer(pair) == [name |-> pair.name, key |-> pair.key]
Ids(entries) == {e.id : e \in entries}
Pointers(entries) == {e.pointer : e \in entries}

\* The candidates in their order: key, name-key, namespace-name-key, and the last
\* with a number.
CandidateId(p, i) ==
    CASE i = 1 -> p.key
      [] i = 2 -> p.name \o p.key
      [] i = 3 -> Namespace \o p.name \o p.key
      [] OTHER -> Namespace \o p.name \o p.key \o <<i - 2>>

UniqueId(p, used) ==
    LET free == {i \in 1..(Cardinality(used) + 3) : CandidateId(p, i) \notin used}
    IN  CandidateId(p, CHOOSE i \in free : \A j \in free : i <= j)

\* byPointer: of entries for the same pointer only the last in the file is kept.
OnePerPointer(entries) ==
    {kept \in SUBSET entries :
        /\ Pointers(kept) = Pointers(entries)
        /\ Cardinality(kept) = Cardinality(Pointers(entries))}

\* An entry for a pointer that has none; its id differs from those of all entries of
\* the file, the ones dropped included.
WithEntry(entries, merged, p) ==
    IF p \in Pointers(merged) THEN merged
    ELSE merged \cup {[id |-> UniqueId(p, Ids(entries \cup merged)), pointer |-> p]}

\* Each pair in turn.
Merged(entries, kept, pairs) ==
    LET upTo[i \in 0..Len(pairs)] ==
            IF i = 0 THEN kept ELSE WithEntry(entries, upTo[i - 1], Pointer(pairs[i]))
    IN  upTo[Len(pairs)]

(***************************************************************************)
(* buildSealedManifests: a manifest holds the keys of this request, and no *)
(* others.                                                                 *)
(***************************************************************************)
NamesIn(pairs) == {pairs[i].name : i \in DOMAIN pairs}

Sealed(pairs) ==
    [n \in NamesIn(pairs) |->
        LET of == {i \in DOMAIN pairs : pairs[i].name = n}
        IN  [k \in {pairs[i].key : i \in of} |->
                pairs[CHOOSE i \in of : pairs[i].key = k].value]]

\* sortedSecretNames, and the order of a revert's files.
Rank(n) == CHOOSE i \in DOMAIN SortedNames : SortedNames[i] = n
IsFirst(n, names) == n \in names /\ \A m \in names : Rank(n) <= Rank(m)

Content(entries, manifests) == [entries |-> entries, manifests |-> manifests]
Overwrite(manifests, by) == [n \in Names |-> IF n \in DOMAIN by THEN by[n] ELSE manifests[n]]

SecretInit ==
    /\ branch = Content({}, NothingYet)
    /\ revision = 1
    /\ loaded = branch
    /\ write = Nothing_
    /\ objects = [n \in Names |-> [manifest |-> Nothing_, rv |-> 0]]
    /\ past = {branch}
    /\ promised = NothingYet
    /\ chances \in SecretBudgets

Stages == {"build", "push", "get", "put", "reload"}

SecretTypeOK ==
    /\ revision \in Nat
    /\ \A c \in past \cup {branch} :
          Cardinality(Ids(c.entries)) = Cardinality(c.entries)
    /\ write # Nothing_ =>
          /\ write.stage \in Stages
          /\ write.attempt \in 1..MaxAttempts
          /\ write.todo \subseteq DOMAIN write.manifests
          /\ write.failed \in BOOLEAN
    /\ chances \in [SecretEvents -> Nat]

(***************************************************************************)
(* ApplyChanges and ApplyRevert, under Store.mu.                           *)
(***************************************************************************)
Begin(pairs, restored, manifests) ==
    /\ write' = [stage |-> "build", pairs |-> pairs, restored |-> restored,
                 manifests |-> manifests, base |-> 0, content |-> branch,
                 attempt |-> 1, todo |-> DOMAIN manifests,
                 seen |-> 0, failed |-> FALSE]
    /\ promised' = [n \in Names |->
                      IF n \in DOMAIN manifests THEN Nothing_ ELSE promised[n]]

\* Sealed before anything is written.
BeginSecretWrite(pairs) ==
    /\ write = Nothing_
    /\ Chance("write")
    /\ Begin(pairs, Nothing_, Sealed(pairs))
    /\ UNCHANGED <<branch, revision, loaded, objects, past>>

\* A revert takes the files of a past commit; what it applies are the manifests there.
\* Without effect it is only if the pulled branch has these files, too.
BeginSecretRevert(target) ==
    /\ write = Nothing_
    /\ target # loaded \/ target # branch
    /\ Chance("revert")
    /\ Begin(<<>>, target,
             [n \in {m \in Names : target.manifests[m] # Nothing_} |-> target.manifests[n]])
    /\ UNCHANGED <<branch, revision, loaded, objects, past>>

\* Slip: a retry pushes what the first attempt has built.
BuildOnce ==
    /\ write # Nothing_ /\ write.stage = "build"
    /\ write' = [write EXCEPT
           !.stage = "push",
           !.base = revision,
           !.content =
               IF write.restored # Nothing_ THEN write.restored
               ELSE IF write.attempt > 1 THEN write.content
               ELSE Content(Merged(branch.entries, branch.entries, write.pairs),
                            Overwrite(branch.manifests, write.manifests))]
    /\ UNCHANGED <<branch, revision, loaded, objects, past, promised, chances>>

\* CommitAndPushFunc pulls, and has the files built from what it has pulled.
Build ==
    /\ write # Nothing_ /\ write.stage = "build"
    /\ \E kept \in OnePerPointer(branch.entries) :
          write' = [write EXCEPT
              !.stage = "push",
              !.base = revision,
              !.content =
                  IF write.restored # Nothing_ THEN write.restored
                  ELSE Content(Merged(branch.entries, kept, write.pairs),
                               Overwrite(branch.manifests, write.manifests))]
    /\ UNCHANGED <<branch, revision, loaded, objects, past, promised, chances>>

Publish(content) ==
    /\ branch' = content
    /\ revision' = revision + 1
    /\ past' = past \cup {content}

Next_ == IF write.todo = {} THEN "reload" ELSE "get"

PushAccepted ==
    /\ write # Nothing_ /\ write.stage = "push" /\ write.base = revision
    /\ Publish(write.content)
    /\ write' = [write EXCEPT !.stage = Next_]
    /\ UNCHANGED <<loaded, objects, promised, chances>>

\* Slip: one attempt too many.
PushRejectedOnceMore ==
    /\ write # Nothing_ /\ write.stage = "push" /\ write.base # revision
    /\ write' = IF write.attempt <= MaxAttempts
                THEN [write EXCEPT !.stage = "build", !.attempt = @ + 1]
                ELSE Nothing_
    /\ UNCHANGED <<branch, revision, loaded, objects, past, promised, chances>>

\* Others were faster: once more from the pull, or give up.
PushRejected ==
    /\ write # Nothing_ /\ write.stage = "push" /\ write.base # revision
    /\ write' = IF write.attempt < MaxAttempts
                THEN [write EXCEPT !.stage = "build", !.attempt = @ + 1]
                ELSE Nothing_
    /\ UNCHANGED <<branch, revision, loaded, objects, past, promised, chances>>

\* Slip: that the commit failed is looked at after the manifests are applied.
PushFailsLate ==
    /\ write # Nothing_ /\ write.stage = "push"
    /\ Chance("net")
    /\ \/ write.base = revision /\ Publish(write.content)
       \/ UNCHANGED <<branch, revision, past>>
    /\ write' = [write EXCEPT !.stage = Next_, !.failed = TRUE]
    /\ UNCHANGED <<loaded, objects, promised>>

\* The push fails, or its acknowledgement is lost: nothing is applied.
PushFails ==
    /\ write # Nothing_ /\ write.stage = "push"
    /\ Chance("net")
    /\ \/ write.base = revision /\ Publish(write.content)
       \/ UNCHANGED <<branch, revision, past>>
    /\ write' = Nothing_
    /\ UNCHANGED <<loaded, objects, promised>>

(***************************************************************************)
(* applySealedManifests: each is tried, and a failure is remembered.       *)
(* ApplySealedSecret gets the object, then creates it, or updates it with  *)
(* the resourceVersion that it has seen.                                   *)
(***************************************************************************)
Working(stage, n) ==
    write # Nothing_ /\ write.stage = stage /\ IsFirst(n, write.todo)

GetSealed(n) ==
    /\ Working("get", n)
    /\ write' = [write EXCEPT !.stage = "put", !.seen = objects[n].rv]
    /\ UNCHANGED <<branch, revision, loaded, objects, past, promised, chances>>

\* Create if there was none, Update with the resourceVersion seen: refused else.
Unchanged(n) == objects[n].rv = write.seen

PutObject(n) ==
    objects' = [objects EXCEPT
                  ![n] = [manifest |-> write.manifests[n], rv |-> write.seen + 1]]

Done(n, failed) ==
    write' = [write EXCEPT
        !.stage = IF write.todo = {n} THEN "reload" ELSE "get",
        !.todo = @ \ {n}, !.seen = 0, !.failed = failed]

\* Slip: the last manifest's result stands for all.
PutSealedLastResult(n) ==
    /\ Working("put", n)
    /\ IF Unchanged(n)
       THEN PutObject(n) /\ Done(n, FALSE)
       ELSE Done(n, TRUE) /\ UNCHANGED objects
    /\ UNCHANGED <<branch, revision, loaded, past, promised, chances>>

PutSealed(n) ==
    /\ Working("put", n)
    /\ IF Unchanged(n)
       THEN PutObject(n) /\ Done(n, write.failed)
       ELSE Done(n, TRUE) /\ UNCHANGED objects       \* a conflict is not tried again
    /\ UNCHANGED <<branch, revision, loaded, past, promised, chances>>

\* The call fails or times out, with or without effect.
ApplyFails(n) ==
    /\ Working("get", n) \/ Working("put", n)
    /\ Chance("api")
    /\ \/ UNCHANGED objects
       \/ write.stage = "put" /\ Unchanged(n) /\ PutObject(n)
    /\ Done(n, TRUE)
    /\ UNCHANGED <<branch, revision, loaded, past, promised>>

\* reloadUnlocked, which may fail, and the answer: plain, or with apply_failed.
AnswerWrite ==
    /\ write # Nothing_ /\ write.stage = "reload"
    /\ \/ loaded' = write.content /\ UNCHANGED chances
       \/ Chance("disk") /\ UNCHANGED loaded
    /\ promised' = IF write.failed THEN promised ELSE Overwrite(promised, write.manifests)
    /\ write' = Nothing_
    /\ UNCHANGED <<branch, revision, objects, past>>

(***************************************************************************)
(* The rest of the world.                                                  *)
(***************************************************************************)
\* A poll, when Store.mu is free.
SecretRefresh ==
    /\ write = Nothing_ /\ loaded # branch
    /\ loaded' = branch
    /\ UNCHANGED <<branch, revision, write, objects, past, promised, chances>>

\* Somebody adds an entry by Git; ids are unique, or secrets.yaml would not parse.
OthersPush ==
    /\ Chance("outside")
    /\ \E e \in OutsideEntries :
          /\ e.id \notin Ids(branch.entries)
          /\ Publish([branch EXCEPT !.entries = @ \cup {e}])
    /\ UNCHANGED <<loaded, write, objects, promised>>

\* The controller writes an object's status, or an operator its labels.
ObjectTouched ==
    /\ Chance("touch")
    /\ \E n \in Names :
          /\ objects[n].rv # 0
          /\ objects' = [objects EXCEPT ![n].rv = @ + 1]
    /\ UNCHANGED <<branch, revision, loaded, write, past, promised>>

\* The process dies, and starts again from the branch.
SecretCrash ==
    /\ Chance("crash")
    /\ write' = Nothing_
    /\ loaded' = branch
    /\ UNCHANGED <<branch, revision, objects, past, promised>>

WriteStep ==
    \/ Build \/ PushAccepted \/ PushRejected \/ PushFails
    \/ \E n \in Names : GetSealed(n) \/ PutSealed(n) \/ ApplyFails(n)
    \/ AnswerWrite

SecretNext ==
    \/ \E pairs \in SecretRequests : BeginSecretWrite(pairs)
    \/ \E target \in past : BeginSecretRevert(target)
    \/ WriteStep
    \/ SecretRefresh \/ OthersPush \/ ObjectTouched

(***************************************************************************)
(* What should be true.                                                    *)
(***************************************************************************)
OneIdEach(entries) == Cardinality(entries) = Cardinality(Pointers(entries))

\* A secret write takes no entry away and renames none, not even one that others
\* pushed while it was being retried; ids stay unique, whatever the names and keys
\* they are put together from; and each secret written has its entry (the builder
\* given to CommitAndPushFunc, mergeSecretEntries).  Excepted is a file that gives
\* one secret two ids: one of them is dropped.
EntriesAreKept ==
    [][PushAccepted /\ write.restored = Nothing_ =>
          /\ OneIdEach(branch.entries) => branch.entries \subseteq branch'.entries
          /\ Cardinality(Ids(branch'.entries)) = Cardinality(branch'.entries)
          /\ \A i \in DOMAIN write.pairs :
                Pointer(write.pairs[i]) \in Pointers(branch'.entries)]_secretVars

\* Nothing reaches the cluster that the remote has not accepted, even if pushes fail
\* or the process dies (ApplyChanges and ApplyRevert apply after the commit).
OnlyCommittedApplied ==
    \A n \in Names : objects[n].rv # 0 =>
        \E c \in past : c.manifests[n] = objects[n].manifest

\* After a plain answer the cluster holds the manifests that were answered for, all
\* of them, until another write of the same secret begins: a failure of any of them,
\* be it a conflict with the controller, is told (applySealedManifests, ApplyFailed).
AppliedAsAnswered ==
    \A n \in Names : promised[n] # Nothing_ =>
        objects[n].rv # 0 /\ objects[n].manifest = promised[n]

\* Every entry of secrets.yaml that only this server has written points at a key
\* that the Secret's manifest on the branch still contains.
EntriesHaveValues ==
    \A e \in branch.entries :
        /\ branch.manifests[e.pointer.name] # Nothing_
        /\ e.pointer.key \in DOMAIN branch.manifests[e.pointer.name]

=============================================================================
