---------------------------- MODULE Secret_proofs ----------------------------
(***************************************************************************)
(* What secrets applied and secrets read have behind them, for every set   *)
(* of Secrets, writes, clients and budgets, and any number of attempts.    *)
(***************************************************************************)
EXTENDS SecretVolume, FiniteSetTheorems, SequenceTheorems, NaturalsInduction, WellFoundedInduction,
        TLAPS

\* A manifest is the branch's, for each of a write's Secrets.
Agrees(manifests, by) == \A n \in DOMAIN by : manifests[n] = by[n]

ObjectsInv ==
    /\ objects = [n \in Names |-> objects[n]]
    /\ \A n \in Names :
          /\ objects[n] = [manifest |-> objects[n].manifest, rv |-> objects[n].rv]
          /\ objects[n].rv \in Nat

WriteRecord(w) ==
    w = [stage |-> w.stage, pairs |-> w.pairs, restored |-> w.restored,
         manifests |-> w.manifests, base |-> w.base, content |-> w.content,
         attempt |-> w.attempt, todo |-> w.todo, seen |-> w.seen, failed |-> w.failed]

\* What a write holds.
WriteShape(w) ==
    /\ WriteRecord(w)
    /\ w.stage \in Stages
    /\ DOMAIN w.manifests \subseteq Names
    /\ w.todo \subseteq DOMAIN w.manifests
    /\ w.seen \in Nat
    /\ w.stage \in {"build", "push"} => w.todo = DOMAIN w.manifests
    /\ w.stage = "reload" => w.todo = {}
    /\ w.restored # Nothing_ => Agrees(w.restored.manifests, w.manifests)
    /\ w.stage = "push" => Agrees(w.content.manifests, w.manifests)

\* From its push on, the branch has held the write; what it has applied without a
\* failure is in the cluster; and nothing is promised about its Secrets.
WriteInv ==
    write # Nothing_ =>
        /\ WriteShape(write)
        /\ write.stage \in {"get", "put", "reload"} =>
              \E c \in past : Agrees(c.manifests, write.manifests)
        /\ ~write.failed =>
              \A n \in DOMAIN write.manifests \ write.todo :
                  objects[n].rv # 0 /\ objects[n].manifest = write.manifests[n]
        /\ \A n \in DOMAIN write.manifests : promised[n] = Nothing_

PromisedInv == promised = [n \in Names |-> promised[n]]

SecretInv ==
    ObjectsInv /\ WriteInv /\ PromisedInv /\ OnlyCommittedApplied /\ AppliedAsAnswered

LEMMA SecretInitial == SecretInit => SecretInv
BY DEF SecretInit, SecretInv, ObjectsInv, WriteInv, PromisedInv, OnlyCommittedApplied,
       AppliedAsAnswered, NothingYet

\* The Secrets of a write are among those there are.
LEMMA SealedNames ==
    ASSUME NEW pairs \in SecretRequests
    PROVE  DOMAIN Sealed(pairs) \subseteq Names
<1>1. DOMAIN Sealed(pairs) = NamesIn(pairs)
  BY DEF Sealed
<1>2. \A i \in DOMAIN pairs : pairs[i].name \in Names
  <2>1. \A i \in DOMAIN pairs : pairs[i] \in SecretPair
    BY SecretAssumption, ElementOfSeq, LenProperties
  <2>. QED  BY <2>1 DEF SecretPair
<1>. QED  BY <1>1, <1>2 DEF NamesIn

\* A write that begins keeps the invariant, whatever it is to write.
LEMMA BeginKeeps ==
    ASSUME SecretInv, NEW pairs, NEW restored, NEW manifests,
           DOMAIN manifests \subseteq Names,
           restored # Nothing_ => Agrees(restored.manifests, manifests),
           Begin(pairs, restored, manifests), UNCHANGED <<objects, past>>
    PROVE  SecretInv'
<1> USE DEF SecretInv
<1>1. write' = [stage |-> "build", pairs |-> pairs, restored |-> restored,
                manifests |-> manifests, base |-> 0, content |-> branch,
                attempt |-> 1, todo |-> DOMAIN manifests, seen |-> 0, failed |-> FALSE]
  BY DEF Begin
<1>2. promised' = [n \in Names |-> IF n \in DOMAIN manifests THEN Nothing_ ELSE promised[n]]
  BY DEF Begin
<1>3. WriteShape(write')
  BY <1>1 DEF WriteShape, WriteRecord, Stages
<1>4. WriteInv'
  BY <1>1, <1>2, <1>3 DEF WriteInv
<1>5. ObjectsInv' /\ OnlyCommittedApplied'
  BY DEF ObjectsInv, OnlyCommittedApplied
<1>6. PromisedInv' /\ AppliedAsAnswered'
  BY <1>2 DEF PromisedInv, AppliedAsAnswered
<1>. QED  BY <1>4, <1>5, <1>6

LEMMA BeginWriteKeeps ==
    ASSUME SecretInv, NEW pairs \in SecretRequests, BeginSecretWrite(pairs)
    PROVE  SecretInv'
BY SealedNames, BeginKeeps DEF BeginSecretWrite

LEMMA BeginRevertKeeps ==
    ASSUME SecretInv, NEW target \in past, BeginSecretRevert(target)
    PROVE  SecretInv'
<1>. DEFINE M == [n \in {m \in Names : target.manifests[m] # Nothing_} |->
                     target.manifests[n]]
<1>1. DOMAIN M \subseteq Names /\ Agrees(target.manifests, M)
  BY DEF Agrees
<1>2. Begin(<<>>, target, M) /\ UNCHANGED <<objects, past>>
  BY DEF BeginSecretRevert
<1>. HIDE DEF M
<1>. QED  BY <1>1, <1>2, BeginKeeps

\* Building keeps it: the files of a revert, or the branch's under the write's own.
LEMMA BuildKeeps ==
    ASSUME SecretInv, Build
    PROVE  SecretInv'
<1> USE DEF SecretInv
<1>1. PICK kept \in OnePerPointer(branch.entries) :
          write' = [write EXCEPT
              !.stage = "push",
              !.base = revision,
              !.content =
                  IF write.restored # Nothing_ THEN write.restored
                  ELSE Content(Merged(branch.entries, kept, write.pairs),
                               Overwrite(branch.manifests, write.manifests))]
  BY DEF Build
<1>. DEFINE built == IF write.restored # Nothing_ THEN write.restored
                     ELSE Content(Merged(branch.entries, kept, write.pairs),
                                  Overwrite(branch.manifests, write.manifests))
<1>2. WriteShape(write) /\ write # Nothing_ /\ write.stage = "build"
  BY DEF Build, WriteInv
<1>3. Agrees(built.manifests, write.manifests)
  <2>1. CASE write.restored # Nothing_
    BY <1>2, <2>1 DEF WriteShape
  <2>2. CASE write.restored = Nothing_
    <3>1. built.manifests = Overwrite(branch.manifests, write.manifests)
      BY <2>2 DEF Content
    <3>. QED  BY <1>2, <3>1 DEF Overwrite, Agrees, WriteShape
  <2>. QED  BY <2>1, <2>2
<1>4. write' = [write EXCEPT !.stage = "push", !.base = revision, !.content = built]
  BY <1>1
<1>. HIDE DEF built
<1>5. WriteShape(write')
  BY <1>2, <1>3, <1>4 DEF WriteShape, WriteRecord, Stages
<1>6. UNCHANGED <<objects, past, promised>>
  BY DEF Build
<1>7. WriteInv'
  BY <1>2, <1>4, <1>5, <1>6 DEF WriteInv, WriteShape, WriteRecord
<1>. QED  BY <1>6, <1>7 DEF ObjectsInv, PromisedInv, OnlyCommittedApplied, AppliedAsAnswered

LEMMA PastGrows ==
    ASSUME ObjectsInv, OnlyCommittedApplied, past \subseteq past', objects' = objects
    PROVE  ObjectsInv' /\ OnlyCommittedApplied'
BY DEF ObjectsInv, OnlyCommittedApplied

\* The pushes: accepted, refused, or failed with its fate unknown.
LEMMA PushKeeps ==
    ASSUME SecretInv, PushAccepted \/ PushRejected \/ PushFails
    PROVE  SecretInv'
<1> USE DEF SecretInv
<1>1. /\ write # Nothing_ /\ write.stage = "push"
      /\ WriteShape(write)
      /\ \A n \in DOMAIN write.manifests : promised[n] = Nothing_
  BY DEF PushAccepted, PushRejected, PushFails, WriteInv
<1>2. UNCHANGED <<objects, promised>> /\ past \subseteq past'
  BY DEF PushAccepted, PushRejected, PushFails, Publish
<1>3. PromisedInv' /\ AppliedAsAnswered' /\ ObjectsInv' /\ OnlyCommittedApplied'
  BY <1>2, PastGrows DEF PromisedInv, AppliedAsAnswered
<1>4. CASE PushAccepted
  <2>1. write' = [write EXCEPT !.stage = Next_] /\ write.content \in past'
    BY <1>4 DEF PushAccepted, Publish
  <2>2. Next_ \in {"reload", "get"} /\ (Next_ = "reload" => write.todo = {})
    BY DEF Next_
  <2>3. WriteShape(write')
    BY <1>1, <2>1, <2>2 DEF WriteShape, WriteRecord, Stages
  <2>4. /\ write'.manifests = write.manifests /\ write'.todo = DOMAIN write.manifests
        /\ Agrees(write.content.manifests, write.manifests)
    BY <1>1, <2>1 DEF WriteShape, WriteRecord
  <2>. QED  BY <1>1, <1>2, <1>3, <2>1, <2>3, <2>4 DEF WriteInv
<1>5. CASE PushRejected
  <2>1. CASE write' = Nothing_
    BY <1>3, <2>1 DEF WriteInv
  <2>2. CASE write' = [write EXCEPT !.stage = "build", !.attempt = @ + 1]
    <3>1. WriteShape(write')
      BY <1>1, <2>2 DEF WriteShape, WriteRecord, Stages
    <3>2. /\ write'.manifests = write.manifests /\ write'.todo = DOMAIN write.manifests
          /\ write'.stage = "build"
      BY <1>1, <2>2 DEF WriteShape, WriteRecord
    <3>. QED  BY <1>1, <1>2, <1>3, <3>1, <3>2 DEF WriteInv
  <2>. QED  BY <1>5, <2>1, <2>2 DEF PushRejected
<1>6. CASE PushFails
  BY <1>3, <1>6 DEF PushFails, WriteInv
<1>. QED  BY <1>4, <1>5, <1>6

LEMMA GetKeeps ==
    ASSUME SecretInv, NEW n \in Names, GetSealed(n)
    PROVE  SecretInv'
<1> USE DEF SecretInv
<1>1. /\ write # Nothing_ /\ write.stage = "get" /\ WriteShape(write)
      /\ objects[n].rv \in Nat
  BY DEF GetSealed, Working, WriteInv, ObjectsInv
<1>2. /\ write' = [write EXCEPT !.stage = "put", !.seen = objects[n].rv]
      /\ UNCHANGED <<objects, past, promised>>
  BY DEF GetSealed
<1>3. WriteShape(write')
  BY <1>1, <1>2 DEF WriteShape, WriteRecord, Stages
<1>4. /\ write'.manifests = write.manifests /\ write'.todo = write.todo
      /\ write'.failed = write.failed
  BY <1>1, <1>2 DEF WriteShape, WriteRecord
<1>5. WriteInv'
  BY <1>1, <1>2, <1>3, <1>4 DEF WriteInv
<1>. QED  BY <1>2, <1>5 DEF ObjectsInv, PromisedInv, OnlyCommittedApplied, AppliedAsAnswered

\* One manifest has been dealt with: either it is in the cluster now, or its object is
\* as before and the write has failed.
LEMMA DoneKeeps ==
    ASSUME SecretInv, NEW n \in Names,
           write # Nothing_, write.stage \in {"get", "put"}, n \in write.todo,
           Done(n, write'.failed), write.failed => write'.failed,
           UNCHANGED <<past, promised>>,
           PutObject(n) \/ (write'.failed /\ UNCHANGED objects)
    PROVE  SecretInv'
<1> USE DEF SecretInv
<1>1. /\ WriteShape(write)
      /\ n \in DOMAIN write.manifests
      /\ promised[n] = Nothing_
      /\ write.seen \in Nat
      /\ \A m \in DOMAIN write.manifests : promised[m] = Nothing_
  BY DEF WriteInv, WriteShape
<1>2. PICK c \in past : Agrees(c.manifests, write.manifests)
  BY DEF WriteInv
<1>3. write' = [write EXCEPT !.stage = IF write.todo = {n} THEN "reload" ELSE "get",
                             !.todo = @ \ {n}, !.seen = 0, !.failed = write'.failed]
  BY DEF Done
<1>4. /\ write'.todo = write.todo \ {n} /\ write'.manifests = write.manifests
  BY <1>1, <1>3 DEF WriteShape, WriteRecord
<1>5. WriteShape(write')
  <2>. DEFINE stage == IF write.todo = {n} THEN "reload" ELSE "get"
              result == write'.failed
  <2>1. stage \in {"reload", "get"} /\ (stage = "reload" => write.todo \ {n} = {})
    OBVIOUS
  <2>. HIDE DEF stage, result
  <2>2. write' = [write EXCEPT !.stage = stage, !.todo = @ \ {n}, !.seen = 0,
                               !.failed = result]
    BY <1>3 DEF stage, result
  <2>. QED  BY <1>1, <2>1, <2>2 DEF WriteShape, WriteRecord, Stages
<1>6. CASE write'.failed /\ UNCHANGED objects
  <2>1. WriteInv'
    BY <1>1, <1>2, <1>4, <1>5, <1>6 DEF WriteInv
  <2>. QED
    BY <1>6, <2>1 DEF ObjectsInv, PromisedInv, OnlyCommittedApplied, AppliedAsAnswered
<1>7. CASE PutObject(n)
  <2>1. objects' = [objects EXCEPT
                      ![n] = [manifest |-> write.manifests[n], rv |-> write.seen + 1]]
    BY <1>7 DEF PutObject
  <2>2. /\ objects'[n].manifest = write.manifests[n]
        /\ objects'[n].rv \in Nat \ {0}
        /\ \A m \in Names \ {n} : objects'[m] = objects[m]
    BY <1>1, <2>1 DEF ObjectsInv
  <2>3. ObjectsInv'
    BY <1>1, <2>1, <2>2 DEF ObjectsInv
  <2>4. OnlyCommittedApplied'
    BY <1>1, <1>2, <2>2 DEF OnlyCommittedApplied, Agrees
  <2>5. AppliedAsAnswered'
    BY <1>1, <2>2 DEF AppliedAsAnswered
  <2>6. ~write'.failed =>
           \A m \in DOMAIN write'.manifests \ write'.todo :
              objects'[m].rv # 0 /\ objects'[m].manifest = write'.manifests[m]
    <3>. SUFFICES ASSUME ~write'.failed, NEW m \in DOMAIN write.manifests, m \notin write'.todo
                  PROVE  objects'[m].rv # 0 /\ objects'[m].manifest = write.manifests[m]
      BY <1>4
    <3>1. CASE m = n
      BY <2>2, <3>1
    <3>2. CASE m # n
      <4>1. m \notin write.todo /\ ~write.failed /\ m \in Names
        BY <1>1, <1>4, <3>2 DEF WriteShape
      <4>. QED  BY <2>2, <3>2, <4>1 DEF WriteInv
    <3>. QED  BY <3>1, <3>2
  <2>7. WriteInv'
    BY <1>1, <1>2, <1>4, <1>5, <2>6 DEF WriteInv
  <2>. QED  BY <2>3, <2>4, <2>5, <2>7 DEF PromisedInv
<1>. QED  BY <1>6, <1>7

LEMMA ApplyKeeps ==
    ASSUME SecretInv, NEW n \in Names, PutSealed(n) \/ ApplyFails(n)
    PROVE  SecretInv'
<1>1. /\ write # Nothing_ /\ write.stage \in {"get", "put"} /\ n \in write.todo
      /\ UNCHANGED <<past, promised>>
  BY DEF PutSealed, ApplyFails, Working, IsFirst
<1>2. WriteShape(write)
  BY <1>1 DEF SecretInv, WriteInv
<1>3. CASE PutSealed(n) /\ Unchanged(n)
  <2>1. PutObject(n) /\ Done(n, write.failed)
    BY <1>3 DEF PutSealed
  <2>2. write'.failed = write.failed
    BY <1>2, <2>1 DEF Done, WriteShape, WriteRecord
  <2>3. Done(n, write'.failed)
    BY <2>1, <2>2
  <2>4. write.failed => write'.failed
    BY <2>2
  <2>. QED  BY <1>1, <2>1, <2>3, <2>4, DoneKeeps
<1>4. CASE (PutSealed(n) /\ ~Unchanged(n)) \/ ApplyFails(n)
  <2>1. Done(n, TRUE) /\ (PutObject(n) \/ UNCHANGED objects)
    BY <1>4 DEF PutSealed, ApplyFails
  <2>2. write'.failed = TRUE
    BY <1>2, <2>1 DEF Done, WriteShape, WriteRecord
  <2>3. Done(n, write'.failed)
    BY <2>1, <2>2
  <2>4. write.failed => write'.failed
    BY <2>2
  <2>5. PutObject(n) \/ (write'.failed /\ UNCHANGED objects)
    BY <2>1, <2>2
  <2>. QED  BY <1>1, <2>3, <2>4, <2>5, DoneKeeps
<1>. QED  BY <1>3, <1>4

\* The answer promises what has been applied without a failure.
LEMMA AnswerKeeps ==
    ASSUME SecretInv, AnswerWrite
    PROVE  SecretInv'
<1> USE DEF SecretInv
<1>1. /\ write' = Nothing_ /\ UNCHANGED <<objects, past>>
      /\ write # Nothing_ /\ WriteShape(write) /\ write.todo = {}
  BY DEF AnswerWrite, WriteInv, WriteShape
<1>2. WriteInv' /\ ObjectsInv' /\ OnlyCommittedApplied'
  BY <1>1 DEF WriteInv, ObjectsInv, OnlyCommittedApplied
<1>3. CASE write.failed
  BY <1>1, <1>2, <1>3 DEF AnswerWrite, PromisedInv, AppliedAsAnswered
<1>4. CASE ~write.failed
  <2>1. promised' = [n \in Names |-> IF n \in DOMAIN write.manifests
                                     THEN write.manifests[n] ELSE promised[n]]
    BY <1>4 DEF AnswerWrite, Overwrite
  <2>2. \A n \in DOMAIN write.manifests :
            objects[n].rv # 0 /\ objects[n].manifest = write.manifests[n]
    BY <1>1, <1>4 DEF WriteInv
  <2>. QED  BY <1>1, <1>2, <2>1, <2>2 DEF PromisedInv, AppliedAsAnswered
<1>. QED  BY <1>3, <1>4

\* Status and labels change an object's version, and not its manifest.
LEMMA TouchKeeps ==
    ASSUME SecretInv, ObjectTouched
    PROVE  SecretInv'
<1> USE DEF SecretInv
<1>1. PICK n \in Names : objects[n].rv # 0 /\ objects' = [objects EXCEPT ![n].rv = @ + 1]
  BY DEF ObjectTouched
<1>2. UNCHANGED <<write, past, promised>>
  BY DEF ObjectTouched
<1>3. objects'[n] = [manifest |-> objects[n].manifest, rv |-> objects[n].rv + 1]
  BY <1>1 DEF ObjectsInv
<1>4. \A m \in Names : /\ objects'[m].manifest = objects[m].manifest
                       /\ objects'[m].rv \in Nat
                       /\ objects'[m].rv = 0 <=> objects[m].rv = 0
                       /\ objects'[m] = [manifest |-> objects'[m].manifest,
                                         rv |-> objects'[m].rv]
  BY <1>1, <1>3 DEF ObjectsInv
<1>5. ObjectsInv'
  BY <1>1, <1>4 DEF ObjectsInv
<1>6. WriteInv'
  BY <1>2, <1>4 DEF WriteInv, WriteShape
<1>. QED  BY <1>2, <1>4, <1>5, <1>6 DEF PromisedInv, OnlyCommittedApplied, AppliedAsAnswered

LEMMA RestKeeps ==
    ASSUME SecretInv, SecretRefresh \/ OthersPush \/ SecretCrash \/ UNCHANGED secretVars
    PROVE  SecretInv'
<1>1. /\ past \subseteq past' /\ UNCHANGED <<objects, promised>>
      /\ write' = write \/ write' = Nothing_
  BY DEF SecretRefresh, OthersPush, SecretCrash, Publish, secretVars
<1>. QED
  BY <1>1, PastGrows DEF SecretInv, WriteInv, PromisedInv, AppliedAsAnswered

LEMMA SecretsKeep == SecretInv /\ [VolumeNext]_allSecretVars => SecretInv'
<1>. SUFFICES ASSUME SecretInv, [VolumeNext]_allSecretVars
              PROVE  SecretInv'
  OBVIOUS
<1>1. CASE SecretNext
  <2>1. CASE \E pairs \in SecretRequests : BeginSecretWrite(pairs)
    BY <2>1, BeginWriteKeeps
  <2>2. CASE \E target \in past : BeginSecretRevert(target)
    BY <2>2, BeginRevertKeeps
  <2>3. CASE WriteStep
    BY <2>3, BuildKeeps, PushKeeps, GetKeeps, ApplyKeeps, AnswerKeeps DEF WriteStep
  <2>. QED  BY <1>1, <2>1, <2>2, <2>3, TouchKeeps, RestKeeps DEF SecretNext
<1>2. CASE ServerCrash
  BY <1>2, RestKeeps DEF ServerCrash
<1>3. CASE UNCHANGED secretVars
  BY <1>3, RestKeeps
<1>4. ASSUME NEW n \in Names, Mount(n)
      PROVE  SecretInv'
  BY <1>4, PastGrows DEF Mount, SecretInv, WriteInv, PromisedInv, AppliedAsAnswered
<1>5. ASSUME NEW c \in Clients, BeginResolve(c) \/ ReadMounted(c) \/ CacheRead(c) \/ AnswerResolved(c)
      PROVE  SecretInv'
  <2>1. UNCHANGED <<objects, promised, write, past>>
    BY <1>5 DEF BeginResolve, ReadMounted, CacheRead, AnswerResolved, secretVars
  <2>. QED  BY <2>1, PastGrows DEF SecretInv, WriteInv, PromisedInv, AppliedAsAnswered
<1>. QED  BY <1>1, <1>2, <1>3, <1>4, <1>5 DEF VolumeNext, allSecretVars

\* Whatever fails, crashes, is retried or reverted, every SealedSecret that this server
\* has put into the cluster was on the branch before (ApplyChanges, ApplyRevert).
THEOREM CommittedFirst == VolumeSpec => []OnlyCommittedApplied
<1>1. SecretInv => OnlyCommittedApplied
  BY DEF SecretInv
<1>. QED  BY SecretInitial, SecretsKeep, <1>1, PTL DEF VolumeSpec

\* After an answer without apply_failed the cluster has all manifests of the write,
\* until another write of the same Secret begins (applySealedManifests).
THEOREM AnswersHold == VolumeSpec => []AppliedAsAnswered
<1>1. SecretInv => AppliedAsAnswered
  BY DEF SecretInv
<1>. QED  BY SecretInitial, SecretsKeep, <1>1, PTL DEF VolumeSpec

\* What a request holds: each value it has was in its file while it ran, and so was the
\* one it has just read; the files as they are now count, too.
RequestOK(r) ==
    r # Nothing_ =>
        /\ r = [entry |-> r.entry, got |-> r.got, read |-> r.read, could |-> r.could]
        /\ r.could = [id \in SecretRefs |-> r.could[id]]
        /\ DOMAIN r.got \subseteq SecretRefs
        /\ \A id \in SecretRefs : FileOf(r.entry[id]) \in r.could[id]
        /\ \A id \in DOMAIN r.got : r.got[id] \in r.could[id]
        /\ r.read # Nothing_ =>
              r.read.id \in SecretRefs /\ r.read.value \in r.could[r.read.id]

ResolvingInv == \A c \in Clients : RequestOK(resolving[c])

VolumeInv ==
    /\ mounted = [n \in Names |-> mounted[n]]
    /\ resolving = [c \in Clients |-> resolving[c]]
    /\ ResolvingInv

LEMMA VolumeInitial == SecretInit /\ VolumeInit => VolumeInv
BY DEF VolumeInit, VolumeInv, ResolvingInv, RequestOK, NothingYet

\* A step of one request concerns no other.
LEMMA OneRequest ==
    ASSUME VolumeInv, NEW c \in Clients, NEW r, RequestOK(r),
           resolving' = [resolving EXCEPT ![c] = r], mounted' = mounted
    PROVE  VolumeInv'
<1>1. \A p : FileOf(p)' = FileOf(p)
  BY DEF FileOf, FileIn
<1>2. \A d \in Clients : resolving'[d] = IF d = c THEN r ELSE resolving[d]
  BY DEF VolumeInv
<1>3. ResolvingInv'
  BY <1>1, <1>2 DEF VolumeInv, ResolvingInv, RequestOK
<1>. QED  BY <1>3 DEF VolumeInv

LEMMA MountKeeps ==
    ASSUME VolumeInv, NEW n \in Names, Mount(n)
    PROVE  VolumeInv'
<1>1. mounted' = [mounted EXCEPT ![n] = objects[n].manifest]
  BY DEF Mount
<1>2. mounted' = [m \in Names |-> mounted'[m]]
  BY <1>1 DEF VolumeInv
<1>3. resolving' = [c \in Clients |->
           IF resolving[c] = Nothing_ THEN Nothing_
           ELSE [resolving[c] EXCEPT !.could =
                   [id \in SecretRefs |->
                       IF resolving[c].entry[id].name # n THEN @[id]
                       ELSE @[id] \cup {FileIn(mounted', resolving[c].entry[id])}]]]
  BY DEF Mount
<1>4. \A p : p.name # n => FileOf(p)' = FileOf(p)
  BY <1>1 DEF VolumeInv, FileOf, FileIn
<1>5. ASSUME NEW c \in Clients, resolving'[c] # Nothing_
      PROVE  RequestOK(resolving[c])'
  <2>. DEFINE r == resolving[c]
             more == [id \in SecretRefs |->
                        IF r.entry[id].name # n THEN r.could[id]
                        ELSE r.could[id] \cup {FileIn(mounted', r.entry[id])}]
  <2>1. r # Nothing_ /\ resolving'[c] = [r EXCEPT !.could = more]
    BY <1>3, <1>5
  <2>2. RequestOK(r)
    BY DEF VolumeInv, ResolvingInv, RequestOK
  <2>3. \A id \in SecretRefs : r.could[id] \subseteq more[id]
    OBVIOUS
  <2>4. \A id \in SecretRefs : FileOf(r.entry[id])' \in more[id]
    <3>1. resolving'[c].entry = r.entry
      BY <2>1, <2>2 DEF RequestOK
    <3>2. ASSUME NEW id \in SecretRefs PROVE FileIn(mounted', r.entry[id]) \in more[id]
      <4>1. CASE r.entry[id].name = n
        BY <4>1
      <4>2. CASE r.entry[id].name # n
        <5>1. FileIn(mounted', r.entry[id]) = FileOf(r.entry[id])
          BY <1>1, <4>2 DEF VolumeInv, FileOf, FileIn
        <5>2. FileOf(r.entry[id]) \in r.could[id]
          BY <2>1, <2>2 DEF RequestOK
        <5>. QED  BY <4>2, <5>1, <5>2
      <4>. QED  BY <4>1, <4>2
    <3>. HIDE DEF more
    <3>. QED  BY <3>1, <3>2 DEF FileOf
  <2>. QED  BY <2>1, <2>2, <2>3, <2>4 DEF RequestOK
<1>6. ResolvingInv'
  BY <1>5 DEF ResolvingInv, RequestOK
<1>7. resolving' = [c \in Clients |-> resolving'[c]]
  BY <1>3
<1>. QED  BY <1>2, <1>6, <1>7 DEF VolumeInv

LEMMA BeginResolveKeeps ==
    ASSUME VolumeInv, NEW c \in Clients, BeginResolve(c)
    PROVE  VolumeInv'
<1>1. PICK entry : resolving' = [resolving EXCEPT ![c] =
               [entry |-> entry, got |-> <<>>, read |-> Nothing_,
                could |-> [id \in SecretRefs |-> {FileOf(entry[id])}]]]
  BY DEF BeginResolve
<1>2. RequestOK([entry |-> entry, got |-> <<>>, read |-> Nothing_,
                 could |-> [id \in SecretRefs |-> {FileOf(entry[id])}]])
  BY DEF RequestOK
<1>3. mounted' = mounted
  BY DEF BeginResolve
<1>. QED  BY <1>1, <1>2, <1>3, OneRequest

LEMMA ReadKeeps ==
    ASSUME VolumeInv, NEW c \in Clients, ReadMounted(c)
    PROVE  VolumeInv'
<1>1. mounted' = mounted /\ RequestOK(resolving[c]) /\ resolving[c] # Nothing_
  BY DEF ReadMounted, VolumeInv, ResolvingInv, RequestOK
<1>2. PICK id \in SecretRefs :
          \/ resolving' = [resolving EXCEPT ![c] = Nothing_]
          \/ Reads(c, id, FileOf(resolving[c].entry[id]))
  BY DEF ReadMounted, Unread
<1>3. CASE resolving' = [resolving EXCEPT ![c] = Nothing_]
  BY <1>1, <1>3, OneRequest DEF RequestOK
<1>4. CASE Reads(c, id, FileOf(resolving[c].entry[id]))
  <2>. DEFINE now == [resolving[c] EXCEPT
                        !.read = [id |-> id, value |-> FileOf(resolving[c].entry[id])]]
  <2>1. resolving' = [resolving EXCEPT ![c] = now]
    BY <1>4 DEF Reads, VolumeInv
  <2>2. RequestOK(now)
    BY <1>1 DEF RequestOK
  <2>. HIDE DEF now
  <2>. QED  BY <1>1, <2>1, <2>2, OneRequest
<1>. QED  BY <1>2, <1>3, <1>4

LEMMA TakenIn ==
    ASSUME NEW r, NEW all, NEW now,
           r = [entry |-> r.entry, got |-> r.got, read |-> r.read, could |-> r.could],
           now = [r EXCEPT !.read = Nothing_, !.got = all]
    PROVE  now = [entry |-> r.entry, got |-> all, read |-> Nothing_, could |-> r.could]
OBVIOUS

LEMMA CacheKeeps ==
    ASSUME VolumeInv, NEW c \in Clients, CacheRead(c)
    PROVE  VolumeInv'
<1>1. mounted' = mounted /\ RequestOK(resolving[c]) /\ resolving[c] # Nothing_
  BY DEF CacheRead, VolumeInv, ResolvingInv, RequestOK
<1>. DEFINE r   == resolving[c]
            all == [i \in DOMAIN r.got \cup {r.read.id} |->
                       IF i = r.read.id THEN r.read.value ELSE r.got[i]]
            now == [r EXCEPT !.read = Nothing_, !.got = all]
<1>2. resolving' = [resolving EXCEPT ![c] = now]
  BY <1>1 DEF CacheRead, VolumeInv
<1>3. RequestOK(now)
  <2>1. r.read # Nothing_
    BY DEF CacheRead
  <2>2. now = [entry |-> r.entry, got |-> all, read |-> Nothing_, could |-> r.could]
    <3>1. r = [entry |-> r.entry, got |-> r.got, read |-> r.read, could |-> r.could]
      BY <1>1 DEF RequestOK
    <3>. HIDE DEF all, r
    <3>. QED  BY <3>1, TakenIn
  <2>3. DOMAIN all \subseteq SecretRefs /\ \A i \in DOMAIN all : all[i] \in r.could[i]
    BY <1>1, <2>1 DEF RequestOK
  <2>. HIDE DEF now, all
  <2>. QED  BY <1>1, <2>2, <2>3 DEF RequestOK
<1>. HIDE DEF now
<1>. QED  BY <1>1, <1>2, <1>3, OneRequest

LEMMA VolumesKeep == VolumeInv /\ [VolumeNext]_allSecretVars => VolumeInv'
<1>. SUFFICES ASSUME VolumeInv, [VolumeNext]_allSecretVars
              PROVE  VolumeInv'
  OBVIOUS
<1>1. CASE UNCHANGED <<mounted, resolving>>
  BY <1>1 DEF VolumeInv, ResolvingInv, RequestOK, FileOf, FileIn
<1>2. CASE ServerCrash
  BY <1>2 DEF ServerCrash, VolumeInv, ResolvingInv, RequestOK
<1>3. ASSUME NEW c \in Clients, AnswerResolved(c)
      PROVE  VolumeInv'
  <2>1. RequestOK(Nothing_)
    BY DEF RequestOK
  <2>. QED  BY <1>3, <2>1, OneRequest DEF AnswerResolved
<1>. QED  BY <1>1, <1>2, <1>3, MountKeeps, BeginResolveKeeps, ReadKeeps, CacheKeeps
          DEF VolumeNext, allSecretVars, volumeVars

\* A secret that a request resolves was in its mounted file while the request ran,
\* whatever concurrent requests read and cache (Refresh, resolveEnvSecrets).
THEOREM ResolvedFresh == VolumeSpec => []ResolvedIsFresh
<1>1. VolumeInv => ResolvedIsFresh
  BY DEF VolumeInv, ResolvingInv, RequestOK, ResolvedIsFresh
<1>. QED  BY VolumeInitial, VolumesKeep, <1>1, PTL DEF VolumeSpec

(***************************************************************************)
(* Induction, over the sets of the numbers that a statement is true of.    *)
(***************************************************************************)
LEMMA LeastNumber ==
    ASSUME NEW T \in SUBSET Nat, T # {}
    PROVE  \E m \in T : \A k \in T : m <= k
<1>. DEFINE R == OpToRel(<, Nat)
<1>1. IsWellFoundedOn(R, Nat)
  BY NatLessThanWellFounded
<1>2. PICK m \in T : \A k \in Nat : <<k, m>> \in R => k \notin T
  <2>. HIDE DEF R
  <2>. QED  BY <1>1, WFMin
<1>3. \A k \in T : ~(k < m)
  BY <1>2 DEF OpToRel
<1>. QED  BY <1>3

LEMMA UpToEach ==
    ASSUME NEW n \in Nat, NEW T \in SUBSET (0..n), 0 \in T,
           \A i \in 1..n : i - 1 \in T => i \in T
    PROVE  T = 0..n
<1>. DEFINE Rest == (0..n) \ T
<1>. SUFFICES ASSUME Rest # {} PROVE FALSE
  OBVIOUS
<1>1. PICK m \in Rest : \A k \in Rest : m <= k
  <2>1. Rest \in SUBSET Nat
    OBVIOUS
  <2>. HIDE DEF Rest
  <2>. QED  BY <2>1, LeastNumber
<1>2. m \in 1..n /\ m - 1 \in T
  BY <1>1
<1>. QED  BY <1>1, <1>2

(***************************************************************************)
(* uniqueSecretID.                                                         *)
(***************************************************************************)
LEMMA FromThree ==
    ASSUME NEW n \in Nat
    PROVE  IsFiniteSet(3..(n + 3)) /\ Cardinality(3..(n + 3)) = n + 1
<1>1. ASSUME NEW a \in Int, NEW b \in Int, a <= b
      PROVE  IsFiniteSet(a..b) /\ Cardinality(a..b) = b - a + 1
  <2>1. ~(a > b)
    BY <1>1
  <2>. QED  BY <2>1, FS_Interval
<1>2. 3 \in Int /\ n + 3 \in Int /\ 3 <= n + 3 /\ (n + 3) - 3 + 1 = n + 1
  OBVIOUS
<1>. QED  BY <1>1, <1>2

LEMMA NumberedDiffer ==
    ASSUME NEW s \in Dashed, NEW i \in Nat, NEW j \in Nat
    PROVE  /\ s \o <<i>> # s
           /\ s \o <<i>> = s \o <<j>> => i = j
<1>1. <<i>> \in Dashed /\ <<j>> \in Dashed /\ Len(<<i>>) = 1 /\ Len(<<j>>) = 1
  BY DEF Dashed
<1>2. /\ Len(s) \in Nat
      /\ Len(s \o <<i>>) = Len(s) + 1
      /\ (s \o <<i>>)[Len(s) + 1] = i
      /\ (s \o <<j>>)[Len(s) + 1] = j
  BY <1>1, ConcatProperties, LenProperties DEF Dashed
<1>. QED  BY <1>2

\* However many ids are taken, and by whatever names they have been put together, one
\* of the candidates is free, and the first of these is taken.
LEMMA UniqueIdIsUnused ==
    ASSUME NEW p, p.name \in Dashed, p.key \in Dashed, NEW used, IsFiniteSet(used)
    PROVE  UniqueId(p, used) \notin used
<1>. DEFINE n == Cardinality(used)
            stem == Namespace \o p.name \o p.key
            free == {i \in 1..(n + 3) : CandidateId(p, i) \notin used}
<1>1. n \in Nat
  BY FS_CardinalityType
<1>2. stem \in Dashed
  <2>1. Namespace \o p.name \in Dashed
    BY SecretAssumption, ConcatProperties DEF Dashed
  <2>. QED  BY <2>1, ConcatProperties DEF Dashed
<1>3. /\ CandidateId(p, 3) = stem
      /\ \A i \in 4..(n + 3) : CandidateId(p, i) = stem \o <<i - 2>>
  <2>1. ASSUME NEW i, i = 3 PROVE CandidateId(p, i) = stem
    <3>1. i # 1 /\ i # 2
      BY <2>1
    <3>. QED  BY <2>1, <3>1 DEF CandidateId
  <2>2. ASSUME NEW i \in Nat, i > 3 PROVE CandidateId(p, i) = stem \o <<i - 2>>
    <3>1. i # 1 /\ i # 2 /\ i # 3
      BY <2>2
    <3>. QED  BY <3>1 DEF CandidateId
  <2>3. \A i \in 4..(n + 3) : i \in Nat /\ i > 3
    BY <1>1
  <2>. QED  BY <2>1, <2>2, <2>3
<1>. HIDE DEF stem
<1>4. \A i, j \in 3..(n + 3) : CandidateId(p, i) = CandidateId(p, j) => i = j
  <2>. SUFFICES ASSUME NEW i \in 3..(n + 3), NEW j \in 3..(n + 3), i # j
                PROVE  CandidateId(p, i) # CandidateId(p, j)
    OBVIOUS
  <2>. HIDE DEF n
  <2>1. i \in Nat /\ j \in Nat /\ (i = 3 \/ i \in 4..(n + 3)) /\ (j = 3 \/ j \in 4..(n + 3))
    BY <1>1
  <2>2. CASE i = 3
    <3>1. j \in 4..(n + 3) /\ j - 2 \in Nat
      BY <1>1, <2>1, <2>2
    <3>. QED  BY <1>2, <1>3, <2>2, <3>1, NumberedDiffer
  <2>3. CASE j = 3
    <3>1. i \in 4..(n + 3) /\ i - 2 \in Nat
      BY <1>1, <2>1, <2>3
    <3>. QED  BY <1>2, <1>3, <2>3, <3>1, NumberedDiffer
  <2>4. CASE i \in 4..(n + 3) /\ j \in 4..(n + 3)
    <3>1. i - 2 \in Nat /\ j - 2 \in Nat /\ i - 2 # j - 2
      BY <1>1, <2>4
    <3>. QED  BY <1>2, <1>3, <2>4, <3>1, NumberedDiffer
  <2>. QED  BY <2>1, <2>2, <2>3, <2>4
<1>5. free # {}
  <2>. SUFFICES ASSUME free = {} PROVE FALSE
    OBVIOUS
  <2>. DEFINE f == [i \in 3..(n + 3) |-> CandidateId(p, i)]
  <2>1. f \in [3..(n + 3) -> used]
    BY <1>1
  <2>2. IsFiniteSet(3..(n + 3)) /\ Cardinality(3..(n + 3)) = n + 1
    BY <1>1, FromThree
  <2>3. \E x, y \in 3..(n + 3) : x # y /\ f[x] = f[y]
    <3>1. Cardinality(used) < Cardinality(3..(n + 3))
      BY <1>1, <2>2
    <3>. DEFINE S == 3..(n + 3)
    <3>2. IsFiniteSet(S) /\ Cardinality(used) < Cardinality(S) /\ f \in [S -> used]
      BY <2>1, <2>2, <3>1
    <3>. HIDE DEF f, n, S
    <3>3. \E x, y \in S : x # y /\ f[x] = f[y]
      <4>1. \A U, V : IsFiniteSet(U) /\ IsFiniteSet(V) /\ Cardinality(V) < Cardinality(U) =>
                \A g \in [U -> V] : \E x, y \in U : x # y /\ g[x] = g[y]
        BY FS_PigeonHole
      <4>. QED  BY <3>2, <4>1
    <3>. QED  BY <3>3 DEF S
  <2>. QED  BY <1>4, <2>3
<1>6. \E m \in free : \A k \in free : m <= k
  <2>1. free \in SUBSET Nat
    BY <1>1
  <2>. HIDE DEF free
  <2>. QED  BY <1>5, <2>1, LeastNumber
<1>7. \E m \in free : UniqueId(p, used) = CandidateId(p, m)
  BY <1>6 DEF UniqueId
<1>. QED  BY <1>7

(***************************************************************************)
(* mergeSecretEntries.                                                     *)
(***************************************************************************)
\* Entries as the parser lets them pass: no two have one id.
IdsDiffer(entries) == \A d, e \in entries : d.id = e.id => d = e
Readable(entries) == IsFiniteSet(entries) /\ IdsDiffer(entries)

LEMMA IdsFinite ==
    ASSUME NEW entries, IsFiniteSet(entries)
    PROVE  /\ IsFiniteSet(Ids(entries))
           /\ IdsDiffer(entries) => Cardinality(Ids(entries)) = Cardinality(entries)
<1>. DEFINE f == [e \in entries |-> e.id]
            S == Ids(entries)
<1>1. f \in Surjection(entries, S)
  <2>1. f \in [entries -> S]
    BY DEF Ids
  <2>2. \A x \in S : \E e \in entries : f[e] = x
    BY DEF Ids
  <2>. HIDE DEF f, S
  <2>. QED  BY <2>1, <2>2 DEF Surjection
<1>2. ASSUME IdsDiffer(entries) PROVE f \in Injection(entries, S)
  <2>1. f \in [entries -> S]
    BY DEF Ids
  <2>2. \A d, e \in entries : f[d] = f[e] => d = e
    BY <1>2 DEF IdsDiffer
  <2>3. DOMAIN f = entries
    OBVIOUS
  <2>. HIDE DEF f, S
  <2>. QED  BY <2>1, <2>2, <2>3 DEF Injection, IsInjective
<1>3. IsFiniteSet(S) /\ (Cardinality(S) = Cardinality(entries) <=> f \in Injection(entries, S))
  <2>. HIDE DEF f, S
  <2>. QED  BY <1>1, FS_Surjection
<1>. QED  BY <1>2, <1>3

LEMMA WithEntryKeeps ==
    ASSUME NEW entries, IsFiniteSet(entries), NEW merged, Readable(merged),
           NEW p, p.name \in Dashed, p.key \in Dashed
    PROVE  /\ Readable(WithEntry(entries, merged, p))
           /\ merged \subseteq WithEntry(entries, merged, p)
           /\ p \in Pointers(WithEntry(entries, merged, p))
<1>1. CASE p \in Pointers(merged)
  BY <1>1 DEF WithEntry
<1>2. CASE p \notin Pointers(merged)
  <2>. DEFINE new == [id |-> UniqueId(p, Ids(entries \cup merged)), pointer |-> p]
  <2>1. IsFiniteSet(entries \cup merged)
    BY FS_Union DEF Readable
  <2>2. new.id \notin Ids(entries \cup merged)
    <3>1. IsFiniteSet(Ids(entries \cup merged))
      BY <2>1, IdsFinite
    <3>. QED  BY <3>1, UniqueIdIsUnused
  <2>3. \A e \in merged : e.id # new.id
    BY <2>2 DEF Ids
  <2>4. WithEntry(entries, merged, p) = merged \cup {new} /\ new.pointer = p
    BY <1>2 DEF WithEntry
  <2>. HIDE DEF new
  <2>5. IsFiniteSet(merged \cup {new})
    BY FS_AddElement DEF Readable
  <2>6. IdsDiffer(merged \cup {new})
    BY <2>3 DEF Readable, IdsDiffer
  <2>. QED  BY <2>4, <2>5, <2>6 DEF Readable, Pointers
<1>. QED  BY <1>1, <1>2

\* The loop up to the n-th pair.
RunsTo(n, upTo, entries, kept, pairs) ==
    upTo = [i \in 0..n |->
              IF i = 0 THEN kept ELSE WithEntry(entries, upTo[i - 1], Pointer(pairs[i]))]

LEMMA MergedRuns ==
    ASSUME NEW entries, NEW kept, NEW pairs \in Seq(SecretPair)
    PROVE  \E upTo : /\ RunsTo(Len(pairs), upTo, entries, kept, pairs)
                     /\ Merged(entries, kept, pairs) = upTo[Len(pairs)]
<1>. DEFINE N == Len(pairs)
            T == {n \in 0..N : \E upTo : RunsTo(n, upTo, entries, kept, pairs)}
<1>1. N \in Nat
  BY LenProperties
<1>2. 0 \in T
  <2>. DEFINE upTo == [i \in 0..0 |-> kept]
  <2>1. RunsTo(0, upTo, entries, kept, pairs)
    BY DEF RunsTo
  <2>. HIDE DEF upTo, N
  <2>. QED  BY <1>1, <2>1
<1>3. ASSUME NEW n \in 1..N, n - 1 \in T PROVE n \in T
  <2>1. PICK before : RunsTo(n - 1, before, entries, kept, pairs)
    BY <1>3
  <2>. DEFINE upTo == [i \in 0..n |->
                         IF i = n THEN WithEntry(entries, before[n - 1], Pointer(pairs[n]))
                         ELSE before[i]]
  <2>2. \A i \in 0..(n - 1) :
            before[i] = IF i = 0 THEN kept
                        ELSE WithEntry(entries, before[i - 1], Pointer(pairs[i]))
    BY <2>1 DEF RunsTo
  <2>3. n \in Nat /\ n > 0
    BY <1>1
  <2>4. \A i \in 0..n : upTo[i] = IF i = 0 THEN kept
                        ELSE WithEntry(entries, upTo[i - 1], Pointer(pairs[i]))
    <3>. SUFFICES ASSUME NEW i \in 0..n
                  PROVE  upTo[i] = IF i = 0 THEN kept
                              ELSE WithEntry(entries, upTo[i - 1], Pointer(pairs[i]))
      OBVIOUS
    <3>1. CASE i = n
      <4>1. upTo[i] = WithEntry(entries, before[n - 1], Pointer(pairs[n])) /\ i # 0
        BY <2>3, <3>1
      <4>2. upTo[i - 1] = before[n - 1]
        BY <2>3, <3>1
      <4>. HIDE DEF upTo
      <4>. QED  BY <3>1, <4>1, <4>2
    <3>2. CASE i # n
      <4>1. i \in 0..(n - 1) /\ upTo[i] = before[i]
        BY <2>3, <3>2
      <4>2. i # 0 => upTo[i - 1] = before[i - 1]
        BY <2>3, <3>2
      <4>. HIDE DEF upTo
      <4>. QED  BY <2>2, <4>1, <4>2
    <3>. QED  BY <3>1, <3>2
  <2>5. RunsTo(n, upTo, entries, kept, pairs)
    <3>1. upTo = [i \in 0..n |-> upTo[i]]
      OBVIOUS
    <3>. HIDE DEF upTo
    <3>. QED  BY <2>4, <3>1 DEF RunsTo
  <2>. HIDE DEF upTo, N
  <2>. QED  BY <1>1, <2>5
<1>4. T = 0..N
  <2>. HIDE DEF T, N
  <2>1. T \in SUBSET (0..N)
    BY DEF T
  <2>. QED  BY <1>1, <1>2, <1>3, <2>1, UpToEach
<1>5. \E upTo : RunsTo(N, upTo, entries, kept, pairs)
  BY <1>1, <1>4
<1>. QED  BY <1>5 DEF RunsTo, Merged

\* The merged entries are readable again, hold those that were kept, and have one for
\* each pair of the request.
LEMMA MergedKeeps ==
    ASSUME NEW entries, IsFiniteSet(entries), NEW kept, Readable(kept),
           NEW pairs \in Seq(SecretPair)
    PROVE  /\ Readable(Merged(entries, kept, pairs))
           /\ kept \subseteq Merged(entries, kept, pairs)
           /\ \A i \in DOMAIN pairs :
                 Pointer(pairs[i]) \in Pointers(Merged(entries, kept, pairs))
<1>. DEFINE N == Len(pairs)
<1>1. PICK upTo : /\ RunsTo(N, upTo, entries, kept, pairs)
                  /\ Merged(entries, kept, pairs) = upTo[N]
  BY MergedRuns
<1>. DEFINE Holds(i) == /\ Readable(upTo[i]) /\ kept \subseteq upTo[i]
                        /\ \A j \in 1..i : Pointer(pairs[j]) \in Pointers(upTo[i])
            T == {i \in 0..N : Holds(i)}
<1>2. N \in Nat /\ DOMAIN pairs = 1..N
  BY LenProperties
<1>3. /\ upTo[0] = kept
      /\ \A i \in 1..N : upTo[i] = WithEntry(entries, upTo[i - 1], Pointer(pairs[i]))
  <2>1. \A i \in 0..N : upTo[i] = IF i = 0 THEN kept
                                 ELSE WithEntry(entries, upTo[i - 1], Pointer(pairs[i]))
    <3>. HIDE DEF N
    <3>. QED  BY <1>1 DEF RunsTo
  <2>2. 0 \in 0..N /\ \A i \in 1..N : i \in 0..N /\ i # 0
    BY <1>2
  <2>. HIDE DEF N
  <2>. QED  BY <2>1, <2>2
<1>4. \A i \in 1..N : Pointer(pairs[i]).name \in Dashed /\ Pointer(pairs[i]).key \in Dashed
  <2>. SUFFICES ASSUME NEW i \in 1..N
                PROVE  Pointer(pairs[i]).name \in Dashed /\ Pointer(pairs[i]).key \in Dashed
    OBVIOUS
  <2>1. pairs[i] \in SecretPair
    BY <1>2, ElementOfSeq
  <2>2. Names \subseteq Dashed
    <3>1. \A k \in DOMAIN SortedNames : SortedNames[k] \in Dashed
      BY SecretAssumption, ElementOfSeq, LenProperties
    <3>. QED  BY <3>1 DEF Names
  <2>. QED  BY <2>1, <2>2 DEF SecretPair, Pointer
<1>5. 0 \in T
  BY <1>2, <1>3
<1>6. ASSUME NEW i \in 1..N, i - 1 \in T PROVE i \in T
  <2>. DEFINE p == Pointer(pairs[i])
              before == upTo[i - 1]
              after == upTo[i]
  <2>1. /\ Readable(before) /\ kept \subseteq before
        /\ \A j \in 1..(i - 1) : Pointer(pairs[j]) \in Pointers(before)
    BY <1>6
  <2>2. after = WithEntry(entries, before, p)
    BY <1>3
  <2>3. p.name \in Dashed /\ p.key \in Dashed
    BY <1>4
  <2>. HIDE DEF before, after, p
  <2>4. Readable(after) /\ before \subseteq after /\ p \in Pointers(after)
    BY <2>1, <2>2, <2>3, WithEntryKeeps
  <2>5. \A j \in 1..i : j = i \/ j \in 1..(i - 1)
    BY <1>2
  <2>6. \A j \in 1..i : Pointer(pairs[j]) \in Pointers(after)
    <3>1. Pointers(before) \subseteq Pointers(after)
      BY <2>4 DEF Pointers
    <3>. QED  BY <2>1, <2>4, <2>5, <3>1 DEF p
  <2>7. Holds(i)
    BY <2>1, <2>4, <2>6 DEF after
  <2>8. i \in 0..N
    BY <1>2
  <2>. HIDE DEF Holds
  <2>. QED  BY <2>7, <2>8
<1>7. T = 0..N
  <2>. HIDE DEF N, Holds
  <2>1. T \in SUBSET (0..N)
    OBVIOUS
  <2>. HIDE DEF T
  <2>. QED  BY <1>2, <1>5, <1>6, <2>1, UpToEach
<1>8. N \in T
  <2>. HIDE DEF T
  <2>. QED  BY <1>2, <1>7
<1>. HIDE DEF N
<1>. QED  BY <1>1, <1>2, <1>8

\* Of a file with one id for each secret, all entries are kept.
LEMMA AllAreKept ==
    ASSUME NEW entries, IsFiniteSet(entries), OneIdEach(entries),
           NEW kept \in OnePerPointer(entries)
    PROVE  kept = entries
BY FS_Subset DEF OneIdEach, OnePerPointer

LEMMA KeptAreReadable ==
    ASSUME NEW entries, Readable(entries), NEW kept \in OnePerPointer(entries)
    PROVE  Readable(kept)
BY FS_Subset DEF Readable, IdsDiffer, OnePerPointer

(***************************************************************************)
(* The branch never holds a secrets.yaml that does not parse, and what a   *)
(* write is about to push goes beyond the branch that it was built from.   *)
(***************************************************************************)
ContentOK(c) == c = Content(c.entries, c.manifests) /\ Readable(c.entries)

\* What a write has built, as long as nobody else has pushed.
ExtendsBranch(w) ==
    w.base = revision /\ OneIdEach(branch.entries) =>
        branch.entries \subseteq w.content.entries

Builds(w) ==
    /\ w.pairs \in Seq(SecretPair)
    /\ w.attempt \in 1..MaxAttempts
    /\ w.failed \in BOOLEAN
    /\ w.base \in Nat /\ w.base <= revision
    /\ w.restored # Nothing_ => ContentOK(w.restored)
    /\ w.stage = "push" => ContentOK(w.content)
    /\ w.stage = "push" /\ w.restored = Nothing_ =>
          /\ ExtendsBranch(w)
          /\ \A i \in DOMAIN w.pairs : Pointer(w.pairs[i]) \in Pointers(w.content.entries)

EntriesInv ==
    /\ revision \in Nat
    /\ chances \in [SecretEvents -> Nat]
    /\ \A c \in past \cup {branch} : ContentOK(c)
    /\ write # Nothing_ => Builds(write)

LEMMA EntriesInitial == SecretInit => EntriesInv
<1>. SUFFICES ASSUME SecretInit PROVE EntriesInv
  OBVIOUS
<1>1. ContentOK(Content({}, NothingYet))
  BY FS_EmptySet DEF ContentOK, Content, Readable, IdsDiffer
<1>. QED  BY <1>1, SecretAssumption DEF SecretInit, EntriesInv

LEMMA ChancesKeep ==
    ASSUME chances \in [SecretEvents -> Nat], NEW e \in SecretEvents, Chance(e)
    PROVE  chances' \in [SecretEvents -> Nat]
BY DEF Chance

\* Builds does not look at what a step from the cluster, or to it, changes.
LEMMA StillBuilds ==
    ASSUME EntriesInv, chances' \in [SecretEvents -> Nat],
           UNCHANGED <<branch, revision, past>>,
           write' # Nothing_ => Builds(write)'
    PROVE  EntriesInv'
BY DEF EntriesInv

LEMMA BeginBuilds ==
    ASSUME EntriesInv, NEW pairs \in Seq(SecretPair), NEW restored, NEW manifests,
           restored # Nothing_ => ContentOK(restored),
           Begin(pairs, restored, manifests), UNCHANGED <<branch, revision, past>>,
           chances' \in [SecretEvents -> Nat]
    PROVE  EntriesInv'
<1>1. write' = [stage |-> "build", pairs |-> pairs, restored |-> restored,
                manifests |-> manifests, base |-> 0, content |-> branch,
                attempt |-> 1, todo |-> DOMAIN manifests, seen |-> 0, failed |-> FALSE]
  BY DEF Begin
<1>2. 1 \in 1..MaxAttempts
  BY SecretAssumption
<1>3. Builds(write)'
  BY <1>1, <1>2 DEF Builds, EntriesInv, ContentOK, Readable, IdsDiffer
<1>. QED  BY <1>3, StillBuilds

LEMMA BuildBuilds ==
    ASSUME SecretInv, EntriesInv, Build
    PROVE  EntriesInv'
<1>1. PICK kept \in OnePerPointer(branch.entries) :
          write' = [write EXCEPT
              !.stage = "push",
              !.base = revision,
              !.content =
                  IF write.restored # Nothing_ THEN write.restored
                  ELSE Content(Merged(branch.entries, kept, write.pairs),
                               Overwrite(branch.manifests, write.manifests))]
  BY DEF Build
<1>. DEFINE merged == Merged(branch.entries, kept, write.pairs)
            built == IF write.restored # Nothing_ THEN write.restored
                     ELSE Content(merged, Overwrite(branch.manifests, write.manifests))
<1>2. write # Nothing_ /\ WriteRecord(write) /\ Builds(write)
  BY DEF Build, SecretInv, WriteInv, WriteShape, EntriesInv
<1>3. Readable(branch.entries) /\ IsFiniteSet(branch.entries)
  BY DEF EntriesInv, ContentOK, Readable
<1>4. /\ Readable(merged) /\ kept \subseteq merged
      /\ \A i \in DOMAIN write.pairs : Pointer(write.pairs[i]) \in Pointers(merged)
  BY <1>2, <1>3, KeptAreReadable, MergedKeeps DEF Builds
<1>5. OneIdEach(branch.entries) => branch.entries \subseteq merged
  BY <1>3, <1>4, AllAreKept
<1>. HIDE DEF merged
<1>6. ContentOK(built)
  BY <1>2, <1>4 DEF Builds, ContentOK, Content
<1>7. write.restored = Nothing_ => built.entries = merged
  BY DEF Content
<1>8. write' = [write EXCEPT !.stage = "push", !.base = revision, !.content = built]
  BY <1>1 DEF merged
<1>. HIDE DEF built
<1>9. /\ write'.stage = "push" /\ write'.base = revision /\ write'.content = built
      /\ write'.restored = write.restored /\ write'.pairs = write.pairs
      /\ write'.attempt = write.attempt /\ write'.failed = write.failed
  BY <1>2, <1>8 DEF WriteRecord
<1>10. UNCHANGED <<branch, revision, past, chances>> /\ chances \in [SecretEvents -> Nat]
       /\ revision \in Nat
  BY DEF Build, EntriesInv
<1>11. Builds(write)'
  BY <1>2, <1>4, <1>5, <1>6, <1>7, <1>9, <1>10
     DEF Builds, ExtendsBranch, ContentOK, Readable, IdsDiffer
<1>. QED  BY <1>10, <1>11, StillBuilds

\* A push by anyone, with a write that has nothing to push any more or is behind.
LEMMA PublishKeeps ==
    ASSUME EntriesInv, NEW content, ContentOK(content), Publish(content),
           chances' \in [SecretEvents -> Nat],
           \/ write' = Nothing_
           \/ /\ write # Nothing_ /\ write' # Nothing_
              /\ UNCHANGED <<write.pairs, write.attempt, write.failed, write.base,
                             write.restored, write.content>>
              /\ write'.stage = "push" => write.stage = "push"
    PROVE  EntriesInv'
<1>1. /\ branch' = content /\ revision' = revision + 1 /\ past' = past \cup {content}
      /\ revision \in Nat
  BY DEF Publish, EntriesInv
<1>2. \A c \in past' \cup {branch'} : ContentOK(c)
  BY <1>1 DEF EntriesInv
<1>3. ASSUME write' # Nothing_ PROVE Builds(write)'
  <2>1. Builds(write)
    BY <1>3 DEF EntriesInv
  <2>2. /\ write'.pairs = write.pairs /\ write'.attempt = write.attempt
        /\ write'.failed = write.failed /\ write'.base = write.base
        /\ write'.restored = write.restored /\ write'.content = write.content
        /\ write'.stage = "push" => write.stage = "push"
    BY <1>3
  <2>3. write'.base <= revision' /\ write'.base # revision'
    BY <1>1, <2>1, <2>2 DEF Builds
  <2>. QED  BY <1>1, <2>1, <2>2, <2>3
            DEF Builds, ExtendsBranch, ContentOK, Readable, IdsDiffer
<1>4. revision' \in Nat
  BY <1>1
<1>. QED  BY <1>2, <1>3, <1>4 DEF EntriesInv, ContentOK, Readable, IdsDiffer

LEMMA PushBuilds ==
    ASSUME SecretInv, EntriesInv, PushAccepted \/ PushRejected \/ PushFails
    PROVE  EntriesInv'
<1>1. /\ write # Nothing_ /\ write.stage = "push" /\ WriteRecord(write) /\ Builds(write)
      /\ ContentOK(write.content)
      /\ chances \in [SecretEvents -> Nat]
  BY DEF PushAccepted, PushRejected, PushFails, SecretInv, WriteInv, WriteShape, EntriesInv,
         Builds
<1>2. CASE PushAccepted
  <2>1. write' = [write EXCEPT !.stage = Next_] /\ Next_ \in {"reload", "get"}
    BY <1>2 DEF PushAccepted, Next_
  <2>2. /\ UNCHANGED <<write.pairs, write.attempt, write.failed, write.base,
                       write.restored, write.content>>
        /\ write'.stage = "push" => write.stage = "push"
    BY <1>1, <2>1 DEF WriteRecord
  <2>3. CASE write' = Nothing_
    BY <1>1, <1>2, <2>3, PublishKeeps DEF PushAccepted
  <2>4. CASE write' # Nothing_
    BY <1>1, <1>2, <2>2, <2>4, PublishKeeps DEF PushAccepted
  <2>. QED  BY <2>3, <2>4
<1>3. CASE PushRejected
  <2>1. UNCHANGED <<branch, revision, past, chances>>
    BY <1>3 DEF PushRejected
  <2>2. CASE write' = Nothing_
    BY <1>1, <2>1, <2>2, StillBuilds
  <2>3. CASE write' # Nothing_
    <3>1. /\ write' = [write EXCEPT !.stage = "build", !.attempt = @ + 1]
          /\ write.attempt < MaxAttempts
      BY <1>3, <2>3 DEF PushRejected
    <3>2. /\ write'.stage = "build" /\ write'.attempt = write.attempt + 1
          /\ write'.base = write.base /\ write'.restored = write.restored
          /\ write'.pairs = write.pairs /\ write'.failed = write.failed
      BY <1>1, <3>1 DEF WriteRecord
    <3>3. write'.attempt \in 1..MaxAttempts
      BY <1>1, <3>1, <3>2, SecretAssumption DEF Builds
    <3>4. Builds(write)'
      BY <1>1, <2>1, <3>2, <3>3 DEF Builds, ContentOK, Readable, IdsDiffer
    <3>. QED  BY <1>1, <2>1, <3>4, StillBuilds
  <2>. QED  BY <2>2, <2>3
<1>4. CASE PushFails
  <2>1. write' = Nothing_ /\ chances' \in [SecretEvents -> Nat]
    <3>1. Chance("net") /\ "net" \in SecretEvents
      BY <1>4 DEF PushFails, SecretEvents
    <3>. QED  BY <1>1, <1>4, <3>1, ChancesKeep DEF PushFails
  <2>2. CASE Publish(write.content)
    BY <1>1, <2>1, <2>2, PublishKeeps
  <2>3. CASE UNCHANGED <<branch, revision, past>>
    BY <2>1, <2>3, StillBuilds
  <2>. QED  BY <1>4, <2>2, <2>3 DEF PushFails
<1>. QED  BY <1>2, <1>3, <1>4

\* To the cluster and back: what has been built is not looked at any more.
LEMMA ApplyBuilds ==
    ASSUME SecretInv, EntriesInv, NEW n \in Names,
           GetSealed(n) \/ PutSealed(n) \/ ApplyFails(n)
    PROVE  EntriesInv'
<1>1. /\ write # Nothing_ /\ write.stage # "push" /\ WriteRecord(write) /\ Builds(write)
      /\ UNCHANGED <<branch, revision, past>>
  BY DEF GetSealed, PutSealed, ApplyFails, Working, SecretInv, WriteInv, WriteShape, EntriesInv
<1>2. chances' \in [SecretEvents -> Nat]
  <2>1. "api" \in SecretEvents /\ chances \in [SecretEvents -> Nat]
    BY DEF SecretEvents, EntriesInv
  <2>. QED  BY <2>1, ChancesKeep DEF GetSealed, PutSealed, ApplyFails
<1>3. ASSUME NEW w, w.stage # "push", w.failed \in BOOLEAN,
             w.base = write.base, w.restored = write.restored,
             w.pairs = write.pairs, w.attempt = write.attempt, write' = w
      PROVE  EntriesInv'
  <2>1. Builds(write)'
    BY <1>1, <1>3 DEF Builds, ContentOK, Readable, IdsDiffer
  <2>. QED  BY <1>1, <1>2, <2>1, StillBuilds
<1>4. CASE GetSealed(n)
  <2>1. write' = [write EXCEPT !.stage = "put", !.seen = objects[n].rv]
    BY <1>4 DEF GetSealed
  <2>2. /\ write'.stage # "push" /\ write'.failed \in BOOLEAN
        /\ write'.base = write.base /\ write'.restored = write.restored
        /\ write'.pairs = write.pairs /\ write'.attempt = write.attempt
    BY <1>1, <2>1 DEF WriteRecord, Builds
  <2>. QED  BY <1>3, <2>2
<1>5. ASSUME NEW failed \in BOOLEAN, Done(n, failed) PROVE EntriesInv'
  <2>. DEFINE stage == IF write.todo = {n} THEN "reload" ELSE "get"
  <2>1. stage # "push"
    OBVIOUS
  <2>2. write' = [write EXCEPT !.stage = stage, !.todo = @ \ {n}, !.seen = 0,
                               !.failed = failed]
    BY <1>5 DEF Done
  <2>. HIDE DEF stage
  <2>3. /\ write'.stage = stage /\ write'.failed = failed
        /\ write'.base = write.base /\ write'.restored = write.restored
        /\ write'.pairs = write.pairs /\ write'.attempt = write.attempt
    BY <1>1, <2>2 DEF WriteRecord
  <2>. QED  BY <1>3, <2>1, <2>3
<1>6. CASE PutSealed(n) \/ ApplyFails(n)
  <2>1. Done(n, write.failed) \/ Done(n, TRUE) \/ Done(n, FALSE)
    BY <1>6 DEF PutSealed, ApplyFails
  <2>2. write.failed \in BOOLEAN
    BY <1>1 DEF Builds
  <2>. QED  BY <1>5, <2>1, <2>2
<1>. QED  BY <1>4, <1>6

LEMMA OthersBuild ==
    ASSUME EntriesInv, OthersPush
    PROVE  EntriesInv'
<1>1. PICK e \in OutsideEntries :
          /\ e.id \notin Ids(branch.entries)
          /\ Publish([branch EXCEPT !.entries = @ \cup {e}])
  BY DEF OthersPush
<1>. DEFINE more == [branch EXCEPT !.entries = @ \cup {e}]
<1>2. ContentOK(branch)
  BY DEF EntriesInv
<1>3. more = Content(branch.entries \cup {e}, branch.manifests)
  BY <1>2 DEF ContentOK, Content
<1>4. Readable(branch.entries \cup {e})
  BY <1>1, <1>2, FS_AddElement DEF ContentOK, Readable, IdsDiffer, Ids
<1>5. Publish(more)
  BY <1>1
<1>. HIDE DEF more
<1>6. ContentOK(more)
  BY <1>3, <1>4 DEF ContentOK, Content
<1>7. chances' \in [SecretEvents -> Nat] /\ write' = write
  <2>1. "outside" \in SecretEvents /\ chances \in [SecretEvents -> Nat]
    BY DEF SecretEvents, EntriesInv
  <2>. QED  BY <2>1, ChancesKeep DEF OthersPush
<1>8. CASE write = Nothing_
  BY <1>5, <1>6, <1>7, <1>8, PublishKeeps
<1>9. CASE write # Nothing_
  BY <1>5, <1>6, <1>7, <1>9, PublishKeeps
<1>. QED  BY <1>8, <1>9

\* Steps after which the branch is where it was, and the write too or over.
LEMMA RestBuilds ==
    ASSUME EntriesInv, UNCHANGED <<branch, revision, past>>,
           write' = write \/ write' = Nothing_, chances' \in [SecretEvents -> Nat]
    PROVE  EntriesInv'
<1>1. ASSUME write' # Nothing_ PROVE Builds(write)'
  BY <1>1 DEF EntriesInv, Builds, ExtendsBranch, ContentOK, Readable, IdsDiffer
<1>. QED  BY <1>1, StillBuilds

LEMMA EntriesKeep == SecretInv /\ EntriesInv /\ [VolumeNext]_allSecretVars => EntriesInv'
<1>. SUFFICES ASSUME SecretInv, EntriesInv, [VolumeNext]_allSecretVars
              PROVE  EntriesInv'
  OBVIOUS
<1>1. /\ chances \in [SecretEvents -> Nat]
      /\ \A e \in SecretEvents : Chance(e) => chances' \in [SecretEvents -> Nat]
  BY ChancesKeep DEF EntriesInv
<1>2. ASSUME NEW pairs \in SecretRequests, BeginSecretWrite(pairs) PROVE EntriesInv'
  <2>1. pairs \in Seq(SecretPair)
    BY SecretAssumption
  <2>2. Chance("write") /\ "write" \in SecretEvents /\ UNCHANGED <<branch, revision, past>>
    BY <1>2 DEF BeginSecretWrite, SecretEvents
  <2>. QED  BY <1>1, <1>2, <2>1, <2>2, BeginBuilds DEF BeginSecretWrite
<1>3. ASSUME NEW target \in past, BeginSecretRevert(target) PROVE EntriesInv'
  <2>1. <<>> \in Seq(SecretPair) /\ ContentOK(target)
    BY EmptySeq DEF EntriesInv
  <2>2. /\ Chance("revert") /\ "revert" \in SecretEvents
        /\ UNCHANGED <<branch, revision, past>>
    BY <1>3 DEF BeginSecretRevert, SecretEvents
  <2>. QED  BY <1>1, <1>3, <2>1, <2>2, BeginBuilds DEF BeginSecretRevert
<1>4. ASSUME AnswerWrite \/ SecretRefresh \/ ObjectTouched \/ SecretCrash
             \/ UNCHANGED secretVars
      PROVE  EntriesInv'
  <2>1. {"disk", "touch", "crash"} \subseteq SecretEvents
    BY DEF SecretEvents
  <2>2. /\ UNCHANGED <<branch, revision, past>> /\ (write' = write \/ write' = Nothing_)
        /\ chances' = chances \/ Chance("disk") \/ Chance("touch") \/ Chance("crash")
    BY <1>4 DEF AnswerWrite, SecretRefresh, ObjectTouched, SecretCrash, secretVars
  <2>. QED  BY <1>1, <2>1, <2>2, RestBuilds
<1>5. ASSUME NEW n \in Names, Mount(n) PROVE EntriesInv'
  <2>1. Chance("mount") /\ "mount" \in SecretEvents /\ UNCHANGED <<branch, revision, write, past>>
    BY <1>5 DEF Mount, SecretEvents
  <2>. QED  BY <1>1, <2>1, RestBuilds
<1>6. ASSUME NEW c \in Clients,
             BeginResolve(c) \/ ReadMounted(c) \/ CacheRead(c) \/ AnswerResolved(c)
      PROVE  EntriesInv'
  <2>1. /\ "resolve" \in SecretEvents /\ UNCHANGED <<branch, revision, write, past>>
        /\ chances' = chances \/ Chance("resolve")
    BY <1>6 DEF BeginResolve, ReadMounted, CacheRead, AnswerResolved, secretVars, SecretEvents
  <2>. QED  BY <1>1, <2>1, RestBuilds
<1>7. CASE WriteStep
  BY <1>4, <1>7, BuildBuilds, PushBuilds, ApplyBuilds DEF WriteStep
<1>. QED  BY <1>2, <1>3, <1>4, <1>5, <1>6, <1>7, OthersBuild
          DEF VolumeNext, SecretNext, ServerCrash, allSecretVars

\* Types, and that secrets.yaml parses, at every commit: no two of its entries have
\* one id, whoever added them and whatever the ids are put together from.
THEOREM SecretTypeCorrect == VolumeSpec => []SecretTypeOK
<1>1. ASSUME SecretInv, EntriesInv PROVE SecretTypeOK
  <2>1. \A c \in past \cup {branch} : Cardinality(Ids(c.entries)) = Cardinality(c.entries)
    BY <1>1, IdsFinite DEF EntriesInv, ContentOK, Readable
  <2>2. write # Nothing_ => WriteShape(write) /\ Builds(write)
    BY <1>1 DEF SecretInv, WriteInv, EntriesInv
  <2>. QED  BY <1>1, <2>1, <2>2 DEF SecretTypeOK, EntriesInv, WriteShape, Builds
<1>. QED  BY SecretInitial, SecretsKeep, EntriesInitial, EntriesKeep, <1>1, PTL DEF VolumeSpec

\* A write that the remote accepts has taken away and renamed no entry, also none that
\* others pushed while it was tried; ids differ, and each secret it wrote has its entry
\* (mergeSecretEntries, within CommitAndPushFunc's retries).
THEOREM EntriesSurvive == VolumeSpec => EntriesAreKept
<1>. DEFINE Kept == PushAccepted /\ write.restored = Nothing_ =>
          /\ OneIdEach(branch.entries) => branch.entries \subseteq branch'.entries
          /\ Cardinality(Ids(branch'.entries)) = Cardinality(branch'.entries)
          /\ \A i \in DOMAIN write.pairs :
                Pointer(write.pairs[i]) \in Pointers(branch'.entries)
<1>1. EntriesInv => Kept
  <2>. SUFFICES ASSUME EntriesInv, PushAccepted, write.restored = Nothing_
                PROVE  Kept
    OBVIOUS
  <2>1. /\ branch' = write.content /\ Builds(write)
        /\ write.stage = "push" /\ write.base = revision
    BY DEF PushAccepted, Publish, EntriesInv
  <2>2. /\ ContentOK(write.content) /\ ExtendsBranch(write)
        /\ \A i \in DOMAIN write.pairs :
              Pointer(write.pairs[i]) \in Pointers(write.content.entries)
    BY <2>1 DEF Builds
  <2>3. Cardinality(Ids(write.content.entries)) = Cardinality(write.content.entries)
    BY <2>2, IdsFinite DEF ContentOK, Readable
  <2>. QED  BY <2>1, <2>2, <2>3 DEF ExtendsBranch
<1>2. EntriesInv /\ [VolumeNext]_allSecretVars => [Kept]_secretVars
  BY <1>1
<1>. HIDE DEF Kept
<1>3. VolumeSpec => [][Kept]_secretVars
  BY SecretInitial, SecretsKeep, EntriesInitial, EntriesKeep, <1>2, PTL DEF VolumeSpec
<1>. QED  BY <1>3 DEF EntriesAreKept, Kept

=============================================================================
