---------------------------- MODULE SecretVolume ----------------------------
(***************************************************************************)
(* Plaintext on its way back (internal/secret/volume.go, and               *)
(* resolveEnvSecrets of internal/handler): a request for env vars takes    *)
(* one snapshot, looks up the ids that env_vars.yaml refers to, and reads  *)
(* each mounted file.  The volume reader keeps a cache, filled after the   *)
(* file is read and without a lock in between; requests run concurrently.  *)
(* That the controller unseals a SealedSecret and the kubelet projects the *)
(* Secret is external: at some time all keys of a Secret change at once.   *)
(***************************************************************************)
EXTENDS SecretWrite

CONSTANTS
    Clients,      \* concurrent requests with resolve_secrets
    SecretRefs    \* the ids that the service's env_vars.yaml refers to

VARIABLES
    mounted,      \* the files of each Secret's volume
    cache,        \* of the FileVolumeReader
    resolving     \* the requests: what they have read, and what they could have

volumeVars == <<mounted, cache, resolving>>
allSecretVars == <<secretVars, volumeVars>>

FileIn(files, p) ==
    IF p.name \in Names /\ files[p.name] # Nothing_ /\ p.key \in DOMAIN files[p.name]
    THEN files[p.name][p.key] ELSE Nothing_

FileOf(p) == FileIn(mounted, p)

VolumeInit ==
    /\ mounted = NothingYet
    /\ cache = <<>>
    /\ resolving = [c \in Clients |-> Nothing_]

\* The controller and the kubelet.  The files that requests could find grow with it.
Mount(n) ==
    /\ Chance("mount")
    /\ objects[n].rv # 0 /\ mounted[n] # objects[n].manifest
    /\ mounted' = [mounted EXCEPT ![n] = objects[n].manifest]
    /\ resolving' = [c \in Clients |->
           IF resolving[c] = Nothing_ THEN Nothing_
           ELSE [resolving[c] EXCEPT !.could =
                   [id \in SecretRefs |->
                       IF resolving[c].entry[id].name # n THEN @[id]
                       ELSE @[id] \cup {FileIn(mounted', resolving[c].entry[id])}]]]
    /\ UNCHANGED <<branch, revision, loaded, write, objects, past, promised, cache>>

\* The entries come from the snapshot that the env vars come from.  One unknown id,
\* and the request is answered with an error.
BeginResolve(c) ==
    /\ resolving[c] = Nothing_
    /\ Chance("resolve")
    /\ SecretRefs \subseteq Ids(loaded.entries)
    /\ LET entry == [id \in SecretRefs |->
                       (CHOOSE e \in loaded.entries : e.id = id).pointer]
       IN  resolving' = [resolving EXCEPT ![c] =
               [entry |-> entry, got |-> <<>>, read |-> Nothing_,
                could |-> [id \in SecretRefs |-> {FileOf(entry[id])}]]]
    /\ UNCHANGED <<branch, revision, loaded, write, objects, past, promised,
                   mounted, cache>>

Unread(c) == SecretRefs \ DOMAIN resolving[c].got

Reads(c, id, value) ==
    resolving' = [resolving EXCEPT ![c].read = [id |-> id, value |-> value]]

\* Slip: Read in place of Refresh, which asks the cache first.
ReadCached(c) ==
    /\ resolving[c] # Nothing_ /\ resolving[c].read = Nothing_
    /\ \E id \in Unread(c) :
          LET p == resolving[c].entry[id]
          IN  IF p \in DOMAIN cache THEN Reads(c, id, cache[p])
              ELSE IF FileOf(p) = Nothing_
              THEN resolving' = [resolving EXCEPT ![c] = Nothing_]
              ELSE Reads(c, id, FileOf(p))
    /\ UNCHANGED <<secretVars, mounted, cache>>

\* Refresh, up to os.ReadFile, for the refs in any order.  A missing file is an error.
ReadMounted(c) ==
    /\ resolving[c] # Nothing_ /\ resolving[c].read = Nothing_
    /\ \E id \in Unread(c) :
          LET p == resolving[c].entry[id]
          IN  IF FileOf(p) = Nothing_
              THEN resolving' = [resolving EXCEPT ![c] = Nothing_]
              ELSE Reads(c, id, FileOf(p))
    /\ UNCHANGED <<secretVars, mounted, cache>>

\* Refresh, under the lock: what was read goes to the cache and to the caller.
CacheRead(c) ==
    /\ resolving[c] # Nothing_ /\ resolving[c].read # Nothing_
    /\ LET id == resolving[c].read.id
           p  == resolving[c].entry[id]
           v  == resolving[c].read.value
       IN  /\ cache' = [q \in DOMAIN cache \cup {p} |-> IF q = p THEN v ELSE cache[q]]
           /\ resolving' = [resolving EXCEPT
                  ![c].read = Nothing_,
                  ![c].got = [i \in DOMAIN @ \cup {id} |-> IF i = id THEN v ELSE @[i]]]
    /\ UNCHANGED <<secretVars, mounted>>

AnswerResolved(c) ==
    /\ resolving[c] # Nothing_ /\ Unread(c) = {}
    /\ resolving' = [resolving EXCEPT ![c] = Nothing_]
    /\ UNCHANGED <<secretVars, mounted, cache>>

\* With the process go its requests and its cache.
ServerCrash ==
    /\ SecretCrash
    /\ cache' = <<>>
    /\ resolving' = [c \in Clients |-> Nothing_]
    /\ UNCHANGED mounted

VolumeNext ==
    \/ SecretNext /\ UNCHANGED volumeVars
    \/ ServerCrash
    \/ \E n \in Names : Mount(n)
    \/ \E c \in Clients :
          BeginResolve(c) \/ ReadMounted(c) \/ CacheRead(c) \/ AnswerResolved(c)

VolumeSpec == SecretInit /\ VolumeInit /\ [][VolumeNext]_allSecretVars

(***************************************************************************)
(* What should be true.                                                    *)
(***************************************************************************)
\* Each value given to a request was in its file at some moment of that request,
\* whatever others put into the cache meanwhile (Refresh hands out what it has read,
\* and the handler never asks Read).
ResolvedIsFresh ==
    \A c \in Clients : resolving[c] # Nothing_ =>
        \A id \in DOMAIN resolving[c].got :
            resolving[c].got[id] \in resolving[c].could[id]

=============================================================================
