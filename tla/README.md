# A TLA+ development of aap-config-server

The config server keeps services' configuration in a Git repository, serves it
over HTTP from memory, and writes to it by committing and pushing. An agent
beside each workload fetches what concerns it and applies it to Kubernetes.

This directory holds TLA+ models of the parts whose correctness depends on the
order in which things happen, TLC configurations that check them on small
instances, and theorems that TLAPS proves for every instance. `PROJECT.json`
maps every definition to the source lines that it stands for.

    tlasany ConfigStore.tla
    tlc -workers 2 -config MCConfigStore_network.cfg MCConfigStore
    tlapm ConfigStoreSafety_proofs.tla

## 1. The system

| Component (source) | State | Operations | Talks to |
|---|---|---|---|
| Git access `internal/gitops/repo.go` | the clone: HEAD, index, worktree; `Repo.mu` | CloneOrOpen, Pull, Snapshot, CommitAndPushFunc, DeleteAndPush, RestoreServiceFilesAndPush, history and reads at a commit | the remote branch, which others push to |
| Store `internal/store/store.go` | an atomic pointer to an immutable snapshot, `lastReload`, `Store.mu`, the channel of the watchers | LoadFromRepo, RefreshFromRepo (poll, Git webhook), ReloadFromRepo (operator), ApplyChanges, DeleteChanges, ApplyRevert, reads, WaitForVersionChange | Git access, secret applier |
| Handlers `internal/handler` | none of their own (rate limiter aside) | reads and watches that look at the store several times; admin writes | store, registry, secrets |
| Secrets `internal/secret` | cache of mounted files; manifests in the cluster | seal, apply, mounted-volume refresh (read, forget and watch have no caller) | kubelet-written files, Kubernetes API |
| App registry `internal/registry` | apps, event watermarks and tombstones | Replace (bootstrap), Upsert and Delete (webhook), Status | the console |
| Agent `internal/agent` | last handled state, backoff; of the debouncer: pending batch, cooldown | fetch loop, debounce, apply ConfigMap then Secret, rollout | the server's HTTP API, Kubernetes API |
| Parser `internal/parser` | none | parse and validate YAML | store |
| Life cycle `internal/server`, `cmd/config-server` | ready or not | start, serve, poll loop, shutdown | all |

### What is hard in it, and what makes it correct

**Git access and store.** A write is pull, edit, stage, commit, push; it is undone
and tried again when the remote has moved. Another committer, the network, the local disk
or the end of the process may intervene between any two steps, and what a failed
step leaves in the clone is what the next operation starts from. Polls, forced reloads
and writes hold two mutexes for different stretches. Correct is: what is served is
one commit's tree, all of it; that commit is on the remote; a version answered to a
client is on the remote, holds what was asked for and is served; commits change what their requests name and
nothing else; readers never go back; and the server arrives at the remote's head
when it can.

**Resource versions and watches.** A client holds a token and waits for it to become
stale. Tokens are computed from the last snapshot only, and a handler looks at several
snapshots in one request. Correct is: a token stands for one payload, and a watcher
is told of every change in the end.

**Revert.** Planned from the serving snapshot and carried out on HEAD. Correct is: the
service's files are the target's afterwards, or nothing has been done; and "nothing to do"
is not concluded from a stale snapshot.

**Secret writes.** Metadata goes through Git with retries, manifests to the cluster
after the commit. Correct is: IDs are unique and stable under the retries, nothing is applied
that is not on the branch, and a half-done write says so.

**Mounted secrets.** Requests read the same files concurrently and share a cache, while the
kubelet replaces them. Correct is: what a request is given was in the file while it ran.

**Inheritance.** Four levels are folded into one. Correct is: the last level that speaks of a
key decides, nested maps and nulls included.

**Registry.** Events are late, repeated and out of order, around tombstones that are
pruned and a bootstrap that replaces everything. Correct is: a stale event changes
nothing, and a cache that has loaded arrives at what the console has.

**Agent.** Two fetches that may straddle a reload, a debouncer with three timers, two
resources applied one after the other, pods rolled when both are there. Correct is: what is
applied converges to what is served, no pod is rolled onto half of it, and a recorded change
fires within its bounds, no sooner than a cooldown after the last.

`PROJECT.json` lists every component with its status, and every hazard at the line
where it bites, with the properties that would catch it.

## 2. The modules

    ServedHistory                what readers are promised (abstract)
      ^ implemented by                       ^ environment of
    ConfigStore -- EXTENDS --> GitRepo       VersionWatch (VersionWatch_proofs)
      ^           ^                             ^
      |         Revert <-- MCRevert          MCVersionWatch
    MCConfigStore
      Revert_proofs -> ConfigStoreServing_proofs -> ConfigStoreSafety_proofs -> ConfigStore_proofs

    MCRegistry, Registry_proofs -- EXTEND --> Registry

    MCDelivery --> MCSecrets --> SecretVolume --> SecretWrite      (Secret_proofs)
        |--> Agent   |--> Debouncer   |--> Inheritance             (all three: Delivery_proofs)

### GitRepo: the clone and the remote branch

A commit is its position in `made`, with its parent, its ancestors, its tree and the
request that made it; content is reduced to a value per file, some of which do not
parse. The clone is `local` (HEAD, 0 without a clone), `index` and `work`.

`Repo.mu` covers a whole method, so one edit at most is in progress: `phase`, `attempt`
and `request` are its program counter, retry counter and input. `Pull` and `Snapshot`
look at the remote once under the mutex and are one step. The steps of an edit are
the ones between which something else may happen:

| Action | Code |
|---|---|
| `BeginEdit`, `PreCommitPull` | entry, and the pull at the head of every attempt |
| `StageWrites`, `StageRemovals` | the content builder (may find `secrets.yaml` malformed), the loop that writes or removes and stages; it stops at the first error and leaves what it did, except that a removal that cannot be *staged* is only logged, as is one of a directory that is gone from the disk, whose files are not looked for in the index |
| `StageRestored` | RestoreServiceFilesAndPush: the target's files written, the service's others removed, all or an error |
| `CommitStaged` | nothing staged is a success with HEAD; otherwise a commit |
| `Push` | accepted, refused, or failed with its fate unknown |
| `UndoTerminal`, `UndoAndRetry` | `resetToParent`; its own failure (`ResetFails`) is logged, or ends the retry |
| `RepoCrash` | the process ends; each file of an edit under way is any of its old and new contents; or the volume is lost too |

What go-git does is external and taken from how the code calls it: a pull that finds
nothing new ignores a dirty worktree, one that fast-forwards moves HEAD before it
looks at it (`PullTorn`), and whether a hard reset removes untracked files depends on the
release, so `CheckOut` may do either. A hard reset, of a pull or of `resetToParent`, moves HEAD, then writes
the index, then the files, and may stop after each (`HalfCheckOut`), by a failing file
operation (`PullHalfDone`, `ResetFails`) or by a crash.

Two faults in the budget are about this and must be told apart. **`reset`**: the hard reset
after a failed push cannot begin; HEAD stays at the commit that was not pushed. **`disk`**: a local file
operation fails, in an edit, in a pull, or in a reset that has moved HEAD already. A half-done reset
does not leave the clone ahead of the remote, but leaves the rejected edit in the index or on the disk, where
the next edit may commit it, or the next pull stumble over it.

### ConfigStore: the store over it, and the process

`pc[p]` is the place of each goroutine: the main one (loads at start), writers,
refreshers (the poll loop among them), reloaders. `mu` is Store.mu, `snap` the pointer, `pend`
what a reload has read and not stored yet. `RefreshFromRepo` and `ReloadFromRepo` pull
without Store.mu and then wait for it. `ReadSnapshot`, `Swap` and `Settle` are the three
places of `reloadUnlocked` between which others look; `ReadFails` is fail-closed. `acked`
keeps the answers, for the properties.

### ServedHistory: what readers are promised

There are published versions, each after those before it; readers are shown the
content of one of them, then only of later ones; after a restart nothing, until it has
loaded. `ConfigStore!Serving` maps `published` to the remote's ancestry and
`served`, `view` to the snapshot.

### VersionWatch: tokens and long polls

`Source` is an instance of ServedHistory, so the module rests on exactly what ConfigStore is
shown to implement. `Reload` adds the tokens (`nextResourceVersion`, per resource) and leaves a
gap before `NotifyVersionChange` (`bell` counts closed channels). A request is walked look
by look: `ReadVersion` and `ReadInherited` are the two looks of `Handler.resourceVersion`,
`CheckVersion` and `WakeUp` the loop of `WaitForVersionChange`, `ReadData` and `ReadHead` the two
looks of the payload functions. Merging defaults is kept as the pair (own file, defaults),
which tells apart whatever the merge does.

### Registry: the app registry

The console is external: it sends an event for every change until it is answered, in any
order, and repeats one at most `MaxSkew` after the change. Time is counted in changes, so
that no two have the same `updated_at`. `LoadApps`, `LoadFails` and `Replace` are the bootstrap, which
`main` runs to its end before it serves; a failed one leaves an empty cache, "degraded".
`Deliver` is the webhook's handler with `Upsert` or `Delete`: `Pruned` forgets tombstones
that are older than the event by the retention, `Fresh` compares the event with the watermark and
with the registration, `Apply` takes it over. `UntimedKeys` are the apps that
the console lists without `updated_at`; `Replace` seeds no watermark for them. `seen` and `deleted` are
history, for the properties: what this process, or any, has been told of an app.

### Revert: back to a commit of the history

`BeginRevert` takes Store.mu and `PrepareRevert`'s decisions follow, each from the *serving*
snapshot: the target must be in the service's history (`ServiceHistory`, `Revertible`), and if
the snapshot's files are the target's already (`SameService`) there seems to be nothing to do.
Then `PullBeforeNoop` pulls, a reload runs if HEAD has moved (ConfigStore's own, `Others`), and the
plan is made again: `AnswerNoop`, or `PlanRestore`, which hands a restore to GitRepo's edit with its
retries, unless the target's manifests do not parse or nothing could apply them (`ManifestsRefused`). The answer
comes from ConfigStore's write path. `known` and `pulled` are history.

### SecretWrite: from plaintext to the cluster

One write or revert is a record (`write`) with a stage: `build` (pull, merge, `Merged` and
`Overwrite`), `push`, then for each manifest in name order `get` and `put`, then `reload`. Git is reduced to
a branch of whole contents that others may move (`OthersPush`); ConfigStore has the details. IDs
are sequences of name parts, words or numbers (`Dashed`), so that the collisions `a`/`b-k` and `a-b`/`k`
are the real ones, and so is an ID that looks like a numbered one. `WithEntry` is one turn of the merge's loop.
An object carries a resourceVersion, which the controller's status writes bump (`ObjectTouched`); a
`put` is a create or a conditional update, and its conflict is not tried again. `promised` is history: what
plain answers said is in the cluster.

### SecretVolume: and back

Requests with `resolve_secrets` take their entries from the snapshot (`BeginResolve`), read file by file
(`ReadMounted`) and put each into the shared cache under the lock (`CacheRead`). The kubelet's
switch of a volume (`Mount`) is external and may come between any two. `could` is history: what
the files have held while the request ran.

### Agent: the loop that applies

`FetchConfig` and `FetchEnvVars` are two requests; the second compares hashes with what was
handled last and either polls again or starts the handler: `Patch`, `Create` if there is no
object, `PatchAgain` if the create lost a race, for the ConfigMap and then the Secret,
then `Rollout`. `CallFails` may have taken effect; it backs off (`NextBackoff`) and fetches anew.
`AgentRestarts` forgets what was handled. The handler is put together as e2e_smoke_test.go does,
since no production code does it yet.

### Debouncer: when to roll

`RecordChange` is its four cases (`ApplyAtOnce`, `Batch`, `Coalesce`, `FlushAndRecord`), `Due` the timer,
`NextDueAt` the three bounds. Time is in whole units; the caller's timer may be `Late`, and the time reported
for a change may lag behind its arrival by `Lag`.

### Inheritance: four levels into one

`DeepMergeMap` and `MergeEnvVars` are the code's, as operators on functions; the properties say
what comes out without merging. Trees have two levels of keys.

### MCDelivery: one run for these

SecretVolume, Agent, Debouncer and Inheritance share no state. MCDelivery puts them side by side
and lets an initial state choose which one moves, so that their state spaces add up.

## 3. What the runs check

| Run | Expect | Instance | What it shows |
|---|---|---|---|
| `network` | pass | 2 files, 1 writer, 1 poller, 1 admin; 2 writes (one file, a file that must parse first, a delete of both), 2 outside pushes, 1 failed fetch, 1 failed push, 2 attempts | `AckedIsDurable`, `AckedIsServed`, `OwnFilesOnly`, `CheckoutClean`, `ServedForward`, `TypeOK`, and that the server implements ServedHistory |
| `faults` | pass | the same with 1 outside push, 1 failing file operation (of an edit, a pull or a reset), 1 reset that cannot begin, 1 crash | what survives everything (`SnapshotFaithful`, `PlainAnswerIsTrue`), and which fault each loss needs (`AcceptedUnlessCrashOrReset`, `MixedOnlyByDisk`) |
| `poll` | pass | Revert over the store: 1 write or revert, 2 outside pushes, malformed files, 1 failed fetch, 1 lost volume, 3 attempts, fairness | `RevertIsExact`, `NoopIsFresh`, `RevertTypeOK`; `CatchesUp` and `NotSilentlyStale` where no write fails after its pull |
| `stale` | violation | 1 write, 1 outside push, 1 failed push | a failed write leaves the snapshot behind HEAD for ever (finding 1) |
| `lostdelete` | violation | 2 identical deletes, 1 crash | a delete answered with a version that is never pushed (finding 2) |
| `watch` | pass | 1 client, both views of a resource, 3 versions out of 6 contents, 1 restart | `TokenIsLastChange`, `RawAnswerIsExact`, `AnswerIsOneSnapshot`, `BlockedIsCurrent`, `RawWatcherCatchesUp`, `TypeOK` |
| `defaultsgo` | violation | 2 versions, defaults removed | a watcher of the inherited view never hears of it (finding 3) |
| `torn` | violation | 2 versions, defaults changed | old data with the newest token (finding 4) |
| `registry` | pass | 2 apps, 1 of them listed without a time; 5 changes, retention and skew 2, 2 load attempts, 1 restart, fairness | `NewestWins`, `AnsweredIsCached`, `Converges`, `TypeOK` |
| `delivery` | pass | secrets: 2 Secrets, 2 writes that collide in their IDs, and one of three kinds of trouble (2 outside pushes, a lost push and a crash; a revert, a refused apply, a status write and a crash; 2 requests and 3 volume switches); agent: 2 configurations, 3 environments, 3 changes, failures, 1 restart, 1 competitor; debouncer: 16 instants; levels: all trees over one key and leaf | the fourteen properties of SecretWrite, SecretVolume, Agent, Debouncer and Inheritance |
| `lostkey` | violation | 2 writes of one Secret, key by key, nothing fails | an entry whose key the manifest no longer has (finding 6) |
| `resurrect` | violation | 2 apps, 4 changes, retention and skew 3, 1 restart | an older upsert brings a deleted app back after a restart (finding 5) |

### The properties

- `SnapshotFaithful`: the served data is the tree of the reported commit, and parses.
- `ServedIsAccepted` (a part of `AcceptedUnlessCrashOrReset`), `AckedIsPushed`, `IsCarriedOut`,
  `AckedIsDurable`, `AckedIsServed`: what is served or answered is on the remote, an answered version holds what was
  asked, and after a plain answer readers see it or a later version.
- `PlainAnswerIsTrue`: "committed" or "deleted", without the suffix about a failed
  reload, is never false. The interesting case is the removal that could not be
  staged: the reload then finds the worktree dirty and the answer gets its suffix.
- `AcceptedUnlessCrashOrReset`, `MixedOnlyByDisk`: the exact faults that the promises above
  do not survive. With a crash between commit and push, or a reset that cannot begin, the clone
  stays ahead of the remote and nothing in the code pushes or drops that commit. With a failed file operation, a
  half-done reset's included, what one edit has left behind goes into the commit of the next.
- `OwnFilesOnly`: no retry reverts others' work or repeats an earlier request's.
- `CheckoutClean`: between edits the checkout is HEAD.
- `ServedForward`: readers never go back, although a refresh pulls before and reloads
  after a write.
- `NotSilentlyStale`, `CatchesUp`: polling arrives at the head, or the store says that it
  is degraded.
- `TokenIsLastChange`: a token is the loaded version in which this file last changed, or in which the
  service came to be, and nothing else.
- `RawAnswerIsExact`: payload and token of a raw answer belong together, also across restarts.
- `AnswerIsOneSnapshot`: no answer mixes the file of one commit with the defaults of another.
- `BlockedIsCurrent`: a raw watcher that is blocked on a channel which nobody is about to close holds what
  is served; the safety half of the next.
- `RawWatcherCatchesUp`, `WatcherCatchesUp`: no lost wake-up and no unnoticed change.
- `NewestWins`: the cache holds the newest that the process was told of each app, although
  events are late, repeated and out of order, and tombstones are pruned by events of other apps.
- `AnsweredIsCached`: an app of which no event is outstanding is in the cache as the console has it. For a process
  after a restart it is said of apps that the list gives with their time: a deleted one may come back
  (finding 5), and so may an older state of one without a time.
- `Converges`: a process that has loaded the list arrives at what the console has, although the
  list may be older than events that were sent while it was read.
- `DeletedStaysDeleted`: a retry older than an acknowledged delete does not undo it.
- `RevertIsExact`: the version that a revert is answered with is on the remote and has the target's files of
  the service, no more and no fewer, whatever was pushed in between.
- `NoopIsFresh`: "nothing to restore" takes into account what the branch held when the revert began.
- `EntriesAreKept`: no retry drops or renames an entry, IDs stay unique whatever they are made of, and each secret written
  has one. A file that gives one key two IDs is excepted: the write keeps one of them.
- `OnlyCommittedApplied`, `AppliedAsAnswered`: what is in the cluster was on the branch first, and
  after an answer without `apply_failed` all of it is there.
- `EntriesHaveValues`: each entry points at a key that the Secret's manifest has.
- `ResolvedIsFresh`: a request is never given a value that its file had only before.
- `HandledIsRunning`, `RolloutSeesPayload`: what counts as handled runs, and pods are rolled onto whole pairs.
- `Converges` (of the agent): once the server's contents stay, the cluster runs them. Excepted is
  a change that is withdrawn after half of it was applied; see section 4.
- `DebounceTypeOK`, `AppliedInTime`, `AppliesApart`: pending exactly when a change waits, applied within the maximal wait,
  and a cooldown apart (less the lag of the reported times).
- `ConfigIsLastWord`, `EnvIsLastWord`: each key as the last level that speaks of it says.

Every property of a passing run has a mutant in `PROJECT.json`: a plausible slip in
the code, written as an operator beside the definition it replaces, under which TLC
finds that very property violated.

### The bounds

`Budget` caps each outside event and fault; each run spends the ones its question is
about. Two requests are the least for "what an earlier request left behind"; two
outside pushes reach the retry, the exhausted retry (two attempts) and a push between a pull
and its reload; two files tell a request's own file from another's, and a partly staged
request from a whole one. Faults of one kind do not wait for each other, so one of each
shows every pair of different faults; two of the same kind are beyond the runs (not beyond the theorems). One
writer is enough, since Store.mu is taken at the first step of a write and held to its
last. A third version lets a payload change and change back, or a service go and come back. One client is
enough, since clients do not affect each other or the store. For the registry, five
changes with a retention of two leave room for a deletion, an event of the other app that prunes
its tombstone, and an older event of the first app at the last moment that the skew permits.

For secrets, two Secrets whose names and keys collide in all three shapes of an ID; two outside pushes and
two attempts reach the exhausted retry; the three budgets keep apart troubles that do not touch each other's
state (racing writers, a refusing cluster, readers). For the agent, a third change lets the
contents go back to what was handled, or to a pair that never was served. For the debouncer, sixteen instants are three
cooldowns and a batch that lasts its maximal wait. For the levels, four of them with
every combination of absent, null, scalar and map show every pair of neighbours and what lies between.

### Fairness

`ConfigStore!Fairness`: a method that has started runs on; the process is started
again after it exits (its deployment); the ticker of `pollLoop` goes on; and Store.mu is
taken by a goroutine that keeps waiting for it (strong, as Go's mutex hands itself over to
a waiter after a millisecond). Nobody is obliged to write, push or reload.

`VersionWatch!Fairness`: the notification after a swap comes, a client that has an answer
watches, and a request goes on; strong for the handler's steps, because a client that disconnects
again and again before the first look would otherwise excuse everything. `Timeout` has no
fairness: `RawWatcherCatchesUp` does not lean on the 30 s deadline. Nor does
loading: publishing and reloading may stop at any time.

`Revert!RevertFairness` is ConfigStore's, and a revert that has begun runs on.

`Agent!AgentFairness`: the loop runs on, since each of its waits is a timer and each of its calls has a
deadline; what the server serves and when calls fail is up to the environment, a bounded number of times.

`Registry!Fairness`: the bootstrap comes to its end (its attempts are bounded and each has
a time limit), and the console re-sends an event until it is answered. That it does not do so for
longer than the retention is what cache.go itself says of the console ("webhook delivery skew
should never approach this value"); `RegistryAssumption` states it.

## 4. Findings

1. **A write that fails after its pull leaves the store stale** (`stale`). `ApplyChanges` returns
   without a reload although its pull has moved HEAD; `RefreshFromRepo` reloads only when its own pull
   moves HEAD. The store serves the older commit until the next push or a forced reload,
   and does not report itself degraded. README.md:434-436 and store.go:177 say otherwise.
2. **A repeated delete acknowledges an unpushed commit** (`lostdelete`). After a crash between commit and
   push, the clone is ahead; the same delete stages nothing and answers HEAD as deleted
   (repo.go:480). No later operation on its own need push it.
3. **Removing the last default is not noticed** (`defaultsgo`). The inherited view's token is HEAD
   while a default applies and the service's own token when none does; the latter can be
   one that the client holds. RUNTIME.md:56-57, 65-67.
4. **Old data with the newest token** (`torn`). The payload functions ask for the head version after they have
   taken the data; the client's next watch starts from a token that it has no data for.
   RUNTIME.md:27-28.
5. **A restart forgets deletions** (`resurrect`). Tombstones are kept in memory only, and the list that a new
   process loads does not name deleted apps; an upsert older than the delete, sent again, is
   applied. RUNTIME.md:316-318 says that it is ignored.

6. **Writing a Secret key by key loses the earlier keys** (`lostkey`). `buildSealedManifests` seals the keys of the
   request and the file replaces the manifest; `mergeSecretEntries` keeps the entries of the other
   keys. When it has been applied, `resolve_secrets` fails on the first ID. DATA_MODEL.md:102-104
   speaks of merging metadata *together* with the manifests.

Observations without a run of their own:

- A change that is withdrawn when the agent has applied half of it stays half applied until
  the next change: `handled` still equals what is served, so the loop sees nothing to do. `Converges` excepts it;
  the comment at fetch_loop.go:117-121 does not.
- RUNTIME.md:174-175 and DATA_MODEL.md:136 say that the agent rejects a pair of reads from different
  revisions; fetch_loop.go:108-116 accepts it, and so does `Agent`.
- A null in the first map of a merge stays in the result, nested (`deepCopyConfigValue`); only a null over
  something removes it. `HasLeaf` says so.
- The debouncer counts the cooldown from the time reported for a change. A caller that
  reports the commit's time shortens it by the lag (`AppliesApart`).
- Reverting or deleting a service leaves its SealedSecrets in the cluster; nothing in the server removes them.

## 5. What is proved

For all values of the constants that satisfy the assumptions and no bound on any of them: `GitRepoAssumption`,
`ConfigStoreAssumption` (finite budgets per event, at least one attempt, requests that name
files, disjoint sets of goroutines); `RevertAssumption` (a service has files, restores are requests, "no revert" is not a plan);
`RegistryAssumption` (a skew within the retention); `DebounceAssumption` (a maximal wait no shorter than
the quiet period and the cooldown); `AgentAssumption` (bounds of the backoff); `SecretAssumption` (writes
are sequences of pairs, name Secrets there are, and names, keys and namespace consist of words and numbers).

| Module | Theorem | Statement |
|---|---|---|
| `ConfigStore_proofs` | `TypeCorrect` | `Spec => []TypeOK` |
| `ConfigStoreSafety_proofs` | `ServesWhatItReports` | `Spec => []SnapshotFaithful` |
| | `OnlyCrashOrResetLoses` | `Spec => []AcceptedUnlessCrashOrReset` |
| | `PlainAnswersAreTrue` | `Spec => []PlainAnswerIsTrue` |
| | `OnlyDiskMixes` | `Spec => []MixedOnlyByDisk` |
| | `CleanUnlessDiskOrCrash` | `CheckoutClean`, unless `disk` or `crash` was spent |
| | `DurableUnlessFault` | `AckedIsDurable`, unless `crash`, `reset` or `disk` was spent |
| | `NetworkLosesNothing` | `Spec => []ServedIsAccepted`, where the budget has no `crash` and no `reset` |
| | `NetworkMixesNothing` | `Spec => []OwnFilesOnly`, where it has no `disk` |
| `ConfigStoreServing_proofs` | `SnapshotMovesForward` | `Spec => ServedForward` |
| | `AnsweredIsServed` | `AckedIsServed`, unless `wipe` was spent, and `crash` or `reset` too |
| | `ServerServesHistory` | `Spec` without crashes and resets that cannot begin implements `ServedHistory!Spec` |
| | `OnlyFailedEditsHideStaleness` | `NotSilentlyStale`, unless `push` or `disk` was spent or a malformed file may refuse a request |
| `Revert_proofs` | `RevertTypeCorrect` | `RevertSpec => []RevertTypeOK` |
| | `NoopsAreFresh` | `RevertSpec => NoopIsFresh` |
| | `RevertsAreExact` | `RevertIsExact`, unless `crash`, `reset` or `disk` was spent |
| | `RevertsLoseNothing`, `PlainRevertsAreTrue`, `OnlyDiskMixesReverts`, `RevertsMoveForward`, `RevertedIsServed`, `RevertsServeHistory`, `RevertsHideNothing` | what the server does without reverts, it does with them: the statements above, of `RevertSpec` |
| `Registry_proofs` | `RegistryTypeCorrect`, `NewestAlwaysWins`, `AnsweredAreCached` | `Spec => []TypeOK`, `[]NewestWins`, `[]AnsweredIsCached` |
| `VersionWatch_proofs` | `WatchTypeCorrect`, `TokensAreLastChanges`, `RawAnswersAreExact`, `AnswersAreOneSnapshot` | `Spec => []TypeOK`, `[]TokenIsLastChange`, `[]RawAnswerIsExact`, `[]AnswerIsOneSnapshot` |
| | `BlockedAreCurrent` | `Spec => []BlockedIsCurrent` |
| `Delivery_proofs` | `EnvsAreLastWords`, `ConfigsAreLastWords` | `EnvIsLastWord`, `ConfigIsLastWord`, whatever the levels hold, over any keys and values |
| | `AgentTypeCorrect`, `HandledRuns`, `RolloutsSeePayloads` | `AgentSpec => []AgentTypeOK`, `[]HandledIsRunning`, `RolloutSeesPayload` |
| | `DebounceTypeCorrect`, `WaitIsBounded`, `RolloutsAreApart` | `DebounceSpec => []DebounceTypeOK`, `[]AppliedInTime`, `AppliesApart` |
| `Secret_proofs` | `SecretTypeCorrect`, `EntriesSurvive` | `VolumeSpec => []SecretTypeOK`, `EntriesAreKept` |
| | `CommittedFirst`, `AnswersHold`, `ResolvedFresh` | `VolumeSpec => []OnlyCommittedApplied`, `[]AppliedAsAnswered`, `[]ResolvedIsFresh` |

`disk`, `reset` and the other faults are those of section 2: a reset that fails half way counts as `disk`.
The faults that a theorem excepts are needed: `faults` reaches each loss, findings 1 and 2 are two of them.

### The server

**Type correctness** is not inductive alone. `TypeInv` adds: an edit in progress has a request and a
clone, and a commit with a parent once it has been made (`EditInv`); there is a clone once
the server has started to load (`CloneInv`); whoever is past the lock holds Store.mu (`MuInv`). That a
writer at its reload has an answer ready (`ReplyInv`) is kept apart, since a revert may reload before it has
one. The first part of ConfigStore_proofs shows once, per action of
GitRepo, that it keeps its part, only appends to `made` and only spends the budget
(the lemmas named `...Sound`); the second part composes them.

**The snapshot** (`FaithfulInv`): also what a reload holds between its read and its swap is the tree of its
commit. It is established where `Clean` makes the worktree equal HEAD's tree, and kept because
commits are never altered.

**Acceptance** (`IsAccepted`): unless a crash or a reset that could not begin has been spent, the remote has
the clone's *base* (HEAD, or its parent while the one unpushed commit is in flight), the
snapshot, what is about to be stored, the reply and every answer. It needs that ancestry
is transitive and never shrinks (`GraphInv`), and that the budget never grows (`BudgetInv`, so that damage stays).

**Plain answers** (`ContentInv`): from staging to answering, HEAD's tree holds what was asked *or
a tracked file is unstaged*, and while the writer holds Store.mu no step but a reload that fails
leaves that second case; so a reload that succeeds has the first.

**Own files** (`TidyInv`, `OwnInv`): until a file operation fails (of an edit, a pull or a reset), a server that has looked at its checkout (`Running`)
has HEAD's files in index and worktree, with the request's edit from staging to commit; what a crash has left behind
keeps the next process from starting. So a commit is its parent's tree with the edit. When nothing crashes, the
same is true before the server has looked (`HomeInv`), hence `CheckoutClean`. And `Unstaged`, the second case of
`ContentInv`, cannot be: every answer, plain or not, holds what was asked (`KeptInv`).

**Forward** (`ForwardInv`): the snapshot and what has been read to replace it are ancestors of the base, which
moves to its descendants only while the process lives. So a reload, which
reads HEAD under Store.mu, cannot be behind the snapshot, however long ago its pull was.

**Answers are served** (`ServedInv`): answers and what is about to be answered are not ahead of the base, and what is
about to be served is not behind them; a clone that is opened again is not behind what it was; after a
lost volume it is cloned from the remote, which has every answer unless a crash or a reset that could not begin came before.

**The refinement**: `Serving!Init` from `Init`; each step of `Next` is `Serving!Publish` (the remote grew), `Serving!Serve` (a swap),
`Serving!Restart` (a crash) or a stutter. That each version published comes after all the others needs that a
commit adds nothing but itself to what its parent descends from (`ParentInv`).

**Staleness** (`StaleInv`): what is served, or about to be, is the base, or there is something to pull, or somebody is on the
way to reload (`Current`, `Coming`), unless the store says that it is degraded. An edit that fails after its pull
is what breaks it, by a push, the disk or a malformed file, and so is a pull that moves HEAD and fails: on the disk, or on what
a half-done edit or reset has left unstaged. Hence the three exceptions, `disk` standing for all the latter.

**Reverts** are an extension: `PlanEffect` says that a planning step changes nothing of the store but by pulling, reloading
or handing an edit to GitRepo, and each invariant above is lifted over it. `FreshInv`: what a plan has pulled is not
before what the branch held when the revert began, and what it is made again from not before what it has pulled; `WholeInv`: a restore's request names
every file of the service, so that carrying it out leaves none over.

### The others

**The newest wins** (`RegistryInv`): the watermark of an app is the time of the newest event,
*or* that was a delete so long ago that no older event can arrive any more (`Marked`); the second
case is the one that pruning leads to, and where the skew must not exceed the retention. It
needs that events of one app differ in their times (`SentInv`) and that nothing is cached
before the bootstrap has ended (`BootInv`).

**Nothing answered is missing** (`HeardInv`): of the console's last change to an app the process has been told,
or its event is outstanding (`Heard`). Before the first bootstrap has ended nothing is answered; while a list
waits to be taken over, whatever has changed since is outstanding. With `RegistryInv` and the uniqueness of the
times, being told is being right.

**Tokens and answers** (`WatchInv`): the versions are numbered without a gap and never altered (`HistoryInv`), the
snapshot is the version loaded last (`ServedInv`), and each token stands for a place in `loaded` from
which on the file is as it is now (`StandsFor`). Of a request it takes only that the second look at the head
is for inherited views, with one version's content in hand (`RequestInv`); a raw answer is then exact
because the file where the token stands is the one just read.

**Waiting** (`WakeInv`): a request that waits has seen a head, and if that is still the one served, what it compared with
its token is still so; if it is blocked on the channel of now, that is the one served, or the notification is on its way. It needs that
no reload comes back to an earlier head (`OrderInv`). What a blocked raw watcher holds is then
what its token stands for, and with `StandsFor` what is served.

**The levels**: the code merges four of them, so the proof goes through the four partial results. `SaysTo(base, k, n)`: `base` has
for a key what the first n levels say of it; `KeyStep` takes it from n to n + 1, by cases on what the next level has
there (nothing, a null, a scalar, a map over a map, a map over something else).

**The debouncer** (`WindowInv`): the window starts no later than its oldest change came, and the cooldown
ends within `Cooldown` of the last application, so that the later of the two is within the
maximal wait; that `MaxWait >= Cooldown` is where it is needed.

**The agent**: at each place of the handler, the cluster holds what the handler has written so
far, because nobody else writes the agent's keys and a failure leaves the handler.

**Secrets** (`SecretInv`): from its push on, the branch has held what a write carries, which for a revert
rests on its manifests being the target's (`WriteShape`); what it has put without a failure is in the
cluster, and nothing is promised about its Secrets until it answers. **Resolution** (`VolumeInv`): the files
as they are count among what a request could have read, also what it has read and not yet taken.

**Entries** (`EntriesInv`): every `secrets.yaml` that was ever on the branch is finite and without a repeated ID
(`Readable`), and what a write has built extends the branch for as long as nobody else has pushed. A free candidate
exists however many IDs are taken: the numbered ones are pairwise different, and so are more than there are IDs
(`UniqueIdIsUnused`, a pigeonhole). The loop over the pairs is an induction; the library's theorems for it take an operator and
cannot be used, so it is done over the *set* of positions up to which the statement holds, whose complement
would have a least element (`LeastNumber`, `UpToEach`, from the well-foundedness of `<`).

### Only model-checked

Liveness, which is out of the provers' reach: `CatchesUp`, `RawWatcherCatchesUp` and both `Converges`. Every other
property of a passing run is stated by a theorem, too. What is left to fairness is that steps are taken: that
nothing is amiss when there are none to take is proved, as `NotSilentlyStale` (with the exceptions above),
`BlockedIsCurrent`, `AnsweredIsCached` and `HandledIsRunning`.
`ServerServesHistory` assumes away crashes and resets that cannot begin by a premise on the whole behaviour
(`[]~(Spent("crash") \/ Spent("reset"))`), which `network` meets by its budget; with them it is false, as a commit
that was never pushed may then be served.

## 6. Plan

All the modules of the plan are there, and so are the theorems about safety. What could follow:

1. The hazards without a property (`PROJECT.json`): a change withdrawn after half of it was applied, a Secret with two IDs,
   a name both plain and secret, two keys of one Secret in one response.
2. Conditional and batch reads on top of `VersionWatch`.

## 7. Not modelled

- Content: formatting, YAML, merging of values, digests (a digest tells contents apart).
- Conditional reads (ETag), batch reads, reads at a version and the paging of the history; they read one
  snapshot or one commit and keep no state.
- Read, Watch and Forget of the mounted volumes, which the server does not call, and the agent's
  dry run (`cmd/config-agent` runs nothing else yet).
- Graceful shutdown, metrics, logging, flags, rate limiter (a token bucket in real time),
  audit records.
- Leader election of the agent: client-go's, behind a thin wrapper that nothing calls yet.
- Parsing and validation, except that a file may be malformed and an environment unrenderable.
- Network partitions beyond failing calls, and time: deadlines fire at any moment.
