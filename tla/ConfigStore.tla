----------------------------- MODULE ConfigStore -----------------------------
(***************************************************************************)
(* internal/store/store.go over internal/gitops/repo.go, and the process   *)
(* that runs it (cmd/config-server/main.go).                               *)
(*                                                                         *)
(* The store serves an immutable snapshot held behind an atomic pointer.   *)
(* Store.mu serialises admin writes and the reloading of the snapshot; the *)
(* pull of a refresh is made before Store.mu is taken, under Repo.mu only. *)
(* A goroutine's place in its method is pc[p].                             *)
(***************************************************************************)
EXTENDS GitRepo

CONSTANTS
    Writers,    \* requests to POST or DELETE /admin/changes in progress
    Refreshers, \* callers of RefreshFromRepo: the poll loop, Git webhooks
    Poller,     \* the one of them that is the poll loop
    Reloaders,  \* callers of ReloadFromRepo: POST /admin/reload
    Main,       \* main(), which loads the store before anything is served
    NoOne

Procs == Writers \cup Refreshers \cup Reloaders \cup {Main}

ASSUME ConfigStoreAssumption ==
    /\ Main \notin Writers \cup Refreshers \cup Reloaders
    /\ Writers \cap (Refreshers \cup Reloaders) = {}
    /\ Refreshers \cap Reloaders = {}
    /\ Poller \in Refreshers
    /\ NoOne \notin Procs

VARIABLES
    up,         \* the server answers requests
    mu,         \* who holds Store.mu
    pc,         \* where each goroutine is
    snap,       \* Store.snapshot
    lastReload, \* Store.lastReload: "none", "ok" or "failed"
    pend,       \* the snapshot that each reload has read and not yet stored
    reply,      \* the write being answered: its version and edit
    acked       \* the writes answered with a version (history, for the properties)

storeVars == <<up, mu, pc, snap, lastReload, pend, reply, acked>>
vars == <<repoVars, storeVars>>

Snapshots == [version : Nat, data : Tree]
NoSnapshot == [version |-> 0, data |-> EmptyTree]

Reply == [version : Nat, request : Requests]
NoReply == [version |-> 0, request |-> NoRequest]

\* loaded: the reload after the commit succeeded ("committed", "deleted"), as
\* opposed to "committed_but_reload_failed".
Ack == [version : Nat, request : Requests, loaded : BOOLEAN]

\* "plan" and "check" are places of a revert, see Revert.
Places == {"idle", "initialPull", "wantMu", "plan", "check", "git", "reload", "swap", "settle"}

TypeOK ==
    /\ RepoTypeOK
    /\ up \in BOOLEAN
    /\ mu \in Procs \cup {NoOne}
    /\ pc \in [Procs -> Places]
    /\ snap \in Snapshots
    /\ lastReload \in {"none", "ok", "failed"}
    /\ pend \in [Procs -> Snapshots]
    /\ reply \in Reply \cup {NoReply}
    /\ acked \subseteq Ack

Init ==
    /\ RepoInit
    /\ up = FALSE
    /\ mu = NoOne
    /\ pc = [p \in Procs |-> "idle"]
    /\ snap = NoSnapshot
    /\ lastReload = "none"
    /\ pend = [p \in Procs |-> NoSnapshot]
    /\ reply = NoReply
    /\ acked = {}

Goto(p, place) == pc' = [pc EXCEPT ![p] = place]

(***************************************************************************)
(* LoadFromRepo, at start: clone or open, pull, reload.                    *)
(***************************************************************************)
OpenRepo ==
    /\ ~up /\ pc[Main] = "idle"
    /\ \/ CloneOrOpen /\ Goto(Main, "initialPull")
       \/ CloneFails /\ UNCHANGED pc          \* exits, and is started again
    /\ UNCHANGED <<up, mu, snap, lastReload, pend, reply, acked>>

\* A pull that fails is logged; the checkout on disk is served instead.
InitialPull ==
    /\ pc[Main] = "initialPull"
    /\ Pull \/ PullFails
    /\ Goto(Main, "wantMu")
    /\ UNCHANGED <<up, mu, snap, lastReload, pend, reply, acked>>

(***************************************************************************)
(* RefreshFromRepo and ReloadFromRepo: pull, then take Store.mu to reload. *)
(***************************************************************************)
\* Slip: a degraded store is left alone.
RefreshUnlessDegraded(p) ==
    /\ up /\ pc[p] = "idle"
    /\ \/ /\ Pull
          /\ IF HeadMoved /\ lastReload # "failed" THEN Goto(p, "wantMu") ELSE UNCHANGED pc
       \/ PullFails /\ UNCHANGED pc
    /\ UNCHANGED <<up, mu, snap, lastReload, pend, reply, acked>>

\* The background path reloads only if this very pull moved HEAD.
RefreshFromRepo(p) ==
    /\ up /\ pc[p] = "idle"
    /\ \/ Pull /\ (IF HeadMoved THEN Goto(p, "wantMu") ELSE UNCHANGED pc)
       \/ PullFails /\ UNCHANGED pc
    /\ UNCHANGED <<up, mu, snap, lastReload, pend, reply, acked>>

\* The operator's path reloads whether or not HEAD moved.
ReloadFromRepo(p) ==
    /\ up /\ pc[p] = "idle"
    /\ \/ Pull /\ Goto(p, "wantMu")
       \/ PullFails /\ UNCHANGED pc
    /\ UNCHANGED <<up, mu, snap, lastReload, pend, reply, acked>>

\* Slip: the reload does not wait for its turn.
ReloadUnlocked(p) ==
    /\ pc[p] = "wantMu"
    /\ Goto(p, "reload")
    /\ UNCHANGED <<repoVars, up, mu, snap, lastReload, pend, reply, acked>>

\* reload: s.mu.Lock()
LockForReload(p) ==
    /\ pc[p] = "wantMu"
    /\ mu = NoOne
    /\ mu' = p
    /\ Goto(p, "reload")
    /\ UNCHANGED <<repoVars, up, snap, lastReload, pend, reply, acked>>

(***************************************************************************)
(* ApplyChanges and DeleteChanges.                                         *)
(***************************************************************************)
BeginWrite(p, r) ==
    /\ up /\ pc[p] = "idle"
    /\ r.kind # "restore"
    /\ mu = NoOne
    /\ mu' = p
    /\ Spend("request")
    /\ BeginEdit(r)
    /\ Goto(p, "git")
    /\ UNCHANGED <<up, snap, lastReload, pend, reply, acked>>

Edit(p) ==
    /\ pc[p] = "git"
    /\ EditStep
    /\ UNCHANGED storeVars

\* CommitAndPush returned a hash: on to the reload.
WriteCommitted(p) ==
    /\ pc[p] = "git" /\ phase = "ok"
    /\ reply' = [version |-> local, request |-> request]
    /\ EndEdit
    /\ Goto(p, "reload")
    /\ UNCHANGED <<up, mu, snap, lastReload, pend, acked>>

\* It returned an error: so does the handler, and nothing is reloaded.
WriteFailed(p) ==
    /\ pc[p] = "git" /\ phase = "error"
    /\ EndEdit
    /\ mu' = NoOne
    /\ Goto(p, "idle")
    /\ UNCHANGED <<up, snap, lastReload, pend, reply, acked>>

(***************************************************************************)
(* reloadUnlocked.                                                         *)
(***************************************************************************)
\* The answer to a write, and the end of any use of Store.mu.
Finish(p, loaded) ==
    /\ acked' = acked \cup
          IF p \in Writers
          THEN {[version |-> reply.version, request |-> reply.request, loaded |-> loaded]}
          ELSE {}
    /\ reply' = NoReply
    /\ mu' = NoOne
    /\ Goto(p, "idle")

Parses(tree) == \A f \in Files : tree[f] \notin Malformed

ReadSnapshot(p) ==
    /\ pc[p] = "reload"
    /\ SnapshotOk /\ Parses(work)
    /\ pend' = [pend EXCEPT ![p] = [version |-> local, data |-> work]]
    /\ Goto(p, "swap")
    /\ UNCHANGED <<repoVars, up, mu, snap, lastReload, reply, acked>>

\* Slips: the failure is not recorded; it is recorded and not told to the client.
ReadFailsQuietly(p) ==
    /\ pc[p] = "reload" /\ phase = "free"
    /\ ~(SnapshotOk /\ Parses(work))
    /\ Finish(p, FALSE)
    /\ UNCHANGED <<repoVars, up, snap, lastReload, pend>>

ReadFailsUntold(p) ==
    /\ pc[p] = "reload" /\ phase = "free"
    /\ ~(SnapshotOk /\ Parses(work))
    /\ lastReload' = "failed"
    /\ Finish(p, TRUE)
    /\ UNCHANGED <<repoVars, up, snap, pend>>

\* Fail closed: a dirty worktree, a file that does not parse, or a failed read
\* leaves the snapshot as it is.  At start it makes the process exit.
ReadFails(p) ==
    /\ pc[p] = "reload" /\ phase = "free"
    /\ \/ ~(SnapshotOk /\ Parses(work)) /\ UNCHANGED budget
       \/ Spend("disk")
    /\ lastReload' = IF p = Main THEN "none" ELSE "failed"
    /\ Finish(p, FALSE)
    /\ UNCHANGED <<made, remote, checkout, editVars, up, snap, pend>>

Swap(p) ==
    /\ pc[p] = "swap"
    /\ snap' = pend[p]
    /\ Goto(p, "settle")
    /\ UNCHANGED <<repoVars, up, mu, lastReload, pend, reply, acked>>

Settle(p) ==
    /\ pc[p] = "settle"
    /\ lastReload' = "ok"
    /\ pend' = [pend EXCEPT ![p] = NoSnapshot]
    /\ Finish(p, TRUE)
    /\ up' = (up \/ p = Main)
    /\ UNCHANGED <<repoVars, snap>>

(***************************************************************************)
(* The process dies, at any point.                                         *)
(***************************************************************************)
Crash ==
    /\ RepoCrash
    /\ up' = FALSE
    /\ mu' = NoOne
    /\ pc' = [p \in Procs |-> "idle"]
    /\ snap' = NoSnapshot
    /\ lastReload' = "none"
    /\ pend' = [p \in Procs |-> NoSnapshot]
    /\ reply' = NoReply
    /\ UNCHANGED acked

Outside == OutsidePush /\ UNCHANGED storeVars

Reload(p) ==
    \/ LockForReload(p) \/ ReadSnapshot(p) \/ ReadFails(p)
    \/ Swap(p) \/ Settle(p)

Write(p) ==
    \/ \E r \in Requests : BeginWrite(p, r)
    \/ Edit(p) \/ WriteCommitted(p) \/ WriteFailed(p)

Next ==
    \/ OpenRepo \/ InitialPull
    \/ \E p \in Refreshers : RefreshFromRepo(p)
    \/ \E p \in Reloaders : ReloadFromRepo(p)
    \/ \E p \in Writers : Write(p)
    \/ \E p \in Procs : Reload(p)
    \/ Outside
    \/ Crash

Spec == Init /\ [][Next]_vars

\* Started methods run on; the container is restarted when it exits; the ticker
\* of the poll loop never stops.  Go's mutexes are handed to a waiter that has
\* waited long enough, hence the strong fairness.  Nobody has to write, push or
\* force a reload.
Fairness ==
    /\ WF_vars(OpenRepo) /\ WF_vars(InitialPull)
    /\ WF_vars(RefreshFromRepo(Poller))
    /\ \A p \in Writers : WF_vars(Edit(p) \/ WriteCommitted(p) \/ WriteFailed(p))
    /\ \A p \in Procs :
          /\ SF_vars(LockForReload(p))
          /\ WF_vars(ReadSnapshot(p) \/ ReadFails(p) \/ Swap(p) \/ Settle(p))

FairSpec == Spec /\ Fairness

(***************************************************************************)
(* What should be true.                                                    *)
(***************************************************************************)
\* The data served is exactly the tree of the commit the server reports as its
\* version, and all of it parsed: no reload straddles a pull or an edit or picks
\* up what a failed edit left in the worktree (Repo.Snapshot, reloadUnlocked).
SnapshotFaithful ==
    snap.version # 0 =>
        /\ snap.version \in Commits
        /\ snap.data = made[snap.version].tree
        /\ Parses(snap.data)

\* The server never serves a commit that the remote has not accepted: the reason
\* given for the reset after a failed push (CommitAndPushFunc).
ServedIsAccepted == snap.version # 0 => Reaches(remote, snap.version)

\* A write answered with a version is on the remote for good, and that version
\* holds what was asked for, whatever retries it took (CommitAndPushFunc).
AckedIsPushed == \A a \in acked : Reaches(remote, a.version)

IsCarriedOut(a) ==
    \A f \in DOMAIN a.request.edit : made[a.version].tree[f] = a.request.edit[f]

AckedIsDurable == AckedIsPushed /\ \A a \in acked : IsCarriedOut(a)

\* A plain "committed" or "deleted" is never false, not even when a removal could
\* not be staged, which is only logged: the reload then finds the worktree dirty
\* and the answer is "deleted_but_reload_failed" (DeleteAndPush, Snapshot).
PlainAnswerIsTrue == \A a \in acked : a.loaded => IsCarriedOut(a)

\* After a plain "committed" every reader is served that write or a later
\* version, never again an earlier one (ApplyChanges reloads before it answers).
AckedIsServed ==
    \A a \in acked :
        a.loaded /\ snap.version # 0 => Reaches(snap.version, a.version)

\* A commit changes the files its request names, as it asked, and no other: a
\* retry neither reverts what others pushed in between nor carries over what an
\* earlier request left behind (resetToParent, the pull at the head of the loop).
OwnFilesOnly ==
    \A c \in Commits :
        LET r == made[c].by IN
        r # NoRequest =>
            \A f \in Files :
                made[c].tree[f] = IF f \in DOMAIN r.edit THEN r.edit[f]
                                  ELSE made[made[c].parent].tree[f]

\* Between one edit and the next the checkout is exactly HEAD: "this check only
\* ever fires on changes made outside the process" (assertConfigsCleanUnlocked).
CheckoutClean == phase = "free" /\ local # 0 => Clean

Spent(k) == budget[k] < Budget[k]

\* There are only two ways to serve, or to answer a client with, what the remote has
\* not accepted: the process dies between commit and push, or the reset after a
\* failed push fails too, before it has moved HEAD (and is only logged).  No refusal,
\* network failure, lost answer, retry, failed file operation, a reset's own after it
\* has moved HEAD included, or loss of the volume does it.
AcceptedUnlessCrashOrReset ==
    (ServedIsAccepted /\ AckedIsPushed) \/ Spent("crash") \/ Spent("reset")

\* The only reason for a commit that mixes two requests, or reverts a file that
\* its request does not name: a local file operation failed half way through an
\* edit or through the reset that was to undo it, or through a pull, and what was
\* staged by then went into the next commit.
MixedOnlyByDisk == OwnFilesOnly \/ Spent("disk")

\* The snapshot moves only to a later version of the branch, even when a refresh
\* pulled before, and reloads after, a write (Store.mu around reload).
ServedForward ==
    [][snap.version # 0 /\ snap'.version # 0 =>
         Reaches(snap'.version, snap.version)]_vars

\* With nothing under way and nothing left to pull (so that no poll will reload),
\* either the snapshot is what the clone holds or the last reload is reported as
\* failed: staleness is not silent.
Quiet == up /\ phase = "free" /\ \A p \in Procs : pc[p] = "idle"
NotSilentlyStale ==
    Quiet /\ local = remote => snap.version = local \/ lastReload = "failed"

\* Once pushes stop, the server comes to serve the remote's head, if all of it
\* parses: "later background polls catch up when the remote becomes reachable"
\* (README), "reloads if the HEAD moved" (RefreshFromRepo).
CatchesUp ==
    <>[](Parses(made[remote].tree) => up /\ snap.version = remote)

\* Readers are served one published version after another.
Serving == INSTANCE ServedHistory WITH
    Versions  <- Nat,
    Trees     <- Tree,
    NoVersion <- 0,
    NoView    <- EmptyTree,
    published <- [c \in made[remote].anc |->
                     [before |-> made[c].anc \ {c}, tree |-> made[c].tree]],
    served    <- snap.version,
    view      <- snap.data

ImplementsServing == Serving!Spec

=============================================================================
