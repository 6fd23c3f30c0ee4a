-------------------------------- MODULE Revert --------------------------------
(***************************************************************************)
(* PrepareRevert and ApplyRevert of internal/store/store.go: one service's *)
(* files are put back to what they were at a commit of its history, by a   *)
(* new commit.  A revert holds Store.mu from its plan to its answer, and   *)
(* the plan is made against the snapshot, which may lag behind the branch: *)
(* when there seems to be nothing to restore it pulls and reloads first.   *)
(***************************************************************************)
EXTENDS ConfigStore

CONSTANTS
    ServiceFiles,   \* the recognized files of the service
    NoRevert

VARIABLE revert     \* the revert that is being planned, NoRevert if none is

revertVars == <<vars, revert>>

Restore(tree) == [kind |-> "restore", edit |-> tree, reads |-> {}]

\* known: the remote's head when the revert began (history, for NoopIsFresh);
\* pulled: HEAD after the pull that precedes a no-op, 0 before.
Plan == [target : Nat, known : Nat, pulled : Nat]

ASSUME RevertAssumption ==
    /\ ServiceFiles \subseteq Files /\ ServiceFiles # {}
    /\ \A tree \in [ServiceFiles -> Blob] : Restore(tree) \in Requests
    /\ NoRevert \notin Plan

RevertTypeOK ==
    /\ TypeOK
    /\ revert \in Plan \cup {NoRevert}
    /\ revert # NoRevert => mu \in Writers
    /\ \A p \in Writers : mu = p <=> pc[p] # "idle"    \* a writer locks first, unlocks last

RevertInit == Init /\ revert = NoRevert

\* ReadServiceFilesAtCommit
ServiceAt(tree) == [f \in ServiceFiles |-> tree[f]]
HasService(tree) == \E f \in ServiceFiles : tree[f] # NoFile

\* serviceFilesChangedInCommit; the first commit is compared with the empty tree.
ChangedService(c) ==
    LET before == IF made[c].parent = 0 THEN EmptyTree ELSE made[made[c].parent].tree
    IN  ServiceAt(made[c].tree) # ServiceAt(before)

\* IterateServiceHistory: from HEAD back.
ServiceHistory == {c \in made[local].anc : ChangedService(c)}

\* What PrepareRevert asks of the service and of the target.
Revertible(t) ==
    /\ HasService(snap.data)
    /\ t \in ServiceHistory
    /\ HasService(made[t].tree)

SameService(c, t) == ServiceAt(made[c].tree) = ServiceAt(made[t].tree)

\* Slip: a return that does not unlock.
ReturnLocked(p) == UNCHANGED mu /\ Goto(p, "idle") /\ revert' = NoRevert

Release(p) == mu' = NoOne /\ Goto(p, "idle") /\ revert' = NoRevert

(***************************************************************************)
(* ApplyRevert.                                                            *)
(***************************************************************************)
\* The client has the target from the service's history.
BeginRevert(p, t) ==
    /\ up /\ pc[p] = "idle"
    /\ mu = NoOne
    /\ t \in ServiceHistory
    /\ Spend("request")
    /\ mu' = p
    /\ Goto(p, "plan")
    /\ revert' = [target |-> t, known |-> remote, pulled |-> 0]
    /\ UNCHANGED <<made, remote, checkout, editVars, up, snap, lastReload, pend, reply, acked>>

PlanRefused(p) ==
    /\ pc[p] = "plan"
    /\ ~Revertible(revert.target)
    /\ Release(p)
    /\ UNCHANGED <<repoVars, up, snap, lastReload, pend, reply, acked>>

\* There is something to restore, but a sealed secret among it cannot be made into a
\* manifest, or there is nobody to apply it: refused before anything is committed.
ManifestsRefused(p) ==
    /\ pc[p] = "plan"
    /\ Revertible(revert.target) /\ ~SameService(snap.version, revert.target)
    /\ Release(p)
    /\ UNCHANGED <<repoVars, up, snap, lastReload, pend, reply, acked>>

\* The snapshot has the target's files already; not believed before a pull.
PlanNoop(p) ==
    /\ pc[p] = "plan" /\ revert.pulled = 0
    /\ Revertible(revert.target) /\ SameService(snap.version, revert.target)
    /\ Goto(p, "check")
    /\ UNCHANGED <<repoVars, up, mu, snap, lastReload, pend, reply, acked, revert>>

StartRestore(p) ==
    /\ BeginEdit(Restore(ServiceAt(made[revert.target].tree)))
    /\ Goto(p, "git")
    /\ revert' = NoRevert
    /\ UNCHANGED <<up, mu, snap, pend, reply, acked>>

PlanRestore(p) ==
    /\ pc[p] = "plan"
    /\ Revertible(revert.target) /\ ~SameService(snap.version, revert.target)
    /\ StartRestore(p)
    /\ UNCHANGED <<budget, lastReload>>

\* Slip: the snapshot is believed.
CheckWithoutPull(p) ==
    /\ pc[p] = "check" /\ phase = "free"
    /\ revert' = [revert EXCEPT !.pulled = local]
    /\ Goto(p, "reload")
    /\ UNCHANGED <<repoVars, up, mu, snap, lastReload, pend, reply, acked>>

PullBeforeNoop(p) ==
    /\ pc[p] = "check"
    /\ \/ /\ Pull
          /\ revert' = [revert EXCEPT !.pulled = local']
          /\ Goto(p, "reload")
          /\ UNCHANGED mu
       \/ PullFails /\ Release(p)
    /\ UNCHANGED <<up, snap, lastReload, pend, reply, acked>>

\* The reload of a revert with nothing to restore is reloadUnlocked as for every
\* caller; what differs is what comes after it.  Success: plan again.
ReloadedBeforeNoop(p) ==
    /\ pc[p] = "settle" /\ revert # NoRevert
    /\ lastReload' = "ok"
    /\ pend' = [pend EXCEPT ![p] = NoSnapshot]
    /\ Goto(p, "plan")
    /\ UNCHANGED <<repoVars, up, mu, snap, reply, acked, revert>>

\* Failure: if the files at the HEAD that was pulled are not the target's, the
\* revert goes ahead by its first plan, unless its sealed manifests are refused;
\* else the failure is the answer.
NotReloadedBeforeNoop(p) ==
    /\ pc[p] = "reload" /\ phase = "free" /\ revert # NoRevert
    /\ \/ ~(SnapshotOk /\ Parses(work)) /\ UNCHANGED budget
       \/ Spend("disk")
    /\ lastReload' = "failed"
    /\ \/ Release(p) /\ UNCHANGED <<made, remote, checkout, editVars, up, snap, pend, reply, acked>>
       \/ ~SameService(revert.pulled, revert.target) /\ StartRestore(p)

\* Noop: nothing is committed, and the version is the snapshot's.
AnswerNoop(p) ==
    /\ pc[p] = "plan" /\ revert.pulled # 0
    /\ Revertible(revert.target) /\ SameService(snap.version, revert.target)
    /\ acked' = acked \cup {[version |-> snap.version, loaded |-> TRUE,
                             request |-> Restore(ServiceAt(made[revert.target].tree))]}
    /\ Release(p)
    /\ UNCHANGED <<repoVars, up, snap, lastReload, pend, reply>>

Planning(p) ==
    \/ PlanRefused(p) \/ ManifestsRefused(p) \/ PlanNoop(p) \/ PlanRestore(p)
    \/ PullBeforeNoop(p)
    \/ ReloadedBeforeNoop(p) \/ NotReloadedBeforeNoop(p) \/ AnswerNoop(p)

\* The rest of the server.  The end of a reload belongs to the revert if one is
\* being planned: it holds Store.mu, so the reload is its own.
Others ==
    \/ OpenRepo \/ InitialPull
    \/ \E p \in Refreshers : RefreshFromRepo(p)
    \/ \E p \in Reloaders : ReloadFromRepo(p)
    \/ \E p \in Writers : Write(p)
    \/ \E p \in Procs : LockForReload(p) \/ ReadSnapshot(p) \/ Swap(p)
    \/ revert = NoRevert /\ \E p \in Procs : ReadFails(p) \/ Settle(p)
    \/ Outside

RevertNext ==
    \/ \E p \in Writers, t \in Commits : BeginRevert(p, t)
    \/ \E p \in Writers : Planning(p)
    \/ Others /\ UNCHANGED revert
    \/ Crash /\ revert' = NoRevert

RevertSpec == RevertInit /\ [][RevertNext]_revertVars

\* As for ConfigStore; a revert that has begun runs on.
RevertFairness ==
    /\ WF_revertVars(OpenRepo /\ UNCHANGED revert)
    /\ WF_revertVars(InitialPull /\ UNCHANGED revert)
    /\ WF_revertVars(RefreshFromRepo(Poller) /\ UNCHANGED revert)
    /\ \A p \in Writers :
          /\ WF_revertVars((Edit(p) \/ WriteCommitted(p) \/ WriteFailed(p)) /\ UNCHANGED revert)
          /\ WF_revertVars(Planning(p))
    /\ \A p \in Procs :
          /\ SF_revertVars(LockForReload(p) /\ UNCHANGED revert)
          /\ WF_revertVars(/\ \/ ReadSnapshot(p) \/ Swap(p)
                              \/ revert = NoRevert /\ (ReadFails(p) \/ Settle(p))
                           /\ UNCHANGED revert)

RevertFairSpec == RevertSpec /\ RevertFairness

(***************************************************************************)
(* What should be true.                                                    *)
(***************************************************************************)
\* "the resulting tree matches the target file set even if the remote moved": the
\* version that a revert is answered with has been accepted by the remote, and the
\* service's files there are the target's, none missing, none changed and none
\* left over, whatever others pushed since the revert was planned, and whether it
\* made a commit or found nothing to do (RestoreServiceFilesAndPush, ApplyRevert).
RevertIsExact ==
    \A a \in acked :
        a.request.kind = "restore" =>
            /\ Reaches(remote, a.version)
            /\ ServiceAt(made[a.version].tree) = a.request.edit

\* A revert is not declared unnecessary on the strength of a stale snapshot: the
\* version answered includes all that the branch held when the revert began
\* (ApplyRevert pulls and reloads before it answers noop).
NoopIsFresh ==
    [][\A p \in Writers : AnswerNoop(p) => Reaches(snap.version, revert.known)]_revertVars

=============================================================================
