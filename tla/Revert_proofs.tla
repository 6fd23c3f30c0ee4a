---------------------------- MODULE Revert_proofs ----------------------------
(***************************************************************************)
(* Theorems about the server with reverts, for any number of writers,      *)
(* refreshers, files and values, and any number of faults.                 *)
(***************************************************************************)
EXTENDS Revert, ConfigStoreServing_proofs

(***************************************************************************)
(* The revert that is being planned belongs to the writer that holds       *)
(* Store.mu, which has no answer ready, and knows what it has pulled from  *)
(* the moment it reloads.                                                  *)
(***************************************************************************)
Reloading == {"reload", "swap", "settle"}

PlanInv ==
    revert # NoRevert =>
        /\ revert \in Plan
        /\ up /\ reply = NoReply
        /\ mu \in Writers /\ pc[mu] \in {"plan", "check"} \cup Reloading
        /\ pc[mu] \in Reloading => revert.pulled # 0
        /\ revert.target \in Commits /\ revert.known \in Commits
        /\ revert.pulled \in Commits \cup {0}

HolderInv ==
    /\ \A p \in Procs : pc[p] \in {"plan", "check"} => revert # NoRevert
    /\ \A p \in Writers : mu = p => pc[p] # "idle"

RevertReplyInv == IF revert = NoRevert THEN ReplyInv ELSE acked \subseteq Ack

RevertInv == TypeInv /\ PlanInv /\ HolderInv /\ RevertReplyInv

\* A step of the server without the reverts.
Plain == [Next]_vars /\ UNCHANGED revert

Planned ==
    \/ \E p \in Writers, t \in Commits : BeginRevert(p, t)
    \/ \E p \in Writers : Planning(p)

LEMMA RevertSteps ==
    ASSUME [RevertNext]_revertVars
    PROVE  \/ Others /\ Plain
           \/ Crash /\ [Next]_vars /\ revert' = NoRevert
           \/ UNCHANGED vars /\ Plain
           \/ Planned
    BY DEF RevertNext, Others, Next, Reload, Plain, Planned, revertVars

(***************************************************************************)
(* What planning does.                                                     *)
(***************************************************************************)
\* Nothing is made, pushed, served or read; at most the clone is pulled, an edit begins
\* or a revert is answered with the snapshot's version.
PlanEffect ==
    /\ UNCHANGED <<made, remote, up, snap, reply>>
    /\ local # 0 /\ reply = NoReply /\ up
    /\ \/ UNCHANGED <<checkout, editVars>>
       \/ UNCHANGED editVars /\ phase = "free" /\ (PullOk \/ PullError)
       \/ /\ UNCHANGED checkout /\ phase = "free" /\ phase' = "pull"
          /\ request' \in Requests /\ request'.edit \in [ServiceFiles -> Blob]
    /\ SnapshotKept
    /\ \/ acked' = acked
       \/ \E p \in Writers : AnswerNoop(p)

LEMMA RestoreIsRequest ==
    ASSUME RepoTypeOK, NEW c \in Commits
    PROVE  /\ Restore(ServiceAt(made[c].tree)) \in Requests
           /\ Restore(ServiceAt(made[c].tree)).edit \in [ServiceFiles -> Blob]
<1>1. ServiceAt(made[c].tree) \in [ServiceFiles -> Blob]
    BY CommitFacts, RevertAssumption DEF ServiceAt, Tree
<1> QED
    BY <1>1, RevertAssumption DEF Restore

\* Whose turn it is.
LEMMA PlannerFacts ==
    ASSUME RevertInv, NEW p \in Writers, Planning(p)
    PROVE  /\ p \in Procs /\ revert # NoRevert /\ mu = p /\ up /\ local # 0
           /\ reply = NoReply
           /\ revert.target \in Commits
<1> USE DEF RevertInv, TypeInv, StoreInv
<1>1. p \in Procs
    BY DEF Procs
<1>2. revert # NoRevert /\ mu = p
    BY <1>1 DEF Planning, PlanRefused, ManifestsRefused, PlanNoop, PlanRestore, PullBeforeNoop,
        ReloadedBeforeNoop, NotReloadedBeforeNoop, AnswerNoop, HolderInv, MuInv, Critical
<1> QED
    BY <1>1, <1>2 DEF PlanInv, CloneInv

LEMMA PlanningEffect ==
    ASSUME RevertInv, NEW p \in Writers, Planning(p)
    PROVE  PlanEffect
<1> USE DEF RevertInv, TypeInv, RepoInv, StoreInv, StoreTypeOK, Goto
<1>0. /\ p \in Procs /\ up /\ local # 0 /\ reply = NoReply
      /\ Restore(ServiceAt(made[revert.target].tree)) \in Requests
      /\ Restore(ServiceAt(made[revert.target].tree)).edit \in [ServiceFiles -> Blob]
    BY PlannerFacts, RestoreIsRequest
<1>1. CASE PlanRefused(p) \/ ManifestsRefused(p) \/ PlanNoop(p) \/ AnswerNoop(p)
    BY <1>0, <1>1 DEF PlanRefused, ManifestsRefused, PlanNoop, AnswerNoop, Release, repoVars,
        checkout, editVars, PlanEffect, SnapshotKept
<1>2. CASE PullBeforeNoop(p)
    BY <1>0, <1>2 DEF PullBeforeNoop, Pull, PullFails, Release, editVars, PlanEffect, SnapshotKept
<1>3. CASE ReloadedBeforeNoop(p)
    BY <1>0, <1>3 DEF ReloadedBeforeNoop, repoVars, checkout, editVars, PlanEffect, SnapshotKept
<1>4. CASE PlanRestore(p) \/ (NotReloadedBeforeNoop(p) /\ StartRestore(p))
    BY <1>0, <1>4 DEF PlanRestore, NotReloadedBeforeNoop, StartRestore, BeginEdit, PlanEffect,
                      SnapshotKept
<1>5. CASE NotReloadedBeforeNoop(p) /\ Release(p) /\ ~StartRestore(p)
    BY <1>0, <1>5 DEF NotReloadedBeforeNoop, Release, PlanEffect, SnapshotKept
<1> QED
    BY <1>1, <1>2, <1>3, <1>4, <1>5 DEF Planning, NotReloadedBeforeNoop

LEMMA BeginEffect ==
    ASSUME RevertInv, NEW p \in Writers, NEW t \in Commits, BeginRevert(p, t)
    PROVE  PlanEffect /\ revert = NoRevert /\ p \in Procs
<1> USE DEF RevertInv, TypeInv, StoreInv, StoreTypeOK, Goto
<1>1. p \in Procs /\ mu = NoOne /\ up /\ local # 0
    BY DEF BeginRevert, CloneInv, Procs
<1>2. revert = NoRevert
    BY <1>1, ConfigStoreAssumption DEF PlanInv, Procs
<1>3. reply = NoReply
    BY <1>1, <1>2, ConfigStoreAssumption DEF RevertReplyInv, ReplyInv, MuInv, Critical, Procs
<1> QED
    BY <1>1, <1>2, <1>3 DEF BeginRevert, PlanEffect, SnapshotKept

LEMMA PlannedEffect ==
    ASSUME RevertInv, Planned PROVE PlanEffect
    BY PlanningEffect, BeginEffect DEF Planned

(***************************************************************************)
(* Types: the steps of planning.                                           *)
(***************************************************************************)
LEMMA PlannedSound ==
    ASSUME RevertInv, Planned PROVE Sound /\ local' # 0
<1> USE DEF RevertInv, TypeInv
<1>1. PlanEffect
    BY PlannedEffect
<1>2. CASE \E p \in Writers, t \in Commits : BeginRevert(p, t)
    BY <1>1, <1>2, SpendSound DEF BeginRevert, Events, PlanEffect, Sound
<1>3. ASSUME NEW p \in Writers, Planning(p) PROVE Sound
  <2>0. /\ local # 0 /\ Restore(ServiceAt(made[revert.target].tree)) \in Requests
      BY <1>3, PlannerFacts, RestoreIsRequest DEF RepoInv
  <2>1. CASE \/ PlanRefused(p) \/ ManifestsRefused(p) \/ PlanNoop(p) \/ AnswerNoop(p)
             \/ ReloadedBeforeNoop(p)
      BY <2>1, StutterSound DEF PlanRefused, ManifestsRefused, PlanNoop, AnswerNoop,
          ReloadedBeforeNoop
  <2>2. CASE PullBeforeNoop(p)
      BY <2>2, PullSound DEF PullBeforeNoop
  <2>3. ASSUME UNCHANGED budget \/ Spend("disk"), StartRestore(p) PROVE Sound
    <3>1. budget' \in [Events -> Nat] /\ \A k \in Events : budget'[k] <= budget[k]
        BY <2>3, SpendKeepsType DEF RepoInv, RepoTypeOK, Events
    <3> QED
        BY <2>0, <2>3, <3>1, GitRepoAssumption
        DEF StartRestore, BeginEdit, Sound, RepoInv, RepoTypeOK, EditInv, Grow, Phases, Commits,
            checkout
  <2>4. CASE NotReloadedBeforeNoop(p) /\ ~StartRestore(p)
    <3>1. /\ UNCHANGED <<made, remote, checkout, editVars>>
          /\ UNCHANGED budget \/ Spend("disk")
        BY <2>4 DEF NotReloadedBeforeNoop
    <3>2. UNCHANGED budget => UNCHANGED repoVars
        BY <3>1 DEF repoVars, checkout, editVars
    <3> QED
        BY <3>1, <3>2, SpendSound, StutterSound DEF Events
  <2> QED
      BY <1>3, <2>1, <2>2, <2>3, <2>4 DEF Planning, PlanRestore, NotReloadedBeforeNoop
<1> QED
    BY <1>1, <1>2, <1>3 DEF Planned, PlanEffect, Sound

LEMMA PlannedStoreInv ==
    ASSUME RevertInv, Planned PROVE StoreInv'
<1> USE DEF RevertInv, TypeInv
<1>0. local' # 0
    BY PlannedSound
<1>1. ASSUME NEW p \in Writers, NEW t \in Commits, BeginRevert(p, t) PROVE StoreInv'
  <2>1. p \in Procs
      BY DEF Procs
  <2>2. StoreTypeOK'
      BY <1>1, <2>1, GotoKeepsType DEF BeginRevert, StoreInv, StoreTypeOK, Places
  <2> QED
      BY <1>0, <1>1, <2>1, <2>2, StepKeepsStoreInv DEF BeginRevert, Places
<1>2. ASSUME NEW p \in Writers, Planning(p) PROVE StoreInv'
  <2>0. p \in Procs /\ mu = p /\ NoSnapshot \in Snapshots
      BY <1>2, PlannerFacts, NoSnapshotIsSnapshot
  <2>1. PICK place \in {"idle", "plan", "check", "git", "reload"} :
            Goto(p, place) /\ mu' = IF place = "idle" THEN NoOne ELSE p
      BY <1>2, <2>0 DEF Planning, PlanRefused, ManifestsRefused, PlanNoop, PlanRestore,
          PullBeforeNoop, ReloadedBeforeNoop, NotReloadedBeforeNoop, AnswerNoop, StartRestore,
          Release
  <2>2. /\ UNCHANGED <<up, snap>> /\ lastReload' \in {lastReload, "ok", "failed"}
        /\ pend' = pend \/ pend' = [pend EXCEPT ![p] = NoSnapshot]
      BY <1>2 DEF Planning, PlanRefused, ManifestsRefused, PlanNoop, PlanRestore, PullBeforeNoop,
          ReloadedBeforeNoop, NotReloadedBeforeNoop, AnswerNoop, StartRestore, Release
  <2>3. StoreTypeOK'
      BY <2>0, <2>1, <2>2, GotoKeepsType DEF StoreInv, StoreTypeOK, Places
  <2> QED
      BY <1>0, <2>0, <2>1, <2>3, StepKeepsStoreInv DEF Places, Critical
<1> QED
    BY <1>1, <1>2 DEF Planned

\* A plan starts with nothing pulled, and reloads only what it has pulled.
LEMMA PlannedInvs ==
    ASSUME RevertInv, Planned PROVE PlanInv' /\ HolderInv' /\ RevertReplyInv'
<1> USE DEF RevertInv, TypeInv, RepoInv, StoreInv, StoreTypeOK, Goto
<1>0. PlanEffect /\ made' = made /\ Commits' = Commits
    BY PlannedEffect DEF PlanEffect, Commits
<1>1. ASSUME NEW p \in Writers, NEW t \in Commits, BeginRevert(p, t)
      PROVE  PlanInv' /\ HolderInv' /\ RevertReplyInv'
  <2>1. revert = NoRevert /\ p \in Procs /\ remote \in Commits
      BY <1>1, BeginEffect DEF RepoTypeOK
  <2>2. revert' = [target |-> t, known |-> remote, pulled |-> 0] /\ revert' \in Plan
      BY <1>1, <2>1 DEF BeginRevert, Plan, Commits
  <2>3. revert' # NoRevert
      BY <2>2, RevertAssumption
  <2>4. PlanInv'
      BY <1>0, <1>1, <2>1, <2>2 DEF BeginRevert, PlanInv, PlanEffect, Reloading
  <2>5. HolderInv'
      BY <1>1, <2>1, <2>3 DEF BeginRevert, HolderInv
  <2>6. RevertReplyInv'
      BY <1>1, <2>1, <2>3 DEF BeginRevert, RevertReplyInv, ReplyInv
  <2> QED
      BY <2>4, <2>5, <2>6
<1>2. ASSUME NEW p \in Writers, Planning(p)
      PROVE  PlanInv' /\ HolderInv' /\ RevertReplyInv'
  <2>0. /\ p \in Procs /\ mu = p /\ revert # NoRevert /\ reply = NoReply /\ up
        /\ \A q \in Procs : q # p => pc[q] \notin Critical
      BY <1>2, PlannerFacts DEF MuInv
  <2>1. CASE Release(p)
    <3>1. acked' \subseteq Ack
      <4>1. CASE acked' = acked
          BY <2>0, <4>1 DEF RevertReplyInv
      <4>2. CASE AnswerNoop(p)
        <5>1. Restore(ServiceAt(made[revert.target].tree)) \in Requests
            BY <1>2, PlannerFacts, RestoreIsRequest
        <5> DEFINE ack == [version |-> snap.version, loaded |-> TRUE,
                           request |-> Restore(ServiceAt(made[revert.target].tree))]
        <5>2. ack \in Ack
            BY <5>1 DEF Ack, Snapshots
        <5>3. acked' = acked \cup {ack}
            BY <4>2 DEF AnswerNoop
        <5>4. acked \subseteq Ack
            BY <2>0 DEF RevertReplyInv
        <5> HIDE DEF ack
        <5> QED
            BY <5>2, <5>3, <5>4
      <4> QED
          BY <1>0, <1>2, <4>1, <4>2 DEF Planning, PlanRefused, ManifestsRefused, PlanNoop,
              PlanRestore, PullBeforeNoop, ReloadedBeforeNoop, NotReloadedBeforeNoop, StartRestore
    <3>2. \A q \in Procs : pc'[q] \notin Critical
        BY <2>0, <2>1 DEF Release, Critical
    <3>3. PlanInv' /\ HolderInv'
        BY <2>1, <3>2, ConfigStoreAssumption DEF Release, PlanInv, HolderInv, Critical, Procs
    <3>4. RevertReplyInv'
        BY <1>0, <2>0, <2>1, <3>1, <3>2 DEF Release, RevertReplyInv, ReplyInv, PlanEffect, Critical, Procs
    <3> QED
        BY <3>3, <3>4
  <2>2. CASE StartRestore(p)
    <3>1. \A q \in Procs : pc'[q] \in Critical => q = p /\ pc'[q] = "git"
        BY <2>0, <2>2 DEF StartRestore, Critical
    <3>2. PlanInv' /\ HolderInv'
        BY <2>0, <2>2, <3>1 DEF StartRestore, PlanInv, HolderInv, Critical, Procs
    <3>3. RevertReplyInv'
        BY <1>0, <2>0, <2>2, <3>1 DEF StartRestore, RevertReplyInv, ReplyInv, PlanEffect, Critical, Procs
    <3> QED
        BY <3>2, <3>3
  <2>3. CASE mu' = mu /\ revert' # NoRevert
    <3>1. /\ acked' = acked
          /\ \/ PlanNoop(p) /\ Goto(p, "check") /\ revert' = revert
             \/ PullBeforeNoop(p) /\ Goto(p, "reload") /\ revert' = [revert EXCEPT !.pulled = local']
             \/ ReloadedBeforeNoop(p) /\ Goto(p, "plan") /\ revert' = revert
        BY <1>2, <2>0, <2>3 DEF Planning, PlanRefused, ManifestsRefused, PlanNoop, PlanRestore,
            PullBeforeNoop, ReloadedBeforeNoop, NotReloadedBeforeNoop, AnswerNoop, StartRestore,
            Release
    <3>2. local' \in Commits
        BY <1>0, PlannedSound DEF Sound, RepoTypeOK
    <3>3. PlanInv'
        BY <1>0, <2>0, <2>3, <3>1, <3>2 DEF PlanInv, PlanEffect, Plan, Reloading, Commits
    <3>4. HolderInv'
        BY <2>0, <2>3, <3>1 DEF HolderInv
    <3>5. RevertReplyInv'
        BY <2>0, <2>3, <3>1 DEF RevertReplyInv
    <3> QED
        BY <3>3, <3>4, <3>5
  <2>4. [revert EXCEPT !.pulled = local'] # NoRevert
    <3>1. revert \in Plan /\ local' \in Nat
        BY <1>0, <2>0, PlannedSound DEF PlanInv, Sound, RepoTypeOK, Commits
    <3>2. [revert EXCEPT !.pulled = local'] \in Plan
        BY <3>1 DEF Plan
    <3> QED
        BY <3>2, RevertAssumption
  <2> QED
      BY <1>2, <2>0, <2>1, <2>2, <2>3, <2>4 DEF Planning, PlanRefused, ManifestsRefused, PlanNoop,
          PlanRestore, PullBeforeNoop, ReloadedBeforeNoop, NotReloadedBeforeNoop, AnswerNoop
<1> QED
    BY <1>1, <1>2 DEF Planned

(***************************************************************************)
(* The rest of the server while a revert is planned.                       *)
(***************************************************************************)
\* It pulls, it hears of pushes, and it does the revert's own reload; no more.
LEMMA WhileReverting ==
    ASSUME RevertInv, Others, revert # NoRevert
    PROVE  /\ UNCHANGED <<up, mu, reply, acked>>
           /\ \/ pc'[mu] = pc[mu] /\ snap' = snap /\ pend'[mu] = pend[mu]
              \/ ReadSnapshot(mu) /\ pc'[mu] = "swap" /\ snap' = snap
                   /\ pend'[mu] = [version |-> local, data |-> work]
              \/ Swap(mu) /\ pc'[mu] = "settle"
           /\ local # 0
           /\ local' = local \/ (local' = remote /\ Reaches(remote, local))
<1> USE DEF RevertInv, TypeInv, StoreInv, StoreTypeOK, Goto
<1>0. /\ up /\ local # 0 /\ mu \in Writers /\ mu \in Procs /\ mu # NoOne
      /\ pc[mu] \in {"plan", "check", "reload", "swap", "settle"}
      /\ \A q \in Procs : q # mu => pc[q] \notin Critical
    BY ConfigStoreAssumption DEF PlanInv, CloneInv, MuInv, Reloading, Procs
<1>1. CASE OpenRepo \/ InitialPull
  <2>1. InitialPull /\ Main # mu /\ Main \in Procs
      BY <1>0, <1>1, ConfigStoreAssumption DEF OpenRepo, Procs
  <2> QED
      BY <1>0, <2>1, PullMovesForward DEF InitialPull, Pull, PullFails
<1>2. ASSUME NEW p \in Refreshers \cup Reloaders, RefreshFromRepo(p) \/ ReloadFromRepo(p)
      PROVE  /\ UNCHANGED <<up, mu, reply, acked, snap>> /\ pc'[mu] = pc[mu] /\ pend'[mu] = pend[mu]
             /\ local' = local \/ (local' = remote /\ Reaches(remote, local))
  <2>1. p # mu
      BY <1>0, ConfigStoreAssumption
  <2> QED
      BY <1>0, <1>2, <2>1, PullMovesForward DEF RefreshFromRepo, ReloadFromRepo, Pull, PullFails
<1>3. ASSUME NEW p \in Writers, Write(p) PROVE FALSE
    BY <1>0, <1>3 DEF Write, BeginWrite, Edit, WriteCommitted, WriteFailed, Critical, Procs
<1>4. ASSUME NEW p \in Procs, LockForReload(p) PROVE FALSE
    BY <1>0, <1>4 DEF LockForReload
<1>5. ASSUME NEW p \in Procs, ReadSnapshot(p)
      PROVE  /\ UNCHANGED <<up, mu, reply, acked, snap>> /\ local' = local
             /\ p = mu /\ pc'[mu] = "swap" /\ pend'[mu] = [version |-> local, data |-> work]
    BY <1>0, <1>5 DEF ReadSnapshot, Critical, repoVars
<1>6. ASSUME NEW p \in Procs, Swap(p)
      PROVE  /\ UNCHANGED <<up, mu, reply, acked>> /\ local' = local
             /\ p = mu /\ pc'[mu] = "settle"
    BY <1>0, <1>6 DEF Swap, Critical, repoVars
<1>7. CASE Outside
    BY <1>0, <1>7 DEF Outside, OutsidePush, checkout, storeVars
<1> QED
    BY <1>0, <1>1, <1>2, <1>3, <1>4, <1>5, <1>6, <1>7 DEF Others

LEMMA RevertAcks ==
    ASSUME RevertInv, (Plain /\ (Others \/ UNCHANGED vars)) \/ (Crash /\ [Next]_vars)
    PROVE  AcksAnswer
<1>1. CASE Crash \/ UNCHANGED vars
    BY <1>1 DEF Crash, vars, storeVars, AcksAnswer
<1>2. CASE Others /\ revert = NoRevert /\ Plain
    BY <1>2, AckSteps DEF Plain, RevertInv, RevertReplyInv
<1>3. CASE Others /\ revert # NoRevert
    BY <1>3, WhileReverting DEF AcksAnswer
<1> QED
    BY <1>1, <1>2, <1>3

\* Without a revert nobody comes to plan one, and a writer that holds Store.mu is at it.
LEMMA NoPlanAppears ==
    ASSUME TypeInv, [Next]_vars
    PROVE  /\ \A p \in Procs : pc'[p] \in {"plan", "check"} => pc'[p] = pc[p]
           /\ \A p \in Writers : mu' = p /\ pc'[p] = "idle" => mu = p /\ pc[p] = "idle"
<1> USE DEF TypeInv, StoreInv, StoreTypeOK, Goto
<1>0. \A p \in Writers : p \in Procs /\ p # NoOne
    BY ConfigStoreAssumption DEF Procs
<1>1. CASE OpenRepo \/ InitialPull
    BY <1>0, <1>1, ConfigStoreAssumption DEF OpenRepo, InitialPull
<1>2. CASE \E p \in Refreshers \cup Reloaders : RefreshFromRepo(p) \/ ReloadFromRepo(p)
    BY <1>0, <1>2 DEF RefreshFromRepo, ReloadFromRepo
<1>3. CASE \E p \in Writers : Write(p)
    BY <1>0, <1>3 DEF Write, BeginWrite, Edit, WriteCommitted, WriteFailed, storeVars
<1>4. CASE \E p \in Procs : LockForReload(p) \/ ReadSnapshot(p) \/ Swap(p)
    BY <1>0, <1>4 DEF LockForReload, ReadSnapshot, Swap
<1>5. CASE \E p \in Procs : ReadFails(p) \/ Settle(p)
    BY <1>0, <1>5 DEF ReadFails, Settle, Finish
<1>6. CASE Outside \/ UNCHANGED vars
    BY <1>0, <1>6 DEF Outside, vars, storeVars
<1>7. CASE Crash
    BY <1>0, <1>7 DEF Crash
<1> QED
    BY <1>1, <1>2, <1>3, <1>4, <1>5, <1>6, <1>7 DEF Next, Reload

LEMMA OtherInvs ==
    ASSUME RevertInv, Plain, Others \/ UNCHANGED vars
    PROVE  PlanInv' /\ HolderInv' /\ RevertReplyInv'
<1> USE DEF RevertInv, TypeInv, Plain
<1>1. HolderInv'
    BY NoPlanAppears DEF HolderInv
<1>2. CASE revert = NoRevert
    BY <1>1, <1>2, ReplyNext DEF PlanInv, RevertReplyInv
<1>3. CASE revert # NoRevert /\ UNCHANGED vars
    BY <1>1, <1>3 DEF vars, repoVars, storeVars, PlanInv, RevertReplyInv, Commits
<1>4. CASE revert # NoRevert /\ Others
  <2>1. /\ UNCHANGED <<up, mu, reply, acked>>
        /\ pc'[mu] = pc[mu] \/ (pc[mu] = "reload" /\ pc'[mu] = "swap")
            \/ (pc[mu] = "swap" /\ pc'[mu] = "settle")
      BY <1>4, WhileReverting DEF ReadSnapshot, Swap
  <2>2. Commits \subseteq Commits'
      BY NextGrows, GrowKeeps DEF RepoInv
  <2> QED
      BY <1>1, <1>4, <2>1, <2>2 DEF PlanInv, RevertReplyInv, Reloading
<1> QED
    BY <1>2, <1>3, <1>4

LEMMA CrashInvs ==
    ASSUME RevertInv, Crash, revert' = NoRevert
    PROVE  PlanInv' /\ HolderInv' /\ RevertReplyInv'
    BY ConfigStoreAssumption DEF Crash, RevertInv, PlanInv, HolderInv, RevertReplyInv, ReplyInv, Procs

LEMMA RevertInvNext ==
    ASSUME RevertInv, [RevertNext]_revertVars PROVE RevertInv'
<1> USE DEF RevertInv
<1>1. CASE Plain /\ (Others \/ UNCHANGED vars)
    BY <1>1, TypeNext, OtherInvs DEF Plain
<1>2. CASE Crash /\ [Next]_vars /\ revert' = NoRevert
    BY <1>2, TypeNext, CrashInvs
<1>3. CASE Planned
    BY <1>3, PlannedSound, PlannedStoreInv, PlannedInvs DEF TypeInv, Sound
<1> QED
    BY <1>1, <1>2, <1>3, RevertSteps

LEMMA RevertInvAlways == RevertSpec => []RevertInv
<1>1. RevertInit => RevertInv
  <2> SUFFICES ASSUME RevertInit PROVE RevertInv
      OBVIOUS
  <2>1. TypeInv /\ ReplyInv
      BY TypeInit, ReplyInit DEF RevertInit
  <2>2. revert = NoRevert /\ mu = NoOne /\ \A p \in Procs : pc[p] = "idle"
      BY DEF RevertInit, Init
  <2> QED
      BY <2>1, <2>2, ConfigStoreAssumption DEF RevertInv, PlanInv, HolderInv, RevertReplyInv, Procs
<1> QED
    BY <1>1, RevertInvNext, PTL DEF RevertSpec

\* Every variable keeps its type with reverts as well; a revert that is planned holds
\* Store.mu, and a writer holds it from its first step to its last (ApplyRevert).
THEOREM RevertTypeCorrect == RevertSpec => []RevertTypeOK
<1>1. RevertInv => RevertTypeOK
  <2> SUFFICES ASSUME RevertInv PROVE RevertTypeOK
      OBVIOUS
  <2> USE DEF RevertInv, TypeInv, RepoInv, StoreInv
  <2>1. reply \in Reply \cup {NoReply} /\ acked \subseteq Ack
      BY DEF PlanInv, RevertReplyInv, ReplyInv
  <2>2. TypeOK
      BY <2>1 DEF TypeOK, StoreTypeOK
  <2>3. revert \in Plan \cup {NoRevert} /\ (revert # NoRevert => mu \in Writers)
      BY DEF PlanInv
  <2>4. ASSUME NEW p \in Writers PROVE mu = p <=> pc[p] # "idle"
    <3>1. pc[p] \in {"idle"} \cup Critical
        BY DEF StoreTypeOK, Places, WriterInv, Critical, Procs
    <3> QED
        BY <3>1 DEF MuInv, HolderInv, Procs
  <2> QED
      BY <2>2, <2>3, <2>4 DEF RevertTypeOK
<1> QED
    BY <1>1, RevertInvAlways, PTL

(***************************************************************************)
(* The commit graph and the faults.                                        *)
(***************************************************************************)
LEMMA RevertGrows ==
    ASSUME RevertInv, [RevertNext]_revertVars PROVE Grow /\ Spends
<1>1. CASE [Next]_vars
    BY <1>1, NextGrows DEF RevertInv
<1>2. CASE Planned
    BY <1>2, PlannedSound DEF Sound, Spends
<1> QED
    BY <1>1, <1>2, RevertSteps DEF Plain

LEMMA RevertGraph == RevertSpec => []GraphInv
<1>1. RevertInit => GraphInv
    BY GraphInit DEF RevertInit, Init
<1>2. RevertInv /\ GraphInv /\ [RevertNext]_revertVars => GraphInv'
    BY RevertGrows, GraphGrows DEF RevertInv, TypeInv, RepoInv
<1> QED
    BY <1>1, <1>2, RevertInvAlways, PTL DEF RevertSpec

LEMMA RevertBudgetNext ==
    ASSUME RevertInv, BudgetInv, [RevertNext]_revertVars
    PROVE  BudgetInv' /\ \A k \in Events : Spent(k) => Spent(k)'
<1>1. /\ budget \in [Events -> Nat] /\ budget' \in [Events -> Nat]
      /\ \A k \in Events : budget'[k] <= budget[k]
    BY RevertGrows, RevertInvNext DEF RevertInv, TypeInv, RepoInv, RepoTypeOK, Spends
<1>2. Budget \in [Events -> Nat]
    BY GitRepoAssumption
<1> QED
    BY <1>1, <1>2 DEF BudgetInv, Spent

LEMMA RevertBudget == RevertSpec => []BudgetInv
<1>1. RevertInit => BudgetInv
    BY GitRepoAssumption DEF RevertInit, Init, RepoInit, BudgetInv
<1>2. RevertInv /\ BudgetInv /\ [RevertNext]_revertVars => BudgetInv'
    BY RevertBudgetNext
<1> QED
    BY <1>1, <1>2, RevertInvAlways, PTL DEF RevertSpec

(***************************************************************************)
(* The snapshot is still a commit.                                         *)
(***************************************************************************)
LEMMA RevertFaithful == RevertSpec => []FaithfulInv
<1>1. RevertInv /\ FaithfulInv /\ [RevertNext]_revertVars => FaithfulInv'
  <2> SUFFICES ASSUME RevertInv, FaithfulInv, [RevertNext]_revertVars PROVE FaithfulInv'
      OBVIOUS
  <2>1. CASE [Next]_vars
      BY <2>1, FaithfulNext DEF RevertInv
  <2>2. CASE Planned
      BY <2>2, PlannedEffect DEF PlanEffect, SnapshotKept, FaithfulInv, Faithful, Commits
  <2> QED
      BY <2>1, <2>2, RevertSteps DEF Plain
<1> QED
    BY <1>1, FaithfulInit, RevertInvAlways, PTL DEF RevertSpec, RevertInit

(***************************************************************************)
(* A revert that found nothing to do has looked.                           *)
(***************************************************************************)
\* What was pulled has all that the branch held when the revert began, and what has
\* been read since has all that was pulled.
FreshInv ==
    revert # NoRevert =>
        /\ Reaches(remote, revert.known)
        /\ revert.pulled # 0 =>
              /\ Reaches(revert.pulled, revert.known)
              /\ pc[mu] = "reload" => Reaches(local, revert.pulled)
              /\ pc[mu] = "swap" => Reaches(pend[mu].version, revert.pulled)
              /\ pc[mu] \in {"settle", "plan"} =>
                    snap.version \in Commits /\ Reaches(snap.version, revert.pulled)

LEMMA PlannedFresh ==
    ASSUME RevertInv, GraphInv, FreshInv, Planned PROVE FreshInv'
<1> USE DEF RevertInv, TypeInv, RepoInv, StoreInv, StoreTypeOK, Goto
<1>0. /\ PlanEffect /\ made' = made /\ remote' = remote /\ snap' = snap /\ local # 0
      /\ Commits' = Commits /\ remote \in Commits /\ local \in Commits
      /\ Reaches(remote, remote)
    BY PlannedEffect DEF PlanEffect, Commits, RepoTypeOK, GraphInv, Reaches
<1>1. CASE \E p \in Writers, t \in Commits : BeginRevert(p, t)
    BY <1>0, <1>1 DEF BeginRevert, FreshInv, Reaches
<1>2. ASSUME NEW p \in Writers, Planning(p), revert' # NoRevert PROVE FreshInv'
  <2>0. p \in Procs /\ mu = p /\ revert # NoRevert /\ revert.known \in Commits
        /\ revert \in Plan /\ Reaches(remote, revert.known)
      BY <1>2, PlannerFacts DEF PlanInv, FreshInv
  <2>1. CASE PlanNoop(p)
      BY <1>0, <2>0, <2>1 DEF PlanNoop, FreshInv, Reaches
  <2>2. CASE PullBeforeNoop(p)
    <3>1. Pull /\ revert' = [revert EXCEPT !.pulled = local'] /\ pc' = [pc EXCEPT ![p] = "reload"]
          /\ mu' = mu
        BY <1>2, <2>2 DEF PullBeforeNoop, Release
    <3>2. (Reaches(local, remote) /\ local' = local) \/ local' = remote
        BY <3>1 DEF Pull, PullOk, PullUpToDate, PullForward, CheckOut, checkout
    <3>3. local' \in Commits /\ revert.known \in made[local'].anc /\ local' \in made[local'].anc
        BY <1>0, <2>0, <3>2 DEF Reaches, GraphInv
    <3>4. revert'.pulled = local' /\ revert'.known = revert.known
        BY <2>0, <3>1 DEF Plan
    <3> QED
        BY <1>0, <2>0, <3>1, <3>3, <3>4 DEF FreshInv, Reaches
  <2>3. CASE ReloadedBeforeNoop(p)
      BY <1>0, <2>0, <2>3 DEF ReloadedBeforeNoop, FreshInv, Reaches
  <2> QED
      BY <1>2, <2>1, <2>2, <2>3 DEF Planning, PlanRefused, ManifestsRefused, PlanRestore,
          StartRestore, Release, NotReloadedBeforeNoop, AnswerNoop
<1>3. CASE revert' = NoRevert
    BY <1>3 DEF FreshInv
<1> QED
    BY <1>1, <1>2, <1>3 DEF Planned

LEMMA OthersFresh ==
    ASSUME RevertInv, GraphInv, FaithfulInv, FreshInv, Plain, Others, revert # NoRevert
    PROVE  FreshInv'
<1> USE DEF RevertInv, TypeInv, RepoInv, StoreInv, StoreTypeOK
<1>0. mu' = mu /\ revert' = revert /\ mu \in Procs
      /\ revert.known \in Commits /\ revert.pulled \in Commits \cup {0}
    BY WhileReverting DEF Plain, PlanInv, Procs
<1>1. /\ Commits \subseteq Commits' /\ \A c \in Commits : made'[c] = made[c]
      /\ remote \in Commits
    BY NextGrows, GrowKeeps DEF RepoTypeOK, Plain
<1>2. revert.known \in made'[remote'].anc
    BY StaysAccepted DEF FreshInv, Plain
<1>3. local \in Commits /\ local' \in {local, remote}
      /\ (Reaches(local, revert.pulled) => Reaches(local', revert.pulled))
    BY <1>1, WhileReverting DEF RepoTypeOK, GraphInv, Reaches
<1>4. ASSUME revert.pulled # 0, pc'[mu] = "reload"
      PROVE  revert.pulled \in made'[local'].anc
  <2>1. pc[mu] = "reload"
      BY <1>4, WhileReverting
  <2> QED
      BY <1>0, <1>1, <1>3, <1>4, <2>1 DEF FreshInv, Reaches
<1>5. ASSUME revert.pulled # 0, pc'[mu] = "swap"
      PROVE  revert.pulled \in made'[pend'[mu].version].anc
  <2>1. CASE ReadSnapshot(mu) /\ pend'[mu] = [version |-> local, data |-> work]
      BY <1>1, <1>3, <1>5, <2>1 DEF FreshInv, Reaches, ReadSnapshot
  <2>2. CASE pc[mu] = "swap" /\ pend'[mu] = pend[mu]
    <3>1. pend[mu].version \in Commits
        BY <1>0, <2>2 DEF FaithfulInv, Faithful
    <3> QED
        BY <1>1, <1>5, <2>2, <3>1 DEF FreshInv, Reaches
  <2> QED
      BY <1>5, <2>1, <2>2, WhileReverting
<1>6. ASSUME revert.pulled # 0, pc'[mu] \in {"settle", "plan"}
      PROVE  snap'.version \in Commits' /\ revert.pulled \in made'[snap'.version].anc
  <2>1. CASE Swap(mu)
      BY <1>0, <1>1, <1>6, <2>1 DEF Swap, FaithfulInv, Faithful, FreshInv, Reaches
  <2>2. CASE pc'[mu] = pc[mu] /\ snap' = snap
      BY <1>1, <1>6, <2>2 DEF FreshInv, Reaches
  <2> QED
      BY <1>6, <2>1, <2>2, WhileReverting
<1>7. revert.pulled # 0 => Reaches(revert.pulled, revert.known)'
    BY <1>0, <1>1 DEF FreshInv, Reaches
<1> QED
    BY <1>0, <1>2, <1>4, <1>5, <1>6, <1>7 DEF FreshInv, Reaches

LEMMA FreshNext ==
    ASSUME RevertInv, GraphInv, FaithfulInv, FreshInv, [RevertNext]_revertVars
    PROVE  FreshInv'
<1>1. CASE UNCHANGED vars /\ UNCHANGED revert
    BY <1>1 DEF vars, repoVars, storeVars, FreshInv, Reaches, Commits
<1>2. CASE revert' = NoRevert
    BY <1>2 DEF FreshInv
<1> QED
    BY <1>1, <1>2, PlannedFresh, OthersFresh, RevertSteps DEF Plain

LEMMA FreshAlways == RevertSpec => []FreshInv
<1>1. RevertInit => FreshInv
    BY DEF RevertInit, FreshInv
<1>2. RevertInv /\ GraphInv /\ FaithfulInv /\ FreshInv /\ [RevertNext]_revertVars => FreshInv'
    BY FreshNext
<1> QED
    BY <1>1, <1>2, RevertInvAlways, RevertGraph, RevertFaithful, PTL DEF RevertSpec

\* What a revert has seen when it answers that there is nothing to do.
LEMMA NoopHasPulled ==
    ASSUME RevertInv, GraphInv, FreshInv, NEW p \in Writers, AnswerNoop(p)
    PROVE  snap.version \in Commits /\ Reaches(snap.version, revert.known)
<1>1. mu = p /\ pc[p] = "plan" /\ revert.pulled # 0 /\ revert # NoRevert
    BY PlannerFacts DEF AnswerNoop, Planning
<1>2. snap.version \in Commits /\ Reaches(snap.version, revert.pulled)
      /\ Reaches(revert.pulled, revert.known)
    BY <1>1 DEF FreshInv
<1> QED
    BY <1>2 DEF GraphInv, Reaches

\* "Nothing to do" is said of a version that has all that was on the branch when the
\* revert began, whatever others pull, push or break in the meantime (ApplyRevert).
THEOREM NoopsAreFresh == RevertSpec => NoopIsFresh
<1>1. RevertInv /\ GraphInv /\ FreshInv
      => \A p \in Writers : AnswerNoop(p) => Reaches(snap.version, revert.known)
    BY NoopHasPulled
<1> QED
    BY <1>1, RevertInvAlways, RevertGraph, FreshAlways, PTL DEF NoopIsFresh

(***************************************************************************)
(* What a revert is answered with.                                         *)
(***************************************************************************)
\* Planning has no answer ready, and disturbs neither the commit to go back to nor the
\* checkout, unless its pull stops half way.
LEMMA PlannedRest ==
    ASSUME RevertInv, BudgetInv, Planned
    PROVE  /\ UNCHANGED <<made, remote>> /\ Commits' = Commits
           /\ Base' \in {Base, remote}
           /\ \A p \in Writers : ~Answering(p)'
           /\ Running
           /\ Tidy /\ ~Spend("disk") => Tidy'
<1>1. PlanEffect
    BY PlannedEffect
<1>2. made' = made /\ remote' = remote /\ Running /\ \A p \in Writers : ~Answering(p)'
    BY <1>1 DEF PlanEffect, Running, Answering
<1>3. CASE UNCHANGED <<checkout, editVars>>
    BY <1>2, <1>3 DEF checkout, editVars, Base, Tidy, Clean, HeadTree, Edited, Commits
<1>4. CASE UNCHANGED editVars /\ phase = "free" /\ (PullOk \/ PullError)
  <2>1. local' \in {local, remote} /\ phase' = "free"
      BY <1>4, PullKeepsType DEF editVars, RevertInv, TypeInv, RepoInv
  <2> QED
      BY <1>2, <1>4, <2>1, PullTidies
      DEF Base, Tidy, Clean, HeadTree, Commits, RevertInv, TypeInv, RepoInv
<1>5. CASE UNCHANGED checkout /\ phase = "free" /\ phase' = "pull"
    BY <1>2, <1>5 DEF checkout, Base, Tidy, Clean, HeadTree, Commits
<1> QED
    BY <1>1, <1>2, <1>3, <1>4, <1>5 DEF PlanEffect

\* The answer to a revert with nothing to do.
LEMMA NoopAnswer ==
    ASSUME RevertInv, GraphInv, FreshInv, Planned, NEW a \in acked', a \notin acked
    PROVE  /\ a.version = snap.version /\ snap.version \in Commits
           /\ a.request.kind = "restore" /\ a.request.edit \in [ServiceFiles -> Blob]
           /\ ServiceAt(made[a.version].tree) = a.request.edit
<1>1. PICK p \in Writers : AnswerNoop(p)
    BY PlannedEffect DEF PlanEffect
<1>2. /\ revert.target \in Commits
      /\ Restore(ServiceAt(made[revert.target].tree)).edit \in [ServiceFiles -> Blob]
    BY <1>1, PlannerFacts, RestoreIsRequest DEF Planning, RevertInv, TypeInv, RepoInv
<1>3. snap.version \in Commits
    BY <1>1, NoopHasPulled
<1>4. a = [version |-> snap.version, loaded |-> TRUE,
           request |-> Restore(ServiceAt(made[revert.target].tree))]
    BY <1>1 DEF AnswerNoop
<1> QED
    BY <1>1, <1>2, <1>3, <1>4 DEF AnswerNoop, SameService, Restore

LEMMA NoopCarried ==
    ASSUME RevertInv, GraphInv, FreshInv, Planned, NEW a \in acked', a \notin acked
    PROVE  Carried(a)
<1>1. \A f \in ServiceFiles : made[a.version].tree[f] = ServiceAt(made[a.version].tree)[f]
    BY DEF ServiceAt
<1> QED
    BY <1>1, NoopAnswer DEF Carried, Holds

\* What is accepted stays so: a revert with nothing to do is answered with what is served.
LEMMA PlannedAccepted ==
    ASSUME RevertInv, GraphInv, FreshInv, BudgetInv, AcceptedInv, Planned
    PROVE  AcceptedInv'
<1>1. /\ UNCHANGED <<made, remote>> /\ Base' \in {Base, remote}
      /\ \A p \in Writers : ~Answering(p)'
    BY PlannedRest
<1>2. snap' = snap /\ SnapshotKept /\ local # 0
    BY PlannedEffect DEF PlanEffect
<1>3. Reaches(remote, remote)
    BY DEF GraphInv, Reaches, RevertInv, TypeInv, RepoInv, RepoTypeOK
<1>4. \A a \in acked' : Reaches(remote, a.version)
    BY NoopAnswer DEF AcceptedInv, Commits
<1> QED
    BY <1>1, <1>2, <1>3, <1>4 DEF AcceptedInv, SnapshotKept, Reaches

LEMMA RevertAccepted == RevertSpec => []IsAccepted
<1>1. RevertInv /\ GraphInv /\ FreshInv /\ IsAccepted /\ [RevertNext]_revertVars => IsAccepted'
  <2> SUFFICES ASSUME RevertInv, GraphInv, FreshInv, IsAccepted, [RevertNext]_revertVars, ~Damaged'
               PROVE  AcceptedInv'
      BY RevertBudgetNext DEF IsAccepted
  <2>1. ~Damaged
      BY RevertBudgetNext DEF IsAccepted, Damaged, Events
  <2>2. CASE [Next]_vars /\ AcksAnswer
      BY <2>1, <2>2, AcceptedNext DEF IsAccepted, RevertInv
  <2>3. CASE Planned
      BY <2>1, <2>3, PlannedAccepted DEF IsAccepted
  <2> QED
      BY <2>2, <2>3, RevertSteps, RevertAcks DEF Plain
<1> QED
    BY <1>1, AcceptedInit, RevertInvAlways, RevertGraph, FreshAlways, PTL DEF RevertSpec, RevertInit

\* With reverts, too, all that is served and all that is answered is on the remote for
\* good, unless the process died or a reset failed before it had moved HEAD
\* (ApplyRevert, RestoreServiceFilesAndPush).
THEOREM RevertsLoseNothing == RevertSpec => []AcceptedUnlessCrashOrReset
    BY RevertAccepted, IsAcceptedUnlessDamaged, PTL

(***************************************************************************)
(* What a revert puts back.                                                *)
(***************************************************************************)
LEMMA PlannedContent ==
    ASSUME RevertInv, GraphInv, FreshInv, ContentInv, Planned
    PROVE  ContentInv'
<1>1. UNCHANGED made /\ Commits' = Commits /\ \A p \in Writers : ~Answering(p)'
    BY PlannedEffect DEF PlanEffect, Answering, Commits
<1>2. /\ phase' = "commit" => Holds(request', index') \/ Unstaged'
      /\ phase' \in {"push", "ok"} => Holds(request', made'[local'].tree) \/ Unstaged'
  <2>1. CASE UNCHANGED <<checkout, editVars>>
      BY <1>1, <2>1 DEF checkout, editVars, ContentInv, HeadTree, Unstaged
  <2>2. CASE phase = "free" /\ (UNCHANGED editVars \/ phase' = "pull")
      BY <2>2 DEF editVars
  <2> QED
      BY <2>1, <2>2, PlannedEffect DEF PlanEffect
<1>3. \A a \in acked' : a.loaded => Carried(a)
    BY NoopCarried DEF ContentInv
<1> QED
    BY <1>1, <1>2, <1>3 DEF ContentInv, Carried, HeadTree, Holds

LEMMA RevertContent == RevertSpec => []ContentInv
<1>1. RevertInv /\ GraphInv /\ FreshInv /\ ContentInv /\ [RevertNext]_revertVars => ContentInv'
  <2> SUFFICES ASSUME RevertInv, GraphInv, FreshInv, ContentInv, [RevertNext]_revertVars
               PROVE  ContentInv'
      OBVIOUS
  <2>1. CASE [Next]_vars /\ AcksAnswer
      BY <2>1, ContentNext DEF RevertInv
  <2>2. CASE Planned
      BY <2>2, PlannedContent
  <2> QED
      BY <2>1, <2>2, RevertSteps, RevertAcks DEF Plain
<1> QED
    BY <1>1, ContentInit, RevertInvAlways, RevertGraph, FreshAlways, PTL DEF RevertSpec, RevertInit

\* No plain answer is false, not even when the revert could not stage a removal, or
\* found nothing to do (RestoreServiceFilesAndPush, ApplyRevert).
THEOREM PlainRevertsAreTrue == RevertSpec => []PlainAnswerIsTrue
<1>1. ContentInv => PlainAnswerIsTrue
    BY DEF ContentInv, Carried, Holds, PlainAnswerIsTrue, IsCarriedOut
<1> QED
    BY <1>1, RevertContent, PTL

LEMMA RevertTidyNext ==
    ASSUME RevertInv, BudgetInv, TidyOrDisk, [RevertNext]_revertVars
    PROVE  TidyOrDisk'
<1>1. Spent("disk") => Spent("disk")'
    BY RevertBudgetNext DEF Events
<1>2. CASE [Next]_vars
    BY <1>1, <1>2, TidyNext, OwnNext DEF TidyOrDisk, RevertInv
<1>3. CASE Planned
  <2>1. UNCHANGED made /\ Commits' = Commits /\ Running /\ (Tidy /\ ~Spend("disk") => Tidy')
      BY <1>3, PlannedRest
  <2>2. Spend("disk") => Spent("disk")'
      BY SpendingShows DEF RevertInv, Events
  <2> QED
      BY <1>1, <2>1, <2>2 DEF TidyOrDisk, TidyInv, OwnInv
<1> QED
    BY <1>2, <1>3, RevertSteps DEF Plain

LEMMA RevertTidy == RevertSpec => []TidyOrDisk
<1>1. Init => TidyOrDisk
    BY TidyStart
<1> QED
    BY <1>1, RevertTidyNext, RevertInvAlways, RevertBudget, PTL DEF RevertSpec, RevertInit

\* A revert's commit, too, changes what its request names and nothing else, unless a
\* file operation has failed, be it in the reset that was to undo an earlier commit
\* (RestoreServiceFilesAndPush, resetToParent).
THEOREM OnlyDiskMixesReverts == RevertSpec => []MixedOnlyByDisk
<1>1. TidyOrDisk => MixedOnlyByDisk
    BY OwnTrees DEF TidyOrDisk, MixedOnlyByDisk
<1> QED
    BY <1>1, RevertTidy, PTL

LEMMA RevertKeptNext ==
    ASSUME RevertInv, GraphInv, FreshInv, BudgetInv, TidyOrDisk, ContentInv, KeptOrDisk,
           [RevertNext]_revertVars
    PROVE  KeptOrDisk'
<1>1. Spent("disk") => Spent("disk")'
    BY RevertBudgetNext DEF Events
<1>2. CASE [Next]_vars /\ AcksAnswer
    BY <1>1, <1>2, KeptNext DEF TidyOrDisk, KeptOrDisk, RevertInv
<1>3. CASE Planned
  <2>1. UNCHANGED made /\ Commits' = Commits /\ \A p \in Writers : ~Answering(p)'
      BY <1>3, PlannedEffect DEF PlanEffect, Answering, Commits
  <2>2. KeptInv => \A a \in acked' : Carried(a)
      BY <1>3, NoopCarried DEF KeptInv
  <2> QED
      BY <1>1, <2>1, <2>2 DEF KeptOrDisk, KeptInv, Carried, Holds
<1> QED
    BY <1>2, <1>3, RevertSteps, RevertAcks DEF Plain

LEMMA RevertKept == RevertSpec => []KeptOrDisk
<1>1. Init => KeptOrDisk
    BY DEF Init, KeptOrDisk, KeptInv, Answering, Procs
<1> QED
    BY <1>1, RevertKeptNext, RevertInvAlways, RevertGraph, FreshAlways, RevertBudget, RevertTidy,
       RevertContent, PTL DEF RevertSpec, RevertInit

\* A restore names every file of the service and no other.
WholeService(r) == r # NoRequest /\ r.kind = "restore" => r.edit \in [ServiceFiles -> Blob]

WholeInv ==
    /\ WholeService(request) /\ WholeService(reply.request)
    /\ \A a \in acked : WholeService(a.request)

LEMMA RequestSteps ==
    ASSUME [Next]_vars
    PROVE  /\ request' \in {request, NoRequest} \/ request'.kind # "restore"
           /\ reply' \in {reply, NoReply} \/ reply'.request = request
<1>1. CASE \E p \in Writers : Write(p)
    BY <1>1 DEF Write, BeginWrite, BeginEdit, Edit, WriteCommitted, WriteFailed, EndEdit,
        EditStep, PreCommitPull, StageWrites, StageRemovals, StageRestore, CommitStaged, Push,
        UndoTerminal, UndoAndRetry, storeVars
<1>2. CASE \E p \in Procs : Reload(p)
    BY <1>2 DEF Reload, LockForReload, ReadSnapshot, ReadFails, Swap, Settle, Finish, repoVars,
        editVars
<1>3. CASE OpenRepo \/ InitialPull \/ \E p \in Procs : RefreshFromRepo(p) \/ ReloadFromRepo(p)
    BY <1>3 DEF OpenRepo, InitialPull, RefreshFromRepo, ReloadFromRepo, CloneOrOpen, CloneFails,
        Pull, PullFails, editVars
<1>4. CASE Outside \/ Crash \/ UNCHANGED vars
    BY <1>4 DEF Outside, OutsidePush, Crash, RepoCrash, vars, repoVars, storeVars, editVars
<1> QED
    BY <1>1, <1>2, <1>3, <1>4 DEF Next, Procs

LEMMA WholeNext ==
    ASSUME RevertInv, GraphInv, FreshInv, WholeInv, [RevertNext]_revertVars
    PROVE  WholeInv'
<1>1. WholeService(NoRequest) /\ NoReply.request = NoRequest
    BY DEF WholeService, NoReply
<1>2. CASE [Next]_vars /\ AcksAnswer
  <2>1. WholeService(request') /\ WholeService(reply'.request)
      BY <1>1, <1>2, RequestSteps DEF WholeInv, WholeService
  <2>2. \A a \in acked' : WholeService(a.request)
      BY <1>2 DEF WholeInv, AcksAnswer
  <2> QED
      BY <2>1, <2>2 DEF WholeInv, WholeService
<1>3. CASE Planned
  <2>1. WholeService(request') /\ reply' = reply
      BY <1>3, PlannedEffect DEF PlanEffect, editVars, WholeInv, WholeService
  <2>2. \A a \in acked' : WholeService(a.request)
      BY <1>3, NoopAnswer DEF WholeInv, WholeService
  <2> QED
      BY <2>1, <2>2 DEF WholeInv, WholeService
<1> QED
    BY <1>2, <1>3, RevertSteps, RevertAcks DEF Plain

LEMMA WholeAlways == RevertSpec => []WholeInv
<1>1. Init => WholeInv
    BY DEF Init, RepoInit, NoReply, WholeInv, WholeService
<1> QED
    BY <1>1, WholeNext, RevertInvAlways, RevertGraph, FreshAlways, PTL DEF RevertSpec, RevertInit

\* A revert that is answered with a version has put the service back exactly: at that
\* version its files are the target's, none missing, changed or left over, and the
\* remote has it for good, whatever others pushed since the plan was made, however
\* often it was tried, and whether it made a commit or found nothing to do, unless the
\* process died, a reset could not begin or a file operation failed (ApplyRevert,
\* RestoreServiceFilesAndPush).
THEOREM RevertsAreExact ==
    RevertSpec => [](RevertIsExact \/ Spent("crash") \/ Spent("reset") \/ Spent("disk"))
<1>1. /\ RevertInv /\ KeptOrDisk /\ WholeInv /\ AcceptedUnlessCrashOrReset
      => RevertIsExact \/ Spent("crash") \/ Spent("reset") \/ Spent("disk")
  <2> SUFFICES ASSUME RevertInv, KeptInv, WholeInv, AckedIsPushed,
                      NEW a \in acked, a.request.kind = "restore"
               PROVE  Reaches(remote, a.version) /\ ServiceAt(made[a.version].tree) = a.request.edit
      BY DEF KeptOrDisk, AcceptedUnlessCrashOrReset, RevertIsExact
  <2>1. a \in Ack
      BY DEF RevertInv, RevertReplyInv, ReplyInv
  <2>2. a.request # NoRequest
      BY <2>1, GitRepoAssumption DEF Ack
  <2>3. a.request.edit \in [ServiceFiles -> Blob]
      BY <2>2 DEF WholeInv, WholeService
  <2>4. \A f \in ServiceFiles : made[a.version].tree[f] = a.request.edit[f]
      BY <2>3 DEF KeptInv, Carried, Holds
  <2>5. ServiceAt(made[a.version].tree) = a.request.edit
      BY <2>3, <2>4 DEF ServiceAt
  <2> QED
      BY <2>5 DEF AckedIsPushed
<1> QED
    BY <1>1, RevertInvAlways, RevertKept, WholeAlways, RevertsLoseNothing, PTL

(***************************************************************************)
(* Readers while reverts are planned.                                      *)
(***************************************************************************)
\* A pull before a revert moves the clone forward, like every other.
LEMMA PlannedForward ==
    ASSUME RevertInv, GraphInv, Planned
    PROVE  /\ Base' = Base \/ (Base' = remote /\ Reaches(remote, Base))
           /\ \A c : Reaches(Base, c) => Reaches(Base, c)'
<1>1. PlanEffect
    BY PlannedEffect
<1>2. made' = made /\ remote' = remote /\ local # 0
    BY <1>1 DEF PlanEffect
<1>3. Base' = Base \/ (Base' = remote /\ Reaches(remote, Base))
  <2>1. CASE UNCHANGED <<checkout, editVars>>
      BY <1>2, <2>1 DEF checkout, editVars, Base
  <2>2. CASE UNCHANGED editVars /\ phase = "free" /\ (PullOk \/ PullError)
      BY <1>2, <2>2, PullMovesForward DEF editVars, Base
  <2>3. CASE UNCHANGED checkout /\ phase = "free" /\ phase' = "pull"
      BY <1>2, <2>3 DEF checkout, Base
  <2> QED
      BY <1>1, <2>1, <2>2, <2>3 DEF PlanEffect
<1>4. Base \in Commits /\ remote \in Commits
    BY <1>2, BaseIsCommit DEF RevertInv, TypeInv, RepoInv, RepoTypeOK
<1>5. ASSUME NEW c, c \in made[Base].anc PROVE c \in made[Base'].anc
    BY <1>3, <1>4, <1>5 DEF GraphInv, Reaches
<1> QED
    BY <1>2, <1>3, <1>5 DEF Reaches

LEMMA RevertForwardNext ==
    ASSUME RevertInv, GraphInv, ForwardInv, [RevertNext]_revertVars
    PROVE  ForwardInv'
<1>1. CASE [Next]_vars
    BY <1>1, ForwardNext DEF RevertInv
<1>2. CASE Planned
  <2>1. /\ snap' = snap /\ UNCHANGED made
        /\ \A p \in Procs : pc'[p] = "swap" => pc[p] = "swap" /\ pend'[p] = pend[p]
      BY <1>2, PlannedEffect DEF PlanEffect, SnapshotKept
  <2>2. local' # 0
      BY <1>2, PlannedSound
  <2> QED
      BY <1>2, <2>1, <2>2, PlannedForward DEF ForwardInv, Reaches
<1> QED
    BY <1>1, <1>2, RevertSteps DEF Plain

LEMMA RevertForward == RevertSpec => []ForwardInv
    BY RevertForwardNext, ForwardInit, RevertInvAlways, RevertGraph, PTL DEF RevertSpec, RevertInit

\* Reverts, too, show readers the same version of the branch or a later one, from one
\* look to the next: what goes back is the files of a service, by a new commit
\* (ApplyRevert).
THEOREM RevertsMoveForward == RevertSpec => ServedForward
<1>1. RevertInv /\ GraphInv /\ ForwardInv /\ [RevertNext]_revertVars =>
          [snap.version # 0 /\ snap'.version # 0 => Reaches(snap'.version, snap.version)]_vars
  <2> SUFFICES ASSUME RevertInv, GraphInv, ForwardInv, [RevertNext]_revertVars,
                      snap.version # 0, snap'.version # 0
               PROVE  Reaches(snap'.version, snap.version)
      OBVIOUS
  <2>1. CASE [Next]_vars
      BY <2>1, SnapForward DEF RevertInv
  <2>2. CASE Planned
    <3>1. snap' = snap
        BY <2>2, PlannedEffect DEF PlanEffect
    <3>2. snap.version \in Commits
        BY BaseIsCommit DEF ForwardInv, Reaches, RevertInv
    <3> QED
        BY <3>1, <3>2 DEF GraphInv, Reaches
  <2> QED
      BY <2>1, <2>2, RevertSteps DEF Plain
<1> QED
    BY <1>1, RevertInvAlways, RevertGraph, RevertForward, PTL DEF RevertSpec, ServedForward

\* A revert's answer is of the version that is served, or comes when that one is.
LEMMA RevertServedNext ==
    ASSUME RevertInv, GraphInv, BudgetInv, FreshInv, ForwardInv, ServedInv,
           [RevertNext]_revertVars,
           local = 0 /\ local' # 0 => \A a \in acked : Reaches(remote, a.version)
    PROVE  ServedInv'
<1>1. CASE [Next]_vars /\ AcksAnswer
    BY <1>1, ServedNext DEF RevertInv
<1>2. CASE Planned
  <2>1. /\ snap' = snap /\ UNCHANGED made /\ local # 0
        /\ \A p \in Procs : pc'[p] = "swap" => pc[p] = "swap" /\ pend'[p] = pend[p]
        /\ acked' = acked \/ \E p \in Writers : AnswerNoop(p)
      BY <1>2, PlannedEffect DEF PlanEffect, SnapshotKept
  <2>2. \A p \in Writers : ~Answering(p)'
      BY <1>2, PlannedRest
  <2>3. ASSUME NEW a \in acked', a \notin acked
        PROVE  /\ a.version = snap.version /\ Reaches(snap.version, snap.version)
               /\ snap.version # 0 /\ Reaches(Base, snap.version)
               /\ \A p \in Procs : pc'[p] # "swap"
    <3>1. a.version = snap.version /\ snap.version \in Commits
        BY <1>2, <2>3, NoopAnswer
    <3>2. PICK p \in Writers : AnswerNoop(p)
        BY <2>1, <2>3
    <3>3. mu = p /\ pc[p] = "plan" /\ p \in Procs
        BY <3>2, PlannerFacts DEF Planning, AnswerNoop
    <3>4. \A q \in Procs : pc[q] # "swap"
        BY <3>3 DEF RevertInv, TypeInv, StoreInv, MuInv, Critical
    <3> QED
        BY <2>1, <3>1, <3>4 DEF GraphInv, Reaches, ForwardInv, Commits
  <2>4. \A a \in acked' : Reaches(Base, a.version)'
      BY <1>2, <2>1, <2>3, PlannedForward DEF ServedInv, Reaches
  <2>5. \A p \in Procs : pc'[p] = "swap" => \A a \in acked' : Reaches(pend'[p].version, a.version)
      BY <2>1, <2>3 DEF ServedInv
  <2>6. AckedIsServed'
      BY <2>1, <2>3 DEF ServedInv, AckedIsServed, Reaches
  <2> QED
      BY <2>1, <2>2, <2>4, <2>5, <2>6 DEF ServedInv, Reaches
<1> QED
    BY <1>1, <1>2, RevertSteps, RevertAcks DEF Plain

LEMMA RevertWiped == RevertSpec => []WipedInv
<1>1. RevertInv /\ BudgetInv /\ WipedInv /\ [RevertNext]_revertVars => WipedInv'
  <2> SUFFICES ASSUME RevertInv, BudgetInv, WipedInv, [RevertNext]_revertVars PROVE WipedInv'
      OBVIOUS
  <2>1. CASE [Next]_vars /\ AcksAnswer
      BY <2>1, WipedNext DEF RevertInv
  <2>2. CASE Planned
      BY <2>2, PlannedSound DEF WipedInv
  <2> QED
      BY <2>1, <2>2, RevertSteps, RevertAcks DEF Plain
<1>2. Init => WipedInv
    BY DEF Init, WipedInv
<1> QED
    BY <1>1, <1>2, RevertInvAlways, RevertBudget, PTL DEF RevertSpec, RevertInit

LEMMA RevertServed == RevertSpec => []ServedOrLost
<1>1. Init => ServedOrLost
    BY DEF Init, ServedOrLost, ServedInv, Answering, AckedIsServed, Procs
<1>2. /\ RevertInv /\ GraphInv /\ BudgetInv /\ FreshInv /\ ForwardInv /\ WipedInv /\ IsAccepted
      /\ ServedOrLost /\ [RevertNext]_revertVars
      => ServedOrLost'
  <2> SUFFICES ASSUME RevertInv, GraphInv, BudgetInv, FreshInv, ForwardInv, WipedInv, IsAccepted,
                      ServedOrLost, [RevertNext]_revertVars
               PROVE  ServedOrLost'
      OBVIOUS
  <2>1. Damaged /\ Spent("wipe") => (Damaged /\ Spent("wipe"))'
      BY RevertBudgetNext DEF Damaged, Events
  <2>2. CASE ServedInv /\ ~(Damaged /\ Spent("wipe"))
    <3>1. local = 0 => \A a \in acked : Reaches(remote, a.version)
        BY <2>2 DEF WipedInv, IsAccepted, AcceptedInv
    <3> QED
        BY <2>2, <3>1, RevertServedNext DEF ServedOrLost
  <2> QED
      BY <2>1, <2>2 DEF ServedOrLost
<1> QED
    BY <1>1, <1>2, RevertInvAlways, RevertGraph, RevertBudget, FreshAlways, RevertForward, RevertWiped,
       RevertAccepted, PTL DEF RevertSpec, RevertInit

\* After a plain answer to a revert, or to another write, nobody is served an earlier
\* version again, under the same two provisos as without reverts (ApplyRevert answers
\* what it serves, or reloads before it answers).
THEOREM RevertedIsServed ==
    RevertSpec => [](AckedIsServed \/ (Spent("wipe") /\ (Spent("crash") \/ Spent("reset"))))
<1>1. ServedOrLost => AckedIsServed \/ (Spent("wipe") /\ (Spent("crash") \/ Spent("reset")))
    BY DEF ServedOrLost, ServedInv, Damaged
<1> QED
    BY <1>1, RevertServed, PTL

LEMMA RevertParent == RevertSpec => []ParentInv
<1>1. RevertInv /\ ParentInv /\ [RevertNext]_revertVars => ParentInv'
  <2> SUFFICES ASSUME RevertInv, ParentInv, [RevertNext]_revertVars PROVE ParentInv'
      OBVIOUS
  <2>1. CASE [Next]_vars
      BY <2>1, ParentNext DEF RevertInv
  <2>2. CASE Planned
      BY <2>2, PlannedEffect DEF PlanEffect, ParentInv, Commits
  <2> QED
      BY <2>1, <2>2, RevertSteps DEF Plain
<1>2. Init => ParentInv
    BY ParentStart
<1> QED
    BY <1>1, <1>2, RevertInvAlways, PTL DEF RevertSpec, RevertInit

\* The server with its reverts implements ServedHistory, too: planning changes nothing
\* that a reader could see, and a restored service is one more published version.
THEOREM RevertsServeHistory ==
    RevertSpec /\ []~(Spent("crash") \/ Spent("reset")) => ImplementsServing
<1>1. /\ RevertInv /\ GraphInv /\ ParentInv /\ FaithfulInv /\ ForwardInv /\ IsAccepted
      /\ [RevertNext]_revertVars /\ ~(Spent("crash") \/ Spent("reset"))'
      => [Serving!Next]_(Serving!vars)
  <2> SUFFICES ASSUME RevertInv, GraphInv, ParentInv, FaithfulInv, ForwardInv, IsAccepted,
                      [RevertNext]_revertVars, ~Damaged'
               PROVE  [Serving!Next]_(Serving!vars)
      BY DEF Damaged
  <2>1. CASE [Next]_vars
      BY <2>1, ServesHistory DEF RevertInv
  <2>2. CASE Planned
    <3>1. UNCHANGED <<Published, snap>>
        BY <2>2, PlannedEffect DEF PlanEffect, Published
    <3> QED
        BY <3>1 DEF Serving!vars, Published
  <2> QED
      BY <2>1, <2>2, RevertSteps DEF Plain
<1> QED
    BY <1>1, ServesHistoryInit, RevertInvAlways, RevertGraph, RevertParent, RevertFaithful,
       RevertForward, RevertAccepted, PTL
    DEF RevertSpec, RevertInit, ImplementsServing, Serving!Spec

(***************************************************************************)
(* Staleness shows.                                                        *)
(***************************************************************************)
LEMMA PlannedStale ==
    ASSUME RevertInv, GraphInv, BudgetInv, TidyInv, StaleInv, Planned, ~Spend("disk")
    PROVE  StaleInv'
<1> USE DEF RevertInv, TypeInv, RepoInv, StoreInv, StoreTypeOK, Goto
<1>0. PlanEffect /\ Main \in Procs /\ Running /\ up
    BY PlannedEffect, PlannedRest DEF Procs, PlanEffect
<1>1. /\ UNCHANGED <<made, remote, up, snap>>
      /\ local # 0
    BY <1>0 DEF PlanEffect
<1>2. PICK p \in Writers :
          /\ p \in Procs /\ p # Main
          /\ \A q \in Procs : q # p => pc'[q] = pc[q] /\ pc[q] \notin {"reload", "swap", "settle"}
          /\ pc'[p] \notin {"swap", "settle"}
          /\ (\E t \in Commits : BeginRevert(p, t)) \/ Planning(p)
  <2>1. ASSUME NEW p \in Writers, NEW t \in Commits, BeginRevert(p, t)
        PROVE  /\ p \in Procs
               /\ \A q \in Procs : q # p => pc'[q] = pc[q] /\ pc[q] \notin {"reload", "swap", "settle"}
               /\ pc'[p] = "plan"
      BY <2>1, BeginEffect, ConfigStoreAssumption DEF BeginRevert, MuInv, Critical
  <2>2. ASSUME NEW p \in Writers, Planning(p)
        PROVE  /\ p \in Procs
               /\ \A q \in Procs : q # p => pc'[q] = pc[q] /\ pc[q] \notin {"reload", "swap", "settle"}
               /\ pc'[p] \notin {"swap", "settle"}
    <3>1. p \in Procs /\ mu = p
        BY <2>2, PlannerFacts
    <3>2. \E place \in {"idle", "plan", "check", "git", "reload"} : Goto(p, place)
        BY <2>2 DEF Planning, PlanRefused, ManifestsRefused, PlanNoop, PlanRestore, PullBeforeNoop,
            ReloadedBeforeNoop, NotReloadedBeforeNoop, AnswerNoop, StartRestore, Release
    <3> QED
        BY <3>1, <3>2 DEF MuInv, Critical
  <2> QED
      BY <2>1, <2>2, ConfigStoreAssumption DEF Planned, Procs
<1>3. \A q \in Procs : pc'[q] \notin {"swap", "settle"}
    BY <1>2
<1>4. phase' \in {phase, "pull"}
    BY <1>0 DEF PlanEffect, editVars
<1>5. pc'[Main] # "idle" => ~up'
    BY <1>0, <1>2 DEF StaleInv
<1>6. phase' # "undo" /\ (phase' = "undoRetry" => remote' \notin made'[local'].anc)
  <2>1. UNCHANGED local \/ phase' # "undoRetry"
      BY <1>0 DEF PlanEffect, checkout, editVars
  <2> QED
      BY <1>1, <1>4, <2>1 DEF StaleInv, Reaches
<1> DEFINE Now(v) == v = Base' \/ remote' \notin made'[Base'].anc \/ Coming'
<1>7. lastReload' = "failed" \/ Now(snap'.version)
  <2>1. CASE NotReloadedBeforeNoop(p)
      BY <2>1 DEF NotReloadedBeforeNoop
  <2>2. CASE PullBeforeNoop(p) /\ pc'[p] = "reload"
      BY <1>2, <2>2 DEF Coming
  <2>3. CASE /\ ~NotReloadedBeforeNoop(p) /\ ~(PullBeforeNoop(p) /\ pc'[p] = "reload")
    <3>1. Base' = Base /\ (phase' = phase \/ phase = "free")
      <4>1. CASE PullBeforeNoop(p)
        <5>1. PullError /\ UNCHANGED editVars /\ phase = "free"
            BY <1>2, <2>3, <4>1 DEF PullBeforeNoop, PullFails, Release
        <5>2. Clean
            BY <1>0, <5>1 DEF TidyInv, Tidy
        <5> QED
            BY <1>1, <5>1, <5>2, FailedPullStays DEF checkout, editVars, Base
      <4>2. CASE ~PullBeforeNoop(p)
        <5>1. UNCHANGED checkout /\ (UNCHANGED editVars \/ (phase = "free" /\ phase' = "pull"))
            BY <1>2, <2>3, <4>2 DEF Planning, BeginRevert, PlanRefused, ManifestsRefused, PlanNoop,
                PlanRestore, ReloadedBeforeNoop, AnswerNoop, StartRestore, BeginEdit, Release,
                repoVars, checkout, editVars
        <5> QED
            BY <1>1, <5>1 DEF checkout, editVars, Base
      <4> QED
          BY <4>1, <4>2
    <3>2. CASE ReloadedBeforeNoop(p)
      <4>1. Current(snap.version) /\ pc[p] = "settle" /\ pc' = [pc EXCEPT ![p] = "plan"]
            /\ UNCHANGED phase
          BY <1>2, <3>2 DEF ReloadedBeforeNoop, StaleInv, repoVars, editVars
      <4> QED
          BY <1>1, <1>2, <3>1, <4>1 DEF Current, Coming, Reaches
    <3>3. CASE ~ReloadedBeforeNoop(p)
      <4>1. lastReload' = lastReload /\ pc[p] \in {"idle", "plan", "check"}
          BY <1>2, <2>3, <3>3 DEF Planning, BeginRevert, PlanRefused, ManifestsRefused, PlanNoop,
              PlanRestore, PullBeforeNoop, AnswerNoop, StartRestore
      <4> QED
          BY <1>0, <1>1, <1>2, <3>1, <4>1 DEF StaleInv, Current, Coming, Reaches
    <3> QED
        BY <3>2, <3>3
  <2> QED
      BY <2>1, <2>2, <2>3
<1> QED
    BY <1>3, <1>5, <1>6, <1>7 DEF StaleInv, Current, Reaches

LEMMA RevertStaleNext ==
    ASSUME RevertInv, GraphInv, BudgetInv, TidyOrDisk, StaleOrHidden, [RevertNext]_revertVars
    PROVE  StaleOrHidden'
<1> SUFFICES ASSUME NothingHidden' PROVE StaleInv'
    BY DEF StaleOrHidden, NothingHidden, MayRefuse
<1>1. ~Spent("push") /\ ~Spent("disk") /\ ~MayRefuse
    BY RevertBudgetNext DEF NothingHidden, MayRefuse, Events
<1>2. TidyInv /\ StaleInv
    BY <1>1 DEF TidyOrDisk, StaleOrHidden
<1>3. CASE [Next]_vars
    BY <1>2, <1>3, StaleNext DEF RevertInv
<1>4. CASE Planned
    BY <1>2, <1>4, PlannedStale, NothingHiddenSpends DEF RevertInv
<1> QED
    BY <1>3, <1>4, RevertSteps DEF Plain

\* With reverts, too, a server at rest that has nothing to pull serves what its clone
\* holds or says that its last reload failed, also when a revert pulled, and then found
\* nothing to do, was refused or could not reload, unless a write failed after its
\* pull without a refused push, or a file operation failed once HEAD had moved, a
\* reset's included (ApplyRevert and its early returns, resetToParent).
THEOREM RevertsHideNothing ==
    RevertSpec => [](NotSilentlyStale \/ Spent("push") \/ Spent("disk") \/ MayRefuse)
<1>1. RevertInv /\ GraphInv /\ StaleOrHidden
      => NotSilentlyStale \/ Spent("push") \/ Spent("disk") \/ MayRefuse
    BY StaleShows DEF StaleOrHidden, RevertInv
<1> QED
    BY <1>1, RevertStaleNext, StaleStart, RevertInvAlways, RevertGraph, RevertBudget, RevertTidy,
       PTL DEF RevertSpec, RevertInit

=============================================================================
