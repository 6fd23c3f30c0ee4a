---------------------- MODULE ConfigStoreSafety_proofs ----------------------
(***************************************************************************)
(* What readers are served and writers are told, for any number of         *)
(* requests, refreshers, files and values, and any number of faults.       *)
(***************************************************************************)
EXTENDS ConfigStore_proofs

(***************************************************************************)
(* Every step adds to the commit graph at most, and spends budget at most. *)
(***************************************************************************)
Spends == \A k \in Events : budget'[k] <= budget[k]

LEMMA StutterGrows ==
    ASSUME TypeInv, UNCHANGED <<made, budget>> PROVE Grow /\ Spends
    BY DEF TypeInv, RepoInv, RepoTypeOK, Grow, Spends

LEMMA NextGrows ==
    ASSUME TypeInv, [Next]_vars PROVE Grow /\ Spends
<1> USE DEF TypeInv
<1>1. CASE OpenRepo \/ InitialPull
    BY <1>1, CloneSound, PullSound DEF OpenRepo, InitialPull, Sound, Spends
<1>2. CASE \E p \in Procs : RefreshFromRepo(p) \/ ReloadFromRepo(p)
    BY <1>2, PullSound DEF RefreshFromRepo, ReloadFromRepo, Sound, Spends
<1>3. ASSUME NEW p \in Writers, Write(p) PROVE Grow /\ Spends
  <2>1. CASE \E r \in Requests : BeginWrite(p, r)
      BY <2>1, BeginEditSound DEF BeginWrite, StoreInv, CloneInv, Procs, Sound, Spends
  <2>2. CASE Edit(p)
      BY <2>2, EditStepSound DEF Edit, Sound, Spends
  <2>3. CASE WriteCommitted(p) \/ WriteFailed(p)
      BY <2>3, EndEditSound DEF WriteCommitted, WriteFailed, Sound, Spends
  <2> QED
      BY <1>3, <2>1, <2>2, <2>3 DEF Write
<1>4. ASSUME NEW p \in Procs, Reload(p) PROVE Grow /\ Spends
  <2>1. CASE ReadFails(p)
    <3>1. UNCHANGED budget \/ Spend("disk")
        BY <2>1 DEF ReadFails
    <3> QED
        BY <2>1, <3>1, SpendSound, StutterGrows DEF ReadFails, Sound, Spends, Events
  <2>2. CASE LockForReload(p) \/ ReadSnapshot(p) \/ Swap(p) \/ Settle(p)
      BY <2>2, StutterGrows DEF LockForReload, ReadSnapshot, Swap, Settle, repoVars
  <2> QED
      BY <1>4, <2>1, <2>2 DEF Reload
<1>5. CASE Outside
    BY <1>5, OutsidePushSound DEF Outside, Sound, Spends
<1>6. CASE Crash
    BY <1>6, RepoCrashSound DEF Crash, Spends
<1>7. CASE UNCHANGED vars
    BY <1>7, StutterGrows DEF vars, repoVars
<1> QED
    BY <1>1, <1>2, <1>3, <1>4, <1>5, <1>6, <1>7 DEF Next, Procs

LEMMA GraphAlways == Spec => []GraphInv
<1>1. Init => GraphInv
    BY GraphInit DEF Init
<1>2. TypeInv /\ GraphInv /\ [Next]_vars => GraphInv'
    BY NextGrows, GraphGrows DEF TypeInv, RepoInv
<1> QED
    BY <1>1, <1>2, TypeAlways, PTL DEF Spec

(***************************************************************************)
(* Faults: what has been spent stays spent.                                *)
(***************************************************************************)
BudgetInv == \A k \in Events : budget[k] <= Budget[k]

LEMMA BudgetNext ==
    ASSUME TypeInv, BudgetInv, [Next]_vars
    PROVE  BudgetInv' /\ \A k \in Events : Spent(k) => Spent(k)'
<1>1. /\ budget \in [Events -> Nat] /\ budget' \in [Events -> Nat]
      /\ \A k \in Events : budget'[k] <= budget[k]
    BY NextGrows, TypeNext DEF TypeInv, RepoInv, RepoTypeOK, Spends
<1>2. Budget \in [Events -> Nat]
    BY GitRepoAssumption
<1> QED
    BY <1>1, <1>2 DEF BudgetInv, Spent

LEMMA BudgetAlways == Spec => []BudgetInv
<1>1. Init => BudgetInv
    BY GitRepoAssumption DEF Init, RepoInit, BudgetInv
<1> QED
    BY <1>1, BudgetNext, TypeAlways, PTL DEF Spec

LEMMA SpendingShows ==
    ASSUME TypeInv, BudgetInv, NEW k \in Events, Spend(k)
    PROVE  Spent(k)'
<1>1. budget \in [Events -> Nat] /\ Budget \in [Events -> Nat]
    BY GitRepoAssumption DEF TypeInv, RepoInv, RepoTypeOK
<1> QED
    BY <1>1 DEF Spend, BudgetInv, Spent

(***************************************************************************)
(* The snapshot is a commit.                                               *)
(***************************************************************************)
Faithful(s) ==
    /\ s.version \in Commits
    /\ s.data = made[s.version].tree
    /\ Parses(s.data)

\* What has been read and not yet stored is faithful too.
FaithfulInv ==
    /\ snap.version # 0 => Faithful(snap)
    /\ \A p \in Procs : pc[p] = "swap" => Faithful(pend[p])

\* The steps in which a snapshot is read, stored or lost; any other leaves them be.
SnapshotKept ==
    /\ snap' = snap
    /\ \A p \in Procs : pc'[p] = "swap" => pc[p] = "swap" /\ pend'[p] = pend[p]

LEMMA SnapshotSteps ==
    ASSUME TypeInv, [Next]_vars
    PROVE  \/ \E p \in Procs : ReadSnapshot(p)
           \/ \E p \in Procs : Swap(p)
           \/ Crash
           \/ SnapshotKept
<1> USE DEF TypeInv, StoreInv, StoreTypeOK, SnapshotKept, Goto
<1>1. CASE OpenRepo \/ InitialPull
    BY <1>1 DEF OpenRepo, InitialPull
<1>2. CASE \E p \in Procs : RefreshFromRepo(p) \/ ReloadFromRepo(p)
    BY <1>2 DEF RefreshFromRepo, ReloadFromRepo
<1>3. CASE \E p \in Writers : Write(p)
    BY <1>3 DEF Write, BeginWrite, Edit, WriteCommitted, WriteFailed, storeVars
<1>4. CASE \E p \in Procs : LockForReload(p) \/ ReadFails(p)
    BY <1>4 DEF LockForReload, ReadFails, Finish
<1>5. CASE \E p \in Procs : Settle(p)
    BY <1>5 DEF Settle, Finish
<1>6. CASE Outside \/ UNCHANGED vars
    BY <1>6 DEF Outside, vars, storeVars
<1> QED
    BY <1>1, <1>2, <1>3, <1>4, <1>5, <1>6 DEF Next, Reload, Procs

LEMMA FaithfulKept ==
    ASSUME RepoTypeOK, Grow, NEW s, Faithful(s)
    PROVE  /\ s.version \in Commits'
           /\ s.data = made'[s.version].tree
           /\ Parses(s.data)
    BY GrowKeeps DEF Faithful

LEMMA FaithfulNext ==
    ASSUME TypeInv, FaithfulInv, [Next]_vars PROVE FaithfulInv'
<1>1. Grow /\ RepoTypeOK
    BY NextGrows DEF TypeInv, RepoInv
<1>2. ASSUME NEW p \in Procs, ReadSnapshot(p) PROVE FaithfulInv'
  <2>1. local \in Commits /\ work = made[local].tree /\ Parses(work)
      BY <1>2 DEF ReadSnapshot, SnapshotOk, Clean, HeadTree, TypeInv, RepoInv, RepoTypeOK,
                  StoreInv, CloneInv
  <2>2. UNCHANGED <<made, snap>> /\ pend' = [pend EXCEPT ![p] = [version |-> local, data |-> work]]
        /\ pc' = [pc EXCEPT ![p] = "swap"]
      BY <1>2 DEF ReadSnapshot, repoVars, Goto
  <2> QED
      BY <2>1, <2>2 DEF FaithfulInv, Faithful, Commits, Parses, TypeInv, StoreInv, StoreTypeOK
<1>3. ASSUME NEW p \in Procs, Swap(p) PROVE FaithfulInv'
    BY <1>3 DEF Swap, repoVars, Goto, FaithfulInv, Faithful, Commits, Parses,
                TypeInv, StoreInv, StoreTypeOK
<1>4. CASE Crash
    BY <1>4 DEF Crash, FaithfulInv, NoSnapshot
<1>5. CASE SnapshotKept
    BY <1>1, <1>5, FaithfulKept DEF SnapshotKept, FaithfulInv, Faithful
<1> QED
    BY <1>2, <1>3, <1>4, <1>5, SnapshotSteps

LEMMA FaithfulInit == Init => FaithfulInv
    BY DEF Init, FaithfulInv, NoSnapshot

LEMMA FaithfulAlways == Spec => []FaithfulInv
<1>1. TypeInv /\ FaithfulInv /\ [Next]_vars => FaithfulInv'
    BY FaithfulNext
<1> QED
    BY <1>1, FaithfulInit, TypeAlways, PTL DEF Spec

\* What is served is exactly the tree of the commit reported as its version, and
\* all of it parsed, whatever failed, died or was edited by others before.
THEOREM ServesWhatItReports == Spec => []SnapshotFaithful
<1>1. FaithfulInv => SnapshotFaithful
    BY DEF FaithfulInv, Faithful, SnapshotFaithful
<1> QED
    BY <1>1, FaithfulAlways, PTL

(***************************************************************************)
(* What the remote has accepted.                                           *)
(***************************************************************************)
Damaged == Spent("crash") \/ Spent("reset")

\* The commit that the clone holds, or goes back to if the push under way fails.
Base == IF phase \in {"push", "undo", "undoRetry"} THEN made[local].parent ELSE local

\* About to answer a write; a revert that reloads first has nothing to answer yet.
Answering(p) == pc[p] \in {"reload", "swap", "settle"} /\ reply # NoReply

\* What this step answers, it answers with a reply that was ready.
AcksAnswer ==
    \A a \in acked' :
        \/ a \in acked
        \/ /\ \E p \in Writers : Answering(p) /\ (a.loaded => pc[p] = "settle")
           /\ a.version = reply.version /\ a.request = reply.request

\* Short of damage, all that is served, about to be served, answered or about to
\* be answered is on the remote.
AcceptedInv ==
    /\ local # 0 => Reaches(remote, Base)
    /\ snap.version # 0 => Reaches(remote, snap.version)
    /\ \A p \in Procs : pc[p] = "swap" => Reaches(remote, pend[p].version)
    /\ \A p \in Writers : Answering(p) => Reaches(remote, reply.version)
    /\ \A a \in acked : Reaches(remote, a.version)

IsAccepted == BudgetInv /\ (Damaged \/ AcceptedInv)

LEMMA DamageStays ==
    ASSUME TypeInv, BudgetInv, [Next]_vars
    PROVE  BudgetInv' /\ (Damaged => Damaged')
    BY BudgetNext DEF Damaged, Events

LEMMA SpendingDamages ==
    ASSUME TypeInv, BudgetInv, Spend("crash") \/ Spend("reset")
    PROVE  Damaged'
    BY SpendingShows DEF Damaged, Events

\* The remote only moves to a commit that descends from where it was.
LEMMA RemoteForward ==
    ASSUME TypeInv, GraphInv, [Next]_vars
    PROVE  Reaches(remote, remote)' /\ made[remote].anc \subseteq made'[remote'].anc
<1>1. /\ RepoTypeOK /\ Grow /\ GraphInv' /\ RepoTypeOK'
    BY NextGrows, GraphGrows, TypeNext DEF TypeInv, RepoInv
<1>2. Reaches(remote, remote)'
    BY <1>1 DEF Reaches, GraphInv, RepoTypeOK
<1>3. CASE remote' = remote
    BY <1>1, <1>2, <1>3, GrowKeeps DEF RepoTypeOK
<1>4. CASE Outside
  <2>1. PICK t : made' = Append(made, NewCommit(remote, t, NoRequest)) /\ remote' = Len(made')
      BY <1>4 DEF Outside, OutsidePush
  <2>2. made \in Seq(Commit) /\ Len(made) \in Nat
      BY <1>1 DEF RepoTypeOK
  <2>3. Len(made') = Len(made) + 1 /\ made'[Len(made) + 1] = NewCommit(remote, t, NoRequest)
      BY <2>1, <2>2
  <2> QED
      BY <1>2, <2>1, <2>3 DEF NewCommit
<1>5. CASE \E p \in Writers : Edit(p) /\ Push
  <2>1. made' = made /\ (remote' = remote \/ (remote' = local /\ Reaches(local, remote)))
      BY <1>5 DEF Push, checkout
  <2>2. local \in Commits \/ remote' = remote
      BY <1>5 DEF Push, TypeInv, RepoInv, RepoTypeOK, EditInv
  <2> QED
      BY <1>2, <2>1, <2>2 DEF Reaches, GraphInv
<1>6. remote' = remote \/ Outside \/ \E p \in Writers : Edit(p) /\ Push
    BY DEF Next, OpenRepo, CloneOrOpen, CloneFails, InitialPull, RefreshFromRepo, ReloadFromRepo,
        Pull, PullFails, Write, BeginWrite, BeginEdit, Edit, EditStep, PreCommitPull, StageWrites,
        StageRemovals, StageRestore, CommitStaged, UndoTerminal, UndoAndRetry, WriteCommitted, WriteFailed,
        EndEdit, Reload, LockForReload, ReadSnapshot, ReadFails, Swap, Settle, Crash, RepoCrash,
        vars, repoVars
<1> QED
    BY <1>2, <1>3, <1>4, <1>5, <1>6

\* Whatever the remote has accepted stays accepted.
LEMMA StaysAccepted ==
    ASSUME TypeInv, GraphInv, [Next]_vars, NEW c, Reaches(remote, c)
    PROVE  c \in made'[remote'].anc
    BY RemoteForward DEF Reaches

BaseAccepted == local # 0 => Reaches(remote, Base)

\* A step of an edit keeps the commit to go back to, or takes it from the remote.
LEMMA EditBase ==
    ASSUME TypeInv, BudgetInv, EditStep, ~Damaged'
    PROVE  Base' \in {Base, remote, remote'}
<1>1. CASE PreCommitPull
  <2>1. local' \in {local, remote} /\ phase = "pull" /\ phase' \in {"stage", "error"}
      BY <1>1, PullKeepsType DEF PreCommitPull, TypeInv, RepoInv
  <2> QED
      BY <2>1 DEF Base
<1>2. CASE StageWrites \/ StageRemovals \/ StageRestore
    BY <1>2
    DEF StageWrites, StageRemovals, StageRestore, StageAll, StagePartly, StageSomeRemovals,
        StageRestored, Base
<1>3. CASE CommitStaged
  <2>1. CASE UNCHANGED local /\ phase' \in {"ok", "error"}
      BY <1>3, <2>1 DEF CommitStaged, Base
  <2>2. CASE phase' = "push" /\ made' = Append(made, NewCommit(local, index, request))
             /\ local' = Len(made')
    <3>1. local \in Commits /\ index \in Tree /\ request \in Requests
        BY <1>3 DEF CommitStaged, TypeInv, RepoInv, RepoTypeOK, EditInv
    <3>2. made'[local'] = NewCommit(local, index, request)
        BY <2>2, <3>1, GrowFacts DEF TypeInv, RepoInv
    <3> QED
        BY <1>3, <2>2, <3>2 DEF CommitStaged, NewCommit, Base
  <2> QED
      BY <1>3, <2>1, <2>2 DEF CommitStaged
<1>4. CASE Push
    BY <1>4 DEF Push, Base, checkout
<1>5. CASE UndoTerminal \/ UndoAndRetry
  <2>1. CASE ResetToParent
      BY <1>5, <2>1 DEF UndoTerminal, UndoAndRetry, ResetToParent, CheckOut, Base
  <2>2. CASE HalfCheckOut(made[local].parent)
      BY <1>5, <2>2 DEF UndoTerminal, UndoAndRetry, HalfCheckOut, Base
  <2>3. CASE Spend("reset")
      BY <2>3, SpendingDamages
  <2> QED
      BY <1>5, <2>1, <2>2, <2>3 DEF UndoTerminal, UndoAndRetry, ResetFails
<1> QED
    BY <1>1, <1>2, <1>3, <1>4, <1>5 DEF EditStep

LEMMA BaseSteps ==
    ASSUME TypeInv, BudgetInv, [Next]_vars, ~Damaged'
    PROVE  local' = 0 \/ (local # 0 /\ Base' = Base) \/ Base' \in {remote, remote'}
<1>1. CASE OpenRepo \/ InitialPull \/ \E p \in Procs : RefreshFromRepo(p) \/ ReloadFromRepo(p)
  <2>1. phase = "free" /\ phase' = "free"
      BY <1>1 DEF OpenRepo, InitialPull, RefreshFromRepo, ReloadFromRepo, CloneOrOpen, CloneFails,
                  Pull, PullFails, editVars
  <2>2. local' \in {local, remote}
      BY <1>1, PullKeepsType
      DEF OpenRepo, InitialPull, RefreshFromRepo, ReloadFromRepo, CloneOrOpen, CloneFails,
          Pull, PullFails, CheckOut, checkout, TypeInv, RepoInv
  <2> QED
      BY <2>1, <2>2 DEF Base
<1>2. ASSUME NEW p \in Writers, Write(p)
      PROVE  local' = 0 \/ (local # 0 /\ Base' = Base) \/ Base' \in {remote, remote'}
  <2>1. CASE Edit(p)
    <3>1. local # 0
        BY <2>1 DEF Edit, TypeInv, StoreInv, CloneInv, Procs
    <3> QED
        BY <2>1, <3>1, EditBase DEF Edit
  <2>2. CASE (\E r \in Requests : BeginWrite(p, r)) \/ WriteCommitted(p) \/ WriteFailed(p)
      BY <2>2 DEF BeginWrite, BeginEdit, WriteCommitted, WriteFailed, EndEdit, checkout, Base
  <2> QED
      BY <1>2, <2>1, <2>2 DEF Write
<1>3. CASE \E p \in Procs : Reload(p)
    BY <1>3 DEF Reload, LockForReload, ReadSnapshot, ReadFails, Swap, Settle, repoVars, checkout,
                editVars, Base
<1>4. CASE Outside
  <2>1. UNCHANGED <<local, phase>>
      BY <1>4 DEF Outside, OutsidePush, checkout, editVars
  <2>2. local # 0 => made'[local].parent = made[local].parent
      BY <1>4, NextGrows, GrowKeeps DEF TypeInv, RepoInv, RepoTypeOK
  <2> QED
      BY <2>1, <2>2 DEF Base
<1>5. CASE Crash
    BY <1>5, SpendingDamages DEF Crash, RepoCrash
<1>6. CASE UNCHANGED vars
    BY <1>6 DEF vars, repoVars, Base
<1> QED
    BY <1>1, <1>2, <1>3, <1>4, <1>5, <1>6 DEF Next, Procs

LEMMA BaseNext ==
    ASSUME TypeInv, GraphInv, BudgetInv, BaseAccepted, [Next]_vars, ~Damaged'
    PROVE  BaseAccepted'
<1>1. Reaches(remote, remote) /\ Reaches(remote, remote)'
    BY RemoteForward DEF GraphInv, Reaches, TypeInv, RepoInv, RepoTypeOK
<1>2. \A c : Reaches(remote, c) => c \in made'[remote'].anc
    BY StaysAccepted
<1> QED
    BY <1>1, <1>2, BaseSteps DEF BaseAccepted, Reaches

(***************************************************************************)
(* The answers: the reply of the goroutine that holds Store.mu, and what   *)
(* has been answered.                                                      *)
(***************************************************************************)
LEMMA ReplySteps ==
    ASSUME TypeInv, [Next]_vars
    PROVE  \/ \E p \in Writers : WriteCommitted(p)
           \/ \A p \in Writers : Answering(p)' => Answering(p) /\ reply' = reply
<1> USE DEF TypeInv, StoreInv, StoreTypeOK, Answering, Goto, Procs
<1>1. CASE OpenRepo \/ InitialPull
    BY <1>1, ConfigStoreAssumption DEF OpenRepo, InitialPull
<1>2. CASE \E p \in Refreshers \cup Reloaders : RefreshFromRepo(p) \/ ReloadFromRepo(p)
    BY <1>2 DEF RefreshFromRepo, ReloadFromRepo
<1>3. CASE \E p \in Writers : Write(p) /\ ~WriteCommitted(p)
    BY <1>3 DEF Write, BeginWrite, Edit, WriteFailed, storeVars
<1>4. ASSUME NEW p \in Procs, Reload(p), NEW q \in Writers, Answering(q)'
      PROVE  Answering(q) /\ reply' = reply
  <2>1. CASE LockForReload(p)
      BY <1>4, <2>1 DEF LockForReload, WriterInv
  <2>2. CASE ReadSnapshot(p) \/ Swap(p)
      BY <1>4, <2>2 DEF ReadSnapshot, Swap
  <2>3. CASE ReadFails(p) \/ Settle(p)
      BY <1>4, <2>3 DEF ReadFails, Settle, Finish
  <2> QED
      BY <1>4, <2>1, <2>2, <2>3 DEF Reload
<1>5. CASE Outside \/ UNCHANGED vars
    BY <1>5 DEF Outside, vars, storeVars
<1>6. CASE Crash
    BY <1>6 DEF Crash
<1> QED
    BY <1>1, <1>2, <1>3, <1>4, <1>5, <1>6 DEF Next

LEMMA AckSteps ==
    ASSUME TypeInv, ReplyInv, [Next]_vars
    PROVE  AcksAnswer
<1>1. NoReply \notin Reply
    BY GitRepoAssumption DEF NoReply, Reply
<1>2. CASE \E p \in Procs : ReadFails(p) \/ Settle(p)
    BY <1>1, <1>2 DEF ReadFails, Settle, Finish, Answering, AcksAnswer, ReplyInv
<1>3. acked' = acked \/ \E p \in Procs : ReadFails(p) \/ Settle(p)
    BY DEF Next, OpenRepo, InitialPull, RefreshFromRepo, ReloadFromRepo, Write, BeginWrite, Edit,
        WriteCommitted, WriteFailed, Reload, LockForReload, ReadSnapshot, Swap, Outside, Crash,
        vars, storeVars
<1> QED
    BY <1>2, <1>3 DEF AcksAnswer

LEMMA AcceptedNext ==
    ASSUME TypeInv, GraphInv, BudgetInv, AcceptedInv, [Next]_vars, ~Damaged', AcksAnswer
    PROVE  AcceptedInv'
<1>1. \A c : Reaches(remote, c) => c \in made'[remote'].anc
    BY StaysAccepted
<1>2. BaseAccepted'
    BY BaseNext DEF AcceptedInv, BaseAccepted
<1>3. /\ snap'.version # 0 => snap'.version \in made'[remote'].anc
      /\ \A p \in Procs : pc'[p] = "swap" => pend'[p].version \in made'[remote'].anc
  <2>1. ASSUME NEW p \in Procs, ReadSnapshot(p)
        PROVE  /\ snap' = snap /\ Reaches(remote, local)
               /\ pend' = [pend EXCEPT ![p] = [version |-> local, data |-> work]]
               /\ pc' = [pc EXCEPT ![p] = "swap"]
      BY <2>1 DEF ReadSnapshot, SnapshotOk, AcceptedInv, Base, Goto, TypeInv, StoreInv, CloneInv
  <2>2. CASE \E p \in Procs : ReadSnapshot(p)
      BY <1>1, <2>1, <2>2 DEF AcceptedInv, TypeInv, StoreInv, StoreTypeOK
  <2>3. CASE \E p \in Procs : Swap(p)
      BY <1>1, <2>3 DEF Swap, Goto, AcceptedInv, TypeInv, StoreInv, StoreTypeOK
  <2>4. CASE Crash
      BY <2>4 DEF Crash, NoSnapshot
  <2>5. CASE SnapshotKept
      BY <1>1, <2>5 DEF SnapshotKept, AcceptedInv
  <2> QED
      BY <2>2, <2>3, <2>4, <2>5, SnapshotSteps
<1>4. \A p \in Writers : Answering(p)' => reply'.version \in made'[remote'].anc
  <2>1. CASE \E p \in Writers : WriteCommitted(p)
    <3>1. reply'.version = local /\ Reaches(remote, local)
        BY <2>1 DEF WriteCommitted, AcceptedInv, Base, TypeInv, StoreInv, CloneInv, Procs
    <3> QED
        BY <1>1, <3>1
  <2>2. CASE \A p \in Writers : Answering(p)' => Answering(p) /\ reply' = reply
      BY <1>1, <2>2 DEF AcceptedInv
  <2> QED
      BY <2>1, <2>2, ReplySteps
<1>5. \A a \in acked' : a.version \in made'[remote'].anc
    BY <1>1 DEF AcceptedInv, AcksAnswer
<1> QED
    BY <1>2, <1>3, <1>4, <1>5 DEF AcceptedInv, BaseAccepted, Reaches

LEMMA AcceptedInit == Init => IsAccepted
<1> SUFFICES ASSUME Init PROVE IsAccepted
    OBVIOUS
<1>1. BudgetInv
    BY GitRepoAssumption DEF Init, RepoInit, BudgetInv
<1>2. local = 0 /\ phase = "free" /\ snap.version = 0 /\ acked = {}
      /\ \A p \in Procs : pc[p] = "idle"
    BY DEF Init, RepoInit, NoSnapshot
<1> QED
    BY <1>1, <1>2 DEF IsAccepted, AcceptedInv, Answering, Procs

LEMMA AcceptedAlways == Spec => []IsAccepted
<1>1. TypeInv /\ ReplyInv /\ GraphInv /\ IsAccepted /\ [Next]_vars => IsAccepted'
    BY AckSteps, AcceptedNext, DamageStays DEF IsAccepted
<1> QED
    BY <1>1, AcceptedInit, TypeAlways, ReplyAlways, GraphAlways, PTL DEF Spec

LEMMA IsAcceptedUnlessDamaged == IsAccepted => AcceptedUnlessCrashOrReset
    BY DEF IsAccepted, AcceptedInv, Damaged, AcceptedUnlessCrashOrReset, ServedIsAccepted,
           AckedIsPushed

\* Everything served and everything answered is on the remote for good, unless the
\* process died or a reset failed before it had moved HEAD.  One that fails later, on
\* the index or on the files, is not among the reasons (CommitAndPushFunc).
THEOREM OnlyCrashOrResetLoses == Spec => []AcceptedUnlessCrashOrReset
    BY AcceptedAlways, IsAcceptedUnlessDamaged, PTL

(***************************************************************************)
(* What the writers asked for is in the commit that they are answered      *)
(* with, or the worktree shows that it is not and will not be served.      *)
(***************************************************************************)
Holds(r, tree) == \A f \in DOMAIN r.edit : tree[f] = r.edit[f]

Carried(a) == a.version \in Commits /\ Holds(a.request, made[a.version].tree)

ContentInv ==
    /\ phase = "commit" => Holds(request, index) \/ Unstaged
    /\ phase \in {"push", "ok"} => Holds(request, HeadTree) \/ Unstaged
    /\ \A p \in Writers :
          Answering(p) => Carried(reply) \/ (pc[p] = "reload" /\ Unstaged)
    /\ \A a \in acked : a.loaded => Carried(a)

LEMMA StagedHolds ==
    ASSUME TypeInv, phase = "stage", UNCHANGED request, StageAll
    PROVE  Holds(request', index')
<1>1. IsRequest(request)
    BY GitRepoAssumption DEF TypeInv, RepoInv, EditInv
<1> QED
    BY <1>1 DEF StageAll, Edited, Holds, IsRequest

\* A file whose removal was not staged is still in the index and no longer there, or
\* was never in either.
LEMMA SomeRemovalsHold ==
    ASSUME TypeInv, StageRemovals, StageSomeRemovals
    PROVE  Holds(request', index') \/ Unstaged'
<1>1. IsRequest(request) /\ request.kind = "delete" /\ UNCHANGED request
    BY GitRepoAssumption DEF TypeInv, RepoInv, EditInv, StageRemovals
<1>2. \A f \in DOMAIN request.edit : f \in Files /\ request.edit[f] = NoFile
    BY <1>1 DEF IsRequest
<1>3. PICK kept \in SUBSET DOMAIN request.edit :
          /\ index' = Edited(index, DOMAIN request.edit \ kept)
          /\ work' = Edited(work, DOMAIN request.edit)
    BY DEF StageSomeRemovals
<1>4. \A f \in kept : work'[f] = NoFile
    BY <1>2, <1>3 DEF Edited
<1>5. \A f \in DOMAIN request.edit \ kept : index'[f] = request.edit[f]
    BY <1>2, <1>3 DEF Edited
<1> QED
    BY <1>1, <1>2, <1>3, <1>4, <1>5 DEF Holds, Unstaged

\* A file that a restore has to remove and did not, or did not find, is still in
\* the index and no longer there, or was never in either.
LEMMA RestoredHolds ==
    ASSUME TypeInv, StageRestore, StageRestored
    PROVE  Holds(request', index') \/ Unstaged'
<1>1. IsRequest(request) /\ UNCHANGED request
    BY GitRepoAssumption DEF TypeInv, RepoInv, EditInv, StageRestore
<1>2. PICK kept \in SUBSET DOMAIN request.edit :
          /\ \A f \in kept : request.edit[f] = NoFile
          /\ index' = Edited(index, DOMAIN request.edit \ kept)
          /\ work' = Edited(work, DOMAIN request.edit)
    BY DEF StageRestored
<1>3. \A f \in DOMAIN request.edit : f \in Files
    BY <1>1 DEF IsRequest
<1>4. \A f \in kept : work'[f] = NoFile
    BY <1>2, <1>3 DEF Edited
<1>5. \A f \in DOMAIN request.edit \ kept : index'[f] = request.edit[f]
    BY <1>2, <1>3 DEF Edited
<1> QED
    BY <1>1, <1>2, <1>3, <1>4, <1>5 DEF Holds, Unstaged

LEMMA EditContent ==
    ASSUME TypeInv, ContentInv, EditStep
    PROVE  /\ phase' = "commit" => Holds(request', index') \/ Unstaged'
           /\ phase' \in {"push", "ok"} => Holds(request', made'[local'].tree) \/ Unstaged'
<1>1. CASE PreCommitPull
    BY <1>1 DEF PreCommitPull
<1>2. CASE StageWrites \/ StageRemovals \/ StageRestore
    BY <1>2, StagedHolds, SomeRemovalsHold, RestoredHolds
    DEF StageWrites, StageRemovals, StageRestore, StagePartly, StageAll, StageSomeRemovals,
        StageRestored
<1>3. CASE CommitStaged
  <2>1. Unstaged' = Unstaged
      BY <1>3 DEF CommitStaged, Unstaged
  <2>2. CASE phase' = "error"
      BY <2>2
  <2>3. CASE phase' = "ok" /\ index = HeadTree /\ UNCHANGED <<made, local>>
      BY <1>3, <2>1, <2>3 DEF CommitStaged, ContentInv, HeadTree
  <2>4. CASE phase' = "push" /\ made' = Append(made, NewCommit(local, index, request))
             /\ local' = Len(made')
    <3>1. local \in Commits /\ index \in Tree /\ request \in Requests
        BY <1>3 DEF CommitStaged, TypeInv, RepoInv, RepoTypeOK, EditInv
    <3>2. made'[local'] = NewCommit(local, index, request)
        BY <2>4, <3>1, GrowFacts DEF TypeInv, RepoInv
    <3> QED
        BY <1>3, <2>1, <2>4, <3>2 DEF CommitStaged, NewCommit, ContentInv
  <2> QED
      BY <1>3, <2>2, <2>3, <2>4 DEF CommitStaged
<1>4. CASE Push
    BY <1>4 DEF Push, ContentInv, HeadTree, checkout, Unstaged
<1>5. CASE UndoTerminal \/ UndoAndRetry
    BY <1>5 DEF UndoTerminal, UndoAndRetry
<1> QED
    BY <1>1, <1>2, <1>3, <1>4, <1>5 DEF EditStep

\* Outside an edit's own steps nothing is staged and no commit is altered.
LEMMA OtherContent ==
    ASSUME TypeInv, ContentInv, [Next]_vars, ~\E p \in Writers : Edit(p)
    PROVE  /\ phase' = "commit" => Holds(request', index') \/ Unstaged'
           /\ phase' \in {"push", "ok"} => Holds(request', made'[local'].tree) \/ Unstaged'
<1>1. CASE OpenRepo \/ InitialPull \/ \E p \in Procs : RefreshFromRepo(p) \/ ReloadFromRepo(p)
    BY <1>1 DEF OpenRepo, InitialPull, RefreshFromRepo, ReloadFromRepo, CloneOrOpen, CloneFails,
                Pull, PullFails, editVars
<1>2. CASE \E p \in Writers : Write(p)
    BY <1>2 DEF Write, BeginWrite, BeginEdit, WriteCommitted, WriteFailed, EndEdit
<1>3. CASE \E p \in Procs : Reload(p)
    BY <1>3 DEF Reload, LockForReload, ReadSnapshot, ReadFails, Swap, Settle, repoVars, checkout,
                editVars, ContentInv, HeadTree, Unstaged
<1>4. CASE Outside
  <2>1. UNCHANGED <<local, index, work, phase, request>>
      BY <1>4 DEF Outside, OutsidePush, checkout, editVars
  <2>2. phase # "free" => made'[local] = made[local]
      BY <1>4, NextGrows, GrowKeeps DEF TypeInv, RepoInv, RepoTypeOK, EditInv
  <2> QED
      BY <2>1, <2>2 DEF ContentInv, HeadTree, Unstaged
<1>5. CASE Crash
    BY <1>5 DEF Crash, RepoCrash
<1>6. CASE UNCHANGED vars
    BY <1>6 DEF vars, repoVars, ContentInv, HeadTree, Unstaged
<1> QED
    BY <1>1, <1>2, <1>3, <1>4, <1>5, <1>6 DEF Next, Procs

\* What is not staged stays so until some edit goes on, or the process dies.
LEMMA UnstagedStays ==
    ASSUME TypeInv, local # 0, Unstaged, [Next]_vars, ~Crash, ~\E p \in Writers : Edit(p)
    PROVE  Unstaged'
<1>1. CASE OpenRepo \/ InitialPull \/ \E p \in Procs : RefreshFromRepo(p) \/ ReloadFromRepo(p)
    BY <1>1 DEF OpenRepo, InitialPull, RefreshFromRepo, ReloadFromRepo, CloneOrOpen, CloneFails,
                Pull, PullFails, PullOk, PullError, PullUpToDate, PullForward, PullTorn,
                PullHalfDone, PullDiverged, PullUnreachable, checkout, Unstaged
<1>2. CASE \E p \in Writers : Write(p)
    BY <1>2 DEF Write, BeginWrite, BeginEdit, WriteCommitted, WriteFailed, EndEdit, checkout,
                Unstaged
<1>3. CASE \E p \in Procs : Reload(p)
    BY <1>3 DEF Reload, LockForReload, ReadSnapshot, ReadFails, Swap, Settle, repoVars, checkout,
                Unstaged
<1>4. CASE Outside \/ UNCHANGED vars
    BY <1>4 DEF Outside, OutsidePush, checkout, vars, repoVars, Unstaged
<1> QED
    BY <1>1, <1>2, <1>3, <1>4 DEF Next, Procs

\* The place of a writer that is to answer moves on by its own steps.
LEMMA AnswerSteps ==
    ASSUME TypeInv, [Next]_vars, NEW p \in Writers, Answering(p)
    PROVE  \/ pc'[p] = pc[p]
           \/ ReadSnapshot(p) /\ pc'[p] = "swap"
           \/ Swap(p) /\ pc'[p] = "settle"
           \/ pc'[p] = "idle"
<1> USE DEF TypeInv, StoreInv, StoreTypeOK, Answering, Goto, Procs
<1>1. CASE OpenRepo \/ InitialPull \/ \E q \in Refreshers \cup Reloaders :
              RefreshFromRepo(q) \/ ReloadFromRepo(q)
    BY <1>1, ConfigStoreAssumption DEF OpenRepo, InitialPull, RefreshFromRepo, ReloadFromRepo
<1>2. CASE \E q \in Writers : Write(q)
    BY <1>2 DEF Write, BeginWrite, Edit, WriteCommitted, WriteFailed, storeVars
<1>3. CASE \E q \in Procs : Reload(q)
    BY <1>3 DEF Reload, LockForReload, ReadSnapshot, ReadFails, Swap, Settle, Finish
<1>4. CASE Outside \/ Crash \/ UNCHANGED vars
    BY <1>4 DEF Outside, Crash, vars, storeVars
<1> QED
    BY <1>1, <1>2, <1>3, <1>4 DEF Next

\* While one writer is to answer, no other is in the middle of an edit.
LEMMA NoEditWhileAnswering ==
    ASSUME TypeInv, NEW p \in Writers, Answering(p)
    PROVE  (~\E q \in Writers : Edit(q)) /\ local # 0 /\ ~\E q \in Writers : WriteCommitted(q)
    BY DEF TypeInv, StoreInv, MuInv, CloneInv, Critical, Answering, Edit, WriteCommitted, Procs

LEMMA ContentInit == Init => ContentInv
    BY DEF Init, RepoInit, ContentInv, Answering, Procs

LEMMA ContentNext ==
    ASSUME TypeInv, ContentInv, [Next]_vars, AcksAnswer PROVE ContentInv'
<1>1. /\ phase' = "commit" => Holds(request', index') \/ Unstaged'
      /\ phase' \in {"push", "ok"} => Holds(request', made'[local'].tree) \/ Unstaged'
    BY EditContent, OtherContent DEF Edit
<1>2. Commits \subseteq Commits' /\ \A c \in Commits : made'[c] = made[c]
    BY NextGrows, GrowKeeps DEF TypeInv, RepoInv
<1> DEFINE CarriedNext(a) == a.version \in Commits' /\ Holds(a.request, made'[a.version].tree)
<1>3. \A a : Carried(a) => CarriedNext(a)
    BY <1>2 DEF Carried
<1>4. ASSUME NEW p \in Writers, Answering(p)'
      PROVE  CarriedNext(reply') \/ (pc'[p] = "reload" /\ Unstaged')
  <2>1. CASE \E q \in Writers : WriteCommitted(q)
    <3>1. PICK q \in Writers : WriteCommitted(q)
        BY <2>1
    <3>2. /\ reply'.version = local /\ reply'.request = request /\ local \in Commits
          /\ Holds(request, made[local].tree) \/ Unstaged
        BY <3>1 DEF WriteCommitted, ContentInv, HeadTree, TypeInv, RepoInv, RepoTypeOK, EditInv
    <3>3. Unstaged' = Unstaged
        BY <3>1 DEF WriteCommitted, EndEdit, checkout, Unstaged
    <3>4. pc'[p] = "reload"
        BY <1>4, <3>1 DEF WriteCommitted, Goto, Answering, TypeInv, StoreInv, StoreTypeOK, MuInv,
                          Critical, Procs
    <3> QED
        BY <1>2, <3>2, <3>3, <3>4
  <2>2. CASE Answering(p) /\ reply' = reply
    <3>1. CASE Carried(reply)
        BY <1>3, <2>2, <3>1
    <3>2. CASE pc[p] = "reload" /\ Unstaged
      <4>1. CASE pc'[p] = pc[p]
        <5>1. ~Crash
            BY <1>4 DEF Crash, Answering, Procs
        <5> QED
            BY <2>2, <3>2, <4>1, <5>1, NoEditWhileAnswering, UnstagedStays
      <4>2. CASE ReadSnapshot(p) \/ Swap(p)
          BY <3>2, <4>2 DEF ReadSnapshot, SnapshotOk, Clean, Unstaged, Swap
      <4> QED
          BY <1>4, <2>2, <4>1, <4>2, AnswerSteps DEF Answering
    <3> QED
        BY <2>2, <3>1, <3>2 DEF ContentInv
  <2> QED
      BY <1>4, <2>1, <2>2, ReplySteps
<1>5. ASSUME NEW a \in acked', a.loaded PROVE CarriedNext(a)
  <2>1. a \in acked \/ (Carried(reply) /\ a.version = reply.version /\ a.request = reply.request)
      BY <1>5 DEF ContentInv, AcksAnswer
  <2>2. Carried(a)
      BY <1>5, <2>1 DEF ContentInv, Carried
  <2> QED
      BY <1>3, <2>2
<1> QED
    BY <1>1, <1>4, <1>5 DEF ContentInv, Carried, HeadTree, Holds

LEMMA ContentAlways == Spec => []ContentInv
<1>1. TypeInv /\ ReplyInv /\ ContentInv /\ [Next]_vars => ContentInv'
    BY AckSteps, ContentNext
<1> QED
    BY <1>1, ContentInit, TypeAlways, ReplyAlways, PTL DEF Spec

\* A plain "committed" or "deleted" is never false: not after refused pushes and
\* retries, failed file operations, crashes or removals that were not staged.
THEOREM PlainAnswersAreTrue == Spec => []PlainAnswerIsTrue
<1>1. ContentInv => PlainAnswerIsTrue
    BY DEF ContentInv, Carried, Holds, PlainAnswerIsTrue, IsCarriedOut
<1> QED
    BY <1>1, ContentAlways, PTL

(***************************************************************************)
(* The checkout while the server runs.                                     *)
(***************************************************************************)
\* The index and the files are HEAD's, with the request's edit once it is staged.
Tidy ==
    IF phase = "commit"
    THEN index = Edited(HeadTree, DOMAIN request.edit) /\ work = index
    ELSE Clean

\* The server has looked at the checkout since it was started.
Running == up \/ phase # "free" \/ pc[Main] \in {"swap", "settle"}

LEMMA CheckOutTidies ==
    ASSUME RepoTypeOK, work = index, NEW c \in Commits, CheckOut(c)
    PROVE  local' = c /\ index' = made[c].tree /\ work' = index'
<1>1. made[c].tree \in Tree
    BY CommitFacts
<1>2. PICK spared \in {{}, {f \in Files : index[f] = NoFile /\ made[c].tree[f] = NoFile}} :
          work' = [f \in Files |-> IF f \in spared THEN work[f] ELSE made[c].tree[f]]
    BY DEF CheckOut
<1>3. \A f \in spared : work[f] = made[c].tree[f]
    BY <1>2
<1>4. work' = [f \in Files |-> made[c].tree[f]]
    BY <1>2, <1>3
<1> QED
    BY <1>1, <1>4 DEF CheckOut, Tree

LEMMA PullTidies ==
    ASSUME RepoTypeOK, Clean, PullOk \/ PullError, ~Spend("disk")
    PROVE  index' = made[local'].tree /\ work' = index'
<1>1. work = index /\ index = made[local].tree
    BY DEF Clean, HeadTree
<1>2. CASE PullUpToDate \/ PullDiverged \/ PullUnreachable
    BY <1>1, <1>2 DEF PullUpToDate, PullDiverged, PullUnreachable, checkout
<1>3. CASE PullForward
    BY <1>1, <1>3, CheckOutTidies DEF PullForward, RepoTypeOK
<1>4. CASE PullTorn
    BY <1>1, <1>4 DEF PullTorn, Unstaged
<1> QED
    BY <1>2, <1>3, <1>4 DEF PullOk, PullError, PullHalfDone

\* Staging without a failed file operation.
LEMMA StagedTidily ==
    ASSUME TypeInv, BudgetInv, Tidy, StageWrites \/ StageRemovals \/ StageRestore,
           ~Spent("disk")'
    PROVE  Tidy'
<1> USE DEF TypeInv
<1>1. ~Spend("disk")
    BY SpendingShows DEF Events
<1>2. /\ phase = "stage" /\ index = HeadTree /\ work = index
      /\ UNCHANGED <<made, local, request>>
    BY DEF Tidy, Clean, StageWrites, StageRemovals, StageRestore
<1>3. IsRequest(request)
    BY <1>2, GitRepoAssumption DEF RepoInv, EditInv
<1>4. CASE phase' = "error" /\ UNCHANGED <<index, work>>
    BY <1>2, <1>4 DEF Tidy, Clean, HeadTree
<1>5. CASE StageAll
    BY <1>2, <1>5 DEF StageAll, Tidy, HeadTree, Edited
<1>6. CASE StageRestored
  <2>1. PICK kept \in SUBSET {f \in DOMAIN request.edit : request.edit[f] = NoFile} :
            /\ kept = {f \in DOMAIN request.edit : request.edit[f] = NoFile /\ work[f] = NoFile}
            /\ index' = Edited(index, DOMAIN request.edit \ kept)
            /\ work' = Edited(work, DOMAIN request.edit)
            /\ phase' = "commit"
      BY <1>1, <1>6 DEF StageRestored
  <2>2. \A f \in kept : index[f] = request.edit[f]
      BY <1>2, <2>1
  <2>3. Edited(index, DOMAIN request.edit \ kept) = Edited(index, DOMAIN request.edit)
      BY <2>2 DEF Edited
  <2> QED
      BY <1>2, <2>1, <2>3 DEF Tidy, HeadTree, Edited
<1>7. CASE StageRemovals /\ StageSomeRemovals
  <2>1. \A f \in DOMAIN request.edit : request.edit[f] = NoFile
      BY <1>3, <1>7 DEF StageRemovals, IsRequest
  <2>2. PICK kept \in SUBSET DOMAIN request.edit :
            /\ \A f \in kept : work[f] = NoFile
            /\ index' = Edited(index, DOMAIN request.edit \ kept)
            /\ work' = Edited(work, DOMAIN request.edit)
            /\ phase' = "commit"
      BY <1>1, <1>7 DEF StageSomeRemovals
  <2>3. \A f \in kept : index[f] = request.edit[f]
      BY <1>2, <2>1, <2>2
  <2>4. Edited(index, DOMAIN request.edit \ kept) = Edited(index, DOMAIN request.edit)
      BY <2>3 DEF Edited
  <2> QED
      BY <1>2, <2>2, <2>4 DEF Tidy, HeadTree, Edited
<1> QED
    BY <1>1, <1>4, <1>5, <1>6, <1>7
    DEF StageWrites, StageRemovals, StageRestore, StagePartly

LEMMA CommittedTidily ==
    ASSUME TypeInv, Tidy, CommitStaged, ~Spend("disk")
    PROVE  Tidy'
<1> USE DEF TypeInv
<1>1. /\ phase = "commit" /\ work = index
      /\ UNCHANGED <<index, work>>
    BY DEF CommitStaged, Tidy
<1>2. CASE phase' = "ok" /\ index = HeadTree /\ UNCHANGED <<made, local>>
    BY <1>1, <1>2 DEF Tidy, Clean, HeadTree
<1>3. CASE phase' = "push" /\ made' = Append(made, NewCommit(local, index, request))
           /\ local' = Len(made')
  <2>1. local \in Commits /\ index \in Tree /\ request \in Requests
      BY <1>1 DEF RepoInv, RepoTypeOK, EditInv
  <2>2. made'[local'] = NewCommit(local, index, request)
      BY <1>3, <2>1, GrowFacts DEF RepoInv
  <2> QED
      BY <1>1, <1>3, <2>2 DEF Tidy, Clean, HeadTree, NewCommit
<1> QED
    BY <1>2, <1>3 DEF CommitStaged

LEMMA EditTidily ==
    ASSUME TypeInv, BudgetInv, Tidy, EditStep, ~Spent("disk")'
    PROVE  Tidy'
<1>0. ~Spend("disk")
    BY SpendingShows DEF Events
<1>1. CASE PreCommitPull
    BY <1>0, <1>1, PullTidies DEF PreCommitPull, Tidy, Clean, HeadTree, TypeInv, RepoInv
<1>2. CASE StageWrites \/ StageRemovals \/ StageRestore
    BY <1>2, StagedTidily
<1>3. CASE CommitStaged
    BY <1>0, <1>3, CommittedTidily
<1>4. CASE Push
    BY <1>4 DEF Push, checkout, Tidy, Clean, HeadTree
<1>5. CASE UndoTerminal \/ UndoAndRetry
  <2>1. Clean /\ phase' # "commit" /\ made' = made
      BY <1>5 DEF UndoTerminal, UndoAndRetry, Tidy
  <2>2. CASE ResetToParent
    <3>1. made[local].parent \in Commits
        BY <1>5 DEF UndoTerminal, UndoAndRetry, TypeInv, RepoInv, EditInv
    <3> QED
        BY <2>1, <2>2, <3>1, CheckOutTidies
        DEF ResetToParent, Tidy, Clean, HeadTree, TypeInv, RepoInv
  <2>3. CASE ResetFails
      BY <1>0, <2>1, <2>3 DEF ResetFails, checkout, Tidy, Clean, HeadTree
  <2> QED
      BY <1>5, <2>2, <2>3 DEF UndoTerminal, UndoAndRetry
<1> QED
    BY <1>1, <1>2, <1>3, <1>4, <1>5 DEF EditStep

\* Whatever goes on, the checkout stays tidy as long as no file operation fails, in an
\* edit, a pull or a reset, and the process lives.
LEMMA StaysTidy ==
    ASSUME TypeInv, BudgetInv, local # 0, Tidy, [Next]_vars, ~Crash, ~Spent("disk")'
    PROVE  Tidy'
<1>1. CASE OpenRepo \/ InitialPull \/ \E p \in Procs : RefreshFromRepo(p) \/ ReloadFromRepo(p)
  <2>1. phase = "free" /\ phase' = "free" /\ made' = made
      BY <1>1 DEF OpenRepo, InitialPull, RefreshFromRepo, ReloadFromRepo, CloneOrOpen, CloneFails,
                  Pull, PullFails, editVars
  <2>2. CASE UNCHANGED checkout
      BY <2>1, <2>2 DEF checkout, Tidy, Clean, HeadTree
  <2>3. CASE PullOk \/ PullError
    <3>1. ~Spend("disk")
        BY SpendingShows DEF Events
    <3> QED
        BY <2>1, <2>3, <3>1, PullTidies DEF Tidy, Clean, HeadTree, TypeInv, RepoInv
  <2> QED
      BY <1>1, <2>2, <2>3 DEF OpenRepo, InitialPull, RefreshFromRepo, ReloadFromRepo, CloneOrOpen,
                              CloneFails, Pull, PullFails
<1>2. CASE \E p \in Writers : Edit(p)
    BY <1>2, EditTidily DEF Edit
<1>3. CASE \E p \in Writers : Write(p) /\ ~Edit(p)
    BY <1>3 DEF Write, BeginWrite, BeginEdit, WriteCommitted, WriteFailed, EndEdit, checkout,
                Tidy, Clean, HeadTree
<1>4. CASE \E p \in Procs : Reload(p)
  <2>1. UNCHANGED <<made, checkout, phase, request>>
      BY <1>4 DEF Reload, LockForReload, ReadSnapshot, ReadFails, Swap, Settle, repoVars, checkout,
                  editVars
  <2> QED
      BY <2>1 DEF Tidy, Clean, HeadTree, checkout, Edited
<1>5. CASE Outside
  <2>1. UNCHANGED <<local, index, work, phase, request>>
      BY <1>5 DEF Outside, OutsidePush, checkout, editVars
  <2>2. made'[local] = made[local]
      BY <1>5, NextGrows, GrowKeeps DEF TypeInv, RepoInv, RepoTypeOK
  <2> QED
      BY <2>1, <2>2 DEF Tidy, Clean, HeadTree, Edited
<1>6. CASE UNCHANGED vars
    BY <1>6 DEF vars, repoVars, Tidy, Clean, HeadTree, Edited
<1> QED
    BY <1>1, <1>2, <1>3, <1>4, <1>5, <1>6 DEF Next, Procs

LEMMA RunningSteps ==
    ASSUME TypeInv, [Next]_vars, Running'
    PROVE  /\ ~Crash
           /\ Running \/ \E p \in Procs : ReadSnapshot(p)
<1> USE DEF TypeInv, StoreInv, StoreTypeOK, Running, Goto
<1>0. Main \in Procs
    BY DEF Procs
<1>1. ~Crash
    BY <1>0 DEF Crash, RepoCrash
<1>2. CASE OpenRepo \/ InitialPull
    BY <1>0, <1>1, <1>2 DEF OpenRepo, InitialPull, CloneOrOpen, CloneFails, Pull, PullFails, editVars
<1>3. CASE \E p \in Procs : RefreshFromRepo(p) \/ ReloadFromRepo(p)
    BY <1>1, <1>3 DEF RefreshFromRepo, ReloadFromRepo
<1>4. CASE \E p \in Writers : Write(p)
    BY <1>1, <1>4 DEF Write, BeginWrite, Edit, WriteCommitted, WriteFailed, EditStep, PreCommitPull,
                StageWrites, StageRemovals, StageRestore, CommitStaged, Push, UndoTerminal,
                UndoAndRetry
<1>5. CASE \E p \in Procs : LockForReload(p) \/ Swap(p)
    BY <1>0, <1>1, <1>5 DEF LockForReload, Swap, repoVars
<1>6. CASE \E p \in Procs : ReadFails(p) \/ Settle(p)
    BY <1>0, <1>1, <1>6 DEF ReadFails, Settle, Finish, repoVars, editVars
<1>7. CASE Outside \/ UNCHANGED vars
    BY <1>1, <1>7 DEF Outside, OutsidePush, editVars, vars, repoVars, storeVars
<1> QED
    BY <1>1, <1>2, <1>3, <1>4, <1>5, <1>6, <1>7 DEF Next, Reload, Procs

\* A running server's checkout is tidy, or a file operation has failed.
TidyInv == Running => Tidy

LEMMA TidyNext ==
    ASSUME TypeInv, BudgetInv, TidyInv, [Next]_vars, ~Spent("disk")'
    PROVE  TidyInv'
<1> SUFFICES ASSUME Running' PROVE Tidy'
    BY DEF TidyInv
<1>1. CASE Running
  <2>1. local # 0
      BY <1>1 DEF Running, TypeInv, RepoInv, EditInv, StoreInv, CloneInv, Procs
  <2> QED
      BY <1>1, <2>1, RunningSteps, StaysTidy DEF TidyInv
<1>2. CASE \E p \in Procs : ReadSnapshot(p)
    BY <1>2 DEF ReadSnapshot, SnapshotOk, Clean, HeadTree, Tidy, repoVars
<1> QED
    BY <1>1, <1>2, RunningSteps

(***************************************************************************)
(* The commits.                                                            *)
(***************************************************************************)
OwnInv ==
    \A c \in Commits :
        LET r == made[c].by IN
        r # NoRequest =>
            /\ made[c].parent \in Commits
            /\ made[c].tree = [f \in Files |-> IF f \in DOMAIN r.edit THEN r.edit[f]
                                              ELSE made[made[c].parent].tree[f]]

\* The commits of this server are made by CommitStaged, of what is staged.
LEMMA NewCommits ==
    ASSUME TypeInv, [Next]_vars
    PROVE  \/ made' = made
           \/ \E p \in Writers : /\ Edit(p) /\ CommitStaged
                                 /\ made' = Append(made, NewCommit(local, index, request))
           \/ \E base \in Commits, t \in Tree : made' = Append(made, NewCommit(base, t, NoRequest))
<1>1. CASE Outside
  <2>1. PICK f \in Files, v \in Blob :
            made' = Append(made, NewCommit(remote, [made[remote].tree EXCEPT ![f] = v], NoRequest))
      BY <1>1 DEF Outside, OutsidePush
  <2>2. remote \in Commits /\ made[remote].tree \in Tree
      BY CommitFacts DEF TypeInv, RepoInv, RepoTypeOK
  <2>3. [made[remote].tree EXCEPT ![f] = v] \in Tree
      BY <2>2 DEF Tree
  <2> QED
      BY <2>1, <2>2, <2>3
<1>2. CASE \E p \in Writers : Edit(p)
    BY <1>2 DEF Edit, EditStep, PreCommitPull, StageWrites, StageRemovals, StageRestore,
                CommitStaged, Push, UndoTerminal, UndoAndRetry
<1>3. made' = made \/ Outside \/ \E p \in Writers : Edit(p)
    BY DEF Next, OpenRepo, CloneOrOpen, CloneFails, InitialPull, RefreshFromRepo, ReloadFromRepo,
        Pull, PullFails, Write, BeginWrite, BeginEdit, WriteCommitted, WriteFailed,
        EndEdit, Reload, LockForReload, ReadSnapshot, ReadFails, Swap, Settle, Crash, RepoCrash,
        vars, repoVars
<1> QED
    BY <1>1, <1>2, <1>3

LEMMA OwnNext ==
    ASSUME TypeInv, TidyInv, OwnInv, [Next]_vars
    PROVE  OwnInv'
<1> USE DEF TypeInv, RepoInv
<1>1. CASE made' = made
    BY <1>1 DEF OwnInv, Commits
<1>2. CASE CommitStaged /\ made' = Append(made, NewCommit(local, index, request))
  <2>1. local \in Commits /\ index \in Tree /\ request \in Requests /\ phase = "commit"
      BY <1>2 DEF CommitStaged, RepoTypeOK, EditInv
  <2> DEFINE n == Len(made')
  <2>2. /\ Commits' = Commits \cup {n}
        /\ \A c \in Commits : made'[c] = made[c]
        /\ made'[n] = NewCommit(local, index, request)
      BY <1>2, <2>1, GrowFacts
  <2>3. index = [f \in Files |-> IF f \in DOMAIN request.edit THEN request.edit[f]
                                 ELSE made[local].tree[f]]
      BY <2>1 DEF TidyInv, Running, Tidy, Edited, HeadTree
  <2>4. made'[n].by = request /\ made'[n].parent = local /\ made'[n].tree = index
      BY <2>2 DEF NewCommit
  <2> HIDE DEF n
  <2>5. \A c \in Commits : made'[c].by # NoRequest => made'[c].parent \in Commits
      BY <2>2 DEF OwnInv
  <2> QED
      BY <2>1, <2>2, <2>3, <2>4, <2>5 DEF OwnInv
<1>3. CASE \E base \in Commits, t \in Tree : made' = Append(made, NewCommit(base, t, NoRequest))
  <2>1. PICK base \in Commits, t \in Tree : made' = Append(made, NewCommit(base, t, NoRequest))
      BY <1>3
  <2> DEFINE n == Len(made')
  <2>2. /\ Commits' = Commits \cup {n}
        /\ \A c \in Commits : made'[c] = made[c]
        /\ made'[n] = NewCommit(base, t, NoRequest)
      BY <2>1, GrowFacts
  <2>3. made'[n].by = NoRequest
      BY <2>2 DEF NewCommit
  <2> HIDE DEF n
  <2>4. \A c \in Commits : made'[c].by # NoRequest => made'[c].parent \in Commits
      BY <2>2 DEF OwnInv
  <2> QED
      BY <2>2, <2>3, <2>4 DEF OwnInv
<1> QED
    BY <1>1, <1>2, <1>3, NewCommits

\* Either a file operation has failed, or the checkout is tidy and every commit is the
\* edit that its request asked for, and nothing else.
TidyOrDisk == Spent("disk") \/ (TidyInv /\ OwnInv)

LEMMA TidyStart == Init => TidyOrDisk
<1> SUFFICES ASSUME Init PROVE TidyInv /\ OwnInv
    BY DEF TidyOrDisk
<1>1. ~Running
    BY DEF Init, RepoInit, Running, Procs
<1>2. PICK t \in InitialTrees :
          made = <<[parent |-> 0, anc |-> {1}, tree |-> t, by |-> NoRequest]>>
    BY DEF Init, RepoInit
<1>3. Len(made) = 1 /\ made[1].by = NoRequest
    BY <1>2
<1> QED
    BY <1>1, <1>3 DEF TidyInv, OwnInv, Commits

LEMMA TidyAlways == Spec => []TidyOrDisk
<1>1. TypeInv /\ BudgetInv /\ TidyOrDisk /\ [Next]_vars => TidyOrDisk'
    BY BudgetNext, TidyNext, OwnNext DEF TidyOrDisk, Events
<1> QED
    BY <1>1, TidyStart, TypeAlways, BudgetAlways, PTL DEF Spec

LEMMA OwnTrees ==
    ASSUME OwnInv
    PROVE  OwnFilesOnly
<1> SUFFICES ASSUME NEW c \in Commits, made[c].by # NoRequest, NEW f \in Files
             PROVE  made[c].tree[f] = IF f \in DOMAIN made[c].by.edit THEN made[c].by.edit[f]
                                      ELSE made[made[c].parent].tree[f]
    BY DEF OwnFilesOnly
<1>1. made[c].tree = [g \in Files |-> IF g \in DOMAIN made[c].by.edit THEN made[c].by.edit[g]
                                     ELSE made[made[c].parent].tree[g]]
    BY DEF OwnInv
<1> QED
    BY <1>1

\* However often an edit is refused and tried again, whatever others push in between
\* and wherever the process dies, a commit changes the files that its request names
\* and no other, unless a file operation has failed: in an edit, in a pull, or in the
\* reset after a failed push once HEAD was back at the parent, which leaves the edit
\* staged or on disk under a HEAD that does not have it (CommitAndPushFunc,
\* resetToParent).
THEOREM OnlyDiskMixes == Spec => []MixedOnlyByDisk
<1>1. TidyOrDisk => MixedOnlyByDisk
    BY OwnTrees DEF TidyOrDisk, MixedOnlyByDisk
<1> QED
    BY <1>1, TidyAlways, PTL

\* The clone is given up by a crash only.
LEMMA NeverGivesUp ==
    ASSUME TypeInv, [Next]_vars, ~Crash, local # 0
    PROVE  local' # 0
<1> USE DEF TypeInv
<1>1. CASE OpenRepo \/ InitialPull \/ \E p \in Procs : RefreshFromRepo(p) \/ ReloadFromRepo(p)
    BY <1>1, CloneSound, PullSound DEF OpenRepo, InitialPull, RefreshFromRepo, ReloadFromRepo, Sound
<1>2. CASE \E p \in Writers : Write(p)
    BY <1>2, EditStepSound DEF Write, BeginWrite, BeginEdit, Edit, WriteCommitted, WriteFailed,
                               EndEdit, checkout, Sound
<1>3. CASE \E p \in Procs : Reload(p)
    BY <1>3 DEF Reload, LockForReload, ReadSnapshot, ReadFails, Swap, Settle, repoVars, checkout
<1>4. CASE Outside \/ UNCHANGED vars
    BY <1>4 DEF Outside, OutsidePush, checkout, vars, repoVars
<1> QED
    BY <1>1, <1>2, <1>3, <1>4 DEF Next, Procs

(***************************************************************************)
(* Outside a server's life.                                                *)
(***************************************************************************)
\* Before the clone there is nothing, and from then on the checkout is tidy.
HomeInv ==
    IF local = 0 THEN index = EmptyTree /\ work = EmptyTree ELSE Tidy

LEMMA HomeNext ==
    ASSUME TypeInv, BudgetInv, HomeInv, [Next]_vars, ~Spent("disk")', ~Spent("crash")'
    PROVE  HomeInv'
<1> USE DEF TypeInv
<1>1. CASE Crash
  <2>1. local' = 0 /\ index' = EmptyTree /\ work' = EmptyTree
      BY <1>1, SpendingShows DEF Crash, RepoCrash, Events
  <2> QED
      BY <2>1 DEF HomeInv
<1>2. CASE ~Crash /\ local # 0
  <2>1. local' # 0
      BY <1>2, NeverGivesUp
  <2> QED
      BY <1>2, <2>1, StaysTidy DEF HomeInv
<1>3. CASE ~Crash /\ local = 0
  <2>1. phase = "free" /\ ~up /\ \A p \in Procs : pc[p] = "idle"
      BY <1>3 DEF RepoInv, EditInv, StoreInv, CloneInv
  <2>2. CASE OpenRepo
    <3>1. CASE CloneOrOpen
      <4>1. phase' = "free" /\ made' = made /\ CheckOut(remote)
          BY <1>3, <2>1, <3>1 DEF CloneOrOpen, editVars
      <4>2. index' = made[remote].tree /\ work' = index' /\ local' = remote
          BY <1>3, <4>1, CheckOutTidies DEF HomeInv, RepoInv, RepoTypeOK
      <4> QED
          BY <4>1, <4>2 DEF HomeInv, Tidy, Clean, HeadTree, RepoInv, RepoTypeOK, Commits
    <3>2. CASE CloneFails
        BY <1>3, <3>2 DEF CloneFails, checkout, HomeInv
    <3> QED
        BY <2>2, <3>1, <3>2 DEF OpenRepo
  <2>3. CASE Outside \/ UNCHANGED vars
      BY <1>3, <2>3 DEF Outside, OutsidePush, checkout, vars, repoVars, HomeInv
  <2>4. OpenRepo \/ Outside \/ UNCHANGED vars
      BY <1>3, <2>1 DEF Next, Procs, InitialPull, RefreshFromRepo, ReloadFromRepo, Write, BeginWrite,
          Edit, WriteCommitted, WriteFailed, Reload, LockForReload, ReadSnapshot, ReadFails, Swap,
          Settle
  <2> QED
      BY <2>2, <2>3, <2>4
<1> QED
    BY <1>1, <1>2, <1>3

HomeOrFault == Spent("disk") \/ Spent("crash") \/ HomeInv

\* Between edits the checkout is exactly HEAD, so the check that refuses a dirty one
\* fires on nothing that this process does, unless a file operation has failed or the
\* process died in the middle of one.  A pull or a reset that fails half way, with HEAD
\* moved and the index or the files not, is such a failure; a refused or lost push, a
\* failed fetch, a reset that could not begin, an unparsable file and the loss of the
\* volume leave nothing behind (assertConfigsCleanUnlocked, resetToParent).
THEOREM CleanUnlessDiskOrCrash == Spec => [](CheckoutClean \/ Spent("disk") \/ Spent("crash"))
<1>1. Init => HomeOrFault
    BY DEF Init, RepoInit, HomeOrFault, HomeInv
<1>2. TypeInv /\ BudgetInv /\ HomeOrFault /\ [Next]_vars => HomeOrFault'
    BY BudgetNext, HomeNext DEF HomeOrFault, Events
<1>3. HomeOrFault => CheckoutClean \/ Spent("disk") \/ Spent("crash")
    BY DEF HomeOrFault, HomeInv, Tidy, CheckoutClean
<1> QED
    BY <1>1, <1>2, <1>3, TypeAlways, BudgetAlways, PTL DEF Spec

(***************************************************************************)
(* Answers, plain or not.                                                  *)
(***************************************************************************)
\* Whatever is answered with a version, or about to be, is carried out by it.
KeptInv ==
    /\ \A p \in Writers : Answering(p) => Carried(reply)
    /\ \A a \in acked : Carried(a)

LEMMA KeptNext ==
    ASSUME TypeInv, TidyInv, ContentInv, KeptInv, [Next]_vars, AcksAnswer
    PROVE  KeptInv'
<1>1. Commits \subseteq Commits' /\ \A c \in Commits : made'[c] = made[c]
    BY NextGrows, GrowKeeps DEF TypeInv, RepoInv
<1> DEFINE CarriedNext(a) == a.version \in Commits' /\ Holds(a.request, made'[a.version].tree)
<1>2. \A a : Carried(a) => CarriedNext(a)
    BY <1>1 DEF Carried
<1>3. ASSUME NEW p \in Writers, Answering(p)' PROVE CarriedNext(reply')
  <2>1. CASE \E q \in Writers : WriteCommitted(q)
    <3>1. PICK q \in Writers : WriteCommitted(q)
        BY <2>1
    <3>2. /\ reply'.version = local /\ reply'.request = request /\ local \in Commits
          /\ phase = "ok"
        BY <3>1 DEF WriteCommitted, TypeInv, RepoInv, RepoTypeOK, EditInv
    <3>3. ~Unstaged
        BY <3>2 DEF TidyInv, Running, Tidy, Clean, Unstaged
    <3>4. Holds(request, made[local].tree)
        BY <3>2, <3>3 DEF ContentInv, HeadTree
    <3> QED
        BY <1>1, <3>2, <3>4
  <2>2. CASE Answering(p) /\ reply' = reply
      BY <1>2, <2>2 DEF KeptInv
  <2> QED
      BY <1>3, <2>1, <2>2, ReplySteps
<1>4. ASSUME NEW a \in acked' PROVE CarriedNext(a)
  <2>1. Carried(a)
      BY DEF KeptInv, Carried, AcksAnswer
  <2> QED
      BY <1>2, <2>1
<1> QED
    BY <1>3, <1>4 DEF KeptInv, Carried, Holds

KeptOrDisk == Spent("disk") \/ KeptInv

\* A write that is answered with a version is on the remote for good, and that version
\* holds what was asked for, whether or not the reload after it succeeded, unless the
\* process died, a reset could not begin or a file operation failed (CommitAndPushFunc).
THEOREM DurableUnlessFault ==
    Spec => [](AckedIsDurable \/ Spent("crash") \/ Spent("reset") \/ Spent("disk"))
<1>1. Init => KeptOrDisk
    BY DEF Init, KeptOrDisk, KeptInv, Answering, Procs
<1>2. TypeInv /\ ReplyInv /\ BudgetInv /\ TidyOrDisk /\ ContentInv /\ KeptOrDisk /\ [Next]_vars
      => KeptOrDisk'
    BY AckSteps, BudgetNext, KeptNext DEF TidyOrDisk, KeptOrDisk, Events
<1>3. /\ KeptOrDisk /\ AcceptedUnlessCrashOrReset
      => AckedIsDurable \/ Spent("crash") \/ Spent("reset") \/ Spent("disk")
    BY DEF KeptOrDisk, KeptInv, Carried, Holds, AcceptedUnlessCrashOrReset, AckedIsDurable, IsCarriedOut
<1> QED
    BY <1>1, <1>2, <1>3, TypeAlways, ReplyAlways, BudgetAlways, TidyAlways, ContentAlways, OnlyCrashOrResetLoses,
       PTL DEF Spec

(***************************************************************************)
(* The same where the process, its disk or its resets do not fail: any     *)
(* number of refused and lost pushes, of pushes by others and of errors of *)
(* the network is no excuse.                                               *)
(***************************************************************************)
LEMMA NotOffered ==
    ASSUME TypeInv, NEW k \in Events, Budget[k] = 0
    PROVE  ~Spent(k)
<1>1. budget \in [Events -> Nat]
    BY DEF TypeInv, RepoInv, RepoTypeOK
<1> QED
    BY <1>1 DEF Spent

\* Nothing is served that the remote has not accepted, as long as the process lives and
\* resets after failed pushes get as far as to move HEAD back, even if they then fail
\* on the index or the files (CommitAndPushFunc, reloadUnlocked).
THEOREM NetworkLosesNothing ==
    ASSUME Budget["crash"] = 0, Budget["reset"] = 0
    PROVE  Spec => []ServedIsAccepted
<1>1. TypeInv => ~Spent("crash") /\ ~Spent("reset")
    BY NotOffered DEF Events
<1>2. TypeInv /\ AcceptedUnlessCrashOrReset => ServedIsAccepted
    BY <1>1 DEF AcceptedUnlessCrashOrReset
<1> QED
    BY <1>2, TypeAlways, OnlyCrashOrResetLoses, PTL

\* A commit changes what its request names and nothing else, as long as file operations
\* succeed, those of pulls and resets included, wherever the process dies and however
\* often a reset cannot begin (CommitAndPushFunc, resetToParent).
THEOREM NetworkMixesNothing ==
    ASSUME Budget["disk"] = 0
    PROVE  Spec => []OwnFilesOnly
<1>1. TypeInv => ~Spent("disk")
    BY NotOffered DEF Events
<1>2. TypeInv /\ MixedOnlyByDisk => OwnFilesOnly
    BY <1>1 DEF MixedOnlyByDisk
<1> QED
    BY <1>2, TypeAlways, OnlyDiskMixes, PTL

=============================================================================
