---------------------- MODULE ConfigStoreServing_proofs ----------------------
(***************************************************************************)
(* In what order versions are served, what that means for who has written, *)
(* and that the server as a whole keeps its promise to readers, whatever   *)
(* requests, refreshers, files, values and faults there are.               *)
(***************************************************************************)
EXTENDS ConfigStoreSafety_proofs

(***************************************************************************)
(* The clone moves forward.                                                *)
(***************************************************************************)
\* A pull leaves HEAD where it is or fast-forwards it.
LEMMA PullMovesForward ==
    ASSUME PullOk \/ PullError
    PROVE  local' = local \/ (local' = remote /\ Reaches(remote, local))
    BY DEF PullOk, PullError, PullUpToDate, PullForward, PullTorn, PullHalfDone, PullDiverged,
           PullUnreachable, Behind, CheckOut, HalfCheckOut, checkout

LEMMA BaseIsCommit ==
    ASSUME TypeInv, GraphInv, local # 0
    PROVE  /\ Base \in Commits /\ local \in Commits
           /\ made[Base].anc \subseteq made[local].anc
           /\ made[Base].anc \subseteq Commits
<1>1. local \in Commits
    BY DEF TypeInv, RepoInv, RepoTypeOK
<1>2. CASE phase \in {"push", "undo", "undoRetry"}
  <2>1. Base = made[local].parent /\ Base \in Commits
      BY <1>2 DEF Base, TypeInv, RepoInv, EditInv
  <2>2. made[local].parent # 0
      BY <2>1 DEF Commits
  <2> QED
      BY <1>1, <2>1, <2>2 DEF GraphInv
<1>3. CASE phase \notin {"push", "undo", "undoRetry"}
    BY <1>1, <1>3 DEF Base, GraphInv
<1> QED
    BY <1>2, <1>3

\* A step of an edit goes on from where the clone stands, or back to where it stood
\* when the edit committed: never further back.
LEMMA EditForward ==
    ASSUME TypeInv, GraphInv, EditStep
    PROVE  made[Base].anc \subseteq made'[Base'].anc
<1> USE DEF TypeInv, RepoInv
<1>0. local # 0 /\ local \in Commits /\ remote \in Commits
    BY DEF EditStep, PreCommitPull, StageWrites, StageRemovals, StageRestore, CommitStaged, Push,
           UndoTerminal, UndoAndRetry, RepoTypeOK, EditInv
<1>1. CASE PreCommitPull
  <2>1. /\ made' = made /\ phase = "pull" /\ phase' \in {"stage", "error"}
        /\ local' = local \/ (local' = remote /\ Reaches(remote, local))
      BY <1>1, PullMovesForward DEF PreCommitPull
  <2> QED
      BY <1>0, <2>1 DEF Base, GraphInv, Reaches
<1>2. CASE StageWrites \/ StageRemovals \/ StageRestore
  <2>1. UNCHANGED <<made, local>> /\ phase = "stage" /\ phase' \in {"error", "commit"}
      BY <1>2 DEF StageWrites, StageRemovals, StageRestore, StageAll, StagePartly, StageSomeRemovals,
                  StageRestored
  <2> QED
      BY <2>1 DEF Base
<1>3. CASE CommitStaged
  <2>1. CASE UNCHANGED <<made, local>> /\ phase' \in {"ok", "error"}
      BY <1>3, <2>1 DEF CommitStaged, Base
  <2>2. CASE phase' = "push" /\ made' = Append(made, NewCommit(local, index, request))
             /\ local' = Len(made')
    <3>1. index \in Tree /\ request \in Requests
        BY <1>3 DEF CommitStaged, RepoTypeOK, EditInv
    <3>2. made'[local'] = NewCommit(local, index, request) /\ made'[local] = made[local]
        BY <1>0, <2>2, <3>1, GrowFacts
    <3>3. made'[local'].parent = local
        BY <3>2 DEF NewCommit
    <3>4. Base = local /\ Base' = local
        BY <1>3, <2>2, <3>3 DEF CommitStaged, Base
    <3> QED
        BY <3>2, <3>4
  <2> QED
      BY <1>3, <2>1, <2>2 DEF CommitStaged
<1>4. CASE Push \/ ((UndoTerminal \/ UndoAndRetry) /\ UNCHANGED checkout)
  <2>1. UNCHANGED <<made, local>> /\ phase \in {"push", "undo", "undoRetry"}
      BY <1>4 DEF Push, UndoTerminal, UndoAndRetry, checkout
  <2>2. Base' = Base \/ Base' = local
      BY <2>1 DEF Base
  <2> QED
      BY <1>0, <2>1, <2>2, BaseIsCommit
<1>5. CASE (UndoTerminal \/ UndoAndRetry) /\ local' = made[local].parent
    BY <1>5 DEF UndoTerminal, UndoAndRetry, Base
<1>6. UndoTerminal \/ UndoAndRetry => UNCHANGED checkout \/ local' = made[local].parent
    BY DEF UndoTerminal, UndoAndRetry, ResetToParent, ResetFails, CheckOut, HalfCheckOut
<1> QED
    BY <1>1, <1>2, <1>3, <1>4, <1>5, <1>6 DEF EditStep

\* Not even a crash takes the clone back, as long as it is there.
LEMMA CrashForward ==
    ASSUME TypeInv, GraphInv, Crash, local # 0, local' # 0
    PROVE  made[Base].anc \subseteq made'[Base'].anc
<1>1. CrashedCheckout /\ made' = made /\ phase' = "free"
    BY DEF Crash, RepoCrash
<1>2. Base' = local'
    BY <1>1 DEF Base
<1>3. \/ local' = local
      \/ local' = remote /\ Reaches(remote, local)
      \/ phase \in {"undo", "undoRetry"} /\ local' = made[local].parent
    BY <1>1 DEF CrashedCheckout, Behind, HalfCheckOut, checkout
<1>4. /\ Base \in Commits /\ local \in Commits
      /\ made[Base].anc \subseteq made[local].anc
    BY BaseIsCommit
<1>5. CASE local' = local
    BY <1>1, <1>2, <1>4, <1>5
<1>6. CASE local' = remote /\ Reaches(remote, local)
    BY <1>1, <1>2, <1>4, <1>6 DEF GraphInv, Reaches, TypeInv, RepoInv, RepoTypeOK
<1>7. CASE phase \in {"undo", "undoRetry"} /\ local' = made[local].parent
    BY <1>1, <1>2, <1>7 DEF Base
<1> QED
    BY <1>3, <1>5, <1>6, <1>7

LEMMA BaseForward ==
    ASSUME TypeInv, GraphInv, [Next]_vars, local # 0, local' # 0
    PROVE  made[Base].anc \subseteq made'[Base'].anc
<1> USE DEF TypeInv
<1>0. local \in Commits /\ remote \in Commits
    BY DEF RepoInv, RepoTypeOK
<1>1. CASE OpenRepo \/ InitialPull \/ \E p \in Procs : RefreshFromRepo(p) \/ ReloadFromRepo(p)
  <2>1. phase = "free" /\ phase' = "free" /\ made' = made
      BY <1>1 DEF OpenRepo, InitialPull, RefreshFromRepo, ReloadFromRepo, CloneOrOpen, CloneFails,
                  Pull, PullFails, editVars
  <2>2. local' = local \/ (local' = remote /\ Reaches(remote, local))
      BY <1>1, PullMovesForward
      DEF OpenRepo, InitialPull, RefreshFromRepo, ReloadFromRepo, CloneOrOpen, CloneFails,
          Pull, PullFails, checkout
  <2> QED
      BY <1>0, <2>1, <2>2 DEF Base, GraphInv, Reaches
<1>2. CASE \E p \in Writers : Edit(p)
    BY <1>2, EditForward DEF Edit
<1>3. CASE \E p \in Writers : Write(p) /\ ~Edit(p)
  <2>1. UNCHANGED <<made, local>> /\ phase \in {"free", "ok", "error"} /\ phase' \in {"pull", "free"}
      BY <1>3 DEF Write, BeginWrite, BeginEdit, WriteCommitted, WriteFailed, EndEdit, checkout
  <2> QED
      BY <2>1 DEF Base
<1>4. CASE (\E p \in Procs : Reload(p)) \/ UNCHANGED vars
  <2>1. UNCHANGED <<made, local, phase>>
      BY <1>4 DEF Reload, LockForReload, ReadSnapshot, ReadFails, Swap, Settle, repoVars, checkout,
                editVars, vars
  <2> QED
      BY <2>1 DEF Base
<1>5. CASE Outside
  <2>1. UNCHANGED <<local, phase>>
      BY <1>5 DEF Outside, OutsidePush, checkout, editVars
  <2>2. \A c \in Commits : made'[c] = made[c]
      BY <1>5, NextGrows, GrowKeeps DEF RepoInv, RepoTypeOK
  <2>3. Base \in Commits
      BY BaseIsCommit
  <2>4. Base' = Base
      BY <1>0, <2>1, <2>2 DEF Base
  <2> QED
      BY <2>2, <2>3, <2>4
<1>6. CASE Crash
    BY <1>6, CrashForward
<1> QED
    BY <1>1, <1>2, <1>3, <1>4, <1>5, <1>6 DEF Next, Procs

(***************************************************************************)
(* The snapshot moves forward.                                             *)
(***************************************************************************)
\* The snapshot is not ahead of the clone, nor is what has been read to replace it,
\* and this is not behind the snapshot.
ForwardInv ==
    /\ snap.version # 0 => local # 0 /\ Reaches(Base, snap.version)
    /\ \A p \in Procs : pc[p] = "swap" =>
          /\ Reaches(Base, pend[p].version)
          /\ snap.version # 0 => Reaches(pend[p].version, snap.version)

\* Who is about to store a snapshot has just read it, or had read it before.
LEMMA SwapSteps ==
    ASSUME TypeInv, [Next]_vars, NEW p \in Procs, pc'[p] = "swap"
    PROVE  \/ ReadSnapshot(p) /\ pend'[p] = [version |-> local, data |-> work]
           \/ pc[p] = "swap" /\ pend'[p] = pend[p] /\ snap' = snap
<1> USE DEF TypeInv, StoreInv, StoreTypeOK, Goto
<1>1. ASSUME NEW q \in Procs, ReadSnapshot(q)
      PROVE  \/ ReadSnapshot(p) /\ pend'[p] = [version |-> local, data |-> work]
             \/ pc[p] = "swap" /\ pend'[p] = pend[p] /\ snap' = snap
    BY <1>1 DEF ReadSnapshot
<1>2. ASSUME NEW q \in Procs, Swap(q) PROVE FALSE
  <2>1. q # p /\ pc[p] = "swap" /\ pc[q] = "swap"
      BY <1>2 DEF Swap
  <2> QED
      BY <2>1 DEF MuInv, Critical
<1>3. CASE Crash
    BY <1>3 DEF Crash
<1> QED
    BY <1>1, <1>2, <1>3, SnapshotSteps DEF SnapshotKept

LEMMA StillReaches ==
    ASSUME TypeInv, GraphInv, [Next]_vars, NEW b \in Commits, NEW c, Reaches(b, c)
    PROVE  c \in made'[b].anc
    BY NextGrows, GrowKeeps DEF Reaches, TypeInv, RepoInv

\* Where the clone stands it has read, and what it stands on it will keep.
LEMMA BaseReaches ==
    ASSUME TypeInv, GraphInv, [Next]_vars, ~Crash, local # 0, NEW c, Reaches(Base, c)
    PROVE  /\ local' # 0 /\ c \in made'[Base'].anc
           /\ c \in Commits /\ Reaches(c, c)
<1>1. local' # 0
    BY NeverGivesUp
<1>2. c \in made'[Base'].anc
    BY <1>1, BaseForward DEF Reaches
<1>3. c \in Commits
    BY BaseIsCommit DEF Reaches
<1> QED
    BY <1>1, <1>2, <1>3 DEF GraphInv, Reaches

LEMMA ReadIsBase ==
    ASSUME TypeInv, GraphInv, NEW p \in Procs, ReadSnapshot(p)
    PROVE  /\ local # 0 /\ Base = local /\ Reaches(local, local)
           /\ Base' = Base /\ made' = made /\ snap' = snap /\ reply' = reply /\ acked' = acked
<1>1. phase = "free" /\ UNCHANGED <<made, phase, local, snap, reply, acked>>
    BY DEF ReadSnapshot, SnapshotOk, repoVars
<1>2. local # 0 /\ local \in Commits
    BY DEF ReadSnapshot, TypeInv, RepoInv, RepoTypeOK, StoreInv, CloneInv
<1> QED
    BY <1>1, <1>2 DEF Base, GraphInv, Reaches

LEMMA ForwardNext ==
    ASSUME TypeInv, GraphInv, ForwardInv, [Next]_vars
    PROVE  ForwardInv'
<1> USE DEF TypeInv, StoreInv, StoreTypeOK
<1>1. CASE Crash
    BY <1>1 DEF Crash, ForwardInv, NoSnapshot
<1>2. ASSUME ~Crash, NEW p \in Procs, pc'[p] = "swap"
      PROVE  /\ pend'[p].version \in made'[Base'].anc
             /\ snap'.version # 0 => snap'.version \in made'[pend'[p].version].anc
  <2>1. CASE ReadSnapshot(p) /\ pend'[p] = [version |-> local, data |-> work]
    <3>1. /\ Base = local /\ Reaches(local, local) /\ Base' = Base /\ made' = made /\ snap' = snap
        BY <2>1, ReadIsBase
    <3> QED
        BY <2>1, <3>1 DEF ForwardInv, Reaches
  <2>2. CASE pc[p] = "swap" /\ pend'[p] = pend[p] /\ snap' = snap
    <3>1. local # 0
        BY <2>2 DEF CloneInv
    <3>2. Reaches(Base, pend[p].version)
        BY <2>2 DEF ForwardInv
    <3>3. pend[p].version \in made'[Base'].anc /\ pend[p].version \in Commits
        BY <1>2, <3>1, <3>2, BaseReaches
    <3>4. snap.version # 0 => snap.version \in made'[pend[p].version].anc
        BY <2>2, <3>3, StillReaches DEF ForwardInv
    <3> QED
        BY <2>2, <3>3, <3>4
  <2> QED
      BY <1>2, <2>1, <2>2, SwapSteps
<1>3. ASSUME ~Crash, snap'.version # 0
      PROVE  local' # 0 /\ snap'.version \in made'[Base'].anc
  <2>1. CASE snap' = snap
      BY <1>3, <2>1, BaseReaches DEF ForwardInv
  <2>2. CASE \E p \in Procs : Swap(p)
    <3>1. PICK p \in Procs : Swap(p)
        BY <2>2
    <3>2. snap' = pend[p] /\ Reaches(Base, pend[p].version) /\ local # 0
        BY <3>1 DEF Swap, ForwardInv, CloneInv
    <3> QED
        BY <1>3, <3>2, BaseReaches
  <2> QED
      BY <1>3, <2>1, <2>2, SnapshotSteps DEF ReadSnapshot, SnapshotKept
<1> QED
    BY <1>1, <1>2, <1>3 DEF ForwardInv, Reaches

LEMMA ForwardInit == Init => ForwardInv
    BY DEF Init, NoSnapshot, ForwardInv

LEMMA ForwardAlways == Spec => []ForwardInv
<1>1. TypeInv /\ GraphInv /\ ForwardInv /\ [Next]_vars => ForwardInv'
    BY ForwardNext
<1> QED
    BY <1>1, ForwardInit, TypeAlways, GraphAlways, PTL DEF Spec

LEMMA SnapForward ==
    ASSUME TypeInv, GraphInv, ForwardInv, [Next]_vars, snap.version # 0, snap'.version # 0
    PROVE  Reaches(snap'.version, snap.version)
<1>1. CASE \E p \in Procs : Swap(p)
    BY <1>1 DEF Swap, ForwardInv
<1>2. CASE snap' = snap
  <2>1. snap.version \in Commits
      BY BaseIsCommit DEF ForwardInv, Reaches
  <2> QED
      BY <1>2, <2>1 DEF GraphInv, Reaches
<1>3. ~Crash
    BY DEF Crash, NoSnapshot
<1> QED
    BY <1>1, <1>2, <1>3, SnapshotSteps DEF ReadSnapshot, SnapshotKept

\* From one look to the next a reader is shown the same version of the branch or a later
\* one, whatever is refused, lost, reset, left half done or started again, and however
\* pulls, edits and reloads fall in between each other; a restart shows nothing until
\* it has loaded (Store.mu around reload, resetToParent).
THEOREM SnapshotMovesForward == Spec => ServedForward
<1>1. TypeInv /\ GraphInv /\ ForwardInv /\ [Next]_vars =>
          (snap.version # 0 /\ snap'.version # 0 => Reaches(snap'.version, snap.version))
    BY SnapForward
<1> QED
    BY <1>1, TypeAlways, GraphAlways, ForwardAlways, PTL DEF Spec, ServedForward

(***************************************************************************)
(* What has been answered is served.                                       *)
(***************************************************************************)
\* Answers and what is to be answered are not ahead of the clone; what is read to be
\* served next is not behind them, and what is served not behind the plain ones.
ServedInv ==
    /\ local # 0 => \A a \in acked : Reaches(Base, a.version)
    /\ \A p \in Writers : Answering(p) => Reaches(Base, reply.version)
    /\ \A p \in Procs : pc[p] = "swap" => \A a \in acked : Reaches(pend[p].version, a.version)
    /\ \A p \in Writers : Answering(p) =>
          /\ pc[p] = "swap" => Reaches(pend[p].version, reply.version)
          /\ pc[p] = "settle" => snap.version # 0 /\ Reaches(snap.version, reply.version)
    /\ AckedIsServed

\* An answer is given when Store.mu is released.
LEMMA AnswersLast ==
    ASSUME TypeInv, [Next]_vars
    PROVE  \/ acked' = acked
           \/ snap' = snap /\ ~Crash /\ \A p \in Procs : pc'[p] # "swap"
<1>1. acked' = acked \/ \E p \in Procs : ReadFails(p) \/ Settle(p)
    BY DEF Next, OpenRepo, InitialPull, RefreshFromRepo, ReloadFromRepo, Write, BeginWrite, Edit,
        WriteCommitted, WriteFailed, Reload, LockForReload, ReadSnapshot, Swap, Outside, Crash,
        vars, storeVars
<1>2. CASE acked' # acked
  <2>1. snap' = snap /\ mu' = NoOne /\ ~Crash
      BY <1>1, <1>2 DEF ReadFails, Settle, Finish, Crash
  <2>2. \A p \in Procs : pc'[p] # "swap"
      BY <2>1, TypeNext, ConfigStoreAssumption DEF TypeInv, StoreInv, MuInv, Critical
  <2> QED
      BY <2>1, <2>2
<1> QED
    BY <1>2

\* A writer that is to answer stays where it is, or is the one that steps.
LEMMA AnswererStays ==
    ASSUME TypeInv, [Next]_vars, NEW p \in Writers, Answering(p)', pc'[p] \in {"swap", "settle"}
    PROVE  /\ Answering(p) /\ reply' = reply
           /\ pc'[p] = "settle" => (pc[p] = "settle" /\ snap' = snap) \/ Swap(p)
<1> USE DEF TypeInv, StoreInv, StoreTypeOK
<1>0. p \in Procs
    BY DEF Procs
<1>1. ASSUME NEW q \in Writers, WriteCommitted(q) PROVE FALSE
  <2>1. q # p /\ pc[p] \in {"swap", "settle"} /\ pc[q] = "git" /\ q \in Procs
      BY <1>0, <1>1 DEF WriteCommitted, Goto, Procs
  <2> QED
      BY <1>0, <2>1 DEF MuInv, Critical
<1>2. Answering(p) /\ reply' = reply
    BY <1>1, ReplySteps DEF Answering
<1>3. ASSUME pc'[p] = "settle", pc[p] = "settle" PROVE snap' = snap
  <2>1. ASSUME NEW q \in Procs, Swap(q) PROVE FALSE
      BY <1>0, <1>3, <2>1 DEF Swap, MuInv, Critical
  <2>2. ~Crash
      BY <1>0, <1>3 DEF Crash
  <2> QED
      BY <2>1, <2>2, SnapshotSteps DEF ReadSnapshot, SnapshotKept
<1>4. pc'[p] = "settle" => pc[p] = "settle" \/ Swap(p)
    BY <1>2, AnswerSteps
<1> QED
    BY <1>2, <1>3, <1>4

\* A clone that is made is the remote's head.
LEMMA ClonesRemote ==
    ASSUME TypeInv, [Next]_vars, local = 0, local' # 0
    PROVE  Base' = remote /\ made' = made /\ acked' = acked /\ \A p \in Procs : pc'[p] # "swap"
<1> USE DEF TypeInv
<1>1. phase = "free" /\ ~up /\ \A p \in Procs : pc[p] = "idle"
    BY DEF RepoInv, EditInv, StoreInv, CloneInv
<1>2. CASE OpenRepo /\ CloneOrOpen
  <2>1. phase' = "free" /\ local' = remote /\ made' = made
      BY <1>1, <1>2 DEF CloneOrOpen, CheckOut, editVars
  <2> QED
      BY <1>1, <1>2, <2>1 DEF OpenRepo, Base, Goto, StoreInv, StoreTypeOK
<1>3. CASE (OpenRepo /\ CloneFails) \/ Outside \/ UNCHANGED vars
    BY <1>3 DEF CloneFails, Outside, OutsidePush, checkout, vars, repoVars
<1>4. CASE Crash
    BY <1>1, <1>4 DEF Crash, RepoCrash, CrashedCheckout, checkout
<1>5. OpenRepo \/ Outside \/ Crash \/ UNCHANGED vars
    BY <1>1 DEF Next, Procs, InitialPull, RefreshFromRepo, ReloadFromRepo, Write, BeginWrite,
        Edit, WriteCommitted, WriteFailed, Reload, LockForReload, ReadSnapshot, ReadFails, Swap,
        Settle
<1> QED
    BY <1>2, <1>3, <1>4, <1>5 DEF OpenRepo

LEMMA ServedNext ==
    ASSUME TypeInv, GraphInv, ForwardInv, ServedInv, [Next]_vars, AcksAnswer,
           local = 0 /\ local' # 0 => \A a \in acked : Reaches(remote, a.version)
    PROVE  ServedInv'
<1> USE DEF TypeInv, StoreInv, StoreTypeOK
<1>0. \A p \in Writers : p \in Procs
    BY DEF Procs
<1>1. ASSUME local' # 0, NEW a \in acked' PROVE a.version \in made'[Base'].anc
  <2>1. CASE local = 0
      BY <1>1, <2>1, ClonesRemote DEF Reaches
  <2>2. CASE local # 0
    <3>1. Reaches(Base, a.version)
        BY <2>2 DEF ServedInv, AcksAnswer
    <3> QED
        BY <1>1, <2>2, <3>1, BaseForward DEF Reaches
  <2> QED
      BY <2>1, <2>2
<1>2. ASSUME NEW p \in Writers, Answering(p)' PROVE reply'.version \in made'[Base'].anc
  <2>1. local' # 0
      BY <1>0, <1>2, TypeNext DEF Answering, CloneInv
  <2>2. CASE \E q \in Writers : WriteCommitted(q)
    <3>1. reply'.version = local /\ Base' = local /\ made' = made /\ local \in Commits
        BY <2>1, <2>2 DEF WriteCommitted, EndEdit, checkout, Base, RepoInv, RepoTypeOK
    <3> QED
        BY <3>1 DEF GraphInv
  <2>3. CASE Answering(p) /\ reply' = reply
    <3>1. local # 0 /\ Reaches(Base, reply.version)
        BY <1>0, <2>3 DEF Answering, CloneInv, ServedInv
    <3> QED
        BY <2>1, <2>3, <3>1, BaseForward DEF Reaches
  <2> QED
      BY <1>2, <2>2, <2>3, ReplySteps
<1>3. ASSUME NEW p \in Procs, pc'[p] = "swap", NEW a \in acked'
      PROVE  a.version \in made'[pend'[p].version].anc
  <2>1. a \in acked
      BY <1>3, AnswersLast
  <2>2. CASE ReadSnapshot(p) /\ pend'[p] = [version |-> local, data |-> work]
      BY <2>1, <2>2, ReadIsBase DEF ServedInv, Reaches
  <2>3. CASE pc[p] = "swap" /\ pend'[p] = pend[p]
    <3>1. local # 0 /\ Reaches(Base, pend[p].version) /\ Reaches(pend[p].version, a.version)
        BY <2>1, <2>3 DEF ServedInv, ForwardInv, CloneInv
    <3>2. pend[p].version \in Commits
        BY <3>1, BaseIsCommit DEF Reaches
    <3> QED
        BY <2>3, <3>1, <3>2, StillReaches
  <2> QED
      BY <1>3, <2>2, <2>3, SwapSteps
<1>4. ASSUME NEW p \in Writers, Answering(p)', pc'[p] = "swap"
      PROVE  reply'.version \in made'[pend'[p].version].anc
  <2>1. reply' = reply /\ Answering(p) /\ p \in Procs
      BY <1>0, <1>4, AnswererStays
  <2>2. CASE ReadSnapshot(p) /\ pend'[p] = [version |-> local, data |-> work]
      BY <2>1, <2>2, ReadIsBase DEF ServedInv, Reaches
  <2>3. CASE pc[p] = "swap" /\ pend'[p] = pend[p]
    <3>1. local # 0 /\ Reaches(Base, pend[p].version) /\ Reaches(pend[p].version, reply.version)
        BY <2>1, <2>3 DEF ServedInv, ForwardInv, CloneInv
    <3>2. pend[p].version \in Commits
        BY <3>1, BaseIsCommit DEF Reaches
    <3> QED
        BY <2>1, <2>3, <3>1, <3>2, StillReaches
  <2> QED
      BY <1>4, <2>1, <2>2, <2>3, SwapSteps
<1>5. ASSUME NEW p \in Writers, Answering(p)', pc'[p] = "settle"
      PROVE  snap'.version # 0 /\ reply'.version \in made'[snap'.version].anc
  <2>1. reply' = reply /\ Answering(p) /\ p \in Procs
      BY <1>0, <1>5, AnswererStays
  <2>2. CASE pc[p] = "settle" /\ snap' = snap
    <3>1. snap.version # 0 /\ Reaches(snap.version, reply.version)
        BY <2>1, <2>2 DEF ServedInv
    <3>2. snap.version \in Commits
        BY <3>1, BaseIsCommit DEF ForwardInv, Reaches
    <3> QED
        BY <2>1, <2>2, <3>1, <3>2, StillReaches
  <2>3. CASE Swap(p)
    <3>1. snap' = pend[p] /\ made' = made /\ local # 0 /\ pc[p] = "swap"
        BY <2>1, <2>3 DEF Swap, repoVars, CloneInv
    <3>2. pend[p].version \in Commits
        BY <2>1, <3>1, BaseIsCommit DEF ForwardInv, Reaches
    <3>3. Reaches(pend[p].version, reply.version)
        BY <2>1, <3>1 DEF ServedInv
    <3> QED
        BY <2>1, <3>1, <3>2, <3>3 DEF Reaches, Commits
  <2> QED
      BY <1>5, <2>2, <2>3, AnswererStays
<1>6. ASSUME NEW a \in acked', a.loaded, snap'.version # 0
      PROVE  a.version \in made'[snap'.version].anc
  <2>1. ~Crash
      BY <1>6 DEF Crash, NoSnapshot
  <2>2. CASE \E p \in Procs : Swap(p)
    <3>1. PICK p \in Procs : Swap(p)
        BY <2>2
    <3>2. acked' = acked /\ made' = made /\ snap' = pend[p] /\ pc[p] = "swap"
        BY <3>1 DEF Swap, repoVars
    <3> QED
        BY <3>2 DEF ServedInv, Reaches
  <2>3. CASE snap' = snap
    <3>1. Reaches(snap.version, a.version)
        BY <1>6, <2>3 DEF ServedInv, AckedIsServed, AcksAnswer
    <3>2. snap.version \in Commits
        BY <1>6, <2>3, BaseIsCommit DEF ForwardInv, Reaches
    <3> QED
        BY <2>3, <3>1, <3>2, StillReaches
  <2> QED
      BY <2>1, <2>2, <2>3, SnapshotSteps DEF ReadSnapshot, SnapshotKept
<1> QED
    BY <1>1, <1>2, <1>3, <1>4, <1>5, <1>6 DEF ServedInv, AckedIsServed, Reaches

\* What loses the clone, apart from its never having been made, is the loss of the volume.
WipedInv == local = 0 /\ acked # {} => Spent("wipe")

LEMMA WipedNext ==
    ASSUME TypeInv, BudgetInv, WipedInv, [Next]_vars, AcksAnswer
    PROVE  WipedInv'
<1> SUFFICES ASSUME local' = 0, acked' # {} PROVE Spent("wipe")'
    BY DEF WipedInv
<1> USE DEF TypeInv
<1>1. CASE local = 0
  <2>1. \A p \in Procs : pc[p] = "idle"
      BY <1>1 DEF StoreInv, CloneInv
  <2>2. acked' \subseteq acked
      BY <2>1 DEF Answering, Procs, AcksAnswer
  <2> QED
      BY <1>1, <2>2, BudgetNext DEF WipedInv, Events
<1>2. CASE local # 0
  <2>1. Crash
      BY <1>2, NeverGivesUp
  <2>2. ~CrashedCheckout
      BY <1>2 DEF CrashedCheckout, HalfCheckOut, checkout, RepoInv, RepoTypeOK, EditInv, Commits
  <2> QED
      BY <2>1, <2>2, SpendingShows DEF Crash, RepoCrash, Events
<1> QED
    BY <1>1, <1>2

LEMMA WipedAlways == Spec => []WipedInv
<1>1. Init => WipedInv
    BY DEF Init, WipedInv
<1>2. TypeInv /\ ReplyInv /\ BudgetInv /\ WipedInv /\ [Next]_vars => WipedInv'
    BY AckSteps, WipedNext
<1> QED
    BY <1>1, <1>2, TypeAlways, ReplyAlways, BudgetAlways, PTL DEF Spec

\* Losing the volume alone costs nothing, since the next clone has all that was answered;
\* dying alone costs nothing either, since the volume has it.
ServedOrLost == (Damaged /\ Spent("wipe")) \/ ServedInv

LEMMA ServedAlways == Spec => []ServedOrLost
<1>1. Init => ServedOrLost
    BY DEF Init, ServedOrLost, ServedInv, Answering, AckedIsServed, Procs
<1>2. TypeInv /\ ReplyInv /\ GraphInv /\ ForwardInv /\ WipedInv /\ IsAccepted /\ ServedOrLost /\ [Next]_vars
      => ServedOrLost'
  <2> SUFFICES ASSUME TypeInv, ReplyInv, GraphInv, ForwardInv, WipedInv, IsAccepted, ServedOrLost,
                      [Next]_vars
               PROVE  ServedOrLost'
      OBVIOUS
  <2>1. Damaged /\ Spent("wipe") => (Damaged /\ Spent("wipe"))'
      BY DamageStays, BudgetNext DEF IsAccepted, Events
  <2>2. CASE ServedInv /\ ~(Damaged /\ Spent("wipe"))
    <3>1. local = 0 => \A a \in acked : Reaches(remote, a.version)
        BY <2>2 DEF WipedInv, IsAccepted, AcceptedInv
    <3> QED
        BY <2>2, <3>1, AckSteps, ServedNext DEF ServedOrLost
  <2> QED
      BY <2>1, <2>2 DEF ServedOrLost
<1> QED
    BY <1>1, <1>2, TypeAlways, ReplyAlways, GraphAlways, ForwardAlways, WipedAlways, AcceptedAlways, PTL DEF Spec

\* After a plain "committed" nobody is served an earlier version again, however the
\* refreshers' pulls and reloads fall around the write, and through any restart that
\* finds its volume: only a commit that the remote never got is lost with the volume
\* (ApplyChanges, Store.mu around reload).
THEOREM AnsweredIsServed ==
    Spec => [](AckedIsServed \/ (Spent("wipe") /\ (Spent("crash") \/ Spent("reset"))))
<1>1. ServedOrLost => AckedIsServed \/ (Spent("wipe") /\ (Spent("crash") \/ Spent("reset")))
    BY DEF ServedOrLost, ServedInv, Damaged
<1> QED
    BY <1>1, ServedAlways, PTL

(***************************************************************************)
(* What readers are promised, step by step.                                *)
(***************************************************************************)
\* A commit adds itself to what its parent descends from.
ParentInv ==
    \A c \in Commits : made[c].parent # 0 =>
        /\ made[c].parent \in Commits
        /\ made[c].anc = made[made[c].parent].anc \cup {c}

LEMMA ParentNext ==
    ASSUME TypeInv, ParentInv, [Next]_vars
    PROVE  ParentInv'
<1>1. RepoTypeOK /\ Grow
    BY NextGrows DEF TypeInv, RepoInv
<1>2. CASE made' = made
    BY <1>2 DEF ParentInv, Commits
<1>3. ASSUME NEW base \in Commits, NEW t \in Tree, NEW who \in Requests \cup {NoRequest},
             made' = Append(made, NewCommit(base, t, who))
      PROVE  ParentInv'
  <2> DEFINE n == Len(made')
  <2>1. /\ n = Len(made) + 1
        /\ Commits' = Commits \cup {n}
        /\ \A c \in Commits : made'[c] = made[c]
        /\ made'[n] = NewCommit(base, t, who)
      BY <1>1, <1>3, GrowFacts
  <2>2. made'[n].anc = made[base].anc \cup {n} /\ made'[n].parent = base
      BY <2>1 DEF NewCommit
  <2> HIDE DEF n
  <2> QED
      BY <2>1, <2>2 DEF ParentInv
<1> QED
    BY <1>1, <1>2, <1>3 DEF Grow

LEMMA ParentStart == Init => ParentInv
<1> SUFFICES ASSUME Init PROVE ParentInv
    OBVIOUS
<1>1. PICK t \in InitialTrees :
          made = <<[parent |-> 0, anc |-> {1}, tree |-> t, by |-> NoRequest]>>
    BY DEF Init, RepoInit
<1>2. Len(made) = 1 /\ made[1].parent = 0
    BY <1>1
<1> QED
    BY <1>2 DEF ParentInv, Commits

LEMMA ParentAlways == Spec => []ParentInv
<1>1. TypeInv /\ ParentInv /\ [Next]_vars => ParentInv'
    BY ParentNext
<1> QED
    BY <1>1, ParentStart, TypeAlways, PTL DEF Spec

\* The branch as readers may be shown it.
Published ==
    [c \in made[remote].anc |-> [before |-> made[c].anc \ {c}, tree |-> made[c].tree]]

LEMMA PublishedFacts ==
    ASSUME TypeInv, GraphInv
    PROVE  /\ DOMAIN Published = made[remote].anc
           /\ \A c \in DOMAIN Published :
                 /\ c \in Commits /\ c \in Nat /\ c # 0
                 /\ Published[c].before = made[c].anc \ {c}
                 /\ Published[c].tree = made[c].tree
                 /\ Published[c].tree \in Tree
<1>1. remote \in Commits /\ made[remote].anc \subseteq Commits
    BY DEF TypeInv, RepoInv, RepoTypeOK, GraphInv
<1>2. \A c \in Commits : made[c].tree \in Tree /\ c \in Nat /\ c # 0
    BY CommitFacts DEF TypeInv, RepoInv, Commits
<1> QED
    BY <1>1, <1>2 DEF Published

\* Nothing that is published is ever altered.
LEMMA PublishedKept ==
    ASSUME TypeInv, GraphInv, [Next]_vars, made'[remote'].anc = made[remote].anc
    PROVE  Published' = Published
<1>1. \A c \in made[remote].anc : made'[c] = made[c]
    BY NextGrows, GrowKeeps DEF TypeInv, RepoInv, RepoTypeOK, GraphInv
<1> QED
    BY <1>1 DEF Published

LEMMA PublishesHead ==
    ASSUME TypeInv, GraphInv, [Next]_vars, remote' \notin made[remote].anc,
           made'[remote'].anc = made[remote].anc \cup {remote'},
           UNCHANGED snap
    PROVE  Serving!Publish
<1>1. TypeInv' /\ GraphInv'
    BY TypeNext, NextGrows, GraphGrows DEF TypeInv, RepoInv
<1>2. \A c \in made[remote].anc : made'[c] = made[c]
    BY NextGrows, GrowKeeps DEF TypeInv, RepoInv, RepoTypeOK, GraphInv
<1>3. remote' \in Nat /\ remote' # 0
    BY <1>1 DEF TypeInv, RepoInv, RepoTypeOK, Commits
<1>4. made'[remote'].tree \in Tree
  <2>1. made'[remote'] \in Commit
      BY <1>1 DEF TypeInv, RepoInv, RepoTypeOK, Commits
  <2> QED
      BY <2>1 DEF Commit
<1>5. /\ DOMAIN Published = made[remote].anc
      /\ DOMAIN Published' = made[remote].anc \cup {remote'}
    BY DEF Published
<1>6. /\ (Published')[remote'].before = made[remote].anc
      /\ (Published')[remote'].tree = made'[remote'].tree
    BY DEF Published
<1>7. \A x \in made[remote].anc : (Published')[x] = Published[x]
    BY <1>2 DEF Published
<1>8. remote' \in DOMAIN Published' \ DOMAIN Published
    BY <1>5
<1> QED
    BY <1>3, <1>4, <1>5, <1>6, <1>7, <1>8 DEF Serving!Publish, Serving!IsVersion, Published

\* A push that is taken adds the commit of this edit, unless the remote had it.
LEMMA PushPublishes ==
    ASSUME TypeInv, GraphInv, ParentInv, AcceptedInv, [Next]_vars, Push, UNCHANGED storeVars
    PROVE  Serving!Publish \/ UNCHANGED <<Published, snap>>
<1> USE DEF TypeInv, RepoInv
<1>1. /\ phase = "push" /\ made' = made /\ snap' = snap /\ local' = local
      /\ remote' = remote \/ (remote' = local /\ Reaches(local, remote))
    BY DEF Push, checkout, storeVars
<1>2. CASE remote' = remote
    BY <1>1, <1>2, PublishedKept
<1>3. CASE remote' = local /\ Reaches(local, remote)
  <2>1. local \in Commits /\ remote \in Commits /\ made[local].parent \in Commits
        /\ made[local].parent # 0
      BY <1>1 DEF RepoTypeOK, EditInv, Commits
  <2>2. made[local].anc = made[made[local].parent].anc \cup {local}
      BY <2>1 DEF ParentInv
  <2>3. CASE local \in made[remote].anc
    <3>1. made[local].anc = made[remote].anc
        BY <1>3, <2>1, <2>3 DEF GraphInv, Reaches
    <3> QED
        BY <1>1, <1>3, <3>1, PublishedKept
  <2>4. CASE local \notin made[remote].anc
    <3>1. made[local].parent \in made[remote].anc
        BY <1>1, <2>1 DEF AcceptedInv, Base, Reaches, Commits
    <3>2. remote \in made[made[local].parent].anc
        BY <1>3, <2>1, <2>2, <2>4 DEF Reaches, GraphInv
    <3>3. made[made[local].parent].anc = made[remote].anc
        BY <2>1, <3>1, <3>2 DEF GraphInv
    <3> QED
        BY <1>1, <1>3, <2>2, <2>4, <3>3, PublishesHead
  <2> QED
      BY <2>3, <2>4
<1> QED
    BY <1>1, <1>2, <1>3

LEMMA OutsidePublishes ==
    ASSUME TypeInv, GraphInv, [Next]_vars, Outside
    PROVE  Serving!Publish
<1> USE DEF TypeInv, RepoInv
<1>1. PICK f \in Files, v \in Blob :
          made' = Append(made, NewCommit(remote, [made[remote].tree EXCEPT ![f] = v], NoRequest))
    BY DEF Outside, OutsidePush
<1> DEFINE t == [made[remote].tree EXCEPT ![f] = v]
<1>2. remote \in Commits /\ made[remote].tree \in Tree
    BY CommitFacts DEF RepoTypeOK
<1>3. t \in Tree
    BY <1>2 DEF Tree
<1> HIDE DEF t
<1>4. made' = Append(made, NewCommit(remote, t, NoRequest))
    BY <1>1 DEF t
<1>5. /\ remote' = Len(made) + 1
      /\ made'[remote'] = NewCommit(remote, t, NoRequest)
    BY <1>2, <1>3, <1>4, GrowFacts DEF Outside, OutsidePush
<1>6. made'[remote'].anc = made[remote].anc \cup {remote'}
    BY <1>5 DEF NewCommit
<1>7. remote' \notin made[remote].anc
    BY <1>2, <1>5 DEF GraphInv, Commits, RepoTypeOK
<1> QED
    BY <1>6, <1>7, PublishesHead DEF Outside, storeVars

LEMMA SwapServes ==
    ASSUME TypeInv, GraphInv, FaithfulInv, ForwardInv, AcceptedInv,
           NEW p \in Procs, Swap(p), Published' = Published
    PROVE  Serving!Serve
<1>1. /\ snap' = pend[p] /\ Faithful(pend[p])
      /\ pend[p].version \in DOMAIN Published
      /\ snap.version # 0 => snap.version \in made[pend[p].version].anc
    BY PublishedFacts DEF Swap, FaithfulInv, AcceptedInv, ForwardInv, Reaches
<1>2. /\ Published[snap'.version].before = made[snap'.version].anc \ {snap'.version}
      /\ snap'.data = Published[snap'.version].tree
    BY <1>1, PublishedFacts DEF Faithful
<1>3. snap.version \in Published[snap'.version].before \cup {snap'.version, 0}
    BY <1>1, <1>2
<1> QED
    BY <1>1, <1>2, <1>3 DEF Serving!Serve, Published

LEMMA RemoteSteps ==
    ASSUME TypeInv, [Next]_vars, remote' # remote
    PROVE  Outside \/ \E p \in Writers : Edit(p) /\ Push
    BY DEF Next, OpenRepo, CloneOrOpen, CloneFails, InitialPull, RefreshFromRepo, ReloadFromRepo,
        Pull, PullFails, Write, BeginWrite, BeginEdit, Edit, EditStep, PreCommitPull, StageWrites,
        StageRemovals, StageRestore, CommitStaged, UndoTerminal, UndoAndRetry, WriteCommitted, WriteFailed,
        EndEdit, Reload, LockForReload, ReadSnapshot, ReadFails, Swap, Settle, Crash, RepoCrash,
        vars, repoVars

LEMMA ServesHistory ==
    ASSUME TypeInv, GraphInv, ParentInv, FaithfulInv, ForwardInv, IsAccepted, [Next]_vars,
           ~Damaged'
    PROVE  [Serving!Next]_(Serving!vars)
<1>1. AcceptedInv
    BY DamageStays DEF IsAccepted
<1>2. CASE remote' # remote
  <2>1. CASE Outside
      BY <2>1, OutsidePublishes DEF Serving!Next
  <2>2. CASE \E p \in Writers : Edit(p) /\ Push
    <3>1. Serving!Publish \/ UNCHANGED <<Published, snap>>
        BY <1>1, <2>2, PushPublishes DEF Edit
    <3> QED
        BY <3>1 DEF Serving!Next, Serving!vars, Published
  <2> QED
      BY <1>2, <2>1, <2>2, RemoteSteps
<1>3. CASE remote' = remote
  <2>1. made'[remote'].anc = made[remote].anc
      BY <1>3, NextGrows, GrowKeeps DEF TypeInv, RepoInv, RepoTypeOK
  <2>2. Published' = Published
      BY <2>1, PublishedKept
  <2>3. CASE \E p \in Procs : Swap(p)
      BY <1>1, <2>2, <2>3, SwapServes DEF Serving!Next
  <2>4. CASE Crash
      BY <2>2, <2>4 DEF Crash, NoSnapshot, Serving!Next, Serving!Restart, Published
  <2>5. CASE snap' = snap
      BY <2>2, <2>5 DEF Serving!vars, Published
  <2> QED
      BY <2>3, <2>4, <2>5, SnapshotSteps DEF ReadSnapshot, SnapshotKept
<1> QED
    BY <1>2, <1>3

LEMMA ServesHistoryInit == Init => Serving!Init
<1> SUFFICES ASSUME Init PROVE Serving!Init
    OBVIOUS
<1>1. PICK t \in InitialTrees :
          made = <<[parent |-> 0, anc |-> {1}, tree |-> t, by |-> NoRequest]>>
    BY DEF Init, RepoInit
<1>2. /\ remote = 1 /\ snap = NoSnapshot
      /\ made[1].anc = {1} /\ made[1].tree = t /\ t \in Tree
    BY <1>1, GitRepoAssumption DEF Init, RepoInit
<1>3. Published = [c \in {1} |-> [before |-> {}, tree |-> t]]
  <2>1. DOMAIN Published = {1} /\ Published[1].before = {} /\ Published[1] = [before |-> {}, tree |-> t]
      BY <1>2 DEF Published
  <2> QED
      BY <1>2, <2>1 DEF Published
<1>4. /\ \E v \in DOMAIN Published :
            Published = [x \in {v} |-> [before |-> {}, tree |-> Published[v].tree]]
      /\ \A v \in DOMAIN Published : v \in Nat /\ v # 0 /\ Published[v].tree \in Tree
    BY <1>2, <1>3
<1> QED
    BY <1>2, <1>4 DEF Serving!Init, Serving!IsVersion, Published, NoSnapshot

\* As long as no process dies and each reset after a failed push gets as far as to move
\* HEAD back, readers are served one published version after another, with that
\* version's content: the whole of pulls, edits, pushes, retries and reloads implements
\* ServedHistory (resetToParent, reloadUnlocked).
THEOREM ServerServesHistory ==
    Spec /\ []~(Spent("crash") \/ Spent("reset")) => ImplementsServing
<1>1. TypeInv /\ GraphInv /\ ParentInv /\ FaithfulInv /\ ForwardInv /\ IsAccepted /\ [Next]_vars
      /\ ~(Spent("crash") \/ Spent("reset"))' => [Serving!Next]_(Serving!vars)
    BY ServesHistory DEF Damaged
<1> QED
    BY <1>1, ServesHistoryInit, TypeAlways, GraphAlways, ParentAlways, FaithfulAlways,
       ForwardAlways, AcceptedAlways, PTL DEF Spec, ImplementsServing, Serving!Spec

(***************************************************************************)
(* Staleness shows.                                                        *)
(***************************************************************************)
\* A request may be turned down because a file that it is built from does not parse.
MayRefuse == Malformed # {} /\ \E r \in Requests : r.reads # {}

\* Somebody is on the way to serving what the clone holds.
Coming ==
    \/ phase \in {"stage", "commit", "push", "ok"}
    \/ \E p \in Procs : \/ pc[p] \in {"wantMu", "reload"}
                        \/ pc[p] = "swap" /\ pend[p].version = Base

\* A version that is all the clone has to offer, or that is going to be replaced: by
\* somebody who is at it, or by a poll, since there is something to pull.
Current(v) == v = Base \/ ~Reaches(Base, remote) \/ Coming

\* What is served is current, or reported as failed; so is what is about to be served,
\* and what is about to be reported as loaded.  A refused push has found something to
\* pull, and no push has failed otherwise.
StaleInv ==
    /\ pc[Main] # "idle" => ~up
    /\ phase # "undo"
    /\ phase = "undoRetry" => ~Reaches(local, remote)
    /\ up => lastReload = "failed" \/ Current(snap.version)
    /\ \A p \in Procs : pc[p] = "swap" => Current(pend[p].version)
    /\ \A p \in Procs : pc[p] = "settle" => Current(snap.version)

NothingHidden == ~Spent("push") /\ ~Spent("disk") /\ ~MayRefuse

LEMMA NothingHiddenSpends ==
    ASSUME TypeInv, BudgetInv, NothingHidden'
    PROVE  ~Spend("push") /\ ~Spend("disk")
    BY SpendingShows DEF NothingHidden, Events

\* A pull of a tidy checkout that fails, though not on its own file operations, leaves
\* it where it is.
LEMMA FailedPullStays ==
    ASSUME Clean, PullError, ~Spend("disk")
    PROVE  UNCHANGED checkout
    BY DEF Clean, Unstaged, PullError, PullTorn, PullHalfDone, PullDiverged, PullUnreachable

LEMMA EditCurrent ==
    ASSUME TypeInv, GraphInv, BudgetInv, StaleInv, EditStep, UNCHANGED storeVars,
           phase = "pull" => Clean, NothingHidden'
    PROVE  /\ \A v : Current(v) => v = Base' \/ remote' \notin made'[Base'].anc \/ Coming'
           /\ phase' # "undo"
           /\ phase' = "undoRetry" => remote' \notin made'[local'].anc
<1> DEFINE Now(v) == v = Base' \/ remote' \notin made'[Base'].anc \/ Coming'
<1>0. ~Spend("push") /\ ~Spend("disk") /\ UNCHANGED <<pc, pend>>
    BY NothingHiddenSpends DEF storeVars
<1>1. CASE phase' \in {"stage", "commit", "ok"} \/ (phase' = "push" /\ phase = "commit")
    BY <1>1 DEF Coming
<1>2. CASE PreCommitPull /\ phase' = "error"
  <2>1. UNCHANGED <<made, remote, local>> /\ phase = "pull"
      BY <1>0, <1>2, FailedPullStays DEF PreCommitPull, checkout
  <2>2. Base' = Base
      BY <1>2, <2>1 DEF Base
  <2> QED
      BY <1>0, <1>2, <2>1, <2>2 DEF Current, Coming, Reaches
<1>3. CASE StageWrites \/ StageRemovals \/ StageRestore
  <2>1. ~BuildFails
      BY <1>3 DEF StageWrites, StageRemovals, StageRestore, BuildFails, NothingHidden, MayRefuse,
                  TypeInv, RepoInv, EditInv
  <2>2. phase' = "commit"
      BY <1>0, <1>3, <2>1 DEF StageWrites, StageRemovals, StageRestore, StageAll, StagePartly,
                              StageSomeRemovals, StageRestored
  <2> QED
      BY <1>1, <2>2
<1>4. CASE CommitStaged
    BY <1>0, <1>1, <1>4 DEF CommitStaged
<1>5. CASE Push /\ phase' = "undoRetry"
  <2>1. UNCHANGED <<made, remote, local>> /\ ~Reaches(local, remote) /\ phase = "push"
      BY <1>5 DEF Push, checkout
  <2>2. Base' = Base /\ made[Base].anc \subseteq made[local].anc
      BY <1>5, <2>1, BaseIsCommit DEF Base, TypeInv, RepoInv, EditInv
  <2> QED
      BY <1>5, <2>1, <2>2 DEF Reaches
<1>6. CASE UndoAndRetry
  <2>1. /\ UNCHANGED <<made, remote>> /\ phase = "undoRetry" /\ phase' \in {"pull", "error"}
        /\ ~Reaches(local, remote) /\ Base = made[local].parent /\ Base' = local'
        /\ local' = local \/ local' = made[local].parent
      BY <1>0, <1>6 DEF UndoAndRetry, ResetToParent, ResetFails, CheckOut, checkout, Base, StaleInv
  <2>2. CASE local' = local
      BY <2>1, <2>2 DEF Reaches
  <2>3. CASE local' = made[local].parent
      BY <1>0, <2>1, <2>3 DEF Current, Coming, Reaches
  <2> QED
      BY <2>1, <2>2, <2>3
<1>7. ~UndoTerminal
    BY DEF UndoTerminal, StaleInv
<1>8. PreCommitPull => phase' \in {"stage", "error"}
    BY DEF PreCommitPull
<1>9. Push => phase' \in {"ok", "undoRetry"}
    BY <1>0 DEF Push
<1> QED
    BY <1>1, <1>2, <1>3, <1>4, <1>5, <1>6, <1>7, <1>8, <1>9 DEF EditStep

\* What others push is not in the clone.
LEMMA OutsideIsNews ==
    ASSUME TypeInv, GraphInv, Outside, local # 0
    PROVE  /\ UNCHANGED <<local, phase>> /\ Base' = Base
           /\ remote' \notin made'[Base].anc /\ remote' \notin made'[local].anc
<1>1. PICK t : made' = Append(made, NewCommit(remote, t, NoRequest)) /\ remote' = Len(made')
    BY DEF Outside, OutsidePush
<1>2. made \in Seq(Commit) /\ Len(made) \in Nat
    BY DEF TypeInv, RepoInv, RepoTypeOK
<1>3. remote' = Len(made) + 1 /\ \A c \in Commits : made'[c] = made[c]
    BY <1>1, <1>2 DEF Commits
<1>4. Base \in Commits /\ local \in Commits
    BY BaseIsCommit
<1>5. \A c \in Commits : remote' \notin made[c].anc
    BY <1>2, <1>3 DEF GraphInv, Commits
<1>6. UNCHANGED <<local, phase>>
    BY DEF Outside, OutsidePush, checkout, editVars
<1> QED
    BY <1>3, <1>4, <1>5, <1>6 DEF Base

\* What is current stays so, until it is replaced or a reload fails.
LEMMA StaysCurrent ==
    ASSUME TypeInv, GraphInv, BudgetInv, TidyInv, StaleInv, [Next]_vars, ~Crash, local # 0,
           NothingHidden', ~\E p \in Procs : ReadFails(p) \/ Swap(p)
    PROVE  \A v : Current(v) => v = Base' \/ remote' \notin made'[Base'].anc \/ Coming'
<1> DEFINE Now(v) == v = Base' \/ remote' \notin made'[Base'].anc \/ Coming'
<1> USE DEF TypeInv, StoreInv, StoreTypeOK, Goto
<1>0. Main \in Procs /\ \A p \in Writers \cup Refreshers \cup Reloaders : p \in Procs /\ p # Main
    BY ConfigStoreAssumption DEF Procs
<1>1. CASE OpenRepo
  <2>1. /\ UNCHANGED <<made, remote, local, phase, pend>>
        /\ \A p \in Procs : pc'[p] = pc[p] \/ pc[p] = "idle"
      BY <1>1 DEF OpenRepo, CloneOrOpen, CloneFails, checkout, editVars
  <2>2. Base' = Base
      BY <2>1 DEF Base
  <2> QED
      BY <2>1, <2>2 DEF Current, Coming, Reaches
<1>2. CASE InitialPull
    BY <1>0, <1>2 DEF InitialPull, Coming
<1>3. ASSUME NEW p \in Refreshers \cup Reloaders, RefreshFromRepo(p) \/ ReloadFromRepo(p)
      PROVE  \A v : Current(v) => Now(v)
  <2>1. CASE pc' = [pc EXCEPT ![p] = "wantMu"]
      BY <1>0, <2>1 DEF Coming
  <2>2. CASE UNCHANGED pc
    <3>1. up /\ phase = "free" /\ UNCHANGED <<made, remote, phase, pend>>
        BY <1>3 DEF RefreshFromRepo, ReloadFromRepo, Pull, PullFails, editVars
    <3>2. Clean
        BY <3>1 DEF TidyInv, Running, Tidy
    <3>3. \/ local' = local
          \/ ReloadFromRepo(p) /\ pc' = [pc EXCEPT ![p] = "wantMu"]
        BY <1>3, <2>2, <3>2, FailedPullStays, NothingHiddenSpends DEF RefreshFromRepo, ReloadFromRepo, Pull, PullFails,
                                                HeadMoved, checkout
    <3>4. local' = local
        BY <1>0, <1>3, <2>2, <3>3 DEF ReloadFromRepo
    <3>5. Base' = Base
        BY <3>1, <3>4 DEF Base
    <3> QED
        BY <2>2, <3>1, <3>5 DEF Current, Coming, Reaches
  <2> QED
      BY <1>3, <2>1, <2>2 DEF RefreshFromRepo, ReloadFromRepo
<1>4. ASSUME NEW p \in Writers, Write(p) PROVE \A v : Current(v) => Now(v)
  <2>1. CASE Edit(p)
    <3>1. phase = "pull" => Clean
        BY DEF TidyInv, Running, Tidy
    <3> QED
        BY <2>1, <3>1, EditCurrent DEF Edit
  <2>2. CASE WriteCommitted(p)
      BY <1>0, <2>2 DEF WriteCommitted, Coming
  <2>3. CASE (\E r \in Requests : BeginWrite(p, r)) \/ WriteFailed(p)
    <3>1. /\ UNCHANGED <<made, remote, local, pend>>
          /\ phase \in {"free", "error"} /\ phase' \in {"free", "pull"}
          /\ \A q \in Procs : pc'[q] = pc[q] \/ pc[q] \in {"idle", "git"}
        BY <2>3 DEF BeginWrite, BeginEdit, WriteFailed, EndEdit, checkout
    <3>2. Base' = Base
        BY <3>1 DEF Base
    <3> QED
        BY <3>1, <3>2 DEF Current, Coming, Reaches
  <2> QED
      BY <1>4, <2>1, <2>2, <2>3 DEF Write
<1>5. ASSUME NEW p \in Procs, Reload(p) PROVE \A v : Current(v) => Now(v)
  <2>1. CASE LockForReload(p)
      BY <2>1 DEF LockForReload, Coming
  <2>2. CASE ReadSnapshot(p)
    <3>1. Base = local /\ Base' = Base
        BY <2>2, ReadIsBase
    <3>2. pc'[p] = "swap" /\ pend'[p].version = local
        BY <2>2 DEF ReadSnapshot
    <3> QED
        BY <3>1, <3>2 DEF Coming
  <2>3. CASE Settle(p)
    <3>1. /\ UNCHANGED <<made, remote, local, phase>>
          /\ \A q \in Procs : q # p => pc'[q] = pc[q] /\ pend'[q] = pend[q]
          /\ pc[p] = "settle"
        BY <2>3 DEF Settle, Finish, repoVars
    <3>2. Base' = Base
        BY <3>1 DEF Base
    <3> QED
        BY <3>1, <3>2 DEF Current, Coming, Reaches
  <2> QED
      BY <1>5, <2>1, <2>2, <2>3 DEF Reload
<1>6. CASE Outside
    BY <1>6, OutsideIsNews
<1>7. CASE UNCHANGED vars
    BY <1>7 DEF vars, repoVars, storeVars, Current, Coming, Base, Reaches
<1> QED
    BY <1>1, <1>2, <1>3, <1>4, <1>5, <1>6, <1>7 DEF Next

\* The start is over when the server is up, and pushes are accepted or refused.
LEMMA StaleFrame ==
    ASSUME TypeInv, GraphInv, BudgetInv, TidyInv, StaleInv, [Next]_vars, local # 0, NothingHidden'
    PROVE  /\ pc'[Main] # "idle" => ~up'
           /\ phase' # "undo"
           /\ phase' = "undoRetry" => remote' \notin made'[local'].anc
<1> USE DEF TypeInv, StoreInv, StoreTypeOK, Goto, StaleInv
<1>0. Main \in Procs /\ \A p \in Writers \cup Refreshers \cup Reloaders : p \in Procs /\ p # Main
    BY ConfigStoreAssumption DEF Procs
<1>1. CASE OpenRepo \/ InitialPull
    BY <1>0, <1>1 DEF OpenRepo, InitialPull, CloneOrOpen, CloneFails, Pull, PullFails, editVars
<1>2. CASE \E p \in Refreshers \cup Reloaders : RefreshFromRepo(p) \/ ReloadFromRepo(p)
    BY <1>0, <1>2 DEF RefreshFromRepo, ReloadFromRepo, Pull, PullFails, editVars
<1>3. CASE \E p \in Writers : Edit(p)
  <2>1. phase = "pull" => Clean
      BY DEF TidyInv, Running, Tidy
  <2>2. UNCHANGED storeVars /\ EditStep
      BY <1>3 DEF Edit
  <2>3. phase' # "undo" /\ (phase' = "undoRetry" => remote' \notin made'[local'].anc)
      BY <2>1, <2>2, EditCurrent
  <2> QED
      BY <2>2, <2>3 DEF storeVars
<1>4. CASE \E p \in Writers : Write(p) /\ ~Edit(p)
    BY <1>0, <1>4 DEF Write, BeginWrite, BeginEdit, WriteCommitted, WriteFailed, EndEdit
<1>5. CASE \E p \in Procs : Reload(p)
  <2>1. UNCHANGED <<made, remote, local, phase>>
      BY <1>5 DEF Reload, LockForReload, ReadSnapshot, ReadFails, Swap, Settle, repoVars, checkout,
                  editVars
  <2>2. pc'[Main] # "idle" => ~up'
      BY <1>0, <1>5 DEF Reload, LockForReload, ReadSnapshot, ReadFails, Swap, Settle, Finish
  <2> QED
      BY <2>1, <2>2 DEF Reaches
<1>6. CASE Outside
    BY <1>0, <1>6, OutsideIsNews DEF Outside, storeVars
<1>7. CASE Crash
    BY <1>0, <1>7 DEF Crash, RepoCrash
<1>8. CASE UNCHANGED vars
    BY <1>8 DEF vars, repoVars, storeVars, Reaches
<1> QED
    BY <1>1, <1>2, <1>3, <1>4, <1>5, <1>6, <1>7, <1>8 DEF Next

\* Where what is served, about to be served or about to be reported comes from.
LEMMA ServingSteps ==
    ASSUME TypeInv, [Next]_vars, ~Crash, ~\E p \in Procs : ReadFails(p) \/ Swap(p)
    PROVE  /\ snap' = snap
           /\ \/ up' = up /\ lastReload' = lastReload
              \/ \E p \in Procs : pc[p] = "settle"
           /\ \A p \in Procs : pc'[p] = "settle" => pc[p] = "settle"
<1> USE DEF TypeInv, StoreInv, StoreTypeOK, Goto
<1>1. CASE OpenRepo \/ InitialPull
    BY <1>1 DEF OpenRepo, InitialPull
<1>2. CASE \E p \in Procs : RefreshFromRepo(p) \/ ReloadFromRepo(p)
    BY <1>2 DEF RefreshFromRepo, ReloadFromRepo
<1>3. CASE \E p \in Writers : Write(p)
    BY <1>3 DEF Write, BeginWrite, Edit, WriteCommitted, WriteFailed, storeVars
<1>4. CASE \E p \in Procs : Reload(p)
    BY <1>4 DEF Reload, LockForReload, ReadSnapshot, Settle, Finish
<1>5. CASE Outside \/ UNCHANGED vars
    BY <1>5 DEF Outside, vars, storeVars
<1> QED
    BY <1>1, <1>2, <1>3, <1>4, <1>5 DEF Next, Procs

LEMMA StaleNext ==
    ASSUME TypeInv, GraphInv, BudgetInv, TidyInv, StaleInv, [Next]_vars, NothingHidden'
    PROVE  StaleInv'
<1> USE DEF TypeInv, StoreInv, StoreTypeOK, Goto
<1> DEFINE Now(v) == v = Base' \/ remote' \notin made'[Base'].anc \/ Coming'
<1>0. Main \in Procs
    BY DEF Procs
<1>1. CASE Crash
    BY <1>0, <1>1 DEF Crash, RepoCrash, StaleInv
<1>2. CASE local = 0 /\ ~Crash
  <2>1. phase = "free" /\ ~up /\ \A p \in Procs : pc[p] = "idle"
      BY <1>2 DEF RepoInv, EditInv, CloneInv
  <2>2. OpenRepo \/ Outside \/ UNCHANGED vars
      BY <1>2, <2>1 DEF Next, Procs, InitialPull, RefreshFromRepo, ReloadFromRepo, Write, BeginWrite,
          Edit, WriteCommitted, WriteFailed, Reload, LockForReload, ReadSnapshot, ReadFails, Swap,
          Settle
  <2>3. phase' = "free" /\ ~up' /\ \A p \in Procs : pc'[p] \in {"idle", "initialPull"}
      BY <2>1, <2>2 DEF OpenRepo, CloneOrOpen, CloneFails, Outside, OutsidePush, editVars, vars,
                        repoVars, storeVars
  <2> QED
      BY <2>3 DEF StaleInv
<1>3. ASSUME NEW p \in Procs, ReadFails(p), local # 0 PROVE StaleInv'
  <2>1. \A q \in Procs : pc'[q] \notin {"swap", "settle"}
      BY <1>3 DEF ReadFails, Finish, MuInv, Critical
  <2>2. up' => lastReload' = "failed"
      BY <1>3 DEF ReadFails, StaleInv
  <2> QED
      BY <1>3, <2>1, <2>2, StaleFrame DEF StaleInv, Reaches
<1>4. ASSUME NEW p \in Procs, Swap(p), local # 0 PROVE StaleInv'
  <2>1. /\ UNCHANGED <<made, remote, local, phase, pend, up, lastReload>> /\ snap' = pend[p]
        /\ pc' = [pc EXCEPT ![p] = "settle"] /\ pc[p] = "swap"
      BY <1>4 DEF Swap, repoVars
  <2>2. Base' = Base
      BY <2>1 DEF Base
  <2>3. \A q \in Procs : q # p => pc[q] # "swap"
      BY <2>1 DEF MuInv, Critical
  <2>4. Now(snap'.version)
      BY <2>1, <2>2, <2>3 DEF StaleInv, Current, Coming, Reaches
  <2>5. \A q \in Procs : pc'[q] # "swap"
      BY <2>1, <2>3
  <2> QED
      BY <1>4, <2>4, <2>5, StaleFrame DEF StaleInv, Current, Reaches
<1>5. CASE ~Crash /\ local # 0 /\ ~\E p \in Procs : ReadFails(p) \/ Swap(p)
  <2>1. \A v : Current(v) => Now(v)
      BY <1>5, StaysCurrent
  <2>2. /\ snap' = snap
        /\ (up' = up /\ lastReload' = lastReload) \/ \E p \in Procs : pc[p] = "settle"
        /\ \A p \in Procs : pc'[p] = "settle" => pc[p] = "settle"
      BY <1>5, ServingSteps
  <2>3. up' => lastReload' = "failed" \/ Now(snap'.version)
      BY <2>1, <2>2 DEF StaleInv
  <2>4. ASSUME NEW p \in Procs, pc'[p] = "swap" PROVE Now(pend'[p].version)
    <3>1. CASE ReadSnapshot(p) /\ pend'[p] = [version |-> local, data |-> work]
        BY <3>1, ReadIsBase
    <3>2. CASE pc[p] = "swap" /\ pend'[p] = pend[p]
        BY <2>1, <3>2 DEF StaleInv
    <3> QED
        BY <2>4, <3>1, <3>2, SwapSteps
  <2>5. \A p \in Procs : pc'[p] = "settle" => Now(snap'.version)
      BY <2>1, <2>2 DEF StaleInv
  <2> QED
      BY <1>5, <2>3, <2>4, <2>5, StaleFrame DEF StaleInv, Current, Reaches
<1> QED
    BY <1>1, <1>2, <1>3, <1>4, <1>5

StaleOrHidden == Spent("push") \/ Spent("disk") \/ MayRefuse \/ StaleInv

LEMMA StaleStart == Init => StaleOrHidden
    BY DEF Init, RepoInit, StaleOrHidden, StaleInv, Procs

LEMMA StaleShows ==
    ASSUME TypeInv, GraphInv, StaleInv
    PROVE  NotSilentlyStale
<1> SUFFICES ASSUME Quiet, local = remote
             PROVE  snap.version = local \/ lastReload = "failed"
    BY DEF NotSilentlyStale
<1>1. Base = local /\ Reaches(local, remote)
    BY DEF Quiet, Base, Reaches, GraphInv, TypeInv, RepoInv, RepoTypeOK
<1>2. ~Coming
    BY DEF Quiet, Coming
<1> QED
    BY <1>1, <1>2 DEF StaleInv, Current, Quiet

\* A server at rest that has nothing to pull serves what its clone holds, or says that
\* its last reload failed, however its pulls, edits, refused pushes, crashes and reloads
\* fell in between each other.  There are three ways to hide staleness.  A push fails
\* without being refused, after the edit's pull has moved HEAD.  A file operation fails
\* after HEAD has moved: in the edit, in a pull, or in the reset after a failed push,
\* which leaves files behind that make the next pull move HEAD and then give up.  Or a
\* file that the edit is built from does not parse (the early returns of ApplyChanges,
\* resetToParent, HeadMoved in RefreshFromRepo).
THEOREM OnlyFailedEditsHideStaleness ==
    Spec => [](NotSilentlyStale \/ Spent("push") \/ Spent("disk") \/ MayRefuse)
<1>1. TypeInv /\ GraphInv /\ BudgetInv /\ TidyOrDisk /\ StaleOrHidden /\ [Next]_vars
      => StaleOrHidden'
  <2> SUFFICES ASSUME TypeInv, GraphInv, BudgetInv, TidyOrDisk, StaleOrHidden, [Next]_vars,
                      NothingHidden'
               PROVE  StaleInv'
      BY DEF StaleOrHidden, NothingHidden, MayRefuse
  <2>1. ~Spent("push") /\ ~Spent("disk") /\ ~MayRefuse
      BY BudgetNext DEF NothingHidden, MayRefuse, Events
  <2> QED
      BY <2>1, StaleNext DEF StaleOrHidden, TidyOrDisk
<1>2. TypeInv /\ GraphInv /\ StaleOrHidden
      => NotSilentlyStale \/ Spent("push") \/ Spent("disk") \/ MayRefuse
    BY StaleShows DEF StaleOrHidden
<1> QED
    BY <1>1, <1>2, StaleStart, TypeAlways, GraphAlways, BudgetAlways, TidyAlways, PTL DEF Spec

=============================================================================
