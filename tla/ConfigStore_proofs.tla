------------------------- MODULE ConfigStore_proofs -------------------------
(***************************************************************************)
(* Theorems about the server for any number of requests, refreshers, files *)
(* and values, any retry limit and any faults in any number.               *)
(***************************************************************************)
EXTENDS ConfigStore, SequenceTheorems, TLAPS

(***************************************************************************)
(* The repository: what every operation of it preserves, the types and the *)
(* shape of the commit graph.                                              *)
(***************************************************************************)
\* An edit in progress has its request and a clone; once it has committed, the
\* commit has a parent to go back to.
EditInv ==
    /\ phase # "free" => request \in Requests /\ local # 0
    /\ phase \in {"push", "undo", "undoRetry"} => made[local].parent \in Commits

RepoInv == RepoTypeOK /\ EditInv

\* Commits are made one at a time, on top of an existing one, and never altered.
Grow ==
    \/ made' = made
    \/ \E base \in Commits, t \in Tree, who \in Requests \cup {NoRequest} :
          made' = Append(made, NewCommit(base, t, who))

----------------------------------------------------------------------------
(* The data. *)

\* A new commit is a commit, and the old ones are still what they were.
LEMMA GrowFacts ==
    ASSUME RepoTypeOK, NEW base \in Commits, NEW t \in Tree,
           NEW who \in Requests \cup {NoRequest},
           made' = Append(made, NewCommit(base, t, who))
    PROVE  /\ made' \in Seq(Commit)
           /\ made' # <<>>
           /\ Len(made') = Len(made) + 1
           /\ Commits' = Commits \cup {Len(made')}
           /\ \A c \in Commits : made'[c] = made[c]
           /\ made'[Len(made')] = NewCommit(base, t, who)
<1> DEFINE new == NewCommit(base, t, who)
<1>1. made \in Seq(Commit) /\ Len(made) \in Nat
    BY DEF RepoTypeOK
<1>2. made[base] \in Commit
    BY <1>1 DEF Commits
<1>3. new \in Commit
    BY <1>1, <1>2 DEF NewCommit, Commit, Commits
<1>4. /\ Append(made, new) \in Seq(Commit)
      /\ Append(made, new) # <<>>
      /\ Len(Append(made, new)) = Len(made) + 1
      /\ \A i \in 1..Len(made) : Append(made, new)[i] = made[i]
      /\ Append(made, new)[Len(made) + 1] = new
    BY <1>1, <1>3, AppendProperties
<1> QED
    BY <1>1, <1>4 DEF Commits

\* Whether or not there is a new commit, nothing is lost.
LEMMA GrowKeeps ==
    ASSUME RepoTypeOK, Grow
    PROVE  /\ made' \in Seq(Commit) /\ made' # <<>>
           /\ Commits \subseteq Commits'
           /\ \A c \in Commits : made'[c] = made[c]
<1>1. CASE made' = made
    BY <1>1 DEF RepoTypeOK, Commits
<1>2. CASE \E base \in Commits, t \in Tree, who \in Requests \cup {NoRequest} :
              made' = Append(made, NewCommit(base, t, who))
    BY <1>2, GrowFacts
<1> QED
    BY <1>1, <1>2 DEF Grow

LEMMA CommitFacts ==
    ASSUME RepoTypeOK, NEW c \in Commits
    PROVE  made[c].tree \in Tree /\ made[c].parent \in Nat /\ made[c].anc \in SUBSET Nat
<1>1. made[c] \in Commit
    BY DEF RepoTypeOK, Commits
<1> QED
    BY <1>1 DEF Commit

LEMMA EmptyTreeIsTree == EmptyTree \in Tree
    BY DEF EmptyTree, Tree, Blob

\* Carrying out a request, or part of it, makes a tree of a tree.
LEMMA EditedIsTree ==
    ASSUME request \in Requests, NEW tree \in Tree,
           NEW fs \in SUBSET DOMAIN request.edit
    PROVE  Edited(tree, fs) \in Tree
<1>1. IsRequest(request)
    BY GitRepoAssumption
<1>2. \A f \in fs : request.edit[f] \in Blob
    BY <1>1 DEF IsRequest, Blob
<1> QED
    BY <1>2 DEF Edited, Tree

LEMMA PartlyEditedIsTree ==
    ASSUME RepoTypeOK, request \in Requests, NEW n, PartlyEdited(n)
    PROVE  index' \in Tree /\ work' \in Tree
<1>1. PICK done \in SUBSET DOMAIN request.edit :
          \E torn \in SUBSET (DOMAIN request.edit \ done) :
              index' = Edited(index, done) /\ work' = Edited(work, done \cup torn)
    BY DEF PartlyEdited
<1>2. PICK torn \in SUBSET (DOMAIN request.edit \ done) :
              index' = Edited(index, done) /\ work' = Edited(work, done \cup torn)
    BY <1>1
<1>3. done \cup torn \in SUBSET DOMAIN request.edit
    OBVIOUS
<1> QED
    BY <1>2, <1>3, EditedIsTree DEF RepoTypeOK

LEMMA SpendKeepsType ==
    ASSUME RepoTypeOK, NEW k \in Events, Spend(k)
    PROVE  /\ budget' \in [Events -> Nat]
           /\ \A e \in Events : budget'[e] <= budget[e]
           /\ budget'[k] < budget[k]
    BY DEF RepoTypeOK, Spend

LEMMA CheckOutKeepsType ==
    ASSUME RepoTypeOK, NEW c \in Commits, CheckOut(c)
    PROVE  local' = c /\ index' \in Tree /\ work' \in Tree
<1>1. made[c].tree \in Tree
    BY CommitFacts
<1>2. PICK spared : work' = [f \in Files |-> IF f \in spared THEN work[f] ELSE made[c].tree[f]]
    BY DEF CheckOut
<1> QED
    BY <1>1, <1>2 DEF CheckOut, RepoTypeOK, Tree

LEMMA HalfCheckOutKeepsType ==
    ASSUME RepoTypeOK, NEW c \in Commits, HalfCheckOut(c)
    PROVE  local' = c /\ index' \in Tree /\ work' \in Tree
<1>1. made[c].tree \in Tree
    BY CommitFacts
<1>2. CASE UNCHANGED <<index, work>>
    BY <1>2 DEF HalfCheckOut, RepoTypeOK
<1>3. CASE index' = made[c].tree
           /\ \E left \in SUBSET Files :
                 work' = [f \in Files |-> IF f \in left THEN work[f] ELSE made[c].tree[f]]
    BY <1>1, <1>3 DEF HalfCheckOut, RepoTypeOK, Tree
<1> QED
    BY <1>2, <1>3 DEF HalfCheckOut

----------------------------------------------------------------------------
(* The operations.  Each preserves RepoInv, loses no commit, never gives up  *)
(* the clone, and gives back no budget.                                      *)
Sound ==
    /\ RepoInv'
    /\ Grow
    /\ local # 0 => local' # 0
    /\ \A k \in Events : budget'[k] <= budget[k]

LEMMA StutterSound ==
    ASSUME RepoInv, UNCHANGED repoVars PROVE Sound
    BY DEF RepoInv, RepoTypeOK, EditInv, Sound, Grow, repoVars, Commits

LEMMA SpendSound ==
    ASSUME RepoInv, NEW k \in Events, Spend(k), UNCHANGED <<made, remote, checkout, editVars>>
    PROVE  Sound
    BY SpendKeepsType
    DEF RepoInv, RepoTypeOK, EditInv, Sound, Grow, checkout, editVars, Commits

LEMMA OutsidePushSound ==
    ASSUME RepoInv, OutsidePush PROVE Sound
<1>1. PICK f \in Files, v \in Blob :
          made' = Append(made, NewCommit(remote, [made[remote].tree EXCEPT ![f] = v], NoRequest))
    BY DEF OutsidePush
<1> DEFINE t == [made[remote].tree EXCEPT ![f] = v]
<1>2. remote \in Commits /\ made[remote].tree \in Tree
    BY CommitFacts DEF RepoInv, RepoTypeOK
<1>3. t \in Tree
    BY <1>2 DEF Tree
<1>4. Grow
    BY <1>1, <1>2, <1>3 DEF Grow
<1>5. /\ made' \in Seq(Commit) /\ made' # <<>>
      /\ Len(made') \in Commits'
      /\ Commits \subseteq Commits'
      /\ \A c \in Commits : made'[c] = made[c]
    BY <1>1, <1>2, <1>3, GrowFacts DEF RepoInv
<1>6. budget' \in [Events -> Nat] /\ \A k \in Events : budget'[k] <= budget[k]
    BY SpendKeepsType DEF OutsidePush, RepoInv, Events
<1>7. RepoTypeOK'
    BY <1>5, <1>6 DEF OutsidePush, RepoInv, RepoTypeOK, checkout, editVars
<1>8. EditInv'
    BY <1>5 DEF OutsidePush, RepoInv, RepoTypeOK, EditInv, checkout, editVars
<1> QED
    BY <1>4, <1>6, <1>7, <1>8 DEF Sound, RepoInv, OutsidePush, checkout, editVars

\* The effect of any pull on the clone and on the budget.
LEMMA PullKeepsType ==
    ASSUME RepoTypeOK, PullOk \/ PullError
    PROVE  /\ local' \in {local, remote}
           /\ index' \in Tree /\ work' \in Tree
           /\ budget' \in [Events -> Nat]
           /\ \A k \in Events : budget'[k] <= budget[k]
<1>1. CASE PullUpToDate
    BY <1>1 DEF PullUpToDate, RepoTypeOK, checkout
<1>2. CASE PullForward
    BY <1>2, CheckOutKeepsType DEF PullForward, RepoTypeOK
<1>3. CASE PullTorn
    BY <1>3 DEF PullTorn, RepoTypeOK
<1>4. CASE PullHalfDone
    BY <1>4, HalfCheckOutKeepsType, SpendKeepsType DEF PullHalfDone, RepoTypeOK, Events
<1>5. CASE PullDiverged
    BY <1>5 DEF PullDiverged, RepoTypeOK, checkout
<1>6. CASE PullUnreachable
    BY <1>6, SpendKeepsType DEF PullUnreachable, RepoTypeOK, checkout, Events
<1> QED
    BY <1>1, <1>2, <1>3, <1>4, <1>5, <1>6 DEF PullOk, PullError

LEMMA PullSound ==
    ASSUME RepoInv, Pull \/ PullFails PROVE Sound
    BY PullKeepsType
    DEF Pull, PullFails, Sound, RepoInv, RepoTypeOK, EditInv, Grow, editVars, Commits

LEMMA CloneSound ==
    ASSUME RepoInv, CloneOrOpen \/ CloneFails
    PROVE  Sound /\ (CloneOrOpen => local' # 0)
<1>1. CASE CloneFails
    BY <1>1, SpendSound DEF CloneFails, CloneOrOpen, Events, RepoInv, RepoTypeOK, Commits,
       CheckOut, checkout
<1>2. CASE CloneOrOpen
  <2>1. local' \in Commits /\ index' \in Tree /\ work' \in Tree
      BY <1>2, CheckOutKeepsType DEF CloneOrOpen, RepoInv, RepoTypeOK, checkout
  <2> QED
      BY <1>2, <2>1 DEF CloneOrOpen, Sound, RepoInv, RepoTypeOK, EditInv, Grow, editVars, Commits
<1> QED
    BY <1>1, <1>2

LEMMA BeginEditSound ==
    ASSUME RepoInv, local # 0, NEW r \in Requests, BeginEdit(r), Spend("request")
    PROVE  Sound
    BY SpendKeepsType, GitRepoAssumption
    DEF BeginEdit, Sound, RepoInv, RepoTypeOK, EditInv, Grow, Phases, Commits, checkout, Events

LEMMA PreCommitPullSound ==
    ASSUME RepoInv, PreCommitPull PROVE Sound
    BY PullKeepsType
    DEF PreCommitPull, Sound, RepoInv, RepoTypeOK, EditInv, Grow, Phases, Commits

\* Staging, all of it or some, changes the index and the worktree only.
LEMMA StageSound ==
    ASSUME RepoInv, phase = "stage", NEW n,
           StageAll \/ StagePartly(n),
           UNCHANGED <<made, remote, local, attempt, request>>
    PROVE  Sound
<1>1. request \in Requests
    BY DEF RepoInv, EditInv
<1>2. CASE StageAll
  <2>1. index' \in Tree /\ work' \in Tree
      BY <1>1, <1>2, EditedIsTree DEF StageAll, RepoInv, RepoTypeOK
  <2> QED
      BY <1>2, <2>1
      DEF StageAll, Sound, RepoInv, RepoTypeOK, EditInv, Grow, Phases, Commits
<1>3. CASE StagePartly(n)
  <2>1. index' \in Tree /\ work' \in Tree
      BY <1>1, <1>3, PartlyEditedIsTree DEF StagePartly, RepoInv
  <2>2. budget' \in [Events -> Nat] /\ \A k \in Events : budget'[k] <= budget[k]
      BY <1>3, SpendKeepsType DEF StagePartly, RepoInv, Events
  <2> QED
      BY <1>3, <2>1, <2>2
      DEF StagePartly, Sound, RepoInv, RepoTypeOK, EditInv, Grow, Phases, Commits
<1> QED
    BY <1>2, <1>3

LEMMA StageWritesSound ==
    ASSUME RepoInv, StageWrites PROVE Sound
<1>1. CASE BuildFails /\ phase' = "error" /\ UNCHANGED <<index, work, budget>>
    BY <1>1
    DEF StageWrites, Sound, RepoInv, RepoTypeOK, EditInv, Grow, Phases, Commits
<1>2. CASE StageAll \/ StagePartly(1)
    BY <1>2, StageSound DEF StageWrites
<1> QED
    BY <1>1, <1>2 DEF StageWrites

LEMMA StageRemovalsSound ==
    ASSUME RepoInv, StageRemovals PROVE Sound
<1>1. CASE StageSomeRemovals
  <2>1. request \in Requests
      BY DEF StageRemovals, RepoInv, EditInv
  <2>2. PICK kept \in SUBSET DOMAIN request.edit :
            /\ UNCHANGED budget \/ Spend("disk")
            /\ index' = Edited(index, DOMAIN request.edit \ kept)
            /\ work' = Edited(work, DOMAIN request.edit)
            /\ phase' = "commit"
      BY <1>1 DEF StageSomeRemovals
  <2>3. index' \in Tree /\ work' \in Tree
      BY <2>1, <2>2, EditedIsTree DEF RepoInv, RepoTypeOK
  <2>4. budget' \in [Events -> Nat] /\ \A k \in Events : budget'[k] <= budget[k]
      BY <2>2, SpendKeepsType DEF RepoInv, RepoTypeOK, Events
  <2> QED
      BY <2>2, <2>3, <2>4
      DEF StageRemovals, Sound, RepoInv, RepoTypeOK, EditInv, Grow, Phases, Commits
<1>2. CASE StagePartly(Cardinality(DOMAIN request.edit))
    BY <1>2, StageSound DEF StageRemovals
<1> QED
    BY <1>1, <1>2 DEF StageRemovals

LEMMA StageRestoreSound ==
    ASSUME RepoInv, StageRestore PROVE Sound
<1>1. CASE StageRestored
  <2>1. request \in Requests
      BY DEF StageRestore, RepoInv, EditInv
  <2>2. PICK kept \in SUBSET DOMAIN request.edit :
            /\ UNCHANGED budget \/ Spend("disk")
            /\ index' = Edited(index, DOMAIN request.edit \ kept)
            /\ work' = Edited(work, DOMAIN request.edit)
            /\ phase' = "commit"
      BY <1>1 DEF StageRestored
  <2>3. index' \in Tree /\ work' \in Tree
      BY <2>1, <2>2, EditedIsTree DEF RepoInv, RepoTypeOK
  <2>4. budget' \in [Events -> Nat] /\ \A k \in Events : budget'[k] <= budget[k]
      BY <2>2, SpendKeepsType DEF RepoInv, RepoTypeOK, Events
  <2> QED
      BY <2>2, <2>3, <2>4
      DEF StageRestore, Sound, RepoInv, RepoTypeOK, EditInv, Grow, Phases, Commits
<1>2. CASE StagePartly(Cardinality(DOMAIN request.edit))
    BY <1>2, StageSound DEF StageRestore
<1> QED
    BY <1>1, <1>2 DEF StageRestore

LEMMA CommitStagedSound ==
    ASSUME RepoInv, CommitStaged PROVE Sound
<1>1. CASE phase' = "ok" /\ UNCHANGED <<made, local, budget>>
    BY <1>1 DEF CommitStaged, Sound, RepoInv, RepoTypeOK, EditInv, Grow, Phases, Commits
<1>2. CASE /\ made' = Append(made, NewCommit(local, index, request))
           /\ local' = Len(made')
           /\ phase' = "push"
           /\ UNCHANGED budget
  <2>1. local \in Commits /\ index \in Tree /\ request \in Requests
      BY DEF CommitStaged, RepoInv, RepoTypeOK, EditInv
  <2>2. Grow
      BY <1>2, <2>1 DEF Grow
  <2>3. /\ made' \in Seq(Commit) /\ made' # <<>>
        /\ local' \in Commits' /\ local' # 0
        /\ Commits \subseteq Commits'
        /\ made'[local'].parent = local
    <3>1. /\ made' \in Seq(Commit) /\ made' # <<>>
          /\ Len(made') = Len(made) + 1
          /\ Commits' = Commits \cup {Len(made')}
          /\ made'[Len(made')] = NewCommit(local, index, request)
        BY <1>2, <2>1, GrowFacts DEF RepoInv
    <3>2. Len(made) \in Nat
        BY DEF RepoInv, RepoTypeOK
    <3> QED
        BY <1>2, <3>1, <3>2 DEF NewCommit
  <2>4. RepoTypeOK'
      BY <1>2, <2>3 DEF CommitStaged, RepoInv, RepoTypeOK, Phases
  <2>5. EditInv'
      BY <1>2, <2>1, <2>3 DEF CommitStaged, EditInv
  <2> QED
      BY <1>2, <2>2, <2>3, <2>4, <2>5 DEF Sound, RepoInv, RepoTypeOK
<1>3. CASE Spend("disk") /\ phase' = "error" /\ UNCHANGED <<made, local>>
  <2>1. budget' \in [Events -> Nat] /\ \A k \in Events : budget'[k] <= budget[k]
      BY <1>3, SpendKeepsType DEF RepoInv, Events
  <2> QED
      BY <1>3, <2>1
      DEF CommitStaged, Sound, RepoInv, RepoTypeOK, EditInv, Grow, Phases, Commits
<1> QED
    BY <1>1, <1>2, <1>3 DEF CommitStaged

LEMMA PushSound ==
    ASSUME RepoInv, Push PROVE Sound
<1>1. phase' \in {"ok", "undo", "undoRetry"} /\ remote' \in {remote, local}
    BY DEF Push
<1>2. budget' \in [Events -> Nat] /\ \A k \in Events : budget'[k] <= budget[k]
    BY SpendKeepsType DEF Push, RepoInv, RepoTypeOK, Events
<1> QED
    BY <1>1, <1>2
    DEF Push, Sound, RepoInv, RepoTypeOK, EditInv, Grow, Phases, Commits, checkout

\* Undoing the commit goes back to its parent, at least with HEAD, or leaves things as
\* they are.
LEMMA UndoKeepsType ==
    ASSUME RepoInv, phase \in {"undo", "undoRetry"}, ResetToParent \/ ResetFails
    PROVE  /\ local' \in Commits
           /\ index' \in Tree /\ work' \in Tree
           /\ budget' \in [Events -> Nat]
           /\ \A k \in Events : budget'[k] <= budget[k]
<1>1. CASE ResetToParent
    BY <1>1, CheckOutKeepsType DEF ResetToParent, RepoInv, RepoTypeOK, EditInv
<1>2. CASE Spend("reset") /\ UNCHANGED checkout
    BY <1>2, SpendKeepsType DEF checkout, RepoInv, RepoTypeOK, EditInv, Events
<1>3. CASE Spend("disk") /\ HalfCheckOut(made[local].parent)
  <2>1. made[local].parent \in Commits
      BY DEF RepoInv, EditInv
  <2>2. local' \in Commits /\ index' \in Tree /\ work' \in Tree
      BY <1>3, <2>1, HalfCheckOutKeepsType DEF RepoInv
  <2> QED
      BY <1>3, <2>2, SpendKeepsType DEF RepoInv, Events
<1> QED
    BY <1>1, <1>2, <1>3 DEF ResetFails

LEMMA UndoSound ==
    ASSUME RepoInv, UndoTerminal \/ UndoAndRetry PROVE Sound
<1>1. phase \in {"undo", "undoRetry"} /\ (ResetToParent \/ ResetFails)
    BY DEF UndoTerminal, UndoAndRetry
<1>2. phase' \in {"pull", "error"} /\ attempt' \in 0..MaxPushRetries-1
    BY GitRepoAssumption DEF UndoTerminal, UndoAndRetry, RepoInv, RepoTypeOK
<1> QED
    BY <1>1, <1>2, UndoKeepsType
    DEF UndoTerminal, UndoAndRetry, Sound, RepoInv, RepoTypeOK, EditInv, Grow, Phases, Commits

LEMMA EditStepSound ==
    ASSUME RepoInv, EditStep PROVE Sound
    BY PreCommitPullSound, StageWritesSound, StageRemovalsSound, StageRestoreSound,
       CommitStagedSound, PushSound, UndoSound
    DEF EditStep

LEMMA EndEditSound ==
    ASSUME RepoInv, EndEdit PROVE Sound
    BY GitRepoAssumption
    DEF EndEdit, Sound, RepoInv, RepoTypeOK, EditInv, Grow, Phases, Commits, checkout

\* A crash may lose the clone, and leaves no edit in progress.
LEMMA RepoCrashSound ==
    ASSUME RepoInv, RepoCrash
    PROVE  RepoInv' /\ Grow /\ \A k \in Events : budget'[k] <= budget[k]
<1>1. local' \in Commits \cup {0} /\ index' \in Tree /\ work' \in Tree
  <2>1. CASE CrashedCheckout
    <3>1. CASE UNCHANGED checkout
        BY <3>1 DEF checkout, RepoInv, RepoTypeOK
    <3>2. CASE phase = "stage" /\ PartlyEdited(Cardinality(DOMAIN request.edit)) /\ UNCHANGED local
        BY <3>2, PartlyEditedIsTree DEF RepoInv, RepoTypeOK, EditInv
    <3>3. CASE local' = remote /\ UNCHANGED <<index, work>>
        BY <3>3 DEF RepoInv, RepoTypeOK
    <3>4. CASE HalfCheckOut(remote)
        BY <3>4, HalfCheckOutKeepsType DEF RepoInv, RepoTypeOK
    <3>5. CASE phase \in {"undo", "undoRetry"} /\ HalfCheckOut(made[local].parent)
        BY <3>5, HalfCheckOutKeepsType DEF RepoInv, EditInv
    <3> QED
        BY <2>1, <3>1, <3>2, <3>3, <3>4, <3>5 DEF CrashedCheckout
  <2>2. CASE local' = 0 /\ index' = EmptyTree /\ work' = EmptyTree
      BY <2>2, EmptyTreeIsTree
  <2> QED
      BY <2>1, <2>2 DEF RepoCrash
<1>2. budget' \in [Events -> Nat] /\ \A k \in Events : budget'[k] <= budget[k]
    BY SpendKeepsType DEF RepoCrash, RepoInv, Events
<1> QED
    BY <1>1, <1>2, GitRepoAssumption
    DEF RepoCrash, RepoInv, RepoTypeOK, EditInv, Grow, Phases, Commits

LEMMA RepoInitSound ==
    ASSUME RepoInit PROVE RepoInv
<1>1. PICK t \in InitialTrees :
          made = <<[parent |-> 0, anc |-> {1}, tree |-> t, by |-> NoRequest]>>
    BY DEF RepoInit
<1>2. [parent |-> 0, anc |-> {1}, tree |-> t, by |-> NoRequest] \in Commit
    BY GitRepoAssumption DEF Commit
<1>3. made \in Seq(Commit) /\ made # <<>> /\ Len(made) = 1
    BY <1>1, <1>2
<1> QED
    BY <1>3, EmptyTreeIsTree, GitRepoAssumption
    DEF RepoInit, RepoInv, RepoTypeOK, EditInv, Commits, Phases

----------------------------------------------------------------------------
(* The commit graph. *)

\* A commit descends from itself, only from commits, from all that its ancestors
\* descend from, and, unless it is the first, from its parent.
GraphInv ==
    \A c \in Commits :
        /\ c \in made[c].anc
        /\ made[c].anc \subseteq Commits
        /\ \A a \in made[c].anc : made[a].anc \subseteq made[c].anc
        /\ made[c].parent # 0 => made[c].parent \in made[c].anc

LEMMA GraphInit ==
    ASSUME RepoInit PROVE GraphInv
<1>1. PICK t \in InitialTrees :
          made = <<[parent |-> 0, anc |-> {1}, tree |-> t, by |-> NoRequest]>>
    BY DEF RepoInit
<1>2. Len(made) = 1 /\ made[1].anc = {1} /\ made[1].parent = 0
    BY <1>1
<1> QED
    BY <1>2 DEF GraphInv, Commits

LEMMA GraphGrows ==
    ASSUME RepoTypeOK, GraphInv, Grow PROVE GraphInv'
<1>1. CASE made' = made
    BY <1>1 DEF GraphInv, Commits
<1>2. CASE \E base \in Commits, t \in Tree, who \in Requests \cup {NoRequest} :
              made' = Append(made, NewCommit(base, t, who))
  <2>1. PICK base \in Commits, t \in Tree, who \in Requests \cup {NoRequest} :
              made' = Append(made, NewCommit(base, t, who))
      BY <1>2
  <2> DEFINE n == Len(made')
  <2>2. /\ n = Len(made) + 1
        /\ Commits' = Commits \cup {n}
        /\ \A c \in Commits : made'[c] = made[c]
        /\ made'[n] = NewCommit(base, t, who)
      BY <2>1, GrowFacts
  <2>3. made'[n].anc = made[base].anc \cup {n} /\ made'[n].parent = base
      BY <2>2 DEF NewCommit
  <2> HIDE DEF n
  <2>4. ASSUME NEW c \in Commits
        PROVE  /\ c \in made'[c].anc
               /\ made'[c].anc \subseteq Commits'
               /\ \A a \in made'[c].anc : made'[a].anc \subseteq made'[c].anc
               /\ made'[c].parent # 0 => made'[c].parent \in made'[c].anc
      BY <2>2 DEF GraphInv
  <2>5. /\ n \in made'[n].anc
        /\ made'[n].anc \subseteq Commits'
        /\ \A a \in made'[n].anc : made'[a].anc \subseteq made'[n].anc
        /\ made'[n].parent # 0 => made'[n].parent \in made'[n].anc
      BY <2>2, <2>3 DEF GraphInv
  <2> QED
      BY <2>2, <2>4, <2>5 DEF GraphInv
<1> QED
    BY <1>1, <1>2 DEF Grow

\* "Is an ancestor of" is transitive, and stays true.
LEMMA ReachesTransitive ==
    ASSUME GraphInv, NEW a \in Commits, NEW b, NEW c, Reaches(a, b), Reaches(b, c)
    PROVE  Reaches(a, c)
    BY DEF GraphInv, Reaches

LEMMA ReachesKept ==
    ASSUME RepoTypeOK, Grow, NEW a \in Commits, NEW b, Reaches(a, b)
    PROVE  Reaches(a, b)'
    BY GrowKeeps DEF Reaches

(***************************************************************************)
(* The invariant behind all of them.  TypeOK is not inductive: a reset     *)
(* needs the commit to have a parent (EditInv), an edit and a reload need  *)
(* a clone (CloneInv), Store.mu is held by one at a time (MuInv) and by a  *)
(* writer from the start, which never waits to reload (WriterInv).         *)
(* TypeInv leaves the answers out: it is true of a revert as well, which   *)
(* reloads before it answers and may not answer.                           *)
(***************************************************************************)
Critical == {"plan", "check", "git", "reload", "swap", "settle"}

CloneInv == up \/ (\E p \in Procs : pc[p] # "idle") => local # 0

MuInv == \A p \in Procs : pc[p] \in Critical => mu = p

WriterInv == \A p \in Writers : pc[p] \notin {"initialPull", "wantMu"}

StoreTypeOK ==
    /\ up \in BOOLEAN
    /\ mu \in Procs \cup {NoOne}
    /\ pc \in [Procs -> Places]
    /\ snap \in Snapshots
    /\ lastReload \in {"none", "ok", "failed"}
    /\ pend \in [Procs -> Snapshots]

StoreInv == StoreTypeOK /\ CloneInv /\ MuInv /\ WriterInv

TypeInv == RepoInv /\ StoreInv

\* An answer needs the reply that the same goroutine left there, which no other has
\* cleared or left behind.
ReplyInv ==
    /\ reply \in Reply \cup {NoReply}
    /\ acked \subseteq Ack
    /\ \A p \in Writers : pc[p] \in {"reload", "swap", "settle"} => reply \in Reply
    /\ reply # NoReply => \E p \in Writers : pc[p] \in {"reload", "swap", "settle"}

LEMMA NoSnapshotIsSnapshot == NoSnapshot \in Snapshots
    BY EmptyTreeIsTree DEF NoSnapshot, Snapshots

LEMMA TypeInit == Init => TypeInv
<1> SUFFICES ASSUME Init PROVE TypeInv
    OBVIOUS
<1>1. RepoInv
    BY RepoInitSound DEF Init
<1>2. StoreTypeOK
    BY NoSnapshotIsSnapshot DEF Init, StoreTypeOK, Places
<1>3. \A p \in Procs : pc[p] = "idle"
    BY DEF Init
<1>4. CloneInv /\ MuInv /\ WriterInv
    BY <1>3 DEF Init, CloneInv, MuInv, WriterInv, Critical, Procs
<1> QED
    BY <1>1, <1>2, <1>4 DEF TypeInv, StoreInv

(***************************************************************************)
(* A step of one goroutine p that goes to place and keeps the clone        *)
(* preserves StoreInv, if it takes Store.mu only when it is free, and      *)
(* holds it, or has given it up, afterwards.                               *)
(***************************************************************************)
LEMMA StepKeepsStoreInv ==
    ASSUME StoreInv, StoreTypeOK', NEW p \in Procs, NEW place \in Places, Goto(p, place),
           local # 0 => local' # 0,
           (place # "idle" \/ up') => local' # 0,
           mu # p => mu \in {NoOne, mu'},
           place \in Critical => mu' = p,
           p \in Writers => place \notin {"initialPull", "wantMu"}
    PROVE  StoreInv'
<1>1. pc' = [pc EXCEPT ![p] = place] /\ pc \in [Procs -> Places]
    BY DEF Goto, StoreInv, StoreTypeOK
<1>2. CloneInv'
    BY <1>1 DEF StoreInv, CloneInv
<1>3. MuInv'
  <2>1. SUFFICES ASSUME NEW q \in Procs, pc'[q] \in Critical PROVE mu' = q
      BY DEF MuInv
  <2>2. CASE q = p
      BY <1>1, <2>1, <2>2
  <2>3. CASE q # p
    <3>1. mu = q
        BY <1>1, <2>1, <2>3 DEF StoreInv, MuInv
    <3> QED
        BY <2>3, <3>1, ConfigStoreAssumption
  <2> QED
      BY <2>2, <2>3
<1>4. WriterInv'
    BY <1>1 DEF StoreInv, WriterInv, Procs
<1> QED
    BY <1>2, <1>3, <1>4 DEF StoreInv

\* A step of the repository alone.
LEMMA RepoStepKeepsStoreInv ==
    ASSUME StoreInv, UNCHANGED storeVars, local # 0 => local' # 0
    PROVE  StoreInv'
    BY DEF StoreInv, StoreTypeOK, CloneInv, MuInv, WriterInv, storeVars

LEMMA GotoKeepsType ==
    ASSUME StoreInv, NEW p \in Procs, NEW place \in Places, Goto(p, place)
    PROVE  pc' \in [Procs -> Places]
    BY DEF StoreInv, StoreTypeOK, Goto

(***************************************************************************)
(* Every action.                                                           *)
(***************************************************************************)
LEMMA TypeStart ==
    ASSUME TypeInv, OpenRepo \/ InitialPull PROVE TypeInv'
<1> USE DEF TypeInv
<1>0. Main \in Procs /\ Main \notin Writers
    BY ConfigStoreAssumption DEF Procs
<1>1. CASE OpenRepo /\ CloneOrOpen /\ Goto(Main, "initialPull")
  <2>1. RepoInv' /\ local' # 0
      BY <1>1, CloneSound DEF Sound
  <2>2. StoreTypeOK'
      BY <1>0, <1>1, GotoKeepsType DEF OpenRepo, StoreInv, StoreTypeOK, Places
  <2>3. StoreInv'
      BY <1>0, <1>1, <2>1, <2>2, StepKeepsStoreInv DEF OpenRepo, Places, Critical
  <2> QED
      BY <2>1, <2>3
<1>2. CASE OpenRepo /\ CloneFails /\ UNCHANGED pc
    BY <1>2, CloneSound, RepoStepKeepsStoreInv DEF OpenRepo, Sound, storeVars
<1>3. CASE InitialPull
  <2>1. RepoInv' /\ (local # 0 => local' # 0)
      BY <1>3, PullSound DEF InitialPull, Sound
  <2>2. local' # 0
      BY <1>0, <1>3, <2>1 DEF InitialPull, StoreInv, CloneInv
  <2>3. StoreTypeOK'
      BY <1>0, <1>3, GotoKeepsType DEF InitialPull, StoreInv, StoreTypeOK, Places
  <2>4. StoreInv'
      BY <1>0, <1>3, <2>1, <2>2, <2>3, StepKeepsStoreInv DEF InitialPull, Places, Critical
  <2> QED
      BY <2>1, <2>4
<1> QED
    BY <1>1, <1>2, <1>3 DEF OpenRepo

LEMMA TypeRefresh ==
    ASSUME TypeInv, NEW p \in Refreshers \cup Reloaders, RefreshFromRepo(p) \/ ReloadFromRepo(p)
    PROVE  TypeInv'
<1> USE DEF TypeInv
<1>0. p \in Procs /\ p \notin Writers
    BY ConfigStoreAssumption DEF Procs
<1>1. RepoInv' /\ (local # 0 => local' # 0)
    BY PullSound DEF RefreshFromRepo, ReloadFromRepo, Sound
<1>2. local # 0
    BY <1>0 DEF RefreshFromRepo, ReloadFromRepo, StoreInv, CloneInv
<1>3. CASE UNCHANGED pc
    BY <1>1, <1>3, RepoStepKeepsStoreInv DEF RefreshFromRepo, ReloadFromRepo, storeVars
<1>4. CASE Goto(p, "wantMu")
  <2>1. StoreTypeOK'
      BY <1>0, <1>4, GotoKeepsType DEF RefreshFromRepo, ReloadFromRepo, StoreInv, StoreTypeOK, Places
  <2>2. StoreInv'
      BY <1>0, <1>1, <1>2, <1>4, <2>1, StepKeepsStoreInv
      DEF RefreshFromRepo, ReloadFromRepo, Places, Critical
  <2> QED
      BY <1>1, <2>2
<1> QED
    BY <1>3, <1>4 DEF RefreshFromRepo, ReloadFromRepo

LEMMA TypeWrite ==
    ASSUME TypeInv, NEW p \in Writers, Write(p) PROVE TypeInv'
<1> USE DEF TypeInv
<1>0. p \in Procs
    BY DEF Procs
<1>1. ASSUME NEW r \in Requests, BeginWrite(p, r) PROVE TypeInv'
  <2>1. local # 0
      BY <1>1 DEF BeginWrite, StoreInv, CloneInv
  <2>2. RepoInv' /\ local' # 0
      BY <1>1, <2>1, BeginEditSound DEF BeginWrite, Sound
  <2>3. StoreTypeOK'
      BY <1>0, <1>1, GotoKeepsType DEF BeginWrite, StoreInv, StoreTypeOK, Places
  <2>4. StoreInv'
      BY <1>0, <1>1, <2>2, <2>3, StepKeepsStoreInv DEF BeginWrite, Places, Critical
  <2> QED
      BY <2>2, <2>4
<1>2. CASE Edit(p)
    BY <1>2, EditStepSound, RepoStepKeepsStoreInv DEF Edit, Sound
<1>3. CASE WriteCommitted(p)
  <2>1. RepoInv' /\ local' # 0
      BY <1>3, EndEditSound DEF WriteCommitted, Sound, RepoInv, EditInv
  <2>2. mu = p
      BY <1>0, <1>3 DEF WriteCommitted, StoreInv, MuInv, Critical
  <2>3. StoreTypeOK'
      BY <1>0, <1>3, <2>2, GotoKeepsType DEF WriteCommitted, StoreInv, StoreTypeOK, Places
  <2>4. StoreInv'
      BY <1>0, <1>3, <2>1, <2>2, <2>3, StepKeepsStoreInv DEF WriteCommitted, Places, Critical
  <2> QED
      BY <2>1, <2>4
<1>4. CASE WriteFailed(p)
  <2>1. RepoInv' /\ local' # 0
      BY <1>4, EndEditSound DEF WriteFailed, Sound, RepoInv, EditInv
  <2>2. mu = p
      BY <1>0, <1>4 DEF WriteFailed, StoreInv, MuInv, Critical
  <2>3. StoreTypeOK'
      BY <1>0, <1>4, GotoKeepsType DEF WriteFailed, StoreInv, StoreTypeOK, Places
  <2>4. StoreInv'
      BY <1>0, <1>4, <2>1, <2>2, <2>3, StepKeepsStoreInv DEF WriteFailed, Places, Critical
  <2> QED
      BY <2>1, <2>4
<1> QED
    BY <1>1, <1>2, <1>3, <1>4 DEF Write

LEMMA TypeReload ==
    ASSUME TypeInv, NEW p \in Procs, Reload(p) PROVE TypeInv'
<1> USE DEF TypeInv
<1>0. local # 0
    BY DEF StoreInv, CloneInv, Reload, LockForReload, ReadSnapshot, ReadFails, Swap, Settle
<1>1. CASE LockForReload(p)
  <2>1. RepoInv' /\ local' # 0
      BY <1>0, <1>1, StutterSound DEF LockForReload, Sound
  <2>2. StoreTypeOK'
      BY <1>1, GotoKeepsType DEF LockForReload, StoreInv, StoreTypeOK, Places
  <2>3. p \notin Writers
      BY <1>1 DEF LockForReload, StoreInv, WriterInv
  <2> QED
      BY <1>1, <2>1, <2>2, <2>3, StepKeepsStoreInv DEF LockForReload, Places, Critical
<1>2. CASE ReadSnapshot(p)
  <2>1. RepoInv' /\ local' # 0
      BY <1>0, <1>2, StutterSound DEF ReadSnapshot, Sound
  <2>2. [version |-> local, data |-> work] \in Snapshots
      BY DEF RepoInv, RepoTypeOK, Snapshots, Commits
  <2>3. StoreTypeOK'
      BY <1>2, <2>2, GotoKeepsType DEF ReadSnapshot, StoreInv, StoreTypeOK, Places
  <2>4. mu = p
      BY <1>2 DEF ReadSnapshot, StoreInv, MuInv, Critical
  <2> QED
      BY <1>2, <2>1, <2>3, <2>4, StepKeepsStoreInv DEF ReadSnapshot, Places, Critical
<1>3. CASE ReadFails(p)
  <2>1. RepoInv' /\ local' # 0
    <3>1. CASE UNCHANGED budget
        BY <1>0, <1>3, <3>1, StutterSound DEF ReadFails, Sound, repoVars, checkout, editVars
    <3>2. CASE Spend("disk")
        BY <1>0, <1>3, <3>2, SpendSound DEF ReadFails, Sound, Events
    <3> QED
        BY <1>3, <3>1, <3>2 DEF ReadFails
  <2>2. mu' = NoOne /\ mu = p /\ Goto(p, "idle")
      BY <1>3 DEF ReadFails, Finish, StoreInv, MuInv, Critical
  <2>3. StoreTypeOK'
      BY <1>3, <2>2, GotoKeepsType DEF ReadFails, StoreInv, StoreTypeOK, Places
  <2> QED
      BY <2>1, <2>2, <2>3, StepKeepsStoreInv DEF Places, Critical
<1>4. CASE Swap(p)
  <2>1. RepoInv' /\ local' # 0
      BY <1>0, <1>4, StutterSound DEF Swap, Sound
  <2>2. StoreTypeOK'
      BY <1>4, GotoKeepsType DEF Swap, StoreInv, StoreTypeOK, Places
  <2>3. mu = p
      BY <1>4 DEF Swap, StoreInv, MuInv, Critical
  <2> QED
      BY <1>4, <2>1, <2>2, <2>3, StepKeepsStoreInv DEF Swap, Places, Critical
<1>5. CASE Settle(p)
  <2>1. RepoInv' /\ local' # 0
      BY <1>0, <1>5, StutterSound DEF Settle, Sound
  <2>2. mu' = NoOne /\ mu = p /\ Goto(p, "idle")
      BY <1>5 DEF Settle, Finish, StoreInv, MuInv, Critical
  <2>3. StoreTypeOK'
      BY <1>5, <2>2, GotoKeepsType, NoSnapshotIsSnapshot
      DEF Settle, StoreInv, StoreTypeOK, Places
  <2> QED
      BY <2>1, <2>2, <2>3, StepKeepsStoreInv DEF Places, Critical
<1> QED
    BY <1>1, <1>2, <1>3, <1>4, <1>5 DEF Reload

LEMMA TypeCrash ==
    ASSUME TypeInv, Crash PROVE TypeInv'
<1>1. RepoInv'
    BY RepoCrashSound DEF Crash, TypeInv
<1>2. StoreTypeOK'
    BY NoSnapshotIsSnapshot DEF Crash, TypeInv, StoreInv, StoreTypeOK, Places
<1>3. \A p \in Procs : pc'[p] = "idle"
    BY DEF Crash
<1>4. CloneInv' /\ MuInv' /\ WriterInv'
    BY <1>3 DEF Crash, CloneInv, MuInv, WriterInv, Critical, Procs
<1> QED
    BY <1>1, <1>2, <1>4 DEF TypeInv, StoreInv

LEMMA TypeNext == TypeInv /\ [Next]_vars => TypeInv'
<1> SUFFICES ASSUME TypeInv, [Next]_vars PROVE TypeInv'
    OBVIOUS
<1>1. CASE OpenRepo \/ InitialPull
    BY <1>1, TypeStart
<1>2. CASE \E p \in Refreshers : RefreshFromRepo(p)
    BY <1>2, TypeRefresh
<1>3. CASE \E p \in Reloaders : ReloadFromRepo(p)
    BY <1>3, TypeRefresh
<1>4. CASE \E p \in Writers : Write(p)
    BY <1>4, TypeWrite
<1>5. CASE \E p \in Procs : Reload(p)
    BY <1>5, TypeReload
<1>6. CASE Outside
    BY <1>6, OutsidePushSound, RepoStepKeepsStoreInv DEF Outside, TypeInv, Sound
<1>7. CASE Crash
    BY <1>7, TypeCrash
<1>8. CASE UNCHANGED vars
    BY <1>8, StutterSound, RepoStepKeepsStoreInv DEF vars, TypeInv, Sound
<1> QED
    BY <1>1, <1>2, <1>3, <1>4, <1>5, <1>6, <1>7, <1>8 DEF Next

LEMMA TypeAlways == Spec => []TypeInv
    BY TypeInit, TypeNext, PTL DEF Spec

(***************************************************************************)
(* The answers.                                                            *)
(***************************************************************************)
LEMMA ReplyInit == Init => ReplyInv
    BY DEF Init, ReplyInv, Procs

LEMMA FinishKeepsReply ==
    ASSUME StoreInv, ReplyInv, NEW p \in Procs, NEW loaded \in BOOLEAN,
           pc[p] \in {"reload", "settle"}, Finish(p, loaded)
    PROVE  ReplyInv'
<1>1. acked' \subseteq Ack
    BY DEF Finish, ReplyInv, Ack, Reply
<1>2. reply' = NoReply /\ pc' = [pc EXCEPT ![p] = "idle"] /\ mu = p
    BY DEF Finish, Goto, StoreInv, MuInv, Critical
<1>3. \A q \in Writers : pc'[q] \notin {"reload", "swap", "settle"}
    BY <1>2 DEF StoreInv, StoreTypeOK, MuInv, Critical, Procs
<1> QED
    BY <1>1, <1>2, <1>3 DEF ReplyInv

\* Steps that answer nothing, and take no writer to or from where it answers.
LEMMA ReplyKept ==
    ASSUME StoreInv, ReplyInv, UNCHANGED <<reply, acked>>,
           NEW p \in Procs, NEW place, pc' = pc \/ Goto(p, place),
           p \in Writers => (place \in {"reload", "swap", "settle"} <=>
                               pc[p] \in {"reload", "swap", "settle"})
    PROVE  ReplyInv'
<1>1. \A q \in Writers : pc'[q] \in {"reload", "swap", "settle"} <=>
                            pc[q] \in {"reload", "swap", "settle"}
    BY DEF Goto, StoreInv, StoreTypeOK, Procs
<1> QED
    BY <1>1 DEF ReplyInv

LEMMA ReplyNext ==
    ASSUME TypeInv, ReplyInv, [Next]_vars PROVE ReplyInv'
<1> USE DEF TypeInv
<1>1. CASE OpenRepo \/ InitialPull
    BY <1>1, ReplyKept, ConfigStoreAssumption DEF OpenRepo, InitialPull, Procs
<1>2. ASSUME NEW p \in Refreshers \cup Reloaders, RefreshFromRepo(p) \/ ReloadFromRepo(p)
      PROVE  ReplyInv'
    BY <1>2, ReplyKept, ConfigStoreAssumption DEF RefreshFromRepo, ReloadFromRepo, Procs
<1>3. ASSUME NEW p \in Writers, Write(p) PROVE ReplyInv'
  <2>1. CASE WriteCommitted(p)
    <3>1. reply' \in Reply /\ pc' = [pc EXCEPT ![p] = "reload"] /\ acked' = acked
        BY <2>1 DEF WriteCommitted, Goto, RepoInv, RepoTypeOK, EditInv, Commits, Reply
    <3> QED
        BY <3>1 DEF ReplyInv, StoreInv, StoreTypeOK, Procs
  <2>2. CASE Edit(p)
      BY <2>2 DEF Edit, storeVars, ReplyInv
  <2>3. CASE (\E r \in Requests : BeginWrite(p, r)) \/ WriteFailed(p)
      BY <2>3, ReplyKept DEF BeginWrite, WriteFailed, Procs
  <2> QED
      BY <1>3, <2>1, <2>2, <2>3 DEF Write
<1>4. ASSUME NEW p \in Procs, Reload(p) PROVE ReplyInv'
  <2>1. CASE ReadFails(p) \/ Settle(p)
      BY <2>1, FinishKeepsReply DEF ReadFails, Settle
  <2>2. CASE LockForReload(p)
      BY <2>2, ReplyKept DEF LockForReload, StoreInv, WriterInv
  <2>3. CASE ReadSnapshot(p) \/ Swap(p)
      BY <2>3, ReplyKept DEF ReadSnapshot, Swap
  <2> QED
      BY <1>4, <2>1, <2>2, <2>3 DEF Reload
<1>5. CASE Outside \/ UNCHANGED vars
    BY <1>5 DEF Outside, vars, storeVars, ReplyInv
<1>6. CASE Crash
    BY <1>6 DEF Crash, ReplyInv, Procs
<1> QED
    BY <1>1, <1>2, <1>3, <1>4, <1>5, <1>6 DEF Next

LEMMA ReplyAlways == Spec => []ReplyInv
    BY ReplyInit, ReplyNext, TypeAlways, PTL DEF Spec

\* Every variable always has its type; in particular the retry counter stays
\* below maxPushRetries and HEAD is a commit (or nothing, before the clone).
THEOREM TypeCorrect == Spec => []TypeOK
<1>1. TypeInv /\ ReplyInv => TypeOK
    BY DEF TypeInv, RepoInv, StoreInv, StoreTypeOK, ReplyInv, TypeOK
<1> QED
    BY <1>1, TypeAlways, ReplyAlways, PTL

=============================================================================
