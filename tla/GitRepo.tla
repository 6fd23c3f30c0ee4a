------------------------------- MODULE GitRepo -------------------------------
(***************************************************************************)
(* internal/gitops/repo.go: the local clone of the configuration branch,   *)
(* and the remote branch it follows.                                       *)
(*                                                                         *)
(* Repo.mu covers a whole method, so at most one edit (CommitAndPushFunc,  *)
(* DeleteAndPush or RestoreServiceFilesAndPush) is in progress; its        *)
(* progress is `phase', and the mutex is free exactly when phase = "free". *)
(* Pull and Snapshot are one step each: they hold the mutex throughout and *)
(* look at the remote once.                                                *)
(* An edit is several steps because the remote may move, the network may   *)
(* fail and the process may die between any two of them.                   *)
(*                                                                         *)
(* A commit is a number, its position in `made'.  It records the commits   *)
(* it descends from (itself included), so that "A is an ancestor of B" is  *)
(* a membership test.                                                      *)
(***************************************************************************)
EXTENDS Integers, Sequences, FiniteSets

CONSTANTS
    Files,          \* the configuration files
    Values,         \* what a file can hold
    Malformed,      \* the values that the parser refuses
    NoFile,         \* the content of a path where there is no file
    InitialTrees,   \* what the branch may hold when the server is first started
    Requests,       \* the edits that clients ask for, see Request
    NoRequest,
    MaxPushRetries, \* maxPushRetries
    Budget          \* how often each fault and each outside event may happen

\* What the environment may do, each at most Budget[k] times:
\* "request"  a client starts a write        "outside"  someone else pushes
\* "net"      a fetch fails                  "push"     a push fails, its fate unknown
\* "disk"     a local file operation fails   "reset"    the hard reset cannot begin
\* "crash"    the process stops              "wipe"     ... and loses its disk
Events == {"request", "outside", "net", "push", "disk", "reset", "crash", "wipe"}

Blob == Values \cup {NoFile}
Tree == [Files -> Blob]
EmptyTree == [f \in Files |-> NoFile]

\* ChangeRequest, DeleteRequest, RevertPlan: the files to write or remove and the
\* ones the content builder must parse before it can (secrets.yaml).
IsRequest(r) ==
    /\ DOMAIN r = {"kind", "edit", "reads"}
    /\ r.kind \in {"write", "delete", "restore"}
    /\ DOMAIN r.edit \subseteq Files
    /\ DOMAIN r.edit # {}
    /\ \A f \in DOMAIN r.edit : r.edit[f] \in Blob
    /\ r.kind = "write"  => \A f \in DOMAIN r.edit : r.edit[f] # NoFile
    /\ r.kind = "delete" => \A f \in DOMAIN r.edit : r.edit[f] = NoFile
    /\ r.reads \subseteq Files

ASSUME GitRepoAssumption ==
    /\ NoFile \notin Values
    /\ Malformed \subseteq Values
    /\ InitialTrees \subseteq Tree
    /\ \A r \in Requests : IsRequest(r)
    /\ NoRequest \notin Requests
    /\ MaxPushRetries \in Nat \ {0}
    /\ Budget \in [Events -> Nat]

VARIABLES
    made,       \* every commit ever made, here or elsewhere
    remote,     \* head of the branch on the remote
    local,      \* HEAD of the local clone, 0 when there is no clone
    index,      \* the staged tree
    work,       \* the working tree
    phase,      \* progress of the edit that holds Repo.mu, "free" if none does
    attempt,    \* its retry counter
    request,    \* what it was asked to do
    budget      \* what is left of Budget

repoVars == <<made, remote, local, index, work, phase, attempt, request, budget>>
checkout == <<local, index, work>>
editVars == <<phase, attempt, request>>

Commit == [parent : Nat, anc : SUBSET Nat, tree : Tree, by : Requests \cup {NoRequest}]
Commits == 1..Len(made)

Phases == {"free", "pull", "stage", "commit", "push", "undo", "undoRetry", "ok", "error"}

RepoTypeOK ==
    /\ made \in Seq(Commit) /\ made # <<>>
    /\ remote \in Commits
    /\ local \in Commits \cup {0}
    /\ index \in Tree
    /\ work \in Tree
    /\ phase \in Phases
    /\ attempt \in 0..MaxPushRetries-1
    /\ request \in Requests \cup {NoRequest}
    /\ budget \in [Events -> Nat]

\* a is b or an ancestor of b
Reaches(b, a) == a \in made[b].anc

HeadTree == made[local].tree

Spend(k) == budget[k] > 0 /\ budget' = [budget EXCEPT ![k] = @ - 1]

RepoInit ==
    \E t \in InitialTrees :
        /\ made = <<[parent |-> 0, anc |-> {1}, tree |-> t, by |-> NoRequest]>>
        /\ remote = 1
        /\ local = 0
        /\ index = EmptyTree
        /\ work = EmptyTree
        /\ phase = "free" /\ attempt = 0 /\ request = NoRequest
        /\ budget = Budget

(***************************************************************************)
(* What go-git and the remote do (external).                               *)
(***************************************************************************)
NewCommit(base, tree, who) ==
    [parent |-> base,
     anc    |-> made[base].anc \cup {Len(made) + 1},
     tree   |-> tree,
     by     |-> who]

\* Another committer pushes to the branch: any one file, any content.
OutsidePush ==
    /\ Spend("outside")
    /\ \E f \in Files, v \in Blob :
        /\ v # made[remote].tree[f]
        /\ made' = Append(made, NewCommit(remote, [made[remote].tree EXCEPT ![f] = v], NoRequest))
    /\ remote' = Len(made')
    /\ UNCHANGED <<checkout, editVars>>

\* A tracked file differs from its staged content.
Unstaged == \E f \in Files : index[f] # NoFile /\ work[f] # index[f]

\* HEAD, the index and the files become those of c; what the library does to an
\* untracked file that c does not have either depends on its release.
CheckOut(c) ==
    /\ local' = c
    /\ index' = made[c].tree
    /\ \E spared \in {{}, {f \in Files : index[f] = NoFile /\ made[c].tree[f] = NoFile}} :
          work' = [f \in Files |-> IF f \in spared THEN work[f] ELSE made[c].tree[f]]

\* The same, stopped by a failing file operation or by the end of the process once
\* HEAD has moved: before the index is written, or with some files still to do.
HalfCheckOut(c) ==
    /\ local' = c
    /\ \/ UNCHANGED <<index, work>>
       \/ /\ index' = made[c].tree
          /\ \E left \in SUBSET Files :
                work' = [f \in Files |-> IF f \in left THEN work[f] ELSE made[c].tree[f]]

\* Worktree.PullContext, by its result.  A fetch that finds nothing new leaves a
\* dirty worktree alone; one that fast-forwards moves HEAD before it looks at the
\* worktree, and gives up there if a tracked file is unstaged.
PullUpToDate == Reaches(local, remote) /\ UNCHANGED <<checkout, budget>>

Behind == ~Reaches(local, remote) /\ Reaches(remote, local)

PullForward ==
    /\ Behind
    /\ ~Unstaged
    /\ CheckOut(remote)
    /\ UNCHANGED budget

PullOk == PullUpToDate \/ PullForward

PullTorn ==
    /\ Behind
    /\ Unstaged
    /\ local' = remote
    /\ UNCHANGED <<index, work, budget>>

PullHalfDone ==
    /\ Behind
    /\ ~Unstaged
    /\ Spend("disk")
    /\ HalfCheckOut(remote)

PullDiverged ==
    /\ ~Reaches(local, remote) /\ ~Reaches(remote, local)
    /\ UNCHANGED <<checkout, budget>>

PullUnreachable == Spend("net") /\ UNCHANGED checkout

PullError == PullTorn \/ PullHalfDone \/ PullDiverged \/ PullUnreachable

(***************************************************************************)
(* Repo methods that are one step.                                         *)
(***************************************************************************)
\* CloneOrOpen: a directory that already holds a clone is only opened.
CloneOrOpen ==
    /\ phase = "free"
    /\ IF local = 0 THEN CheckOut(remote) ELSE UNCHANGED checkout
    /\ UNCHANGED <<made, remote, editVars, budget>>

CloneFails ==
    /\ phase = "free"
    /\ local = 0
    /\ Spend("net")
    /\ UNCHANGED <<made, remote, checkout, editVars>>

\* Pull: HEAD before, fetch and merge, HEAD after.
Pull ==
    /\ phase = "free"
    /\ PullOk
    /\ UNCHANGED <<made, remote, editVars>>

HeadMoved == local' # local

PullFails ==
    /\ phase = "free"
    /\ PullError
    /\ UNCHANGED <<made, remote, editVars>>

\* Slip: drift is not looked for.
NotChecked == TRUE

\* assertConfigsCleanUnlocked
Clean == index = HeadTree /\ work = index

\* Snapshot: HEAD and the files on disk, refused if the two may disagree.
SnapshotOk == phase = "free" /\ Clean

(***************************************************************************)
(* CommitAndPushFunc and DeleteAndPush, step by step.                      *)
(***************************************************************************)
BeginEdit(r) ==
    /\ phase = "free"
    /\ phase' = "pull" /\ attempt' = 0 /\ request' = r
    /\ UNCHANGED <<made, remote, checkout>>

\* The pull at the head of every attempt.
PreCommitPull ==
    /\ phase = "pull"
    /\ \/ PullOk /\ phase' = "stage"
       \/ PullError /\ phase' = "error"
    /\ UNCHANGED <<made, remote, attempt, request>>

BuildFails == \E f \in request.reads : work[f] \in Malformed

Edited(tree, fs) == [f \in Files |-> IF f \in fs THEN request.edit[f] ELSE tree[f]]

\* The loop that edits the files and stages each of them stops at the first
\* error.  What it did before stays; up to `spill' files are changed on disk but
\* not staged.
StageAll ==
    /\ index' = Edited(index, DOMAIN request.edit)
    /\ work'  = Edited(work, DOMAIN request.edit)
    /\ phase' = "commit"
    /\ UNCHANGED budget

PartlyEdited(spill) ==
    \E done \in SUBSET DOMAIN request.edit :
    \E torn \in SUBSET (DOMAIN request.edit \ done) :
        /\ done # DOMAIN request.edit
        /\ Cardinality(torn) <= spill
        /\ index' = Edited(index, done)
        /\ work'  = Edited(work, done \cup torn)

StagePartly(spill) ==
    /\ Spend("disk")
    /\ PartlyEdited(spill)
    /\ phase' = "error"

\* CommitAndPushFunc: build the contents from the pulled worktree, write, stage.
StageWrites ==
    /\ phase = "stage" /\ request.kind = "write"
    /\ \/ BuildFails /\ phase' = "error" /\ UNCHANGED <<index, work, budget>>
       \/ ~BuildFails /\ (StageAll \/ StagePartly(1))
    /\ UNCHANGED <<made, remote, local, attempt, request>>

\* A removal that cannot be staged is only logged, and the files of a directory
\* that is gone from the disk are not looked for in the index.
StageSomeRemovals ==
    \E kept \in SUBSET DOMAIN request.edit :
        /\ IF \A f \in kept : work[f] = NoFile THEN UNCHANGED budget ELSE Spend("disk")
        /\ index' = Edited(index, DOMAIN request.edit \ kept)
        /\ work' = Edited(work, DOMAIN request.edit)
        /\ phase' = "commit"

\* DeleteAndPush: remove each path, which may be a directory, and stage that.
StageRemovals ==
    /\ phase = "stage" /\ request.kind = "delete"
    /\ StageSomeRemovals \/ StagePartly(Cardinality(DOMAIN request.edit))
    /\ UNCHANGED <<made, remote, local, attempt, request>>

\* Slip: files that the target does not have stay where they are.
StageRestoreKeepsRest ==
    /\ phase = "stage" /\ request.kind = "restore"
    /\ LET written == {f \in DOMAIN request.edit : request.edit[f] # NoFile}
       IN  index' = Edited(index, written) /\ work' = Edited(work, written)
    /\ phase' = "commit"
    /\ UNCHANGED <<made, remote, local, attempt, request, budget>>

\* RestoreServiceFilesAndPush removes the service's files that the target does not
\* have, as far as it finds them in the worktree, and writes the others.
StageRestored ==
    LET removals == {f \in DOMAIN request.edit : request.edit[f] = NoFile}
        unseen   == {f \in removals : work[f] = NoFile}
    IN  \E kept \in SUBSET removals :
            /\ unseen \subseteq kept
            /\ IF kept = unseen THEN UNCHANGED budget ELSE Spend("disk")
            /\ index' = Edited(index, DOMAIN request.edit \ kept)
            /\ work' = Edited(work, DOMAIN request.edit)
            /\ phase' = "commit"

StageRestore ==
    /\ phase = "stage" /\ request.kind = "restore"
    /\ StageRestored \/ StagePartly(Cardinality(DOMAIN request.edit))
    /\ UNCHANGED <<made, remote, local, attempt, request>>

\* Worktree.Commit.  With nothing staged it makes no commit, and the edit
\* succeeds with the present HEAD.
CommitStaged ==
    /\ phase = "commit"
    /\ \/ /\ index = HeadTree
          /\ phase' = "ok"
          /\ UNCHANGED <<made, local, budget>>
       \/ /\ index # HeadTree
          /\ made' = Append(made, NewCommit(local, index, request))
          /\ local' = Len(made')
          /\ phase' = "push"
          /\ UNCHANGED budget
       \/ /\ Spend("disk")
          /\ phase' = "error"
          /\ UNCHANGED <<made, local>>
    /\ UNCHANGED <<remote, index, work, attempt, request>>

\* Slips: a push that failed is taken for one that went through; a forced push.
PushUnchecked ==
    /\ phase = "push"
    /\ \/ Reaches(local, remote) /\ remote' = local /\ UNCHANGED budget
       \/ Spend("push") /\ UNCHANGED remote
    /\ phase' = "ok"
    /\ UNCHANGED <<made, checkout, attempt, request>>

PushForced ==
    /\ phase = "push"
    /\ remote' = local
    /\ phase' = "ok"
    /\ UNCHANGED <<made, checkout, attempt, request, budget>>

\* PushContext: accepted; refused because the remote has moved; or failed, in
\* which case the remote may have taken the commit all the same.
Push ==
    /\ phase = "push"
    /\ \/ /\ Reaches(local, remote)
          /\ remote' = local
          /\ phase' = "ok"
          /\ UNCHANGED budget
       \/ /\ ~Reaches(local, remote)
          /\ phase' = "undoRetry"
          /\ UNCHANGED <<remote, budget>>
       \/ /\ Spend("push")
          /\ phase' = "undo"
          /\ remote' \in {remote} \cup (IF Reaches(local, remote) THEN {local} ELSE {})
    /\ UNCHANGED <<made, checkout, attempt, request>>

\* Slips: a soft reset; no reset.
SoftReset ==
    /\ local' = made[local].parent
    /\ UNCHANGED <<index, work, budget>>

NoReset == UNCHANGED <<checkout, budget>>

\* resetToParent
ResetToParent ==
    /\ CheckOut(made[local].parent)
    /\ UNCHANGED budget

\* It cannot read the commit or its parent, or fails to move HEAD; or HEAD goes back
\* and the index, or some of the files, stay at the commit that was not pushed.
ResetFails ==
    \/ Spend("reset") /\ UNCHANGED checkout
    \/ Spend("disk") /\ HalfCheckOut(made[local].parent)

\* After a failed push the outcome of the reset is only logged.
UndoTerminal ==
    /\ phase = "undo"
    /\ ResetToParent \/ ResetFails
    /\ phase' = "error"
    /\ UNCHANGED <<made, remote, attempt, request>>

\* Slip: one attempt too many.
UndoAndRetryOnceMore ==
    /\ phase = "undoRetry"
    /\ ResetToParent
    /\ IF attempt < MaxPushRetries
       THEN phase' = "pull" /\ attempt' = attempt + 1
       ELSE phase' = "error" /\ UNCHANGED attempt
    /\ UNCHANGED <<made, remote, request>>

\* After a refused push the loop goes round again, MaxPushRetries times in all.
UndoAndRetry ==
    /\ phase = "undoRetry"
    /\ \/ /\ ResetToParent
          /\ IF attempt + 1 < MaxPushRetries
             THEN phase' = "pull" /\ attempt' = attempt + 1
             ELSE phase' = "error" /\ UNCHANGED attempt
       \/ ResetFails /\ phase' = "error" /\ UNCHANGED attempt
    /\ UNCHANGED <<made, remote, request>>

EditStep ==
    \/ PreCommitPull \/ StageWrites \/ StageRemovals \/ StageRestore
    \/ CommitStaged \/ Push \/ UndoTerminal \/ UndoAndRetry

\* The method returns and Repo.mu is released.
EndEdit ==
    /\ phase' = "free" /\ attempt' = 0 /\ request' = NoRequest
    /\ UNCHANGED <<made, remote, checkout, budget>>

\* The process stops: the mutex goes, and the checkout stays as it is at that
\* moment, in the middle of an edit's loop, or of a pull or a reset that has moved
\* HEAD and not yet all of the files.
CrashedCheckout ==
    \/ UNCHANGED checkout
    \/ /\ phase = "stage" /\ ~BuildFails
       /\ PartlyEdited(Cardinality(DOMAIN request.edit))
       /\ UNCHANGED local
    \/ /\ phase \in {"free", "pull"} /\ local # 0 /\ Behind
       /\ IF Unstaged THEN local' = remote /\ UNCHANGED <<index, work>> ELSE HalfCheckOut(remote)
    \/ /\ phase \in {"undo", "undoRetry"}
       /\ HalfCheckOut(made[local].parent)

\* Or the volume is lost with the process.
RepoCrash ==
    /\ \/ Spend("crash") /\ CrashedCheckout
       \/ Spend("wipe") /\ local' = 0 /\ index' = EmptyTree /\ work' = EmptyTree
    /\ phase' = "free" /\ attempt' = 0 /\ request' = NoRequest
    /\ UNCHANGED <<made, remote>>

=============================================================================
