---------------------------- MODULE ServedHistory ----------------------------
(***************************************************************************)
(* What the config server promises to those who read from it, whatever     *)
(* goes on between it and the remote: a reader is shown the content of one *)
(* published version, and from one look to the next only later ones.       *)
(***************************************************************************)
CONSTANTS Versions, Trees, NoVersion, NoView

VARIABLES
    published,  \* the versions on the branch, with those before them and the content
    served,     \* the version shown, NoVersion before the first load
    view        \* the content shown

vars == <<published, served, view>>

IsVersion(v) == v \in Versions /\ v # NoVersion

Init ==
    /\ \E v \in DOMAIN published : published = [x \in {v} |-> [before |-> {}, tree |-> published[v].tree]]
    /\ \A v \in DOMAIN published : IsVersion(v) /\ published[v].tree \in Trees
    /\ served = NoVersion
    /\ view = NoView

\* One more version, by whoever writes to the branch, after all the others.
Publish ==
    /\ \E v \in DOMAIN published' \ DOMAIN published :
          /\ IsVersion(v)
          /\ published'[v].before = DOMAIN published
          /\ published'[v].tree \in Trees
          /\ DOMAIN published' = DOMAIN published \cup {v}
    /\ \A x \in DOMAIN published : published'[x] = published[x]
    /\ UNCHANGED <<served, view>>

\* Readers are moved on to a later version; any number may be skipped.
Serve ==
    /\ \E v \in DOMAIN published :
          /\ served \in published[v].before \cup {v, NoVersion}
          /\ served' = v
          /\ view' = published[v].tree
    /\ UNCHANGED published

\* A restart shows nothing until it has loaded again.
Restart ==
    /\ served' = NoVersion
    /\ view' = NoView
    /\ UNCHANGED published

Next == Publish \/ Serve \/ Restart

Spec == Init /\ [][Next]_vars

=============================================================================
