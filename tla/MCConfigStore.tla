---------------------------- MODULE MCConfigStore ----------------------------
(* ConfigStore on a small instance; each cfg picks one budget. *)
EXTENDS ConfigStore, TLC

CONSTANTS f1, f2, good, bad, w

Put(f)     == [kind |-> "write", edit |-> (f :> good), reads |-> {}]
PutBoth    == [kind |-> "write", edit |-> [f \in Files |-> good], reads |-> {}]
PutSecret  == [kind |-> "write", edit |-> (f2 :> good), reads |-> {f2}]
RemoveBoth == [kind |-> "delete", edit |-> [f \in Files |-> NoFile], reads |-> {}]

NetworkRequests == {Put(f1), PutSecret, RemoveBoth}

Quota(used) == [k \in Events |-> IF k \in DOMAIN used THEN used[k] ELSE 0]

OneFile == {[f \in Files |-> IF f = f1 THEN good ELSE NoFile]}

\* Two writes, others pushing, an unreliable network; local disk and process hold.
NetworkBudget == Quota([request |-> 2, outside |-> 2, net |-> 1, push |-> 1])

\* Everything may fail.
FaultBudget == Quota([request |-> 2, outside |-> 1, push |-> 1, disk |-> 1,
                      reset |-> 1, crash |-> 1])

OneWrite == {Put(f1)}

\* One write that fails after its pull moved HEAD.
StaleBudget == Quota([request |-> 1, outside |-> 1, push |-> 1])

\* A delete, asked for again after the process died under the first one.
CrashBudget == Quota([request |-> 2, crash |-> 1])
DeleteRequests == {RemoveBoth}
=============================================================================
