------------------------------- MODULE MCRevert -------------------------------
(* Revert on a small instance: the service owns both files. *)
EXTENDS Revert, TLC

CONSTANTS f1, f2, good, bad, w

Put(f) == [kind |-> "write", edit |-> (f :> good), reads |-> {}]

AllRequests == {Put(f1)} \cup {Restore(tree) : tree \in [ServiceFiles -> {good, bad, NoFile}]}

Quota(used) == [k \in Events |-> IF k \in DOMAIN used THEN used[k] ELSE 0]

OneFile == {[f \in Files |-> IF f = f1 THEN good ELSE NoFile]}

\* Others push, a fetch fails, the process and its volume may go.
PollBudget == Quota([request |-> 1, outside |-> 2, net |-> 1, wipe |-> 1])
=============================================================================
