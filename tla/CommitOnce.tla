------------------------------ MODULE CommitOnce ------------------------------
(* What writing a bundle promises ("Commit a complete bundle atomically or     *)
(* leave no target directory", gate1_readonly_runtime.py): the target is       *)
(* filled once and by one call, a call that reports success filled it, and a   *)
(* call that reports failure did not.                                          *)
CONSTANTS Callers, Nobody

VARIABLES
    owner,      \* the call whose complete bundle is the target
    outcome     \* how each call ended, or "open"

vars == <<owner, outcome>>

Init == owner = Nobody /\ outcome = [c \in Callers |-> "open"]

Commit(c) ==
    /\ owner = Nobody /\ outcome[c] = "open"
    /\ owner' = c
    /\ UNCHANGED outcome

End(c, result) ==
    /\ outcome[c] = "open"
    /\ result = "ok" => owner = c
    /\ result = "error" => owner # c
    /\ outcome' = [outcome EXCEPT ![c] = result]
    /\ UNCHANGED owner

Next ==
    \E c \in Callers : Commit(c) \/ \E r \in {"ok", "error", "died"} : End(c, r)

Spec == Init /\ [][Next]_vars
=============================================================================
