------------------------------ MODULE BoundedRun ------------------------------
(***************************************************************************)
(* What a fixed-count capture campaign promises, whatever goes wrong: its  *)
(* captures are accepted one at a time, it passes only when all Count of   *)
(* them were accepted, its verdict is final, and nothing is accepted after *)
(* the verdict.                                                            *)
(***************************************************************************)
EXTENDS Naturals

CONSTANT Count      \* number of captures asked for

VARIABLES accepted, verdict

Init == accepted = 0 /\ verdict = "open"

Accept ==
    /\ verdict = "open" /\ accepted < Count
    /\ accepted' = accepted + 1
    /\ UNCHANGED verdict

Pass ==
    /\ verdict = "open" /\ accepted = Count
    /\ verdict' = "PASS"
    /\ UNCHANGED accepted

Hold ==
    /\ verdict = "open"
    /\ verdict' = "HOLD"
    /\ UNCHANGED accepted

Next == Accept \/ Pass \/ Hold

Spec == Init /\ [][Next]_<<accepted, verdict>>
=============================================================================
