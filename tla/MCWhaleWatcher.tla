--------------------------- MODULE MCWhaleWatcher ---------------------------
(* Small chains for TLC: which assets have a whale transfer in which block. *)
EXTENDS WhaleWatcher

\* Transfers in both scans of block 0, the native scan of 1 and 3, a token of 2.
MixedWhales == [b \in Heights |-> IF b = 0 THEN {0, 1}
                                  ELSE IF b % 2 = 1 THEN {0} ELSE {1}]
=============================================================================
