--------------------------- MODULE MCAlertDispatch ---------------------------
(* Model values for the alert dispatcher. *)
EXTENDS AlertDispatch
=============================================================================
