--------------------------- MODULE MCReceiptLedger ---------------------------
(* Symmetry of the sealers and receipts of the receipt lane. *)
EXTENDS ReceiptLedger, TLC

Symmetry == Permutations(Sealers) \cup Permutations(Receipts)
=============================================================================
