-------------------------- MODULE MCDirectoryWriters --------------------------
(* Values for TLC: the web of the capture, files and receipts of the ingestor. *)
EXTENDS DirectoryWriters, TLC

\* Three sound URLs on two allowlisted hosts and one URL for each refusal; one
\* private address sorts before the public one and one after it.
Good == [https |-> TRUE, credentials |-> FALSE, host |-> "api", port |-> 443, path |-> "/"]

Web == {Good, [Good EXCEPT !.path = "/v2"], [Good EXCEPT !.host = "mirror"],
        [Good EXCEPT !.https = FALSE], [Good EXCEPT !.credentials = TRUE],
        [Good EXCEPT !.host = "elsewhere"], [Good EXCEPT !.port = 8443]}

Symmetry == Permutations(Procs)

Files == {"a", "b", "c"}
Sorted == <<"a", "b", "c">>

\* Sound receipts of two cycles, and one receipt for each way of being refused.
Sound == [id |-> "x", wellFormed |-> TRUE, charity |-> "exact", executed |-> TRUE,
          charityPaid |-> TRUE, eligible |-> TRUE, proof |-> "bound"]

Corpus == {Sound,
           [Sound EXCEPT !.id = "y", !.proof = "none"],
           [Sound EXCEPT !.charityPaid = FALSE],
           [Sound EXCEPT !.charity = "off"],
           [Sound EXCEPT !.eligible = FALSE, !.proof = "mismatch"]}
=============================================================================
