--------------------------- MODULE CrossRepoIngest ---------------------------
(***************************************************************************)
(* The cross-repository receipt ingestor (eve_q/cross_repo_ingestor.py):   *)
(* ingest_batch validates each receipt file of the source directory,       *)
(* writes a copy named after the receipt's cycle_id, then, if a governance *)
(* gate is configured and shadow mode is off, asks the gate and unlinks    *)
(* the copy unless it approved.                                            *)
(*                                                                         *)
(* Between the write and the answer the copy is already there.  The write  *)
(* or the unlink may fail, the gate may answer anything, the process may   *)
(* die; the batch may be run again over the same files.                    *)
(***************************************************************************)
EXTENDS Naturals, Sequences, SequencesExt

CONSTANTS
    Sources,        \* receipt files
    Order,          \* the files in the order of sorted(glob("*.json"))
    Receipts,       \* the receipts the files may hold
    MaxBatches,     \* bound: runs of ingest_batch
    MaxFaults       \* bound: failed writes and unlinks, and crashes

Nobody == "none"        \* no file
Torn == "torn"          \* half of a copy

IngestAssumption ==
    /\ Order \in Seq(Sources) /\ \A s \in Sources : \E n \in 1 .. Len(Order) : Order[n] = s
    /\ Nobody \notin Sources /\ Torn \notin Sources

VARIABLES
    governed,   \* governance_gate_url is set and shadow_mode is off
    checking,   \* validate_merkle_proofs
    strict,     \* require_production_eligible
    receipt,    \* what each source file holds
    target,     \* per cycle_id: the source whose copy is there, Torn or Nobody
    pending,    \* files of the running batch still to ingest
    querying,   \* the file whose gate query is under way, or Nobody
    outcome,    \* per file: its result in the latest batch
    approved,   \* history: files whose latest query was approved
    refused,    \* history: files whose latest query was not
    writer,     \* history: per cycle_id, the file that wrote its copy last
    leftovers,  \* history: cycle_ids a fault has left a copy of
    batches,    \* batches so far
    faults      \* faults so far

config == <<governed, checking, strict, receipt>>
history == <<approved, refused, writer, leftovers>>
vars == <<config, target, pending, querying, outcome, history, batches, faults>>

Ids == {r.id : r \in Receipts}
Id(s) == receipt[s].id

\* validate_receipt_json: required fields, a safe cycle_id and a known mode
\* (wellFormed), the 15% share, production eligibility, and no execution whose
\* charity transfer failed.
ReceiptSound(r) ==
    /\ r.wellFormed /\ r.charity = "exact"
    /\ r.executed => r.charityPaid
    /\ strict => r.eligible

\* validate_merkle_proof: no proof at all, or a complete one bound to the root.
ProofSound(r) == checking => r.proof \in {"none", "bound"}

Valid(s) == ReceiptSound(receipt[s]) /\ ProofSound(receipt[s])

Running == pending # <<>> \/ querying # Nobody

Init ==
    /\ governed \in BOOLEAN /\ checking \in BOOLEAN /\ strict \in BOOLEAN
    /\ receipt \in [Sources -> Receipts]
    /\ target = [i \in Ids |-> Nobody] /\ writer = [i \in Ids |-> Nobody]
    /\ pending = <<>> /\ querying = Nobody
    /\ outcome = [s \in Sources |-> "none"]
    /\ approved = {} /\ refused = {} /\ leftovers = {} /\ batches = 0 /\ faults = 0

StartBatch ==
    /\ ~Running /\ batches < MaxBatches
    /\ batches' = batches + 1
    /\ pending' = Order
    /\ outcome' = [s \in Sources |-> "none"]
    /\ UNCHANGED <<config, target, querying, history, faults>>

\* ingest_receipt_file returns the result of the head of the batch.
Ends(s, result) ==
    /\ outcome' = [outcome EXCEPT ![s] = result]
    /\ pending' = Tail(pending)

\* A file that is no bounded regular JSON object, or an invalid receipt.
Reject ==
    /\ pending # <<>> /\ querying = Nobody /\ ~Valid(Head(pending))
    /\ Ends(Head(pending), "failed")
    /\ UNCHANGED <<config, target, querying, history, batches, faults>>

Ingest ==
    /\ pending # <<>> /\ querying = Nobody /\ Valid(Head(pending))
    /\ LET s == Head(pending) IN
       /\ target' = [target EXCEPT ![Id(s)] = s]
       /\ writer' = [writer EXCEPT ![Id(s)] = s]
       /\ IF governed
          THEN querying' = s /\ UNCHANGED <<pending, outcome, leftovers>>
          ELSE /\ Ends(s, "success") /\ leftovers' = leftovers \ {Id(s)}
               /\ UNCHANGED querying
    /\ UNCHANGED <<config, approved, refused, batches, faults>>

\* write_text fails: before it opened the file, or after it truncated it.
WriteFails ==
    /\ pending # <<>> /\ querying = Nobody /\ Valid(Head(pending))
    /\ faults < MaxFaults /\ faults' = faults + 1
    /\ LET s == Head(pending) IN
       /\ \/ target' = [target EXCEPT ![Id(s)] = Torn] /\ leftovers' = leftovers \cup {Id(s)}
          \/ UNCHANGED <<target, leftovers>>
       /\ writer' = [writer EXCEPT ![Id(s)] = s]
       /\ Ends(s, "failed")
    /\ UNCHANGED <<config, querying, approved, refused, batches>>

Approve ==
    /\ querying # Nobody
    /\ approved' = approved \cup {querying} /\ refused' = refused \ {querying}
    /\ leftovers' = leftovers \ {Id(querying)}
    /\ Ends(querying, "success")
    /\ querying' = Nobody
    /\ UNCHANGED <<config, target, writer, batches, faults>>

\* Mutated form: the copy is kept for a later decision.
Deny_KeepsCopy ==
    /\ querying # Nobody
    /\ approved' = approved \ {querying} /\ refused' = refused \cup {querying}
    /\ Ends(querying, "failed")
    /\ querying' = Nobody
    /\ UNCHANGED <<config, target, writer, leftovers, batches, faults>>

\* The gate says no, answers with another status, or cannot be reached in time.
Deny ==
    /\ querying # Nobody
    /\ approved' = approved \ {querying} /\ refused' = refused \cup {querying}
    /\ target' = [target EXCEPT ![Id(querying)] = Nobody]
    /\ leftovers' = leftovers \ {Id(querying)}
    /\ Ends(querying, "failed")
    /\ querying' = Nobody
    /\ UNCHANGED <<config, writer, batches, faults>>

\* Not approved, and unlink raises OSError: only the result says so.
UnlinkFails ==
    /\ querying # Nobody /\ faults < MaxFaults /\ faults' = faults + 1
    /\ approved' = approved \ {querying} /\ refused' = refused \cup {querying}
    /\ leftovers' = leftovers \cup {Id(querying)}
    /\ Ends(querying, "failed")
    /\ querying' = Nobody
    /\ UNCHANGED <<config, target, writer, batches>>

\* The gate answers 200 with JSON that is no object: "data.get" raises
\* AttributeError, which neither handler catches, and the batch is abandoned.
AnswerNotAnObject ==
    /\ querying # Nobody
    /\ approved' = approved \ {querying} /\ refused' = refused \cup {querying}
    /\ leftovers' = leftovers \cup {Id(querying)}
    /\ querying' = Nobody /\ pending' = <<>>
    /\ UNCHANGED <<config, target, outcome, writer, batches, faults>>

\* The process dies: while it writes a copy, while the gate is asked, or
\* between two files.
DieWriting ==
    /\ pending # <<>> /\ querying = Nobody /\ Valid(Head(pending))
    /\ LET s == Head(pending) IN
       /\ target' = [target EXCEPT ![Id(s)] = Torn]
       /\ writer' = [writer EXCEPT ![Id(s)] = s]
       /\ leftovers' = leftovers \cup {Id(s)}
    /\ UNCHANGED approved

DieAsking ==
    /\ querying # Nobody
    /\ leftovers' = leftovers \cup {Id(querying)}
    /\ approved' = approved \ {querying}
    /\ UNCHANGED <<target, writer>>

DieBetween ==
    /\ querying = Nobody
    /\ UNCHANGED <<target, writer, leftovers, approved>>

Crash ==
    /\ Running /\ faults < MaxFaults /\ faults' = faults + 1
    /\ DieWriting \/ DieAsking \/ DieBetween
    /\ querying' = Nobody /\ pending' = <<>>
    /\ outcome' = [s \in Sources |-> "none"]
    /\ UNCHANGED <<config, refused, batches>>

Step ==
    \/ Reject \/ Ingest \/ WriteFails
    \/ Approve \/ Deny \/ UnlinkFails \/ AnswerNotAnObject

Next == StartBatch \/ Step \/ Crash

Spec == Init /\ [][Next]_vars

-----------------------------------------------------------------------------
\* Outside a running batch every copy in the target directory was approved by
\* the gate in its latest ingestion, or a named fault left it there: whatever
\* the order of equal cycle_ids, denials and repeated batches, and although
\* each copy is written before the gate is asked.  A later batch that reaches
\* the receipt again removes what the fault left.
CopiesApproved ==
    governed /\ ~Running =>
        \A i \in Ids :
            target[i] \in Sources => target[i] \in approved \/ i \in leftovers

\* A success is backed by its copy, unless another file with the same cycle_id
\* was written after it.
SuccessHasCopy ==
    \A s \in Sources :
        outcome[s] = "success" /\ writer[Id(s)] = s => target[Id(s)] = s

\* No copy of an execution whose charity share failed or does not match is
\* ever written, not even while the gate is being asked.
UnsafeNeverStored ==
    \A i \in Ids : target[i] \in Sources =>
        LET r == receipt[target[i]]
        IN r.id = i /\ r.charity = "exact" /\ (r.executed => r.charityPaid)

\* The remediation record: the ingestor "fails closed when a non-shadow
\* governance query does not approve", so no copy remains of a receipt whose
\* query has ended without approval.
FailsClosed ==
    ~Running => \A s \in refused : target[Id(s)] # s
=============================================================================
