---------------------------- MODULE ReceiptLedger ----------------------------
(***************************************************************************)
(* The receipt lane: sealing (eve_q/immutable_receipts.py), the ledger     *)
(* audit (eve_q/receipt_ledger_audit.py), the Merkle anchor                *)
(* (eve_q/receipt_merkle_audit.py, eve_q/receipt_merkle_anchor.py) and the *)
(* completion gate (eve_q/capital_action_gate.py).                         *)
(*                                                                         *)
(* Each command is a process of its own and shares only the IPFS node, the *)
(* JSON-lines file and the packets the operator keeps: sealers run         *)
(* concurrently, and the file is read and then appended to without a lock. *)
(* The operator chooses previous_cid: nothing (the default) or the         *)
(* latest_cid of the audit packet at hand.                                 *)
(*                                                                         *)
(* A CID is the content of its envelope, that is the receipt and the       *)
(* previous CID, so it is modelled as the sequence of receipts it commits  *)
(* to; <<>> stands for None.                                               *)
(***************************************************************************)
EXTENDS Naturals, Sequences, SequencesExt

CONSTANTS
    Sealers,        \* processes running seal_receipt
    Receipts,       \* receipt payloads that pass validate_receipt_payload
    MaxSeals,       \* bound: calls of seal_receipt
    MaxFaults       \* bound: IPFS failures, lost answers and crashes

None == <<>>
NoPacket == [valid |-> FALSE, cids |-> <<>>, latest |-> None]
NoCertificate == [kind |-> "none", cid |-> None, source |-> None]

VARIABLES
    pinned,     \* CIDs pinned at the IPFS node
    ledger,     \* the readable lines of the ledger file
    torn,       \* the file ends in half a line
    pc,         \* where each sealer's call is
    draft,      \* its envelope: the CID and the previous CID
    number,     \* the sequence number it read for its entry
    seals,      \* calls so far
    faults,     \* faults so far
    sealed,     \* history: CIDs whose call returned IPFS_PINNED_VERIFIED
    packet,     \* the operator's latest audit packet
    merkle,     \* a Merkle audit between its two reads of the file
    anchors,    \* the Merkle anchor receipts built
    cert,       \* the latest completion certificate
    serial      \* history: no two calls overlapped, and each call chained on
                \* the entry that was the latest when it began

call == <<pc, draft, number>>
audits == <<packet, merkle, anchors, cert>>
vars == <<pinned, ledger, torn, call, seals, faults, sealed, audits, serial>>

Cid(receipt, previous) == Append(previous, receipt)

NoDraft == [cid |-> None, previous |-> None]

LatestCid(entries) == IF entries = <<>> THEN None ELSE Last(entries).cid

\* Mutated form: the chain of previous CIDs is not followed.
AuditValid_NoChain(entries) ==
    \A i \in 1 .. Len(entries) : entries[i].sequence = i

\* audit_receipt_ledger: the sequence numbers count up and each entry names
\* the CID of the entry before it.
AuditValid(entries) ==
    \A i \in 1 .. Len(entries) :
        /\ entries[i].sequence = i
        /\ entries[i].previous = IF i = 1 THEN None ELSE entries[i - 1].cid

Packet(entries) ==
    [valid |-> AuditValid(entries),
     cids |-> [i \in 1 .. Len(entries) |-> entries[i].cid],
     latest |-> LatestCid(entries)]

-----------------------------------------------------------------------------
Init ==
    /\ pinned = {} /\ ledger = <<>> /\ torn = FALSE
    /\ pc = [s \in Sealers |-> "idle"] /\ draft = [s \in Sealers |-> NoDraft]
    /\ number = [s \in Sealers |-> 0] /\ seals = 0 /\ faults = 0
    /\ sealed = {} /\ packet = NoPacket /\ merkle = <<>>
    /\ anchors = {} /\ cert = NoCertificate /\ serial = TRUE

\* build_receipt_envelope, with the previous CID the operator passes.
Begin(s, receipt, previous) ==
    /\ pc[s] = "idle" /\ seals < MaxSeals
    /\ seals' = seals + 1
    /\ pc' = [pc EXCEPT ![s] = "add"]
    /\ draft' = [draft EXCEPT ![s] = [cid |-> Cid(receipt, previous), previous |-> previous]]
    /\ serial' = /\ serial
                 /\ previous = LatestCid(ledger)
                 /\ \A u \in Sealers : pc[u] = "idle"
    /\ UNCHANGED <<pinned, ledger, torn, number, faults, sealed, audits>>

GoTo(s, next) == pc' = [pc EXCEPT ![s] = next]

\* The call has returned, raised or died.
Finish(s) ==
    /\ pc' = [pc EXCEPT ![s] = "idle"]
    /\ draft' = [draft EXCEPT ![s] = NoDraft]
    /\ number' = [number EXCEPT ![s] = 0]

Pin(s) ==
    /\ pc[s] = "add"
    /\ pinned' = pinned \cup {draft[s].cid}
    /\ GoTo(s, "verify")
    /\ UNCHANGED <<draft, number, ledger, torn, seals, faults, sealed, audits, serial>>

\* is_pinned and the comparison of the bytes that cat returns.
Verify(s) ==
    /\ pc[s] = "verify"
    /\ draft[s].cid \in pinned
    /\ GoTo(s, "read")
    /\ UNCHANGED <<draft, number, pinned, ledger, torn, seals, faults, sealed, audits, serial>>

\* Mutated form: the next sequence number starts from zero.
ReadLength_FromZero(s) ==
    /\ pc[s] = "read" /\ ~torn
    /\ GoTo(s, "append")
    /\ number' = [number EXCEPT ![s] = Len(ledger)]
    /\ UNCHANGED <<draft, pinned, ledger, torn, seals, faults, sealed, audits, serial>>

\* append_event reads the file to number its entry.
ReadLength(s) ==
    /\ pc[s] = "read" /\ ~torn
    /\ GoTo(s, "append")
    /\ number' = [number EXCEPT ![s] = Len(ledger) + 1]
    /\ UNCHANGED <<draft, pinned, ledger, torn, seals, faults, sealed, audits, serial>>

Entry(s) ==
    [sequence |-> number[s], cid |-> draft[s].cid, previous |-> draft[s].previous]

\* append_event appends the line.  After half a line of another process the
\* new one is glued to it and can never be read, yet the call succeeds.
AppendEntry(s) ==
    /\ pc[s] = "append"
    /\ ledger' = IF torn THEN ledger ELSE Append(ledger, Entry(s))
    /\ sealed' = sealed \cup {draft[s].cid}
    /\ Finish(s)
    /\ UNCHANGED <<pinned, torn, seals, faults, audits, serial>>

\* Mutated form: a failed verification does not stop the call.
Fail_GoesOn(s, reached) ==
    /\ pc[s] \in {"add", "verify", "read"}
    /\ faults < MaxFaults /\ faults' = faults + 1
    /\ pinned' = IF reached THEN pinned \cup {draft[s].cid} ELSE pinned
    /\ GoTo(s, IF pc[s] = "read" THEN "idle" ELSE "read")
    /\ UNCHANGED <<draft, number, ledger, torn, seals, sealed, audits, serial>>

\* The call raises or its process is killed before the append; the node may
\* have pinned the object although its answer never came.
Fail(s, reached) ==
    /\ pc[s] \in {"add", "verify", "read"}
    /\ faults < MaxFaults /\ faults' = faults + 1
    /\ pinned' = IF reached THEN pinned \cup {draft[s].cid} ELSE pinned
    /\ Finish(s)
    /\ UNCHANGED <<ledger, torn, seals, sealed, audits, serial>>

\* The file does not parse: append_event raises before it writes.
Unreadable(s) ==
    /\ pc[s] = "read" /\ torn
    /\ Finish(s)
    /\ UNCHANGED <<pinned, ledger, torn, seals, faults, sealed, audits, serial>>

\* The process dies about the write: nothing, half the line or the whole line
\* is in the file, and the operator never sees a result.
DieAppending(s, written) ==
    /\ pc[s] = "append"
    /\ faults < MaxFaults /\ faults' = faults + 1
    /\ ledger' = IF written = "all" /\ ~torn THEN Append(ledger, Entry(s)) ELSE ledger
    /\ torn' = (torn \/ written = "half")
    /\ Finish(s)
    /\ UNCHANGED <<pinned, seals, sealed, audits, serial>>

\* audit_receipt_ledger; a file that does not parse raises.
Audit ==
    /\ ~torn
    /\ packet' = Packet(ledger)
    /\ UNCHANGED <<pinned, ledger, torn, call, seals, faults, sealed, merkle, anchors, cert, serial>>

\* build_receipt_merkle_audit: the leaves come from one read of the file, ...
MerkleLeaves ==
    /\ ~torn /\ merkle = <<>> /\ ledger # <<>>
    /\ merkle' = ledger
    /\ UNCHANGED <<pinned, ledger, torn, call, seals, faults, sealed, packet, anchors, cert, serial>>

\* Mutated form: the root is anchored whatever the audit says.
MerkleAnchor_Unaudited ==
    /\ ~torn /\ merkle # <<>>
    /\ anchors' = anchors \cup {[leaves |-> merkle, latest |-> LatestCid(ledger)]}
    /\ merkle' = <<>>
    /\ UNCHANGED <<pinned, ledger, torn, call, seals, faults, sealed, packet, cert, serial>>

\* ... its verdict and latest_cid from the audit's own, later read; a valid
\* packet becomes an anchor receipt (build_merkle_anchor_receipt), sealed in a
\* ledger of its own the way any receipt is.
MerkleAnchor ==
    /\ ~torn /\ merkle # <<>>
    /\ anchors' = IF AuditValid(ledger)
                  THEN anchors \cup {[leaves |-> merkle, latest |-> LatestCid(ledger)]}
                  ELSE anchors
    /\ merkle' = <<>>
    /\ UNCHANGED <<pinned, ledger, torn, call, seals, faults, sealed, packet, cert, serial>>

Certificate(kind, cid, source) == [kind |-> kind, cid |-> cid, source |-> source]

\* Mutated form: membership in the audited ledger is not checked.
Certify_NoMembership(kind, cid, source) ==
    /\ packet.valid
    /\ cid # None
    /\ kind = "charity_tx" => source # None
    /\ cert' = Certificate(kind, cid, source)
    /\ UNCHANGED <<pinned, ledger, torn, call, seals, faults, sealed, packet, merkle, anchors, serial>>

\* build_completion_certificate with the packet at hand, however old; the
\* source of a charity transaction only has to be given.
Certify(kind, cid, source) ==
    /\ packet.valid
    /\ cid # None /\ cid \in ToSet(packet.cids)
    /\ kind = "charity_tx" => source # None
    /\ cert' = Certificate(kind, cid, source)
    /\ UNCHANGED <<pinned, ledger, torn, call, seals, faults, sealed, packet, merkle, anchors, serial>>

Next ==
    \/ \E s \in Sealers :
        \/ \E r \in Receipts, previous \in {None, packet.latest} : Begin(s, r, previous)
        \/ Pin(s)
        \/ Verify(s)
        \/ ReadLength(s)
        \/ AppendEntry(s)
        \/ \E reached \in BOOLEAN : Fail(s, reached)
        \/ Unreadable(s)
        \/ \E written \in {"none", "half", "all"} : DieAppending(s, written)
    \/ Audit
    \/ MerkleLeaves
    \/ MerkleAnchor
    \/ \E kind \in {"trade", "charity_tx"}, cid, source \in pinned \cup {None} :
           Certify(kind, cid, source)

Spec == Init /\ [][Next]_vars

-----------------------------------------------------------------------------
\* An entry of the ledger always names an object the node has pinned: the pin
\* is verified before the entry is written, whatever fails in between.
EntriesPinned == \A i \in 1 .. Len(ledger) : ledger[i].cid \in pinned

InLedger(cid) == \E i \in 1 .. Len(ledger) : ledger[i].cid = cid

\* A certificate, even one issued on an old audit packet while sealers race,
\* is for a receipt that is in the ledger and pinned.
CertifiedSealed ==
    cert # NoCertificate => cert.cid \in pinned /\ InLedger(cert.cid)

\* A call that returned IPFS_PINNED_VERIFIED left a readable entry, unless the
\* file was torn by a process that died writing.
ResultRecorded ==
    torn \/ \A cid \in sealed : InLedger(cid)

\* What a valid audit is worth: its latest CID commits to the whole ledger, so
\* no race, fork, repeated or lost entry passes.
LatestCommitsToAll ==
    packet.valid =>
        /\ Len(packet.latest) = Len(packet.cids)
        /\ \A i \in 1 .. Len(packet.cids) :
               packet.cids[i] = SubSeq(packet.latest, 1, i)

\* Calls that do not overlap, each given the latest CID of the ledger, leave
\* an auditable ledger, through failures and crashes at any point.
SerialStaysValid == serial => AuditValid(ledger)

\* An anchored root covers a beginning of the ledger whose entries chain,
\* although a sealer may append between the two reads behind it.
AnchorsCoverPrefix ==
    \A a \in anchors : IsPrefix(a.leaves, ledger) /\ AuditValid(a.leaves)

\* tests/test_receipt_merkle_audit.py: a valid packet's latest_cid is the CID
\* of the last of its leaves.
AnchorLatestIsLastLeaf == \A a \in anchors : a.latest = Last(a.leaves).cid
=============================================================================
