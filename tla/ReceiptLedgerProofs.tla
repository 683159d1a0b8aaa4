------------------------- MODULE ReceiptLedgerProofs -------------------------
(***************************************************************************)
(* Proofs about the receipt ledger for any number of sealers, receipts,    *)
(* seals and faults.                                                       *)
(*                                                                         *)
(* Shape is the typing the other arguments use.  SafeInv says that what a  *)
(* sealer has verified stays pinned and that the operator's packet names   *)
(* only entries of the ledger.  SerialInv says what a lone sealer knows of *)
(* the ledger between its steps.                                           *)
(***************************************************************************)
EXTENDS ReceiptLedger, SequenceTheorems, TLAPS

Steps == {"idle", "add", "verify", "read", "append"}
Cids == Seq(Receipts)
Drafts == [cid : Cids, previous : Cids]
Entries == [sequence : Nat, cid : Cids, previous : Cids]
Packets == [valid : BOOLEAN, cids : Seq(Cids), latest : Cids]

Shape ==
    /\ ledger \in Seq(Entries) /\ merkle \in Seq(Entries)
    /\ pc \in [Sealers -> Steps] /\ draft \in [Sealers -> Drafts] /\ number \in [Sealers -> Nat]
    /\ packet \in Packets

Verified == \A s \in Sealers : pc[s] \in {"read", "append"} => draft[s].cid \in pinned

PacketInLedger == \A i \in 1 .. Len(packet.cids) : InLedger(packet.cids[i])

CertInLedger == cert # NoCertificate => InLedger(cert.cid)

SafeInv ==
    /\ Shape /\ EntriesPinned /\ Verified
    /\ PacketInLedger /\ CertInLedger /\ ResultRecorded

SerialInv ==
    /\ Shape
    /\ serial =>
        /\ AuditValid(ledger)
        /\ \A s, u \in Sealers : pc[s] # "idle" /\ pc[u] # "idle" => s = u
        /\ \A s \in Sealers :
               /\ pc[s] # "idle" => draft[s].previous = LatestCid(ledger)
               /\ pc[s] = "append" => number[s] = Len(ledger) + 1

\* s begins t, said element by element.
Begins(s, t) == Len(s) <= Len(t) /\ \A i \in 1 .. Len(s) : s[i] = t[i]

AnchorInv ==
    /\ Shape
    /\ Begins(merkle, ledger)
    /\ anchors \subseteq [leaves : Seq(Entries), latest : Cids]
    /\ \A a \in anchors : Begins(a.leaves, ledger) /\ AuditValid(a.leaves)

-----------------------------------------------------------------------------
(* The latest CID of a ledger is a CID. *)
LEMMA LatestCidType ==
    ASSUME NEW e \in Seq(Entries)
    PROVE  LatestCid(e) \in Cids
<1>1. CASE e = <<>>
    BY <1>1 DEF LatestCid, None, Cids
<1>2. CASE e # <<>>
    <2>1. Len(e) \in 1 .. Len(e)
        BY <1>2
    <2>2. e[Len(e)] \in Entries
        BY <2>1
    <2>3. e[Len(e)].cid \in Cids
        BY <2>2 DEF Entries
    <2> QED
        BY <1>2, <2>3 DEF LatestCid, Last
<1> QED
    BY <1>1, <1>2

(* The packet of a ledger is well typed and lists the ledger's CIDs. *)
LEMMA PacketType ==
    ASSUME NEW e \in Seq(Entries)
    PROVE  /\ Packet(e) \in Packets
           /\ Len(Packet(e).cids) = Len(e)
           /\ \A i \in 1 .. Len(e) : Packet(e).cids[i] = e[i].cid
<1>1. \A i \in 1 .. Len(e) : e[i].cid \in Cids
    <2> TAKE i \in 1 .. Len(e)
    <2>1. e[i] \in Entries
        OBVIOUS
    <2> QED
        BY <2>1 DEF Entries
<1> DEFINE c == [i \in 1 .. Len(e) |-> e[i].cid]
<1>2. c \in Seq(Cids) /\ Len(c) = Len(e) /\ \A i \in 1 .. Len(e) : c[i] = e[i].cid
    BY <1>1
<1>3. AuditValid(e) \in BOOLEAN
    BY DEF AuditValid
<1>4. LatestCid(e) \in Cids
    BY LatestCidType
<1>5. Packet(e) = [valid |-> AuditValid(e), cids |-> c, latest |-> LatestCid(e)]
    BY DEF Packet
<1> HIDE DEF c
<1> QED
    BY <1>2, <1>3, <1>4, <1>5 DEF Packets

(* What a sealer writes is an entry. *)
LEMMA EntryType ==
    ASSUME NEW s \in Sealers, Shape
    PROVE  /\ Entry(s) \in Entries
           /\ Entry(s).sequence = number[s]
           /\ Entry(s).cid = draft[s].cid /\ Entry(s).previous = draft[s].previous
BY DEF Shape, Entry, Entries, Drafts

(* A finished call has the empty draft. *)
LEMMA FinishType ==
    ASSUME NEW s \in Sealers, Shape, Finish(s)
    PROVE  pc' \in [Sealers -> Steps] /\ draft' \in [Sealers -> Drafts]
           /\ number' \in [Sealers -> Nat]
<1>1. NoDraft \in Drafts
    BY DEF NoDraft, None, Cids, Drafts
<1> QED
    BY <1>1 DEF Shape, Finish, Steps

(* The initial state has the typing. *)
LEMMA ShapeInit == Init => Shape
<1> SUFFICES ASSUME Init PROVE Shape
    OBVIOUS
<1>1. None \in Cids /\ <<>> \in Seq(Cids) /\ <<>> \in Seq(Entries)
    BY DEF None, Cids
<1>2. NoDraft \in Drafts
    BY <1>1 DEF NoDraft, Drafts
<1>3. NoPacket \in Packets
    BY <1>1 DEF NoPacket, Packets
<1> QED
    BY <1>1, <1>2, <1>3 DEF Init, Shape, Steps

(* Every step keeps the typing. *)
LEMMA ShapeStep ==
    ASSUME Shape, [Next]_vars
    PROVE  Shape'
<1> USE DEF Shape, call, audits
<1>1. ASSUME NEW s \in Sealers, NEW r \in Receipts,
             NEW previous \in {None, packet.latest}, Begin(s, r, previous)
      PROVE  Shape'
    <2>0. None \in Cids /\ packet.latest \in Cids
        <3>1. None \in Cids
            BY DEF None, Cids
        <3> QED
            BY <3>1 DEF Packets
    <2>1. previous \in Cids
        BY <2>0
    <2>2. Append(previous, r) \in Cids
        BY <2>1 DEF Cids
    <2>3. [cid |-> Cid(r, previous), previous |-> previous] \in Drafts
        BY <2>1, <2>2 DEF Cid, Drafts
    <2> QED
        BY <1>1, <2>3 DEF Begin, Steps
<1>2. ASSUME NEW s \in Sealers, Pin(s) \/ Verify(s)
      PROVE  Shape'
    BY <1>2 DEF Pin, Verify, GoTo, Steps
<1>3. ASSUME NEW s \in Sealers, ReadLength(s)
      PROVE  Shape'
    BY <1>3 DEF ReadLength, GoTo, Steps
<1>4. ASSUME NEW s \in Sealers, AppendEntry(s)
      PROVE  Shape'
    BY <1>4, EntryType, FinishType DEF AppendEntry
<1>5. ASSUME NEW s \in Sealers, NEW x \in BOOLEAN, Fail(s, x)
      PROVE  Shape'
    BY <1>5, FinishType DEF Fail
<1>6. ASSUME NEW s \in Sealers, Unreadable(s)
      PROVE  Shape'
    BY <1>6, FinishType DEF Unreadable
<1>7. ASSUME NEW s \in Sealers, NEW w \in {"none", "half", "all"}, DieAppending(s, w)
      PROVE  Shape'
    <2>1. (ledger' = ledger \/ ledger' = Append(ledger, Entry(s))) /\ Finish(s)
          /\ UNCHANGED <<merkle, packet>>
        BY <1>7 DEF DieAppending
    <2>2. ledger' \in Seq(Entries)
        <3>1. Entry(s) \in Entries
            BY EntryType
        <3>2. Append(ledger, Entry(s)) \in Seq(Entries)
            BY <3>1
        <3> QED
            BY <2>1, <3>2
    <2>3. pc' \in [Sealers -> Steps] /\ draft' \in [Sealers -> Drafts]
          /\ number' \in [Sealers -> Nat]
        BY <2>1, FinishType
    <2> QED
        BY <2>1, <2>2, <2>3
<1>8. CASE Audit
    BY <1>8, PacketType DEF Audit
<1>9. CASE MerkleLeaves
    BY <1>9 DEF MerkleLeaves
<1>10. CASE MerkleAnchor
    BY <1>10 DEF MerkleAnchor
<1>11. ASSUME NEW k, NEW c, NEW source, Certify(k, c, source)
      PROVE  Shape'
    BY <1>11 DEF Certify
<1>12. CASE UNCHANGED vars
    BY <1>12 DEF vars
<1> QED
    BY <1>1, <1>2, <1>3, <1>4, <1>5, <1>6, <1>7, <1>8, <1>9, <1>10, <1>11, <1>12 DEF Next

-----------------------------------------------------------------------------
(* The ledger is only appended to, and only by a sealer that is about to;  *)
(* what is pinned stays pinned.                                            *)
LEMMA LedgerStep ==
    ASSUME Shape, [Next]_vars
    PROVE  /\ \/ ledger' = ledger
              \/ \E s \in Sealers : pc[s] = "append" /\ ledger' = Append(ledger, Entry(s))
           /\ pinned \subseteq pinned'
<1> USE DEF call, audits
<1>1. ASSUME NEW s \in Sealers, NEW r \in Receipts,
             NEW previous \in {None, packet.latest}, Begin(s, r, previous)
      PROVE  UNCHANGED <<ledger, pinned>>
    BY <1>1 DEF Begin
<1>2. ASSUME NEW s \in Sealers, Pin(s)
      PROVE  ledger' = ledger /\ pinned \subseteq pinned'
    BY <1>2 DEF Pin
<1>3. ASSUME NEW s \in Sealers, Verify(s) \/ ReadLength(s) \/ Unreadable(s)
      PROVE  UNCHANGED <<ledger, pinned>>
    BY <1>3 DEF Verify, ReadLength, Unreadable
<1>4. ASSUME NEW s \in Sealers, AppendEntry(s)
      PROVE  /\ \/ ledger' = ledger
                \/ pc[s] = "append" /\ ledger' = Append(ledger, Entry(s))
             /\ pinned' = pinned
    <2>1. CASE torn
        BY <1>4, <2>1 DEF AppendEntry
    <2>2. CASE ~torn
        BY <1>4, <2>2 DEF AppendEntry
    <2> QED
        BY <2>1, <2>2
<1>5. ASSUME NEW s \in Sealers, NEW x \in BOOLEAN, Fail(s, x)
      PROVE  ledger' = ledger /\ pinned \subseteq pinned'
    BY <1>5 DEF Fail
<1>6. ASSUME NEW s \in Sealers, NEW w \in {"none", "half", "all"}, DieAppending(s, w)
      PROVE  /\ \/ ledger' = ledger
                \/ pc[s] = "append" /\ ledger' = Append(ledger, Entry(s))
             /\ pinned' = pinned
    BY <1>6 DEF DieAppending
<1>7. CASE Audit \/ MerkleLeaves \/ MerkleAnchor \/ UNCHANGED vars
    BY <1>7 DEF Audit, MerkleLeaves, MerkleAnchor, vars
<1>8. ASSUME NEW k, NEW c, NEW source, Certify(k, c, source)
      PROVE  UNCHANGED <<ledger, pinned>>
    BY <1>8 DEF Certify
<1> QED
    BY <1>1, <1>2, <1>3, <1>4, <1>5, <1>6, <1>7, <1>8 DEF Next

(* What a step leaves of the ledger: the entries it had, and at most one   *)
(* more, written by one sealer.                                            *)
LEMMA LedgerEntries ==
    ASSUME Shape, [Next]_vars
    PROVE  /\ Len(ledger) <= Len(ledger')
           /\ \A i \in 1 .. Len(ledger) : ledger'[i] = ledger[i]
           /\ \A i \in 1 .. Len(ledger') :
                 \/ i \in 1 .. Len(ledger)
                 \/ \E s \in Sealers : pc[s] = "append" /\ ledger'[i] = Entry(s)
<1>1. CASE ledger' = ledger
    BY <1>1 DEF Shape
<1>2. ASSUME NEW s \in Sealers, pc[s] = "append", ledger' = Append(ledger, Entry(s))
      PROVE  /\ Len(ledger') = Len(ledger) + 1
             /\ \A i \in 1 .. Len(ledger) : ledger'[i] = ledger[i]
             /\ ledger'[Len(ledger) + 1] = Entry(s)
    <2>1. Entry(s) \in Entries
        BY EntryType
    <2>2. ledger \in Seq(Entries)
        BY DEF Shape
    <2> QED
        BY <1>2, <2>1, <2>2
<1>3. Len(ledger) \in Nat
    BY DEF Shape
<1> QED
    BY <1>1, <1>2, <1>3, LedgerStep

(* A CID of the ledger stays in the ledger. *)
LEMMA InLedgerStays ==
    ASSUME Shape, [Next]_vars, NEW c, InLedger(c)
    PROVE  InLedger(c)'
<1>1. PICK i \in 1 .. Len(ledger) : ledger[i].cid = c
    BY DEF InLedger
<1>2. i \in 1 .. Len(ledger') /\ ledger'[i].cid = c
    <2>1. Len(ledger) \in Nat /\ Len(ledger') \in Nat
        BY ShapeStep DEF Shape
    <2> QED
        BY <1>1, <2>1, LedgerEntries
<1>3. \E j \in 1 .. Len(ledger') : ledger'[j].cid = c
    BY <1>2
<1> QED
    BY <1>3 DEF InLedger

(* Entries name pinned objects: a sealer about to append has verified its  *)
(* own pin, and nothing is ever unpinned.                                  *)
LEMMA EntriesPinnedStep ==
    ASSUME Shape, EntriesPinned, Verified, [Next]_vars
    PROVE  EntriesPinned'
<1> SUFFICES ASSUME NEW i \in 1 .. Len(ledger')
             PROVE  ledger'[i].cid \in pinned'
    BY DEF EntriesPinned
<1>1. pinned \subseteq pinned'
    BY LedgerStep
<1>2. CASE i \in 1 .. Len(ledger)
    BY <1>1, <1>2, LedgerEntries DEF EntriesPinned
<1>3. ASSUME NEW s \in Sealers, pc[s] = "append", ledger'[i] = Entry(s)
      PROVE  ledger'[i].cid \in pinned'
    BY <1>1, <1>3, EntryType DEF Verified
<1> QED
    BY <1>2, <1>3, LedgerEntries

(* A finished call keeps the other calls and leaves its own idle. *)
LEMMA FinishOthers ==
    ASSUME Shape, NEW s \in Sealers, Finish(s)
    PROVE  /\ pc'[s] = "idle"
           /\ \A u \in Sealers \ {s} :
                  pc'[u] = pc[u] /\ draft'[u] = draft[u] /\ number'[u] = number[u]
BY DEF Shape, Finish

(* A sealer reaches its read of the ledger only past the verification. *)
LEMMA VerifiedStep ==
    ASSUME Shape, Verified, [Next]_vars
    PROVE  Verified'
<1> USE DEF Verified, call, audits
<1>0. pinned \subseteq pinned'
    BY LedgerStep
<1>1. ASSUME NEW s \in Sealers, NEW r \in Receipts,
             NEW previous \in {None, packet.latest}, Begin(s, r, previous)
      PROVE  Verified'
    <2>1. pc'[s] = "add" /\ \A u \in Sealers \ {s} : pc'[u] = pc[u] /\ draft'[u] = draft[u]
        BY <1>1 DEF Begin, Shape
    <2> QED
        BY <1>0, <2>1
<1>2. ASSUME NEW s \in Sealers, Pin(s)
      PROVE  Verified'
    <2>1. draft' = draft /\ pc'[s] = "verify" /\ \A u \in Sealers \ {s} : pc'[u] = pc[u]
        BY <1>2 DEF Pin, GoTo, Shape
    <2> QED
        BY <1>0, <2>1
<1>3. ASSUME NEW s \in Sealers, Verify(s) \/ ReadLength(s)
      PROVE  Verified'
    <2>1. draft' = draft /\ draft[s].cid \in pinned /\ \A u \in Sealers \ {s} : pc'[u] = pc[u]
        BY <1>3 DEF Verify, ReadLength, GoTo, Shape
    <2> QED
        BY <1>0, <2>1
<1>4. ASSUME NEW s \in Sealers, Finish(s)
      PROVE  Verified'
    <2>1. pc'[s] = "idle" /\ \A u \in Sealers \ {s} : pc'[u] = pc[u] /\ draft'[u] = draft[u]
        BY <1>4, FinishOthers
    <2> QED
        BY <1>0, <2>1
<1>5. ASSUME NEW s \in Sealers,
             \/ AppendEntry(s) \/ Unreadable(s)
             \/ \E x \in BOOLEAN : Fail(s, x)
             \/ \E w \in {"none", "half", "all"} : DieAppending(s, w)
      PROVE  Verified'
    BY <1>4, <1>5 DEF AppendEntry, Unreadable, Fail, DieAppending
<1>6. CASE Audit \/ MerkleLeaves \/ MerkleAnchor \/ UNCHANGED vars
    BY <1>0, <1>6 DEF Audit, MerkleLeaves, MerkleAnchor, vars
<1>7. ASSUME NEW k, NEW c, NEW source, Certify(k, c, source)
      PROVE  Verified'
    BY <1>0, <1>7 DEF Certify
<1> QED
    BY <1>1, <1>2, <1>3, <1>5, <1>6, <1>7 DEF Next

(* The operator's packet names entries of the ledger, however old it is. *)
LEMMA PacketInLedgerStep ==
    ASSUME Shape, PacketInLedger, [Next]_vars
    PROVE  PacketInLedger'
<1>1. CASE packet' = packet
    <2> SUFFICES ASSUME NEW i \in 1 .. Len(packet.cids)
                 PROVE  InLedger(packet.cids[i])'
        BY <1>1 DEF PacketInLedger
    <2>1. InLedger(packet.cids[i])
        BY DEF PacketInLedger
    <2>2. PICK j \in 1 .. Len(ledger) : ledger[j].cid = packet.cids[i]
        BY <2>1 DEF InLedger
    <2>3. Len(ledger) \in Nat /\ Len(ledger') \in Nat
        BY ShapeStep DEF Shape
    <2>4. j \in 1 .. Len(ledger') /\ ledger'[j].cid = packet.cids[i]
        BY <2>2, <2>3, LedgerEntries
    <2> QED
        BY <1>1, <2>4 DEF InLedger
<1>2. CASE Audit
    <2>1. packet' = Packet(ledger) /\ ledger' = ledger
        BY <1>2 DEF Audit
    <2>2. \A i \in 1 .. Len(ledger) : Packet(ledger).cids[i] = ledger[i].cid
        BY PacketType DEF Shape
    <2>3. Len(Packet(ledger).cids) = Len(ledger)
        BY PacketType DEF Shape
    <2> QED
        BY <2>1, <2>2, <2>3 DEF PacketInLedger, InLedger
<1>3. Audit \/ packet' = packet
    BY DEF Next, vars, audits, call, Begin, Pin, Verify, ReadLength, AppendEntry, Fail,
           Unreadable, DieAppending, MerkleLeaves, MerkleAnchor, Certify
<1> QED
    BY <1>1, <1>2, <1>3

(* A certificate names an entry, though the packet it rests on may be old. *)
LEMMA CertInLedgerStep ==
    ASSUME Shape, PacketInLedger, CertInLedger, [Next]_vars
    PROVE  CertInLedger'
<1>1. CASE cert' = cert
    <2> SUFFICES ASSUME cert # NoCertificate PROVE InLedger(cert.cid)'
        BY <1>1 DEF CertInLedger
    <2>1. PICK j \in 1 .. Len(ledger) : ledger[j].cid = cert.cid
        BY DEF CertInLedger, InLedger
    <2>2. Len(ledger) \in Nat /\ Len(ledger') \in Nat
        BY ShapeStep DEF Shape
    <2>3. j \in 1 .. Len(ledger') /\ ledger'[j].cid = cert.cid
        BY <2>1, <2>2, LedgerEntries
    <2> QED
        BY <1>1, <2>3 DEF InLedger
<1>2. ASSUME NEW kind, NEW cid, NEW source, Certify(kind, cid, source)
      PROVE  CertInLedger'
    <2>1. cert'.cid = cid /\ ledger' = ledger
        BY <1>2 DEF Certify, Certificate
    <2>2. PICK i \in 1 .. Len(packet.cids) : packet.cids[i] = cid
        BY <1>2 DEF Certify, ToSet, Shape, Packets
    <2>3. InLedger(cid)
        BY <2>2 DEF PacketInLedger
    <2> QED
        BY <2>1, <2>3 DEF CertInLedger, InLedger
<1>3. cert' = cert \/ \E kind, cid, source : Certify(kind, cid, source)
    BY DEF Next, vars, audits, call, Begin, Pin, Verify, ReadLength, AppendEntry, Fail,
           Unreadable, DieAppending, Audit, MerkleLeaves, MerkleAnchor
<1> QED
    BY <1>1, <1>2, <1>3

(* A result is recorded before it is returned. *)
LEMMA ResultRecordedStep ==
    ASSUME Shape, ResultRecorded, [Next]_vars
    PROVE  ResultRecorded'
<1>1. CASE (torn => torn') /\ sealed' = sealed
    BY <1>1, InLedgerStays DEF ResultRecorded
<1>2. ASSUME NEW s \in Sealers, AppendEntry(s), ~torn
      PROVE  ResultRecorded'
    <2>1. ledger' = Append(ledger, Entry(s)) /\ sealed' = sealed \cup {draft[s].cid}
        BY <1>2 DEF AppendEntry
    <2>2. Entry(s) \in Entries /\ Entry(s).cid = draft[s].cid /\ ledger \in Seq(Entries)
        BY EntryType DEF Shape
    <2>3. Len(ledger) + 1 \in 1 .. Len(ledger') /\ ledger'[Len(ledger) + 1] = Entry(s)
        BY <2>1, <2>2
    <2> SUFFICES ASSUME NEW x \in sealed' PROVE InLedger(x)'
        BY DEF ResultRecorded
    <2>4. CASE x = draft[s].cid
        BY <2>2, <2>3, <2>4 DEF InLedger
    <2>5. CASE x \in sealed
        BY <1>2, <2>5, InLedgerStays DEF ResultRecorded
    <2> QED
        BY <2>1, <2>4, <2>5
<1>3. CASE torn'
    BY <1>3 DEF ResultRecorded
<1>4. \/ (torn => torn') /\ sealed' = sealed
      \/ torn'
      \/ \E s \in Sealers : AppendEntry(s) /\ ~torn
    <2>1. ASSUME NEW s \in Sealers, AppendEntry(s), torn
          PROVE  torn'
        BY <2>1 DEF AppendEntry
    <2>2. ASSUME NEW s \in Sealers, NEW w \in {"none", "half", "all"}, DieAppending(s, w)
          PROVE  (torn => torn') /\ sealed' = sealed
        <3>1. torn' = (torn \/ w = "half") /\ sealed' = sealed
            BY <2>2 DEF DieAppending
        <3> QED
            BY <3>1
    <2> QED
        BY <2>1, <2>2 DEF Next, vars, audits, call, Begin, Pin, Verify, ReadLength, Fail,
           Unreadable, Audit, MerkleLeaves, MerkleAnchor, Certify
<1> QED
    BY <1>1, <1>2, <1>3, <1>4

-----------------------------------------------------------------------------
(* An entry that continues a valid ledger leaves a valid ledger. *)
LEMMA AuditExtends ==
    ASSUME NEW e \in Seq(Entries), AuditValid(e), NEW x \in Entries,
           x.sequence = Len(e) + 1, x.previous = LatestCid(e)
    PROVE  AuditValid(Append(e, x))
<1> DEFINE f == Append(e, x)
<1> SUFFICES ASSUME NEW i \in 1 .. Len(f)
             PROVE  /\ f[i].sequence = i
                    /\ f[i].previous = IF i = 1 THEN None ELSE f[i - 1].cid
    BY DEF AuditValid
<1>1. Len(f) = Len(e) + 1 /\ f[Len(e) + 1] = x /\ \A j \in 1 .. Len(e) : f[j] = e[j]
    OBVIOUS
<1>2. CASE i \in 1 .. Len(e)
    <2>1. f[i] = e[i] /\ (i # 1 => f[i - 1] = e[i - 1])
        BY <1>1, <1>2
    <2> QED
        BY <1>2, <2>1 DEF AuditValid
<1>3. CASE i = Len(e) + 1
    <2>1. CASE e = <<>>
        BY <1>1, <1>3, <2>1 DEF LatestCid
    <2>2. CASE e # <<>>
        <3>1. Len(e) \in 1 .. Len(e) /\ i # 1 /\ i - 1 = Len(e)
            BY <1>3, <2>2
        <3>2. f[i - 1] = e[Len(e)]
            BY <1>1, <3>1
        <3> QED
            BY <1>1, <1>3, <2>2, <3>1, <3>2 DEF LatestCid, Last
    <2> QED
        BY <2>1, <2>2
<1> QED
    BY <1>1, <1>2, <1>3

(* A beginning of a ledger stays a beginning when the ledger grows. *)
LEMMA BeginsStays ==
    ASSUME Shape, [Next]_vars, NEW e \in Seq(Entries), Begins(e, ledger)
    PROVE  Begins(e, ledger')
<1>1. Len(e) \in Nat /\ Len(ledger) \in Nat /\ Len(ledger') \in Nat
    BY ShapeStep DEF Shape
<1> QED
    BY <1>1, LedgerEntries DEF Begins

(* A beginning of a valid ledger is valid. *)
LEMMA AuditOfBeginning ==
    ASSUME NEW e \in Seq(Entries), NEW f \in Seq(Entries), Begins(e, f), AuditValid(f)
    PROVE  AuditValid(e)
<1> SUFFICES ASSUME NEW i \in 1 .. Len(e)
             PROVE  /\ e[i].sequence = i
                    /\ e[i].previous = IF i = 1 THEN None ELSE e[i - 1].cid
    BY DEF AuditValid
<1>1. i \in 1 .. Len(f) /\ e[i] = f[i] /\ (i # 1 => e[i - 1] = f[i - 1])
    BY DEF Begins
<1> QED
    BY <1>1 DEF AuditValid

(* A Merkle audit's leaves stay a beginning of the ledger while it runs,   *)
(* so the verdict on the ledger it reads second holds for its leaves.      *)
LEMMA AnchorInvStep ==
    ASSUME AnchorInv, [Next]_vars
    PROVE  AnchorInv'
<1> USE DEF AnchorInv
<1>1. Shape'
    BY ShapeStep
<1>2. Begins(merkle, ledger')
    BY BeginsStays DEF Shape
<1>3. \A a \in anchors : Begins(a.leaves, ledger')
    BY BeginsStays
<1>4. CASE UNCHANGED <<merkle, anchors>>
    BY <1>1, <1>2, <1>3, <1>4
<1>5. CASE MerkleLeaves
    <2>1. merkle' = ledger /\ ledger' = ledger /\ anchors' = anchors
        BY <1>5 DEF MerkleLeaves
    <2>2. Begins(ledger, ledger)
        BY DEF Begins, Shape
    <2> QED
        BY <1>1, <1>3, <2>1, <2>2
<1>6. CASE MerkleAnchor
    <2> DEFINE new == [leaves |-> merkle, latest |-> LatestCid(ledger)]
    <2>1. ledger' = ledger /\ merkle' = <<>>
          /\ (anchors' = anchors \/ (AuditValid(ledger) /\ anchors' = anchors \cup {new}))
        BY <1>6 DEF MerkleAnchor
    <2>2. Begins(<<>>, ledger')
        BY <1>1 DEF Begins, Shape
    <2>3. new \in [leaves : Seq(Entries), latest : Cids]
        BY LatestCidType DEF Shape
    <2>4. AuditValid(ledger) => AuditValid(merkle)
        BY AuditOfBeginning DEF Shape
    <2>5. new.leaves = merkle
        OBVIOUS
    <2> HIDE DEF new
    <2>6. anchors' \subseteq [leaves : Seq(Entries), latest : Cids]
        BY <2>1, <2>3
    <2>7. \A a \in anchors' : Begins(a.leaves, ledger') /\ AuditValid(a.leaves)
        BY <1>2, <1>3, <2>1, <2>4, <2>5
    <2> QED
        BY <1>1, <2>1, <2>2, <2>6, <2>7
<1>7. UNCHANGED <<merkle, anchors>> \/ MerkleLeaves \/ MerkleAnchor
    BY DEF Next, vars, audits, call, Begin, Pin, Verify, ReadLength, AppendEntry, Fail,
           Unreadable, DieAppending, Audit, Certify
<1> QED
    BY <1>4, <1>5, <1>6, <1>7

(* While calls do not overlap, the lone sealer's previous CID and number   *)
(* are those of the next entry, so what it appends extends a valid ledger. *)
LEMMA SerialInvStep ==
    ASSUME SerialInv, [Next]_vars
    PROVE  SerialInv'
<1> USE DEF call, audits
<1>1. Shape /\ Shape'
    BY ShapeStep DEF SerialInv
<1> DEFINE
      Lone == \A s, u \in Sealers : pc[s] # "idle" /\ pc[u] # "idle" => s = u
      Knows(s) == /\ pc[s] # "idle" => draft[s].previous = LatestCid(ledger)
                  /\ pc[s] = "append" => number[s] = Len(ledger) + 1
      Good == AuditValid(ledger) /\ Lone /\ \A s \in Sealers : Knows(s)
<1> SUFFICES ASSUME serial' PROVE Good'
    BY <1>1 DEF SerialInv
<1>2. ASSUME serial PROVE Good
    BY <1>2 DEF SerialInv
<1>3. ASSUME NEW s \in Sealers, NEW r \in Receipts,
             NEW previous \in {None, packet.latest}, Begin(s, r, previous)
      PROVE  Good'
    <2>1. serial /\ previous = LatestCid(ledger) /\ \A u \in Sealers : pc[u] = "idle"
        BY <1>3 DEF Begin
    <2>2. /\ ledger' = ledger
          /\ pc' = [pc EXCEPT ![s] = "add"]
          /\ draft' = [draft EXCEPT ![s] = [cid |-> Cid(r, previous), previous |-> previous]]
        BY <1>3 DEF Begin
    <2>3. /\ pc'[s] = "add" /\ \A u \in Sealers \ {s} : pc'[u] = "idle"
          /\ draft'[s].previous = previous
        BY <1>1, <2>1, <2>2 DEF Shape
    <2> QED
        BY <1>2, <2>1, <2>2, <2>3 DEF AuditValid, LatestCid
<1>4. ASSUME NEW s \in Sealers, Pin(s) \/ Verify(s)
      PROVE  Good'
    <2>1. /\ pc[s] # "idle" /\ pc'[s] \notin {"idle", "append"}
          /\ \A u \in Sealers \ {s} : pc'[u] = pc[u]
          /\ ledger' = ledger /\ draft' = draft /\ number' = number /\ serial' = serial
        BY <1>1, <1>4 DEF Pin, Verify, GoTo, Shape
    <2> QED
        BY <1>2, <2>1 DEF AuditValid, LatestCid
<1>5. ASSUME NEW s \in Sealers, ReadLength(s)
      PROVE  Good'
    <2>1. /\ pc[s] # "idle" /\ number'[s] = Len(ledger) + 1
          /\ \A u \in Sealers \ {s} : pc'[u] = pc[u] /\ number'[u] = number[u]
          /\ ledger' = ledger /\ draft' = draft /\ serial' = serial
        BY <1>1, <1>5 DEF ReadLength, GoTo, Shape
    <2> QED
        BY <1>2, <2>1 DEF AuditValid, LatestCid
<1>6. ASSUME NEW s \in Sealers, Finish(s), ledger' = ledger, serial' = serial
      PROVE  Good'
    <2>1. /\ pc'[s] = "idle"
          /\ \A u \in Sealers \ {s} :
                 pc'[u] = pc[u] /\ draft'[u] = draft[u] /\ number'[u] = number[u]
        BY <1>1, <1>6, FinishOthers
    <2> QED
        BY <1>2, <1>6, <2>1 DEF AuditValid, LatestCid
<1>7. ASSUME NEW s \in Sealers, Finish(s), pc[s] = "append",
             ledger' = Append(ledger, Entry(s)), serial' = serial
      PROVE  Good'
    <2>1. Good
        BY <1>2, <1>7
    <2>2. draft[s].previous = LatestCid(ledger) /\ number[s] = Len(ledger) + 1
        BY <1>7, <2>1
    <2>3. \A u \in Sealers : pc'[u] = "idle"
        BY <1>1, <1>7, <2>1, FinishOthers
    <2>4. ledger \in Seq(Entries) /\ Entry(s) \in Entries
          /\ Entry(s).sequence = number[s] /\ Entry(s).previous = draft[s].previous
        BY <1>1, EntryType DEF Shape
    <2>5. AuditValid(Append(ledger, Entry(s)))
        BY <2>1, <2>2, <2>4, AuditExtends
    <2>6. AuditValid(ledger)'
        BY <1>7, <2>5 DEF AuditValid
    <2> QED
        BY <2>3, <2>6
<1>8. ASSUME NEW s \in Sealers, AppendEntry(s)
      PROVE  Good'
    <2>1. CASE torn
        BY <1>6, <1>8, <2>1 DEF AppendEntry
    <2>2. CASE ~torn
        BY <1>7, <1>8, <2>2 DEF AppendEntry
    <2> QED
        BY <2>1, <2>2
<1>9. ASSUME NEW s \in Sealers, NEW w \in {"none", "half", "all"}, DieAppending(s, w)
      PROVE  Good'
    <2>1. CASE w = "all" /\ ~torn
        BY <1>7, <1>9, <2>1 DEF DieAppending
    <2>2. CASE ~(w = "all" /\ ~torn)
        BY <1>6, <1>9, <2>2 DEF DieAppending
    <2> QED
        BY <2>1, <2>2
<1>10. ASSUME NEW s \in Sealers, Unreadable(s) \/ \E x \in BOOLEAN : Fail(s, x)
       PROVE  Good'
    BY <1>6, <1>10 DEF Unreadable, Fail
<1>11. ASSUME UNCHANGED <<ledger, pc, draft, number, serial>>
       PROVE  Good'
    BY <1>2, <1>11 DEF AuditValid, LatestCid
<1>12. ASSUME NEW k, NEW c, NEW source, Certify(k, c, source)
       PROVE  Good'
    BY <1>11, <1>12 DEF Certify
<1>13. CASE Audit \/ MerkleLeaves \/ MerkleAnchor \/ UNCHANGED vars
    BY <1>11, <1>13 DEF Audit, MerkleLeaves, MerkleAnchor, vars
<1> QED
    BY <1>3, <1>4, <1>5, <1>8, <1>9, <1>10, <1>12, <1>13 DEF Next

(* Beginning element by element is being a prefix. *)
LEMMA BeginsIsPrefix ==
    ASSUME NEW e \in Seq(Entries), NEW f \in Seq(Entries), Begins(e, f)
    PROVE  IsPrefix(e, f)
<1>1. Len(e) \in Nat /\ Len(f) \in Nat /\ Len(e) <= Len(f)
    BY DEF Begins
<1>2. Len(SubSeq(e, 1, Len(e))) = Len(e) /\ Len(SubSeq(f, 1, Len(e))) = Len(e)
    BY <1>1
<1>3. \A i \in 1 .. Len(e) : SubSeq(e, 1, Len(e))[i] = SubSeq(f, 1, Len(e))[i]
    BY <1>1 DEF Begins
<1>4. SubSeq(e, 1, Len(e)) = SubSeq(f, 1, Len(e))
    <2>1. SubSeq(e, 1, Len(e)) \in Seq(Entries) /\ SubSeq(f, 1, Len(e)) \in Seq(Entries)
        BY <1>1
    <2> QED
        BY <1>2, <1>3, <2>1, SeqEqual
<1> QED
    BY <1>1, <1>4 DEF IsPrefix

-----------------------------------------------------------------------------
(* SafeInv holds of every reachable state. *)
LEMMA SafeInvariant == Spec => []SafeInv
<1>1. Init => SafeInv
    <2> SUFFICES ASSUME Init PROVE SafeInv
        OBVIOUS
    <2>1. ledger = <<>> /\ packet.cids = <<>>
        BY DEF Init, NoPacket
    <2>2. EntriesPinned /\ PacketInLedger
        BY <2>1 DEF EntriesPinned, PacketInLedger
    <2>3. Verified /\ CertInLedger /\ ResultRecorded
        BY DEF Init, Verified, CertInLedger, ResultRecorded
    <2> QED
        BY <2>2, <2>3, ShapeInit DEF SafeInv
<1>2. SafeInv /\ [Next]_vars => SafeInv'
    BY ShapeStep, EntriesPinnedStep, VerifiedStep, PacketInLedgerStep, CertInLedgerStep,
       ResultRecordedStep DEF SafeInv
<1> QED
    BY <1>1, <1>2, PTL DEF Spec

(* Every entry of the ledger file names an object that the IPFS node has    *)
(* pinned: seal_receipt verifies before it appends, whatever fails.         *)
THEOREM LedgerNamesPins == Spec => []EntriesPinned
<1>1. SafeInv => EntriesPinned
    BY DEF SafeInv
<1> QED
    BY <1>1, SafeInvariant, PTL

(* A completion certificate is for a receipt in the ledger and pinned, with *)
(* an audit packet of any age and sealers at any point.                     *)
THEOREM CertificatesSound == Spec => []CertifiedSealed
<1>1. SafeInv => CertifiedSealed
    BY DEF SafeInv, CertifiedSealed, CertInLedger, EntriesPinned, InLedger
<1> QED
    BY <1>1, SafeInvariant, PTL

(* A sealing that reported success has its entry in the ledger, unless a    *)
(* process died halfway through a line.                                     *)
THEOREM ResultsRecorded == Spec => []ResultRecorded
<1>1. SafeInv => ResultRecorded
    BY DEF SafeInv
<1> QED
    BY <1>1, SafeInvariant, PTL

(* Sealing one call at a time, each on the ledger's latest CID, keeps the   *)
(* ledger auditable through failures and crashes.                           *)
THEOREM SerialUseValid == Spec => []SerialStaysValid
<1>1. Init => SerialInv
    <2> SUFFICES ASSUME Init PROVE SerialInv
        OBVIOUS
    <2>1. ledger = <<>> /\ \A s \in Sealers : pc[s] = "idle"
        BY DEF Init
    <2>2. AuditValid(ledger)
        BY <2>1 DEF AuditValid
    <2> QED
        BY <2>1, <2>2, ShapeInit DEF SerialInv
<1>2. SerialInv /\ [Next]_vars => SerialInv'
    BY SerialInvStep
<1>3. SerialInv => SerialStaysValid
    BY DEF SerialInv, SerialStaysValid
<1> QED
    BY <1>1, <1>2, <1>3, PTL DEF Spec

(* An anchored Merkle root covers an auditable beginning of the ledger,     *)
(* whatever is appended between the audit's two reads of the file.          *)
THEOREM AnchorsSound == Spec => []AnchorsCoverPrefix
<1>1. Init => AnchorInv
    <2> SUFFICES ASSUME Init PROVE AnchorInv
        OBVIOUS
    <2>1. Begins(merkle, ledger) /\ anchors = {}
        BY DEF Init, Begins
    <2> QED
        BY <2>1, ShapeInit DEF AnchorInv
<1>2. AnchorInv /\ [Next]_vars => AnchorInv'
    BY AnchorInvStep
<1>3. AnchorInv => AnchorsCoverPrefix
    <2> SUFFICES ASSUME AnchorInv, NEW a \in anchors
                 PROVE  IsPrefix(a.leaves, ledger) /\ AuditValid(a.leaves)
        BY DEF AnchorsCoverPrefix
    <2>1. a.leaves \in Seq(Entries) /\ ledger \in Seq(Entries)
        BY DEF AnchorInv, Shape
    <2> QED
        BY <2>1, BeginsIsPrefix DEF AnchorInv
<1> QED
    BY <1>1, <1>2, <1>3, PTL DEF Spec

-----------------------------------------------------------------------------
(* What a valid audit is worth.  A sealer's CID continues the previous CID   *)
(* it names; in a ledger whose audit is valid that is the CID before it, so  *)
(* the i-th CID commits to i receipts and begins every later one.            *)

\* The CID adds one receipt to the previous CID, said element by element.
Extends(d) ==
    /\ Len(d.cid) = Len(d.previous) + 1
    /\ \A j \in 1 .. Len(d.previous) : d.cid[j] = d.previous[j]

Chained(e) ==
    \A i \in 1 .. Len(e) :
        /\ Len(e[i].cid) = i
        /\ \A k \in 1 .. i : \A j \in 1 .. k : e[k].cid[j] = e[i].cid[j]

\* The packet's CIDs all begin its latest.
Commits(p) ==
    /\ Len(p.latest) = Len(p.cids)
    /\ \A i \in 1 .. Len(p.cids) :
         /\ Len(p.cids[i]) = i
         /\ \A j \in 1 .. i : p.cids[i][j] = p.latest[j]

ChainInv ==
    /\ Shape
    /\ \A s \in Sealers : pc[s] # "idle" => Extends(draft[s])
    /\ AuditValid(ledger) => Chained(ledger)
    /\ packet.valid => Commits(packet)

LEMMA CidExtends ==
    ASSUME NEW previous \in Cids, NEW r \in Receipts
    PROVE  /\ Len(Cid(r, previous)) = Len(previous) + 1
           /\ \A j \in 1 .. Len(previous) : Cid(r, previous)[j] = previous[j]
<1>1. previous \in Seq(Receipts)
    BY DEF Cids
<1> QED
    BY <1>1, AppendProperties DEF Cid

(* A call in progress keeps the envelope it built. *)
LEMMA DraftsExtendStep ==
    ASSUME Shape, \A s \in Sealers : pc[s] # "idle" => Extends(draft[s]), [Next]_vars
    PROVE  (\A s \in Sealers : pc[s] # "idle" => Extends(draft[s]))'
<1> DEFINE P == \A s \in Sealers : pc[s] # "idle" => Extends(draft[s])
<1> USE DEF call, audits
<1>0. P'  <=> \A s \in Sealers : pc'[s] # "idle" => Extends(draft'[s])
    BY DEF Extends
<1>1. ASSUME NEW s \in Sealers, NEW r \in Receipts,
             NEW previous \in {None, packet.latest}, Begin(s, r, previous)
      PROVE  P'
    <2>1. /\ draft'[s] = [cid |-> Cid(r, previous), previous |-> previous]
          /\ \A u \in Sealers \ {s} : pc'[u] = pc[u] /\ draft'[u] = draft[u]
        BY <1>1 DEF Begin, Shape
    <2>2. previous \in Cids
        <3>1. None \in Cids
            BY DEF None, Cids
        <3> QED
            BY <3>1 DEF Shape, Packets
    <2>3. Extends(draft'[s])
        BY <2>1, <2>2, CidExtends DEF Extends
    <2> QED
        BY <1>0, <2>1, <2>3
<1>2. ASSUME NEW s \in Sealers, draft' = draft, pc[s] # "idle",
             \A u \in Sealers \ {s} : pc'[u] = pc[u]
      PROVE  P'
    BY <1>0, <1>2
<1>3. ASSUME NEW s \in Sealers, Finish(s)
      PROVE  P'
    <2>1. pc'[s] = "idle" /\ \A u \in Sealers \ {s} : pc'[u] = pc[u] /\ draft'[u] = draft[u]
        BY <1>3, FinishOthers
    <2> QED
        BY <1>0, <2>1
<1>4. ASSUME NEW s \in Sealers, Pin(s) \/ Verify(s) \/ ReadLength(s)
      PROVE  P'
    <2>1. draft' = draft /\ pc[s] # "idle" /\ \A u \in Sealers \ {s} : pc'[u] = pc[u]
        BY <1>4 DEF Pin, Verify, ReadLength, GoTo, Shape
    <2> QED
        BY <1>2, <2>1
<1>5. ASSUME NEW s \in Sealers,
             \/ AppendEntry(s) \/ Unreadable(s)
             \/ \E x \in BOOLEAN : Fail(s, x)
             \/ \E w \in {"none", "half", "all"} : DieAppending(s, w)
      PROVE  P'
    BY <1>3, <1>5 DEF AppendEntry, Unreadable, Fail, DieAppending
<1>6. CASE UNCHANGED call
    BY <1>0, <1>6
<1>7. CASE Audit \/ MerkleLeaves \/ MerkleAnchor \/ UNCHANGED vars
    BY <1>6, <1>7 DEF Audit, MerkleLeaves, MerkleAnchor, vars
<1>8. ASSUME NEW k, NEW c, NEW source, Certify(k, c, source)
      PROVE  P'
    BY <1>6, <1>8 DEF Certify
<1> QED
    BY <1>1, <1>4, <1>5, <1>7, <1>8 DEF Next

(* An entry that its sealer chained and the audit accepts continues the chain. *)
LEMMA ChainGrows ==
    ASSUME NEW e \in Seq(Entries), NEW x \in Entries, Extends(x),
           AuditValid(e) => Chained(e), AuditValid(Append(e, x))
    PROVE  Chained(Append(e, x))
<1> DEFINE f == Append(e, x)
           n == Len(e)
<1>1. /\ n \in Nat /\ Len(f) = n + 1 /\ f[n + 1] = x /\ \A j \in 1 .. n : f[j] = e[j]
      /\ f \in Seq(Entries)
    BY AppendProperties
<1>2. Begins(e, f)
    BY <1>1 DEF Begins
<1>3. Chained(e)
    BY <1>1, <1>2, AuditOfBeginning
<1>4. x.previous = IF n + 1 = 1 THEN None ELSE e[n].cid
    <2>1. n + 1 \in 1 .. Len(f) /\ (n + 1 # 1 => f[(n + 1) - 1] = e[n])
        BY <1>1
    <2> QED
        BY <1>1, <2>1 DEF AuditValid
<1> HIDE DEF f, n
<1>5. /\ Len(x.cid) = n + 1
      /\ \A k \in 1 .. n, j \in 1 .. n : j <= k => x.cid[j] = e[k].cid[j]
    <2>1. CASE n = 0
        <3>1. x.previous = <<>> /\ Len(x.previous) = 0
            BY <1>4, <2>1 DEF None
        <3> QED
            BY <2>1, <3>1 DEF Extends
    <2>2. CASE n # 0
        <3>1. n \in 1 .. Len(e) /\ x.previous = e[n].cid /\ Len(e) = n
            BY <1>1, <1>4, <2>2 DEF n
        <3>2. Len(e[n].cid) = n /\ \A k \in 1 .. n : \A j \in 1 .. k : e[k].cid[j] = e[n].cid[j]
            BY <1>3, <3>1 DEF Chained
        <3>3. Len(x.cid) = n + 1 /\ \A j \in 1 .. n : x.cid[j] = e[n].cid[j]
            BY <3>1, <3>2 DEF Extends
        <3>4. \A k \in 1 .. n, j \in 1 .. n : j <= k => x.cid[j] = e[k].cid[j]
            <4> SUFFICES ASSUME NEW k \in 1 .. n, NEW j \in 1 .. n, j <= k
                         PROVE  x.cid[j] = e[k].cid[j]
                OBVIOUS
            <4>1. j \in 1 .. k
                BY <1>1
            <4> QED
                BY <3>2, <3>3, <4>1
        <3> QED
            BY <3>3, <3>4
    <2> QED
        BY <2>1, <2>2
<1>6. ASSUME NEW i \in 1 .. Len(f), NEW k \in 1 .. i, NEW j \in 1 .. k
      PROVE  Len(f[i].cid) = i /\ f[k].cid[j] = f[i].cid[j]
    <2>1. CASE i \in 1 .. n
        <3>1. f[i] = e[i] /\ f[k] = e[k] /\ i \in 1 .. Len(e)
            BY <1>1, <2>1 DEF n
        <3> QED
            BY <1>3, <3>1 DEF Chained
    <2>2. CASE i = n + 1
        <3>1. CASE k = n + 1
            BY <1>1, <1>5, <2>2, <3>1
        <3>2. CASE k \in 1 .. n
            <4>1. j \in 1 .. n /\ j <= k /\ f[k] = e[k] /\ f[i] = x
                BY <1>1, <2>2, <3>2
            <4> QED
                BY <1>5, <2>2, <3>2, <4>1
        <3> QED
            BY <1>1, <2>2, <3>1, <3>2
    <2> QED
        BY <1>1, <2>1, <2>2
<1>7. \A i \in 1 .. Len(f) : 1 \in 1 .. i /\ 1 \in 1 .. 1
    BY <1>1
<1>8. Chained(f)
    BY <1>6, <1>7 DEF Chained
<1> QED
    BY <1>8 DEF f

(* The packet of a chained ledger commits to all of it. *)
LEMMA PacketCommits ==
    ASSUME NEW e \in Seq(Entries), Chained(e)
    PROVE  Commits(Packet(e))
<1> DEFINE p == Packet(e)
<1>1. Len(p.cids) = Len(e) /\ \A i \in 1 .. Len(e) : p.cids[i] = e[i].cid
    BY PacketType
<1>2. p.latest = LatestCid(e)
    BY DEF Packet
<1> HIDE DEF p
<1>3. CASE e = <<>>
    <2>1. Len(e) = 0 /\ p.latest = <<>>
        BY <1>2, <1>3 DEF LatestCid, None
    <2> QED
        BY <1>1, <2>1 DEF Commits, p
<1>4. CASE e # <<>>
    <2>1. Len(e) \in 1 .. Len(e)
        BY <1>4
    <2>2. p.latest = e[Len(e)].cid
        BY <1>2, <1>4 DEF LatestCid, Last
    <2>3. Len(p.latest) = Len(p.cids)
        BY <1>1, <2>1, <2>2 DEF Chained
    <2>4. \A i \in 1 .. Len(e) : Len(e[i].cid) = i /\ \A j \in 1 .. i : e[i].cid[j] = p.latest[j]
        BY <2>1, <2>2 DEF Chained
    <2> QED
        BY <1>1, <2>3, <2>4 DEF Commits, p
<1> QED
    BY <1>3, <1>4

LEMMA ChainInvStep == ChainInv /\ [Next]_vars => ChainInv'
<1> SUFFICES ASSUME ChainInv, [Next]_vars PROVE ChainInv'
    OBVIOUS
<1>1. Shape' /\ Shape
    BY ShapeStep DEF ChainInv
<1>2. (\A s \in Sealers : pc[s] # "idle" => Extends(draft[s]))'
    BY DraftsExtendStep DEF ChainInv
<1>3. (AuditValid(ledger) => Chained(ledger))'
    <2>1. CASE ledger' = ledger
        BY <2>1 DEF ChainInv, AuditValid, Chained
    <2>2. ASSUME NEW s \in Sealers, pc[s] = "append", ledger' = Append(ledger, Entry(s))
          PROVE  AuditValid(ledger') => Chained(ledger')
        <3>1. Entry(s) \in Entries /\ Extends(Entry(s))
            BY <1>1, <2>2, EntryType DEF ChainInv, Extends
        <3> QED
            BY <1>1, <2>2, <3>1, ChainGrows DEF ChainInv, Shape
    <2>3. AuditValid(ledger') => Chained(ledger')
        BY <1>1, <2>1, <2>2, LedgerStep
    <2> QED
        BY <2>3 DEF AuditValid, Chained
<1>4. (packet.valid => Commits(packet))'
    <2>1. CASE packet' = packet
        BY <2>1 DEF ChainInv, Commits
    <2>2. CASE packet' = Packet(ledger)
        <3>1. packet'.valid => Chained(ledger)
            BY <2>2 DEF ChainInv, Packet
        <3>2. packet'.valid => Commits(packet')
            BY <1>1, <2>2, <3>1, PacketCommits DEF Shape
        <3> QED
            BY <3>2 DEF Commits
    <2>3. packet' = packet \/ packet' = Packet(ledger)
        BY DEF Next, Begin, Pin, Verify, ReadLength, AppendEntry, Fail, Unreadable,
               DieAppending, Audit, MerkleLeaves, MerkleAnchor, Certify, vars, audits
    <2> QED
        BY <2>1, <2>2, <2>3
<1> QED
    BY <1>1, <1>2, <1>3, <1>4 DEF ChainInv

(* A packet whose audit was valid commits, in its latest CID alone, to every *)
(* receipt of the ledger it audited: no fork, repetition or lost entry       *)
(* passes, however the sealers raced.                                        *)
THEOREM AuditWorth == Spec => []LatestCommitsToAll
<1>1. Init => ChainInv
    <2> SUFFICES ASSUME Init PROVE ChainInv
        OBVIOUS
    <2>1. ledger = <<>> /\ ~packet.valid /\ \A s \in Sealers : pc[s] = "idle"
        BY DEF Init, NoPacket
    <2>2. Chained(ledger)
        BY <2>1 DEF Chained
    <2> QED
        BY <2>1, <2>2, ShapeInit DEF ChainInv
<1>2. ChainInv => LatestCommitsToAll
    <2> SUFFICES ASSUME ChainInv, packet.valid
                 PROVE  /\ Len(packet.latest) = Len(packet.cids)
                        /\ \A i \in 1 .. Len(packet.cids) :
                             packet.cids[i] = SubSeq(packet.latest, 1, i)
        BY DEF LatestCommitsToAll
    <2>1. Commits(packet) /\ packet.cids \in Seq(Cids) /\ packet.latest \in Seq(Receipts)
        BY DEF ChainInv, Shape, Packets, Cids
    <2>2. ASSUME NEW i \in 1 .. Len(packet.cids)
          PROVE  packet.cids[i] = SubSeq(packet.latest, 1, i)
        <3> DEFINE a == packet.cids[i]
                   l == packet.latest
                   b == SubSeq(l, 1, i)
        <3>1. a \in Seq(Receipts) /\ Len(a) = i /\ i \in 1 .. Len(l) /\ \A j \in 1 .. i : a[j] = l[j]
            BY <2>1 DEF Commits, Cids
        <3>2. b \in Seq(Receipts) /\ Len(b) = i /\ \A j \in 1 .. i : b[j] = l[j]
            BY <2>1, <3>1
        <3> HIDE DEF a, b, l
        <3>3. a = b
            BY <3>1, <3>2, SeqEqual
        <3> QED
            BY <3>3 DEF a, b, l
    <2> QED
        BY <2>1, <2>2 DEF Commits
<1> QED
    BY <1>1, <1>2, ChainInvStep, PTL DEF Spec
=============================================================================
