------------------------ MODULE DirectoryWritersProofs ------------------------
(***************************************************************************)
(* Proofs about the programs that write a directory, for any number of      *)
(* processes, captures, files, batches and faults.                          *)
(*                                                                         *)
(* The capture: what a process has asked for is a part of what it has       *)
(* visited, and the requests sent are counted by the redirects taken        *)
(* (Walk).  A target that is not absent is the whole bundle of one process, *)
(* which has committed it (Store).                                          *)
(*                                                                         *)
(* The campaign: the verdict compares three counts.  It is sound because of *)
(* what the loop leaves behind: only accepted captures have a complete      *)
(* directory (Stored), so what the replay finds valid is a subset of what   *)
(* was accepted (Reread), and equal counts of two such sets mean equal sets.*)
(*                                                                         *)
(* The ingestor: CopiesApproved says nothing while a batch runs, so it is   *)
(* not inductive: what is kept at every step is that an unapproved copy     *)
(* belongs to the cycle_id being asked about or to a fault (Accounted), and *)
(* that each copy lies under its own cycle_id (Placed), without which a     *)
(* denial of one receipt could leave another's copy unaccounted for.        *)
(***************************************************************************)
EXTENDS DirectoryWriters, FiniteSetTheorems, SequenceTheorems, TLAPS

-----------------------------------------------------------------------------
(* A behaviour of the programs is one of each, which does not move unless it *)
(* is the one that runs.                                                     *)

LEMMA CaptureRuns == Spec => Capture!Spec
<1>1. Init => Capture!Init
  BY DEF Init
<1>2. [Next]_vars => [Capture!Next]_(Capture!vars)
  BY DEF Next, vars, captureVars, Capture!vars
<1> QED
  BY <1>1, <1>2, PTL DEF Spec, Capture!Spec

LEMMA CampaignRuns == Spec => Campaign!Spec
<1>1. Init => Campaign!Init
  BY DEF Init
<1>2. [Next]_vars => [Campaign!Next]_(Campaign!vars)
  BY DEF Next, vars, campaignVars, Campaign!vars, Campaign!world
<1> QED
  BY <1>1, <1>2, PTL DEF Spec, Campaign!Spec

LEMMA IngestorRuns == Spec => Ingestor!Spec
<1>1. Init => Ingestor!Init
  BY DEF Init
<1>2. [Next]_vars => [Ingestor!Next]_(Ingestor!vars)
  BY DEF Next, vars, ingestVars, Ingestor!vars, Ingestor!config, Ingestor!history
<1> QED
  BY <1>1, <1>2, PTL DEF Spec, Ingestor!Spec

LEMMA CaptureConstants ==
    /\ NoProcess \notin Procs
    /\ Addresses \subseteq Nat /\ Public \subseteq Addresses /\ MaxRedirects \in Nat
BY WritersAssumption DEF Capture!CaptureAssumption

LEMMA CampaignConstants == Count \in Nat \ {0} /\ MaxFaults \in Nat /\ MaxSwitches \in Nat
BY WritersAssumption DEF Campaign!CampaignAssumption

LEMMA IngestConstants ==
    /\ Listing \in Seq(Sources) /\ \A s \in Sources : \E n \in 1 .. Len(Listing) : Listing[n] = s
    /\ Ingestor!Nobody \notin Sources /\ Ingestor!Torn \notin Sources
BY WritersAssumption DEF Ingestor!IngestAssumption

-----------------------------------------------------------------------------
(* The capture command. *)

Sent(p) == {requests[p][i].url : i \in 1 .. Len(requests[p])}

Walk(p) ==
    /\ pc[p] \in {"start", "visit", "request"} => Len(requests[p]) = hops[p]
    /\ pc[p] = "response" => Len(requests[p]) = hops[p] + 1
    /\ \A i \in 1 .. Len(requests[p]) : requests[p][i].url \in visited[p]
    /\ pc[p] = "request" =>
           /\ pinned[p] \in Public /\ Capture!Sound(url[p]) /\ url[p] \in visited[p]
           /\ \A i \in 1 .. Len(requests[p]) : requests[p][i].url # url[p]

Store ==
    /\ target = {} \/ \E p \in Procs : target = Capture!Bundle(p)
                                        /\ pc[p] \in {"committed", "ok", "died"}
    /\ \A p \in Procs : pc[p] \in {"committed", "ok"} => target = Capture!Bundle(p)

WalkInv ==
    Capture!TypeOK /\ (\A p \in Procs : Walk(p)) /\ Capture!OnlyPublicContacted /\ Capture!RequestsBounded

-----------------------------------------------------------------------------
LEMMA FilesListed == Capture!Files = {"raw.bin", "normalized.json", "snapshot.json"}
<1>1. 1 .. 3 = {1, 2, 3}
  OBVIOUS
<1> QED
  BY <1>1 DEF Capture!Files, Capture!Written, Capture!Order

(* A bundle is not empty and belongs to one process. *)
LEMMA BundlesDiffer ==
    ASSUME NEW p \in Procs, NEW q \in Procs
    PROVE  Capture!Bundle(p) # {} /\ (Capture!Bundle(p) = Capture!Bundle(q) => p = q)
<1>1. <<p, "raw.bin">> \in Capture!Bundle(p)
  BY FilesListed DEF Capture!Bundle
<1>2. <<p, "raw.bin">> \in Capture!Bundle(q) => p = q
  BY DEF Capture!Bundle
<1> QED
  BY <1>1, <1>2

LEMMA TypeInit == Capture!Init => Capture!TypeOK
BY CaptureConstants DEF Capture!Init, Capture!TypeOK, Capture!NoPayload, Capture!Ended

LEMMA TypeStep == Capture!TypeOK /\ [Capture!Next]_(Capture!vars) => Capture!TypeOK'
<1> SUFFICES ASSUME Capture!TypeOK, [Capture!Next]_(Capture!vars) PROVE Capture!TypeOK'
  OBVIOUS
<1> USE DEF Capture!TypeOK, Capture!fetching, Capture!Goto, Capture!Ended
<1>1. CASE UNCHANGED Capture!vars
  BY <1>1 DEF Capture!vars
<1>2. ASSUME NEW p \in Procs, Capture!Step(p) PROVE Capture!TypeOK'
  <2>1. ASSUME NEW e \in Capture!Environments, Capture!Begin(p, e) \/ Capture!Refuse(p,
  e) PROVE Capture!TypeOK'
    BY <2>1 DEF Capture!Begin, Capture!Refuse
  <2>2. ASSUME NEW answer \in SUBSET Addresses, Capture!VisitFails(p, answer) PROVE Capture!TypeOK'
    BY <2>2 DEF Capture!VisitFails
  <2>3. ASSUME NEW answer \in SUBSET Addresses, NEW a \in Addresses, Capture!Visit(p, answer, a)
        PROVE  Capture!TypeOK'
    BY <2>3 DEF Capture!Visit
  <2>4. CASE Capture!Request(p)
    <3> DEFINE R == [url : Urls, address : Addresses \cup {0}]
               r == [url |-> url[p], address |-> pinned[p]]
    <3>1. r \in R /\ requests[p] \in Seq(R)
      OBVIOUS
    <3>2. Append(requests[p], r) \in Seq(R)
      BY <3>1
    <3>3. requests' \in [Procs -> Seq(R)]
      BY <2>4, <3>2 DEF Capture!Request
    <3> QED
      BY <2>4, <3>3 DEF Capture!Request
  <2>5. ASSUME NEW u \in Urls, Capture!Redirect(p, u) PROVE Capture!TypeOK'
    <3>1. hops[p] + 1 \in 0 .. MaxRedirects
      <4>1. hops[p] \in 0 .. MaxRedirects /\ hops[p] < MaxRedirects
        BY <2>5 DEF Capture!Redirect
      <4> QED
        BY <4>1, CaptureConstants
    <3> QED
      BY <2>5, <3>1 DEF Capture!Redirect
  <2>6. ASSUME NEW x \in Capture!Payloads, Capture!Receive(p, x) PROVE Capture!TypeOK'
    BY <2>6 DEF Capture!Receive
  <2>7. CASE Capture!Reject(p) \/ Capture!Stage(p) \/ Capture!StageFails(p)
           \/ Capture!Report(p) \/ Capture!Die(p)
    BY <2>7 DEF Capture!Reject, Capture!Stage, Capture!StageFails, Capture!Report, Capture!Die
  <2>8. ASSUME NEW i \in 1 .. 3, Capture!WriteFile(p, i) PROVE Capture!TypeOK'
    <3>1. Capture!Order[i] \in Capture!Files
      BY DEF Capture!Files, Capture!Written
    <3> QED
      BY <2>8, <3>1 DEF Capture!WriteFile
  <2>9. CASE Capture!Replace(p)
    BY <2>9 DEF Capture!Replace
  <2>10. CASE Capture!WriteFails(p)
    BY <2>10 DEF Capture!WriteFails
  <2> QED
    BY <1>2, <2>1, <2>2, <2>3, <2>4, <2>5, <2>6, <2>7, <2>8, <2>9, <2>10 DEF Capture!Step
<1> QED
  BY <1>1, <1>2 DEF Capture!Next

LEMMA WalkInit == Capture!Init => WalkInv
<1> SUFFICES ASSUME Capture!Init PROVE WalkInv
  OBVIOUS
<1>1. \A p \in Procs : /\ Len(requests[p]) = 0 /\ hops[p] = 0 /\ pc[p] = "start"
                       /\ \A i \in 1 .. Len(requests[p]) : FALSE
  <2>1. \A p \in Procs : requests[p] = <<>> /\ hops[p] = 0 /\ pc[p] = "start"
    BY DEF Capture!Init
  <2>2. Len(<<>>) = 0 /\ \A i \in 1 .. 0 : FALSE
    OBVIOUS
  <2> QED
    BY <2>1, <2>2
<1>2. \A p \in Procs : Walk(p)
  BY <1>1 DEF Walk
<1>3. Capture!OnlyPublicContacted
  BY <1>1 DEF Capture!OnlyPublicContacted
<1>4. 0 <= MaxRedirects + 1
  BY CaptureConstants
<1>5. Capture!RequestsBounded
  BY <1>1, <1>4 DEF Capture!RequestsBounded
<1> QED
  BY <1>2, <1>3, <1>5, TypeInit DEF WalkInv

(* A step that sends nothing and keeps the invariant of its own process keeps  *)
(* it for all.                                                                 *)
LEMMA OthersWalk ==
    ASSUME WalkInv, Capture!TypeOK', NEW p \in Procs, requests' = requests, Walk(p)',
           \A q \in Procs : q # p =>
               pc'[q] = pc[q] /\ url'[q] = url[q] /\ visited'[q] = visited[q]
               /\ hops'[q] = hops[q] /\ pinned'[q] = pinned[q]
    PROVE  WalkInv'
<1>1. ASSUME NEW q \in Procs, q # p PROVE Walk(q)'
  BY <1>1 DEF WalkInv, Walk
<1>2. \A q \in Procs : Walk(q)'
  BY <1>1
<1>3. Capture!OnlyPublicContacted' /\ Capture!RequestsBounded'
  BY DEF WalkInv, Capture!OnlyPublicContacted, Capture!RequestsBounded
<1> QED
  BY <1>2, <1>3 DEF WalkInv

(* The request: a new URL, and one more request than redirects.                *)
LEMMA RequestWalk ==
    ASSUME WalkInv, Capture!TypeOK', NEW p \in Procs, Capture!Request(p)
    PROVE  WalkInv'
<1> DEFINE r == [url |-> url[p], address |-> pinned[p]]
           n == Len(requests[p])
<1> USE DEF WalkInv
<1>1. /\ pc[p] = "request" /\ pc'[p] = "response" /\ requests'[p] = Append(requests[p], r)
      /\ \A q \in Procs : q # p => pc'[q] = pc[q] /\ requests'[q] = requests[q]
      /\ url' = url /\ visited' = visited /\ hops' = hops /\ pinned' = pinned
  BY DEF Capture!Request, Capture!Goto, Capture!TypeOK
<1>2. requests[p] \in Seq([url : Urls, address : Addresses \cup {0}])
  BY DEF Capture!TypeOK
<1>3. /\ n \in Nat /\ Len(requests'[p]) = n + 1
      /\ \A i \in 1 .. n : requests'[p][i] = requests[p][i]
      /\ requests'[p][n + 1] = r
  BY <1>1, <1>2
<1>4. \A i \in 1 .. n + 1 : i \in 1 .. n \/ i = n + 1
  BY <1>3
<1>5. /\ n = hops[p] /\ hops[p] \in 0 .. MaxRedirects
      /\ pinned[p] \in Public /\ Capture!Sound(url[p]) /\ url[p] \in visited[p]
      /\ \A i \in 1 .. n : requests[p][i].url # url[p] /\ requests[p][i].url \in visited[p]
  BY <1>1 DEF Walk, Capture!TypeOK
<1>6. Walk(p)'
  BY <1>1, <1>3, <1>4, <1>5 DEF Walk
<1>7. ASSUME NEW q \in Procs PROVE Walk(q)'
  <2>1. CASE q # p
    BY <2>1, <1>1 DEF Walk
  <2> QED
    BY <2>1, <1>6
<1>8. Capture!OnlyPublicContacted'
  <2> SUFFICES ASSUME NEW q \in Procs, NEW i \in 1 .. Len(requests'[q])
               PROVE  requests'[q][i].address \in Public /\ Capture!Sound(requests'[q][i].url)
    BY DEF Capture!OnlyPublicContacted, Capture!Sound
  <2>1. CASE q # p
    BY <2>1, <1>1 DEF Capture!OnlyPublicContacted
  <2>2. CASE q = p /\ i \in 1 .. n
    BY <2>2, <1>3 DEF Capture!OnlyPublicContacted
  <2>3. CASE q = p /\ i = n + 1
    BY <2>3, <1>3, <1>5
  <2> QED
    BY <2>1, <2>2, <2>3, <1>3, <1>4
<1>9. Capture!RequestsBounded'
  <2> SUFFICES ASSUME NEW q \in Procs
               PROVE  /\ Len(requests'[q]) <= MaxRedirects + 1
                      /\ \A i, j \in 1 .. Len(requests'[q]) :
                             requests'[q][i].url = requests'[q][j].url => i = j
    BY DEF Capture!RequestsBounded
  <2>1. CASE q # p
    BY <2>1, <1>1 DEF Capture!RequestsBounded
  <2>2. CASE q = p
    <3>1. n + 1 <= MaxRedirects + 1
      BY <1>5, CaptureConstants
    <3>2. \A i, j \in 1 .. n : requests[p][i].url = requests[p][j].url => i = j
      BY DEF Capture!RequestsBounded
    <3>3. \A i \in 1 .. n : requests'[p][i].url # requests'[p][n + 1].url
      <4>1. requests'[p][n + 1].url = url[p]
        BY <1>3
      <4>2. ASSUME NEW i \in 1 .. n PROVE requests'[p][i].url # url[p]
        <5>1. requests'[p][i] = requests[p][i]
          BY <1>3
        <5> QED
          BY <5>1, <1>5
      <4> HIDE DEF n
      <4> QED
        BY <4>1, <4>2
    <3>4. ASSUME NEW i \in 1 .. n + 1, NEW j \in 1 .. n + 1,
                 requests'[p][i].url = requests'[p][j].url
          PROVE  i = j
      <4>1. CASE i \in 1 .. n /\ j \in 1 .. n
        BY <4>1, <3>2, <3>4, <1>3
      <4>2. CASE i \in 1 .. n /\ j = n + 1
        BY <4>2, <3>4, <3>3
      <4>3. CASE i = n + 1 /\ j \in 1 .. n
        BY <4>3, <3>4, <3>3
      <4>4. (i \in 1 .. n \/ i = n + 1) /\ (j \in 1 .. n \/ j = n + 1)
        BY <1>4
      <4> HIDE DEF n
      <4> QED
        BY <4>1, <4>2, <4>3, <4>4
    <3>5. Len(requests'[p]) = n + 1
      BY <1>3
    <3> HIDE DEF n
    <3>6. \A i, j \in 1 .. n + 1 : requests'[p][i].url = requests'[p][j].url => i = j
      BY <3>4
    <3> QED
      BY <2>2, <3>1, <3>5, <3>6
  <2> QED
    BY <2>1, <2>2
<1> QED
  BY <1>7, <1>8, <1>9

LEMMA WalkStep == WalkInv /\ [Capture!Next]_(Capture!vars) => WalkInv'
<1> SUFFICES ASSUME WalkInv, [Capture!Next]_(Capture!vars) PROVE WalkInv'
  OBVIOUS
<1>1. Capture!TypeOK'
  BY TypeStep DEF WalkInv
<1>2. CASE UNCHANGED Capture!vars
  BY <1>2, <1>1 DEF Capture!vars, WalkInv, Walk, Capture!OnlyPublicContacted, Capture!RequestsBounded
<1>3. ASSUME NEW p \in Procs, Capture!Step(p) PROVE WalkInv'
  <2> DEFINE Elsewhere == \A q \in Procs : q # p => pc'[q] = pc[q]
  <2>1. ASSUME NEW e \in Capture!Environments, Capture!Begin(p, e) \/ Capture!Refuse(p,
  e) PROVE WalkInv'
    <3>1. Walk(p)' /\ Elsewhere
      BY <2>1 DEF Capture!Begin, Capture!Refuse, Capture!Goto, Capture!fetching, WalkInv,
         Capture!TypeOK, Walk
    <3> QED
      BY <2>1, <3>1, <1>1, OthersWalk DEF Capture!Begin, Capture!Refuse, Capture!fetching
  <2>2. ASSUME NEW answer \in SUBSET Addresses, Capture!VisitFails(p, answer) PROVE WalkInv'
    <3>1. Walk(p)' /\ Elsewhere
      BY <2>2 DEF Capture!VisitFails, Capture!Goto, Capture!fetching, WalkInv, Capture!TypeOK, Walk
    <3> QED
      BY <2>2, <3>1, <1>1, OthersWalk DEF Capture!VisitFails, Capture!fetching
  <2>3. ASSUME NEW answer \in SUBSET Addresses, NEW a \in Addresses, Capture!Visit(p, answer, a)
        PROVE  WalkInv'
    <3>1. /\ pc[p] = "visit" /\ pc'[p] = "request" /\ Elsewhere
          /\ visited'[p] = visited[p] \cup {url[p]} /\ pinned'[p] = a
          /\ \A q \in Procs : q # p => visited'[q] = visited[q] /\ pinned'[q] = pinned[q]
          /\ url' = url /\ hops' = hops /\ requests' = requests
          /\ url[p] \notin visited[p] /\ Capture!Sound(url[p]) /\ a \in Public
      BY <2>3 DEF Capture!Visit, Capture!Goto, WalkInv, Capture!TypeOK, Capture!Accepted,
         Capture!IsFirst
    <3>2. Walk(p)
      BY DEF WalkInv
    <3>3. Walk(p)'
      BY <3>1, <3>2 DEF Walk, Capture!Sound
    <3> QED
      BY <3>1, <3>3, <1>1, OthersWalk
  <2>4. CASE Capture!Request(p)
    BY <2>4, <1>1, RequestWalk
  <2>5. ASSUME NEW u \in Urls, Capture!Redirect(p, u) PROVE WalkInv'
    <3>1. /\ pc[p] = "response" /\ pc'[p] = "visit" /\ Elsewhere
          /\ hops'[p] = hops[p] + 1 /\ visited' = visited /\ pinned' = pinned
          /\ \A q \in Procs : q # p => url'[q] = url[q] /\ hops'[q] = hops[q]
          /\ requests' = requests
      BY <2>5 DEF Capture!Redirect, Capture!Goto, WalkInv, Capture!TypeOK
    <3>2. Walk(p)
      BY DEF WalkInv
    <3>3. Walk(p)'
      BY <3>1, <3>2 DEF Walk
    <3> QED
      BY <3>1, <3>3, <1>1, OthersWalk
  <2>6. ASSUME NEW x \in Capture!Payloads, Capture!Receive(p, x) PROVE WalkInv'
    <3>1. Walk(p)' /\ Elsewhere
      BY <2>6 DEF Capture!Receive, Capture!Goto, Capture!fetching, WalkInv, Capture!TypeOK, Walk
    <3> QED
      BY <2>6, <3>1, <1>1, OthersWalk DEF Capture!Receive, Capture!fetching
  <2>7. CASE Capture!Reject(p) \/ Capture!Stage(p) \/ Capture!StageFails(p)
           \/ Capture!Report(p) \/ Capture!Die(p)
    <3>1. Walk(p)' /\ Elsewhere
      BY <2>7 DEF Capture!Reject, Capture!Stage, Capture!StageFails, Capture!Report, Capture!Die,
         Capture!Goto, Capture!fetching, WalkInv, Capture!TypeOK, Walk
    <3> QED
      BY <2>7, <3>1, <1>1, OthersWalk DEF Capture!Reject, Capture!Stage, Capture!StageFails,
         Capture!Report, Capture!Die, Capture!fetching
  <2>8. CASE Capture!Replace(p) \/ Capture!WriteFails(p) \/ \E i \in 1 .. 3 : Capture!WriteFile(p, i)
    <3>1. Walk(p)' /\ Elsewhere
      BY <2>8 DEF Capture!Replace, Capture!WriteFails, Capture!WriteFile, Capture!Goto,
         Capture!fetching, WalkInv, Capture!TypeOK, Walk
    <3> QED
      BY <2>8, <3>1, <1>1, OthersWalk DEF Capture!Replace, Capture!WriteFails, Capture!WriteFile,
         Capture!fetching
  <2> QED
    BY <1>3, <2>1, <2>2, <2>3, <2>4, <2>5, <2>6, <2>7, <2>8 DEF Capture!Step
<1> QED
  BY <1>2, <1>3 DEF Capture!Next

(* Types of the state of the capture hold in every reachable state. *)
THEOREM CaptureTypes == Spec => []Capture!TypeOK
BY TypeInit, TypeStep, CaptureRuns, PTL DEF Capture!Spec

(* Every request of every process goes to a global address and an allowlisted  *)
(* URL, whatever the resolver and the servers answer.                          *)
THEOREM RequestsPublic == Spec => []OnlyPublicContacted
<1>1. WalkInv => OnlyPublicContacted
  BY DEF OnlyPublicContacted, WalkInv
<1> QED
  BY <1>1, WalkInit, WalkStep, CaptureRuns, PTL DEF Capture!Spec

(* No process sends more than MAX_REDIRECTS + 1 requests or repeats a URL.     *)
THEOREM RequestsLimited == Spec => []Capture!RequestsBounded
<1>1. WalkInv => Capture!RequestsBounded
  BY DEF WalkInv
<1> QED
  BY <1>1, WalkInit, WalkStep, CaptureRuns, PTL DEF Capture!Spec

-----------------------------------------------------------------------------
LEMMA StoreInit == Capture!Init => Store
BY DEF Capture!Init, Store

(* What a step does to the target and to the ends of the processes: it commits *)
(* one bundle to an absent target, or it leaves the target alone and moves one *)
(* process, which has committed before if it is to have committed after.       *)
LEMMA Effects ==
    ASSUME Capture!TypeOK, NEW p \in Procs, Capture!Step(p)
    PROVE  /\ \A q \in Procs : q # p => pc'[q] = pc[q]
           /\ pc[p] \notin Capture!Ended
           /\ \/ /\ target = {} /\ target' = Capture!Bundle(p)
                 /\ pc[p] = "write" /\ pc'[p] = "committed"
              \/ /\ target' = target
                 /\ pc'[p] # "committed"
                 /\ pc[p] = "committed" => pc'[p] \in {"ok", "died"}
                 /\ pc'[p] = "ok" => pc[p] = "committed"
<1> USE DEF Capture!Goto, Capture!TypeOK, Capture!Ended
<1>1. ASSUME NEW e \in Capture!Environments, Capture!Begin(p, e) \/ Capture!Refuse(p,
e) PROVE target' = target
         /\ pc[p] = "start" /\ pc'[p] \in {"visit", "error"}
         /\ \A q \in Procs : q # p => pc'[q] = pc[q]
  BY <1>1 DEF Capture!Begin, Capture!Refuse
<1>2. ASSUME NEW answer \in SUBSET Addresses, Capture!VisitFails(p, answer) PROVE target' = target
         /\ pc[p] = "visit" /\ pc'[p] = "error"
         /\ \A q \in Procs : q # p => pc'[q] = pc[q]
  BY <1>2 DEF Capture!VisitFails
<1>3. ASSUME NEW answer \in SUBSET Addresses, NEW a \in Addresses, Capture!Visit(p, answer, a)
      PROVE  target' = target /\ pc[p] = "visit" /\ pc'[p] = "request"
             /\ \A q \in Procs : q # p => pc'[q] = pc[q]
  BY <1>3 DEF Capture!Visit
<1>4. ASSUME NEW u \in Urls, Capture!Redirect(p, u) PROVE target' = target
         /\ pc[p] = "response" /\ pc'[p] = "visit"
         /\ \A q \in Procs : q # p => pc'[q] = pc[q]
  BY <1>4 DEF Capture!Redirect
<1>5. ASSUME NEW x \in Capture!Payloads, Capture!Receive(p, x) PROVE target' = target
         /\ pc[p] = "response" /\ pc'[p] = "snapshot"
         /\ \A q \in Procs : q # p => pc'[q] = pc[q]
  BY <1>5 DEF Capture!Receive
<1>6. CASE Capture!Request(p) \/ Capture!Reject(p) \/ Capture!Stage(p) \/ Capture!StageFails(p)
         \/ Capture!WriteFails(p)
  BY <1>6 DEF Capture!Request, Capture!Reject, Capture!Stage, Capture!StageFails, Capture!WriteFails
<1>7. ASSUME NEW i \in 1 .. 3, Capture!WriteFile(p, i)
      PROVE  target' = target /\ pc' = pc /\ pc[p] = "write"
  BY <1>7 DEF Capture!WriteFile
<1>8. CASE Capture!Replace(p)
  BY <1>8 DEF Capture!Replace, Capture!Bundle
<1>9. CASE Capture!Report(p) \/ Capture!Die(p)
  BY <1>9 DEF Capture!Report, Capture!Die
<1> QED
  BY <1>1, <1>2, <1>3, <1>4, <1>5, <1>6, <1>7, <1>8, <1>9 DEF Capture!Step

LEMMA StoreStep == Capture!TypeOK /\ Store /\ [Capture!Next]_(Capture!vars) => Store'
<1> SUFFICES ASSUME Capture!TypeOK, Store, [Capture!Next]_(Capture!vars) PROVE Store'
  OBVIOUS
<1>1. CASE UNCHANGED Capture!vars
  BY <1>1 DEF Capture!vars, Store, Capture!Bundle
<1>2. ASSUME NEW p \in Procs, Capture!Step(p) PROVE Store'
  <2>1. \A q \in Procs : q # p => pc'[q] = pc[q]
    BY <1>2, Effects
  <2>2. CASE target = {} /\ target' = Capture!Bundle(p) /\ pc'[p] = "committed"
    <3>1. ASSUME NEW q \in Procs, q # p PROVE pc'[q] \notin {"committed", "ok"}
      BY <3>1, <2>1, <2>2, BundlesDiffer DEF Store
    <3> QED
      BY <3>1, <2>2 DEF Store, Capture!Bundle
  <2>3. CASE /\ target' = target /\ pc[p] \notin Capture!Ended /\ pc'[p] # "committed"
             /\ pc[p] = "committed" => pc'[p] \in {"ok", "died"}
             /\ pc'[p] = "ok" => pc[p] = "committed"
    <3>1. ASSUME NEW q \in Procs, pc[q] \in {"committed", "ok", "died"}
          PROVE  pc'[q] \in {"committed", "ok", "died"}
      BY <3>1, <2>1, <2>3 DEF Capture!Ended
    <3>2. ASSUME NEW q \in Procs, pc'[q] \in {"committed", "ok"}
          PROVE  pc[q] \in {"committed", "ok"}
      BY <3>2, <2>1, <2>3
    <3> QED
      BY <3>1, <3>2, <2>3 DEF Store, Capture!Bundle
  <2> QED
    BY <1>2, <2>2, <2>3, Effects
<1> QED
  BY <1>1, <1>2 DEF Capture!Next

(* The owner of the target is the process whose bundle it is. *)
LEMMA OwnerIs ==
    /\ target = {} => Capture!Owner = NoProcess
    /\ \A p \in Procs : target = Capture!Bundle(p) => Capture!Owner = p
<1>1. ASSUME NEW p \in Procs, target = Capture!Bundle(p) PROVE Capture!Owner = p
  <2>1. target # {} /\ \A q \in Procs : target = Capture!Bundle(q) => q = p
    BY <1>1, BundlesDiffer
  <2> QED
    BY <1>1, <2>1 DEF Capture!Owner
<1> QED
  BY <1>1 DEF Capture!Owner

LEMMA OwnerIsNext ==
    \A p \in Procs : target' = Capture!Bundle(p) => Capture!Owner' = p
<1> SUFFICES ASSUME NEW p \in Procs, target' = Capture!Bundle(p) PROVE Capture!Owner' = p
  OBVIOUS
<1>1. target' # {} /\ \A q \in Procs : target' = Capture!Bundle(q) => q = p
  BY BundlesDiffer
<1> QED
  BY <1>1 DEF Capture!Owner, Capture!Bundle

LEMMA PromiseInit == Capture!Init => Capture!Promise!Init
BY OwnerIs DEF Capture!Init, Capture!Promise!Init, Capture!Ended

LEMMA PromiseStep ==
    Capture!TypeOK /\ Store /\ [Capture!Next]_(Capture!vars) => [Capture!Promise!Next]_(Capture!Promise!vars)
<1> DEFINE Outcome == [q \in Procs |-> IF pc[q] \in Capture!Ended THEN pc[q] ELSE "open"]
<1> SUFFICES ASSUME Capture!TypeOK, Store, [Capture!Next]_(Capture!vars)
             PROVE  Capture!Promise!Next \/ (Capture!Owner' = Capture!Owner /\ Outcome' = Outcome)
  BY DEF Capture!Promise!vars
<1>1. CASE UNCHANGED Capture!vars
  BY <1>1 DEF Capture!vars, Capture!Owner, Capture!Bundle
<1>2. ASSUME NEW p \in Procs, Capture!Step(p)
      PROVE  Capture!Promise!Next \/ (Capture!Owner' = Capture!Owner /\ Outcome' = Outcome)
  <2>1. pc[p] \notin Capture!Ended /\ \A q \in Procs : q # p => pc'[q] = pc[q]
    BY <1>2, Effects
  <2>2. CASE target = {} /\ target' = Capture!Bundle(p) /\ pc'[p] = "committed"
    <3>1. Capture!Owner = NoProcess /\ Capture!Owner' = p
      BY <2>2, OwnerIs, OwnerIsNext
    <3>2. Outcome' = Outcome /\ Outcome[p] = "open"
      BY <2>1, <2>2 DEF Capture!Ended
    <3>3. Capture!Promise!Commit(p)
      BY <3>1, <3>2 DEF Capture!Promise!Commit
    <3> QED
      BY <3>3 DEF Capture!Promise!Next
  <2>3. CASE /\ target' = target /\ pc'[p] # "committed"
             /\ pc[p] = "committed" => pc'[p] \in {"ok", "died"}
             /\ pc'[p] = "ok" => pc[p] = "committed"
    <3>1. Capture!Owner' = Capture!Owner
      BY <2>3 DEF Capture!Owner, Capture!Bundle
    <3>2. CASE pc'[p] \notin Capture!Ended
      <4>1. Outcome' = Outcome
        BY <3>2, <2>1
      <4> QED
        BY <3>1, <4>1
    <3>3. CASE pc'[p] \in Capture!Ended
      <4>1. Outcome' = [Outcome EXCEPT ![p] = pc'[p]] /\ Outcome[p] = "open"
        BY <3>3, <2>1
      <4>2. pc'[p] = "ok" => Capture!Owner = p
        BY <2>3, OwnerIs DEF Store
      <4>3. pc'[p] = "error" => Capture!Owner # p
        <5>1. ASSUME pc'[p] = "error" PROVE target # Capture!Bundle(p)
          BY <5>1, <2>1, <2>3, BundlesDiffer DEF Store, Capture!Ended
        <5>2. CASE target = {}
          BY <5>2, OwnerIs, CaptureConstants
        <5>3. CASE target # {}
          <6>1. PICK q \in Procs : target = Capture!Bundle(q)
            BY <5>3 DEF Store
          <6> QED
            BY <6>1, <5>1, OwnerIs
        <5> QED
          BY <5>2, <5>3
      <4>4. Capture!Promise!End(p, pc'[p])
        BY <3>1, <4>1, <4>2, <4>3 DEF Capture!Promise!End
      <4>5. pc'[p] \in {"ok", "error", "died"}
        BY <3>3 DEF Capture!Ended
      <4>6. \E r \in {"ok", "error", "died"} : Capture!Promise!End(p, r)
        BY <4>4, <4>5 DEF Capture!Promise!End
      <4> QED
        BY <4>6 DEF Capture!Promise!Next
    <3> QED
      BY <3>2, <3>3
  <2> QED
    BY <1>2, <2>2, <2>3, Effects
<1> QED
  BY <1>1, <1>2 DEF Capture!Next

(* The target is filled once and whole, by a call that does not report a       *)
(* failure, however many processes race for it and wherever they die.          *)
THEOREM CommitsAtomically == Spec => AtomicCommit
<1>1. Capture!TypeOK /\ Store /\ [Capture!Next]_(Capture!vars) => Capture!TypeOK' /\ Store'
  BY TypeStep, StoreStep
<1>2. Capture!Init => Capture!TypeOK /\ Store
  BY TypeInit, StoreInit
<1> QED
  BY <1>1, <1>2, PromiseInit, PromiseStep, CaptureRuns, PTL DEF Capture!Spec, AtomicCommit,
     Capture!AtomicCommit, Capture!Promise!Spec

-----------------------------------------------------------------------------
(* The Sepolia campaign. *)

Loop == {"start", "check", "ready", "request", "validate"}

CampaignShape ==
    /\ index \in 0 .. Count
    /\ runner \in Loop \cup {"replay"} \cup Campaign!Ended
    /\ bundle \in [Campaign!Captures -> {"none", "partial", "whole", "altered"}]
    /\ rollback \in [Campaign!Captures -> {Campaign!NoRollback, "kill_switch", "operator_abort",
                                  "dns_policy_failure", "source_outage"}]
    /\ accepted \subseteq Campaign!Captures /\ replayed \subseteq Campaign!Captures

\* In the loop the captures before the index are accepted and no others exist.
InLoop ==
    runner \in Loop =>
        /\ index < Count /\ accepted = 0 .. (index - 1)
        /\ \A j \in Campaign!Captures : rollback[j] = Campaign!NoRollback
        /\ \A j \in Campaign!Captures : j >= index => bundle[j] = "none"

\* A complete directory belongs to an accepted capture.
Stored == \A i \in Campaign!Captures : bundle[i] \in {"whole", "altered"} => i \in accepted

Reread == replayed \subseteq accepted

\* There is a summary only at the end, and its claims were true when made.
Summarised ==
    /\ summary # Campaign!NoSummary => runner = "done"
    /\ Campaign!PassIsEarned /\ Campaign!ReplayClaimTrue

CampaignInv == CampaignShape /\ InLoop /\ Stored /\ Reread /\ Campaign!StopsAtFirstFailure /\ Summarised

-----------------------------------------------------------------------------
LEMMA CapturesFinite == IsFiniteSet(Campaign!Captures) /\ Cardinality(Campaign!Captures) = Count
<1>1. Count \in Nat /\ Count # 0
  BY CampaignConstants
<1> QED
  BY <1>1, FS_Interval DEF Campaign!Captures

(* Of a set of captures and a subset with as many elements, both are equal. *)
LEMMA EqualCounts ==
    ASSUME NEW A, NEW B, A \subseteq B, B \subseteq Campaign!Captures,
           Cardinality(A) = Cardinality(B)
    PROVE  A = B
BY CapturesFinite, FS_Subset

LEMMA CampaignInit == Campaign!Init => CampaignInv
BY CampaignConstants DEF Campaign!Init, CampaignInv, CampaignShape, InLoop, Stored, Reread,
   Campaign!StopsAtFirstFailure,
   Summarised, Campaign!PassIsEarned, Campaign!ReplayClaimTrue, Campaign!NoSummary, Loop,
   Campaign!Rollbacks, Campaign!Captures

(* A rollback ends the loop with everything before it accepted. *)
LEMMA RollBackInv ==
    ASSUME CampaignInv, runner \in Loop,
           NEW trigger \in {"kill_switch", "operator_abort", "dns_policy_failure",
                            "source_outage"},
           rollback' = [rollback EXCEPT ![index] = trigger],
           bundle' = bundle \/ bundle' = [bundle EXCEPT ![index] = "partial"],
           runner' = "replay", index' = 0,
           UNCHANGED <<accepted, replayed, summary>>
    PROVE  CampaignInv'
<1> USE CampaignConstants
<1>1. index \in Campaign!Captures /\ Campaign!Rollbacks = {}
      /\ summary = Campaign!NoSummary /\ runner # "done"
  BY DEF CampaignInv, CampaignShape, InLoop, Campaign!Captures, Campaign!Rollbacks, Summarised, Loop
<1>2. Campaign!Rollbacks' = {index}
  BY <1>1 DEF CampaignInv, CampaignShape, Campaign!Rollbacks, Campaign!NoRollback
<1>3. CampaignShape' /\ InLoop' /\ Reread'
  BY <1>1 DEF CampaignInv, CampaignShape, InLoop, Reread, Loop, Campaign!Captures
<1>4. Stored'
  BY <1>1 DEF CampaignInv, Stored, CampaignShape
<1>5. Campaign!StopsAtFirstFailure'
  BY <1>1, <1>2 DEF CampaignInv, InLoop, Campaign!StopsAtFirstFailure, CampaignShape, Campaign!Captures
<1>6. Summarised'
  BY <1>1 DEF Summarised, Campaign!PassIsEarned, Campaign!ReplayClaimTrue, Campaign!NoSummary
<1> QED
  BY <1>3, <1>4, <1>5, <1>6 DEF CampaignInv

(* A step that only moves the program counter within the loop or out of it. *)
LEMMA MoveInv ==
    ASSUME CampaignInv, runner \notin Campaign!Ended, runner' \in Loop \cup Campaign!Ended, runner' # "done",
           runner' \in Loop => runner \in Loop,
           UNCHANGED <<index, bundle, accepted, rollback, replayed, summary>>
    PROVE  CampaignInv'
<1>1. CampaignShape' /\ InLoop' /\ Stored' /\ Reread' /\ Campaign!StopsAtFirstFailure'
  BY DEF CampaignInv, CampaignShape, InLoop, Stored, Reread, Campaign!StopsAtFirstFailure,
     Campaign!Rollbacks
<1>2. Summarised'
  BY DEF CampaignInv, Summarised, Campaign!PassIsEarned, Campaign!ReplayClaimTrue, Campaign!Rollbacks,
     Campaign!Ended
<1> QED
  BY <1>1, <1>2 DEF CampaignInv

LEMMA AcceptInv == CampaignInv /\ Campaign!Accept => CampaignInv'
<1> SUFFICES ASSUME CampaignInv, Campaign!Accept PROVE CampaignInv'
  OBVIOUS
<1> USE CampaignConstants
<1>1. index \in Campaign!Captures /\ runner \in Loop /\ summary = Campaign!NoSummary
  BY DEF CampaignInv, CampaignShape, InLoop, Campaign!Captures, Summarised, Campaign!Accept, Loop
<1>2. accepted' = 0 .. index
  BY <1>1 DEF CampaignInv, CampaignShape, InLoop, Campaign!Accept, Campaign!Captures
<1>3. CampaignShape' /\ Reread'
  BY <1>1 DEF CampaignInv, CampaignShape, Reread, Campaign!Accept, Campaign!Captures, Loop
<1>4. InLoop'
  BY <1>1, <1>2 DEF CampaignInv, CampaignShape, InLoop, Campaign!Accept, Campaign!Captures, Loop
<1>5. Stored'
  BY <1>1 DEF CampaignInv, CampaignShape, Stored, Campaign!Accept
<1>6. Campaign!StopsAtFirstFailure' /\ Summarised'
  BY <1>1 DEF CampaignInv, InLoop, Campaign!StopsAtFirstFailure, Campaign!Rollbacks, Summarised,
     Campaign!PassIsEarned,
     Campaign!ReplayClaimTrue, Campaign!NoSummary, Campaign!Accept, Loop
<1> QED
  BY <1>3, <1>4, <1>5, <1>6 DEF CampaignInv

(* The module counts with the same cardinality as this one. *)
LEMMA SameCount == \A S : Campaign!Cardinality(S) = Cardinality(S)
  BY DEF Campaign!Cardinality, Cardinality

(* The verdict: equal counts are equal sets. *)
LEMMA SummaryInv == CampaignInv /\ Campaign!WriteSummary => CampaignInv'
<1> SUFFICES ASSUME CampaignInv, Campaign!WriteSummary PROVE CampaignInv'
  OBVIOUS
<1>1. CampaignShape' /\ InLoop' /\ Stored' /\ Reread' /\ Campaign!StopsAtFirstFailure'
  BY DEF CampaignInv, CampaignShape, InLoop, Stored, Reread, Campaign!StopsAtFirstFailure,
     Campaign!Rollbacks,
     Campaign!WriteSummary, Loop, Campaign!Ended
<1>2. Cardinality(replayed) = Cardinality(accepted) => replayed = accepted
  BY EqualCounts DEF CampaignInv, CampaignShape, Reread
<1>3. Cardinality(accepted) = Count => accepted = Campaign!Captures
  BY EqualCounts, CapturesFinite DEF CampaignInv, CampaignShape
<1>4. Summarised'
  BY <1>2, <1>3, SameCount DEF Campaign!WriteSummary, Campaign!Passed, Summarised,
     Campaign!PassIsEarned, Campaign!ReplayClaimTrue,
     Campaign!Rollbacks, CampaignInv, Campaign!Captures
<1> QED
  BY <1>1, <1>4 DEF CampaignInv

LEMMA CampaignStep == CampaignInv /\ [Campaign!Next]_(Campaign!vars) => CampaignInv'
<1> SUFFICES ASSUME CampaignInv, [Campaign!Next]_(Campaign!vars) PROVE CampaignInv'
  OBVIOUS
<1>1. CASE Campaign!Start
  BY <1>1, MoveInv DEF Campaign!Start, Loop, Campaign!Ended
<1>2. CASE Campaign!CheckFails
  <2> DEFINE trigger == CASE env = "kill_switch" -> "kill_switch"
                          [] OTHER -> "operator_abort"
  <2>1. trigger \in {"kill_switch", "operator_abort"}
    OBVIOUS
  <2> QED
    BY <1>2, <2>1, RollBackInv DEF Campaign!CheckFails, Campaign!RollBack, Loop
<1>3. CASE Campaign!Check
  BY <1>3, MoveInv DEF Campaign!Check, Loop, Campaign!Ended
<1>4. CASE Campaign!Request
  BY <1>4, MoveInv DEF Campaign!Request, Loop, Campaign!Ended
<1>5. ASSUME NEW e \in Campaign!Evidence, Campaign!AdapterReturns(e) PROVE CampaignInv'
  BY <1>5, MoveInv DEF Campaign!AdapterReturns, Loop, Campaign!Ended
<1>6. ASSUME NEW f \in Campaign!Failures, Campaign!AdapterFails(f) PROVE CampaignInv'
  <2> DEFINE trigger == CASE f = "resolution" -> "dns_policy_failure"
                          [] f = "source_outage" -> "source_outage"
                          [] OTHER -> "operator_abort"
  <2>1. trigger \in {"dns_policy_failure", "source_outage", "operator_abort"}
    OBVIOUS
  <2> QED
    BY <1>6, <2>1, RollBackInv DEF Campaign!AdapterFails, Campaign!RollBack, Loop
<1>7. CASE Campaign!Refuse
  BY <1>7, RollBackInv DEF Campaign!Refuse, Campaign!RollBack, Loop
<1>8. CASE Campaign!Accept
  BY <1>8, AcceptInv
<1>9. CASE Campaign!PersistFails
  BY <1>9, RollBackInv DEF Campaign!PersistFails, Loop
<1>10. CASE Campaign!ReplayOne
  BY <1>10, CampaignConstants DEF Campaign!ReplayOne, CampaignInv, CampaignShape, InLoop, Stored,
     Reread,
     Campaign!StopsAtFirstFailure, Summarised, Campaign!PassIsEarned, Campaign!ReplayClaimTrue,
     Campaign!NoSummary, Campaign!Rollbacks,
     Campaign!Captures, Loop
<1>11. CASE Campaign!ReplayRaises
  BY <1>11, MoveInv DEF Campaign!ReplayRaises, Loop, Campaign!Ended
<1>12. CASE Campaign!WriteSummary
  BY <1>12, SummaryInv
<1>13. CASE Campaign!WriteRaises
  BY <1>13, MoveInv DEF Campaign!WriteRaises, Loop, Campaign!Ended
<1>14. ASSUME NEW e \in Campaign!Environments, Campaign!Switch(e) PROVE CampaignInv'
  BY <1>14 DEF Campaign!Switch, CampaignInv, CampaignShape, InLoop, Stored, Reread,
     Campaign!StopsAtFirstFailure,
     Summarised, Campaign!PassIsEarned, Campaign!ReplayClaimTrue, Campaign!Rollbacks
<1>15. CASE Campaign!Expire
  BY <1>15 DEF Campaign!Expire, CampaignInv, CampaignShape, InLoop, Stored, Reread,
     Campaign!StopsAtFirstFailure,
     Summarised, Campaign!PassIsEarned, Campaign!ReplayClaimTrue, Campaign!Rollbacks
<1>16. ASSUME NEW i \in Campaign!Captures, Campaign!Tamper(i) PROVE CampaignInv'
  BY <1>16 DEF Campaign!Tamper, CampaignInv, CampaignShape, InLoop, Stored, Reread,
     Campaign!StopsAtFirstFailure,
     Summarised, Campaign!PassIsEarned, Campaign!ReplayClaimTrue, Campaign!Rollbacks
<1>17. CASE Campaign!Crash
  <2>1. CASE UNCHANGED bundle
    BY <1>17, <2>1, MoveInv DEF Campaign!Crash, Campaign!Ended, Loop, CampaignInv, CampaignShape
  <2>2. CASE runner = "validate" /\ bundle' = [bundle EXCEPT ![index] = "partial"]
    BY <1>17, <2>2, CampaignConstants DEF Campaign!Crash, CampaignInv, CampaignShape, InLoop, Stored,
       Reread,
       Campaign!StopsAtFirstFailure, Summarised, Campaign!PassIsEarned, Campaign!ReplayClaimTrue,
       Campaign!Rollbacks, Campaign!NoSummary,
       Campaign!Captures, Loop, Campaign!Ended
  <2> QED
    BY <1>17, <2>1, <2>2 DEF Campaign!Crash
<1>18. CASE UNCHANGED Campaign!vars
  BY <1>18 DEF Campaign!vars, CampaignInv, CampaignShape, InLoop, Stored, Reread,
     Campaign!StopsAtFirstFailure,
     Summarised, Campaign!PassIsEarned, Campaign!ReplayClaimTrue, Campaign!Rollbacks
<1> QED
  BY <1>1, <1>2, <1>3, <1>4, <1>5, <1>6, <1>7, <1>8, <1>9, <1>10, <1>11, <1>12, <1>13,
     <1>14, <1>15, <1>16, <1>17, <1>18 DEF Campaign!Next, Campaign!Step

(* A PASS means every capture was accepted and replayed, for any Count. *)
THEOREM PassSound == Spec => []PassIsEarned
<1>1. CampaignInv => PassIsEarned
  BY DEF PassIsEarned, CampaignInv, Summarised
<1> QED
  BY CampaignInit, CampaignStep, <1>1, CampaignRuns, PTL DEF Campaign!Spec

(* The summary's claim about the replay is true although it compares counts. *)
THEOREM ReplayClaimSound == Spec => []ReplayClaimTrue
<1>1. CampaignInv => ReplayClaimTrue
  BY DEF ReplayClaimTrue, CampaignInv, Summarised
<1> QED
  BY CampaignInit, CampaignStep, <1>1, CampaignRuns, PTL DEF Campaign!Spec

(* A campaign stops at its first failure. *)
THEOREM FirstFailureStops == Spec => []Campaign!StopsAtFirstFailure
<1>1. CampaignInv => Campaign!StopsAtFirstFailure
  BY DEF CampaignInv
<1> QED
  BY CampaignInit, CampaignStep, <1>1, CampaignRuns, PTL DEF Campaign!Spec

-----------------------------------------------------------------------------
CampaignVerdict ==
    IF summary.status = "PASS" THEN "PASS"
    ELSE IF runner \in Campaign!Ended THEN "HOLD" ELSE "open"

LEMMA AcceptRefines == CampaignInv /\ Campaign!Accept => Campaign!Promise!Accept
<1> SUFFICES ASSUME CampaignInv, Campaign!Accept PROVE Campaign!Promise!Accept
  OBVIOUS
<1>1. index \in 0 .. (Count - 1) /\ runner \in Loop /\ summary = Campaign!NoSummary
      /\ accepted = 0 .. (index - 1)
  BY CampaignConstants DEF CampaignInv, CampaignShape, InLoop, Summarised, Campaign!Accept, Loop
<1>2. Cardinality(accepted) = index /\ Cardinality(accepted') = index + 1
  <2>1. accepted' = 0 .. index
    BY <1>1 DEF Campaign!Accept
  <2>2. Cardinality(0 .. index) = index + 1
    BY <1>1, FS_Interval
  <2>3. Cardinality(0 .. (index - 1)) = index
    BY <1>1, FS_Interval
  <2> QED
    BY <1>1, <2>1, <2>2, <2>3
<1>3. runner \notin Campaign!Ended /\ runner' \notin Campaign!Ended /\ summary' = Campaign!NoSummary
  BY <1>1 DEF Campaign!Accept, Loop, Campaign!Ended
<1> QED
  BY <1>1, <1>2, <1>3, SameCount, CampaignConstants DEF Campaign!Promise!Accept, Campaign!NoSummary

LEMMA SummaryRefines ==
    CampaignInv /\ Campaign!WriteSummary => Campaign!Promise!Pass \/ Campaign!Promise!Hold
<1> SUFFICES ASSUME CampaignInv,
Campaign!WriteSummary PROVE Campaign!Promise!Pass \/ Campaign!Promise!Hold
  OBVIOUS
<1>1. summary = Campaign!NoSummary /\ runner \notin Campaign!Ended
      /\ runner' \in Campaign!Ended /\ accepted' = accepted
  BY DEF CampaignInv, Summarised, Campaign!WriteSummary, Campaign!Ended
<1>2. CASE Campaign!Passed
  <2>1. summary'.status = "PASS" /\ Campaign!Cardinality(accepted) = Count
    BY <1>2, SameCount DEF Campaign!WriteSummary, Campaign!Passed
  <2> QED
    BY <1>1, <2>1 DEF Campaign!Promise!Pass, Campaign!NoSummary
<1>3. CASE ~Campaign!Passed
  <2>1. summary'.status = "HOLD"
    BY <1>3 DEF Campaign!WriteSummary
  <2> QED
    BY <1>1, <2>1 DEF Campaign!Promise!Hold, Campaign!NoSummary
<1> QED
  BY <1>2, <1>3

(* Every other step leaves what was accepted, and the verdict, or is a HOLD. *)
LEMMA OtherRefines ==
    ASSUME CampaignInv, [Campaign!Next]_(Campaign!vars), ~Campaign!Accept, ~Campaign!WriteSummary
    PROVE  UNCHANGED <<Cardinality(accepted), CampaignVerdict>> \/ Campaign!Promise!Hold
<1>1. accepted' = accepted /\ summary' = summary
  BY DEF Campaign!Next, Campaign!Step, Campaign!Start, Campaign!CheckFails, Campaign!Check,
     Campaign!Request, Campaign!AdapterReturns, Campaign!AdapterFails,
     Campaign!Refuse, Campaign!PersistFails, Campaign!ReplayOne, Campaign!ReplayRaises,
     Campaign!WriteRaises, Campaign!Switch, Campaign!Expire, Campaign!Tamper,
     Campaign!Crash, Campaign!RollBack, Campaign!vars
<1>2. runner \in Campaign!Ended => runner' = runner
  BY DEF Campaign!Next, Campaign!Step, Campaign!Start, Campaign!CheckFails, Campaign!Check,
     Campaign!Request, Campaign!AdapterReturns, Campaign!AdapterFails,
     Campaign!Refuse, Campaign!PersistFails, Campaign!ReplayOne, Campaign!ReplayRaises,
     Campaign!WriteRaises, Campaign!Switch, Campaign!Expire, Campaign!Tamper,
     Campaign!Crash, Campaign!RollBack, Campaign!vars, Campaign!Ended
<1>3. CASE (runner \in Campaign!Ended) = (runner' \in Campaign!Ended)
  BY <1>1, <1>3 DEF CampaignVerdict
<1>4. CASE runner \notin Campaign!Ended /\ runner' \in Campaign!Ended
  <2>1. summary = Campaign!NoSummary
    BY <1>4 DEF CampaignInv, Summarised, Campaign!Ended
  <2> QED
    BY <1>1, <1>4, <2>1 DEF Campaign!Promise!Hold, Campaign!NoSummary
<1> QED
  BY <1>2, <1>3, <1>4

(* The campaign implements a fixed-count run: each step of it accepts one *)
(* capture, gives the final verdict, or changes neither. *)
THEOREM CampaignKeepsPromise == Spec => KeepsPromise
<1>1. Campaign!Init => Campaign!Promise!Init
  <2> SUFFICES ASSUME Campaign!Init PROVE Campaign!Promise!Init
    OBVIOUS
  <2>1. Campaign!Cardinality({}) = 0
    BY FS_EmptySet, SameCount
  <2> QED
    BY <2>1 DEF Campaign!Init, Campaign!Promise!Init, Campaign!NoSummary, Campaign!Ended
<1>2. CampaignInv /\ [Campaign!Next]_(Campaign!vars)
      => [Campaign!Promise!Next]_<<Cardinality(accepted), CampaignVerdict>>
  BY AcceptRefines, SummaryRefines, OtherRefines DEF Campaign!Promise!Next
<1>3. CampaignInv /\ [Campaign!Next]_(Campaign!vars)
      => [Campaign!Promise!Next]_<<Campaign!Cardinality(accepted),
             IF summary.status = "PASS" THEN "PASS"
             ELSE IF runner \in Campaign!Ended THEN "HOLD" ELSE "open">>
  BY <1>2, SameCount DEF CampaignVerdict
<1> QED
  BY CampaignInit, CampaignStep, <1>1, <1>3, CampaignRuns, PTL DEF Campaign!Spec, KeepsPromise,
     Campaign!KeepsPromise, Campaign!Promise!Spec

-----------------------------------------------------------------------------
\* A request since the switch was set is one whose check came before: no
\* second one can be ready.
Halting ==
    /\ late \in {0, 1}
    /\ late = 1 => env = "kill_switch" /\ runner # "ready"

LEMMA HaltingStep == Halting /\ [Campaign!Next]_(Campaign!vars) => Halting'
<1> SUFFICES ASSUME Halting, [Campaign!Next]_(Campaign!vars) PROVE Halting'
  OBVIOUS
<1> USE DEF Halting
<1>1. CASE Campaign!Request
  BY <1>1 DEF Campaign!Request, Campaign!world
<1>2. ASSUME NEW e \in Campaign!Environments, Campaign!Switch(e) PROVE Halting'
  BY <1>2 DEF Campaign!Switch
<1>3. CASE Campaign!Check
  BY <1>3 DEF Campaign!Check, Campaign!world
<1>4. ASSUME Campaign!Next, ~Campaign!Request, ~Campaign!Check,
\A e \in Campaign!Environments : ~Campaign!Switch(e)
      PROVE  late' = late /\ env' = env /\ (runner' = "ready" => runner = "ready")
  BY <1>4 DEF Campaign!Next, Campaign!Step, Campaign!Start, Campaign!CheckFails,
     Campaign!AdapterReturns, Campaign!AdapterFails, Campaign!Refuse, Campaign!Accept,
     Campaign!PersistFails, Campaign!ReplayOne, Campaign!ReplayRaises, Campaign!WriteSummary,
     Campaign!WriteRaises, Campaign!Expire, Campaign!Tamper, Campaign!Crash,
     Campaign!RollBack, Campaign!world
<1>5. CASE UNCHANGED Campaign!vars
  BY <1>5 DEF Campaign!vars, Campaign!world
<1> QED
  BY <1>1, <1>2, <1>3, <1>4, <1>5

(* Once the kill switch is set, at most the request whose check had already *)
(* passed is sent. *)
THEOREM KillSwitchHeeded == Spec => []Campaign!KillSwitchStops
<1>1. Campaign!Init => Halting
  BY DEF Campaign!Init, Halting
<1>2. Halting => Campaign!KillSwitchStops
  BY DEF Halting, Campaign!KillSwitchStops
<1> QED
  BY <1>1, <1>2, HaltingStep, CampaignRuns, PTL DEF Campaign!Spec

-----------------------------------------------------------------------------
(* The ingestor. *)

IngestShape ==
    /\ receipt \in [Sources -> Receipts]
    /\ copies \in [Ingestor!Ids -> Sources \cup {Ingestor!Nobody, Ingestor!Torn}]
    /\ writer \in [Ingestor!Ids -> Sources \cup {Ingestor!Nobody}]
    /\ pending \in Seq(Sources)
    /\ querying \in Sources \cup {Ingestor!Nobody}
    /\ querying # Ingestor!Nobody => pending # <<>>
    /\ outcome \in [Sources -> {"none", "success", "failed"}]

\* Every copy lies under its own cycle_id and is of a valid receipt.
Placed ==
    \A i \in Ingestor!Ids : copies[i] \in Sources => Ingestor!Id(copies[i]) = i /\ Ingestor!Valid(copies[i])

\* An unapproved copy is being asked about or was left by a fault.
Accounted ==
    governed => \A i \in Ingestor!Ids : copies[i] \in Sources =>
        \/ copies[i] \in approved
        \/ i \in leftovers
        \/ querying # Ingestor!Nobody /\ i = Ingestor!Id(querying)

\* The copy of the file being asked about is there, and it is the last writer.
Asking ==
    querying # Ingestor!Nobody =>
        writer[Ingestor!Id(querying)] = querying /\ copies[Ingestor!Id(querying)] = querying

IngestInv == IngestShape /\ Placed /\ Accounted /\ Asking /\ Ingestor!SuccessHasCopy

-----------------------------------------------------------------------------
LEMMA IdInIds == IngestShape => \A s \in Sources : Ingestor!Id(s) \in Ingestor!Ids
BY DEF IngestShape, Ingestor!Id, Ingestor!Ids

LEMMA IngestInit == Ingestor!Init => IngestInv
BY IngestConstants DEF Ingestor!Init, IngestInv, IngestShape, Placed, Accounted, Asking,
   Ingestor!SuccessHasCopy, Ingestor!Ids, Ingestor!Id

LEMMA IngestStep == IngestInv /\ [Ingestor!Next]_(Ingestor!vars) => IngestInv'
<1> SUFFICES ASSUME IngestInv, [Ingestor!Next]_(Ingestor!vars) PROVE IngestInv'
  OBVIOUS
<1> USE DEF IngestInv, IngestShape, Placed, Accounted, Asking, Ingestor!SuccessHasCopy, Ingestor!Id
<1>0. \A s \in Sources : Ingestor!Id(s) \in Ingestor!Ids
  BY IdInIds
<1>h. pending # <<>> => Head(pending) \in Sources /\ Tail(pending) \in Seq(Sources)
  BY HeadTailProperties
<1>v. Ingestor!config' = Ingestor!config => \A s : Ingestor!Valid(s)' = Ingestor!Valid(s)
  BY DEF Ingestor!Valid, Ingestor!ReceiptSound, Ingestor!ProofSound, Ingestor!config
<1> USE IngestConstants
<1>1. CASE Ingestor!StartBatch
  BY <1>0, <1>1, <1>v, IngestConstants DEF Ingestor!StartBatch, Ingestor!Running, Ingestor!config,
     Ingestor!history
<1>2. CASE Ingestor!Reject
  BY <1>0, <1>2, <1>h, <1>v DEF Ingestor!Reject, Ingestor!Ends, Ingestor!config, Ingestor!history
<1>3. CASE Ingestor!Ingest
  BY <1>0, <1>3, <1>h, <1>v DEF Ingestor!Ingest, Ingestor!Ends, Ingestor!config
<1>4. CASE Ingestor!WriteFails
  BY <1>0, <1>4, <1>h, <1>v DEF Ingestor!WriteFails, Ingestor!Ends, Ingestor!config
<1>5. CASE Ingestor!Approve
  BY <1>0, <1>5, <1>h, <1>v DEF Ingestor!Approve, Ingestor!Ends, Ingestor!config
<1>6. CASE Ingestor!Deny
  BY <1>0, <1>6, <1>h, <1>v DEF Ingestor!Deny, Ingestor!Ends, Ingestor!config
<1>7. CASE Ingestor!UnlinkFails
  BY <1>0, <1>7, <1>h, <1>v DEF Ingestor!UnlinkFails, Ingestor!Ends, Ingestor!config
<1>8. CASE Ingestor!AnswerNotAnObject
  BY <1>0, <1>8, <1>v DEF Ingestor!AnswerNotAnObject, Ingestor!config
<1>9. CASE Ingestor!Crash
  <2>0. <<>> \in Seq(Sources)
    BY EmptySeq
  <2>1. CASE Ingestor!DieWriting
    BY <1>0, <1>9, <1>h, <1>v, <2>0, <2>1 DEF Ingestor!Crash, Ingestor!DieWriting, Ingestor!config
  <2>2. CASE Ingestor!DieAsking
    BY <1>0, <1>9, <1>v, <2>0, <2>2 DEF Ingestor!Crash, Ingestor!DieAsking, Ingestor!config
  <2>3. CASE Ingestor!DieBetween
    BY <1>0, <1>9, <1>v, <2>0, <2>3 DEF Ingestor!Crash, Ingestor!DieBetween, Ingestor!config
  <2> QED
    BY <1>9, <2>1, <2>2, <2>3 DEF Ingestor!Crash
<1>10. CASE UNCHANGED Ingestor!vars
  BY <1>0, <1>10, <1>v DEF Ingestor!vars, Ingestor!config, Ingestor!history
<1> QED
  BY <1>1, <1>2, <1>3, <1>4, <1>5, <1>6, <1>7, <1>8, <1>9, <1>10 DEF Ingestor!Next, Ingestor!Step

(* The copies left in the target directory between batches are approved ones *)
(* or the named leftovers of a fault. *)
THEOREM CopiesAreApproved == Spec => []CopiesApproved
<1>1. IngestInv => CopiesApproved
  BY IngestConstants DEF CopiesApproved, IngestInv, Accounted, Ingestor!CopiesApproved, Ingestor!Running
<1> QED
  BY IngestInit, IngestStep, <1>1, IngestorRuns, PTL DEF Ingestor!Spec

(* A result that says success is backed by its copy. *)
THEOREM SuccessBacked == Spec => []Ingestor!SuccessHasCopy
<1>1. IngestInv => Ingestor!SuccessHasCopy
  BY DEF IngestInv
<1> QED
  BY IngestInit, IngestStep, <1>1, IngestorRuns, PTL DEF Ingestor!Spec

(* What validation refuses never reaches the target directory, under any name. *)
THEOREM NothingUnsafeStored == Spec => []Ingestor!UnsafeNeverStored
<1>1. IngestInv => Ingestor!UnsafeNeverStored
  BY DEF IngestInv, Placed, Ingestor!UnsafeNeverStored, Ingestor!Valid, Ingestor!ReceiptSound,
     Ingestor!Id
<1> QED
  BY IngestInit, IngestStep, <1>1, IngestorRuns, PTL DEF Ingestor!Spec
=============================================================================
