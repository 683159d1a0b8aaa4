--------------------------- MODULE ReadOnlyCapture ---------------------------
(***************************************************************************)
(* The "capture" command of the Gate 1 runtime                              *)
(* (eve_q/gate1_readonly_runtime.py): a process fetches one allowlisted     *)
(* HTTPS source, following redirects, and commits the snapshot bundle to an *)
(* output directory.                                                        *)
(*                                                                         *)
(* Each process is one invocation; several share one output directory, and  *)
(* any of them may die at any step.  The network is hostile: every name     *)
(* resolution may give any set of addresses, every response may redirect    *)
(* anywhere, fail, or carry any payload.                                    *)
(***************************************************************************)
EXTENDS Naturals, Sequences

CONSTANTS
    Procs,              \* invocations
    Urls,               \* records [https, credentials, host, port, path]
    AllowedHosts,       \* allowed_hosts of the source
    Addresses,          \* IP addresses, numbered in their sorted order
    Public,             \* those that are global
    MaxRedirects,       \* MAX_REDIRECTS
    Nobody              \* no process

CaptureAssumption ==
    /\ Nobody \notin Procs
    /\ Addresses \subseteq Nat /\ Public \subseteq Addresses /\ MaxRedirects \in Nat

\* The files of a bundle, in the order write_snapshot_bundle_atomic writes them.
Order == <<"raw.bin", "normalized.json", "snapshot.json">>
Written(n) == {Order[i] : i \in 1 .. n}
Files == Written(3)

\* A normalized payload, told apart by the line feeds it ends in.
Payloads == [format : {"canonical_json", "head_metadata"}, newlines : {0}]
                \cup [format : {"utf8_text_lf"}, newlines : 0 .. 1]
NoPayload == [format |-> "none", newlines |-> 0]

Environments == {"clear", "kill_switch", "write_secret"}
DefaultPort == 443

VARIABLES
    pc,         \* where each process is, or how it ended
    url,        \* current_url
    visited,    \* visited
    hops,       \* redirect_count
    pinned,     \* the address the connection is pinned to
    payload,    \* the payload of its snapshot
    staging,    \* the files in its staging directory
    target,     \* the files in the output directory, with their writers
    requests    \* history: the requests each process sent

vars == <<pc, url, visited, hops, pinned, payload, staging, target, requests>>
fetching == <<url, visited, hops, pinned, requests>>

Ended == {"ok", "error", "died"}
Bundle(p) == {p} \X Files

-----------------------------------------------------------------------------
\* strict_validate_url.
Sound(u) ==
    /\ u.https /\ ~u.credentials
    /\ u.host \in AllowedHosts
    /\ u.port = DefaultPort

Init ==
    /\ pc = [p \in Procs |-> "start"]
    /\ url \in [Procs -> Urls]
    /\ visited = [p \in Procs |-> {}] /\ hops = [p \in Procs |-> 0]
    /\ pinned = [p \in Procs |-> 0]
    /\ payload = [p \in Procs |-> NoPayload]
    /\ staging = [p \in Procs |-> {}]
    /\ target = {}
    /\ requests = [p \in Procs |-> <<>>]

Goto(p, where) == pc' = [pc EXCEPT ![p] = where]

\* The source is validated and the environment read, once.
Begin(p, environment) ==
    /\ pc[p] = "start" /\ Sound(url[p]) /\ environment = "clear"
    /\ Goto(p, "visit")
    /\ UNCHANGED <<fetching, payload, staging, target>>

Refuse(p, environment) ==
    /\ pc[p] = "start" /\ ~(Sound(url[p]) /\ environment = "clear")
    /\ Goto(p, "error")
    /\ UNCHANGED <<fetching, payload, staging, target>>

\* Mutated form: an answer is accepted for one global address in it.
Accepted_AnyPublic(answer) == answer \cap Public # {}

\* resolve_public_addresses accepts an answer: at least one address, all global.
Accepted(answer) == answer # {} /\ answer \subseteq Public

\* The first address of the sorted answer.
IsFirst(a, answer) == a \in answer /\ \A b \in answer : a <= b

\* The top of the redirect loop: the URL is new and sound, and its host
\* resolves to global addresses only, of which the first is pinned.
Visit(p, answer, address) ==
    /\ pc[p] = "visit"
    /\ url[p] \notin visited[p] /\ Sound(url[p]) /\ Accepted(answer)
    /\ IsFirst(address, answer)
    /\ visited' = [visited EXCEPT ![p] = @ \cup {url[p]}]
    /\ pinned' = [pinned EXCEPT ![p] = address]
    /\ Goto(p, "request")
    /\ UNCHANGED <<url, hops, requests, payload, staging, target>>

VisitFails(p, answer) ==
    /\ pc[p] = "visit"
    /\ url[p] \in visited[p] \/ ~Sound(url[p]) \/ ~Accepted(answer)
    /\ Goto(p, "error")
    /\ UNCHANGED <<fetching, payload, staging, target>>

Request(p) ==
    /\ pc[p] = "request"
    /\ requests' = [requests EXCEPT ![p] = Append(@, [url |-> url[p], address |-> pinned[p]])]
    /\ Goto(p, "response")
    /\ UNCHANGED <<url, visited, hops, pinned, payload, staging, target>>

Redirect(p, location) ==
    /\ pc[p] = "response" /\ hops[p] < MaxRedirects
    /\ url' = [url EXCEPT ![p] = location]
    /\ hops' = [hops EXCEPT ![p] = @ + 1]
    /\ Goto(p, "visit")
    /\ UNCHANGED <<visited, pinned, requests, payload, staging, target>>

\* The exchange fails, one redirect too many, a refused status, too large a
\* body, or a payload from which build_snapshot_v2 makes no snapshot.
Reject(p) ==
    /\ pc[p] = "response"
    /\ Goto(p, "error")
    /\ UNCHANGED <<fetching, payload, staging, target>>

Receive(p, x) ==
    /\ pc[p] = "response"
    /\ payload' = [payload EXCEPT ![p] = x]
    /\ Goto(p, "snapshot")
    /\ UNCHANGED <<fetching, staging, target>>

\* write_snapshot_bundle_atomic finds no target and makes a staging directory.
Stage(p) ==
    /\ pc[p] = "snapshot" /\ target = {}
    /\ Goto(p, "write")
    /\ UNCHANGED <<fetching, payload, staging, target>>

\* The target exists, or a directory cannot be made.
StageFails(p) ==
    /\ pc[p] = "snapshot"
    /\ Goto(p, "error")
    /\ UNCHANGED <<fetching, payload, staging, target>>

WriteFile(p, i) ==
    /\ pc[p] = "write" /\ staging[p] = Written(i - 1)
    /\ staging' = [staging EXCEPT ![p] = @ \cup {Order[i]}]
    /\ UNCHANGED <<pc, fetching, payload, target>>

\* Mutated form: an existing target is moved out of the way.
Replace_Overwrites(p) ==
    /\ pc[p] = "write" /\ staging[p] = Files
    /\ target' = Bundle(p)
    /\ staging' = [staging EXCEPT ![p] = {}]
    /\ Goto(p, "committed")
    /\ UNCHANGED <<fetching, payload>>

\* os.replace moves the staging directory to a target that is still absent.
Replace(p) ==
    /\ pc[p] = "write" /\ staging[p] = Files /\ target = {}
    /\ target' = {p} \X staging[p]
    /\ staging' = [staging EXCEPT ![p] = {}]
    /\ Goto(p, "committed")
    /\ UNCHANGED <<fetching, payload>>

\* A write fails, or os.replace meets a target that another process committed
\* after the check: the staging directory is removed and the exception goes on.
WriteFails(p) ==
    /\ pc[p] = "write"
    /\ staging' = [staging EXCEPT ![p] = {}]
    /\ Goto(p, "error")
    /\ UNCHANGED <<fetching, payload, target>>

Report(p) ==
    /\ pc[p] = "committed"
    /\ Goto(p, "ok")
    /\ UNCHANGED <<fetching, payload, staging, target>>

\* Killed or interrupted: "except Exception" cleans nothing up.
Die(p) ==
    /\ pc[p] \notin Ended
    /\ Goto(p, "died")
    /\ UNCHANGED <<fetching, payload, staging, target>>

Step(p) ==
    \/ \E e \in Environments : Begin(p, e) \/ Refuse(p, e)
    \/ \E answer \in SUBSET Addresses :
           VisitFails(p, answer) \/ \E a \in Addresses : Visit(p, answer, a)
    \/ Request(p)
    \/ \E u \in Urls : Redirect(p, u)
    \/ Reject(p)
    \/ \E x \in Payloads : Receive(p, x)
    \/ Stage(p) \/ StageFails(p) \/ (\E i \in 1 .. 3 : WriteFile(p, i)) \/ Replace(p) \/ WriteFails(p)
    \/ Report(p)
    \/ Die(p)

Next == \E p \in Procs : Step(p)

Spec == Init /\ [][Next]_vars

-----------------------------------------------------------------------------
TypeOK ==
    /\ pc \in [Procs -> {"start", "visit", "request", "response", "snapshot", "write",
                          "committed"} \cup Ended]
    /\ url \in [Procs -> Urls] /\ visited \in [Procs -> SUBSET Urls]
    /\ hops \in [Procs -> 0 .. MaxRedirects] /\ pinned \in [Procs -> Addresses \cup {0}]
    /\ payload \in [Procs -> Payloads \cup {NoPayload}]
    /\ staging \in [Procs -> SUBSET Files]
    /\ target \subseteq Procs \X Files
    /\ requests \in [Procs -> Seq([url : Urls, address : Addresses \cup {0}])]

\* Wherever redirects lead and whatever a name resolves to on its second
\* resolution, each request goes to a global address and an allowlisted URL.
OnlyPublicContacted ==
    \A p \in Procs : \A i \in 1 .. Len(requests[p]) :
        requests[p][i].address \in Public /\ Sound(requests[p][i].url)

\* One invocation sends at most MAX_REDIRECTS + 1 requests and asks no URL twice.
RequestsBounded ==
    \A p \in Procs :
        /\ Len(requests[p]) <= MaxRedirects + 1
        /\ \A i, j \in 1 .. Len(requests[p]) :
               requests[p][i].url = requests[p][j].url => i = j

\* The owner of a complete target; an incomplete one belongs to no process and
\* is not absent either, so that it refutes the promise.
Owner ==
    IF target = {} THEN Nobody
    ELSE IF \E p \in Procs : target = Bundle(p)
         THEN CHOOSE p \in Procs : target = Bundle(p)
         ELSE Files

Promise == INSTANCE CommitOnce WITH
    Callers <- Procs,
    owner <- Owner,
    outcome <- [p \in Procs |-> IF pc[p] \in Ended THEN pc[p] ELSE "open"]

\* "Commit a complete bundle atomically or leave no target directory", with
\* several processes writing to one target and dying anywhere.
AtomicCommit == Promise!Spec

\* What replay_snapshot_bundle_v2 reads back: one line feed was added when the
\* normalized payload was written, and all of them are stripped.
OnDisk(x) == [x EXCEPT !.newlines = @ + 1]
Stripped(x) == [x EXCEPT !.newlines = 0]

\* The closure threat model: "Accepted captures remain immutable and
\* deterministically replayable", so the bundle read back has the hash of what
\* was captured.
AcceptedReplays ==
    \A p \in Procs : target = Bundle(p) => Stripped(OnDisk(payload[p])) = payload[p]
=============================================================================
