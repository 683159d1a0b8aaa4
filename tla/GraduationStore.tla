---------------------------- MODULE GraduationStore ----------------------------
(***************************************************************************)
(* The deployment ladder (eve_q/deployment_gates.py): decisions of         *)
(* GraduationEvaluator.evaluate and the file in which                      *)
(* GraduationStateStore.record_decision keeps the tier and the history.    *)
(*                                                                         *)
(* Several operator processes may record.  record_decision reads the file, *)
(* opens "<path>.tmp" (truncating it), writes it and renames it over the   *)
(* file; the name of the temporary file is the same for all.  Files are    *)
(* modelled by what the two names refer to ("inodes") because a process    *)
(* that opened the temporary file goes on writing to it after another has  *)
(* renamed it.                                                             *)
(***************************************************************************)
EXTENDS Integers, Sequences, SequencesExt

CONSTANTS
    Recorders,      \* processes that call record_decision
    ApprovalTiers,  \* tiers whose policy has requires_human_approval
    MaxCalls,       \* bound: calls of record_decision
    Missing,        \* model value: the file is not there
    Empty,          \* model value: created or truncated, nothing written yet
    Torn            \* model value: contents that do not parse

LOCAL_SIMULATION == 0
LOW_COST_NETWORK == 2
ETHEREUM_MAINNET == 3
Tiers == 0 .. 3

Inodes == 1 .. MaxCalls
NoInode == 0

VARIABLES
    stored,     \* what the state file held at the start, while never replaced
    statePath,  \* the inode of the state file, NoInode before the first rename
    tmpPath,    \* the inode of the temporary file, or NoInode
    content,    \* per inode: Empty, Torn or a state
    pc,         \* where each recorder is
    draft,      \* the state it is about to write
    fd,         \* the inode it has open
    calls,      \* calls so far; numbers the decisions
    recorded,   \* history: decisions whose call returned
    serial      \* history: no two calls overlapped

vars == <<stored, statePath, tmpPath, content, pc, draft, fd, calls, recorded, serial>>
files == <<stored, statePath, tmpPath, content>>

Events == [id : Nat, promotion : BOOLEAN, from : Tiers, to : Tiers, approved : BOOLEAN]
LadderStates == [current_tier : Tiers, history : Seq(Events)]

LadderAssumption ==
    /\ MaxCalls \in Nat
    /\ Empty \notin LadderStates /\ Torn \notin LadderStates

NoState == [current_tier |-> 0, history |-> <<>>]

\* GraduationEvaluator.evaluate: thresholds stands for the policy's limits on
\* metrics, stability and reserve taken together.
Eligible(current, requested, thresholds, capable, surplus, approved) ==
    /\ requested = current + 1
    /\ thresholds
    /\ requested >= LOW_COST_NETWORK => capable
    /\ requested = ETHEREUM_MAINNET => surplus
    /\ requested >= LOW_COST_NETWORK /\ requested \in ApprovalTiers => approved

NeedsApproval(requested) == requested \in ApprovalTiers

\* What load returns, or Torn when the file does not parse.
Load ==
    IF statePath # NoInode
    THEN IF content[statePath] = Empty THEN Torn ELSE content[statePath]
    ELSE IF stored = Missing THEN NoState ELSE stored

\* Mutated form: the decision is not compared with the stored tier.
Promotes_Stale(state, current, requested, eligible, approver) ==
    eligible /\ (NeedsApproval(requested) => approver)

Promotes(state, current, requested, eligible, approver) ==
    /\ eligible
    /\ NeedsApproval(requested) => approver
    /\ state.current_tier = current

Event(id, promotes, current, requested, approver) ==
    IF promotes
    THEN [id |-> id, promotion |-> TRUE, from |-> current, to |-> requested, approved |-> approver]
    ELSE [id |-> id, promotion |-> FALSE, from |-> 0, to |-> 0, approved |-> FALSE]

Init ==
    /\ stored \in {Missing} \cup {[current_tier |-> t, history |-> <<>>] : t \in Tiers}
    /\ statePath = NoInode /\ tmpPath = NoInode
    /\ content = [i \in Inodes |-> Empty]
    /\ pc = [r \in Recorders |-> "idle"] /\ draft = [r \in Recorders |-> NoState]
    /\ fd = [r \in Recorders |-> NoInode]
    /\ calls = 0 /\ recorded = {} /\ serial = TRUE

Leave(r) ==
    /\ pc' = [pc EXCEPT ![r] = "idle"]
    /\ draft' = [draft EXCEPT ![r] = NoState]
    /\ fd' = [fd EXCEPT ![r] = NoInode]

\* record_decision up to the open: the decision's event joins the history and a
\* promotion moves the tier, in a copy of the file.
Decide(r, current, requested, eligible, approver) ==
    /\ pc[r] = "idle" /\ calls < MaxCalls /\ Load # Torn
    /\ calls' = calls + 1
    /\ LET promotes == Promotes(Load, current, requested, eligible, approver)
           event == Event(calls + 1, promotes, current, requested, approver)
       IN  draft' = [draft EXCEPT ![r] =
               [current_tier |-> IF promotes THEN requested ELSE Load.current_tier,
                history |-> Append(Load.history, event)]]
    /\ pc' = [pc EXCEPT ![r] = "open"]
    /\ serial' = (serial /\ \A u \in Recorders : pc[u] = "idle")
    /\ UNCHANGED <<files, fd, recorded>>

\* Mutated form: the state file itself is opened for writing.
OpenTemp_InPlace(r) ==
    /\ pc[r] = "open"
    /\ LET i == IF statePath # NoInode THEN statePath
                ELSE CHOOSE j \in Inodes : \A k \in Inodes : j <= k
       IN  /\ statePath' = i
           /\ content' = [content EXCEPT ![i] = Empty]
           /\ fd' = [fd EXCEPT ![r] = i]
    /\ pc' = [pc EXCEPT ![r] = "write"]
    /\ UNCHANGED <<stored, tmpPath, draft, calls, recorded, serial>>

Unused == {i \in Inodes : i \notin {statePath, tmpPath} /\ content[i] = Empty
                              /\ \A u \in Recorders : fd[u] # i}
FirstUnused == {i \in Unused : \A j \in Unused : i <= j}

\* open("w"): truncates the temporary file if it is there, creates it if not.
OpenTemp(r) ==
    /\ pc[r] = "open"
    /\ \E i \in IF tmpPath # NoInode THEN {tmpPath} ELSE FirstUnused :
           /\ tmpPath' = i
           /\ content' = [content EXCEPT ![i] = Empty]
           /\ fd' = [fd EXCEPT ![r] = i]
    /\ pc' = [pc EXCEPT ![r] = "write"]
    /\ UNCHANGED <<stored, statePath, draft, calls, recorded, serial>>

\* The write goes to the inode that was opened.  Over what another process has
\* written there since, a shorter text leaves the other's tail behind.
WriteTemp(r, outcome) ==
    /\ pc[r] = "write"
    /\ outcome = Torn => content[fd[r]] # Empty
    /\ content' = [content EXCEPT ![fd[r]] = IF outcome = Torn THEN Torn ELSE draft[r]]
    /\ pc' = [pc EXCEPT ![r] = "replace"]
    /\ UNCHANGED <<stored, statePath, tmpPath, draft, fd, calls, recorded, serial>>

\* temp.replace(path); the call returns.
Replace(r) ==
    /\ pc[r] = "replace" /\ tmpPath # NoInode
    /\ statePath' = tmpPath /\ tmpPath' = NoInode
    /\ recorded' = recorded \cup {Last(draft[r].history).id}
    /\ Leave(r)
    /\ UNCHANGED <<stored, content, calls, serial>>

\* Another process has renamed the temporary file away: the call raises.
ReplaceFails(r) ==
    /\ pc[r] = "replace" /\ tmpPath = NoInode
    /\ Leave(r)
    /\ UNCHANGED <<files, calls, recorded, serial>>

\* The process dies; a write under way may have left part of the text.
Die(r, partial) ==
    /\ pc[r] # "idle"
    /\ partial => pc[r] = "write"
    /\ content' = IF partial THEN [content EXCEPT ![fd[r]] = Torn] ELSE content
    /\ Leave(r)
    /\ UNCHANGED <<stored, statePath, tmpPath, calls, recorded, serial>>

Next ==
    \E r \in Recorders :
        \/ \E current, requested \in Tiers,
              thresholds, capable, surplus, approved, approver \in BOOLEAN :
               Decide(r, current, requested,
                      Eligible(current, requested, thresholds, capable, surplus, approved),
                      approver)
        \/ OpenTemp(r)
        \/ \E outcome \in {"written", Torn} : WriteTemp(r, outcome)
        \/ Replace(r)
        \/ ReplaceFails(r)
        \/ \E partial \in BOOLEAN : Die(r, partial)

Spec == Init /\ [][Next]_vars

-----------------------------------------------------------------------------
States ==   \* the states written or about to be
    {draft[r] : r \in {r \in Recorders : pc[r] # "idle"}}
        \cup {content[i] : i \in {i \in Inodes : content[i] \notin {Empty, Torn}}}

StartTier == IF stored = Missing THEN LOCAL_SIMULATION ELSE stored.current_tier

\* Where the first n entries of a history have left the ladder.
Reaches(h, n, tier) ==
    \/ tier = StartTier /\ \A i \in 1 .. n : ~h[i].promotion
    \/ \E i \in 1 .. n :
          h[i].promotion /\ h[i].to = tier /\ \A j \in (i + 1) .. n : ~h[j].promotion

Lawful(s) ==
    /\ \A i \in 1 .. Len(s.history) :
           s.history[i].promotion =>
               /\ Reaches(s.history, i - 1, s.history[i].from)
               /\ s.history[i].to = s.history[i].from + 1
               /\ s.history[i].to \in ApprovalTiers => s.history[i].approved
    /\ Reaches(s.history, Len(s.history), s.current_tier)

\* Whatever races, every state that reaches a file is lawful by its own
\* history: each promotion climbed one tier from where the ones before it had
\* left the ladder, real funds only with an approver's name, and the tier is
\* where the last promotion led.
LawfulHistory == \A s \in States : Lawful(s)

Kept == Load # Torn /\ \A id \in recorded : \E i \in 1 .. Len(Load.history) : Load.history[i].id = id

\* Calls that do not overlap lose nothing: after a crash anywhere the file
\* still parses and holds every decision whose call returned.
SerialDurable == serial => Kept
=============================================================================
