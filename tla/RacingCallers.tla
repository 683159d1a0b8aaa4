----------------------------- MODULE RacingCallers -----------------------------
(***************************************************************************)
(* Programs of Eve Q whose callers race: launches of the Gate 1 capture     *)
(* scripts share a run directory, recorders of the deployment ladder a      *)
(* file, senders of alerts a window in memory.  They share nothing with     *)
(* each other: a behaviour runs one of them.                                *)
(***************************************************************************)
EXTENDS Gate1Documents, Integers

CONSTANTS
    Launches, Source, Bodies, ProducerCommit, MaxMoves,
    Recorders, ApprovalTiers, MaxCalls, Missing, Empty, Torn,
    Tasks, Keys, Channels, Window, MaxRetries, InitialBackoff, MaxBackoff, MaxFaults

VARIABLES
    program,
    version, at, dns, moves, receipt, makers, bundle, captured, payload, reason, contacted, moved,
    stored, statePath, tmpPath, content, recording, draft, fd, calls, recorded, serial,
    shadow, dedupe, sending, key, route, attempt, wait, results, posts, faults, since

Launcher == INSTANCE CaptureLaunch
Ladder == INSTANCE GraduationStore WITH pc <- recording
Retry == INSTANCE AlertRetry WITH pc <- sending

ASSUME CallersAssumption ==
    Launcher!LaunchAssumption /\ Ladder!LadderAssumption /\ Retry!ConfigAssumption

launchVars == <<version, at, dns, moves, receipt, makers, bundle, captured, payload, reason, contacted, moved>>
ladderVars == <<stored, statePath, tmpPath, content, recording, draft, fd, calls, recorded, serial>>
retryVars == <<shadow, dedupe, sending, key, route, attempt, wait, results, posts, faults, since>>
vars == <<program, launchVars, ladderVars, retryVars>>

Init ==
    /\ program \in {"launch", "ladder", "retry"}
    /\ Launcher!Init /\ Ladder!Init /\ Retry!Init
    /\ program # "launch" => dns = {} /\ version = [p \in Launches |-> "v0_1"]
    /\ program # "ladder" => stored = Missing
    /\ program # "retry" => shadow

Next ==
    /\ UNCHANGED program
    /\ \/ program = "launch" /\ Launcher!Next /\ UNCHANGED <<ladderVars, retryVars>>
       \/ program = "ladder" /\ Ladder!Next /\ UNCHANGED <<launchVars, retryVars>>
       \/ program = "retry" /\ Retry!Next /\ UNCHANGED <<launchVars, ladderVars>>

Spec == Init /\ [][Next]_vars

-----------------------------------------------------------------------------
\* The properties of the programs, as their modules state them.
DriftCaught == Launcher!DriftCaught
PassOwnsBundle == Launcher!PassOwnsBundle
AcceptedStays == Launcher!AcceptedStays
LawfulHistory == Ladder!LawfulHistory
SerialDurable == Ladder!SerialDurable
ReportsMatchPosts == Retry!ReportsMatchPosts
CopiesHaveLostAnswers == Retry!CopiesHaveLostAnswers
AdmissionsSpaced == Retry!AdmissionsSpaced
=============================================================================
