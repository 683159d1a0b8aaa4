------------------------------ MODULE AlertRetry ------------------------------
(***************************************************************************)
(* The alert dispatcher with retries (eve_q/alert_dispatcher.py).          *)
(*                                                                         *)
(* Tasks of one event loop call send concurrently and no lock serialises   *)
(* them: the deduplication window is read and marked in one step, before   *)
(* the first await; each enabled channel is then tried in turn, with a     *)
(* backoff between attempts.  A post may reach its channel and still look  *)
(* like a failure.  The window lives in memory and dies with the process.  *)
(*                                                                         *)
(* Timestamps are modelled by their age, which Tick lets grow: an entry    *)
(* older than the window stays in dedupe_keys until the next call purges   *)
(* it.  Ages beyond Window are not told apart.                             *)
(***************************************************************************)
EXTENDS Integers, Sequences

CONSTANTS
    Tasks,          \* concurrent callers of send
    Keys,           \* dedupe keys
    Channels,       \* the enabled channels, in the order send tries them
    Window,         \* window_minutes
    MaxRetries,     \* RetryPolicy.max_retries
    InitialBackoff, \* RetryPolicy.initial_backoff_seconds
    MaxBackoff,     \* RetryPolicy.max_backoff_seconds
    MaxFaults       \* bound: lost answers, cancellations and crashes

ConfigAssumption ==
    /\ Window \in Nat \ {0} /\ MaxRetries \in Nat /\ MaxFaults \in Nat
    /\ InitialBackoff \in Nat /\ MaxBackoff \in Nat
    /\ Channels \in Seq(STRING)
    /\ \A i, j \in 1 .. Len(Channels) : Channels[i] = Channels[j] => i = j

Absent == -1        \* no entry in dedupe_keys
NoKey == "none"     \* dedupe_key is None
Names == {Channels[i] : i \in 1 .. Len(Channels)}
NoPosts == [c \in Names |-> <<>>]

VARIABLES
    shadow,     \* shadow_mode
    dedupe,     \* dedupe_keys: the age of each entry
    pc,         \* where each call is: "idle", "posting" or "sleeping"
    key,        \* its dedupe_key
    route,      \* the channels it has still to try; the first is being tried
    attempt,    \* attempt of _send_with_retry
    wait,       \* time left of asyncio.sleep
    results,    \* its AlertResults; the last call's until the next one
    posts,      \* history: how its posts to each channel ended, up to one too many
    faults,     \* faults so far
    since       \* history: time since the last admission of each key

tasks == <<pc, key, route, attempt, wait, results, posts>>
vars == <<shadow, dedupe, tasks, faults, since>>

\* Older(a) is an age one tick later.
Older(a) == IF a \in 0 .. (Window - 1) THEN a + 1 ELSE a

\* get_backoff with a multiplier of 2.
Backoff(n) ==
    LET grown == InitialBackoff * 2 ^ n
    IN IF grown < MaxBackoff THEN grown ELSE MaxBackoff

\* is_duplicate: the key has an entry with ts > cutoff.
Fresh(k) == dedupe[k] \in 0 .. (Window - 1)

\* Mutated form: only expired entries are purged, the key is not marked.
Marked_Unmarked(k) == [j \in Keys |-> IF Fresh(j) THEN dedupe[j] ELSE Absent]

\* dedupe_keys after is_duplicate(k): purged, and k in it.
Marked(k) ==
    [j \in Keys |-> IF Fresh(j) THEN dedupe[j] ELSE IF j = k THEN 0 ELSE Absent]

Init ==
    /\ shadow \in BOOLEAN
    /\ dedupe = [k \in Keys |-> Absent]
    /\ pc = [t \in Tasks |-> "idle"] /\ key = [t \in Tasks |-> NoKey]
    /\ route = [t \in Tasks |-> <<>>] /\ attempt = [t \in Tasks |-> 0]
    /\ wait = [t \in Tasks |-> 0] /\ results = [t \in Tasks |-> <<>>]
    /\ posts = [t \in Tasks |-> NoPosts]
    /\ faults = 0 /\ since = [k \in Keys |-> Window]

Tick ==
    /\ dedupe' = [k \in Keys |-> Older(dedupe[k])]
    /\ since' = [k \in Keys |-> Older(since[k])]
    /\ wait' = [t \in Tasks |-> IF wait[t] > 0 THEN wait[t] - 1 ELSE 0]
    /\ UNCHANGED <<shadow, pc, key, route, attempt, results, posts, faults>>

\* send returns what it collected.
Begin(t, k, channels, collected) ==
    /\ key' = [key EXCEPT ![t] = k]
    /\ route' = [route EXCEPT ![t] = channels]
    /\ pc' = [pc EXCEPT ![t] = IF channels = <<>> THEN "idle" ELSE "posting"]
    /\ attempt' = [attempt EXCEPT ![t] = 0]
    /\ results' = [results EXCEPT ![t] = collected]
    /\ posts' = [posts EXCEPT ![t] = NoPosts]
    /\ UNCHANGED <<shadow, wait, faults>>

SendDuplicate(t, k) ==
    /\ k \in Keys /\ pc[t] = "idle" /\ Fresh(k)
    /\ dedupe' = Marked(k)
    /\ Begin(t, k, <<>>, <<>>)
    /\ UNCHANGED since

\* An admitted call: shadow mode answers at once, otherwise the enabled
\* channels are tried; none enabled gives an empty list of results.
SendAdmitted(t, k) ==
    /\ pc[t] = "idle" /\ (k \in Keys => ~Fresh(k))
    /\ IF k \in Keys
       THEN dedupe' = Marked(k) /\ since' = [since EXCEPT ![k] = 0]
       ELSE UNCHANGED <<dedupe, since>>
    /\ IF shadow
       THEN Begin(t, k, <<>>, <<[channel |-> "shadow", delivered |-> TRUE]>>)
       ELSE Begin(t, k, Channels, <<>>)

\* _send_with_retry returns and send goes on to the next channel.
NextChannel(t, delivered) ==
    /\ results' = [results EXCEPT ![t] =
           Append(@, [channel |-> Head(route[t]), delivered |-> delivered])]
    /\ route' = [route EXCEPT ![t] = Tail(@)]
    /\ pc' = [pc EXCEPT ![t] = IF Len(route[t]) = 1 THEN "idle" ELSE "posting"]
    /\ attempt' = [attempt EXCEPT ![t] = 0]
    /\ UNCHANGED wait

Sleep(t) ==
    /\ pc' = [pc EXCEPT ![t] = "sleeping"]
    /\ wait' = [wait EXCEPT ![t] = Backoff(attempt[t])]
    /\ UNCHANGED <<route, attempt, results>>

\* Mutated form: one attempt too few.
AfterPost_OneShort(t, answered) ==
    IF answered THEN NextChannel(t, TRUE)
    ELSE IF attempt[t] + 1 < MaxRetries THEN Sleep(t)
    ELSE NextChannel(t, FALSE)

\* Mutated form: the answer is not looked at before the next attempt.
AfterPost_RetriesAnyway(t, answered) ==
    IF attempt[t] < MaxRetries THEN Sleep(t) ELSE NextChannel(t, answered)

AfterPost(t, answered) ==
    IF answered THEN NextChannel(t, TRUE)
    ELSE IF attempt[t] < MaxRetries THEN Sleep(t)
    ELSE NextChannel(t, FALSE)

Note(t, c, p) ==
    posts' = IF Len(posts[t][c]) > MaxRetries + 1 THEN posts
             ELSE [posts EXCEPT ![t][c] = Append(@, p)]

\* One post ends: it reached the channel or not, and the dispatcher saw a 2xx
\* answer or a failure of any kind (missing credentials, a status, an exception).
PostEnds(t, reached, answered) ==
    /\ pc[t] = "posting" /\ (answered => reached)
    /\ (reached /\ ~answered) => faults < MaxFaults
    /\ faults' = IF reached /\ ~answered THEN faults + 1 ELSE faults
    /\ Note(t, Head(route[t]), [reached |-> reached, answered |-> answered])
    /\ AfterPost(t, answered)
    /\ UNCHANGED <<shadow, dedupe, key, since>>

Wake(t) ==
    /\ pc[t] = "sleeping" /\ wait[t] = 0
    /\ pc' = [pc EXCEPT ![t] = "posting"]
    /\ attempt' = [attempt EXCEPT ![t] = @ + 1]
    /\ UNCHANGED <<shadow, dedupe, key, route, wait, results, posts, faults, since>>

\* Cancelled at an await: "except Exception" does not catch it, no result is
\* returned, and the key keeps its entry.  A post under way may have arrived.
Cancel(t) ==
    /\ pc[t] # "idle"
    /\ faults < MaxFaults /\ faults' = faults + 1
    /\ pc' = [pc EXCEPT ![t] = "idle"] /\ route' = [route EXCEPT ![t] = <<>>]
    /\ wait' = [wait EXCEPT ![t] = 0]
    /\ results' = [results EXCEPT ![t] = <<>>]
    /\ posts' = [posts EXCEPT ![t] = NoPosts]
    /\ UNCHANGED <<shadow, dedupe, key, attempt, since>>

\* The process dies and a new dispatcher starts with an empty window.
Crash ==
    /\ faults < MaxFaults /\ faults' = faults + 1
    /\ dedupe' = [k \in Keys |-> Absent] /\ since' = [k \in Keys |-> Window]
    /\ pc' = [t \in Tasks |-> "idle"] /\ key' = [t \in Tasks |-> NoKey]
    /\ route' = [t \in Tasks |-> <<>>] /\ attempt' = [t \in Tasks |-> 0]
    /\ wait' = [t \in Tasks |-> 0] /\ results' = [t \in Tasks |-> <<>>]
    /\ posts' = [t \in Tasks |-> NoPosts]
    /\ UNCHANGED shadow

Serve(t) ==
    \/ \E reached, answered \in BOOLEAN : PostEnds(t, reached, answered)
    \/ Wake(t)

Next ==
    \/ Tick
    \/ \E t \in Tasks, k \in Keys \cup {NoKey} : SendDuplicate(t, k) \/ SendAdmitted(t, k)
    \/ \E t \in Tasks : Serve(t) \/ Cancel(t)
    \/ Crash

Spec == Init /\ [][Next]_vars

-----------------------------------------------------------------------------
\* Within one process two calls with the same key are let through only when
\* the window has run out since the first, although many calls are in flight
\* and nothing is locked, and however calls for other keys purge the entries.
AdmissionsSpaced ==
    [][\A k \in Keys : since'[k] < since[k] => since[k] = Window]_vars

\* What send reports of a channel is what happened: "delivered" when the last
\* attempt was acknowledged and none before it was; "Failed after max retries"
\* only when all max_retries + 1 attempts were made and none was acknowledged.
ReportsMatchPosts ==
    \A t \in Tasks : \A n \in 1 .. Len(results[t]) :
        LET r == results[t][n]
            a == posts[t][r.channel]
        IN r.channel # "shadow" =>
            /\ \A i \in 1 .. Len(a) : a[i].answered <=> (r.delivered /\ i = Len(a))
            /\ IF r.delivered THEN Len(a) >= 1 ELSE Len(a) = MaxRetries + 1

\* A channel gets a second copy of one alert only after an attempt whose
\* answer was lost: what was acknowledged is never sent again.
CopiesHaveLostAnswers ==
    \A t \in Tasks, c \in Names : \A i, j \in 1 .. Len(posts[t][c]) :
        i < j => ~posts[t][c][i].answered
=============================================================================
