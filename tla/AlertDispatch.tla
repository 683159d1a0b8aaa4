---------------------------- MODULE AlertDispatch ----------------------------
(***************************************************************************)
(* The alert dispatcher of the telemetry context                           *)
(* (omega_telemetry/alert_module.py) over the table "alert_log"            *)
(* (omega_telemetry/db.py).                                                *)
(*                                                                         *)
(* Several tasks call dispatch; an asyncio lock, granted in order of        *)
(* arrival, serialises them.  A task yields while it waits for the lock     *)
(* and for each channel; it may be cancelled there, the process may die     *)
(* anywhere, and the clock goes on.  Only alert_log survives.               *)
(*                                                                         *)
(* A post that reaches its channel may still look like a failure to the     *)
(* dispatcher (the answer is lost): "received" is what the channel saw,     *)
(* alert_log what the dispatcher believes.                                  *)
(***************************************************************************)
EXTENDS Integers, Sequences, FiniteSets, SequencesExt

CONSTANTS
    Tasks,              \* concurrent callers of dispatch
    Keys,               \* dedupe keys
    EventTimes,         \* the occurred_at values callers pass
    MaxTime,            \* bound: last reading of the clock
    MaxCalls,           \* bound: calls of dispatch
    MaxFaults,          \* bound: cancellations, crashes and lost answers
    Cooldown,           \* cooldown_minutes
    RateWindow,         \* rate_window_seconds
    MaxAlerts,          \* max_alerts_per_window
    MaxAge,             \* max_event_age_seconds
    Skew                \* the 30 seconds an event may lie in the future

Times == 0 .. MaxTime
Calls == 1 .. MaxCalls
Invalid == -1           \* occurred_at does not parse as an aware timestamp
NoTask == "none"
NoJob == [call |-> 0, key |-> "none", at |-> Invalid]

\* The remote channels, in the order _dispatch tries them.
Order == <<"telegram", "discord">>
Remote == {"telegram", "discord"}
Channels == Remote \cup {"suppressed", "shadow", "shadow-fallback"}

ASSUME BoundsAssumption ==
    MaxTime \in Nat /\ MaxCalls \in Nat /\ MaxFaults \in Nat
ASSUME ConfigAssumption ==
    /\ Cooldown \in Nat \ {0} /\ RateWindow \in Nat \ {0}
    /\ MaxAlerts \in Nat \ {0} /\ MaxAge \in Nat \ {0} /\ Skew \in Nat
ASSUME NamesAssumption == NoTask \notin Tasks /\ EventTimes \subseteq Nat

VARIABLES
    now,        \* clock
    calls,      \* calls of dispatch so far; numbers the calls
    faults,     \* faults so far
    shadow,     \* shadow_mode
    enabled,    \* the remote channels whose configuration is enabled
    alertLog,   \* table "alert_log", each row with the call that wrote it
    queue,      \* tasks waiting for _dispatch_lock
    holder,     \* the task that holds _dispatch_lock
    pc,         \* where each task is
    job,        \* its call: number, and dedupe_key and occurred_at of the event
    results,    \* per task, the results not yet logged
    received    \* history: what the channels received

config == <<shadow, enabled>>
vars == <<now, calls, faults, config, alertLog, queue, holder, pc, job, results,
          received>>

Row(j, ch, ok) ==
    [call |-> j.call, key |-> j.key, channel |-> ch, delivered |-> ok, at |-> now]

-----------------------------------------------------------------------------
\* The age checks at the top of dispatch.
OutOfAge(e) ==
    \/ e.at = Invalid
    \/ e.at > now + Skew
    \/ now - e.at > MaxAge

\* Mutated form: the cooldown is measured with the rate window.
InCooldown_RateWindow(k) ==
    \E r \in alertLog : r.key = k /\ r.delivered /\ r.at >= now - RateWindow

\* alert_suppression_reason: duplicate_cooldown.
InCooldown(k) ==
    \E r \in alertLog : r.key = k /\ r.delivered /\ r.at >= now - Cooldown

\* alert_suppression_reason: rate_limited, COUNT(DISTINCT dedupe_key).
RecentKeys == {r.key : r \in {r \in alertLog : r.delivered /\ r.at >= now - RateWindow}}

RateLimited == Cardinality(RecentKeys) >= MaxAlerts

Suppressed(e) == OutOfAge(e) \/ InCooldown(e.key) \/ RateLimited

\* The first enabled channel after the first n of Order; "log" when none is left.
NextChannel(n) ==
    IF \E i \in (n + 1) .. Len(Order) : Order[i] \in enabled
    THEN Order[CHOOSE i \in (n + 1) .. Len(Order) :
                   /\ Order[i] \in enabled
                   /\ \A j \in (n + 1) .. (i - 1) : Order[j] \notin enabled]
    ELSE "log"

Position(ch) == CHOOSE i \in 1 .. Len(Order) : Order[i] = ch

Init ==
    /\ now = 0 /\ calls = 0 /\ faults = 0
    /\ shadow \in BOOLEAN /\ enabled \in SUBSET Remote
    /\ alertLog = {} /\ received = {}
    /\ queue = <<>> /\ holder = NoTask /\ results = [t \in Tasks |-> <<>>]
    /\ pc = [t \in Tasks |-> "idle"]
    /\ job = [t \in Tasks |-> NoJob]

Tick ==
    /\ now < MaxTime
    /\ now' = now + 1
    /\ UNCHANGED <<calls, faults, config, alertLog, queue, holder, pc, job, results,
                   received>>

\* A task calls dispatch with any event and queues for the lock.
Call(t, k, at) ==
    /\ pc[t] = "idle" /\ calls < MaxCalls
    /\ calls' = calls + 1
    /\ job' = [job EXCEPT ![t] = [call |-> calls + 1, key |-> k, at |-> at]]
    /\ pc' = [pc EXCEPT ![t] = "waiting"]
    /\ queue' = Append(queue, t)
    /\ UNCHANGED <<now, faults, config, alertLog, holder, results, received>>

\* Leave the lock with the call answered.
Return(t) ==
    /\ holder' = NoTask
    /\ pc' = [pc EXCEPT ![t] = "idle"]
    /\ job' = [job EXCEPT ![t] = NoJob]

\* The lock is granted and everything up to the first await happens.
Suppress(t) ==
    /\ Suppressed(job[t])
    /\ alertLog' = alertLog \cup {Row(job[t], "suppressed", FALSE)}
    /\ Return(t)

DispatchShadow(t) ==
    /\ ~Suppressed(job[t]) /\ shadow
    /\ alertLog' = alertLog \cup {Row(job[t], "shadow", TRUE)}
    /\ Return(t)

DispatchNowhere(t) ==
    /\ ~Suppressed(job[t]) /\ ~shadow /\ enabled = {}
    /\ alertLog' = alertLog \cup {Row(job[t], "shadow-fallback", FALSE)}
    /\ Return(t)

DispatchRemote(t) ==
    /\ ~Suppressed(job[t]) /\ ~shadow /\ enabled # {}
    /\ pc' = [pc EXCEPT ![t] = NextChannel(0)]
    /\ holder' = t
    /\ UNCHANGED <<alertLog, job>>

\* The tasks that wait once t has left the line.
Without(t) ==
    IF pc[t] = "waiting"
    THEN RemoveAt(queue, CHOOSE i \in 1 .. Len(queue) : queue[i] = t)
    ELSE queue

\* Mutated form: nothing is awaited before the check (no _dispatch_lock).
Enter_NoLock(t) ==
    /\ pc[t] = "waiting"
    /\ queue' = Without(t)
    /\ Suppress(t) \/ DispatchShadow(t) \/ DispatchNowhere(t) \/ DispatchRemote(t)
    /\ UNCHANGED <<now, calls, faults, config, results, received>>

Enter(t) ==
    /\ holder = NoTask /\ queue # <<>> /\ Head(queue) = t
    /\ queue' = Tail(queue)
    /\ Suppress(t) \/ DispatchShadow(t) \/ DispatchNowhere(t) \/ DispatchRemote(t)
    /\ UNCHANGED <<now, calls, faults, config, results, received>>

Receive(t) ==
    received' = received \cup
        {[call |-> job[t].call, key |-> job[t].key, channel |-> pc[t], at |-> now]}

\* Mutated form: the answer to the post is not looked at.
SendEnds_Unchecked(t, reached, answered) ==
    /\ pc[t] \in Remote
    /\ answered => reached
    /\ reached /\ ~answered => faults < MaxFaults
    /\ faults' = IF reached /\ ~answered THEN faults + 1 ELSE faults
    /\ IF reached THEN Receive(t) ELSE UNCHANGED received
    /\ results' = [results EXCEPT ![t] =
           Append(@, [channel |-> pc[t], delivered |-> TRUE])]
    /\ pc' = [pc EXCEPT ![t] = NextChannel(Position(pc[t]))]
    /\ UNCHANGED <<now, calls, config, alertLog, queue, holder, job>>

\* _send_telegram or _send_discord ends: the post reached the channel or not,
\* and the dispatcher got a 2xx answer or an error of any kind (missing
\* credentials, another status, an exception).
SendEnds(t, reached, answered) ==
    /\ pc[t] \in Remote
    /\ answered => reached
    /\ reached /\ ~answered => faults < MaxFaults
    /\ faults' = IF reached /\ ~answered THEN faults + 1 ELSE faults
    /\ IF reached THEN Receive(t) ELSE UNCHANGED received
    /\ results' = [results EXCEPT ![t] =
           Append(@, [channel |-> pc[t], delivered |-> answered])]
    /\ pc' = [pc EXCEPT ![t] = NextChannel(Position(pc[t]))]
    /\ UNCHANGED <<now, calls, config, alertLog, queue, holder, job>>

\* The results are logged one commit at a time; the call returns after the last.
LogResult(t) ==
    /\ pc[t] = "log"
    /\ alertLog' = alertLog \cup
           {Row(job[t], Head(results[t]).channel, Head(results[t]).delivered)}
    /\ results' = [results EXCEPT ![t] = Tail(@)]
    /\ IF Len(results[t]) = 1 THEN Return(t) ELSE UNCHANGED <<pc, holder, job>>
    /\ UNCHANGED <<now, calls, faults, config, queue, received>>

\* Mutated form: a cancelled holder keeps the lock (no "async with").
Cancel_KeepsLock(t, reached) ==
    /\ pc[t] \in Remote \cup {"waiting"}
    /\ faults < MaxFaults /\ faults' = faults + 1
    /\ IF reached /\ pc[t] \in Remote THEN Receive(t) ELSE UNCHANGED received
    /\ queue' = Without(t)
    /\ results' = [results EXCEPT ![t] = <<>>]
    /\ pc' = [pc EXCEPT ![t] = "idle"]
    /\ job' = [job EXCEPT ![t] = NoJob]
    /\ UNCHANGED <<now, calls, config, alertLog, holder>>

\* The task is cancelled at an await: "except Exception" does not catch it and
\* "async with" releases the lock.  The post may have reached its channel.
Cancel(t, reached) ==
    /\ pc[t] \in Remote \cup {"waiting"}
    /\ faults < MaxFaults /\ faults' = faults + 1
    /\ IF reached /\ pc[t] \in Remote THEN Receive(t) ELSE UNCHANGED received
    /\ queue' = Without(t)
    /\ results' = [results EXCEPT ![t] = <<>>]
    /\ holder' = IF holder = t THEN NoTask ELSE holder
    /\ pc' = [pc EXCEPT ![t] = "idle"]
    /\ job' = [job EXCEPT ![t] = NoJob]
    /\ UNCHANGED <<now, calls, config, alertLog>>

\* The process dies and starts again with a new dispatcher on the same database.
Crash ==
    /\ faults < MaxFaults /\ faults' = faults + 1
    /\ pc' = [t \in Tasks |-> "idle"] /\ job' = [t \in Tasks |-> NoJob]
    /\ queue' = <<>> /\ holder' = NoTask
    /\ results' = [t \in Tasks |-> <<>>]
    /\ UNCHANGED <<now, calls, config, alertLog, received>>

Serve(t) ==
    \/ Enter(t)
    \/ \E reached, answered \in BOOLEAN : SendEnds(t, reached, answered)
    \/ LogResult(t)

Next ==
    \/ Tick
    \/ \E t \in Tasks, k \in Keys, at \in EventTimes \cup {Invalid} : Call(t, k, at)
    \/ \E t \in Tasks : Serve(t)
    \/ \E t \in Tasks, reached \in BOOLEAN : Cancel(t, reached)
    \/ Crash

Spec == Init /\ [][Next]_vars

\* The event loop runs every ready task, and the session's timeout ends every
\* send; cancellations, crashes and new calls are never owed.
FairSpec == Spec /\ \A t \in Tasks : WF_vars(Serve(t))

-----------------------------------------------------------------------------

Delivered == {r \in alertLog : r.delivered}

\* Two calls never both deliver one key within the cooldown as far as the
\* delivery history knows, on whatever channels, although the check and the
\* row it leads to are separated by the awaits of two sends.
CooldownKept ==
    \A r, s \in Delivered :
        r.call # s.call /\ r.key = s.key /\ r.at <= s.at => s.at - r.at > Cooldown

\* No window of rate_window_seconds holds deliveries of more distinct events
\* than the budget, however long the sends between check and row take.
BudgetKept ==
    \A s \in Delivered :
        Cardinality({r.key : r \in {r \in Delivered :
                        s.at - RateWindow <= r.at /\ r.at <= s.at}}) <= MaxAlerts

\* A row that claims a remote delivery is true: that call's post did reach
\* that channel.  Failures are never recorded as deliveries.
NoFalseDelivery ==
    \A r \in Delivered : r.channel \in Remote =>
        \E m \in received :
            m.call = r.call /\ m.key = r.key /\ m.channel = r.channel

\* A channel receives one event twice within the cooldown only if the first
\* message was never recorded as delivered (its answer was lost, or the task
\* ended between the post and the row).
DuplicateOnlyIfUnrecorded ==
    \A m, n \in received :
        m.key = n.key /\ m.channel = n.channel /\ m.call < n.call
            /\ n.at - m.at <= Cooldown
        => ~\E r \in Delivered : r.call = m.call

\* Every call returns: the lock is released on every path, cancellation
\* included, and no waiter is overtaken for ever.
CallsReturn == \A t \in Tasks : pc[t] # "idle" ~> pc[t] = "idle"
=============================================================================
