---------------------------- MODULE WhaleWatcher ----------------------------
(***************************************************************************)
(* The whale watcher of one chain (omega_telemetry/whale_watcher.py) over  *)
(* the telemetry database (omega_telemetry/db.py).                         *)
(*                                                                         *)
(* The watcher is one asyncio task.  It yields only where it awaits the    *)
(* RPC node or a price, so each action below is the code between two       *)
(* awaits; at every await the call may fail, the process may die and the   *)
(* chain and the clock go on.  The cursor (table "state") and the saved    *)
(* events (table "events") survive a restart, nothing else does.           *)
(*                                                                         *)
(* Data abstraction: asset 0 is the native asset and 1..Tokens the enabled *)
(* ERC-20 tokens, in scanning order; Whales[b] is the set of assets with a *)
(* well-formed transfer above the threshold in block b, and <<b, a>>       *)
(* stands for its dedupe key, which the transaction hash makes unique.     *)
(***************************************************************************)
EXTENDS Integers

CONSTANTS
    MaxHeight,          \* bound: highest block mined
    MaxTime,            \* bound: last reading of the clock
    MaxFaults,          \* bound: RPC failures, lagging answers and crashes
    MaxBlocksPerPoll,   \* max_blocks_per_poll
    Cooldown,           \* cooldown_minutes
    Tokens,             \* number of enabled ERC-20 tokens
    Whales,             \* [Heights -> SUBSET Assets]
    Poison              \* blocks the node never serves with a valid envelope

Heights == 0 .. MaxHeight
Assets == 0 .. Tokens
None == -1              \* get_state returned None

ASSUME BoundsAssumption ==
    /\ MaxHeight \in Nat /\ MaxTime \in Nat /\ MaxFaults \in Nat
ASSUME ConfigAssumption ==
    /\ MaxBlocksPerPoll \in Nat \ {0}
    /\ Cooldown \in Nat \ {0}
    /\ Tokens \in Nat
ASSUME ChainAssumption ==
    /\ Whales \in [Heights -> SUBSET Assets]
    /\ Poison \subseteq Heights

VARIABLES
    head,       \* height of the chain
    now,        \* clock
    faults,     \* faults so far
    cursor,     \* state["whale_watcher:last_block:<chain>"]
    events,     \* table "events": dedupe key and occurred_at
    pc,         \* where the task is: the await it is at, or "commit"
    latest,     \* poll_once: latest_block
    from,       \* poll_once: bounded_start
    blk,        \* poll_once: block_number
    asset,      \* the asset being scanned in that block
    first,      \* history: the block of the first poll that completed
    jumped,     \* history: blocks left out by the catch-up bound
    unpriced    \* history: <<block, asset>> skipped for want of a price

locals == <<latest, from, blk, asset>>
history == <<first, jumped, unpriced>>
vars == <<head, now, faults, cursor, events, pc, locals, history>>

Larger(m, n) == IF m < n THEN n ELSE m

\* Where a poll starts, before and after the catch-up bound.
StartBlock(h) == IF cursor = None THEN h ELSE cursor + 1

\* Mutated forms: no bound; the bound one block too high.
BoundedStart_Unbounded(h) == StartBlock(h)
BoundedStart_OffByOne(h) == Larger(StartBlock(h), h - MaxBlocksPerPoll + 2)

BoundedStart(h) == Larger(StartBlock(h), h - MaxBlocksPerPoll + 1)

\* Mutated form: the event exactly one cooldown old no longer counts.
IsDuplicate_Strict(key) == \E e \in events : e.key = key /\ e.at > now - Cooldown

\* TelemetryDB.is_duplicate: occurred_at >= now - cooldown.
IsDuplicate(key) == \E e \in events : e.key = key /\ e.at >= now - Cooldown

\* _persist_transfer, for the transfer (if there is one) of an asset.
Persist(b, a) ==
    events' = IF a \in Whales[b] /\ ~IsDuplicate(<<b, a>>)
              THEN events \cup {[key |-> <<b, a>>, at |-> now]}
              ELSE events

\* On to the next token, the next block, or the write of the cursor.
NextScan ==
    \/ /\ asset < Tokens
       /\ asset' = asset + 1 /\ pc' = "price"
       /\ UNCHANGED <<blk, latest, from>>
    \/ /\ asset = Tokens /\ blk < latest
       /\ blk' = blk + 1 /\ pc' = "block"
       /\ UNCHANGED <<asset, latest, from>>
    \/ /\ asset = Tokens /\ blk = latest
       /\ pc' = "commit"
       /\ UNCHANGED locals

-----------------------------------------------------------------------------
Init ==
    /\ head = 0 /\ now = 0 /\ faults = 0
    /\ cursor = None /\ events = {}
    /\ pc = "head"
    /\ latest = 0 /\ from = 0 /\ blk = 0 /\ asset = 0
    /\ first = 0 /\ jumped = {} /\ unpriced = {}

\* The environment: a block is mined, time passes.
Mine ==
    /\ head < MaxHeight
    /\ head' = head + 1
    /\ UNCHANGED <<now, faults, cursor, events, pc, locals, history>>

Tick ==
    /\ now < MaxTime
    /\ now' = now + 1
    /\ UNCHANGED <<head, faults, cursor, events, pc, locals, history>>

\* run_forever: the sleep is over, poll_once asks for eth_blockNumber.
Wake ==
    /\ pc = "sleep"
    /\ pc' = "head"
    /\ UNCHANGED <<head, now, faults, cursor, events, locals, history>>

\* poll_once, from the answer h of eth_blockNumber to the first request for
\* a block.  A node behind the head (a fault) may answer any lower height.
AnswerHead(h) ==
    /\ pc = "head"
    /\ h <= head
    /\ \/ h = head /\ UNCHANGED faults
       \/ h < head /\ faults < MaxFaults /\ faults' = faults + 1
    /\ \/ /\ StartBlock(h) > h
          /\ pc' = "sleep"
          /\ UNCHANGED locals
       \/ /\ StartBlock(h) <= h
          /\ pc' = "block"
          /\ latest' = h /\ from' = BoundedStart(h) /\ blk' = BoundedStart(h)
          /\ UNCHANGED asset
    /\ UNCHANGED <<head, now, cursor, events, history>>

\* _process_block: a valid block envelope, then the native scan asks a price.
AnswerBlock ==
    /\ pc = "block" /\ blk \notin Poison
    /\ pc' = "price" /\ asset' = 0
    /\ UNCHANGED <<head, now, faults, cursor, events, latest, from, blk, history>>

\* No usable price (missing, expired, wrong symbol): the scan of this asset
\* returns or continues silently.
PriceUnusable ==
    /\ pc = "price"
    /\ unpriced' = unpriced \cup {<<blk, asset>>}
    /\ NextScan
    /\ UNCHANGED <<head, now, faults, cursor, events, first, jumped>>

\* A usable price for the native asset: its transfers are in the block.
PriceNative ==
    /\ pc = "price" /\ asset = 0
    /\ Persist(blk, 0)
    /\ NextScan
    /\ UNCHANGED <<head, now, faults, cursor, history>>

\* A usable price for a token: its logs are asked for.
PriceToken ==
    /\ pc = "price" /\ asset > 0
    /\ pc' = "logs"
    /\ UNCHANGED <<head, now, faults, cursor, events, locals, history>>

\* A valid eth_getLogs answer for one token.
AnswerLogs ==
    /\ pc = "logs"
    /\ Persist(blk, asset)
    /\ NextScan
    /\ UNCHANGED <<head, now, faults, cursor, history>>

\* set_state after the whole range was processed.  It follows the last scan
\* without an await, but save_event and set_state are separate database
\* commits and the process may be killed between them (Crash).
SetCursor ==
    /\ pc = "commit"
    /\ first' = IF cursor = None THEN latest ELSE first
    /\ jumped' = jumped \cup StartBlock(latest) .. (from - 1)
    /\ cursor' = latest
    /\ pc' = "sleep"
    /\ UNCHANGED <<head, now, faults, events, locals, unpriced>>

\* Mutated form: the cursor is written even when the scan failed.
CallFails_SetsCursor ==
    /\ pc \in {"head", "block", "logs"}
    /\ \/ faults < MaxFaults /\ faults' = faults + 1
       \/ pc = "block" /\ blk \in Poison /\ UNCHANGED faults
    /\ pc' = "sleep"
    /\ cursor' = IF pc = "head" THEN cursor ELSE latest
    /\ UNCHANGED <<head, now, events, locals, history>>

\* A call raises (transport, wrong id, malformed envelope); run_forever logs
\* the exception and sleeps.
CallFails ==
    /\ pc \in {"head", "block", "logs"}
    /\ \/ faults < MaxFaults /\ faults' = faults + 1
       \/ pc = "block" /\ blk \in Poison /\ UNCHANGED faults
    /\ pc' = "sleep"
    /\ UNCHANGED <<head, now, cursor, events, locals, history>>

\* The process is killed, or the task is cancelled at an await; a later start
\* enters run_forever, which polls at once.
Crash ==
    /\ pc # "down"
    /\ faults < MaxFaults /\ faults' = faults + 1
    /\ pc' = "down"
    /\ UNCHANGED <<head, now, cursor, events, locals, history>>

Restart ==
    /\ pc = "down"
    /\ pc' = "head"
    /\ UNCHANGED <<head, now, faults, cursor, events, locals, history>>

Watch ==
    \/ Wake
    \/ \E h \in Heights : AnswerHead(h)
    \/ AnswerBlock
    \/ PriceUnusable
    \/ PriceNative
    \/ PriceToken
    \/ AnswerLogs
    \/ SetCursor
    \/ CallFails
    \/ Restart

Next == Mine \/ Tick \/ Watch \/ Crash

Spec == Init /\ [][Next]_vars

\* The task is scheduled again after every await and the chain goes on; a
\* crash is never owed.
FairSpec == Spec /\ WF_vars(Watch) /\ WF_vars(Mine)

-----------------------------------------------------------------------------
Locations == {"sleep", "head", "block", "price", "logs", "commit", "down"}

TypeOK ==
    /\ head \in Heights
    /\ now \in 0 .. MaxTime
    /\ faults \in 0 .. MaxFaults
    /\ cursor \in Heights \cup {None}
    /\ events \subseteq [key : Heights \X Assets, at : 0 .. MaxTime]
    /\ pc \in Locations
    /\ latest \in Heights /\ from \in Heights /\ blk \in Heights
    /\ asset \in Assets
    /\ first \in Heights
    /\ jumped \subseteq Heights
    /\ unpriced \subseteq Heights \X Assets

\* Blocks the persisted cursor claims to be done with.
Covered == {b \in Heights : first <= b /\ b <= cursor}

Explained(b, a) ==
    \/ a \notin Whales[b]
    \/ <<b, a>> \in unpriced
    \/ \E e \in events : e.key = <<b, a>>

\* Every transfer above the threshold in a block behind the cursor has an
\* event, or its asset had no usable price when the block was scanned, or the
\* catch-up bound left its block out: no failure or crash between the awaits
\* of poll_once lets set_state run ahead of the scan.
NoSilentLoss ==
    \A b \in Covered \ jumped : \A a \in Assets : Explained(b, a)

\* The catch-up bound gives up old blocks only: whatever happened to earlier
\* polls, the newest max_blocks_per_poll blocks behind the cursor were scanned.
RecentBlocksScanned ==
    \A b \in jumped : b + MaxBlocksPerPoll <= cursor

\* Rescans after failures, lagging answers and restarts never save one transfer
\* twice within the cooldown (is_duplicate in _persist_transfer).
CooldownSpacing ==
    \A e1, e2 \in events :
        e1.key = e2.key /\ e1.at < e2.at => e2.at - e1.at > Cooldown

\* The persisted cursor never moves back, although a lagging node may answer a
\* lower height than one already processed.
CursorMonotone == [][cursor' >= cursor]_cursor

\* When faults stop, the watcher reaches every height the chain reaches:
\* run_forever survives every exception, and no failure leaves it behind for
\* good.  The price is that the catch-up bound in the end steps over a block the
\* node never serves, which MissingHolds says must not be.
CatchesUp == \A h \in Heights : (head >= h) ~> (cursor >= h)

=============================================================================
