------------------------- MODULE WhaleWatcherProofs -------------------------
(***************************************************************************)
(* Proofs, for every chain, configuration and bound, that the watcher's    *)
(* cursor never runs ahead of its scan and that its events respect the     *)
(* cooldown.                                                               *)
(*                                                                         *)
(* NoSilentLoss alone is not inductive: SetCursor extends the covered range*)
(* by what the poll in flight has scanned.  InFlight says what that is.    *)
(***************************************************************************)
EXTENDS WhaleWatcher, TLAPS

Scanning == {"block", "price", "logs", "commit"}

\* What the poll in flight has done so far.
InFlight ==
    pc \in Scanning =>
        /\ StartBlock(latest) <= latest
        /\ from = BoundedStart(latest)
        /\ from <= blk /\ blk <= latest
        /\ \A b \in Heights : \A a \in Assets :
               from <= b /\ b < blk => Explained(b, a)
        /\ pc \in {"price", "logs"} =>
               \A a \in Assets : a < asset => Explained(blk, a)
        /\ pc = "commit" => blk = latest /\ \A a \in Assets : Explained(blk, a)

\* Explained in the state after the step, for arguments of the state before.
ExplainedAfter(b, a) ==
    \/ a \notin Whales[b]
    \/ <<b, a>> \in unpriced'
    \/ \E e \in events' : e.key = <<b, a>>

Begun == cursor # None => first <= cursor

CursorInv ==
    /\ TypeOK
    /\ InFlight
    /\ Begun
    /\ NoSilentLoss
    /\ RecentBlocksScanned

SpacingInv ==
    /\ TypeOK
    /\ CooldownSpacing
    /\ \A e \in events : e.at <= now

-----------------------------------------------------------------------------
(* The catch-up bound keeps a poll between its start and the latest block. *)
LEMMA BoundedStartRange ==
    ASSUME NEW h \in Heights, cursor \in Heights \cup {None}, StartBlock(h) <= h
    PROVE  /\ BoundedStart(h) \in Heights
           /\ StartBlock(h) <= BoundedStart(h)
           /\ BoundedStart(h) <= h
           /\ \A b \in Int : StartBlock(h) <= b /\ b < BoundedStart(h)
                                => b + MaxBlocksPerPoll <= h
           /\ cursor = None => BoundedStart(h) = h
BY BoundsAssumption, ConfigAssumption
   DEF StartBlock, BoundedStart, Larger, Heights, None

(* Saving a transfer keeps the events well typed. *)
LEMMA PersistType ==
    ASSUME TypeOK, NEW b \in Heights, NEW a \in Assets, Persist(b, a)
    PROVE  events' \subseteq [key : Heights \X Assets, at : 0 .. MaxTime]
<1>1. [key |-> <<b, a>>, at |-> now] \in [key : Heights \X Assets, at : 0 .. MaxTime]
  BY DEF TypeOK
<1> QED
  BY <1>1 DEF Persist, TypeOK

(* Saving a transfer loses no event and leaves the asset explained. *)
LEMMA PersistExplains ==
    ASSUME NEW b \in Heights, NEW a \in Assets, Persist(b, a),
           UNCHANGED unpriced
    PROVE  events \subseteq events' /\ ExplainedAfter(b, a)
<1>1. events \subseteq events'
  BY DEF Persist
<1>2. CASE a \notin Whales[b]
  BY <1>1, <1>2 DEF ExplainedAfter, Explained
<1>3. CASE a \in Whales[b] /\ IsDuplicate(<<b, a>>)
  BY <1>1, <1>3 DEF ExplainedAfter, Explained, IsDuplicate
<1>4. CASE a \in Whales[b] /\ ~IsDuplicate(<<b, a>>)
  <2>1. [key |-> <<b, a>>, at |-> now] \in events'
    BY <1>4 DEF Persist
  <2> QED
    BY <1>1, <2>1 DEF ExplainedAfter, Explained
<1> QED
  BY <1>1, <1>2, <1>3, <1>4

(* What is explained stays explained while events and skips only grow. *)
LEMMA ExplainedStable ==
    ASSUME NEW b, NEW a, Explained(b, a),
           events \subseteq events', unpriced \subseteq unpriced'
    PROVE  ExplainedAfter(b, a)
BY DEF ExplainedAfter, Explained

(* Every step keeps the types. *)
LEMMA TypeStep == TypeOK /\ [Next]_vars => TypeOK'
<1> SUFFICES ASSUME TypeOK, [Next]_vars PROVE TypeOK'
  OBVIOUS
<1> USE BoundsAssumption, ConfigAssumption
<1>1. ASSUME Mine PROVE TypeOK'
  BY <1>1 DEF Mine, TypeOK, Heights, locals, history, Locations
<1>2. ASSUME Tick PROVE TypeOK'
  BY <1>2 DEF Tick, TypeOK, Heights, locals, history, Locations
<1>3. ASSUME Wake PROVE TypeOK'
  BY <1>3 DEF Wake, TypeOK, locals, history, Locations
<1>4. ASSUME NEW h \in Heights, AnswerHead(h) PROVE TypeOK'
  <2>1. UNCHANGED <<head, now, cursor, events, first, jumped, unpriced>>
    BY <1>4 DEF AnswerHead, history
  <2>2. faults' \in 0 .. MaxFaults
    BY <1>4 DEF AnswerHead, TypeOK
  <2>3. pc' \in Locations /\ asset' = asset
    BY <1>4 DEF AnswerHead, locals, Locations
  <2>4. latest' \in Heights /\ from' \in Heights /\ blk' \in Heights
    <3>1. CASE StartBlock(h) > h /\ UNCHANGED locals
      BY <3>1 DEF locals, TypeOK
    <3>2. CASE StartBlock(h) <= h /\ latest' = h /\ from' = BoundedStart(h)
                  /\ blk' = BoundedStart(h)
      BY <3>2, BoundedStartRange DEF TypeOK
    <3> QED
      BY <1>4, <3>1, <3>2 DEF AnswerHead
  <2> QED
    BY <2>1, <2>2, <2>3, <2>4 DEF TypeOK
<1>5. ASSUME AnswerBlock PROVE TypeOK'
  BY <1>5 DEF AnswerBlock, TypeOK, Assets, history, Locations
<1>6. ASSUME NextScan PROVE pc' \in Locations /\ latest' \in Heights
                            /\ from' \in Heights /\ blk' \in Heights
                            /\ asset' \in Assets
  BY <1>6 DEF NextScan, TypeOK, Assets, Heights, Locations, locals
<1>7. ASSUME PriceUnusable PROVE TypeOK'
  BY <1>6, <1>7 DEF PriceUnusable, TypeOK
<1>8. ASSUME PriceNative PROVE TypeOK'
  <2>1. events' \subseteq [key : Heights \X Assets, at : 0 .. MaxTime]
    BY <1>8, PersistType DEF PriceNative, TypeOK, Assets
  <2> QED
    BY <1>6, <1>8, <2>1 DEF PriceNative, TypeOK, history
<1>9. ASSUME PriceToken PROVE TypeOK'
  BY <1>9 DEF PriceToken, TypeOK, locals, history, Locations
<1>10. ASSUME AnswerLogs PROVE TypeOK'
  <2>1. events' \subseteq [key : Heights \X Assets, at : 0 .. MaxTime]
    BY <1>10, PersistType DEF AnswerLogs, TypeOK
  <2> QED
    BY <1>6, <1>10, <2>1 DEF AnswerLogs, TypeOK, history
<1>11. ASSUME SetCursor PROVE TypeOK'
  <2>1. StartBlock(latest) .. (from - 1) \subseteq Heights
    BY DEF StartBlock, TypeOK, Heights, None
  <2> QED
    BY <1>11, <2>1 DEF SetCursor, TypeOK, locals, Locations
<1>12. ASSUME CallFails PROVE TypeOK'
  BY <1>12 DEF CallFails, TypeOK, locals, history, Locations
<1>13. ASSUME Crash PROVE TypeOK'
  BY <1>13 DEF Crash, TypeOK, locals, history, Locations
<1>14. ASSUME Restart PROVE TypeOK'
  BY <1>14 DEF Restart, TypeOK, locals, history, Locations
<1>15. ASSUME UNCHANGED vars PROVE TypeOK'
  BY <1>15 DEF vars, locals, history, TypeOK
<1> QED
  BY <1>1, <1>2, <1>3, <1>4, <1>5, <1>7, <1>8, <1>9, <1>10, <1>11, <1>12,
     <1>13, <1>14, <1>15 DEF Next, Watch

(* The initial state has the types. *)
LEMMA TypeInit == Init => TypeOK
BY BoundsAssumption, ConfigAssumption
   DEF Init, TypeOK, Heights, Assets, Locations, None

(* Every reachable state has the types, for any chain and any bounds. *)
THEOREM TypeCorrect == Spec => []TypeOK
BY TypeInit, TypeStep, PTL DEF Spec

-----------------------------------------------------------------------------
(* A step that leaves alone what the poll in flight and the cursor claim, and
   forgets no event and no skip, keeps the claims. *)
LEMMA CursorStutter ==
    ASSUME CursorInv, TypeOK',
           events \subseteq events', unpriced \subseteq unpriced',
           UNCHANGED <<cursor, first, jumped>>,
           \/ pc' \notin Scanning
           \/ pc' = pc /\ UNCHANGED locals
    PROVE  CursorInv'
<1>1. Covered' = Covered
  BY DEF Covered
<1>2. NoSilentLoss'
  BY <1>1, ExplainedStable
     DEF NoSilentLoss, CursorInv, Explained, ExplainedAfter
<1>3. RecentBlocksScanned' /\ Begun'
  BY DEF RecentBlocksScanned, Begun, CursorInv
<1>4. InFlight'
  <2>1. CASE pc' \notin Scanning
    BY <2>1 DEF InFlight
  <2>2. CASE pc' = pc /\ UNCHANGED locals /\ pc \in Scanning
    <3>1. UNCHANGED <<latest, from, blk, asset, pc, cursor>>
      BY <2>2 DEF locals
    <3>2. StartBlock(latest)' = StartBlock(latest)
          /\ BoundedStart(latest)' = BoundedStart(latest)
      BY <3>1 DEF StartBlock, BoundedStart
    <3> QED
      BY <2>2, <3>1, <3>2, ExplainedStable DEF InFlight, CursorInv, Explained, ExplainedAfter
  <2> QED
    BY <2>1, <2>2
<1> QED
  BY <1>2, <1>3, <1>4 DEF CursorInv

(* Moving on after an asset has been dealt with keeps the claims. *)
LEMMA CursorNextScan ==
    ASSUME CursorInv, TypeOK', pc \in {"price", "logs"}, NextScan,
           events \subseteq events', unpriced \subseteq unpriced',
           UNCHANGED <<cursor, first, jumped>>,
           ExplainedAfter(blk, asset)
    PROVE  CursorInv'
<1>1. Covered' = Covered
  BY DEF Covered
<1>2. NoSilentLoss'
  BY <1>1, ExplainedStable
     DEF NoSilentLoss, CursorInv, Explained, ExplainedAfter
<1>3. RecentBlocksScanned' /\ Begun'
  BY DEF RecentBlocksScanned, Begun, CursorInv
<1>4. InFlight'
  <2>1. UNCHANGED <<latest, from>>
    BY DEF NextScan, locals
  <2>2. /\ StartBlock(latest) <= latest /\ from = BoundedStart(latest)
        /\ from <= blk /\ blk <= latest
        /\ \A b \in Heights : \A a \in Assets :
               from <= b /\ b < blk => Explained(b, a)
        /\ \A a \in Assets : a < asset => Explained(blk, a)
    BY DEF CursorInv, InFlight, Scanning
  <2>3. /\ StartBlock(latest)' <= latest' /\ from' = BoundedStart(latest)'
    BY <2>1, <2>2 DEF StartBlock, BoundedStart
  <2>4. \A a \in Assets : a < asset => ExplainedAfter(blk, a)
    BY <2>2, ExplainedStable
  <2>5. \A b \in Heights : \A a \in Assets :
               from <= b /\ b < blk => ExplainedAfter(b, a)
    BY <2>2, ExplainedStable
  <2>6. asset \in 0 .. Tokens /\ Tokens \in Nat /\ blk \in Heights
        /\ latest \in Heights /\ from \in Heights
    BY ConfigAssumption DEF CursorInv, TypeOK, Assets
  <2>7. CASE asset < Tokens /\ asset' = asset + 1 /\ pc' = "price" /\ blk' = blk
    <3>1. \A a \in Assets : a < asset' => ExplainedAfter(blk, a)
      BY <2>4, <2>6, <2>7 DEF Assets
    <3>2. \A a \in Assets : a < asset' => ExplainedAfter(blk', a)
      BY <2>7, <3>1
    <3>3. \A b \in Heights : \A a \in Assets :
               from' <= b /\ b < blk' => ExplainedAfter(b, a)
      BY <2>1, <2>5, <2>7
    <3> QED
      BY <2>1, <2>2, <2>3, <2>7, <3>2, <3>3 DEF InFlight, Explained, ExplainedAfter
  <2>8. CASE asset = Tokens /\ blk < latest /\ blk' = blk + 1 /\ pc' = "block"
    <3>1. \A a \in Assets : ExplainedAfter(blk, a)
      BY <2>4, <2>6, <2>8 DEF Assets
    <3>2. \A b \in Heights : \A a \in Assets :
               from' <= b /\ b < blk' => ExplainedAfter(b, a)
      <4> SUFFICES ASSUME NEW b \in Heights, NEW a \in Assets,
                          from <= b, b < blk + 1
                   PROVE  ExplainedAfter(b, a)
        BY <2>1, <2>8
      <4>1. b < blk \/ b = blk
        BY <2>6 DEF Heights
      <4> QED
        BY <2>5, <3>1, <4>1
    <3>3. from' <= blk' /\ blk' <= latest'
      BY <2>1, <2>2, <2>6, <2>8 DEF Heights
    <3> QED
      BY <2>3, <2>8, <3>2, <3>3 DEF InFlight, Explained, ExplainedAfter
  <2>9. CASE asset = Tokens /\ blk = latest /\ pc' = "commit" /\ UNCHANGED locals
    <3>1. \A a \in Assets : ExplainedAfter(blk, a)
      BY <2>4, <2>6, <2>9 DEF Assets
    <3>2. UNCHANGED <<blk, asset>>
      BY <2>9 DEF locals
    <3> QED
      BY <2>1, <2>2, <2>3, <2>5, <2>9, <3>1, <3>2 DEF InFlight, Explained, ExplainedAfter
  <2> QED
    BY <2>7, <2>8, <2>9 DEF NextScan
<1> QED
  BY <1>2, <1>3, <1>4 DEF CursorInv

(* Writing the cursor covers exactly what was scanned or left out. *)
LEMMA CursorSet == ASSUME CursorInv, TypeOK', SetCursor PROVE CursorInv'
<1>1. /\ StartBlock(latest) <= latest /\ from = BoundedStart(latest)
      /\ blk = latest
      /\ \A b \in Heights : \A a \in Assets :
             from <= b /\ b < blk => Explained(b, a)
      /\ \A a \in Assets : Explained(blk, a)
  BY DEF CursorInv, InFlight, Scanning, SetCursor
<1>2. cursor \in Heights \cup {None} /\ latest \in Heights /\ from \in Heights
      /\ first \in Heights /\ jumped \subseteq Heights
  BY DEF CursorInv, TypeOK
<1>3. /\ StartBlock(latest) <= from /\ from <= latest
      /\ \A b \in Int : StartBlock(latest) <= b /\ b < from
                            => b + MaxBlocksPerPoll <= latest
      /\ cursor = None => from = latest
  BY <1>1, <1>2, BoundedStartRange
<1>4. cursor' = latest /\ pc' = "sleep"
      /\ first' = (IF cursor = None THEN latest ELSE first)
      /\ jumped' = jumped \cup StartBlock(latest) .. (from - 1)
      /\ UNCHANGED <<events, unpriced>>
  BY DEF SetCursor
<1>5. cursor <= latest
  BY <1>1, <1>2 DEF StartBlock, Heights, None
<1>6. Begun'
  BY <1>2, <1>4, <1>5 DEF Begun, CursorInv, Heights, None
<1>7. RecentBlocksScanned'
  <2> SUFFICES ASSUME NEW b \in jumped' PROVE b + MaxBlocksPerPoll <= latest
    BY <1>4 DEF RecentBlocksScanned
  <2>1. CASE b \in jumped
    BY <1>2, <1>5, <2>1, ConfigAssumption
       DEF CursorInv, RecentBlocksScanned, Heights, None
  <2>2. CASE b \in StartBlock(latest) .. (from - 1)
    BY <1>2, <1>3, <2>2 DEF Heights
  <2> QED
    BY <1>4, <2>1, <2>2
<1>8. NoSilentLoss'
  <2> SUFFICES ASSUME NEW b \in Heights, first' <= b, b <= latest,
                      b \notin jumped', NEW a \in Assets
               PROVE  Explained(b, a)
    BY <1>4 DEF NoSilentLoss, Covered, Explained
  <2>1. CASE b < StartBlock(latest)
    <3>1. cursor # None /\ first <= b /\ b <= cursor
      BY <1>2, <1>4, <2>1 DEF StartBlock, Heights, None
    <3> QED
      BY <1>4, <3>1 DEF CursorInv, NoSilentLoss, Covered
  <2>2. CASE StartBlock(latest) <= b /\ b < from
    <3>1. b \in StartBlock(latest) .. (from - 1)
      BY <1>2, <2>2 DEF StartBlock, Heights, None
    <3> QED
      BY <1>4, <3>1
  <2>3. CASE from <= b /\ b < latest
    BY <1>1, <2>3
  <2>4. CASE b = latest
    BY <1>1, <2>4
  <2>5. StartBlock(latest) \in Int
    BY <1>2 DEF StartBlock, Heights, None
  <2> QED
    BY <1>2, <2>1, <2>2, <2>3, <2>4, <2>5 DEF Heights
<1>9. InFlight'
  BY <1>4 DEF InFlight, Scanning
<1> QED
  BY <1>6, <1>7, <1>8, <1>9 DEF CursorInv

(* Every step keeps the claims of the cursor. *)
LEMMA CursorStep == CursorInv /\ [Next]_vars => CursorInv'
<1> SUFFICES ASSUME CursorInv, [Next]_vars PROVE CursorInv'
  OBVIOUS
<1>0. TypeOK'
  BY TypeStep DEF CursorInv
<1>1. CASE Mine \/ Tick \/ UNCHANGED vars
  BY <1>0, <1>1, CursorStutter DEF Mine, Tick, vars, locals, history
<1>2. CASE Wake \/ CallFails \/ Crash \/ Restart
  BY <1>0, <1>2, CursorStutter
     DEF Wake, CallFails, Crash, Restart, history, Scanning
<1>3. ASSUME NEW h \in Heights, AnswerHead(h) PROVE CursorInv'
  <2>1. UNCHANGED <<cursor, events, first, jumped, unpriced>>
    BY <1>3 DEF AnswerHead, history
  <2>2. CASE pc' = "sleep"
    BY <1>0, <2>1, <2>2, CursorStutter DEF Scanning
  <2>3. CASE /\ StartBlock(h) <= h /\ pc' = "block" /\ latest' = h
             /\ from' = BoundedStart(h) /\ blk' = BoundedStart(h)
    <3>1. /\ BoundedStart(h) \in Heights /\ BoundedStart(h) <= h
      BY <2>3, BoundedStartRange DEF CursorInv, TypeOK
    <3>2. StartBlock(latest)' = StartBlock(h) /\ BoundedStart(latest)' = BoundedStart(h)
      BY <2>1, <2>3 DEF StartBlock, BoundedStart
    <3>3. InFlight'
      BY <2>3, <3>1, <3>2 DEF InFlight, Heights
    <3>4. NoSilentLoss' /\ RecentBlocksScanned' /\ Begun'
      BY <2>1 DEF CursorInv, NoSilentLoss, Covered, Explained,
                  RecentBlocksScanned, Begun
    <3> QED
      BY <1>0, <3>3, <3>4 DEF CursorInv
  <2> QED
    BY <1>3, <2>2, <2>3 DEF AnswerHead
<1>4. ASSUME AnswerBlock PROVE CursorInv'
  <2>1. UNCHANGED <<cursor, events, first, jumped, unpriced, latest, from, blk>>
        /\ pc = "block" /\ pc' = "price" /\ asset' = 0
    BY <1>4 DEF AnswerBlock, history
  <2>2. InFlight'
    <3>1. StartBlock(latest)' = StartBlock(latest)
          /\ BoundedStart(latest)' = BoundedStart(latest)
      BY <2>1 DEF StartBlock, BoundedStart
    <3>2. \A a \in Assets : ~(a < 0)
      BY ConfigAssumption DEF Assets
    <3> QED
      BY <2>1, <3>1, <3>2 DEF CursorInv, InFlight, Scanning, Explained
  <2>3. NoSilentLoss' /\ RecentBlocksScanned' /\ Begun'
    BY <2>1 DEF CursorInv, NoSilentLoss, Covered, Explained,
                RecentBlocksScanned, Begun
  <2> QED
    BY <1>0, <2>2, <2>3 DEF CursorInv
<1>5. ASSUME PriceUnusable PROVE CursorInv'
  <2>1. ExplainedAfter(blk, asset)
    BY <1>5 DEF PriceUnusable, ExplainedAfter
  <2> QED
    BY <1>0, <1>5, <2>1, CursorNextScan DEF PriceUnusable
<1>6. ASSUME PriceNative PROVE CursorInv'
  <2>1. blk \in Heights /\ asset \in Assets
    BY DEF CursorInv, TypeOK
  <2>2. events \subseteq events' /\ ExplainedAfter(blk, asset)
    BY <1>6, <2>1, PersistExplains DEF PriceNative, history
  <2> QED
    BY <1>0, <1>6, <2>2, CursorNextScan DEF PriceNative, history
<1>7. ASSUME PriceToken PROVE CursorInv'
  <2>1. UNCHANGED <<cursor, events, first, jumped, unpriced, latest, from, blk, asset>>
        /\ pc = "price" /\ pc' = "logs"
    BY <1>7 DEF PriceToken, history, locals
  <2>2. InFlight'
    <3>1. StartBlock(latest)' = StartBlock(latest)
          /\ BoundedStart(latest)' = BoundedStart(latest)
      BY <2>1 DEF StartBlock, BoundedStart
    <3> QED
      BY <2>1, <3>1 DEF CursorInv, InFlight, Scanning, Explained
  <2>3. NoSilentLoss' /\ RecentBlocksScanned' /\ Begun'
    BY <2>1 DEF CursorInv, NoSilentLoss, Covered, Explained,
                RecentBlocksScanned, Begun
  <2> QED
    BY <1>0, <2>2, <2>3 DEF CursorInv
<1>8. ASSUME AnswerLogs PROVE CursorInv'
  <2>1. blk \in Heights /\ asset \in Assets
    BY DEF CursorInv, TypeOK
  <2>2. events \subseteq events' /\ ExplainedAfter(blk, asset)
    BY <1>8, <2>1, PersistExplains DEF AnswerLogs, history
  <2> QED
    BY <1>0, <1>8, <2>2, CursorNextScan DEF AnswerLogs, history
<1>9. ASSUME SetCursor PROVE CursorInv'
  BY <1>0, <1>9, CursorSet
<1> QED
  BY <1>1, <1>2, <1>3, <1>4, <1>5, <1>6, <1>7, <1>8, <1>9 DEF Next, Watch

(* Before the first poll nothing is covered. *)
LEMMA CursorInit == Init => CursorInv
<1> SUFFICES ASSUME Init PROVE CursorInv
  OBVIOUS
<1>1. Covered = {}
  BY DEF Init, Covered, Heights, None
<1> QED
  BY <1>1, TypeInit
     DEF Init, CursorInv, InFlight, Scanning, Begun, NoSilentLoss,
         RecentBlocksScanned

(* For every chain, configuration and pattern of faults: no transfer above the
   threshold behind the cursor goes without an event or a recorded reason. *)
THEOREM CursorNeverOutrunsScan == Spec => []NoSilentLoss
<1>1. CursorInv => NoSilentLoss
  BY DEF CursorInv
<1> QED
  BY <1>1, CursorInit, CursorStep, PTL DEF Spec

(* The catch-up bound leaves out only blocks more than max_blocks_per_poll
   behind the cursor. *)
THEOREM OnlyOldBlocksJumped == Spec => []RecentBlocksScanned
<1>1. CursorInv => RecentBlocksScanned
  BY DEF CursorInv
<1> QED
  BY <1>1, CursorInit, CursorStep, PTL DEF Spec

(* A step that changes the cursor moves it forward. *)
LEMMA CursorForward == CursorInv /\ [Next]_vars => [cursor' >= cursor]_cursor
<1> SUFFICES ASSUME CursorInv, [Next]_vars, cursor' # cursor
             PROVE  cursor' >= cursor
  OBVIOUS
<1>1. SetCursor
  BY DEF Next, Watch, Mine, Tick, Wake, AnswerHead, AnswerBlock, PriceUnusable,
         PriceNative, PriceToken, AnswerLogs, CallFails, Crash, Restart, vars
<1>2. cursor' = latest /\ StartBlock(latest) <= latest
  BY <1>1 DEF SetCursor, CursorInv, InFlight, Scanning
<1> QED
  BY <1>2 DEF CursorInv, TypeOK, StartBlock, Heights, None

(* The persisted cursor never moves back. *)
THEOREM CursorOnlyAdvances == Spec => CursorMonotone
BY CursorInit, CursorStep, CursorForward, PTL DEF Spec, CursorMonotone

-----------------------------------------------------------------------------
(* Saving a transfer keeps the spacing: is_duplicate saw every event of the
   key that is young enough. *)
LEMMA PersistSpacing ==
    ASSUME SpacingInv, NEW b \in Heights, NEW a \in Assets, Persist(b, a),
           UNCHANGED now
    PROVE  CooldownSpacing' /\ \A e \in events' : e.at <= now'
<1>1. CASE events' = events
  BY <1>1 DEF SpacingInv, CooldownSpacing
<1>2. CASE /\ ~IsDuplicate(<<b, a>>)
           /\ events' = events \cup {[key |-> <<b, a>>, at |-> now]}
  <2>1. \A e \in events : e.key = <<b, a>> => now - e.at > Cooldown
    BY <1>2, ConfigAssumption DEF IsDuplicate, SpacingInv, TypeOK
  <2>2. \A e \in events : e.at \in Int /\ e.at <= now
    BY DEF SpacingInv, TypeOK
  <2>3. now \in Int
    BY DEF SpacingInv, TypeOK
  <2>4. \A e \in events' : e \in events \/ (e.key = <<b, a>> /\ e.at = now)
    BY <1>2
  <2>5. \A e1, e2 \in events' :
           e1.key = e2.key /\ e1.at < e2.at => e2.at - e1.at > Cooldown
    BY <2>1, <2>2, <2>3, <2>4 DEF SpacingInv, CooldownSpacing
  <2>6. \A e \in events' : e.at <= now
    BY <2>2, <2>3, <2>4
  <2> QED
    BY <2>5, <2>6 DEF CooldownSpacing
<1> QED
  BY <1>1, <1>2 DEF Persist

(* Every step keeps the spacing. *)
LEMMA SpacingStep == SpacingInv /\ [Next]_vars => SpacingInv'
<1> SUFFICES ASSUME SpacingInv, [Next]_vars PROVE SpacingInv'
  OBVIOUS
<1>0. TypeOK'
  BY TypeStep DEF SpacingInv
<1>1. CASE Tick
  <2>1. now \in Int /\ now' = now + 1 /\ events' = events
    BY <1>1 DEF Tick, SpacingInv, TypeOK
  <2>2. \A e \in events : e.at \in Int
    BY DEF SpacingInv, TypeOK
  <2> QED
    BY <1>0, <2>1, <2>2 DEF SpacingInv, CooldownSpacing
<1>2. CASE PriceNative \/ AnswerLogs
  <2>1. blk \in Heights /\ asset \in Assets
    BY DEF SpacingInv, TypeOK
  <2> QED
    BY <1>0, <1>2, <2>1, PersistSpacing DEF PriceNative, AnswerLogs, SpacingInv
<1>3. CASE UNCHANGED <<events, now>>
  BY <1>0, <1>3 DEF SpacingInv, CooldownSpacing
<1> QED
  BY <1>1, <1>2, <1>3
     DEF Next, Watch, Mine, Wake, AnswerHead, AnswerBlock, PriceUnusable,
         PriceToken, SetCursor, CallFails, Crash, Restart, vars

(* No transfer is saved twice within one cooldown, whatever fails. *)
THEOREM SpacingHolds == Spec => []CooldownSpacing
<1>1. Init => SpacingInv
  BY TypeInit DEF Init, SpacingInv, CooldownSpacing
<1>2. SpacingInv => CooldownSpacing
  BY DEF SpacingInv
<1> QED
  BY <1>1, <1>2, SpacingStep, PTL DEF Spec
=============================================================================
