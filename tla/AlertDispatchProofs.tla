------------------------ MODULE AlertDispatchProofs ------------------------
(***************************************************************************)
(* Proof, for any number of tasks, keys and calls, that the delivery       *)
(* history keeps the cooldown.  The check and the row it justifies are     *)
(* several awaits apart: what carries the check over to the row is that    *)
(* whoever is past it holds the lock (Exclusive) and that rows are only    *)
(* written by the holder, so the rows it saw as old are still all the rows *)
(* there are (Checked).                                                    *)
(***************************************************************************)
EXTENDS AlertDispatch, FiniteSetTheorems, SequenceTheorems, TLAPS

Critical == Remote \cup {"log"}

\* The part of the types the argument needs.
Shape ==
    /\ now \in Int
    /\ pc \in [Tasks -> Remote \cup {"idle", "waiting", "log"}]
    /\ job \in [Tasks -> [call : 0 .. MaxCalls,
                          key : Keys \cup {"none"}, at : EventTimes \cup {Invalid}]]
    /\ calls \in 0 .. MaxCalls

\* Rows are never dated in the future.
Dated == \A r \in alertLog : r.at \in Int /\ r.at <= now

\* Whoever is past the check holds the lock.
Exclusive == \A t \in Tasks : pc[t] \in Critical => holder = t

\* Past the check, every delivery of the key by another call is old.
Checked ==
    \A t \in Tasks : pc[t] \in Critical =>
        \A r \in Delivered :
            r.key = job[t].key /\ r.call # job[t].call => now - r.at > Cooldown

Inv == Shape /\ Dated /\ Exclusive /\ Checked /\ CooldownKept

-----------------------------------------------------------------------------
(* The names of the locations are distinct. *)
LEMMA NextChannelRange == \A n \in 0 .. 2 : NextChannel(n) \in Remote \cup {"log"}
BY DEF NextChannel, Order, Remote

LEMMA PositionRange == \A ch \in Remote : Position(ch) \in 1 .. 2
BY DEF Position, Order, Remote

(* A new row of a call whose key was checked keeps the history spaced. *)
LEMMA AddRow ==
    ASSUME Inv, NEW t \in Tasks, NEW ch, NEW ok,
           alertLog' = alertLog \cup {Row(job[t], ch, ok)},
           UNCHANGED now,
           ok => \A r \in Delivered :
                    r.key = job[t].key /\ r.call # job[t].call
                        => now - r.at > Cooldown
    PROVE  Dated' /\ CooldownKept'
<1> DEFINE new == Row(job[t], ch, ok)
<1>1. new.at = now /\ new.key = job[t].key /\ new.call = job[t].call
      /\ new.delivered = ok
  BY DEF Row
<1>2. now \in Int /\ Cooldown \in Int
  BY ConfigAssumption DEF Inv, Shape
<1>3. \A r \in alertLog' : r \in alertLog \/ r = new
  OBVIOUS
<1>4. \A r \in alertLog : r.at \in Int /\ r.at <= now
  BY DEF Inv, Dated
<1>5. Dated'
  BY <1>1, <1>2, <1>3, <1>4 DEF Dated
<1>6. CooldownKept'
  <2> SUFFICES ASSUME NEW r \in alertLog', NEW s \in alertLog',
                      r.delivered, s.delivered, r.call # s.call,
                      r.key = s.key, r.at <= s.at
               PROVE  s.at - r.at > Cooldown
    BY DEF CooldownKept, Delivered
  <2>1. CASE r \in alertLog /\ s \in alertLog
    BY <2>1 DEF Inv, CooldownKept, Delivered
  <2>2. CASE r \in alertLog /\ s = new
    BY <1>1, <2>2 DEF Delivered
  <2>3. CASE r = new /\ s \in alertLog
    <3>1. now - s.at > Cooldown /\ s.at <= now /\ s.at \in Int
      BY <1>1, <1>4, <2>3 DEF Delivered
    <3> QED
      BY <1>1, <1>2, <2>3, <3>1, ConfigAssumption
  <2>4. CASE r = new /\ s = new
    BY <2>4
  <2> QED
    BY <1>3, <2>1, <2>2, <2>3, <2>4
<1> QED
  BY <1>5, <1>6

(* A step that writes no row, lets nobody past the check and at most lets time
   pass keeps the invariant. *)
LEMMA NoRow ==
    ASSUME Inv, Shape', UNCHANGED alertLog, now' >= now,
           \A t \in Tasks : pc'[t] \in Critical =>
               pc[t] \in Critical /\ job'[t] = job[t] /\ holder' = holder
    PROVE  Inv'
<1>1. Dated'
  BY DEF Inv, Dated, Shape
<1>2. CooldownKept'
  BY DEF Inv, CooldownKept, Delivered
<1>3. Exclusive'
  BY DEF Inv, Exclusive
<1>4. Checked'
  <2> SUFFICES ASSUME NEW t \in Tasks, pc'[t] \in Critical, NEW r \in Delivered,
                      r.key = job[t].key, r.call # job[t].call
               PROVE  now' - r.at > Cooldown
    BY DEF Checked, Delivered
  <2>1. now - r.at > Cooldown
    BY DEF Inv, Checked
  <2> QED
    BY <2>1, ConfigAssumption DEF Inv, Shape, Dated, Delivered
<1> QED
  BY <1>1, <1>2, <1>3, <1>4 DEF Inv

(* An event that is not suppressed has no young delivery of its key. *)
LEMMA NotSuppressed ==
    ASSUME Inv, NEW t \in Tasks, ~Suppressed(job[t])
    PROVE  \A r \in Delivered : r.key = job[t].key => now - r.at > Cooldown
<1> SUFFICES ASSUME NEW r \in alertLog, r.delivered, r.key = job[t].key
             PROVE  now - r.at > Cooldown
  BY DEF Delivered
<1>1. ~(r.at >= now - Cooldown)
  BY DEF Suppressed, InCooldown
<1> QED
  BY <1>1, ConfigAssumption DEF Inv, Shape, Dated

(* When the lock is free nobody is past the check. *)
LEMMA FreeLock ==
    ASSUME Inv, holder = NoTask, NEW t \in Tasks
    PROVE  pc[t] \notin Critical
BY NamesAssumption DEF Inv, Exclusive

(* Every step keeps the invariant. *)
LEMMA Step == Inv /\ [Next]_vars => Inv'
<1> SUFFICES ASSUME Inv, [Next]_vars PROVE Inv'
  OBVIOUS
<1>0. {"idle", "waiting"} \cap Critical = {} /\ Critical = {"telegram", "discord", "log"}
  BY DEF Critical, Remote
<1>1. NoJob \in [call : 0 .. MaxCalls, key : Keys \cup {"none"},
                 at : EventTimes \cup {Invalid}]
  BY BoundsAssumption DEF NoJob
<1>2. CASE Tick
  <2>1. Shape' /\ now' >= now
    BY <1>2 DEF Inv, Shape, Tick
  <2> QED
    BY <1>2, <2>1, NoRow DEF Tick, Inv, Exclusive
<1>3. ASSUME NEW t \in Tasks, NEW k \in Keys, NEW at \in EventTimes \cup {Invalid},
             Call(t, k, at)
      PROVE  Inv'
  <2>1. Shape' /\ now' >= now
    BY <1>3, BoundsAssumption DEF Inv, Shape, Call
  <2>2. \A u \in Tasks : pc'[u] \in Critical =>
            pc[u] \in Critical /\ job'[u] = job[u] /\ holder' = holder
    BY <1>0, <1>3 DEF Inv, Shape, Call
  <2> QED
    BY <1>3, <2>1, <2>2, NoRow DEF Call
<1>4. ASSUME NEW t \in Tasks, Enter(t) PROVE Inv'
  <2>1. holder = NoTask /\ UNCHANGED now /\ calls' = calls
    BY <1>4 DEF Enter
  <2>2. \A u \in Tasks : pc[u] \notin Critical
    BY <2>1, FreeLock
  <2>3. ASSUME Return(t), UNCHANGED now, calls' = calls
        PROVE  Shape' /\ Exclusive' /\ Checked'
    <3>1. Shape'
      BY <1>1, <2>3 DEF Return, Inv, Shape
    <3>2. \A u \in Tasks : pc'[u] \notin Critical
      BY <1>0, <2>2, <2>3 DEF Return, Inv, Shape
    <3> QED
      BY <3>1, <3>2 DEF Exclusive, Checked
  <2>4. CASE Suppress(t)
    <3>1. Dated' /\ CooldownKept'
      BY <2>1, <2>4, AddRow DEF Suppress
    <3> QED
      BY <2>1, <2>3, <2>4, <3>1 DEF Suppress, Inv
  <2>5. CASE DispatchShadow(t)
    <3>1. Dated' /\ CooldownKept'
      BY <2>1, <2>5, AddRow, NotSuppressed DEF DispatchShadow
    <3> QED
      BY <2>1, <2>3, <2>5, <3>1 DEF DispatchShadow, Inv
  <2>6. CASE DispatchNowhere(t)
    <3>1. Dated' /\ CooldownKept'
      BY <2>1, <2>6, AddRow DEF DispatchNowhere
    <3> QED
      BY <2>1, <2>3, <2>6, <3>1 DEF DispatchNowhere, Inv
  <2>7. CASE DispatchRemote(t)
    <3>1. Shape'
      BY <2>1, <2>7, NextChannelRange DEF DispatchRemote, Inv, Shape
    <3>2. \A u \in Tasks : pc'[u] \in Critical => u = t
      BY <2>2, <2>7 DEF DispatchRemote, Inv, Shape
    <3>3. Exclusive'
      BY <2>7, <3>2 DEF DispatchRemote, Exclusive
    <3>4. Checked'
      BY <2>1, <2>7, <3>2, NotSuppressed DEF DispatchRemote, Checked, Delivered
    <3>5. Dated' /\ CooldownKept'
      BY <2>1, <2>7 DEF DispatchRemote, Inv, Dated, CooldownKept, Delivered
    <3> QED
      BY <3>1, <3>3, <3>4, <3>5 DEF Inv
  <2> QED
    BY <1>4, <2>4, <2>5, <2>6, <2>7 DEF Enter
<1>5. ASSUME NEW t \in Tasks, NEW reached \in BOOLEAN, NEW answered \in BOOLEAN,
             SendEnds(t, reached, answered)
      PROVE  Inv'
  <2>1. Position(pc[t]) \in 0 .. 2
    BY <1>5, PositionRange DEF SendEnds
  <2>2. NextChannel(Position(pc[t])) \in Critical
    BY <2>1, NextChannelRange DEF Critical
  <2>3. Shape'
    BY <1>5, <2>2 DEF SendEnds, Inv, Shape, Critical
  <2>4. \A u \in Tasks : pc'[u] \in Critical =>
            pc[u] \in Critical /\ job'[u] = job[u] /\ holder' = holder
    BY <1>5 DEF SendEnds, Inv, Shape, Critical
  <2>5. now' >= now /\ UNCHANGED alertLog
    BY <1>5 DEF SendEnds, Inv, Shape
  <2> QED
    BY <2>3, <2>4, <2>5, NoRow
<1>6. ASSUME NEW t \in Tasks, LogResult(t) PROVE Inv'
  <2>1. pc[t] \in Critical /\ holder = t
    BY <1>6 DEF LogResult, Inv, Exclusive, Critical
  <2>2. \A r \in Delivered : r.key = job[t].key /\ r.call # job[t].call
                                => now - r.at > Cooldown
    BY <2>1 DEF Inv, Checked
  <2>3. Dated' /\ CooldownKept'
    BY <1>6, <2>2, AddRow DEF LogResult
  <2>4. \A u \in Tasks : pc[u] \in Critical => u = t
    BY <2>1 DEF Inv, Exclusive
  <2>5. CASE Return(t)
    <3>1. Shape'
      BY <1>1, <1>6, <2>5 DEF LogResult, Return, Inv, Shape
    <3>2. \A u \in Tasks : pc'[u] \notin Critical
      BY <1>0, <2>4, <2>5 DEF Return, Inv, Shape
    <3> QED
      BY <2>3, <3>1, <3>2 DEF Inv, Exclusive, Checked
  <2>6. CASE UNCHANGED <<pc, holder, job>>
    <3>1. Shape' /\ Exclusive'
      BY <1>6, <2>6 DEF LogResult, Inv, Shape, Exclusive
    <3>2. Checked'
      <4> SUFFICES ASSUME NEW r \in alertLog', r.delivered,
                          r.key = job[t].key, r.call # job[t].call
                   PROVE  now - r.at > Cooldown
        BY <1>6, <2>4, <2>6 DEF LogResult, Checked, Delivered
      <4>1. r \in alertLog
        BY <1>6 DEF LogResult, Row
      <4> QED
        BY <2>2, <4>1 DEF Delivered
    <3> QED
      BY <2>3, <3>1, <3>2 DEF Inv
  <2> QED
    BY <1>6, <2>5, <2>6 DEF LogResult
<1>7. ASSUME NEW t \in Tasks, NEW reached \in BOOLEAN, Cancel(t, reached)
      PROVE  Inv'
  <2>1. Shape' /\ now' >= now /\ UNCHANGED alertLog
    BY <1>1, <1>7 DEF Cancel, Inv, Shape
  <2>2. \A u \in Tasks : pc'[u] \in Critical =>
            pc[u] \in Critical /\ job'[u] = job[u] /\ holder' = holder
    BY <1>0, <1>7 DEF Cancel, Inv, Shape, Exclusive
  <2> QED
    BY <2>1, <2>2, NoRow
<1>8. CASE Crash
  <2>1. Shape' /\ now' >= now /\ UNCHANGED alertLog
    BY <1>1, <1>8 DEF Crash, Inv, Shape
  <2>2. \A u \in Tasks : pc'[u] \notin Critical
    BY <1>0, <1>8 DEF Crash
  <2> QED
    BY <2>1, <2>2, NoRow
<1>9. CASE UNCHANGED vars
  BY <1>9 DEF vars, Inv, Shape, Dated, Exclusive, Checked, CooldownKept, Delivered
<1> QED
  BY <1>2, <1>3, <1>4, <1>5, <1>6, <1>7, <1>8, <1>9 DEF Next, Serve

(* The empty history satisfies the invariant. *)
LEMMA Initially == Init => Inv
BY BoundsAssumption
   DEF Init, Inv, Shape, Dated, Exclusive, Checked, CooldownKept, Delivered,
       Critical, Remote, NoJob

(* However many tasks dispatch, are cancelled or die between the check and the
   row, the history never holds two deliveries of one key by different calls
   within one cooldown. *)
THEOREM HistoryKeepsCooldown == Spec => []CooldownKept
<1>1. Inv => CooldownKept
  BY DEF Inv
<1> QED
  BY <1>1, Initially, Step, PTL DEF Spec

-----------------------------------------------------------------------------
(* The line: calls are served in the order of their numbers. *)

\* Every running call has a number of its own.
Numbered ==
    /\ \A t \in Tasks : pc[t] # "idle" => job[t].call \in 1 .. calls
    /\ \A t, u \in Tasks :
         pc[t] # "idle" /\ pc[u] # "idle" /\ job[t].call = job[u].call => t = u

\* The queue holds the waiting tasks.
InLine ==
    /\ queue \in Seq(Tasks)
    /\ \A i \in 1 .. Len(queue) : pc[queue[i]] = "waiting"
    /\ \A t \in Tasks : pc[t] = "waiting" => \E i \in 1 .. Len(queue) : queue[i] = t

Ordered == \A i, j \in 1 .. Len(queue) : i < j => job[queue[i]].call < job[queue[j]].call

\* Whoever is past the check came before whoever waits.
Ahead ==
    \A t, u \in Tasks : pc[t] \in Critical /\ pc[u] = "waiting" => job[t].call < job[u].call

Line == Numbered /\ InLine /\ Ordered /\ Ahead

\* One task leaves a sequence of tasks.
LEMMA RemoveAtProperties ==
  ASSUME NEW S, NEW s \in Seq(S), NEW i \in 1 .. Len(s)
  PROVE  /\ RemoveAt(s, i) \in Seq(S) /\ Len(RemoveAt(s, i)) = Len(s) - 1
         /\ \A j \in 1 .. (Len(s) - 1) : RemoveAt(s, i)[j] = IF j < i THEN s[j] ELSE s[j + 1]
<1> DEFINE a == SubSeq(s, 1, i - 1)
           b == SubSeq(s, i + 1, Len(s))
<1>1. Len(s) \in Nat /\ \A j \in 1 .. Len(s) : s[j] \in S
  BY LenProperties, ElementOfSeq
<1>2. a \in Seq(S) /\ Len(a) = i - 1 /\ \A j \in 1 .. (i - 1) : a[j] = s[j]
  <2>1. i - 1 \in Int /\ \A j \in 1 .. (i - 1) : s[j] \in S
    BY <1>1
  <2>2. /\ a \in Seq(S) /\ Len(a) = IF 1 <= i - 1 THEN i - 1 - 1 + 1 ELSE 0
        /\ \A j \in 1 .. (i - 1 - 1 + 1) : a[j] = s[1 + j - 1]
    BY <2>1, SubSeqProperties
  <2> HIDE DEF a
  <2> QED
    BY <1>1, <2>2
<1>3. b \in Seq(S) /\ Len(b) = Len(s) - i /\ \A j \in 1 .. (Len(s) - i) : b[j] = s[i + j]
  <2>1. i + 1 \in Int /\ Len(s) \in Int /\ \A j \in (i + 1) .. Len(s) : s[j] \in S
    BY <1>1
  <2>2. /\ b \in Seq(S) /\ Len(b) = IF i + 1 <= Len(s) THEN Len(s) - (i + 1) + 1 ELSE 0
        /\ \A j \in 1 .. (Len(s) - (i + 1) + 1) : b[j] = s[(i + 1) + j - 1]
    BY <2>1, SubSeqProperties
  <2> HIDE DEF b
  <2>3. \A j \in 1 .. (Len(s) - i) : b[j] = s[i + j]
    <3> SUFFICES ASSUME NEW j \in 1 .. (Len(s) - i) PROVE b[j] = s[i + j]
      OBVIOUS
    <3>1. (i + 1) + j - 1 = i + j /\ j \in 1 .. (Len(s) - (i + 1) + 1)
      BY <1>1
    <3> QED
      BY <2>2, <3>1
  <2> QED
    BY <1>1, <2>2, <2>3
<1> HIDE DEF a, b
<1>4. /\ a \o b \in Seq(S) /\ Len(a \o b) = Len(a) + Len(b)
      /\ \A j \in 1 .. Len(a) + Len(b) : (a \o b)[j] = IF j <= Len(a) THEN a[j] ELSE b[j - Len(a)]
  BY <1>2, <1>3, ConcatProperties
<1>5. ASSUME NEW j \in 1 .. (Len(s) - 1)
      PROVE  (a \o b)[j] = IF j < i THEN s[j] ELSE s[j + 1]
  <2>1. j \in 1 .. Len(a) + Len(b)
    BY <1>1, <1>2, <1>3
  <2>2. CASE j < i
    BY <1>1, <1>2, <1>4, <2>1, <2>2
  <2>3. CASE ~(j < i)
    <3>1. j - (i - 1) \in 1 .. (Len(s) - i) /\ i + (j - (i - 1)) = j + 1
      BY <1>1, <2>3
    <3> QED
      BY <1>1, <1>2, <1>3, <1>4, <2>1, <2>3, <3>1
  <2> QED
    BY <2>2, <2>3
<1>6. RemoveAt(s, i) = a \o b
  BY DEF RemoveAt, a, b
<1>7. Len(a) + Len(b) = Len(s) - 1
  BY <1>1, <1>2, <1>3
<1> QED
  BY <1>4, <1>5, <1>6, <1>7

LEMMA RemoveTask ==
  ASSUME queue \in Seq(Tasks), NEW n \in 1 .. Len(queue)
  PROVE  /\ RemoveAt(queue, n) \in Seq(Tasks) /\ Len(RemoveAt(queue, n)) = Len(queue) - 1
         /\ \A j \in 1 .. (Len(queue) - 1) :
              RemoveAt(queue, n)[j] = IF j < n THEN queue[j] ELSE queue[j + 1]
BY RemoveAtProperties

\* The line that t has left holds the others in the same order.
LEMMA WithoutProperties ==
  ASSUME Line, Shape, NEW t \in Tasks
  PROVE  /\ Without(t) \in Seq(Tasks)
         /\ \A u \in Tasks : pc[u] = "waiting" /\ u # t =>
              \E i \in 1 .. Len(Without(t)) : Without(t)[i] = u
         /\ \A i \in 1 .. Len(Without(t)) : pc[Without(t)[i]] = "waiting" /\ Without(t)[i] # t
         /\ \A i, j \in 1 .. Len(Without(t)) :
              i < j => job[Without(t)[i]].call < job[Without(t)[j]].call
<1> USE DEF Line, InLine, Ordered
<1>0. queue \in Seq(Tasks) /\ Len(queue) \in Nat /\ \A j \in 1 .. Len(queue) : queue[j] \in Tasks
  BY LenProperties, ElementOfSeq
<1>1. CASE pc[t] # "waiting"
  BY <1>0, <1>1 DEF Without
<1>2. CASE pc[t] = "waiting"
  <2> DEFINE n == CHOOSE i \in 1 .. Len(queue) : queue[i] = t
  <2>1. n \in 1 .. Len(queue) /\ queue[n] = t
    BY <1>2
  <2>2. Without(t) = RemoveAt(queue, n)
    BY <1>2 DEF Without
  <2> HIDE DEF n
  <2>3. /\ Without(t) \in Seq(Tasks) /\ Len(Without(t)) = Len(queue) - 1
        /\ \A j \in 1 .. (Len(queue) - 1) : Without(t)[j] = IF j < n THEN queue[j] ELSE queue[j + 1]
    <3>1. /\ RemoveAt(queue, n) \in Seq(Tasks) /\ Len(RemoveAt(queue, n)) = Len(queue) - 1
          /\ \A j \in 1 .. (Len(queue) - 1) :
               RemoveAt(queue, n)[j] = IF j < n THEN queue[j] ELSE queue[j + 1]
      BY <1>0, <2>1, RemoveTask
    <3> QED
      BY <2>2, <3>1, Zenon
  <2>4. ASSUME NEW u \in Tasks, pc[u] = "waiting", u # t
        PROVE  \E i \in 1 .. Len(Without(t)) : Without(t)[i] = u
    <3>1. PICK k \in 1 .. Len(queue) : queue[k] = u
      BY <2>4
    <3>2. CASE k < n
      BY <1>0, <2>1, <2>3, <3>1, <3>2
    <3>3. CASE k > n
      <4>1. k - 1 \in 1 .. (Len(queue) - 1) /\ ~(k - 1 < n) /\ (k - 1) + 1 = k
        BY <1>0, <2>1, <3>3
      <4> QED
        BY <1>0, <2>1, <2>3, <3>1, <3>3, <4>1
    <3> QED
      BY <1>0, <2>1, <2>4, <3>1, <3>2, <3>3
  <2>5. ASSUME NEW i \in 1 .. Len(Without(t))
        PROVE  pc[Without(t)[i]] = "waiting" /\ Without(t)[i] # t
    <3>0. i \in 1 .. (Len(queue) - 1) /\ i \in 1 .. Len(queue) /\ i + 1 \in 1 .. Len(queue)
      BY <1>0, <2>3, <2>5
    <3>1. PICK k \in 1 .. Len(queue) : k # n /\ Without(t)[i] = queue[k]
      BY <2>1, <2>3, <3>0
    <3>2. queue[k] # t
      <4>1. job[t].call \in Int
        BY DEF Shape
      <4>2. queue[k] = t => job[queue[k]].call = job[queue[n]].call
        BY <2>1
      <4> QED
        BY <1>0, <2>1, <3>1, <4>1, <4>2
    <3> QED
      BY <3>1, <3>2
  <2>6. ASSUME NEW i \in 1 .. Len(Without(t)), NEW j \in 1 .. Len(Without(t)), i < j
        PROVE  job[Without(t)[i]].call < job[Without(t)[j]].call
    <3> DEFINE k == IF i < n THEN i ELSE i + 1
               l == IF j < n THEN j ELSE j + 1
    <3>1. /\ k \in 1 .. Len(queue) /\ l \in 1 .. Len(queue) /\ k < l
          /\ i \in 1 .. (Len(queue) - 1) /\ j \in 1 .. (Len(queue) - 1)
      BY <1>0, <2>1, <2>3, <2>6
    <3>2. Without(t)[i] = queue[k] /\ Without(t)[j] = queue[l]
      BY <2>3, <3>1
    <3> HIDE DEF k, l
    <3> QED
      BY <3>1, <3>2
  <2> QED
    BY <2>3, <2>4, <2>5, <2>6
<1> QED
  BY <1>1, <1>2

LEMMA LineInit == Init => Line
BY EmptySeq DEF Init, Line, Numbered, InLine, Ordered, Ahead, Critical, Remote

LEMMA LineStep == Inv /\ Inv' /\ Line /\ [Next]_vars => Line'
<1> SUFFICES ASSUME Inv, Inv', Line, [Next]_vars PROVE Line'
  OBVIOUS
<1>0. /\ Shape /\ Shape' /\ Exclusive /\ Exclusive'
      /\ Critical = {"telegram", "discord", "log"} /\ Remote = {"telegram", "discord"}
      /\ Len(queue) \in Nat /\ \A i \in 1 .. Len(queue) : queue[i] \in Tasks
  BY LenProperties, ElementOfSeq DEF Inv, Critical, Remote, Line, InLine
<1>a. Numbered /\ InLine /\ Ordered /\ Ahead
  BY DEF Line
<1>1. CASE UNCHANGED <<calls, queue, pc, job>>
  BY <1>1 DEF Line, Numbered, InLine, Ordered, Ahead
<1>2. ASSUME NEW t \in Tasks, NEW k \in Keys, NEW at \in EventTimes \cup {Invalid},
             Call(t, k, at)
      PROVE  Line'
  <2>1. /\ calls \in Nat /\ calls' = calls + 1 /\ pc[t] = "idle" /\ pc'[t] = "waiting"
        /\ job'[t].call = calls + 1
        /\ \A u \in Tasks : u # t => pc'[u] = pc[u] /\ job'[u] = job[u]
        /\ queue' = Append(queue, t)
    BY <1>0, <1>2 DEF Call, Shape
  <2>2. /\ queue' \in Seq(Tasks) /\ Len(queue') = Len(queue) + 1
        /\ \A i \in 1 .. Len(queue) : queue'[i] = queue[i] /\ queue[i] # t
        /\ queue'[Len(queue) + 1] = t
    <3>1. \A i \in 1 .. Len(queue) : queue[i] # t
      BY <1>0, <1>a, <2>1 DEF InLine
    <3> QED
      BY <1>0, <1>a, <2>1, <3>1, AppendProperties DEF InLine
  <2>3. \A u \in Tasks : pc'[u] # "idle" => job'[u].call \in 1 .. calls'
    <3> SUFFICES ASSUME NEW u \in Tasks, pc'[u] # "idle" PROVE job'[u].call \in 1 .. calls'
      OBVIOUS
    <3>1. CASE u = t
      BY <2>1, <3>1
    <3>2. CASE u # t
      BY <1>a, <2>1, <3>2 DEF Numbered
    <3> QED
      BY <3>1, <3>2
  <2>4. \A u, v \in Tasks :
          pc'[u] # "idle" /\ pc'[v] # "idle" /\ job'[u].call = job'[v].call => u = v
    <3>1. \A u \in Tasks : u # t /\ pc'[u] # "idle" =>
            pc[u] # "idle" /\ job'[u] = job[u] /\ job[u].call \in 1 .. calls
      BY <1>a, <2>1 DEF Numbered
    <3> QED
      BY <1>a, <2>1, <3>1 DEF Numbered
  <2>5. \A i \in 1 .. Len(queue') : pc'[queue'[i]] = "waiting"
    <3> SUFFICES ASSUME NEW i \in 1 .. Len(queue') PROVE pc'[queue'[i]] = "waiting"
      OBVIOUS
    <3>1. CASE i = Len(queue) + 1
      BY <2>1, <2>2, <3>1
    <3>2. CASE i \in 1 .. Len(queue)
      BY <1>0, <1>a, <2>1, <2>2, <3>2 DEF InLine
    <3> QED
      BY <1>0, <2>2, <3>1, <3>2
  <2>6. \A u \in Tasks : pc'[u] = "waiting" => \E i \in 1 .. Len(queue') : queue'[i] = u
    <3> SUFFICES ASSUME NEW u \in Tasks, pc'[u] = "waiting"
                 PROVE  \E i \in 1 .. Len(queue') : queue'[i] = u
      OBVIOUS
    <3>1. CASE u = t
      BY <1>0, <2>2, <3>1
    <3>2. CASE u # t
      <4>1. PICK i \in 1 .. Len(queue) : queue[i] = u
        BY <1>a, <2>1, <3>2 DEF InLine
      <4> QED
        BY <1>0, <2>2, <4>1
    <3> QED
      BY <3>1, <3>2
  <2>7. ASSUME NEW i \in 1 .. Len(queue'), NEW j \in 1 .. Len(queue'), i < j
        PROVE  job'[queue'[i]].call < job'[queue'[j]].call
    <3>1. i \in 1 .. Len(queue) /\ queue'[i] = queue[i] /\ job'[queue'[i]] = job[queue[i]]
          /\ job[queue[i]].call \in 1 .. calls
      <4>1. i \in 1 .. Len(queue)
        BY <1>0, <2>2, <2>7
      <4>2. pc[queue[i]] # "idle"
        BY <1>a, <4>1 DEF InLine
      <4> QED
        BY <1>0, <1>a, <2>1, <2>2, <4>1, <4>2 DEF Numbered
    <3>2. CASE j = Len(queue) + 1
      BY <2>1, <2>2, <3>1, <3>2
    <3>3. CASE j \in 1 .. Len(queue)
      BY <1>0, <1>a, <2>1, <2>2, <2>7, <3>1, <3>3 DEF Ordered
    <3> QED
      BY <1>0, <2>2, <3>2, <3>3
  <2>8. \A u, v \in Tasks : pc'[u] \in Critical /\ pc'[v] = "waiting" => job'[u].call < job'[v].call
    <3> SUFFICES ASSUME NEW u \in Tasks, NEW v \in Tasks, pc'[u] \in Critical, pc'[v] = "waiting"
                 PROVE  job'[u].call < job'[v].call
      OBVIOUS
    <3>1. u # t /\ pc[u] \in Critical /\ job'[u] = job[u] /\ job[u].call \in 1 .. calls
      BY <1>0, <1>a, <2>1 DEF Numbered
    <3>2. CASE v = t
      BY <2>1, <3>1, <3>2
    <3>3. CASE v # t
      BY <1>a, <2>1, <3>1, <3>3 DEF Ahead
    <3> QED
      BY <3>2, <3>3
  <2> QED
    BY <2>2, <2>3, <2>4, <2>5, <2>6, <2>7, <2>8 DEF Line, Numbered, InLine, Ordered, Ahead
<1>3. ASSUME NEW t \in Tasks, Enter(t) PROVE Line'
  <2>1. /\ queue # <<>> /\ Head(queue) = t /\ queue' = Tail(queue) /\ calls' = calls
        /\ holder = NoTask
    BY <1>3 DEF Enter
  <2>2. /\ queue' \in Seq(Tasks) /\ Len(queue') = Len(queue) - 1 /\ Len(queue) > 0 /\ queue[1] = t
        /\ \A i \in 1 .. Len(queue') : queue'[i] = queue[i + 1] /\ i + 1 \in 1 .. Len(queue)
    <3>1. queue \in Seq(Tasks) /\ Len(queue) \in Nat
      BY <1>0, <1>a DEF InLine
    <3>2. /\ queue' \in Seq(Tasks) /\ Len(queue') = Len(queue) - 1
          /\ \A i \in 1 .. Len(Tail(queue)) : Tail(queue)[i] = queue[i + 1]
      BY <2>1, <3>1, HeadTailProperties
    <3>3. Len(queue) > 0 /\ queue[1] = t
      BY <2>1, <3>1, EmptySeq, HeadTailProperties
    <3> QED
      BY <2>1, <3>1, <3>2, <3>3
  <2>3. /\ pc'[t] \in Critical \cup {"idle"}
        /\ pc'[t] # "idle" => job'[t] = job[t]
        /\ \A u \in Tasks : u # t => pc'[u] = pc[u] /\ job'[u] = job[u]
    <3>1. Suppress(t) \/ DispatchShadow(t) \/ DispatchNowhere(t) \/ DispatchRemote(t)
      BY <1>3 DEF Enter
    <3>2. CASE Return(t)
      BY <1>0, <3>2 DEF Return, Shape
    <3>3. CASE DispatchRemote(t)
      BY <1>0, <3>3, NextChannelRange DEF DispatchRemote, Shape
    <3> QED
      BY <3>1, <3>2, <3>3 DEF Suppress, DispatchShadow, DispatchNowhere
  <2>4. pc[t] = "waiting" /\ \A u \in Tasks : pc[u] \notin Critical
    <3>1. 1 \in 1 .. Len(queue)
      BY <1>0, <2>2
    <3> QED
      BY <1>0, <1>a, <2>1, <2>2, <3>1, FreeLock DEF InLine
  <2>5. \A i \in 1 .. Len(queue') :
           queue'[i] # t /\ queue'[i] \in Tasks /\ job[t].call < job[queue'[i]].call
    <3> SUFFICES ASSUME NEW i \in 1 .. Len(queue')
                 PROVE  queue'[i] # t /\ queue'[i] \in Tasks /\ job[t].call < job[queue'[i]].call
      OBVIOUS
    <3>1. queue'[i] = queue[i + 1] /\ i + 1 \in 1 .. Len(queue) /\ 1 \in 1 .. Len(queue) /\ 1 < i + 1
      BY <1>0, <2>2
    <3>2. job[t].call < job[queue'[i]].call /\ job[t].call \in Int
      BY <1>0, <1>a, <2>2, <3>1 DEF Ordered, Shape
    <3> QED
      BY <1>0, <3>1, <3>2
  <2>6. \A u \in Tasks : pc'[u] = "waiting" => \E i \in 1 .. Len(queue') : queue'[i] = u
    <3> SUFFICES ASSUME NEW u \in Tasks, pc'[u] = "waiting"
                 PROVE  \E i \in 1 .. Len(queue') : queue'[i] = u
      OBVIOUS
    <3>1. u # t /\ pc[u] = "waiting"
      BY <1>0, <2>3
    <3>2. PICK k \in 1 .. Len(queue) : queue[k] = u
      BY <1>a, <3>1 DEF InLine
    <3>3. k - 1 \in 1 .. Len(queue') /\ (k - 1) + 1 = k
      BY <1>0, <2>2, <3>1, <3>2
    <3> QED
      BY <2>2, <3>2, <3>3
  <2>7. \A i \in 1 .. Len(queue') : pc'[queue'[i]] = "waiting"
    BY <1>a, <2>2, <2>3, <2>5 DEF InLine
  <2>8. ASSUME NEW i \in 1 .. Len(queue'), NEW j \in 1 .. Len(queue'), i < j
        PROVE  job'[queue'[i]].call < job'[queue'[j]].call
    <3>1. i + 1 \in 1 .. Len(queue) /\ j + 1 \in 1 .. Len(queue) /\ i + 1 < j + 1
      BY <1>0, <2>2, <2>8
    <3> QED
      BY <1>a, <2>2, <2>3, <2>5, <2>8, <3>1 DEF Ordered
  <2>9. \A u, v \in Tasks : pc'[u] \in Critical /\ pc'[v] = "waiting" => job'[u].call < job'[v].call
    <3> SUFFICES ASSUME NEW u \in Tasks, NEW v \in Tasks, pc'[u] \in Critical, pc'[v] = "waiting"
                 PROVE  job'[u].call < job'[v].call
      OBVIOUS
    <3>1. u = t /\ v # t /\ job'[t] = job[t]
      BY <1>0, <2>3, <2>4
    <3> QED
      BY <2>3, <2>5, <2>6, <3>1
  <2> QED
    <3>1. Numbered'
      BY <1>a, <2>1, <2>3, <2>4 DEF Numbered
    <3> QED
      BY <2>2, <2>6, <2>7, <2>8, <2>9, <3>1 DEF Line, InLine, Ordered, Ahead
\* A task past the check goes on, or leaves the lock.
<1>4. ASSUME NEW t \in Tasks, pc[t] \in Critical, UNCHANGED <<calls, queue>>,
             pc'[t] \in Critical \cup {"idle"}, pc'[t] # "idle" => job'[t] = job[t],
             \A u \in Tasks : u # t => pc'[u] = pc[u] /\ job'[u] = job[u]
      PROVE  Line'
  <2>1. \A i \in 1 .. Len(queue) : queue[i] # t /\ queue'[i] = queue[i] /\ job'[queue[i]] = job[queue[i]]
    BY <1>0, <1>4, <1>a DEF InLine
  <2>2. /\ queue' \in Seq(Tasks)
        /\ \A i \in 1 .. Len(queue') : pc'[queue'[i]] = "waiting"
        /\ \A i, j \in 1 .. Len(queue') : i < j => job'[queue'[i]].call < job'[queue'[j]].call
    BY <1>0, <1>4, <1>a, <2>1 DEF InLine, Ordered
  <2>3. \A u \in Tasks :
           /\ pc'[u] = "waiting" => u # t /\ pc[u] = "waiting"
           /\ pc'[u] \in Critical => pc[u] \in Critical
           /\ pc'[u] # "idle" => pc[u] # "idle" /\ job'[u] = job[u]
    BY <1>0, <1>4
  <2>4. Numbered'
    <3>1. ASSUME NEW u \in Tasks, pc'[u] # "idle" PROVE job'[u].call \in 1 .. calls'
      <4>1. pc[u] # "idle" /\ job'[u] = job[u] /\ calls' = calls
        BY <1>4, <2>3, <3>1
      <4> QED
        BY <1>a, <4>1 DEF Numbered
    <3>2. ASSUME NEW u \in Tasks, NEW v \in Tasks, pc'[u] # "idle", pc'[v] # "idle",
                 job'[u].call = job'[v].call
          PROVE  u = v
      <4>1. pc[u] # "idle" /\ pc[v] # "idle" /\ job[u].call = job[v].call
        BY <2>3, <3>2
      <4> QED
        BY <1>a, <4>1 DEF Numbered
    <3> QED
      BY <3>1, <3>2 DEF Numbered
  <2>5. ASSUME NEW u \in Tasks, pc'[u] = "waiting"
        PROVE  \E i \in 1 .. Len(queue') : queue'[i] = u
    BY <1>4, <1>a, <2>3, <2>5 DEF InLine
  <2>6. ASSUME NEW u \in Tasks, NEW v \in Tasks, pc'[u] \in Critical, pc'[v] = "waiting"
        PROVE  job'[u].call < job'[v].call
    <3>1. pc[u] \in Critical /\ pc[v] = "waiting" /\ job'[u] = job[u] /\ job'[v] = job[v]
      BY <1>0, <2>3, <2>6
    <3> QED
      BY <1>a, <3>1 DEF Ahead
  <2> QED
    BY <2>2, <2>4, <2>5, <2>6 DEF Line, Numbered, InLine, Ordered, Ahead
<1>5. ASSUME NEW t \in Tasks, NEW reached \in BOOLEAN, NEW answered \in BOOLEAN,
             SendEnds(t, reached, answered)
      PROVE  Line'
  <2>1. NextChannel(Position(pc[t])) \in Critical
    BY <1>0, <1>5, PositionRange, NextChannelRange DEF SendEnds
  <2> QED
    BY <1>0, <1>4, <1>5, <2>1 DEF SendEnds, Shape
<1>6. ASSUME NEW t \in Tasks, LogResult(t) PROVE Line'
  <2>1. CASE Return(t)
    BY <1>0, <1>4, <1>6, <2>1 DEF LogResult, Return, Shape
  <2>2. CASE UNCHANGED <<pc, holder, job>>
    BY <1>1, <1>6, <2>2 DEF LogResult
  <2> QED
    BY <1>6, <2>1, <2>2 DEF LogResult
<1>7. ASSUME NEW t \in Tasks, NEW reached \in BOOLEAN, Cancel(t, reached) PROVE Line'
  <2>1. /\ queue' = Without(t) /\ calls' = calls /\ pc'[t] = "idle"
        /\ \A u \in Tasks : u # t => pc'[u] = pc[u] /\ job'[u] = job[u]
    BY <1>0, <1>7 DEF Cancel, Shape
  <2>2. /\ queue' \in Seq(Tasks)
        /\ \A u \in Tasks : pc'[u] = "waiting" => \E i \in 1 .. Len(queue') : queue'[i] = u
        /\ \A i \in 1 .. Len(queue') : pc'[queue'[i]] = "waiting"
        /\ \A i, j \in 1 .. Len(queue') : i < j => job'[queue'[i]].call < job'[queue'[j]].call
    <3>1. Without(t) \in Seq(Tasks)
      BY <1>0, WithoutProperties
    <3>2. \A i \in 1 .. Len(Without(t)) : Without(t)[i] \in Tasks /\ Without(t)[i] # t
      BY <1>0, <3>1, WithoutProperties, ElementOfSeq
    <3>3. \A u \in Tasks : pc'[u] = "waiting" => pc[u] = "waiting" /\ u # t
      BY <2>1
    <3> QED
      <4>1. /\ \A u \in Tasks : pc[u] = "waiting" /\ u # t =>
                  \E i \in 1 .. Len(Without(t)) : Without(t)[i] = u
            /\ \A i \in 1 .. Len(Without(t)) : pc[Without(t)[i]] = "waiting"
            /\ \A i, j \in 1 .. Len(Without(t)) :
                 i < j => job[Without(t)[i]].call < job[Without(t)[j]].call
        BY <1>0, WithoutProperties
      <4>2. \A u \in Tasks : pc'[u] = "waiting" => \E i \in 1 .. Len(queue') : queue'[i] = u
        BY <2>1, <3>3, <4>1
      <4>3. \A i \in 1 .. Len(queue') : pc'[queue'[i]] = "waiting"
        BY <2>1, <3>2, <4>1
      <4>4. \A i, j \in 1 .. Len(queue') : i < j => job'[queue'[i]].call < job'[queue'[j]].call
        BY <2>1, <3>2, <4>1
      <4> QED
        BY <2>1, <3>1, <4>2, <4>3, <4>4
  <2>3. \A u \in Tasks : pc'[u] # "idle" => u # t /\ pc'[u] = pc[u] /\ job'[u] = job[u]
    BY <2>1
  <2>4. \A u \in Tasks : pc'[u] # "idle" => job'[u].call \in 1 .. calls'
    BY <1>a, <2>1, <2>3 DEF Numbered
  <2>5. \A u, v \in Tasks :
          pc'[u] # "idle" /\ pc'[v] # "idle" /\ job'[u].call = job'[v].call => u = v
    BY <1>a, <2>3 DEF Numbered
  <2>6. \A u, v \in Tasks : pc'[u] \in Critical /\ pc'[v] = "waiting" => job'[u].call < job'[v].call
    BY <1>0, <1>a, <2>3 DEF Ahead
  <2> QED
    BY <2>2, <2>4, <2>5, <2>6 DEF Line, Numbered, InLine, Ordered, Ahead
<1>8. CASE Crash
  BY <1>0, <1>8, EmptySeq DEF Crash, Line, Numbered, InLine, Ordered, Ahead
<1> QED
  BY <1>1, <1>2, <1>3, <1>5, <1>6, <1>7, <1>8 DEF Next, Serve, Tick, vars

-----------------------------------------------------------------------------
(* What was recorded and received: a call has one key, no waiting call has left
   a trace, the holder is the last call that has, and the rows of a call follow
   its messages. *)

Traces == alertLog \cup received

Stamped == \A x \in Traces : x.call \in 1 .. calls /\ x.at \in Int /\ x.at <= now

OneKey == \A x, y \in Traces : x.call = y.call => x.key = y.key

Placed ==
    \A x \in Traces, t \in Tasks : pc[t] # "idle" =>
        /\ x.call = job[t].call => x.key = job[t].key
        /\ pc[t] = "waiting" => x.call < job[t].call
        /\ pc[t] \in Critical => x.call <= job[t].call

\* While a call still sends, it has no row; its rows are later than its messages.
RowsAfter ==
    /\ \A r \in alertLog, t \in Tasks : pc[t] \in Remote => r.call < job[t].call
    /\ \A r \in alertLog, m \in received : r.call = m.call => m.at <= r.at

Told == IsFiniteSet(alertLog) /\ Stamped /\ OneKey /\ Placed /\ RowsAfter

LEMMA ToldInit == Init => Told
BY FS_EmptySet DEF Init, Told, Stamped, OneKey, Placed, RowsAfter, Traces

(* A step that leaves no trace and changes no call but ends some. *)
LEMMA ToldKept ==
  ASSUME Told, Inv, UNCHANGED <<alertLog, received>>, calls' \in Int, calls' >= calls,
         now' \in Int, now' >= now,
         \A t \in Tasks : pc'[t] # "idle" =>
            \/ pc'[t] = pc[t] /\ job'[t] = job[t]
            \/ pc'[t] = "waiting" /\ job'[t].call = calls + 1
  PROVE  Told'
<1>0. /\ now \in Int /\ calls \in Nat /\ IsFiniteSet(alertLog) /\ Traces' = Traces
      /\ Critical = {"telegram", "discord", "log"} /\ Remote = {"telegram", "discord"}
  BY BoundsAssumption DEF Inv, Shape, Told, Traces, Critical, Remote
<1>1. Stamped'
  BY <1>0 DEF Told, Stamped
<1>2. OneKey'
  BY <1>0 DEF Told, OneKey
<1>3. Placed'
  <2> SUFFICES ASSUME NEW x \in Traces, NEW t \in Tasks, pc'[t] # "idle"
               PROVE  /\ x.call = job'[t].call => x.key = job'[t].key
                      /\ pc'[t] = "waiting" => x.call < job'[t].call
                      /\ pc'[t] \in Critical => x.call <= job'[t].call
    BY <1>0 DEF Placed
  <2>1. x.call \in 1 .. calls
    BY DEF Told, Stamped
  <2>2. CASE pc'[t] = pc[t] /\ job'[t] = job[t]
    BY <2>2 DEF Told, Placed
  <2>3. CASE pc'[t] = "waiting" /\ job'[t].call = calls + 1
    BY <1>0, <2>1, <2>3
  <2> QED
    BY <2>2, <2>3
<1>4. RowsAfter'
  <2>1. \A t \in Tasks : pc'[t] \in Remote => pc[t] \in Remote /\ job'[t] = job[t]
    BY <1>0
  <2> QED
    BY <2>1 DEF Told, RowsAfter
<1> QED
  BY <1>0, <1>1, <1>2, <1>3, <1>4 DEF Told

(* The task that has the lock leaves a trace of its call. *)
LEMMA ToldAdd ==
  ASSUME Told, Inv, NEW t \in Tasks, pc[t] # "idle", UNCHANGED <<now, calls>>,
         \A u \in Tasks : u # t /\ pc[u] # "idle" =>
            pc[u] = "waiting" /\ job[t].call < job[u].call,
         job[t].call \in 1 .. calls,
         \A u \in Tasks : u # t => pc'[u] = pc[u] /\ job'[u] = job[u],
         pc'[t] \in Critical \cup {"idle"}, pc'[t] # "idle" => job'[t] = job[t],
         pc'[t] \in Remote => pc[t] \in Remote \cup {"waiting"},
         NEW x, x.call = job[t].call, x.key = job[t].key, x.at = now,
         \/ UNCHANGED <<alertLog, received>>
         \/ alertLog' = alertLog \cup {x} /\ UNCHANGED received /\ pc'[t] \notin Remote
         \/ UNCHANGED alertLog /\ received' = received \cup {x} /\ pc[t] \in Remote
  PROVE  Told'
<1>0. /\ now \in Int /\ calls \in Nat /\ IsFiniteSet(alertLog) /\ Traces' \subseteq Traces \cup {x}
      /\ Critical = {"telegram", "discord", "log"} /\ Remote = {"telegram", "discord"}
  BY BoundsAssumption DEF Inv, Shape, Told, Traces, Critical, Remote
<1>a. Stamped /\ OneKey /\ Placed /\ RowsAfter
  BY DEF Told
<1>b. pc[t] \in Critical \cup {"waiting"}
  BY <1>0 DEF Inv, Shape
<1>1. Stamped'
  BY <1>0, <1>a DEF Stamped
<1>2. OneKey'
  <2>1. \A y \in Traces : y.call = x.call => y.key = x.key
    BY <1>a DEF Placed
  <2> QED
    BY <1>0, <1>a, <2>1 DEF OneKey
<1>3. \A y \in Traces : y.call <= job[t].call /\ y.call \in Int
  BY <1>a, <1>b DEF Placed, Stamped
<1>4. Placed'
  <2> SUFFICES ASSUME NEW y \in Traces', NEW u \in Tasks, pc'[u] # "idle"
               PROVE  /\ y.call = job'[u].call => y.key = job'[u].key
                      /\ pc'[u] = "waiting" => y.call < job'[u].call
                      /\ pc'[u] \in Critical => y.call <= job'[u].call
    BY DEF Placed
  <2>1. CASE u = t
    BY <1>0, <1>2, <1>3, <1>a, <2>1 DEF Placed
  <2>2. CASE u # t
    <3>1. /\ pc'[u] = "waiting" /\ job[t].call < job[u].call /\ job'[u] = job[u]
          /\ job[u].call \in Int
      BY <2>2 DEF Inv, Shape
    <3>2. y.call <= job[t].call /\ y.call \in Int
      BY <1>0, <1>3
    <3> QED
      BY <1>0, <3>1, <3>2
  <2> QED
    BY <2>1, <2>2
<1>5. \A r \in alertLog', u \in Tasks : pc'[u] \in Remote => r.call < job'[u].call
  <2> SUFFICES ASSUME NEW r \in alertLog', NEW u \in Tasks, pc'[u] \in Remote
               PROVE  r.call < job'[u].call
    OBVIOUS
  <2>1. u = t /\ job'[t] = job[t] /\ r \in alertLog
    BY <1>0
  <2>2. CASE pc[t] \in Remote
    BY <1>a, <2>1, <2>2 DEF RowsAfter
  <2>3. CASE pc[t] = "waiting"
    BY <1>a, <2>1, <2>3 DEF Placed, Traces
  <2> QED
    BY <2>1, <2>2, <2>3
<1>6. \A r \in alertLog', m \in received' : r.call = m.call => m.at <= r.at
  <2> SUFFICES ASSUME NEW r \in alertLog', NEW m \in received', r.call = m.call
               PROVE  m.at <= r.at
    OBVIOUS
  <2>1. CASE r \in alertLog /\ m \in received
    BY <1>a, <2>1 DEF RowsAfter
  <2>2. CASE r \notin alertLog
    <3>1. r = x /\ m \in received
      BY <2>2
    <3> QED
      BY <1>0, <1>a, <3>1 DEF Stamped, Traces
  <2>3. CASE m \notin received
    <3>1. m = x /\ r \in alertLog /\ pc[t] \in Remote
      BY <2>3
    <3>2. r.call < job[t].call /\ r.call \in Int
      BY <1>3, <1>a, <3>1 DEF RowsAfter, Traces
    <3> QED
      BY <3>1, <3>2
  <2> QED
    BY <2>1, <2>2, <2>3
<1>7. IsFiniteSet(alertLog')
  BY <1>0, FS_AddElement
<1> QED
  BY <1>1, <1>2, <1>4, <1>5, <1>6, <1>7 DEF Told, RowsAfter

(* Whoever is given the lock is the oldest call. *)
LEMMA Oldest ==
  ASSUME Inv, Line, NEW t \in Tasks, Enter(t)
  PROVE  /\ pc[t] = "waiting" /\ job[t].call \in 1 .. calls
         /\ \A u \in Tasks : u # t /\ pc[u] # "idle" =>
              pc[u] = "waiting" /\ job[t].call < job[u].call
<1>1. queue \in Seq(Tasks) /\ queue # <<>> /\ Head(queue) = t /\ holder = NoTask
  BY DEF Enter, Line, InLine
<1>2. Len(queue) \in Nat /\ Len(queue) > 0 /\ queue[1] = t /\ 1 \in 1 .. Len(queue)
  BY <1>1, EmptySeq, HeadTailProperties, LenProperties
<1>3. pc[t] = "waiting"
  BY <1>2 DEF Line, InLine
<1>4. \A u \in Tasks : pc[u] # "idle" => pc[u] = "waiting"
  BY <1>1, FreeLock DEF Inv, Shape, Critical
<1>5. ASSUME NEW u \in Tasks, u # t, pc[u] # "idle" PROVE job[t].call < job[u].call
  <2>1. PICK k \in 1 .. Len(queue) : queue[k] = u
    BY <1>4, <1>5 DEF Line, InLine
  <2>2. 1 < k
    BY <1>2, <1>5, <2>1
  <2> QED
    BY <1>2, <2>1, <2>2 DEF Line, Ordered
<1> QED
  BY <1>3, <1>4, <1>5 DEF Line, Numbered

(* Whoever is past the check is the oldest call. *)
LEMMA OldestHolder ==
  ASSUME Inv, Line, NEW t \in Tasks, pc[t] \in Critical
  PROVE  /\ pc[t] # "idle" /\ job[t].call \in 1 .. calls
         /\ \A u \in Tasks : u # t /\ pc[u] # "idle" =>
              pc[u] = "waiting" /\ job[t].call < job[u].call
<1>1. pc[t] # "idle" /\ \A u \in Tasks : u # t => pc[u] \notin Critical
  BY DEF Inv, Exclusive, Critical, Remote
<1>2. \A u \in Tasks : u # t /\ pc[u] # "idle" => pc[u] = "waiting"
  BY <1>1 DEF Inv, Shape, Critical
<1> QED
  BY <1>1, <1>2 DEF Line, Numbered, Ahead

(* What the channels see of a call of t. *)
Message(t) == [call |-> job[t].call, key |-> job[t].key, channel |-> pc[t], at |-> now]

(* Entering leaves at most a row; whatever it does, the others stay as they are. *)
LEMMA EnterStep ==
  ASSUME Inv, NEW t \in Tasks, Enter(t)
  PROVE  /\ UNCHANGED <<now, calls, results, received>>
         /\ \A u \in Tasks : u # t => pc'[u] = pc[u] /\ job'[u] = job[u]
         /\ \/ /\ pc'[t] = "idle"
               /\ \E ch \in {"suppressed", "shadow", "shadow-fallback"}, ok \in BOOLEAN :
                    /\ alertLog' = alertLog \cup {Row(job[t], ch, ok)}
                    /\ ok => ~Suppressed(job[t])
            \/ DispatchRemote(t) /\ pc'[t] = NextChannel(0) /\ UNCHANGED <<alertLog, job>>
<1>1. Suppress(t) \/ DispatchShadow(t) \/ DispatchNowhere(t) \/ DispatchRemote(t)
  BY DEF Enter
<1>2. UNCHANGED <<now, calls, results, received>>
  BY DEF Enter
<1>3. CASE Return(t)
  <2>1. pc'[t] = "idle" /\ \A u \in Tasks : u # t => pc'[u] = pc[u] /\ job'[u] = job[u]
    BY <1>3 DEF Return, Inv, Shape
  <2>2. CASE Suppress(t)
    BY <1>2, <2>1, <2>2 DEF Suppress
  <2>3. CASE DispatchShadow(t)
    BY <1>2, <2>1, <2>3 DEF DispatchShadow
  <2>4. CASE DispatchNowhere(t)
    BY <1>2, <2>1, <2>4 DEF DispatchNowhere
  <2>5. CASE DispatchRemote(t)
    BY <1>2, <2>1, <2>5 DEF DispatchRemote, Inv, Shape
  <2> QED
    BY <1>1, <2>2, <2>3, <2>4, <2>5
<1>4. CASE DispatchRemote(t)
  BY <1>2, <1>4 DEF DispatchRemote, Inv, Shape
<1> QED
  BY <1>1, <1>3, <1>4 DEF Suppress, DispatchShadow, DispatchNowhere

(* A send leaves at most a message. *)
LEMMA SendStep ==
  ASSUME Inv, NEW t \in Tasks, NEW reached \in BOOLEAN, NEW answered \in BOOLEAN,
         SendEnds(t, reached, answered)
  PROVE  /\ pc[t] \in Remote /\ pc'[t] \in Critical
         /\ UNCHANGED <<now, calls, alertLog, job, enabled>>
         /\ \A u \in Tasks : u # t => pc'[u] = pc[u]
         /\ received' \in {received, received \cup {Message(t)}}
         /\ answered => Message(t) \in received'
<1>1. pc[t] \in Remote /\ NextChannel(Position(pc[t])) \in Critical
  BY PositionRange, NextChannelRange DEF SendEnds, Critical
<1> QED
  BY <1>1 DEF SendEnds, Inv, Shape, Receive, Message, config

LEMMA LogStep ==
  ASSUME Inv, NEW t \in Tasks, LogResult(t)
  PROVE  /\ pc[t] = "log" /\ pc'[t] \in {"log", "idle"} /\ UNCHANGED <<now, calls, received>>
         /\ pc'[t] # "idle" => job'[t] = job[t]
         /\ \A u \in Tasks : u # t => pc'[u] = pc[u] /\ job'[u] = job[u]
         /\ alertLog' = alertLog \cup {Row(job[t], Head(results[t]).channel,
                                           Head(results[t]).delivered)}
BY DEF LogResult, Return, Inv, Shape

(* A cancelled task leaves the line or the lock, and perhaps a message. *)
LEMMA CancelStep ==
  ASSUME Inv, NEW t \in Tasks, NEW reached \in BOOLEAN, Cancel(t, reached)
  PROVE  /\ pc'[t] = "idle" /\ UNCHANGED <<now, calls, alertLog>>
         /\ \A u \in Tasks : u # t => pc'[u] = pc[u] /\ job'[u] = job[u]
         /\ \/ received' = received
            \/ pc[t] \in Remote /\ received' = received \cup {Message(t)}
BY DEF Cancel, Inv, Shape, Receive, Message

LEMMA ToldStep == Inv /\ Line /\ Told /\ [Next]_vars => Told'
<1> SUFFICES ASSUME Inv, Line, Told, [Next]_vars PROVE Told'
  OBVIOUS
<1>0. /\ now \in Int /\ calls \in Int /\ Critical = {"telegram", "discord", "log"}
      /\ Remote = {"telegram", "discord"}
  BY BoundsAssumption DEF Inv, Shape, Critical, Remote
<1>1. CASE Tick
  BY <1>0, <1>1, ToldKept DEF Tick
<1>2. ASSUME NEW t \in Tasks, NEW k \in Keys, NEW at \in EventTimes \cup {Invalid},
             Call(t, k, at)
      PROVE  Told'
  <2>1. \A u \in Tasks : pc'[u] # "idle" =>
           \/ pc'[u] = pc[u] /\ job'[u] = job[u]
           \/ pc'[u] = "waiting" /\ job'[u].call = calls + 1
    BY <1>2 DEF Call, Inv, Shape
  <2> QED
    BY <1>0, <1>2, <2>1, ToldKept DEF Call
<1>3. ASSUME NEW t \in Tasks, Enter(t) PROVE Told'
  <2>1. /\ pc[t] = "waiting" /\ pc[t] # "idle" /\ job[t].call \in 1 .. calls
        /\ \A u \in Tasks : u # t /\ pc[u] # "idle" =>
             pc[u] = "waiting" /\ job[t].call < job[u].call
    BY <1>3, Oldest
  <2>2. /\ UNCHANGED <<now, calls, received>>
        /\ \A u \in Tasks : u # t => pc'[u] = pc[u] /\ job'[u] = job[u]
    BY <1>3, EnterStep
  <2>3. CASE /\ pc'[t] = "idle"
             /\ \E ch \in {"suppressed", "shadow", "shadow-fallback"}, ok \in BOOLEAN :
                  alertLog' = alertLog \cup {Row(job[t], ch, ok)}
    <3>1. PICK ch, ok : alertLog' = alertLog \cup {Row(job[t], ch, ok)}
      BY <2>3
    <3> DEFINE x == Row(job[t], ch, ok)
    <3>2. x.call = job[t].call /\ x.key = job[t].key /\ x.at = now
      BY DEF Row
    <3>3. alertLog' = alertLog \cup {x} /\ pc'[t] = "idle" /\ pc'[t] \notin Remote
      BY <1>0, <2>3, <3>1
    <3> HIDE DEF x
    <3> QED
      BY <2>1, <2>2, <3>2, <3>3, ToldAdd
  <2>4. CASE pc'[t] = NextChannel(0) /\ UNCHANGED <<alertLog, job>>
    <3>1. pc'[t] \in Critical
      BY <2>4, NextChannelRange DEF Critical
    <3> DEFINE x == Row(job[t], "shadow", FALSE)
    <3>2. x.call = job[t].call /\ x.key = job[t].key /\ x.at = now
      BY DEF Row
    <3> HIDE DEF x
    <3> QED
      BY <2>1, <2>2, <2>4, <3>1, <3>2, ToldAdd
  <2> QED
    BY <1>3, <2>3, <2>4, EnterStep
<1>4. ASSUME NEW t \in Tasks, NEW reached \in BOOLEAN, NEW answered \in BOOLEAN,
             SendEnds(t, reached, answered)
      PROVE  Told'
  <2>1. /\ pc[t] \in Remote /\ pc'[t] \in Critical /\ UNCHANGED <<now, calls, alertLog, job>>
        /\ \A u \in Tasks : u # t => pc'[u] = pc[u]
        /\ received' \in {received, received \cup {Message(t)}}
    BY <1>4, SendStep
  <2>2. /\ pc[t] # "idle" /\ job[t].call \in 1 .. calls
        /\ \A u \in Tasks : u # t /\ pc[u] # "idle" =>
             pc[u] = "waiting" /\ job[t].call < job[u].call
    BY <2>1, OldestHolder DEF Critical
  <2> DEFINE x == Message(t)
  <2>3. x.call = job[t].call /\ x.key = job[t].key /\ x.at = now
    BY DEF Message
  <2> HIDE DEF x
  <2>4. received' = received \/ received' = received \cup {x}
    BY <2>1 DEF x
  <2> QED
    BY <2>1, <2>2, <2>3, <2>4, ToldAdd
<1>5. ASSUME NEW t \in Tasks, LogResult(t) PROVE Told'
  <2> DEFINE x == Row(job[t], Head(results[t]).channel, Head(results[t]).delivered)
  <2>1. /\ pc[t] = "log" /\ pc'[t] \in {"log", "idle"} /\ UNCHANGED <<now, calls, received>>
        /\ pc'[t] # "idle" => job'[t] = job[t]
        /\ \A u \in Tasks : u # t => pc'[u] = pc[u] /\ job'[u] = job[u]
        /\ alertLog' = alertLog \cup {x}
    BY <1>5, LogStep
  <2>2. x.call = job[t].call /\ x.key = job[t].key /\ x.at = now
    BY DEF Row
  <2> HIDE DEF x
  <2>3. /\ pc[t] # "idle" /\ job[t].call \in 1 .. calls
        /\ \A u \in Tasks : u # t /\ pc[u] # "idle" =>
             pc[u] = "waiting" /\ job[t].call < job[u].call
    BY <1>0, <2>1, OldestHolder
  <2>4. pc'[t] \notin Remote /\ pc'[t] \in Critical \cup {"idle"}
    BY <1>0, <2>1
  <2> QED
    BY <2>1, <2>2, <2>3, <2>4, ToldAdd
<1>6. ASSUME NEW t \in Tasks, NEW reached \in BOOLEAN, Cancel(t, reached) PROVE Told'
  <2>1. /\ pc'[t] = "idle" /\ UNCHANGED <<now, calls, alertLog>>
        /\ \A u \in Tasks : u # t => pc'[u] = pc[u] /\ job'[u] = job[u]
        /\ \/ received' = received
           \/ pc[t] \in Remote /\ received' = received \cup {Message(t)}
    BY <1>6, CancelStep
  <2>2. CASE received' = received
    BY <1>0, <2>1, <2>2, ToldKept
  <2>3. CASE pc[t] \in Remote /\ received' = received \cup {Message(t)}
    <3> DEFINE x == Message(t)
    <3>1. x.call = job[t].call /\ x.key = job[t].key /\ x.at = now
      BY DEF Message
    <3>2. received' = received \cup {x} /\ pc[t] \in Remote
      BY <2>3
    <3> HIDE DEF x
    <3>3. /\ pc[t] # "idle" /\ job[t].call \in 1 .. calls
          /\ \A u \in Tasks : u # t /\ pc[u] # "idle" =>
               pc[u] = "waiting" /\ job[t].call < job[u].call
      BY <2>3, OldestHolder DEF Critical
    <3>4. pc'[t] \notin Remote
      BY <1>0, <2>1
    <3> QED
      BY <2>1, <3>1, <3>2, <3>3, <3>4, ToldAdd
  <2> QED
    BY <2>1, <2>2, <2>3
<1>7. CASE Crash
  <2>1. \A u \in Tasks : pc'[u] = "idle"
    BY <1>7 DEF Crash
  <2> QED
    BY <1>0, <1>7, <2>1, ToldKept DEF Crash
<1>8. CASE UNCHANGED vars
  BY <1>0, <1>8, ToldKept DEF vars
<1> QED
  BY <1>1, <1>2, <1>3, <1>4, <1>5, <1>6, <1>7, <1>8 DEF Next, Serve

(* The results a task carries to the log are backed by messages. *)
Backed ==
    /\ enabled \subseteq Remote
    /\ results \in [Tasks -> Seq([channel : Remote, delivered : BOOLEAN])]
    /\ \A t \in Tasks : pc[t] \in {"idle", "waiting"} => results[t] = <<>>
    /\ \A t \in Tasks : pc[t] = "log" => results[t] # <<>>
    /\ \A t \in Tasks : \A i \in 1 .. Len(results[t]) : results[t][i].delivered =>
         \E m \in received : /\ m.call = job[t].call /\ m.key = job[t].key
                             /\ m.channel = results[t][i].channel

LEMMA BackedInit == Init => Backed
BY EmptySeq DEF Init, Backed, Remote

LEMMA NextEnabled ==
  ASSUME enabled \subseteq Remote, enabled # {}
  PROVE  NextChannel(0) \in Remote
<1>1. Len(Order) = 2 /\ Order[1] = "telegram" /\ Order[2] = "discord"
  BY DEF Order
<1> DEFINE P(i) == Order[i] \in enabled /\ \A j \in (0 + 1) .. (i - 1) : Order[j] \notin enabled
<1>2. \E i \in (0 + 1) .. Len(Order) : P(i)
  <2>1. CASE "telegram" \in enabled
    <3>1. 1 \in (0 + 1) .. Len(Order) /\ P(1)
      BY <1>1, <2>1
    <3> QED
      BY <3>1
  <2>2. CASE "telegram" \notin enabled
    <3>1. "discord" \in enabled
      BY <2>2 DEF Remote
    <3>2. 2 \in (0 + 1) .. Len(Order) /\ P(2)
      BY <1>1, <2>2, <3>1
    <3> QED
      BY <3>2
  <2> QED
    BY <2>1, <2>2
<1>3. Order[CHOOSE i \in (0 + 1) .. Len(Order) : P(i)] \in enabled
  BY <1>2
<1>4. \E i \in (0 + 1) .. Len(Order) : Order[i] \in enabled
  BY <1>2
<1>5. NextChannel(0) \in enabled
  BY <1>3, <1>4 DEF NextChannel
<1> QED
  BY <1>5

LEMMA BackedStep == Inv /\ Backed /\ [Next]_vars => Backed' /\ received \subseteq received'
<1> SUFFICES ASSUME Inv, Backed, [Next]_vars PROVE Backed' /\ received \subseteq received'
  OBVIOUS
<1>0. /\ Critical = {"telegram", "discord", "log"} /\ Remote = {"telegram", "discord"}
      /\ enabled \subseteq Remote
      /\ results \in [Tasks -> Seq([channel : Remote, delivered : BOOLEAN])]
      /\ pc \in [Tasks -> Critical \cup {"idle", "waiting"}]
  BY DEF Critical, Remote, Backed, Inv, Shape
<1>e. enabled' = enabled
  BY DEF Next, Tick, Call, Serve, Enter, SendEnds, LogResult, Cancel, Crash, vars, config
<1>a. \A t \in Tasks : pc[t] \in {"idle", "waiting"} => results[t] = <<>>
  BY DEF Backed
\* What backs the results of a task that goes on with them.
<1>b. ASSUME NEW u \in Tasks, received \subseteq received',
             \/ results'[u] = <<>>
             \/ results'[u] = results[u] /\ job'[u] = job[u]
      PROVE  \A i \in 1 .. Len(results'[u]) : results'[u][i].delivered =>
               \E m \in received' : /\ m.call = job'[u].call /\ m.key = job'[u].key
                                    /\ m.channel = results'[u][i].channel
  <2>1. CASE results'[u] = <<>>
    BY <2>1, EmptySeq
  <2>2. CASE results'[u] = results[u] /\ job'[u] = job[u]
    BY <1>b, <2>2 DEF Backed
  <2> QED
    BY <1>b, <2>1, <2>2
\* A step that adds no result.
<1>c. ASSUME received \subseteq received',
             results' \in [Tasks -> Seq([channel : Remote, delivered : BOOLEAN])],
             \A u \in Tasks : \/ results'[u] = <<>> /\ pc'[u] # "log"
                              \/ /\ results'[u] = results[u] /\ job'[u] = job[u]
                                 /\ pc'[u] = pc[u]
      PROVE  Backed' /\ received \subseteq received'
  <2>1. \A u \in Tasks : pc'[u] \in {"idle", "waiting"} => results'[u] = <<>>
    BY <1>a, <1>c
  <2>2. \A u \in Tasks : pc'[u] = "log" => results'[u] # <<>>
    BY <1>c DEF Backed
  <2>3. \A u \in Tasks : \A i \in 1 .. Len(results'[u]) : results'[u][i].delivered =>
               \E m \in received' : /\ m.call = job'[u].call /\ m.key = job'[u].key
                                    /\ m.channel = results'[u][i].channel
    BY <1>b, <1>c
  <2> QED
    BY <1>0, <1>e, <1>c, <2>1, <2>2, <2>3 DEF Backed
<1>1. CASE Tick
  BY <1>0, <1>1, <1>c DEF Tick
<1>2. ASSUME NEW t \in Tasks, NEW k \in Keys, NEW at \in EventTimes \cup {Invalid},
             Call(t, k, at)
      PROVE  Backed' /\ received \subseteq received'
  <2>1. results'[t] = <<>> /\ pc'[t] # "log" /\ UNCHANGED <<results, received>>
        /\ \A u \in Tasks : u # t => pc'[u] = pc[u] /\ job'[u] = job[u]
    BY <1>0, <1>2, <1>a DEF Call, Inv, Shape
  <2> QED
    BY <1>0, <1>c, <2>1
<1>3. ASSUME NEW t \in Tasks, Enter(t) PROVE Backed' /\ received \subseteq received'
  <2>1. /\ UNCHANGED <<results, received>>
        /\ \A u \in Tasks : u # t => pc'[u] = pc[u] /\ job'[u] = job[u]
        /\ pc'[t] = "idle" \/ (DispatchRemote(t) /\ pc'[t] = NextChannel(0))
    BY <1>3, EnterStep, Zenon
  <2>2. results[t] = <<>>
    <3>1. holder = NoTask
      BY <1>3 DEF Enter
    <3> QED
      BY <1>0, <1>a, <3>1, FreeLock
  <2>3. pc'[t] # "log"
    BY <1>0, <2>1, NextEnabled DEF DispatchRemote
  <2> QED
    BY <1>0, <1>c, <2>1, <2>2, <2>3
<1>4. ASSUME NEW t \in Tasks, NEW reached \in BOOLEAN, NEW answered \in BOOLEAN,
             SendEnds(t, reached, answered)
      PROVE  Backed' /\ received \subseteq received'
  <2> DEFINE new == [channel |-> pc[t], delivered |-> answered]
  <2>1. /\ pc[t] \in Remote /\ pc'[t] \in Critical /\ UNCHANGED job
        /\ \A u \in Tasks : u # t => pc'[u] = pc[u]
        /\ received \subseteq received' /\ (answered => Message(t) \in received')
    BY <1>4, SendStep
  <2>2. new \in [channel : Remote, delivered : BOOLEAN] /\ new.channel = pc[t]
        /\ new.delivered = answered
    BY <2>1
  <2>3. results' = [results EXCEPT ![t] = Append(@, new)]
    BY <1>4 DEF SendEnds
  <2> HIDE DEF new
  <2> DEFINE s == results[t]
  <2>4. /\ results'[t] = Append(s, new) /\ \A u \in Tasks : u # t => results'[u] = results[u]
        /\ s \in Seq([channel : Remote, delivered : BOOLEAN])
    BY <1>0, <2>3
  <2>5. /\ Append(s, new) \in Seq([channel : Remote, delivered : BOOLEAN])
        /\ Append(s, new) # <<>> /\ Len(Append(s, new)) = Len(s) + 1
        /\ \A i \in 1 .. Len(s) : Append(s, new)[i] = s[i]
        /\ Append(s, new)[Len(s) + 1] = new /\ Len(s) \in Nat
    BY <2>2, <2>4, AppendProperties, LenProperties
  <2>6. ASSUME NEW i \in 1 .. Len(results'[t]), results'[t][i].delivered
        PROVE  \E m \in received' : /\ m.call = job'[t].call /\ m.key = job'[t].key
                                    /\ m.channel = results'[t][i].channel
    <3>1. CASE i = Len(s) + 1
      <4>1. Message(t) \in received' /\ results'[t][i] = new
        BY <2>1, <2>2, <2>4, <2>5, <2>6, <3>1
      <4>2. Message(t).call = job[t].call /\ Message(t).key = job[t].key
            /\ Message(t).channel = pc[t]
        BY DEF Message
      <4> QED
        BY <2>1, <2>2, <4>1, <4>2
    <3>2. CASE i \in 1 .. Len(s)
      <4>1. results'[t][i] = results[t][i]
        BY <2>4, <2>5, <3>2
      <4> QED
        BY <2>1, <2>6, <3>2, <4>1 DEF Backed
    <3> QED
      BY <2>4, <2>5, <3>1, <3>2
  <2>7. \A u \in Tasks : u # t => \A i \in 1 .. Len(results'[u]) : results'[u][i].delivered =>
               \E m \in received' : /\ m.call = job'[u].call /\ m.key = job'[u].key
                                    /\ m.channel = results'[u][i].channel
    BY <1>b, <2>1, <2>4
  <2>8. results' \in [Tasks -> Seq([channel : Remote, delivered : BOOLEAN])]
    BY <1>0, <2>3, <2>4, <2>5
  <2>9. \A u \in Tasks : (pc'[u] \in {"idle", "waiting"} => results'[u] = <<>>)
                         /\ (pc'[u] = "log" => results'[u] # <<>>)
    BY <1>0, <1>a, <2>1, <2>4, <2>5 DEF Backed
  <2>10. \A u \in Tasks : \A i \in 1 .. Len(results'[u]) : results'[u][i].delivered =>
               \E m \in received' : /\ m.call = job'[u].call /\ m.key = job'[u].key
                                    /\ m.channel = results'[u][i].channel
    BY <2>6, <2>7
  <2>11. enabled' \subseteq Remote /\ received \subseteq received'
    BY <1>0, <1>e, <2>1
  <2> QED
    BY <2>8, <2>9, <2>10, <2>11 DEF Backed
<1>5. ASSUME NEW t \in Tasks, LogResult(t) PROVE Backed' /\ received \subseteq received'
  <2> DEFINE s == results[t]
  <2>1. /\ pc[t] = "log" /\ pc'[t] \in {"log", "idle"} /\ received' = received
        /\ pc'[t] # "idle" => job'[t] = job[t]
        /\ \A u \in Tasks : u # t => pc'[u] = pc[u] /\ job'[u] = job[u]
    BY <1>5, LogStep
  <2>2. /\ s \in Seq([channel : Remote, delivered : BOOLEAN]) /\ s # <<>>
        /\ results'[t] = Tail(s) /\ \A u \in Tasks : u # t => results'[u] = results[u]
    BY <1>0, <1>5 DEF LogResult, Backed
  <2>3. /\ Tail(s) \in Seq([channel : Remote, delivered : BOOLEAN])
        /\ Len(Tail(s)) = Len(s) - 1 /\ Len(s) \in Nat /\ Len(s) # 0
        /\ \A i \in 1 .. Len(Tail(s)) : Tail(s)[i] = s[i + 1] /\ i + 1 \in 1 .. Len(s)
    BY <2>2, HeadTailProperties, LenProperties, EmptySeq
  <2>4. pc'[t] = "idle" <=> Len(s) = 1
    BY <1>0, <1>5, <2>1 DEF LogResult, Return, Inv, Shape
  <2>5. Tail(s) = <<>> <=> pc'[t] = "idle"
    <3>1. Tail(s) = <<>> <=> Len(Tail(s)) = 0
      BY <2>3, EmptySeq
    <3> QED
      BY <2>3, <2>4, <3>1
  <2>6. \A i \in 1 .. Len(results'[t]) : results'[t][i].delivered =>
               \E m \in received' : /\ m.call = job'[t].call /\ m.key = job'[t].key
                                    /\ m.channel = results'[t][i].channel
    <3>1. CASE pc'[t] = "idle"
      BY <2>2, <2>3, <2>4, <3>1
    <3>2. CASE pc'[t] # "idle"
      BY <2>1, <2>2, <2>3, <3>2 DEF Backed
    <3> QED
      BY <3>1, <3>2
  <2>7. \A u \in Tasks : u # t => \A i \in 1 .. Len(results'[u]) : results'[u][i].delivered =>
               \E m \in received' : /\ m.call = job'[u].call /\ m.key = job'[u].key
                                    /\ m.channel = results'[u][i].channel
    BY <1>b, <2>1, <2>2
  <2>8. results' \in [Tasks -> Seq([channel : Remote, delivered : BOOLEAN])]
    BY <1>0, <1>5, <2>2, <2>3 DEF LogResult
  <2>9. \A u \in Tasks : (pc'[u] \in {"idle", "waiting"} => results'[u] = <<>>)
                         /\ (pc'[u] = "log" => results'[u] # <<>>)
    <3>1. (pc'[t] \in {"idle", "waiting"} => results'[t] = <<>>)
          /\ (pc'[t] = "log" => results'[t] # <<>>)
      BY <2>1, <2>2, <2>5
    <3>2. ASSUME NEW u \in Tasks, u # t
          PROVE  (pc'[u] \in {"idle", "waiting"} => results'[u] = <<>>)
                 /\ (pc'[u] = "log" => results'[u] # <<>>)
      BY <1>a, <2>1, <2>2, <3>2 DEF Backed
    <3> QED
      BY <3>1, <3>2
  <2>10. \A u \in Tasks : \A i \in 1 .. Len(results'[u]) : results'[u][i].delivered =>
               \E m \in received' : /\ m.call = job'[u].call /\ m.key = job'[u].key
                                    /\ m.channel = results'[u][i].channel
    BY <2>6, <2>7
  <2>11. enabled' \subseteq Remote /\ received \subseteq received'
    BY <1>0, <1>e, <2>1
  <2> QED
    BY <2>8, <2>9, <2>10, <2>11 DEF Backed
<1>6. ASSUME NEW t \in Tasks, NEW reached \in BOOLEAN, Cancel(t, reached)
      PROVE  Backed' /\ received \subseteq received'
  <2>1. /\ pc'[t] = "idle" /\ received \subseteq received'
        /\ \A u \in Tasks : u # t => pc'[u] = pc[u] /\ job'[u] = job[u]
    BY <1>6, CancelStep
  <2>2. /\ results' \in [Tasks -> Seq([channel : Remote, delivered : BOOLEAN])]
        /\ results'[t] = <<>> /\ \A u \in Tasks : u # t => results'[u] = results[u]
    BY <1>0, <1>6, EmptySeq DEF Cancel
  <2> QED
    BY <1>0, <1>c, <2>1, <2>2
<1>7. CASE Crash
  <2>1. /\ results' \in [Tasks -> Seq([channel : Remote, delivered : BOOLEAN])]
        /\ \A u \in Tasks : results'[u] = <<>> /\ pc'[u] = "idle"
    BY <1>7, EmptySeq DEF Crash
  <2> QED
    BY <1>7, <1>c, <2>1 DEF Crash
<1>8. CASE UNCHANGED vars
  BY <1>0, <1>8, <1>c DEF vars
<1> QED
  BY <1>1, <1>2, <1>3, <1>4, <1>5, <1>6, <1>7, <1>8 DEF Next, Serve

(* A step writes at most one row: of a task that was not suppressed, of a call
   that failed, or one its results back. *)
LEMMA RowWritten ==
  ASSUME Inv, Backed, [Next]_vars
  PROVE  \/ UNCHANGED alertLog
         \/ \E t \in Tasks, ch \in Channels, ok \in BOOLEAN :
              /\ alertLog' = alertLog \cup {Row(job[t], ch, ok)} /\ UNCHANGED <<now, calls, received>>
              /\ \/ /\ Enter(t) /\ ch \notin Remote
                    /\ ok => ~Suppressed(job[t])
                 \/ /\ pc[t] = "log" /\ ch \in Remote
                    /\ ok => \E m \in received : /\ m.call = job[t].call /\ m.key = job[t].key
                                                 /\ m.channel = ch
<1>1. ASSUME NEW t \in Tasks, Enter(t), ~UNCHANGED alertLog
      PROVE  \E ch \in Channels, ok \in BOOLEAN :
               /\ alertLog' = alertLog \cup {Row(job[t], ch, ok)}
               /\ UNCHANGED <<now, calls, received>> /\ ch \notin Remote
               /\ ok => ~Suppressed(job[t])
  BY <1>1, EnterStep DEF Channels, Remote
<1>2. ASSUME NEW t \in Tasks, LogResult(t)
      PROVE  \E ch \in Channels, ok \in BOOLEAN :
               /\ alertLog' = alertLog \cup {Row(job[t], ch, ok)}
               /\ UNCHANGED <<now, calls, received>> /\ pc[t] = "log" /\ ch \in Remote
               /\ ok => \E m \in received : /\ m.call = job[t].call /\ m.key = job[t].key
                                            /\ m.channel = ch
  <2>1. /\ pc[t] = "log" /\ UNCHANGED <<now, calls, received>>
        /\ alertLog' = alertLog \cup {Row(job[t], Head(results[t]).channel,
                                           Head(results[t]).delivered)}
    BY <1>2, LogStep
  <2>2. /\ results[t] \in Seq([channel : Remote, delivered : BOOLEAN]) /\ results[t] # <<>>
    BY <2>1 DEF Backed
  <2>3. 1 \in 1 .. Len(results[t]) /\ Head(results[t]) = results[t][1]
        /\ Head(results[t]) \in [channel : Remote, delivered : BOOLEAN]
    <3>1. Len(results[t]) \in Nat /\ Len(results[t]) # 0
      BY <2>2, LenProperties, EmptySeq
    <3>2. Head(results[t]) = results[t][1]
      BY <2>2, <3>1
    <3>3. Head(results[t]) \in [channel : Remote, delivered : BOOLEAN]
      BY <2>2, HeadTailProperties
    <3> QED
      BY <3>1, <3>2, <3>3
  <2>4. Head(results[t]).delivered =>
          \E m \in received : /\ m.call = job[t].call /\ m.key = job[t].key
                              /\ m.channel = Head(results[t]).channel
    BY <2>3 DEF Backed
  <2> QED
    BY <2>1, <2>3, <2>4 DEF Channels
<1>3. (\E t \in Tasks : Enter(t) \/ LogResult(t)) \/ UNCHANGED alertLog
  BY DEF Next, Tick, Call, Serve, SendEnds, Cancel, Crash, vars
<1> QED
  BY <1>1, <1>2, <1>3

\* What the argument carries from step to step.
Carried == Inv /\ Line /\ Told /\ Backed

LEMMA CarriedInit == Init => Carried
BY Initially, LineInit, ToldInit, BackedInit DEF Carried

LEMMA CarriedStep == Carried /\ [Next]_vars => Carried'
BY Step, LineStep, ToldStep, BackedStep DEF Carried

(* A row that claims a remote delivery is always true: that call's message did
   reach that channel. *)
THEOREM RecordedMeansReceived == Spec => []NoFalseDelivery
<1>1. Init => NoFalseDelivery
  BY DEF Init, NoFalseDelivery, Delivered
<1>2. Carried /\ NoFalseDelivery /\ [Next]_vars => NoFalseDelivery'
  <2> SUFFICES ASSUME Carried, NoFalseDelivery, [Next]_vars,
                      NEW r \in alertLog', r.delivered, r.channel \in Remote
               PROVE  \E m \in received' :
                        m.call = r.call /\ m.key = r.key /\ m.channel = r.channel
    BY DEF NoFalseDelivery, Delivered
  <2>1. received \subseteq received'
    BY BackedStep DEF Carried
  <2>2. CASE r \in alertLog
    BY <2>1, <2>2 DEF NoFalseDelivery, Delivered
  <2>3. CASE r \notin alertLog
    <3>1. PICK t \in Tasks, ch \in Channels, ok \in BOOLEAN :
              /\ r = Row(job[t], ch, ok)
              /\ \/ ch \notin Remote
                 \/ ok => \E m \in received : /\ m.call = job[t].call /\ m.key = job[t].key
                                              /\ m.channel = ch
      BY <2>3, RowWritten DEF Carried
    <3>2. r.call = job[t].call /\ r.key = job[t].key /\ r.channel = ch /\ r.delivered = ok
      BY <3>1 DEF Row
    <3> QED
      BY <2>1, <3>1, <3>2
  <2> QED
    BY <2>2, <2>3
<1> QED
  BY <1>1, <1>2, CarriedInit, CarriedStep, PTL DEF Spec

(* A channel hears of one event twice within the cooldown only if the first
   message was never recorded: whenever both calls were served properly, the
   second is suppressed or late. *)
THEOREM NoRecordedDuplicate == Spec => []DuplicateOnlyIfUnrecorded
<1>1. Init => DuplicateOnlyIfUnrecorded
  BY DEF Init, DuplicateOnlyIfUnrecorded
<1>2. Carried /\ DuplicateOnlyIfUnrecorded /\ [Next]_vars => DuplicateOnlyIfUnrecorded'
  <2> SUFFICES ASSUME Carried, DuplicateOnlyIfUnrecorded, [Next]_vars,
                      NEW m \in received', NEW n \in received',
                      m.key = n.key, m.channel = n.channel, m.call < n.call,
                      n.at - m.at <= Cooldown,
                      NEW r \in alertLog', r.delivered, r.call = m.call
               PROVE  FALSE
    BY DEF DuplicateOnlyIfUnrecorded, Delivered
  <2>0. Inv /\ Line /\ Told /\ Backed /\ Stamped /\ OneKey /\ Placed /\ RowsAfter /\ now \in Int
        /\ Cooldown \in Int
    BY ConfigAssumption DEF Carried, Told, Inv, Shape
  <2>1. CASE m \in received /\ n \in received
    <3>1. r \notin alertLog
      BY <2>1 DEF DuplicateOnlyIfUnrecorded, Delivered
    <3>2. PICK t \in Tasks, ch \in Channels, ok \in BOOLEAN :
              r = Row(job[t], ch, ok) /\ (Enter(t) \/ pc[t] = "log")
      BY <2>0, <3>1, RowWritten
    <3>3. r.call = job[t].call
      BY <3>2 DEF Row
    <3>4. n.call <= job[t].call
      <4>1. pc[t] = "waiting" \/ pc[t] \in Critical
        BY <2>0, <3>2, Oldest DEF Critical
      <4> QED
        BY <2>0, <2>1, <4>1 DEF Placed, Stamped, Traces, Critical, Remote, Inv, Shape
    <3>5. n.call \in Int /\ m.call \in Int
      BY <2>0, <2>1 DEF Stamped, Traces
    <3> QED
      BY <3>3, <3>4, <3>5
  <2>2. CASE m \notin received \/ n \notin received
    <3>1. PICK t \in Tasks : pc[t] \in Remote /\ received' = received \cup {Message(t)}
                             /\ UNCHANGED alertLog
      <4>1. \E t \in Tasks, b, c \in BOOLEAN : SendEnds(t, b, c) \/ Cancel(t, b)
        BY <2>2 DEF Next, Tick, Call, Serve, Enter, LogResult, Crash, vars
      <4> QED
        BY <2>0, <2>2, <4>1, SendStep, CancelStep
    <3>2. /\ Message(t).call = job[t].call /\ Message(t).key = job[t].key /\ Message(t).at = now
      BY DEF Message
    <3>3. n \in received => n.call <= job[t].call /\ n.call \in Int
      BY <2>0, <3>1 DEF Placed, Stamped, Traces, Critical, Remote
    <3>4. n = Message(t) /\ m \in received
      <4>1. job[t].call \in Int
        BY <2>0 DEF Inv, Shape
      <4> QED
        BY <2>2, <3>1, <3>2, <3>3, <4>1
    <3>5. m.at \in Int /\ r.at \in Int /\ m.at <= r.at /\ r.key = job[t].key
      BY <2>0, <3>1, <3>2, <3>4 DEF Stamped, OneKey, RowsAfter, Traces
    <3>6. now - r.at > Cooldown
      <4>1. r \in Delivered /\ r.call # job[t].call /\ pc[t] \in Critical
        <5>1. m.call \in Int /\ m.call < job[t].call /\ job[t].call \in Int
          BY <2>0, <3>2, <3>4 DEF Stamped, Traces, Inv, Shape
        <5> QED
          BY <3>1, <5>1 DEF Delivered, Critical
      <4> QED
        BY <2>0, <3>5, <4>1 DEF Inv, Checked
    <3> QED
      BY <2>0, <3>2, <3>4, <3>5, <3>6
  <2> QED
    BY <2>1, <2>2
<1> QED
  BY <1>1, <1>2, CarriedInit, CarriedStep, PTL DEF Spec

-----------------------------------------------------------------------------
(* The keys that other calls delivered in the rate window leave room for one. *)
Others(t) == {r.key : r \in {r \in Delivered : r.call # job[t].call /\ r.at >= now - RateWindow}}

Room == \A t \in Tasks : pc[t] \in Critical => Cardinality(Others(t)) < MaxAlerts

(* The keys of finitely many rows are finitely many. *)
LEMMA FiniteKeys ==
  ASSUME NEW R, IsFiniteSet(R)
  PROVE  IsFiniteSet({r.key : r \in R})
<1> DEFINE T == {r.key : r \in R}
           f == [r \in R |-> r.key]
<1>1. f \in Surjection(R, T)
  BY DEF Surjection
<1> QED
  BY <1>1, FS_Surjection

LEMMA FewerKeys ==
  ASSUME NEW R, IsFiniteSet(R), NEW S, S \subseteq R
  PROVE  /\ IsFiniteSet({r.key : r \in S})
         /\ Cardinality({r.key : r \in S}) \in Nat /\ Cardinality({r.key : r \in R}) \in Nat
         /\ Cardinality({r.key : r \in S}) <= Cardinality({r.key : r \in R})
<1>1. IsFiniteSet(S)
  BY FS_Subset
<1>2. IsFiniteSet({r.key : r \in R}) /\ IsFiniteSet({r.key : r \in S})
  BY <1>1, FiniteKeys
<1>3. {r.key : r \in S} \subseteq {r.key : r \in R}
  OBVIOUS
<1> QED
  BY <1>2, <1>3, FS_Subset, FS_CardinalityType

(* A call that is not suppressed finds room for its event. *)
LEMMA RoomFound ==
  ASSUME Inv, Told, NEW t \in Tasks, ~Suppressed(job[t])
  PROVE  Cardinality(Others(t)) < MaxAlerts
<1> DEFINE R == {r \in alertLog : r.delivered /\ r.at >= now - RateWindow}
           S == {r \in Delivered : r.call # job[t].call /\ r.at >= now - RateWindow}
<1>1. IsFiniteSet(R) /\ S \subseteq R
  BY FS_Subset DEF Told, Delivered
<1>2. Cardinality({r.key : r \in R}) < MaxAlerts
  <2>1. ~(Cardinality(RecentKeys) >= MaxAlerts)
    BY DEF Suppressed, RateLimited
  <2>2. Cardinality({r.key : r \in R}) \in Nat
    BY <1>1, FewerKeys
  <2> QED
    BY <2>1, <2>2, ConfigAssumption DEF RecentKeys
<1>3. Cardinality({r.key : r \in S}) \in Nat /\ Cardinality({r.key : r \in R}) \in Nat
      /\ Cardinality({r.key : r \in S}) <= Cardinality({r.key : r \in R})
  BY <1>1, FewerKeys
<1> QED
  BY <1>2, <1>3, ConfigAssumption DEF Others

LEMMA RoomStep == Carried /\ Room /\ [Next]_vars => Room'
<1> SUFFICES ASSUME Carried, Room, [Next]_vars, NEW t \in Tasks, pc'[t] \in Critical
             PROVE  Cardinality(Others(t)') < MaxAlerts
  BY DEF Room
<1>0. Inv /\ Line /\ Told /\ Backed /\ now \in Int /\ now' \in Int /\ RateWindow \in Int
      /\ Critical = {"telegram", "discord", "log"} /\ MaxAlerts \in Int
      /\ IsFiniteSet(Delivered)
  BY Step, ConfigAssumption, FS_Subset
     DEF Carried, Inv, Shape, Critical, Remote, Told, Delivered
\* Nothing that others wrote comes into the window of a task that has the lock.
<1>1. ASSUME Cardinality(Others(t)) < MaxAlerts, now' >= now, job'[t].call = job[t].call,
             \A r \in alertLog' : r \in alertLog \/ r.call = job[t].call
      PROVE  Cardinality(Others(t)') < MaxAlerts
  <2> DEFINE R == {r \in Delivered : r.call # job[t].call /\ r.at >= now - RateWindow}
             S == {r \in Delivered' : r.call # job'[t].call /\ r.at >= now' - RateWindow}
  <2>1. S \subseteq R
    BY <1>0, <1>1 DEF Delivered, Told, Stamped, Traces
  <2>2. IsFiniteSet(R)
    BY <1>0, FS_Subset
  <2>3. Cardinality({r.key : r \in S}) \in Nat /\ Cardinality({r.key : r \in R}) \in Nat
        /\ Cardinality({r.key : r \in S}) <= Cardinality({r.key : r \in R})
    BY <2>1, <2>2, FewerKeys
  <2> QED
    BY <1>0, <1>1, <2>3 DEF Others
<1>2. CASE pc[t] \in Critical /\ job'[t] = job[t]
  <2>1. Cardinality(Others(t)) < MaxAlerts
    BY <1>2 DEF Room
  <2>2. now' >= now
    <3>1. CASE Tick
      BY <1>0, <3>1 DEF Tick
    <3>2. CASE ~Tick
      <4>1. now' = now
        BY <3>2 DEF Next, Call, Serve, Enter, SendEnds, LogResult, Cancel, Crash, vars
      <4> QED
        BY <1>0, <4>1
    <3> QED
      BY <3>1, <3>2
  <2>3. \A r \in alertLog' : r \in alertLog \/ r.call = job[t].call
    <3> SUFFICES ASSUME NEW r \in alertLog', r \notin alertLog PROVE r.call = job[t].call
      OBVIOUS
    <3>1. PICK u \in Tasks, ch \in Channels, ok \in BOOLEAN :
            r = Row(job[u], ch, ok) /\ (Enter(u) \/ pc[u] = "log")
      BY <1>0, RowWritten
    <3>2. u = t
      <4>1. holder = t /\ t # NoTask
        BY <1>0, <1>2, NamesAssumption DEF Inv, Exclusive
      <4>2. CASE Enter(u)
        BY <4>1, <4>2 DEF Enter
      <4>3. CASE pc[u] = "log"
        BY <1>0, <4>1, <4>3 DEF Inv, Exclusive
      <4> QED
        BY <3>1, <4>2, <4>3
    <3> QED
      BY <3>1, <3>2 DEF Row
  <2> QED
    BY <1>1, <1>2, <2>1, <2>2, <2>3
<1>3. CASE Enter(t)
  <2>1. DispatchRemote(t) /\ UNCHANGED <<now, alertLog, job>>
    <3>1. pc'[t] # "idle"
      BY <1>0
    <3> QED
      BY <1>0, <1>3, <3>1, EnterStep
  <2>2. Cardinality(Others(t)) < MaxAlerts
    BY <1>0, <2>1, RoomFound DEF DispatchRemote
  <2> QED
    BY <1>0, <1>1, <2>1, <2>2
<1>4. CASE Enter(t) \/ (pc[t] \in Critical /\ job'[t] = job[t])
  BY <1>2, <1>3, <1>4
<1>5. ASSUME ~Enter(t)
      PROVE  pc[t] \in Critical /\ job'[t] = job[t]
  <2>1. CASE Tick
    BY <2>1 DEF Tick
  <2>2. ASSUME NEW u \in Tasks, NEW k \in Keys, NEW at \in EventTimes \cup {Invalid}, Call(u, k, at)
        PROVE  pc[t] \in Critical /\ job'[t] = job[t]
    BY <1>0, <2>2 DEF Call, Inv, Shape
  <2>3. ASSUME NEW u \in Tasks, Enter(u) PROVE pc[t] \in Critical /\ job'[t] = job[t]
    BY <1>0, <1>5, <2>3, EnterStep
  <2>4. ASSUME NEW u \in Tasks, NEW b \in BOOLEAN, NEW c \in BOOLEAN, SendEnds(u, b, c)
        PROVE pc[t] \in Critical /\ job'[t] = job[t]
    BY <1>0, <2>4, SendStep DEF Critical
  <2>5. ASSUME NEW u \in Tasks, LogResult(u) PROVE pc[t] \in Critical /\ job'[t] = job[t]
    BY <1>0, <2>5, LogStep
  <2>6. ASSUME NEW u \in Tasks, NEW b \in BOOLEAN, Cancel(u, b)
        PROVE  pc[t] \in Critical /\ job'[t] = job[t]
    BY <1>0, <2>6, CancelStep
  <2>7. CASE Crash
    BY <1>0, <2>7 DEF Crash
  <2>8. CASE UNCHANGED vars
    BY <2>8 DEF vars
  <2> QED
    BY <2>1, <2>2, <2>3, <2>4, <2>5, <2>6, <2>7, <2>8 DEF Next, Serve
<1> QED
  BY <1>4, <1>5

(* A delivered row of a call that has room keeps the budget. *)
LEMMA BudgetAfterRow ==
  ASSUME Carried, BudgetKept, NEW t \in Tasks, pc[t] # "idle", NEW ch, NEW ok \in BOOLEAN,
         alertLog' = alertLog \cup {Row(job[t], ch, ok)}, UNCHANGED now,
         ok => Cardinality(Others(t)) < MaxAlerts
  PROVE  BudgetKept'
<1> DEFINE new == Row(job[t], ch, ok)
           Window(at) == {r \in Delivered' : at - RateWindow <= r.at /\ r.at <= at}
<1>0. /\ now \in Int /\ RateWindow \in Int /\ MaxAlerts \in Nat
      /\ IsFiniteSet(Delivered) /\ Told /\ Inv
      /\ \A r \in alertLog : r.at \in Int /\ r.at <= now
  BY ConfigAssumption, FS_Subset
     DEF Carried, Inv, Shape, Told, Delivered, Stamped, Traces
<1>1. /\ new.call = job[t].call /\ new.key = job[t].key /\ new.at = now /\ new.delivered = ok
      /\ alertLog' = alertLog \cup {new}
  BY DEF Row
<1> HIDE DEF new
<1> SUFFICES ASSUME NEW s \in Delivered'
             PROVE  Cardinality({r.key : r \in Window(s.at)}) <= MaxAlerts
  BY DEF BudgetKept
<1>2. s.at \in Int /\ s.at <= now
  BY <1>0, <1>1 DEF Delivered
\* An older window holds what it held.
<1>3. CASE ~ok \/ s.at < now
  <2>1. Window(s.at) = {r \in Delivered : s.at - RateWindow <= r.at /\ r.at <= s.at}
    <3>1. \A r \in Delivered' : r \in Delivered \/ (r = new /\ ok)
      BY <1>1 DEF Delivered
    <3>2. Delivered \subseteq Delivered'
      BY <1>1 DEF Delivered
    <3>3. ok => ~(new.at <= s.at)
      BY <1>0, <1>1, <1>2, <1>3
    <3> QED
      BY <3>1, <3>2, <3>3
  <2>2. s \in Delivered
    BY <1>0, <1>1, <1>2, <1>3 DEF Delivered
  <2> QED
    BY <2>1, <2>2 DEF BudgetKept
\* The window that ends now holds the keys of the others and the new one.
<1>4. CASE ok /\ s.at = now
  <2> DEFINE R == {r \in Delivered : r.call # job[t].call /\ r.at >= now - RateWindow}
             K == {r.key : r \in R}
             W == {r.key : r \in Window(s.at)}
  <2>1. W \subseteq K \cup {job[t].key}
    <3> SUFFICES ASSUME NEW r \in Window(s.at), r.key # job[t].key PROVE r \in R
      OBVIOUS
    <3>1. r \in Delivered /\ r.at >= now - RateWindow
      BY <1>0, <1>1, <1>2, <1>4 DEF Delivered
    <3>2. r.call # job[t].call
      BY <1>0, <3>1 DEF Told, Placed, Delivered, Traces
    <3> QED
      BY <3>1, <3>2
  <2>2. IsFiniteSet(R)
    BY <1>0, FS_Subset
  <2>3. IsFiniteSet(K) /\ Cardinality(K) \in Nat
    BY <2>2, FewerKeys
  <2>4. Cardinality(K) < MaxAlerts
    BY <1>4 DEF Others
  <2> HIDE DEF K, W
  <2>5. IsFiniteSet(K \cup {job[t].key}) /\ Cardinality(K \cup {job[t].key}) <= MaxAlerts
        /\ Cardinality(K \cup {job[t].key}) \in Nat
    <3>1. /\ IsFiniteSet(K \cup {job[t].key})
          /\ Cardinality(K \cup {job[t].key}) =
               IF job[t].key \in K THEN Cardinality(K) ELSE Cardinality(K) + 1
      BY <2>3, FS_AddElement
    <3> QED
      BY <1>0, <2>3, <2>4, <3>1
  <2>6. IsFiniteSet(W) /\ Cardinality(W) <= Cardinality(K \cup {job[t].key})
        /\ Cardinality(W) \in Nat
    BY <2>1, <2>5, FS_Subset, FS_CardinalityType
  <2>7. Cardinality(W) <= MaxAlerts
    BY <1>0, <2>5, <2>6
  <2> QED
    BY <2>7 DEF W
<1> QED
  BY <1>0, <1>2, <1>3, <1>4

(* However long the sends between the check and the row take, no window of
   rate_window_seconds ever holds deliveries of more distinct events than the
   budget. *)
THEOREM BudgetIsKept == Spec => []BudgetKept
<1>1. Init => Room /\ BudgetKept
  BY DEF Init, Room, BudgetKept, Delivered, Critical, Remote
<1>2. Carried /\ Room /\ BudgetKept /\ [Next]_vars => BudgetKept'
  <2> SUFFICES ASSUME Carried, Room, BudgetKept, [Next]_vars PROVE BudgetKept'
    OBVIOUS
  <2>1. CASE UNCHANGED alertLog
    BY <2>1 DEF BudgetKept, Delivered
  <2>2. CASE ~UNCHANGED alertLog
    <3>1. PICK t \in Tasks, ch \in Channels, ok \in BOOLEAN :
            /\ alertLog' = alertLog \cup {Row(job[t], ch, ok)} /\ UNCHANGED now
            /\ \/ Enter(t) /\ (ok => ~Suppressed(job[t]))
               \/ pc[t] = "log"
      BY <2>2, RowWritten DEF Carried
    <3>2. pc[t] # "idle" /\ (ok => Cardinality(Others(t)) < MaxAlerts)
      <4>1. CASE Enter(t) /\ (ok => ~Suppressed(job[t]))
        BY <4>1, Oldest, RoomFound DEF Carried
      <4>2. CASE pc[t] = "log"
        BY <4>2 DEF Room, Critical
      <4> QED
        BY <3>1, <4>1, <4>2
    <3> QED
      BY <3>1, <3>2, BudgetAfterRow
  <2> QED
    BY <2>1, <2>2
<1> QED
  BY <1>1, <1>2, CarriedInit, CarriedStep, RoomStep, PTL DEF Spec
=============================================================================
