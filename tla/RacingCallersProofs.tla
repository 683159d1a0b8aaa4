-------------------------- MODULE RacingCallersProofs --------------------------
(***************************************************************************)
(* Proofs about the programs whose callers race, for any number of         *)
(* callers, calls, faults and changes of the resolver's answer.            *)
(*                                                                         *)
(* The ladder: a draft and a file are lawful by what they hold, whoever    *)
(* writes last (LadderLawful); without overlap the temporary file belongs  *)
(* to one call (LadderSerial).  The dispatcher: the window's entry is the  *)
(* age of the last admission (RetryMarked), and attempt counts the posts   *)
(* to the first channel of the route, none of them answered (RetryInv).    *)
(* The launches: a directory has at most one maker of each version         *)
(* (LaunchMakers), what a launch wrote stays unless the other version      *)
(* writes over it (LaunchOwns), and the resolver's answer equals the       *)
(* launch's own receipt until it changes (LaunchSees).                     *)
(***************************************************************************)
EXTENDS RacingCallers, SequenceTheorems, TLAPS

-----------------------------------------------------------------------------
(* The deployment ladder. *)

LadderShape ==
    /\ stored \in {Missing} \cup {[current_tier |-> t, history |-> <<>>] : t \in 0 .. 3}
    /\ statePath \in 0 .. MaxCalls /\ tmpPath \in 0 .. MaxCalls
    /\ content \in [1 .. MaxCalls -> {Empty, Torn} \cup Ladder!LadderStates]
    /\ draft \in [Recorders -> Ladder!LadderStates]
    /\ recording \in [Recorders -> {"idle", "open", "write", "replace"}]
    /\ fd \in [Recorders -> 0 .. MaxCalls]
    /\ calls \in Nat

LadderLawful ==
    /\ \A r \in Recorders : recording[r] # "idle" => Ladder!Lawful(draft[r])
    /\ \A i \in 1 .. MaxCalls : content[i] \notin {Empty, Torn} => Ladder!Lawful(content[i])

LadderInv == LadderShape /\ LadderLawful

LEMMA EmptyIsState == \A t \in 0 .. 3 : [current_tier |-> t, history |-> <<>>] \in Ladder!LadderStates
BY EmptySeq DEF Ladder!LadderStates, Ladder!Tiers

LEMMA LadderInit == Init => LadderInv
<1> SUFFICES ASSUME Init PROVE LadderInv
  OBVIOUS
<1> USE DEF Init, Ladder!Init
<1>1. MaxCalls \in Nat
  BY CallersAssumption DEF Ladder!LadderAssumption
<1>2. draft \in [Recorders -> Ladder!LadderStates]
  BY EmptyIsState DEF Ladder!NoState
<1>3. LadderShape
  BY <1>1, <1>2 DEF LadderShape, Ladder!Inodes, Ladder!NoInode, Ladder!Tiers
<1>4. LadderLawful
  BY DEF LadderLawful, Ladder!Inodes
<1> QED
  BY <1>3, <1>4 DEF LadderInv

\* What the file holds, or the start, is a lawful state.
LEMMA LoadLawful ==
  ASSUME LadderInv, Ladder!Load # Torn
  PROVE  Ladder!Load \in Ladder!LadderStates /\ Ladder!Lawful(Ladder!Load)
<1> USE DEF LadderInv, LadderShape, LadderLawful, Ladder!Load, Ladder!NoInode
<1>1. CASE statePath # 0
  BY <1>1
<1>2. CASE statePath = 0
  <2>1. PICK t \in 0 .. 3 : Ladder!Load = [current_tier |-> t, history |-> <<>>]
                            /\ Ladder!StartTier = t
    BY <1>2 DEF Ladder!NoState, Ladder!StartTier, Ladder!LOCAL_SIMULATION
  <2>2. Ladder!Lawful(Ladder!Load)
    BY <2>1 DEF Ladder!Lawful, Ladder!Reaches
  <2> QED
    BY <2>1, <2>2, EmptyIsState
<1> QED
  BY <1>1, <1>2

\* A decision that climbs from where the history led keeps it lawful.
LEMMA AppendLawful ==
  ASSUME NEW s \in Ladder!LadderStates, Ladder!Lawful(s), NEW e \in Ladder!Events,
         e.promotion => /\ e.from = s.current_tier /\ e.to = e.from + 1
                        /\ e.to \in ApprovalTiers => e.approved
  PROVE  Ladder!Lawful([current_tier |-> IF e.promotion THEN e.to ELSE s.current_tier,
                        history |-> Append(s.history, e)])
<1> DEFINE h == s.history
           g == Append(h, e)
           n == Len(h)
<1>1. h \in Seq(Ladder!Events) /\ n \in Nat
  BY LenProperties DEF Ladder!LadderStates
<1>2. Len(g) = n + 1 /\ g[n + 1] = e /\ \A i \in 1 .. n : g[i] = h[i]
  BY <1>1, AppendProperties
<1>3. \A m \in 0 .. n : \A t : Ladder!Reaches(h, m, t) => Ladder!Reaches(g, m, t)
  BY <1>1, <1>2 DEF Ladder!Reaches
<1>4. Ladder!Reaches(h, n, s.current_tier)
  BY DEF Ladder!Lawful
<1>5. Ladder!Reaches(g, n + 1, IF e.promotion THEN e.to ELSE s.current_tier)
  <2>1. CASE e.promotion
    BY <1>1, <1>2, <2>1 DEF Ladder!Reaches
  <2>2. CASE ~e.promotion
    BY <1>1, <1>2, <1>4, <2>2 DEF Ladder!Reaches
  <2> QED
    BY <2>1, <2>2
<1>6. ASSUME NEW i \in 1 .. (n + 1), g[i].promotion
      PROVE  /\ Ladder!Reaches(g, i - 1, g[i].from) /\ g[i].to = g[i].from + 1
             /\ g[i].to \in ApprovalTiers => g[i].approved
  <2>1. CASE i = n + 1
    BY <1>1, <1>2, <1>3, <1>4, <1>6, <2>1
  <2>2. CASE i \in 1 .. n
    <3>1. g[i] = h[i] /\ i - 1 \in 0 .. n
      BY <1>1, <1>2, <2>2
    <3>2. /\ Ladder!Reaches(h, i - 1, h[i].from) /\ h[i].to = h[i].from + 1
          /\ h[i].to \in ApprovalTiers => h[i].approved
      BY <1>6, <2>2, <3>1 DEF Ladder!Lawful
    <3> QED
      BY <1>3, <3>1, <3>2
  <2> QED
    BY <1>1, <2>1, <2>2
<1> HIDE DEF g, n
<1> QED
  BY <1>2, <1>5, <1>6 DEF Ladder!Lawful, g

LEMMA DecideLawful ==
  ASSUME LadderInv, NEW r \in Recorders, NEW current \in 0 .. 3, NEW requested \in 0 .. 3,
         NEW thresholds \in BOOLEAN, NEW capable \in BOOLEAN, NEW surplus \in BOOLEAN,
         NEW approved \in BOOLEAN, NEW approver \in BOOLEAN,
         Ladder!Decide(r, current, requested,
             Ladder!Eligible(current, requested, thresholds, capable, surplus, approved), approver)
  PROVE  /\ draft'[r] \in Ladder!LadderStates /\ Ladder!Lawful(draft'[r])
         /\ \A u \in Recorders : u # r => draft'[u] = draft[u] /\ recording'[u] = recording[u]
<1> DEFINE eligible == Ladder!Eligible(current, requested, thresholds, capable, surplus, approved)
           promotes == Ladder!Promotes(Ladder!Load, current, requested, eligible, approver)
           e == Ladder!Event(calls + 1, promotes, current, requested, approver)
           tier == IF promotes THEN requested ELSE Ladder!Load.current_tier
<1>1. /\ Ladder!Load # Torn
      /\ draft' = [draft EXCEPT ![r] = [current_tier |-> tier, history |-> Append(Ladder!Load.history, e)]]
      /\ recording' = [recording EXCEPT ![r] = "open"]
  BY DEF Ladder!Decide
<1>2. Ladder!Load \in Ladder!LadderStates /\ Ladder!Lawful(Ladder!Load)
  BY <1>1, LoadLawful
<1>3. promotes => /\ requested = current + 1 /\ current = Ladder!Load.current_tier
                  /\ requested \in ApprovalTiers => approver
  BY DEF Ladder!Promotes, Ladder!Eligible, Ladder!NeedsApproval
<1>4. e \in Ladder!Events /\ (e.promotion <=> promotes)
      /\ (promotes => e.from = current /\ e.to = requested /\ e.approved = approver)
  <2>1. calls + 1 \in Nat
    BY DEF LadderInv, LadderShape
  <2>2. CASE promotes
    <3> HIDE DEF promotes
    <3> QED BY <2>1, <2>2 DEF Ladder!Event, Ladder!Events, Ladder!Tiers
  <2>3. CASE ~promotes
    <3> HIDE DEF promotes
    <3>1. e = [id |-> calls + 1, promotion |-> FALSE, from |-> 0, to |-> 0, approved |-> FALSE]
      BY <2>3 DEF Ladder!Event
    <3> HIDE DEF e
    <3>2. e \in Ladder!Events
      BY <2>1, <3>1 DEF Ladder!Events, Ladder!Tiers
    <3>3. e.promotion = FALSE
      BY <3>1
    <3> QED
      BY <2>3, <3>2, <3>3
  <2> QED
    BY <2>2, <2>3
<1> HIDE DEF e, promotes, eligible
<1>5. tier = IF e.promotion THEN e.to ELSE Ladder!Load.current_tier
  BY <1>4
<1>6. Ladder!Lawful([current_tier |-> tier, history |-> Append(Ladder!Load.history, e)])
  BY <1>2, <1>3, <1>4, <1>5, AppendLawful
<1>7. [current_tier |-> tier, history |-> Append(Ladder!Load.history, e)] \in Ladder!LadderStates
  BY <1>2, <1>4, AppendProperties DEF Ladder!LadderStates, Ladder!Tiers
<1> QED
  BY <1>1, <1>6, <1>7 DEF LadderInv, LadderShape

LEMMA LadderStep == LadderInv /\ [Next]_vars => LadderInv'
<1> SUFFICES ASSUME LadderInv, [Next]_vars PROVE LadderInv'
  OBVIOUS
<1> USE DEF LadderInv, LadderShape
<1>m. MaxCalls \in Nat
  BY CallersAssumption DEF Ladder!LadderAssumption
<1>1. CASE UNCHANGED ladderVars
  <2>s. stored' = stored /\ draft' = draft /\ recording' = recording /\ content' = content
    BY <1>1 DEF ladderVars
  <2>1. \A s : Ladder!Lawful(s)' <=> Ladder!Lawful(s)
    BY <2>s DEF Ladder!Lawful, Ladder!Reaches, Ladder!StartTier
  <2>2. LadderShape'
    BY <1>1 DEF ladderVars
  <2>3. LadderLawful'
    BY <2>s, <2>1 DEF LadderLawful
  <2> QED
    BY <2>2, <2>3
<1>2. ASSUME Ladder!Next PROVE LadderInv'
  <2> SUFFICES ASSUME stored' = stored PROVE LadderInv'
    BY <1>2 DEF Ladder!Next, Ladder!Decide, Ladder!OpenTemp, Ladder!WriteTemp, Ladder!Replace,
       Ladder!ReplaceFails, Ladder!Die, Ladder!files
  <2>s. \A s : Ladder!Lawful(s)' <=> Ladder!Lawful(s)
    BY DEF Ladder!Lawful, Ladder!Reaches, Ladder!StartTier
  <2>e. Ladder!NoState \in Ladder!LadderStates
    BY EmptyIsState DEF Ladder!NoState
  <2>1. ASSUME NEW r \in Recorders, NEW current \in 0 .. 3, NEW requested \in 0 .. 3,
               NEW thresholds \in BOOLEAN, NEW capable \in BOOLEAN, NEW surplus \in BOOLEAN,
               NEW approved \in BOOLEAN, NEW approver \in BOOLEAN,
               Ladder!Decide(r, current, requested,
                   Ladder!Eligible(current, requested, thresholds, capable, surplus, approved),
                   approver)
        PROVE  LadderInv'
    <3>1. /\ draft'[r] \in Ladder!LadderStates /\ Ladder!Lawful(draft'[r])
          /\ \A u \in Recorders : u # r => draft'[u] = draft[u] /\ recording'[u] = recording[u]
      BY <2>1, DecideLawful
    <3>2. LadderShape'
      BY <2>1, <3>1 DEF Ladder!Decide, Ladder!files
    <3>3. \A u \in Recorders : recording'[u] # "idle" => Ladder!Lawful(draft'[u])
      BY <3>1 DEF LadderLawful
    <3>4. content' = content
      BY <2>1 DEF Ladder!Decide, Ladder!files
    <3> QED
      BY <3>2, <3>3, <3>4, <2>s DEF LadderLawful
  <2>2. ASSUME NEW r \in Recorders, Ladder!OpenTemp(r) PROVE LadderInv'
    BY <2>2, <2>s DEF Ladder!OpenTemp, LadderLawful, Ladder!FirstUnused, Ladder!Unused,
       Ladder!Inodes, Ladder!NoInode
  <2>3. ASSUME NEW r \in Recorders, NEW outcome \in {"written", Torn}, Ladder!WriteTemp(r, outcome)
        PROVE  LadderInv'
    BY <2>3, <2>s DEF Ladder!WriteTemp, LadderLawful
  <2>4. ASSUME NEW r \in Recorders, Ladder!Replace(r) PROVE LadderInv'
    <3>1. LadderShape'
      <4>1. /\ statePath' = tmpPath /\ tmpPath' = 0 /\ content' = content /\ calls' = calls
            /\ recording' = [recording EXCEPT ![r] = "idle"]
            /\ draft' = [draft EXCEPT ![r] = Ladder!NoState]
            /\ fd' = [fd EXCEPT ![r] = 0]
        BY <2>4 DEF Ladder!Replace, Ladder!Leave, Ladder!NoInode
      <4> QED
        BY <4>1, <2>e, <1>m
    <3>2. LadderLawful'
      BY <2>4, <2>s DEF Ladder!Replace, Ladder!Leave, LadderLawful
    <3> QED
      BY <3>1, <3>2
  <2>5. ASSUME NEW r \in Recorders, Ladder!ReplaceFails(r) PROVE LadderInv'
    BY <2>5, <2>s, <2>e DEF Ladder!ReplaceFails, Ladder!Leave, LadderLawful, Ladder!NoInode,
       Ladder!files
  <2>6. ASSUME NEW r \in Recorders, NEW partial \in BOOLEAN, Ladder!Die(r, partial) PROVE LadderInv'
    <3>1. LadderShape'
      <4>1. /\ statePath' = statePath /\ tmpPath' = tmpPath /\ calls' = calls
            /\ content' \in {content, [content EXCEPT ![fd[r]] = Torn]}
            /\ recording' = [recording EXCEPT ![r] = "idle"]
            /\ draft' = [draft EXCEPT ![r] = Ladder!NoState]
            /\ fd' = [fd EXCEPT ![r] = 0]
        BY <2>6 DEF Ladder!Die, Ladder!Leave, Ladder!NoInode
      <4>2. content' \in [1 .. MaxCalls -> {Empty, Torn} \cup Ladder!LadderStates]
        BY <4>1
      <4>3. fd' \in [Recorders -> 0 .. MaxCalls]
        BY <4>1, <1>m
      <4> QED
        BY <4>1, <4>2, <4>3, <2>e
    <3>2. LadderLawful'
      BY <2>6, <2>s DEF Ladder!Die, Ladder!Leave, LadderLawful
    <3> QED
      BY <3>1, <3>2
  <2>7. PICK r \in Recorders :
          \/ \E current, requested \in 0 .. 3,
                thresholds, capable, surplus, approved, approver \in BOOLEAN :
                 Ladder!Decide(r, current, requested,
                     Ladder!Eligible(current, requested, thresholds, capable, surplus, approved),
                     approver)
          \/ Ladder!OpenTemp(r)
          \/ \E outcome \in {"written", Torn} : Ladder!WriteTemp(r, outcome)
          \/ Ladder!Replace(r)
          \/ Ladder!ReplaceFails(r)
          \/ \E partial \in BOOLEAN : Ladder!Die(r, partial)
    BY <1>2 DEF Ladder!Next, Ladder!Tiers
  <2> HIDE DEF LadderInv
  <2>8. CASE \E current, requested \in 0 .. 3,
                thresholds, capable, surplus, approved, approver \in BOOLEAN :
                 Ladder!Decide(r, current, requested,
                     Ladder!Eligible(current, requested, thresholds, capable, surplus, approved),
                     approver)
    BY <2>1, <2>8
  <2> QED
    BY <2>2, <2>3, <2>4, <2>5, <2>6, <2>7, <2>8
<1> QED
  BY <1>1, <1>2 DEF Next, vars

(* Whatever races and dies, every state of the ladder that reaches a file is *)
(* lawful by its own history (deployment_gates.py). *)
THEOREM DecisionsLawful == Spec => []LawfulHistory
<1>1. LadderInv => LawfulHistory
  BY DEF LadderInv, LadderShape, LadderLawful, LawfulHistory, Ladder!LawfulHistory, Ladder!States,
     Ladder!Inodes
<1> QED
  BY LadderInit, LadderStep, <1>1, PTL DEF Spec

\* The numbers of the decisions in a history.
Ids(h) == {h[i].id : i \in 1 .. Len(h)}

\* While calls do not overlap, the temporary file belongs to the call under way
\* and what it is about to write holds all that the file holds.
LadderSerial ==
    serial =>
        /\ \A u, v \in Recorders : recording[u] # "idle" /\ recording[v] # "idle" => u = v
        /\ Ladder!Load \notin {Empty, Torn}
        /\ statePath # 0 => statePath # tmpPath /\ content[statePath] \notin {Empty, Torn}
        /\ recorded \subseteq Ids(Ladder!Load.history)
        /\ \A r \in Recorders :
              /\ recording[r] # "idle" =>
                    /\ Ids(Ladder!Load.history) \subseteq Ids(draft[r].history)
                    /\ Len(draft[r].history) > 0
              /\ recording[r] = "write" =>
                    tmpPath # 0 /\ fd[r] = tmpPath /\ content[tmpPath] = Empty
              /\ recording[r] = "replace" => tmpPath # 0 /\ content[tmpPath] = draft[r]

LEMMA SerialInit == Init => LadderSerial
<1> SUFFICES ASSUME Init PROVE LadderSerial
  OBVIOUS
<1> USE DEF Init, Ladder!Init, Ladder!NoInode
<1>1. Ladder!Load \in Ladder!LadderStates
  BY EmptyIsState DEF Ladder!Load, Ladder!NoState, Ladder!Tiers
<1>2. Ladder!Load \notin {Empty, Torn}
  BY <1>1, CallersAssumption DEF Ladder!LadderAssumption
<1> QED
  BY <1>2 DEF LadderSerial

\* A step that leaves the state file alone.
LEMMA LoadKept ==
  ASSUME stored' = stored, statePath' = statePath, statePath # 0 => content'[statePath] = content[statePath]
  PROVE  Ladder!Load' = Ladder!Load
BY DEF Ladder!Load, Ladder!NoInode, Ladder!NoState

LEMMA AppendedIds ==
  ASSUME NEW h \in Seq(Ladder!Events), NEW e \in Ladder!Events
  PROVE  Ids(h) \subseteq Ids(Append(h, e)) /\ Len(Append(h, e)) > 0
<1>1. /\ Len(h) \in Nat /\ Len(Append(h, e)) = Len(h) + 1
      /\ \A i \in 1 .. Len(h) : Append(h, e)[i] = h[i]
  BY AppendProperties, LenProperties
<1> QED
  BY <1>1 DEF Ids

LEMMA SerialStep == LadderInv /\ LadderSerial /\ [Next]_vars => LadderSerial'
<1> SUFFICES ASSUME LadderInv, LadderSerial, [Next]_vars, serial' PROVE LadderSerial'
  BY DEF LadderSerial
<1>m. MaxCalls \in Nat /\ \A s \in Ladder!LadderStates : s \notin {Empty, Torn}
  BY CallersAssumption DEF Ladder!LadderAssumption
<1>t. LadderShape
  BY DEF LadderInv
<1>1. CASE UNCHANGED ladderVars
  <2>1. Ladder!Load' = Ladder!Load
    BY <1>1, LoadKept DEF ladderVars
  <2> QED
    BY <1>1, <2>1 DEF ladderVars, LadderSerial
<1>2. ASSUME NEW r \in Recorders, NEW current \in 0 .. 3, NEW requested \in 0 .. 3,
             NEW thresholds \in BOOLEAN, NEW capable \in BOOLEAN, NEW surplus \in BOOLEAN,
             NEW approved \in BOOLEAN, NEW approver \in BOOLEAN,
             Ladder!Decide(r, current, requested,
                 Ladder!Eligible(current, requested, thresholds, capable, surplus, approved),
                 approver)
      PROVE  LadderSerial'
  <2>1. /\ serial /\ \A u \in Recorders : recording[u] = "idle"
        /\ recording' = [recording EXCEPT ![r] = "open"]
        /\ UNCHANGED <<stored, statePath, tmpPath, content, fd, recorded>>
    BY <1>2 DEF Ladder!Decide, Ladder!files
  <2>2. PICK e \in Ladder!Events : \E t :
          draft' = [draft EXCEPT ![r] = [current_tier |-> t, history |-> Append(Ladder!Load.history, e)]]
    <3>1. calls + 1 \in Nat
      BY <1>t DEF LadderShape
    <3>2. \A p \in BOOLEAN : Ladder!Event(calls + 1, p, current, requested, approver) \in Ladder!Events
      BY <3>1, <1>2 DEF Ladder!Event, Ladder!Events, Ladder!Tiers
    <3> QED
      BY <1>2, <3>2 DEF Ladder!Decide, Ladder!Promotes
  <2>3. Ladder!Load' = Ladder!Load /\ Ladder!Load \in Ladder!LadderStates
    BY <2>1, LoadKept, LoadLawful DEF LadderSerial
  <2>4. /\ Ids(Ladder!Load.history) \subseteq Ids(draft'[r].history)
        /\ Len(draft'[r].history) > 0
    BY <2>2, <2>3, <1>t, AppendedIds DEF LadderShape, Ladder!LadderStates
  <2> QED
    BY <1>t, <2>1, <2>3, <2>4 DEF LadderSerial, LadderShape
<1>3. ASSUME NEW r \in Recorders, Ladder!OpenTemp(r) PROVE LadderSerial'
  <2>1. /\ serial /\ recording[r] = "open"
        /\ recording' = [recording EXCEPT ![r] = "write"]
        /\ UNCHANGED <<stored, statePath, draft, recorded>>
    BY <1>3 DEF Ladder!OpenTemp
  <2>2. /\ tmpPath' \in 1 .. MaxCalls /\ tmpPath' # statePath
        /\ content' = [content EXCEPT ![tmpPath'] = Empty]
        /\ fd' = [fd EXCEPT ![r] = tmpPath']
    BY <1>3, <1>t, <2>1 DEF Ladder!OpenTemp, LadderShape, LadderSerial, Ladder!FirstUnused,
       Ladder!Unused, Ladder!Inodes, Ladder!NoInode
  <2>3. Ladder!Load' = Ladder!Load /\ (statePath # 0 => content'[statePath] = content[statePath])
    BY <1>t, <2>1, <2>2, LoadKept DEF LadderShape
  <2> QED
    BY <1>t, <2>1, <2>2, <2>3 DEF LadderSerial, LadderShape
<1>4. ASSUME NEW r \in Recorders, NEW outcome \in {"written", Torn}, Ladder!WriteTemp(r, outcome)
      PROVE  LadderSerial'
  <2>1. /\ serial /\ recording[r] = "write" /\ fd[r] = tmpPath /\ content[tmpPath] = Empty
        /\ recording' = [recording EXCEPT ![r] = "replace"]
        /\ UNCHANGED <<stored, statePath, tmpPath, draft, fd, recorded>>
    BY <1>4 DEF Ladder!WriteTemp, LadderSerial
  <2>2. content' = [content EXCEPT ![tmpPath] = draft[r]]
    BY <1>4, <2>1 DEF Ladder!WriteTemp
  <2>3. Ladder!Load' = Ladder!Load /\ (statePath # 0 => content'[statePath] = content[statePath])
    BY <1>t, <2>1, <2>2, LoadKept DEF LadderShape, LadderSerial
  <2> QED
    BY <1>t, <2>1, <2>2, <2>3 DEF LadderSerial, LadderShape
<1>5. ASSUME NEW r \in Recorders, Ladder!Replace(r) PROVE LadderSerial'
  <2>1. /\ serial /\ recording[r] = "replace" /\ tmpPath # 0 /\ content[tmpPath] = draft[r]
        /\ \A u \in Recorders : u # r => recording[u] = "idle"
        /\ recording' = [recording EXCEPT ![r] = "idle"]
        /\ statePath' = tmpPath /\ tmpPath' = 0 /\ UNCHANGED <<stored, content>>
    BY <1>5, <1>t DEF Ladder!Replace, Ladder!Leave, LadderSerial, Ladder!NoInode, LadderShape
  <2>2. Ladder!Load' = draft[r] /\ draft[r] \in Ladder!LadderStates /\ draft[r] \notin {Empty, Torn}
    BY <1>t, <1>m, <2>1 DEF LadderShape, Ladder!Load, Ladder!NoInode
  <2>3. Ladder!Last(draft[r].history).id \in Ids(draft[r].history) /\ recorded \subseteq Ids(draft[r].history)
    <3>1. draft[r].history \in Seq(Ladder!Events) /\ Len(draft[r].history) > 0
      BY <2>1, <2>2 DEF LadderSerial, Ladder!LadderStates
    <3>2. Len(draft[r].history) \in Nat
      BY <3>1, LenProperties
    <3>3. Ladder!Last(draft[r].history) = draft[r].history[Len(draft[r].history)]
      BY DEF Ladder!Last
    <3>4. Len(draft[r].history) \in 1 .. Len(draft[r].history)
      BY <3>1, <3>2
    <3>5. recorded \subseteq Ids(draft[r].history)
      BY <2>1 DEF LadderSerial
    <3> QED
      BY <3>3, <3>4, <3>5 DEF Ids
  <2>4. recorded' = recorded \cup {Ladder!Last(draft[r].history).id}
    BY <1>5 DEF Ladder!Replace
  <2> QED
    BY <1>t, <2>1, <2>2, <2>3, <2>4 DEF LadderSerial, LadderShape
<1>6. ASSUME NEW r \in Recorders, Ladder!ReplaceFails(r) PROVE LadderSerial'
  BY <1>6 DEF Ladder!ReplaceFails, LadderSerial, Ladder!NoInode
<1>7. ASSUME NEW r \in Recorders, NEW partial \in BOOLEAN, Ladder!Die(r, partial) PROVE LadderSerial'
  <2>1. /\ serial /\ recording[r] # "idle" /\ (partial => recording[r] = "write" /\ fd[r] = tmpPath)
        /\ \A u \in Recorders : u # r => recording[u] = "idle"
        /\ recording' = [recording EXCEPT ![r] = "idle"]
        /\ UNCHANGED <<stored, statePath, tmpPath, recorded>>
    BY <1>7, <1>t DEF Ladder!Die, Ladder!Leave, LadderSerial, LadderShape
  <2>2. statePath # 0 => content'[statePath] = content[statePath]
    BY <1>7, <1>t, <2>1 DEF Ladder!Die, LadderSerial, LadderShape
  <2>3. Ladder!Load' = Ladder!Load
    BY <2>1, <2>2, LoadKept
  <2> QED
    BY <1>t, <2>1, <2>2, <2>3 DEF LadderSerial, LadderShape
<1>8. CASE Ladder!Next
  <2>1. PICK r \in Recorders :
          \/ \E current, requested \in 0 .. 3,
                thresholds, capable, surplus, approved, approver \in BOOLEAN :
                 Ladder!Decide(r, current, requested,
                     Ladder!Eligible(current, requested, thresholds, capable, surplus, approved),
                     approver)
          \/ Ladder!OpenTemp(r)
          \/ \E outcome \in {"written", Torn} : Ladder!WriteTemp(r, outcome)
          \/ Ladder!Replace(r)
          \/ Ladder!ReplaceFails(r)
          \/ \E partial \in BOOLEAN : Ladder!Die(r, partial)
    BY <1>8 DEF Ladder!Next, Ladder!Tiers
  <2>2. CASE \E current, requested \in 0 .. 3,
                thresholds, capable, surplus, approved, approver \in BOOLEAN :
                 Ladder!Decide(r, current, requested,
                     Ladder!Eligible(current, requested, thresholds, capable, surplus, approved),
                     approver)
    BY <1>2, <2>2
  <2> QED
    BY <1>3, <1>4, <1>5, <1>6, <1>7, <2>1, <2>2
<1> QED
  BY <1>1, <1>8 DEF Next, vars

(* Calls of record_decision that do not overlap lose nothing, wherever they *)
(* die: the file parses and holds every decision whose call returned.       *)
THEOREM SerialCallsDurable == Spec => []SerialDurable
<1>1. LadderInv /\ LadderSerial => SerialDurable
  BY DEF LadderSerial, SerialDurable, Ladder!SerialDurable, Ladder!Kept, Ids
<1> QED
  BY LadderInit, LadderStep, SerialInit, SerialStep, <1>1, PTL DEF Spec

-----------------------------------------------------------------------------
(* The dispatcher with retries. *)

\* The window marks a key while the last admission is younger than Window.
RetryMarked ==
    /\ since \in [Keys -> 0 .. Window] /\ dedupe \in [Keys -> -1 .. Window]
    /\ \A k \in Keys : since[k] < Window => dedupe[k] = since[k]

LEMMA MarkedInit == Init => RetryMarked
BY CallersAssumption DEF Init, Retry!Init, RetryMarked, Retry!ConfigAssumption, Retry!Absent

LEMMA MarkedStep ==
  RetryMarked /\ [Next]_vars =>
      RetryMarked' /\ (\A k \in Keys : since'[k] < since[k] => since[k] = Window)
<1> SUFFICES ASSUME RetryMarked, [Next]_vars
             PROVE  RetryMarked' /\ \A k \in Keys : since'[k] < since[k] => since[k] = Window
  OBVIOUS
<1>m. Window \in Nat \ {0}
  BY CallersAssumption DEF Retry!ConfigAssumption
<1> USE <1>m DEF RetryMarked
<1>1. CASE dedupe' = dedupe /\ since' = since
  BY <1>1
<1>2. CASE Retry!Tick
  BY <1>2 DEF Retry!Tick, Retry!Older
<1>3. ASSUME NEW t \in Tasks, NEW k \in Keys \cup {Retry!NoKey}, Retry!SendDuplicate(t, k)
      PROVE  RetryMarked' /\ since' = since
  BY <1>3 DEF Retry!SendDuplicate, Retry!Marked, Retry!Fresh, Retry!Absent
<1>4. ASSUME NEW t \in Tasks, NEW k \in Keys, Retry!SendAdmitted(t, k)
      PROVE  RetryMarked' /\ \A j \in Keys : since'[j] < since[j] => since[j] = Window
  <2>1. /\ dedupe[k] \notin 0 .. (Window - 1) /\ since' = [since EXCEPT ![k] = 0]
        /\ dedupe' = [j \in Keys |-> IF dedupe[j] \in 0 .. (Window - 1) THEN dedupe[j]
                                     ELSE IF j = k THEN 0 ELSE -1]
    BY <1>4 DEF Retry!SendAdmitted, Retry!Marked, Retry!Fresh, Retry!Absent
  <2> QED
    BY <2>1
<1>5. ASSUME NEW t \in Tasks, NEW k, k \notin Keys, Retry!SendAdmitted(t, k)
      PROVE  dedupe' = dedupe /\ since' = since
  BY <1>5 DEF Retry!SendAdmitted
<1>6. CASE Retry!Crash
  BY <1>6 DEF Retry!Crash, Retry!Absent
<1>7. ASSUME NEW t \in Tasks, Retry!Serve(t) \/ Retry!Cancel(t)
      PROVE  dedupe' = dedupe /\ since' = since
  BY <1>7 DEF Retry!Serve, Retry!PostEnds, Retry!Wake, Retry!Cancel
<1>8. CASE Retry!Next
  BY <1>1, <1>2, <1>3, <1>4, <1>5, <1>6, <1>7, <1>8 DEF Retry!Next
<1>9. CASE UNCHANGED retryVars
  BY <1>1, <1>9 DEF retryVars
<1> QED
  BY <1>8, <1>9 DEF Next, vars

(* Within one process, two calls of send with the same key are let through  *)
(* only when the window has run out since the first (alert_dispatcher.py).  *)
THEOREM AdmissionsKeepWindow == Spec => AdmissionsSpaced
<1>1. RetryMarked /\ [Next]_vars =>
          [\A k \in Keys : since'[k] < since[k] => since[k] = Window]_(Retry!vars)
  BY MarkedStep
<1> QED
  BY MarkedInit, MarkedStep, <1>1, PTL DEF Spec, AdmissionsSpaced, Retry!AdmissionsSpaced

Posts == [reached : BOOLEAN, answered : BOOLEAN]
Reports == [channel : Retry!Names \cup {"shadow"}, delivered : BOOLEAN]
Distinct(s) == \A i, j \in 1 .. Len(s) : s[i] = s[j] => i = j

RetryShape ==
    /\ route \in [Tasks -> Seq(Retry!Names)] /\ posts \in [Tasks -> [Retry!Names -> Seq(Posts)]]
    /\ sending \in [Tasks -> {"idle", "posting", "sleeping"}] /\ attempt \in [Tasks -> 0 .. MaxRetries]
    /\ results \in [Tasks -> Seq(Reports)]

\* Channels still to be tried are tried once; none of them has acknowledged, and
\* attempt counts the posts to the one being tried.
Routed(t) ==
    /\ Distinct(route[t]) /\ (sending[t] # "idle" => route[t] # <<>>)
    /\ sending[t] = "sleeping" => attempt[t] < MaxRetries
    /\ \A n \in 1 .. Len(route[t]) :
         /\ \A i \in 1 .. Len(posts[t][route[t][n]]) : ~posts[t][route[t][n]][i].answered
         /\ Len(posts[t][route[t][n]]) =
              IF n > 1 THEN 0 ELSE IF sending[t] = "sleeping" THEN attempt[t] + 1 ELSE attempt[t]

\* The posts behind a report: only the last may have been acknowledged.
Matches(delivered, a) ==
    /\ \A i \in 1 .. Len(a) : a[i].answered <=> (delivered /\ i = Len(a))
    /\ IF delivered THEN Len(a) >= 1 ELSE Len(a) = MaxRetries + 1

Reported(t) ==
    \A n \in 1 .. Len(results[t]) : results[t][n].channel # "shadow" =>
        /\ \A m \in 1 .. Len(route[t]) : route[t][m] # results[t][n].channel
        /\ Matches(results[t][n].delivered, posts[t][results[t][n].channel])

AnswersLast(t) ==
    \A c \in Retry!Names : \A i \in 1 .. Len(posts[t][c]) :
        posts[t][c][i].answered => i = Len(posts[t][c])

RetryInv == RetryShape /\ \A t \in Tasks : Routed(t) /\ Reported(t) /\ AnswersLast(t)

LEMMA MaxRetriesType == MaxRetries \in Nat
BY CallersAssumption DEF Retry!ConfigAssumption

(* A call that begins or is over. *)
LEMMA FreshCall ==
  ASSUME NEW t \in Tasks, posts[t] = Retry!NoPosts, Distinct(route[t]),
         \A n \in 1 .. Len(route[t]) : route[t][n] \in Retry!Names,
         sending[t] = "idle" \/ (sending[t] = "posting" /\ route[t] # <<>>),
         route[t] # <<>> => attempt[t] = 0,
         \A n \in 1 .. Len(results[t]) : results[t][n].channel = "shadow"
  PROVE  Routed(t) /\ Reported(t) /\ AnswersLast(t)
<1>1. \A c \in Retry!Names : posts[t][c] = <<>> /\ Len(posts[t][c]) = 0
  BY DEF Retry!NoPosts
<1>2. Routed(t)
  <2>1. ASSUME NEW n \in 1 .. Len(route[t]) PROVE attempt[t] = 0
    BY <2>1, EmptySeq
  <2> QED
    BY <1>1, <2>1 DEF Routed
<1>3. Reported(t) /\ AnswersLast(t)
  BY <1>1 DEF Reported, AnswersLast
<1> QED
  BY <1>2, <1>3

LEMMA NoPostsType == Retry!NoPosts \in [Retry!Names -> Seq(Posts)]
BY EmptySeq DEF Retry!NoPosts

LEMMA RetryInit == Init => RetryInv
<1> SUFFICES ASSUME Init PROVE RetryInv
  OBVIOUS
<1> USE DEF Init, Retry!Init
<1>1. RetryShape
  BY NoPostsType, MaxRetriesType, EmptySeq DEF RetryShape
<1>2. ASSUME NEW t \in Tasks PROVE Routed(t) /\ Reported(t) /\ AnswersLast(t)
  BY FreshCall DEF Distinct
<1> QED
  BY <1>1, <1>2 DEF RetryInv

(* A step that leaves the calls alone. *)
LEMMA CallsKept ==
  ASSUME RetryInv, NEW u \in Tasks,
         route'[u] = route[u], posts'[u] = posts[u], sending'[u] = sending[u],
         attempt'[u] = attempt[u], results'[u] = results[u]
  PROVE  Routed(u)' /\ Reported(u)' /\ AnswersLast(u)'
<1>1. Routed(u) /\ Reported(u) /\ AnswersLast(u)
  BY DEF RetryInv
<1>2. Routed(u)'
  BY <1>1 DEF Routed, Distinct
<1>3. Reported(u)'
  BY <1>1 DEF Reported, Matches
<1>4. AnswersLast(u)'
  BY <1>1 DEF AnswersLast
<1> QED
  BY <1>2, <1>3, <1>4

(* The posts to the channel being tried after one more, and to the others. *)
LEMMA PostNoted ==
  ASSUME RetryInv, NEW t \in Tasks, NEW reached \in BOOLEAN, NEW answered \in BOOLEAN,
         Retry!PostEnds(t, reached, answered)
  PROVE  /\ sending[t] = "posting" /\ route[t] # <<>> /\ route[t] \in Seq(Retry!Names)
         /\ route[t][1] \in Retry!Names /\ Head(route[t]) = route[t][1]
         /\ Len(posts'[t][route[t][1]]) = attempt[t] + 1
         /\ \A i \in 1 .. attempt[t] + 1 :
              posts'[t][route[t][1]][i].answered <=> (answered /\ i = attempt[t] + 1)
         /\ \A c \in Retry!Names : c # route[t][1] => posts'[t][c] = posts[t][c]
         /\ \A u \in Tasks : u # t => posts'[u] = posts[u]
         /\ posts' \in [Tasks -> [Retry!Names -> Seq(Posts)]]
<1> DEFINE c == Head(route[t])
           p == [reached |-> reached, answered |-> answered]
           a == posts[t][c]
<1>1. /\ sending[t] = "posting" /\ route[t] # <<>> /\ route[t] \in Seq(Retry!Names)
      /\ posts \in [Tasks -> [Retry!Names -> Seq(Posts)]] /\ attempt[t] \in 0 .. MaxRetries
  BY DEF Retry!PostEnds, RetryInv, RetryShape, Routed
<1>2. c \in Retry!Names /\ 1 \in 1 .. Len(route[t]) /\ c = route[t][1]
  <2>1. Len(route[t]) \in Nat /\ Len(route[t]) # 0
    BY <1>1, EmptySeq, LenProperties
  <2>2. c \in Retry!Names
    BY <1>1, HeadTailProperties
  <2>3. c = route[t][1]
    BY <1>1, <2>1
  <2> QED
    BY <2>1, <2>2, <2>3
<1>3. a \in Seq(Posts) /\ Len(a) = attempt[t] /\ \A i \in 1 .. Len(a) : ~a[i].answered
  <2>1. Routed(t)
    BY DEF RetryInv
  <2>2. a = posts[t][route[t][1]] /\ a \in Seq(Posts)
    BY <1>1, <1>2
  <2>3. Len(a) = attempt[t] /\ \A i \in 1 .. Len(a) : ~a[i].answered
    <3> HIDE DEF c, a
    <3> QED
      BY <1>1, <1>2, <2>1, <2>2 DEF Routed
  <2> QED
    BY <2>2, <2>3
<1>4. ~(Len(a) > MaxRetries + 1)
  BY <1>1, <1>3, MaxRetriesType
<1>5. posts' = [posts EXCEPT ![t][c] = Append(@, p)]
  BY <1>4 DEF Retry!PostEnds, Retry!Note
<1>6. /\ Append(a, p) \in Seq(Posts) /\ Len(Append(a, p)) = attempt[t] + 1
      /\ Append(a, p)[attempt[t] + 1] = p
      /\ \A i \in 1 .. attempt[t] : Append(a, p)[i] = a[i]
  BY <1>3, AppendProperties DEF Posts
<1>7. p.answered = answered
  OBVIOUS
<1> HIDE DEF c, p
<1>8. posts'[t][c] = Append(a, p)
  BY <1>1, <1>2, <1>5
<1> HIDE DEF a
<1>9. \A i \in 1 .. attempt[t] + 1 : posts'[t][c][i].answered <=> (answered /\ i = attempt[t] + 1)
  BY <1>1, <1>3, <1>6, <1>7, <1>8
<1>10. /\ \A d \in Retry!Names : d # c => posts'[t][d] = posts[t][d]
       /\ \A u \in Tasks : u # t => posts'[u] = posts[u]
       /\ posts' \in [Tasks -> [Retry!Names -> Seq(Posts)]]
  BY <1>1, <1>2, <1>5, <1>6 DEF a
<1> QED
  BY <1>1, <1>2, <1>6, <1>8, <1>9, <1>10 DEF c

(* One post and what follows it. *)
LEMMA RetryPost ==
  ASSUME RetryInv, NEW t \in Tasks, NEW reached \in BOOLEAN, NEW answered \in BOOLEAN,
         Retry!PostEnds(t, reached, answered)
  PROVE  RetryInv'
<1> DEFINE r == route[t]
           h == route[t][1]
           new == [channel |-> h, delivered |-> answered]
<1>0. RetryShape /\ Routed(t) /\ Reported(t) /\ AnswersLast(t) /\ MaxRetries \in Nat
  BY MaxRetriesType DEF RetryInv
<1>1. /\ sending[t] = "posting" /\ r # <<>> /\ r \in Seq(Retry!Names)
      /\ h \in Retry!Names /\ Head(r) = h
      /\ Len(posts'[t][h]) = attempt[t] + 1
      /\ \A i \in 1 .. attempt[t] + 1 : posts'[t][h][i].answered <=> (answered /\ i = attempt[t] + 1)
      /\ \A c \in Retry!Names : c # h => posts'[t][c] = posts[t][c]
      /\ \A u \in Tasks : u # t => posts'[u] = posts[u]
      /\ posts' \in [Tasks -> [Retry!Names -> Seq(Posts)]]
  BY PostNoted
<1>2. /\ Len(r) \in Nat /\ Len(r) >= 1 /\ Tail(r) \in Seq(Retry!Names) /\ Len(Tail(r)) = Len(r) - 1
      /\ \A n \in 1 .. Len(Tail(r)) : Tail(r)[n] = r[n + 1]
  <2>1. Len(r) \in Nat /\ Len(r) # 0
    BY <1>1, EmptySeq, LenProperties
  <2> QED
    BY <1>1, <2>1, HeadTailProperties
<1>3. attempt[t] \in 0 .. MaxRetries /\ results[t] \in Seq(Reports)
  BY <1>0 DEF RetryShape
<1>4. new \in Reports /\ new.channel = h /\ new.delivered = answered
  BY <1>1 DEF Reports
<1>5. \/ /\ ~answered /\ attempt[t] < MaxRetries
         /\ UNCHANGED <<route, attempt, results>> /\ sending' = [sending EXCEPT ![t] = "sleeping"]
      \/ /\ answered \/ ~(attempt[t] < MaxRetries)
         /\ results' = [results EXCEPT ![t] = Append(@, new)]
         /\ route' = [route EXCEPT ![t] = Tail(r)] /\ attempt' = [attempt EXCEPT ![t] = 0]
         /\ sending' = [sending EXCEPT ![t] = IF Len(r) = 1 THEN "idle" ELSE "posting"]
  BY <1>1 DEF Retry!PostEnds, Retry!AfterPost, Retry!Sleep, Retry!NextChannel
<1>6. AnswersLast(t)'
  <2> SUFFICES ASSUME NEW c \in Retry!Names, NEW i \in 1 .. Len(posts'[t][c]),
                      posts'[t][c][i].answered
               PROVE  i = Len(posts'[t][c])
    BY DEF AnswersLast
  <2> HIDE DEF r, h, new
  <2>1. CASE c = h
    BY <1>1, <1>3, <2>1
  <2>2. CASE c # h
    BY <1>0, <1>1, <2>2 DEF AnswersLast
  <2> QED
    BY <2>1, <2>2
\* The channels behind the first are not the first and have had no post.
<1>7. \A n \in 1 .. Len(r) : n > 1 => /\ r[n] \in Retry!Names /\ r[n] # h
                                      /\ posts'[t][r[n]] = posts[t][r[n]] /\ Len(posts[t][r[n]]) = 0
  <2> SUFFICES ASSUME NEW n \in 1 .. Len(r), n > 1
               PROVE  /\ r[n] \in Retry!Names /\ r[n] # h
                      /\ posts'[t][r[n]] = posts[t][r[n]] /\ Len(posts[t][r[n]]) = 0
    OBVIOUS
  <2>1. r[n] \in Retry!Names
    BY <1>1
  <2>2. r[n] # h
    BY <1>0, <1>2 DEF Routed, Distinct
  <2>3. Len(posts[t][r[n]]) = 0
    BY <1>0 DEF Routed
  <2> QED
    BY <1>1, <2>1, <2>2, <2>3
<1>8. \A n \in 1 .. Len(results[t]) : results[t][n].channel # "shadow" =>
        /\ results[t][n].channel # h /\ results[t][n].channel \in Retry!Names
        /\ posts'[t][results[t][n].channel] = posts[t][results[t][n].channel]
  <2> SUFFICES ASSUME NEW n \in 1 .. Len(results[t]), results[t][n].channel # "shadow"
               PROVE  /\ results[t][n].channel # h /\ results[t][n].channel \in Retry!Names
                      /\ posts'[t][results[t][n].channel] = posts[t][results[t][n].channel]
    OBVIOUS
  <2>1. results[t][n] \in Reports
    BY <1>3
  <2>2. results[t][n].channel # h
    BY <1>0, <1>2 DEF Reported
  <2> QED
    BY <1>1, <2>1, <2>2 DEF Reports
<1> HIDE DEF r, h, new
<1>9. CASE /\ ~answered /\ attempt[t] < MaxRetries
           /\ UNCHANGED <<route, attempt, results>> /\ sending' = [sending EXCEPT ![t] = "sleeping"]
  <2>1. RetryShape'
    BY <1>0, <1>1, <1>9 DEF RetryShape
  <2>2. sending'[t] = "sleeping" /\ route'[t] = r /\ attempt'[t] = attempt[t] /\ results'[t] = results[t]
    BY <1>0, <1>9 DEF RetryShape, r
  <2>3. Routed(t)'
    <3>1. Distinct(r)
      BY <1>0 DEF Routed, r
    <3>2. ASSUME NEW n \in 1 .. Len(r)
          PROVE  /\ \A i \in 1 .. Len(posts'[t][r[n]]) : ~posts'[t][r[n]][i].answered
                 /\ Len(posts'[t][r[n]]) = IF n > 1 THEN 0 ELSE attempt[t] + 1
      <4>1. CASE n = 1
        BY <1>1, <1>9, <4>1 DEF h, r
      <4>2. CASE n > 1
        BY <1>7, <4>2
      <4> QED
        BY <1>2, <4>1, <4>2
    <3> QED
      BY <1>1, <1>9, <2>2, <3>1, <3>2 DEF Routed, Distinct
  <2>4. Reported(t)'
    <3>1. \A n \in 1 .. Len(results[t]) : results[t][n].channel # "shadow" =>
            /\ \A m \in 1 .. Len(r) : r[m] # results[t][n].channel
            /\ Matches(results[t][n].delivered, posts[t][results[t][n].channel])
      BY <1>0 DEF Reported, r
    <3> QED
      BY <1>8, <2>2, <3>1 DEF Reported, Matches
  <2>5. \A u \in Tasks : u # t => Routed(u)' /\ Reported(u)' /\ AnswersLast(u)'
    BY <1>0, <1>1, <1>9, CallsKept DEF RetryShape
  <2> QED
    BY <1>6, <2>1, <2>3, <2>4, <2>5 DEF RetryInv
<1>10. CASE /\ answered \/ ~(attempt[t] < MaxRetries)
            /\ results' = [results EXCEPT ![t] = Append(@, new)]
            /\ route' = [route EXCEPT ![t] = Tail(r)] /\ attempt' = [attempt EXCEPT ![t] = 0]
            /\ sending' = [sending EXCEPT ![t] = IF Len(r) = 1 THEN "idle" ELSE "posting"]
  <2>0. /\ Append(results[t], new) \in Seq(Reports)
        /\ Len(Append(results[t], new)) = Len(results[t]) + 1 /\ Len(results[t]) \in Nat
        /\ Append(results[t], new)[Len(results[t]) + 1] = new
        /\ \A n \in 1 .. Len(results[t]) : Append(results[t], new)[n] = results[t][n]
    BY <1>3, <1>4, AppendProperties, LenProperties
  <2>1. RetryShape'
    BY <1>0, <1>1, <1>2, <1>10, <2>0 DEF RetryShape
  <2>2. /\ sending'[t] = (IF Len(r) = 1 THEN "idle" ELSE "posting") /\ route'[t] = Tail(r)
        /\ attempt'[t] = 0 /\ results'[t] = Append(results[t], new)
    BY <1>0, <1>10 DEF RetryShape
  <2>a. \A n \in 1 .. Len(Tail(r)) : /\ n + 1 \in 1 .. Len(r) /\ n + 1 > 1 /\ Tail(r)[n] = r[n + 1]
    BY <1>2
  <2>3. Routed(t)'
    <3>1. Distinct(r)
      BY <1>0 DEF Routed, r
    <3>2. Distinct(Tail(r))
      BY <1>2, <2>a, <3>1 DEF Distinct
    <3>3. \A n \in 1 .. Len(Tail(r)) : Len(posts'[t][Tail(r)[n]]) = 0
      BY <1>7, <2>a
    <3>4. sending'[t] # "idle" => Tail(r) # <<>>
      <4>1. Len(r) # 1 => Len(Tail(r)) # 0
        BY <1>2
      <4> QED
        BY <1>2, <2>2, <4>1, EmptySeq
    <3>5. sending'[t] # "sleeping"
      BY <2>2
    <3> QED
      BY <2>2, <3>2, <3>3, <3>4, <3>5 DEF Routed, Distinct
  <2>4. ASSUME NEW n \in 1 .. Len(results'[t]), results'[t][n].channel # "shadow"
        PROVE  /\ \A m \in 1 .. Len(route'[t]) : route'[t][m] # results'[t][n].channel
               /\ Matches(results'[t][n].delivered, posts'[t][results'[t][n].channel])
    <3>1. CASE n \in 1 .. Len(results[t])
      <4>1. results'[t][n] = results[t][n]
        BY <2>0, <2>2, <3>1
      <4>2. /\ \A m \in 1 .. Len(r) : r[m] # results[t][n].channel
            /\ Matches(results[t][n].delivered, posts[t][results[t][n].channel])
        BY <1>0, <2>4, <3>1, <4>1 DEF Reported, r
      <4> QED
        BY <1>8, <2>2, <2>4, <2>a, <3>1, <4>1, <4>2
    <3>2. CASE n = Len(results[t]) + 1
      <4>1. results'[t][n].channel = h /\ results'[t][n].delivered = answered
        BY <1>4, <2>0, <2>2, <3>2
      <4>2. \A m \in 1 .. Len(route'[t]) : route'[t][m] # h
        BY <1>7, <2>2, <2>a
      <4>3. Matches(answered, posts'[t][h])
        BY <1>0, <1>1, <1>3, <1>10 DEF Matches
      <4> QED
        BY <4>1, <4>2, <4>3
    <3> QED
      BY <2>0, <2>2, <3>1, <3>2
  <2>5. Reported(t)'
    BY <2>4 DEF Reported, Matches
  <2>6. \A u \in Tasks : u # t => Routed(u)' /\ Reported(u)' /\ AnswersLast(u)'
    BY <1>0, <1>1, <1>10, CallsKept DEF RetryShape
  <2> QED
    BY <1>6, <2>1, <2>3, <2>5, <2>6 DEF RetryInv
<1> QED
  BY <1>5, <1>9, <1>10

LEMMA RetryStep == RetryInv /\ [Next]_vars => RetryInv'
<1> SUFFICES ASSUME RetryInv, [Next]_vars PROVE RetryInv'
  OBVIOUS
<1>0. RetryShape
  BY DEF RetryInv
<1>1. CASE UNCHANGED <<sending, route, attempt, results, posts>>
  BY <1>0, <1>1, CallsKept DEF RetryInv, RetryShape
<1>2. ASSUME NEW t \in Tasks, NEW k \in Keys \cup {Retry!NoKey},
             Retry!SendDuplicate(t, k) \/ Retry!SendAdmitted(t, k)
      PROVE  RetryInv'
  <2>1. PICK channels \in {<<>>, Channels}, collected \in {<<>>, <<[channel |-> "shadow", delivered |-> TRUE]>>} :
          /\ route' = [route EXCEPT ![t] = channels] /\ posts' = [posts EXCEPT ![t] = Retry!NoPosts]
          /\ sending' = [sending EXCEPT ![t] = IF channels = <<>> THEN "idle" ELSE "posting"]
          /\ attempt' = [attempt EXCEPT ![t] = 0] /\ results' = [results EXCEPT ![t] = collected]
    BY <1>2 DEF Retry!SendDuplicate, Retry!SendAdmitted, Retry!Begin
  <2>2. channels \in Seq(Retry!Names) /\ Distinct(channels)
    <3>1. Channels \in Seq(STRING) /\ Distinct(Channels)
      BY CallersAssumption DEF Retry!ConfigAssumption, Distinct
    <3>2. Channels \in Seq(Retry!Names)
      <4>1. \A i \in 1 .. Len(Channels) : Channels[i] \in Retry!Names
        BY DEF Retry!Names
      <4> QED
        BY <3>1, <4>1
    <3>3. <<>> \in Seq(Retry!Names) /\ Distinct(<<>>)
      BY EmptySeq DEF Distinct
    <3> QED
      BY <3>1, <3>2, <3>3
  <2>3. collected \in Seq(Reports) /\ \A n \in 1 .. Len(collected) : collected[n].channel = "shadow"
    <3> DEFINE one == [channel |-> "shadow", delivered |-> TRUE]
    <3>1. one \in Reports /\ one.channel = "shadow"
      BY DEF Reports
    <3> HIDE DEF one
    <3>2. CASE collected = <<>>
      BY <3>2, EmptySeq
    <3>3. CASE collected = <<one>>
      BY <3>1, <3>3
    <3> QED
      BY <3>2, <3>3 DEF one
  <2>4. RetryShape'
    BY <1>0, <2>1, <2>2, <2>3, NoPostsType, MaxRetriesType DEF RetryShape
  <2>5. Routed(t)' /\ Reported(t)' /\ AnswersLast(t)'
    <3>1. /\ posts'[t] = Retry!NoPosts /\ route'[t] = channels /\ attempt'[t] = 0
          /\ results'[t] = collected
          /\ sending'[t] = IF channels = <<>> THEN "idle" ELSE "posting"
      BY <1>0, <2>1 DEF RetryShape
    <3>2. \A n \in 1 .. Len(channels) : channels[n] \in Retry!Names
      BY <2>2
    <3>3. \A c \in Retry!Names : Len(posts'[t][c]) = 0
      BY <3>1 DEF Retry!NoPosts
    <3>4. Routed(t)'
      BY <2>2, <3>1, <3>2, <3>3 DEF Routed, Distinct
    <3> QED
      BY <2>3, <3>1, <3>3, <3>4 DEF Reported, AnswersLast
  <2>6. \A u \in Tasks : u # t => Routed(u)' /\ Reported(u)' /\ AnswersLast(u)'
    BY <1>0, <2>1, CallsKept DEF RetryShape
  <2> QED
    BY <2>4, <2>5, <2>6 DEF RetryInv
<1>3. ASSUME NEW t \in Tasks, Retry!Wake(t) PROVE RetryInv'
  <2>1. /\ sending[t] = "sleeping" /\ sending' = [sending EXCEPT ![t] = "posting"]
        /\ attempt' = [attempt EXCEPT ![t] = @ + 1] /\ UNCHANGED <<route, results, posts>>
    BY <1>3 DEF Retry!Wake
  <2>2. attempt[t] < MaxRetries /\ attempt[t] \in Nat /\ attempt'[t] = attempt[t] + 1
    BY <1>0, <2>1 DEF RetryInv, Routed, RetryShape
  <2>3. RetryShape'
    BY <1>0, <2>1, <2>2, MaxRetriesType DEF RetryShape
  <2>4. Routed(t)'
    <3>1. sending'[t] = "posting"
      BY <1>0, <2>1 DEF RetryShape
    <3> QED
      BY <2>1, <2>2, <3>1 DEF RetryInv, Routed, Distinct
  <2>5. Reported(t)' /\ AnswersLast(t)'
    <3>1. Reported(t) /\ AnswersLast(t)
      BY DEF RetryInv
    <3>2. Reported(t)'
      BY <2>1, <3>1 DEF Reported, Matches
    <3>3. AnswersLast(t)'
      BY <2>1, <3>1 DEF AnswersLast
    <3> QED
      BY <3>2, <3>3
  <2>6. \A u \in Tasks : u # t => Routed(u)' /\ Reported(u)' /\ AnswersLast(u)'
    BY <1>0, <2>1, CallsKept DEF RetryShape
  <2> QED
    BY <2>3, <2>4, <2>5, <2>6 DEF RetryInv
<1>4. ASSUME NEW t \in Tasks, route'[t] = <<>>, posts'[t] = Retry!NoPosts, sending'[t] = "idle",
             results'[t] = <<>>
      PROVE  Routed(t)' /\ Reported(t)' /\ AnswersLast(t)'
  <2>1. \A c \in Retry!Names : Len(posts'[t][c]) = 0
    BY <1>4 DEF Retry!NoPosts
  <2> QED
    BY <1>4, <2>1, EmptySeq DEF Routed, Reported, AnswersLast, Distinct
<1>5. ASSUME NEW t \in Tasks, Retry!Cancel(t) PROVE RetryInv'
  <2>1. RetryShape'
    BY <1>0, <1>5, EmptySeq, NoPostsType DEF Retry!Cancel, RetryShape
  <2>2. Routed(t)' /\ Reported(t)' /\ AnswersLast(t)'
    BY <1>0, <1>4, <1>5 DEF Retry!Cancel, RetryShape
  <2>3. \A u \in Tasks : u # t => Routed(u)' /\ Reported(u)' /\ AnswersLast(u)'
    BY <1>0, <1>5, CallsKept DEF Retry!Cancel, RetryShape
  <2> QED
    BY <2>1, <2>2, <2>3 DEF RetryInv
<1>6. CASE Retry!Crash
  <2>1. RetryShape'
    BY <1>6, EmptySeq, NoPostsType, MaxRetriesType DEF Retry!Crash, RetryShape
  <2> QED
    BY <1>4, <1>6, <2>1 DEF Retry!Crash, RetryInv
<1>7. CASE Retry!Tick
  BY <1>1, <1>7 DEF Retry!Tick
<1>8. CASE Retry!Next
  BY <1>2, <1>3, <1>5, <1>6, <1>7, <1>8, RetryPost DEF Retry!Next, Retry!Serve
<1> QED
  BY <1>1, <1>8 DEF Next, vars, retryVars

(* What a channel has acknowledged is never sent to it again, whatever *)
(* answers are lost (alert_dispatcher.py).                             *)
THEOREM AcknowledgedNotResent == Spec => []CopiesHaveLostAnswers
<1>1. RetryInv => CopiesHaveLostAnswers
  <2> SUFFICES ASSUME RetryInv, NEW t \in Tasks, NEW c \in Retry!Names,
                      NEW i \in 1 .. Len(posts[t][c]), NEW j \in 1 .. Len(posts[t][c]), i < j
               PROVE  ~posts[t][c][i].answered
    BY DEF CopiesHaveLostAnswers, Retry!CopiesHaveLostAnswers
  <2>1. AnswersLast(t)
    BY DEF RetryInv
  <2> QED
    BY <2>1 DEF AnswersLast
<1> QED
  BY RetryInit, RetryStep, <1>1, PTL DEF Spec

(* What send reports of a channel is what happened to its posts: delivered  *)
(* when the last was acknowledged, failed when max_retries + 1 were made    *)
(* and none was, for any number of concurrent calls, channels and retries.  *)
THEOREM ReportsAreTrue == Spec => []ReportsMatchPosts
<1>1. RetryInv => ReportsMatchPosts
  <2> SUFFICES ASSUME RetryInv, NEW t \in Tasks PROVE Reported(t) => \A n \in 1 .. Len(results[t]) :
          results[t][n].channel # "shadow" =>
             Matches(results[t][n].delivered, posts[t][results[t][n].channel])
    BY DEF ReportsMatchPosts, Retry!ReportsMatchPosts, RetryInv, Matches
  <2> QED
    BY DEF Reported
<1> QED
  BY RetryInit, RetryStep, <1>1, PTL DEF Spec

-----------------------------------------------------------------------------
(* The launches of a capture. *)

Places == {"start", "preflight", "preflight_secret", "capture", "capture_secret", "fetched", "raw",
           "normalized", "snapshot", "staged", "replay", "verify", "rollback", "pass", "rolled_back",
           "stopped", "escaped"}
Finished == {"replay", "verify", "pass"}

LaunchShape ==
    /\ version \in [Launches -> {"v0_1", "v0_2"}]
    /\ at \in [Launches -> Places] /\ moves \in Nat /\ moves <= MaxMoves
    /\ moved \in [Launches -> Nat] /\ \A p \in Launches : moved[p] <= moves
    /\ contacted \in [Launches -> Addresses \cup {Launcher!None}]

\* A directory has at most one maker of each version, and with one of v0.2 it is full.
LaunchMakers ==
    /\ makers \subseteq Launches
    /\ \A p, q \in makers : version[p] = version[q] => p = q
    /\ \A p \in makers : version[p] = "v0_2" => DOMAIN bundle = Launcher!Files
    /\ \A p \in Launches :
        /\ at[p] \in Launcher!Files => version[p] = "v0_1" /\ p \in makers
        /\ at[p] = "staged" => version[p] = "v0_2"
        /\ at[p] \in Finished => p \in makers

Wrote(p, file) == file \in DOMAIN bundle /\ bundle[file].by = p

\* A launch of v0.2 that no launch of v0.1 writes over.
Undisturbed(p) == version[p] = "v0_1" \/ \A q \in makers : version[q] # "v0_1"

\* What a launch has written, and has replayed, is still there.
LaunchOwns ==
    \A p \in Launches :
        /\ at[p] = "normalized" => Wrote(p, "raw")
        /\ at[p] = "snapshot" => Wrote(p, "raw") /\ Wrote(p, "normalized")
        /\ at[p] \in Finished /\ Undisturbed(p) => \A f \in Launcher!Files : Wrote(p, f)
        /\ at[p] \in {"verify", "pass"} /\ Undisturbed(p) => Launcher!Replays(p)

\* Until the answer has changed twice, it differs from the launch's own receipt
\* exactly when it has changed.
LaunchSees ==
    \A p \in Launches :
        /\ at[p] \in Launcher!Running /\ receipt.by = p =>
              /\ receipt.document.addresses \subseteq Public
              /\ moved[p] = 0 => dns = receipt.document.addresses
              /\ moved[p] = 1 => dns # receipt.document.addresses
              /\ at[p] \notin {"capture", "capture_secret"} /\ moved[p] = 0 =>
                    contacted[p] \in receipt.document.addresses
        /\ at[p] = "pass" /\ receipt.by = p =>
              /\ receipt.document.addresses \subseteq Public
              /\ moved[p] < 2 => contacted[p] \in receipt.document.addresses

LaunchInv == LaunchShape /\ LaunchMakers /\ LaunchOwns /\ LaunchSees

LEMMA LaunchInit == Init => LaunchInv
<1> SUFFICES ASSUME Init PROVE LaunchInv
  OBVIOUS
<1>1. /\ version \in [Launches -> {"v0_1", "v0_2"}]
      /\ at = [p \in Launches |-> "start"] /\ moves = 0 /\ moved = [p \in Launches |-> 0]
      /\ contacted = [p \in Launches |-> Launcher!None] /\ makers = {}
  BY DEF Init, Launcher!Init
<1>2. LaunchShape
  BY <1>1, CallersAssumption DEF Launcher!LaunchAssumption, LaunchShape, Places
<1>3. LaunchMakers /\ LaunchOwns /\ LaunchSees
  BY <1>1 DEF LaunchMakers, LaunchOwns, LaunchSees, Launcher!Files, Launcher!Running, Finished
<1> QED
  BY <1>2, <1>3 DEF LaunchInv

\* A step after which no launch has come to write, or finished its bundle, and
\* which leaves the directory alone.
LEMMA DirectoryKept ==
  ASSUME LaunchMakers, LaunchOwns, UNCHANGED <<version, makers, bundle>>,
         \A q \in Launches : \/ at'[q] = at[q]
                             \/ at'[q] \notin Launcher!Files \cup Finished \cup {"staged"}
                             \/ at'[q] = "staged" /\ version[q] = "v0_2"
                             \/ at[q] = "replay" /\ at'[q] = "verify" /\ Launcher!Replays(q)
                             \/ at[q] = "verify" /\ at'[q] = "pass"
  PROVE  LaunchMakers' /\ LaunchOwns'
<1>1. \A q \in Launches : (Launcher!Replays(q))' <=> Launcher!Replays(q)
  BY DEF Launcher!Replays
<1>2. \A q, f : Wrote(q, f)' <=> Wrote(q, f)
  BY DEF Wrote
<1>3. \A q : Undisturbed(q)' <=> Undisturbed(q)
  BY DEF Undisturbed
<1>4. LaunchMakers'
  BY DEF LaunchMakers, Launcher!Files, Finished
<1>5. LaunchOwns'
  <2> SUFFICES ASSUME NEW q \in Launches
               PROVE  /\ at'[q] = "normalized" => Wrote(q, "raw")
                      /\ at'[q] = "snapshot" => Wrote(q, "raw") /\ Wrote(q, "normalized")
                      /\ at'[q] \in Finished /\ Undisturbed(q) => \A f \in Launcher!Files : Wrote(q, f)
                      /\ at'[q] \in {"verify", "pass"} /\ Undisturbed(q) => Launcher!Replays(q)
    BY <1>1, <1>2, <1>3 DEF LaunchOwns
  <2> QED
    BY DEF LaunchOwns, Launcher!Files, Finished
<1> QED
  BY <1>4, <1>5

\* A file that a launch of v0.1 writes, whole or torn, leaves the others what they own.
LEMMA FileWritten ==
  ASSUME LaunchMakers, LaunchOwns, NEW p \in Launches, NEW body, at[p] \in Launcher!Files,
         UNCHANGED <<version, makers>>, bundle' = Launcher!Written(at[p], p, body)
  PROVE  /\ \A f : f = at[p] \/ Wrote(p, f) => Wrote(p, f)'
         /\ makers \subseteq Launches /\ \A u, v \in makers : version[u] = version[v] => u = v
         /\ \A q \in makers : version[q] = "v0_2" => (DOMAIN bundle = Launcher!Files)'
         /\ version[p] = "v0_1" /\ p \in makers
         /\ \A q \in Launches : q # p => /\ at[q] \notin Launcher!Files
                                         /\ at[q] \in Finished => ~Undisturbed(q)'
<1>1. version[p] = "v0_1" /\ p \in makers
  BY DEF LaunchMakers
<1>2. DOMAIN bundle' = DOMAIN bundle \cup {at[p]}
  BY DEF Launcher!Written
<1>3. \A f \in DOMAIN bundle' : bundle'[f] = IF f = at[p] THEN [by |-> p, body |-> body] ELSE bundle[f]
  BY DEF Launcher!Written
<1>4. \A f : f = at[p] \/ Wrote(p, f) => Wrote(p, f)'
  <2>1. \A f \in DOMAIN bundle' : bundle'[f].by = IF f = at[p] THEN p ELSE bundle[f].by
    BY <1>3
  <2>2. at[p] \in DOMAIN bundle' /\ bundle'[at[p]].by = p
    BY <1>2, <2>1
  <2>3. ASSUME NEW f, Wrote(p, f) PROVE Wrote(p, f)'
    BY <1>2, <2>1, <2>3 DEF Wrote
  <2> QED
    BY <2>2, <2>3 DEF Wrote
<1>5. ASSUME NEW q \in Launches, q # p
      PROVE  at[q] \notin Launcher!Files /\ (at[q] \in Finished => ~Undisturbed(q)')
  BY <1>1, <1>5 DEF LaunchMakers, Undisturbed
<1> QED
  BY <1>1, <1>2, <1>4, <1>5 DEF LaunchMakers

LEMMA LaunchStep == LaunchInv /\ [Next]_vars => LaunchInv'
<1> SUFFICES ASSUME LaunchInv, [Next]_vars PROVE LaunchInv'
  OBVIOUS
<1>m. MaxMoves \in Nat
  BY CallersAssumption DEF Launcher!LaunchAssumption
<1>v. version' = version
  BY DEF Next, vars, launchVars, Launcher!Next
<1> USE <1>m, <1>v DEF LaunchInv, LaunchShape, Places, Launcher!Goto, Launcher!RollsBack, Launcher!GoesOn,
       Launcher!Keeps, Launcher!directoryVars, Launcher!bundleVars
<1>1. CASE UNCHANGED launchVars
  <2>1. LaunchMakers' /\ LaunchOwns'
    BY <1>1, DirectoryKept DEF launchVars
  <2> QED
    BY <1>1, <2>1 DEF launchVars, LaunchSees
<1>2. ASSUME NEW answer, Launcher!Move(answer) PROVE LaunchInv'
  <2>1. LaunchShape'
    BY <1>2 DEF Launcher!Move
  <2>2. LaunchMakers' /\ LaunchOwns'
    BY <1>2, DirectoryKept DEF Launcher!Move
  <2>3. LaunchSees'
    BY <1>2 DEF Launcher!Move, LaunchSees, Launcher!Running, Launcher!Files
  <2> QED
    BY <2>1, <2>2, <2>3
\* A launch that leaves the path, or has not come to its capture.
<1>3. ASSUME NEW p \in Launches, NEW where \in Places \ (Launcher!Running \cup Finished),
             UNCHANGED <<dns, moves, receipt, makers, bundle>>,
             at' = [at EXCEPT ![p] = where],
             \/ contacted' = [contacted EXCEPT ![p] = Launcher!None] /\ moved' = [moved EXCEPT ![p] = 0]
             \/ UNCHANGED <<contacted, moved>>
      PROVE  LaunchInv'
  <2>1. LaunchShape'
    BY <1>3
  <2>2. where \notin Launcher!Files \cup Finished \cup {"staged"}
    BY DEF Launcher!Running, Launcher!Files
  <2>3. LaunchMakers' /\ LaunchOwns'
    <3>1. \A q \in Launches : at'[q] = at[q] \/ at'[q] \notin Launcher!Files \cup Finished \cup {"staged"}
      BY <1>3, <2>2
    <3> QED
      BY <1>3, <3>1, DirectoryKept
  <2>4. LaunchSees'
    BY <1>3 DEF LaunchSees, Finished
  <2> QED
    BY <2>1, <2>3, <2>4
<1>4. ASSUME NEW p \in Launches, NEW t, Launcher!RollsBack(p, t), UNCHANGED <<dns, moves, receipt, makers, bundle>>
      PROVE  LaunchInv'
  BY <1>3, <1>4 DEF Launcher!Running, Launcher!Files, Finished
<1>5. ASSUME NEW p \in Launches, NEW e, Launcher!Launch(p, e) PROVE LaunchInv'
  <2>1. CASE e = "kill_switch"
    BY <1>4, <1>5, <2>1 DEF Launcher!Launch
  <2>2. CASE e # "kill_switch"
    <3>1. PICK where \in {"stopped", "preflight_secret", "preflight"} : Launcher!GoesOn(p, where)
      BY <1>5, <2>2 DEF Launcher!Launch
    <3> QED
      BY <1>3, <1>5, <2>2, <3>1 DEF Launcher!Launch, Launcher!Running, Launcher!Files, Finished
  <2> QED
    BY <2>1, <2>2
<1>6. ASSUME NEW p \in Launches, Launcher!Preflight(p) PROVE LaunchInv'
  <2>1. LaunchShape'
    BY <1>6 DEF Launcher!Preflight
  <2>2. receipt'.by = p /\ receipt'.document.addresses = dns /\ dns \subseteq Public
        /\ dns' = dns /\ moved'[p] = 0 /\ at'[p] \in {"capture", "capture_secret"}
    BY <1>6 DEF Launcher!Preflight, Launcher!Receipt, Launcher!ReceiptBuilds, Launcher!Accepted
  <2>3. LaunchMakers' /\ LaunchOwns'
    <3>1. \A q \in Launches : at'[q] = at[q] \/ at'[q] \notin Launcher!Files \cup Finished \cup {"staged"}
      BY <1>6, <2>2 DEF Launcher!Preflight, Launcher!Files, Finished
    <3> QED
      BY <1>6, <3>1, DirectoryKept DEF Launcher!Preflight
  <2>4. LaunchSees'
    BY <2>2 DEF LaunchSees
  <2> QED
    BY <2>1, <2>3, <2>4
<1>7. ASSUME NEW p \in Launches, NEW a \in Addresses, Launcher!Contact(p, a) PROVE LaunchInv'
  <2>1. LaunchShape'
    BY <1>7 DEF Launcher!Contact
  <2>2. LaunchMakers' /\ LaunchOwns'
    <3>1. \A q \in Launches : at'[q] = at[q] \/ at'[q] \notin Launcher!Files \cup Finished \cup {"staged"}
      BY <1>7 DEF Launcher!Contact, Launcher!Files, Finished
    <3> QED
      BY <1>7, <3>1, DirectoryKept DEF Launcher!Contact
  <2>3. LaunchSees'
    BY <1>7 DEF Launcher!Contact, LaunchSees, Launcher!Running
  <2> QED
    BY <2>1, <2>2, <2>3
\* A launch that goes on toward its bundle sees what it saw.
<1>8. ASSUME NEW p \in Launches, NEW where \in Launcher!Files \cup {"staged", "replay"},
             at[p] \in {"fetched", "staged"} \cup Launcher!Files,
             UNCHANGED <<dns, moves, receipt, contacted, moved>>, at' = [at EXCEPT ![p] = where]
      PROVE  LaunchShape' /\ LaunchSees'
  BY <1>8 DEF LaunchSees, Launcher!Running, Launcher!Files
<1>9. ASSUME NEW p \in Launches, NEW body, Launcher!MakeDirectory(p, body) PROVE LaunchInv'
  <2>1. /\ at[p] = "fetched" /\ version[p] = "v0_1" /\ makers = {} /\ makers' = {p}
        /\ at' = [at EXCEPT ![p] = "raw"] /\ UNCHANGED <<dns, moves, receipt, contacted, moved>>
    BY <1>9 DEF Launcher!MakeDirectory
  <2>2. \A q \in Launches : at[q] \notin Launcher!Files \cup Finished
    BY <2>1 DEF LaunchMakers
  <2>3. \A q \in Launches : q # p => at'[q] = at[q]
    BY <2>1
  <2>4. LaunchMakers'
    BY <2>1, <2>2, <2>3 DEF LaunchMakers, Finished
  <2>5. LaunchOwns'
    BY <2>1, <2>2, <2>3 DEF LaunchOwns, Launcher!Files, Finished
  <2>6. LaunchShape' /\ LaunchSees'
    BY <1>8, <2>1 DEF Launcher!Files
  <2> QED
    BY <2>4, <2>5, <2>6
<1>10. ASSUME NEW p \in Launches, Launcher!WriteFile(p) PROVE LaunchInv'
  <2>1. /\ at[p] \in Launcher!Files /\ bundle' = Launcher!Written(at[p], p, captured[p]) /\ makers' = makers
        /\ at' = [at EXCEPT ![p] = Launcher!AfterFile(at[p])]
        /\ UNCHANGED <<dns, moves, receipt, contacted, moved>>
    BY <1>10 DEF Launcher!WriteFile
  <2>2. /\ \A f : f = at[p] \/ Wrote(p, f) => Wrote(p, f)'
        /\ makers \subseteq Launches /\ \A u, v \in makers : version[u] = version[v] => u = v
        /\ \A q \in makers : version[q] = "v0_2" => (DOMAIN bundle = Launcher!Files)'
        /\ version[p] = "v0_1" /\ p \in makers
        /\ \A q \in Launches : q # p => /\ at[q] \notin Launcher!Files
                                        /\ at[q] \in Finished => ~Undisturbed(q)'
    BY <2>1, FileWritten
  <2>3. \/ at[p] = "raw" /\ at'[p] = "normalized"
        \/ at[p] = "normalized" /\ at'[p] = "snapshot"
        \/ at[p] = "snapshot" /\ at'[p] = "replay"
    BY <2>1 DEF Launcher!AfterFile, Launcher!Files
  <2>4. LaunchMakers'
    BY <2>1, <2>2, <2>3 DEF LaunchMakers, Finished
  <2>5. LaunchOwns'
    <3>1. ASSUME NEW q \in Launches, q # p
          PROVE  at'[q] = at[q] /\ at'[q] \notin Launcher!Files /\ (at'[q] \in Finished => ~Undisturbed(q)')
      BY <2>1, <2>2, <3>1
    <3>2. /\ at'[p] = "normalized" => Wrote(p, "raw")'
          /\ at'[p] = "snapshot" => Wrote(p, "raw")' /\ Wrote(p, "normalized")'
          /\ at'[p] = "replay" => \A f \in Launcher!Files : Wrote(p, f)'
      BY <2>2, <2>3 DEF LaunchOwns, Launcher!Files
    <3> QED
      BY <2>3, <3>1, <3>2 DEF LaunchOwns, Finished, Launcher!Files
  <2>6. LaunchShape' /\ LaunchSees'
    <3>1. Launcher!AfterFile(at[p]) \in Launcher!Files \cup {"replay"}
      BY DEF Launcher!AfterFile, Launcher!Files
    <3> QED
      BY <1>8, <2>1, <3>1
  <2> QED
    BY <2>4, <2>5, <2>6
<1>11. ASSUME NEW p \in Launches, Launcher!WriteFails(p) PROVE LaunchInv'
  <2>1. CASE bundle' = bundle
    BY <1>4, <1>11, <2>1 DEF Launcher!WriteFails
  <2>2. CASE bundle' = Launcher!Written(at[p], p, Launcher!None)
    <3>1. /\ at[p] \in Launcher!Files /\ makers' = makers /\ at' = [at EXCEPT ![p] = "rollback"]
          /\ UNCHANGED <<dns, moves, receipt>>
          /\ contacted' = [contacted EXCEPT ![p] = Launcher!None] /\ moved' = [moved EXCEPT ![p] = 0]
      BY <1>11 DEF Launcher!WriteFails
    <3>2. /\ makers \subseteq Launches /\ \A u, v \in makers : version[u] = version[v] => u = v
          /\ \A q \in makers : version[q] = "v0_2" => (DOMAIN bundle = Launcher!Files)'
          /\ \A q \in Launches : q # p => /\ at[q] \notin Launcher!Files
                                          /\ at[q] \in Finished => ~Undisturbed(q)'
      BY <2>2, <3>1, FileWritten
    <3>3. LaunchShape' /\ LaunchSees'
      BY <3>1 DEF LaunchSees, Launcher!Running, Launcher!Files
    <3>4. LaunchMakers'
      BY <3>1, <3>2 DEF LaunchMakers, Finished, Launcher!Files
    <3>5. LaunchOwns'
      BY <3>1, <3>2 DEF LaunchOwns, Finished, Launcher!Files
    <3> QED
      BY <3>3, <3>4, <3>5
  <2> QED
    BY <1>11, <2>1, <2>2 DEF Launcher!WriteFails
<1>12. ASSUME NEW p \in Launches, NEW body, Launcher!Stage(p, body) PROVE LaunchInv'
  <2>1. /\ at[p] = "fetched" /\ version[p] = "v0_2" /\ at' = [at EXCEPT ![p] = "staged"]
        /\ UNCHANGED <<dns, moves, receipt, makers, bundle, contacted, moved>>
    BY <1>12 DEF Launcher!Stage
  <2>2. LaunchMakers' /\ LaunchOwns'
    BY <2>1, DirectoryKept
  <2>3. LaunchShape' /\ LaunchSees'
    BY <1>8, <2>1 DEF Launcher!Files
  <2> QED
    BY <2>2, <2>3
<1>13. ASSUME NEW p \in Launches, Launcher!Replace(p) PROVE LaunchInv'
  <2>1. /\ at[p] = "staged" /\ DOMAIN bundle = {} /\ makers' = makers \cup {p}
        /\ bundle' = [f \in Launcher!Files |-> [by |-> p, body |-> captured[p]]]
        /\ at' = [at EXCEPT ![p] = "replay"] /\ UNCHANGED <<dns, moves, receipt, contacted, moved>>
    BY <1>13 DEF Launcher!Replace
  <2>2. version[p] = "v0_2" /\ \A q \in makers : version[q] = "v0_1"
    BY <2>1 DEF LaunchMakers, Launcher!Files
  <2>3. DOMAIN bundle' = Launcher!Files /\ \A f \in Launcher!Files : Wrote(p, f)'
    BY <2>1 DEF Wrote
  <2>4. \A q \in Launches : q # p => at'[q] = at[q]
    BY <2>1
  <2>5. ASSUME NEW q \in Launches, q # p
        PROVE  at[q] \notin {"normalized", "snapshot"} /\ (at[q] \in Finished => ~Undisturbed(q)')
    <3>1. \A f : ~Wrote(q, f)
      BY <2>1 DEF Wrote
    <3>2. at[q] \notin {"normalized", "snapshot"}
      BY <3>1 DEF LaunchOwns
    <3>3. at[q] \in Finished => ~Undisturbed(q)
      BY <3>1 DEF LaunchOwns, Launcher!Files
    <3> QED
      BY <2>1, <3>2, <3>3 DEF Undisturbed
  <2>6. LaunchMakers'
    BY <2>1, <2>2, <2>3, <2>4 DEF LaunchMakers, Finished, Launcher!Files
  <2>7. LaunchOwns'
    BY <2>1, <2>3, <2>4, <2>5 DEF LaunchOwns, Finished
  <2>8. LaunchShape' /\ LaunchSees'
    BY <1>8, <2>1
  <2> QED
    BY <2>6, <2>7, <2>8
<1>14. ASSUME NEW p \in Launches, NEW late, NEW torn, Launcher!Replay(p, late, torn) PROVE LaunchInv'
  <2>1. CASE Launcher!GoesOn(p, "verify") /\ Launcher!Replays(p)
    <3>1. /\ at[p] = "replay" /\ at' = [at EXCEPT ![p] = "verify"]
          /\ UNCHANGED <<dns, moves, receipt, makers, bundle, contacted, moved>>
      BY <1>14, <2>1 DEF Launcher!Replay
    <3>2. LaunchMakers' /\ LaunchOwns'
      BY <2>1, <3>1, DirectoryKept
    <3>3. LaunchShape' /\ LaunchSees'
      BY <3>1 DEF LaunchSees, Launcher!Running
    <3> QED
      BY <3>2, <3>3
  <2>2. CASE Launcher!RollsBack(p, "operator_abort")
    BY <1>4, <1>14, <2>2 DEF Launcher!Replay
  <2> QED
    BY <1>14, <2>1, <2>2 DEF Launcher!Replay
<1>15. ASSUME NEW p \in Launches, NEW torn, Launcher!Verify(p, torn) PROVE LaunchInv'
  <2>1. CASE Launcher!GoesOn(p, "pass") /\ Launcher!ReceiptCurrent(receipt.document, Source, dns)
    <3>1. /\ at[p] = "verify" /\ at' = [at EXCEPT ![p] = "pass"]
          /\ UNCHANGED <<dns, moves, receipt, makers, bundle, contacted, moved>>
      BY <1>15, <2>1 DEF Launcher!Verify
    <3>2. LaunchMakers' /\ LaunchOwns'
      BY <3>1, DirectoryKept
    <3>3. dns = receipt.document.addresses
      BY <2>1 DEF Launcher!ReceiptCurrent
    <3>4. LaunchShape' /\ LaunchSees'
      BY <3>1, <3>3 DEF LaunchSees, Launcher!Running
    <3> QED
      BY <3>2, <3>4
  <2>2. CASE Launcher!RollsBack(p, "dns_policy_failure")
    BY <1>4, <1>15, <2>2 DEF Launcher!Verify
  <2> QED
    BY <1>15, <2>1, <2>2 DEF Launcher!Verify
<1>16. ASSUME NEW p \in Launches,
              \/ Launcher!PreflightFails(p) \/ Launcher!CaptureFails(p) \/ Launcher!StageFails(p)
       PROVE  LaunchInv'
  <2>1. (\E t : Launcher!RollsBack(p, t)) /\ UNCHANGED <<dns, moves, receipt, makers, bundle>>
    BY <1>16 DEF Launcher!PreflightFails, Launcher!CaptureFails, Launcher!StageFails
  <2> QED
    BY <1>4, <2>1
<1>17. ASSUME NEW p \in Launches, Launcher!WriteRollback(p) PROVE LaunchInv'
  <2>1. PICK where \in {"rolled_back", "escaped"} :
          at' = [at EXCEPT ![p] = where] /\ UNCHANGED <<dns, moves, receipt, makers, bundle, contacted, moved>>
    BY <1>17 DEF Launcher!WriteRollback
  <2> QED
    BY <1>3, <2>1 DEF Launcher!Running, Launcher!Files, Finished
<1> HIDE DEF LaunchInv
<1>18. CASE Launcher!Next
  <2>1. CASE \E answer \in SUBSET Addresses : Launcher!Move(answer)
    BY <1>2, <2>1
  <2>2. ASSUME NEW p \in Launches,
               \/ \E e \in Launcher!Switches : Launcher!Launch(p, e)
               \/ Launcher!Preflight(p) \/ Launcher!PreflightFails(p)
               \/ \E a \in Addresses : Launcher!Contact(p, a)
               \/ Launcher!CaptureFails(p)
               \/ \E body \in Bodies : Launcher!MakeDirectory(p, body) \/ Launcher!Stage(p, body)
               \/ Launcher!WriteFile(p) \/ Launcher!WriteFails(p)
               \/ Launcher!Replace(p) \/ Launcher!StageFails(p)
               \/ \E late, torn \in BOOLEAN : Launcher!Replay(p, late, torn)
               \/ \E torn \in BOOLEAN : Launcher!Verify(p, torn)
               \/ Launcher!WriteRollback(p)
        PROVE  LaunchInv'
    BY <1>5, <1>6, <1>7, <1>9, <1>10, <1>11, <1>12, <1>13, <1>14, <1>15, <1>16, <1>17, <2>2, Zenon
  <2> QED
    BY <1>18, <2>1, <2>2, Zenon DEF Launcher!Next
<1> QED
  BY <1>1, <1>18 DEF Next, vars

(* Of the launches of one version into one run directory at most one passes, *)
(* and it finds the bundle it captured, unless a launch of the other version *)
(* made the directory as well (scripts/run_gate1_read_only_capture_*.sh).    *)
THEOREM PassesOwnBundles == Spec => []PassOwnsBundle
<1>1. LaunchInv => PassOwnsBundle
  <2> SUFFICES ASSUME LaunchInv PROVE PassOwnsBundle
    OBVIOUS
  <2>1. \A p, q \in Launches : at[p] = "pass" /\ at[q] = "pass" /\ version[p] = version[q] => p = q
    BY DEF LaunchInv, LaunchMakers, Finished
  <2>2. ASSUME NEW p \in Launches, at[p] = "pass", Undisturbed(p) PROVE Launcher!Owns(p)
    BY <2>2 DEF LaunchInv, LaunchOwns, Wrote, Finished, Launcher!Owns
  <2>3. ASSUME NEW p \in Launches, ~Undisturbed(p)
        PROVE  version[p] = "v0_2" /\ \E q \in makers : version[q] = "v0_1"
    BY <2>3 DEF Undisturbed, LaunchInv, LaunchShape
  <2> QED
    BY <2>1, <2>2, <2>3, Zenon DEF PassOwnsBundle, Launcher!PassOwnsBundle
<1> QED
  BY LaunchInit, LaunchStep, <1>1, PTL DEF Spec

(* A launch that passes with its own receipt connected to an address the    *)
(* receipt records, unless the resolver changed its answer there and back.  *)
THEOREM DriftNeverPasses == Spec => []DriftCaught
<1>1. LaunchInv => DriftCaught
  BY DEF LaunchInv, LaunchSees, DriftCaught, Launcher!DriftCaught
<1> QED
  BY LaunchInit, LaunchStep, <1>1, PTL DEF Spec
=============================================================================
