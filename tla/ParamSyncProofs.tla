-------------------------- MODULE ParamSyncProofs --------------------------
(***************************************************************************)
(* What ParamSync.tla promises for every range and step of the parameter,  *)
(* every size of the ring and every rhythm of the window's loop.           *)
(***************************************************************************)
EXTENDS ParamSync, TLAPS

-----------------------------------------------------------------------------
(* Rounding.                                                               *)

\* A multiple of the step has no remainder.
LEMMA MultipleHasNoRest ==
    ASSUME NEW s \in Nat, s >= 1, NEW q \in Nat
    PROVE  (s * q) % s = 0
BY Z3

\* A value below a multiple t of s is a multiple of s and a remainder, and if
\* it has one the next multiple is not above t.
LEMMA Neighbours ==
    ASSUME NEW s \in Nat, s >= 1, NEW t \in Nat, t % s = 0,
           NEW v \in Nat, v <= t, NEW o, o = v % s
    PROVE  /\ v - o \in 0 .. t /\ (v - o) % s = 0
           /\ o # 0 => v - o + s \in 0 .. t /\ (v - o + s) % s = 0
<1> DEFINE q == v \div s
<1> DEFINE k == t \div s
<1> DEFINE z == t % s
<1>1. q \in Int /\ o \in 0 .. s - 1 /\ v = s * q + o
  BY Z3
<1>2. k \in Int /\ z \in 0 .. s - 1 /\ t = s * k + z
  BY Z3
<1>3. z = 0
  OBVIOUS
<1> HIDE DEF q, k, z
<1>4. q \in Nat
  <2>1. q >= 0
    BY <1>1, Z3
  <2> QED
    BY <1>1, <2>1
<1>5. v - o = s * q /\ s * q \in Nat /\ s * q <= t
  BY <1>1, <1>4, Z3
<1>6. (v - o) % s = 0
  BY <1>4, <1>5, MultipleHasNoRest
<1>7. ASSUME o # 0
      PROVE  v - o + s \in 0 .. t /\ (v - o + s) % s = 0
  <2>1. t = s * k
    BY <1>2, <1>3, Z3
  <2>2. q < k
    BY <1>1, <1>2, <1>7, <2>1, Z3
  <2>3. v - o + s = s * (q + 1) /\ q + 1 \in Nat
    BY <1>1, <1>4, Z3
  <2>4. s * (q + 1) \in Nat /\ s * (q + 1) <= t
    BY <1>2, <1>4, <2>1, <2>2, Z3
  <2> QED
    BY <2>3, <2>4, MultipleHasNoRest
<1> QED
  BY <1>5, <1>6, <1>7

\* The rack's rounding stays within the range and ends on a step.
LEMMA SnapLands ==
    ASSUME NEW v \in Values
    PROVE  Snap(v) \in Values /\ Snap(v) % Step = 0
<1>1. /\ Step \in Nat /\ Step >= 1 /\ Top \in Nat /\ Top % Step = 0
      /\ v \in Nat /\ v <= Top
  BY ParameterRange DEF Values
<1>2. PICK o : o = v % Step
  OBVIOUS
<1>3. /\ v - o \in Values /\ (v - o) % Step = 0
      /\ o # 0 => v - o + Step \in Values /\ (v - o + Step) % Step = 0
  BY <1>1, <1>2, Neighbours DEF Values
<1>4. Snap(v) = IF 2 * o >= Step /\ o # 0 THEN v - o + Step ELSE v - o
  BY <1>2 DEF Snap
<1> QED
  BY <1>3, <1>4

\* Rounding leaves alone what is on a step already.
LEMMA SnapKeepsSteps ==
    ASSUME NEW v \in Values, v % Step = 0
    PROVE  Snap(v) = v
<1>1. v \in Nat /\ Step \in Nat /\ Step >= 1
  BY ParameterRange DEF Values
<1> QED
  BY <1>1 DEF Snap

LEMMA SnapTwice ==
    ASSUME NEW v \in Values
    PROVE  Snap(v) \in Values /\ Snap(Snap(v)) = Snap(v)
BY SnapLands, SnapKeepsSteps

-----------------------------------------------------------------------------
(* The ends of a queue.                                                    *)

LEMMA LastOfQueue ==
    ASSUME NEW s \in Seq(Values), s # <<>>
    PROVE  Last(s) \in Values /\ Head(s) \in Values /\ Tail(s) \in Seq(Values)
BY DEF Last

LEMMA LastAppended ==
    ASSUME NEW s \in Seq(Values), NEW v \in Values
    PROVE  /\ Append(s, v) \in Seq(Values) /\ Append(s, v) # <<>>
           /\ Last(Append(s, v)) = v /\ Len(Append(s, v)) = Len(s) + 1
BY DEF Last

\* Taking the head of a queue either empties it, and then the head was the
\* last, or leaves its last element in place.
LEMMA LastAfterHead ==
    ASSUME NEW s \in Seq(Values), s # <<>>
    PROVE  IF Tail(s) = <<>> THEN Head(s) = Last(s) ELSE Last(Tail(s)) = Last(s)
<1> DEFINE n == Len(s)
<1> DEFINE r == Tail(s)
<1>1. n \in Nat /\ n >= 1 /\ r \in Seq(Values) /\ Len(r) = n - 1
  OBVIOUS
<1>2. \A i \in 1 .. n - 1 : r[i] = s[i + 1]
  OBVIOUS
<1>3. Last(s) = s[n] /\ Last(r) = r[Len(r)] /\ Head(s) = s[1]
  BY DEF Last
<1> HIDE DEF n, r
<1>4. CASE n = 1
  <2>1. r = <<>>
    BY <1>1, <1>4
  <2> QED
    BY <2>1, <1>3, <1>4 DEF r
<1>5. CASE n > 1
  <2>1. r # <<>>
    BY <1>1, <1>5
  <2>2. n - 1 \in 1 .. n - 1 /\ (n - 1) + 1 = n
    BY <1>1, <1>5
  <2>3. r[n - 1] = s[n]
    BY <1>2, <2>2
  <2> QED
    BY <2>1, <2>3, <1>1, <1>3 DEF r
<1> QED
  BY <1>1, <1>4, <1>5

-----------------------------------------------------------------------------
(* Types.                                                                  *)

LEMMA CycleType == Cycle \in Nat /\ Cycle >= 1
<1>1. PollTicks \in Nat /\ PollTicks >= 1 /\ FeedbackTicks \in Nat /\ FeedbackTicks >= 1
  BY Rhythm
<1> QED
  BY <1>1, Z3 DEF Cycle

LEMMA NextTick ==
    ASSUME NEW t \in 0 .. (Cycle - 1)
    PROVE  (t + 1) % Cycle \in 0 .. (Cycle - 1)
<1> DEFINE c == Cycle
<1>1. c \in Nat /\ c >= 1 /\ t \in Nat
  BY CycleType
<1> HIDE DEF c
<1>2. (t + 1) % c \in 0 .. (c - 1)
  BY <1>1, Z3
<1> QED
  BY <1>2 DEF c

LEMMA InitTypes == Init => TypeOK
<1> SUFFICES ASSUME Init PROVE TypeOK
  OBVIOUS
<1>1. <<>> \in Seq(Values) /\ Len(<<>>) = 0
  OBVIOUS
<1>2. 0 \in 0 .. (Cycle - 1) /\ 0 \in 0 .. MaxGestures /\ 0 <= Capacity
  BY CycleType, Rhythm
<1> QED
  BY <1>1, <1>2, ParameterRange DEF Init, TypeOK

\* What the frame takes from the window's reports is a value.
LEMMA FeedbackTypes ==
    ASSUME TypeOK
    PROVE  /\ ApplyFeedback(feedback).rack \in Values
           /\ ApplyFeedback(feedback).pending \in Values \cup {None}
<1>1. CASE feedback = <<>> \/ dragging
  BY <1>1 DEF ApplyFeedback, TypeOK
<1>2. CASE ~(feedback = <<>> \/ dragging)
  <2>1. Last(feedback) \in Values
    BY <1>2, LastOfQueue DEF TypeOK
  <2>2. Snap(Last(feedback)) \in Values
    BY <2>1, SnapLands
  <2> QED
    BY <1>2, <2>1, <2>2 DEF ApplyFeedback
<1> QED
  BY <1>1, <1>2

\* No step leaves the types.
LEMMA StepTypes == TypeOK /\ [Next]_vars => TypeOK'
<1> SUFFICES ASSUME TypeOK, [Next]_vars PROVE TypeOK'
  OBVIOUS
<1> USE DEF TypeOK
<1>1. ASSUME NEW v \in Values, CommitExternalParam(v) PROVE TypeOK'
  <2>1. rack' \in Values /\ pending' \in Values /\ Snap(v) \in Values
    BY <1>1, SnapLands DEF CommitExternalParam
  <2>2. toWindow' \in Seq(Values)
    BY <1>1, <2>1, LastAppended DEF CommitExternalParam
  <2>3. gestures' \in 0 .. MaxGestures /\ hand' = "rack" /\ crossed' \in BOOLEAN
    BY <1>1, Rhythm DEF CommitExternalParam, Turned, Settled, Arriving, Leaving
  <2> QED
    BY <1>1, <2>1, <2>2, <2>3
       DEF CommitExternalParam, engineVars, windowVars
<1>2. ASSUME NEW held \in BOOLEAN, Hold(held) PROVE TypeOK'
  <2>1. crossed' \in BOOLEAN
    BY <1>2 DEF Hold
  <2> QED
    BY <1>2, <2>1 DEF Hold, engineVars, windowVars
<1>3. ASSUME NEW v \in Values, EditorTurn(v) PROVE TypeOK'
  <2>1. gestures' \in 0 .. MaxGestures /\ hand' = "editor" /\ crossed' \in BOOLEAN
    BY <1>3, Rhythm DEF EditorTurn, Turned
  <2> QED
    BY <1>3, <2>1 DEF EditorTurn, rackVars, engineVars
<1>4. CASE OpenEditor
  <2>1. tick' \in 0 .. (Cycle - 1)
    BY <1>4, CycleType DEF OpenEditor
  <2>2. toWindow' \in Seq(Values) /\ editor' \in Values /\ crossed' \in BOOLEAN
    BY <1>4, ParameterRange DEF OpenEditor
  <2> QED
    BY <1>4, <2>1, <2>2 DEF OpenEditor, rackVars, engineVars
<1>5. CASE CloseEditor
  <2>1. toWindow' = <<>> /\ open' = FALSE
    BY <1>5 DEF CloseEditor
  <2>2. toWindow' \in Seq(Values)
    BY <2>1
  <2>3. open' \in BOOLEAN
    BY <2>1, Zenon
  <2> QED
    BY <1>5, <2>2, <2>3 DEF CloseEditor, rackVars, engineVars, userVars
<1>6. CASE ToggleTransport
  BY <1>6 DEF ToggleTransport, rackVars, windowVars, userVars
<1>7. CASE Frame
  <2>1. rack' \in Values /\ commands' \in Seq(Values)
    BY <1>7, FeedbackTypes, LastAppended DEF Frame
  <2>2. pending' = None /\ feedback' \in Seq(Values)
    BY <1>7 DEF Frame
  <2> QED
    BY <1>7, <2>1, <2>2 DEF Frame, windowVars, userVars
<1>8. CASE SetParamNormalized
  <2>1. commands' \in Seq(Values) /\ Head(commands) \in Values
    BY <1>8, LastOfQueue DEF SetParamNormalized
  <2>2. engine' \in Values /\ dropped' \in BOOLEAN
    BY <1>8, <2>1 DEF SetParamNormalized
  <2>3. ring' \in Seq(Values) /\ Len(ring') <= Capacity
    <3>1. CASE ring' = ring
      BY <3>1
    <3>2. CASE Len(ring) < Capacity /\ ring' = Append(ring, Head(commands))
      BY <3>2, <2>1, LastAppended, Rhythm
    <3> QED
      BY <1>8, <3>1, <3>2 DEF SetParamNormalized
  <2> QED
    BY <1>8, <2>1, <2>2, <2>3
       DEF SetParamNormalized, rackVars, windowVars, userVars
<1>9. CASE Block
  <2>1. engine' \in Values
    BY <1>9, LastOfQueue DEF Block
  <2>2. ring' \in Seq(Values) /\ Len(ring') <= Capacity /\ sounding' \in BOOLEAN
    BY <1>9, Rhythm DEF Block
  <2> QED
    BY <1>9, <2>1, <2>2 DEF Block, rackVars, windowVars, userVars
<1>10. CASE Tick
  <2>1. toWindow # <<>> => Last(toWindow) \in Values
    BY LastOfQueue
  <2>2. editor' \in Values /\ hostSent' \in Values \cup {None}
    BY <1>10, <2>1 DEF Tick
  <2>3. seen' \in Values \cup {None}
    BY <1>10, <2>2 DEF Tick
  <2>4. PICK moved \in Seq(Values), echo \in Seq(Values) :
          feedback' = feedback \o moved \o echo
    <3>1. \A v \in Values : <<v>> \in Seq(Values)
      OBVIOUS
    <3>2. <<>> \in Seq(Values)
      OBVIOUS
    <3>3. PollParamChanges(editor', hostSent') \in Seq(Values)
      BY <2>2, <3>1, <3>2 DEF PollParamChanges
    <3> QED
      BY <1>10, <2>2, <3>1, <3>2, <3>3 DEF Tick
  <2>5. feedback' \in Seq(Values)
    BY <2>4
  <2>6. tick' \in 0 .. (Cycle - 1)
    BY <1>10, NextTick DEF Tick
  <2>7. toWindow' \in Seq(Values)
    BY <1>10 DEF Tick
  <2> QED
    BY <1>10, <2>2, <2>3, <2>5, <2>6, <2>7 DEF Tick, rackVars, engineVars, userVars
<1>11. CASE UNCHANGED vars
  BY <1>11 DEF vars, rackVars, engineVars, windowVars, userVars
<1> QED
  BY <1>1, <1>2, <1>3, <1>4, <1>5, <1>6, <1>7, <1>8, <1>9, <1>10, <1>11
     DEF Next, User

\* No queue, instance or history ever leaves its type, and the ring never
\* holds more than it has places (hikaru_clap_launcher.rs: rtrb refuses).
THEOREM TypeCorrect == Spec => []TypeOK
BY InitTypes, StepTypes, PTL DEF Spec

-----------------------------------------------------------------------------
(* The engine is on its way to the knob's value.                           *)

\* EngineHearsRack is inductive once a ring is known to be empty before the
\* instance has sounded: until then values bypass the ring.
OnItsWay ==
  /\ TypeOK
  /\ ~sounding => ring = <<>>
  /\ EngineHearsRack

LEMMA InitOnItsWay == Init => OnItsWay
<1> SUFFICES ASSUME Init PROVE OnItsWay
  OBVIOUS
<1>1. Snap(Default) = Default
  BY ParameterRange, DefaultOnAStep, SnapKeepsSteps
<1>2. WillPlay = Default /\ rack = Default /\ ring = <<>>
  BY DEF Init, WillPlay
<1> QED
  BY <1>1, <1>2, InitTypes DEF OnItsWay, EngineHearsRack

\* Steps that touch neither the knob nor what lies between it and the engine.
LEMMA ElsewhereOnItsWay ==
    ASSUME OnItsWay, TypeOK',
           UNCHANGED <<rack, pending, commands, ring, engine, sounding, dropped>>
    PROVE  OnItsWay'
BY DEF OnItsWay, EngineHearsRack, WillPlay

\* The command thread and the audio callback bring a value nearer, or lose it
\* to a full ring.
LEMMA SentOnItsWay ==
    ASSUME OnItsWay, SetParamNormalized, ~dropped'
    PROVE  /\ ~dropped /\ WillPlay' = WillPlay /\ (~sounding => ring' = <<>>)
           /\ UNCHANGED <<rack, sounding>>
<1>0. TypeOK
  BY DEF OnItsWay
<1>1. /\ commands # <<>> /\ commands' = Tail(commands)
      /\ UNCHANGED <<rack, pending, sounding>>
  BY DEF SetParamNormalized, rackVars
<1>2. /\ commands \in Seq(Values) /\ Head(commands) \in Values
      /\ ring \in Seq(Values)
  BY <1>0, <1>1, LastOfQueue DEF TypeOK
<1>3. IF Tail(commands) = <<>> THEN Head(commands) = Last(commands)
      ELSE Last(Tail(commands)) = Last(commands)
  BY <1>1, <1>2, LastAfterHead
<1>4. CASE ~sounding /\ engine' = Head(commands) /\ UNCHANGED <<ring, dropped>>
  <2>1. ring' = <<>>
    BY <1>4 DEF OnItsWay
  <2>2. WillPlay' = WillPlay
    BY <1>1, <1>3, <1>4, <2>1 DEF WillPlay
  <2> QED
    BY <1>1, <1>4, <2>1, <2>2
<1>5. CASE /\ sounding /\ UNCHANGED <<engine, dropped>>
           /\ ring' = Append(ring, Head(commands))
  <2>1. ring' # <<>> /\ Last(ring') = Head(commands)
    BY <1>2, <1>5, LastAppended
  <2>2. WillPlay' = WillPlay
    BY <1>1, <1>3, <1>5, <2>1 DEF WillPlay
  <2> QED
    BY <1>1, <1>5, <2>2
<1>6. ~(sounding /\ dropped' = TRUE)
  OBVIOUS
<1> QED
  BY <1>0, <1>4, <1>5, <1>6 DEF SetParamNormalized, TypeOK

LEMMA BlockOnItsWay ==
    ASSUME Block
    PROVE  /\ WillPlay' = WillPlay /\ ring' = <<>>
           /\ UNCHANGED <<rack, dropped>>
BY DEF Block, rackVars, WillPlay

LEMMA StepOnItsWay == OnItsWay /\ [Next]_vars => OnItsWay'
<1> SUFFICES ASSUME OnItsWay, [Next]_vars PROVE OnItsWay'
  OBVIOUS
<1>0. TypeOK /\ TypeOK'
  BY StepTypes DEF OnItsWay
<1>1. ASSUME NEW v \in Values, CommitExternalParam(v) PROVE OnItsWay'
  <2>1. rack' = Snap(v) /\ pending' = Snap(v) /\ pending' # None
    BY <1>1, SnapLands, ParameterRange DEF CommitExternalParam
  <2>2. Snap(WillPlay') = rack'
    BY <2>1, SnapTwice DEF WillPlay
  <2>3. UNCHANGED <<ring, sounding>>
    BY <1>1 DEF CommitExternalParam, engineVars
  <2> QED
    BY <1>0, <2>2, <2>3 DEF OnItsWay, EngineHearsRack
<1>2. ASSUME NEW held \in BOOLEAN, Hold(held) PROVE OnItsWay'
  BY <1>0, <1>2, ElsewhereOnItsWay DEF Hold, engineVars
<1>3. ASSUME NEW v \in Values, EditorTurn(v) PROVE OnItsWay'
  BY <1>0, <1>3, ElsewhereOnItsWay DEF EditorTurn, rackVars, engineVars
<1>4. CASE OpenEditor
  BY <1>0, <1>4, ElsewhereOnItsWay DEF OpenEditor, rackVars, engineVars
<1>5. CASE CloseEditor
  BY <1>0, <1>5, ElsewhereOnItsWay DEF CloseEditor, rackVars, engineVars
<1>6. CASE ToggleTransport
  BY <1>0, <1>6, ElsewhereOnItsWay DEF ToggleTransport, rackVars
<1>7. CASE Frame
  <2> DEFINE applied == ApplyFeedback(feedback)
  <2>1. applied.pending \in Values \cup {None} /\ None \notin Values
    BY <1>0, FeedbackTypes, ParameterRange
  <2>2. /\ rack' = applied.rack /\ pending' = None
        /\ commands' = IF applied.pending = None THEN commands
                       ELSE Append(commands, applied.pending)
        /\ UNCHANGED <<ring, engine, sounding, dropped>>
    BY <1>7 DEF Frame
  <2>3. CASE applied.pending = None
    <3>1. applied = [rack |-> rack, pending |-> pending]
      <4>1. CASE feedback = <<>> \/ dragging
        BY <4>1 DEF ApplyFeedback
      <4>2. CASE ~(feedback = <<>> \/ dragging)
        <5>1. Last(feedback) \in Values /\ applied.pending = Last(feedback)
          BY <1>0, <4>2, LastOfQueue DEF ApplyFeedback, TypeOK
        <5> QED
          BY <2>1, <2>3, <5>1
      <4> QED
        BY <4>1, <4>2
    <3>2. rack' = rack /\ pending = None /\ commands' = commands
      BY <2>2, <2>3, <3>1
    <3> QED
      BY <1>0, <2>2, <3>2, ElsewhereOnItsWay
  <2>4. CASE applied.pending # None
    <3>1. ~dropped => Snap(applied.pending) = applied.rack
      <4>1. CASE feedback = <<>> \/ dragging
        <5>1. applied = [rack |-> rack, pending |-> pending]
          BY <4>1 DEF ApplyFeedback
        <5> QED
          BY <2>4, <5>1 DEF OnItsWay, EngineHearsRack, WillPlay
      <4>2. CASE ~(feedback = <<>> \/ dragging)
        BY <4>2 DEF ApplyFeedback
      <4> QED
        BY <4>1, <4>2
    <3>2. commands' # <<>> /\ Last(commands') = applied.pending
      BY <1>0, <2>1, <2>2, <2>4, LastAppended DEF TypeOK
    <3>3. WillPlay' = applied.pending
      BY <2>2, <3>2 DEF WillPlay
    <3> QED
      BY <1>0, <2>2, <3>1, <3>3 DEF OnItsWay, EngineHearsRack
  <2> QED
    BY <2>3, <2>4
<1>8. CASE SetParamNormalized
  <2>1. CASE ~dropped'
    BY <1>0, <1>8, <2>1, SentOnItsWay DEF OnItsWay, EngineHearsRack
  <2>2. CASE dropped'
    <3>1. ~sounding' => ring' = <<>>
      BY <1>8 DEF SetParamNormalized, OnItsWay
    <3> QED
      BY <1>0, <2>2, <3>1 DEF OnItsWay, EngineHearsRack
  <2> QED
    BY <2>1, <2>2
<1>9. CASE Block
  BY <1>0, <1>9, BlockOnItsWay DEF OnItsWay, EngineHearsRack
<1>10. CASE Tick
  BY <1>0, <1>10, ElsewhereOnItsWay DEF Tick, rackVars, engineVars
<1>11. CASE UNCHANGED vars
  BY <1>0, <1>11, ElsewhereOnItsWay DEF vars, rackVars, engineVars
<1> QED
  BY <1>1, <1>2, <1>3, <1>4, <1>5, <1>6, <1>7, <1>8, <1>9, <1>10, <1>11
     DEF Next, User

\* Whatever frame, command thread and audio callback have done so far, and
\* whatever the window reports, the instance that sounds is on its way to the
\* value of the knob unless a full ring refused a change.
THEOREM EngineOnItsWay == Spec => []EngineHearsRack
<1>1. OnItsWay => EngineHearsRack
  BY DEF OnItsWay
<1> QED
  BY <1>1, InitOnItsWay, StepOnItsWay, PTL DEF Spec

-----------------------------------------------------------------------------
(* The copies agree.  CopiesAgree speaks of the moments when nothing is    *)
(* travelling; Exchange says which value is travelling at all others.      *)

Agreed(v) == rack = Snap(v) /\ WillPlay = v

\* Where the value all three will hold is to be found: at the end of the
\* queue to the window, which no echo runs against; in the editor, once it
\* has taken that; at the end of the queue to the rack, once the window has
\* reported a turn of the editor's own.
Exchange ==
  (open /\ ~crossed /\ ~dropped) =>
    /\ toWindow # <<>> => /\ Agreed(Last(toWindow))
                          /\ dragging \/ feedback = <<>>
    /\ toWindow = <<>> /\ dragging => Masked \/ Agreed(editor)
    /\ toWindow = <<>> /\ ~dragging /\ editor = hostSent =>
         \/ Masked
         \/ Agreed(editor) /\ (feedback # <<>> => Last(feedback) = editor)
    /\ toWindow = <<>> /\ ~dragging /\ editor # hostSent =>
         /\ seen = None => Agreed(editor) /\ feedback = <<>>
         /\ seen \notin {None, hostSent} =>
              IF feedback = <<>> THEN Agreed(seen) ELSE Last(feedback) = seen

\* Steps of the engine's side.
LEMMA ElsewhereExchange ==
    ASSUME Exchange, ~dropped' => ~dropped /\ WillPlay' = WillPlay,
           UNCHANGED <<rack, dragging, windowVars, toWindow, feedback, userVars>>
    PROVE  Exchange'
BY DEF Exchange, Agreed, Masked, windowVars, userVars

LEMMA KnobExchange ==
    ASSUME TypeOK, Exchange, NEW v \in Values, CommitExternalParam(v)
    PROVE  Exchange'
<1> SUFFICES ASSUME open', ~crossed', ~dropped' PROVE Exchange'
  BY DEF Exchange
<1>1. /\ rack' = Snap(v) /\ pending' = Snap(v) /\ UNCHANGED <<open, dragging, feedback>>
      /\ toWindow' = Append(toWindow, Snap(v))
  BY DEF CommitExternalParam, windowVars
<1>2. Snap(v) \in Values /\ Snap(Snap(v)) = Snap(v) /\ Snap(v) # None
  BY SnapTwice, ParameterRange
<1>3. toWindow' # <<>> /\ Last(toWindow') = Snap(v)
  BY <1>1, <1>2, LastAppended DEF TypeOK
<1>4. Agreed(Last(toWindow))'
  BY <1>1, <1>2, <1>3 DEF Agreed, WillPlay
<1>5. dragging' \/ feedback' = <<>>
  <2>1. dragging \/ Settled
    BY <1>1, Zenon DEF CommitExternalParam, Turned
  <2> QED
    BY <1>1, <2>1 DEF Settled, Leaving
<1> QED
  BY <1>3, <1>4, <1>5 DEF Exchange

LEMMA HoldExchange ==
    ASSUME TypeOK, Exchange, NEW held \in BOOLEAN, Hold(held)
    PROVE  Exchange'
<1> SUFFICES ASSUME open', ~crossed', ~dropped' PROVE Exchange'
  BY DEF Exchange
<1>1. /\ UNCHANGED <<rack, pending, commands, ring, engine, dropped, open, editor, seen,
                     hostSent, toWindow, feedback, hand>>
      /\ dragging = ~held /\ dragging' = held
  BY DEF Hold, engineVars, windowVars
<1>2. ~crossed /\ Settled
  BY Zenon DEF Hold
<1>3. toWindow = <<>> /\ feedback = <<>> /\ seen = editor
  BY <1>1, <1>2 DEF Settled, Arriving, Leaving
<1>4. editor # None
  BY ParameterRange DEF TypeOK
<1>5. Masked \/ Agreed(editor)
  <2>1. open /\ ~dropped
    BY <1>1
  <2> QED
    BY <1>2, <1>3, <1>4, <2>1 DEF Exchange
<1>6. Masked' \/ Agreed(editor)'
  BY <1>1, <1>5 DEF Masked, Agreed, WillPlay
<1>7. /\ toWindow' = <<>> /\ feedback' = <<>> /\ seen' = editor' /\ editor' # None
      /\ Masked' => editor' = hostSent'
  BY <1>1, <1>3, <1>4 DEF Masked
<1> QED
  BY <1>6, <1>7 DEF Exchange

LEMMA EditorExchange ==
    ASSUME TypeOK, Exchange, NEW v \in Values, EditorTurn(v)
    PROVE  Exchange'
<1> SUFFICES ASSUME open', ~crossed', ~dropped' PROVE Exchange'
  BY DEF Exchange
<1>1. /\ UNCHANGED <<rack, pending, dragging, commands, ring, engine, dropped, open, seen,
                     hostSent, toWindow, feedback>>
      /\ editor' = v /\ hand' = "editor" /\ open /\ ~dropped
  BY DEF EditorTurn, Turned, rackVars, engineVars
<1>2. ~crossed /\ ~dragging /\ ~Arriving /\ seen # None
  BY Zenon DEF EditorTurn, Turned
<1>3. toWindow = <<>> /\ (editor = hostSent => seen = hostSent)
  BY <1>1, <1>2 DEF Arriving
<1>4. CASE v = hostSent
  <2>1. Masked' /\ toWindow' = <<>> /\ ~dragging' /\ editor' = hostSent'
    BY <1>1, <1>2, <1>3, <1>4 DEF Masked
  <2> QED
    BY <2>1 DEF Exchange
<1>5. CASE v # hostSent
  <2>1. seen # hostSent => IF feedback = <<>> THEN Agreed(seen) ELSE Last(feedback) = seen
    BY <1>1, <1>2, <1>3 DEF Exchange
  <2>2. seen' # hostSent' =>
          IF feedback' = <<>> THEN Agreed(seen)' ELSE Last(feedback') = seen'
    BY <1>1, <2>1 DEF Agreed, WillPlay
  <2>3. toWindow' = <<>> /\ ~dragging' /\ editor' # hostSent' /\ seen' # None
    BY <1>1, <1>2, <1>3, <1>5
  <2> QED
    BY <2>2, <2>3 DEF Exchange
<1> QED
  BY <1>4, <1>5

LEMMA OpenExchange ==
    ASSUME TypeOK, Exchange, OpenEditor
    PROVE  Exchange'
<1> SUFFICES ASSUME open', ~crossed', ~dropped' PROVE Exchange'
  BY DEF Exchange
<1>1. /\ UNCHANGED <<rack, pending, dragging, commands, ring, engine, feedback>>
      /\ editor' = Default /\ seen' = None /\ hostSent' = None /\ toWindow' = <<>>
  BY DEF OpenEditor, rackVars, engineVars
<1>2. /\ {rack, engine} = {Default} /\ Settled /\ pending = None /\ commands = <<>>
      /\ ring = <<>>
  BY Zenon DEF OpenEditor
<1>3. feedback = <<>> /\ rack = Default /\ engine = Default
  BY <1>2 DEF Settled, Leaving
<1>4. Default # None /\ Snap(Default) = Default
  BY ParameterRange, DefaultOnAStep, SnapKeepsSteps
<1>5. Agreed(editor)'
  BY <1>1, <1>2, <1>3, <1>4 DEF Agreed, WillPlay
<1> QED
  BY <1>1, <1>3, <1>4, <1>5 DEF Exchange

LEMMA FrameExchange ==
    ASSUME TypeOK, Exchange, Frame
    PROVE  Exchange'
<1> SUFFICES ASSUME open', ~crossed', ~dropped' PROVE Exchange'
  BY DEF Exchange
<1> DEFINE applied == ApplyFeedback(feedback)
<1>1. /\ UNCHANGED <<dragging, ring, engine, dropped, open, editor, seen, hostSent, toWindow,
                     hand, crossed>>
      /\ rack' = applied.rack /\ pending' = None /\ feedback' = <<>>
      /\ commands' = IF applied.pending = None THEN commands
                     ELSE Append(commands, applied.pending)
  BY DEF Frame, windowVars, userVars
<1>2. open /\ ~crossed /\ ~dropped
  BY <1>1
<1>3. applied.pending \in Values \cup {None} /\ None \notin Values
  BY FeedbackTypes, ParameterRange
<1>4. WillPlay' = IF applied.pending # None THEN applied.pending
                  ELSE IF commands # <<>> THEN Last(commands)
                  ELSE IF ring # <<>> THEN Last(ring) ELSE engine
  <2>1. CASE applied.pending = None
    BY <1>1, <2>1 DEF WillPlay
  <2>2. CASE applied.pending # None
    <3>1. commands' # <<>> /\ Last(commands') = applied.pending
      BY <1>1, <1>3, <2>2, LastAppended DEF TypeOK
    <3> QED
      BY <1>1, <2>2, <3>1 DEF WillPlay
  <2> QED
    BY <2>1, <2>2
<1>5. CASE feedback = <<>> \/ dragging
  <2>1. applied = [rack |-> rack, pending |-> pending]
    BY <1>5 DEF ApplyFeedback
  <2>2. rack' = rack /\ WillPlay' = WillPlay
    BY <1>1, <1>4, <2>1 DEF WillPlay
  <2> QED
    BY <1>1, <1>2, <1>5, <2>2 DEF Exchange, Agreed, Masked
<1>6. CASE feedback # <<>> /\ ~dragging
  <2>1. /\ applied = [rack |-> Snap(Last(feedback)), pending |-> Last(feedback)]
        /\ Last(feedback) \in Values
    BY <1>6, LastOfQueue DEF ApplyFeedback, TypeOK
  <2>2. rack' = Snap(Last(feedback)) /\ WillPlay' = Last(feedback)
    BY <1>1, <1>3, <1>4, <2>1
  <2>3. toWindow = <<>>
    BY <1>2, <1>6 DEF Exchange
  <2>4. CASE editor = hostSent
    <3>1. Masked \/ Last(feedback) = editor
      BY <1>2, <1>6, <2>3, <2>4 DEF Exchange
    <3>2. Masked' \/ Agreed(editor)'
      BY <1>1, <2>2, <3>1 DEF Masked, Agreed
    <3> QED
      BY <1>1, <1>6, <2>3, <2>4, <3>2 DEF Exchange
  <2>5. CASE editor # hostSent
    <3>1. seen # None /\ (seen # hostSent => Last(feedback) = seen)
      BY <1>2, <1>6, <2>3, <2>5 DEF Exchange
    <3>2. seen' # None /\ (seen' # hostSent' => Agreed(seen)')
      BY <1>1, <2>2, <3>1 DEF Agreed
    <3> QED
      BY <1>1, <1>6, <2>3, <2>5, <3>2 DEF Exchange
  <2> QED
    BY <2>4, <2>5
<1> QED
  BY <1>5, <1>6

\* What is reported last ends the queue to the rack.
LEMMA LastReported ==
    ASSUME NEW s \in Seq(Values), NEW t \in {<<>>} \cup {<<v>> : v \in Values}
    PROVE  /\ t = <<>> => s \o t = s
           /\ t # <<>> => s \o t # <<>> /\ Last(s \o t) = t[1]
<1>1. CASE t = <<>>
  BY <1>1
<1>2. CASE t \in {<<v>> : v \in Values}
  <2>1. PICK v \in Values : t = <<v>>
    BY <1>2
  <2>2. s \o t = Append(s, v)
    BY <2>1
  <2> QED
    BY <2>1, <2>2, LastAppended
<1> QED
  BY <1>1, <1>2

LEMMA TickExchange ==
    ASSUME TypeOK, TypeOK', Exchange, Tick
    PROVE  Exchange'
<1> SUFFICES ASSUME open', ~crossed', ~dropped' PROVE Exchange'
  BY DEF Exchange
<1> DEFINE value == IF toWindow = <<>> THEN editor ELSE Last(toWindow)
           sent  == IF toWindow = <<>> THEN hostSent ELSE Last(toWindow)
           polled == Polls(tick')
           moved == IF polled THEN PollParamChanges(value, sent) ELSE <<>>
           echoed == Echoes(tick') /\ toWindow # <<>>
           echo  == IF echoed THEN <<value>> ELSE <<>>
<1>1. /\ UNCHANGED <<open, rack, pending, dragging, commands, ring, engine, dropped, hand, crossed>>
      /\ editor' = value /\ hostSent' = sent /\ toWindow' = <<>>
      /\ seen' = IF polled THEN value ELSE seen
      /\ feedback' = feedback \o moved \o echo
  BY DEF Tick, rackVars, engineVars, userVars
<1>2. open /\ ~crossed /\ ~dropped /\ WillPlay' = WillPlay
  BY <1>1 DEF WillPlay
<1>3. feedback \in Seq(Values) /\ value \in Values /\ None \notin Values
  BY LastOfQueue, ParameterRange DEF TypeOK
<1>4. /\ moved = IF polled /\ seen # None /\ seen # value /\ sent # value THEN <<value>> ELSE <<>>
      /\ echoed => toWindow # <<>>
  BY DEF PollParamChanges
<1>5. /\ moved \in {<<>>} \cup {<<v>> : v \in Values}
      /\ echo \in {<<>>} \cup {<<v>> : v \in Values}
  BY <1>3, <1>4
<1> HIDE DEF polled, echoed
<1>6. CASE toWindow # <<>>
  <2>1. /\ value = Last(toWindow) /\ sent = value /\ moved = <<>>
    BY <1>4, <1>6
  <2>2. Agreed(editor)' /\ editor' = hostSent'
    BY <1>1, <1>2, <1>6, <2>1 DEF Exchange, Agreed
  <2>3. ~dragging => (feedback' # <<>> => Last(feedback') = editor')
    <3>1. ~dragging => feedback = <<>>
      BY <1>2, <1>6 DEF Exchange
    <3>2. feedback' = feedback \o echo
      <4>1. feedback \o moved = feedback
        BY <1>3, <1>5, <2>1, LastReported
      <4> HIDE DEF moved, echo
      <4> QED
        BY <1>1, <4>1
    <3>3. ASSUME ~dragging, echoed PROVE Last(feedback') = editor'
      <4>1. echo = <<value>> /\ <<value>> # <<>> /\ <<value>>[1] = value
        BY <3>3
      <4> HIDE DEF value, echo
      <4>2. Last(feedback \o echo) = value
        BY <1>3, <1>5, <4>1, LastReported
      <4> QED
        BY <1>1, <3>2, <4>2
    <3>4. ASSUME ~dragging, ~echoed PROVE feedback' = <<>>
      BY <3>1, <3>2, <3>4
    <3> QED
      BY <3>3, <3>4
  <2> QED
    BY <1>1, <2>2, <2>3 DEF Exchange
<1>7. CASE toWindow = <<>>
  <2>1. /\ value = editor /\ sent = hostSent /\ echo = <<>>
        /\ editor' = editor /\ hostSent' = hostSent
    BY <1>1, <1>4, <1>7
  <2>2. feedback' = feedback \o moved
    <3>0. moved \in Seq(Values)
      <4>1. moved = <<>> \/ moved = <<value>>
        BY <1>4
      <4> HIDE DEF moved, value
      <4>2. <<>> \in Seq(Values) /\ <<value>> \in Seq(Values)
        BY <1>3
      <4> QED
        BY <4>1, <4>2
    <3> HIDE DEF moved
    <3>1. feedback \o moved \in Seq(Values)
      BY <1>3, <3>0
    <3>2. (feedback \o moved) \o echo = feedback \o moved
      BY <1>5, <2>1, <3>1, LastReported
    <3> HIDE DEF echo
    <3> QED
      BY <1>1, <3>2
  <2>3. CASE dragging
    BY <1>1, <1>2, <1>7, <2>1, <2>3 DEF Exchange, Agreed, Masked
  <2>4. CASE ~dragging /\ editor = hostSent
    <3>1. feedback' = feedback
      BY <1>3, <1>4, <2>1, <2>2, <2>4
    <3> QED
      BY <1>1, <1>2, <1>7, <2>1, <2>4, <3>1 DEF Exchange, Agreed, Masked
  <2>5. CASE ~dragging /\ editor # hostSent
    <3>1. CASE moved = <<>>
      <4>1. feedback' = feedback
        BY <1>3, <2>2, <3>1
      <4>2. ~polled \/ seen = None \/ seen = editor
        BY <1>4, <2>1, <2>5, <3>1
      <4>3. CASE ~polled \/ seen = editor
        <5>1. seen' = seen
          BY <1>1, <2>1, <4>3
        <5> QED
          BY <1>1, <1>2, <1>7, <2>1, <2>5, <4>1, <5>1 DEF Exchange, Agreed
      <4>4. CASE polled /\ seen = None
        <5>1. seen' = editor /\ feedback' = <<>> /\ Agreed(editor)
          BY <1>1, <1>2, <1>7, <2>1, <2>5, <4>1, <4>4 DEF Exchange
        <5>2. Agreed(seen)' /\ seen' # None
          BY <1>1, <1>2, <1>3, <2>1, <5>1 DEF Agreed
        <5> QED
          BY <1>1, <2>1, <2>5, <5>1, <5>2 DEF Exchange
      <4> QED
        BY <4>2, <4>3, <4>4
    <3>2. CASE moved # <<>>
      <4>1. moved = <<editor>> /\ polled /\ seen' = editor /\ <<editor>>[1] = editor
        BY <1>1, <1>4, <2>1, <3>2
      <4>2. feedback' # <<>> /\ Last(feedback') = editor
        BY <1>3, <1>5, <2>2, <3>2, <4>1, LastReported
      <4>3. seen' # None
        BY <1>3, <2>1, <4>1
      <4> QED
        BY <1>1, <2>1, <2>5, <4>1, <4>2, <4>3 DEF Exchange
    <3> QED
      BY <3>1, <3>2
  <2> QED
    BY <2>3, <2>4, <2>5
<1> QED
  BY <1>6, <1>7

LEMMA StepExchange == OnItsWay /\ Exchange /\ [Next]_vars => Exchange'
<1> SUFFICES ASSUME OnItsWay, Exchange, [Next]_vars PROVE Exchange'
  OBVIOUS
<1>0. TypeOK /\ TypeOK'
  BY StepTypes DEF OnItsWay
<1>1. ASSUME NEW v \in Values, CommitExternalParam(v) PROVE Exchange'
  BY <1>0, <1>1, KnobExchange
<1>2. ASSUME NEW held \in BOOLEAN, Hold(held) PROVE Exchange'
  BY <1>0, <1>2, HoldExchange
<1>3. ASSUME NEW v \in Values, EditorTurn(v) PROVE Exchange'
  BY <1>0, <1>3, EditorExchange
<1>4. CASE OpenEditor
  BY <1>0, <1>4, OpenExchange
<1>5. CASE CloseEditor
  BY <1>5 DEF CloseEditor, Exchange
<1>6. CASE ToggleTransport
  BY <1>6, ElsewhereExchange DEF ToggleTransport, rackVars, WillPlay
<1>7. CASE Frame
  BY <1>0, <1>7, FrameExchange
<1>8. CASE SetParamNormalized
  BY <1>8, SentOnItsWay, ElsewhereExchange DEF SetParamNormalized, rackVars
<1>9. CASE Block
  BY <1>9, BlockOnItsWay, ElsewhereExchange DEF Block, rackVars
<1>10. CASE Tick
  BY <1>0, <1>10, TickExchange
<1>11. CASE UNCHANGED vars
  BY <1>11, ElsewhereExchange DEF vars, rackVars, engineVars, WillPlay
<1> QED
  BY <1>1, <1>2, <1>3, <1>4, <1>5, <1>6, <1>7, <1>8, <1>9, <1>10, <1>11
     DEF Next, User

\* Turns of either side that never cross leave knob, editor and engine on one
\* value once nothing travels, whatever the order of frames, polls, echoes,
\* commands and blocks (event_loop.rs, app.rs apply_external_param_feedback).
THEOREM CopiesMeet == Spec => []CopiesAgree
<1>1. Init => Exchange
  BY DEF Init, Exchange
<1>2. OnItsWay /\ Exchange => CopiesAgree
  <2> SUFFICES ASSUME OnItsWay, Exchange, open, Settled, ~crossed, ~dropped, ~Masked
               PROVE  Agreed(editor)
    BY DEF CopiesAgree, Agreed
  <2>1. toWindow = <<>> /\ feedback = <<>> /\ seen = editor
    BY DEF Settled, Arriving, Leaving
  <2>2. editor # None
    BY ParameterRange DEF OnItsWay, TypeOK
  <2> QED
    BY <2>1, <2>2 DEF Exchange
<1> QED
  BY <1>1, <1>2, InitOnItsWay, StepOnItsWay, StepExchange, PTL DEF Spec

=============================================================================
