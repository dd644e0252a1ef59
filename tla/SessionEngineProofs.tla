------------------------ MODULE SessionEngineProofs ------------------------
(***************************************************************************)
(* What SessionEngine.tla promises for every set of tracks, scenes, sample *)
(* lengths, loop regions, tempos and block sizes, and without its bounds:  *)
(* no proof uses Horizon or MaxEdits except that they are numbers.         *)
(***************************************************************************)
EXTENDS SessionEngine, FiniteSetTheorems, TLAPS

-----------------------------------------------------------------------------
(* Arithmetic of the loop.                                                  *)

LEMMA LeastType ==
    ASSUME NEW m \in Nat, NEW n \in Nat
    PROVE  Least(m, n) \in Nat /\ Least(m, n) <= m /\ Least(m, n) <= n
BY DEF Least

\* Rounding a length down to whole beats leaves at least one beat and never
\* more than the length.
LEMMA WholeBeats ==
    ASSUME NEW r \in Nat, NEW b \in Nat, b >= 1, r >= b
    PROVE  (r \div b) * b \in Nat /\ (r \div b) * b >= 1 /\ (r \div b) * b <= r
<1> DEFINE q == r \div b
<1> DEFINE m == r % b
<1>1. q \in Int /\ m \in 0 .. b - 1 /\ r = b * q + m
  BY Z3
<1> HIDE DEF q, m
<1>2. q >= 1
  BY <1>1, Z3
<1>3. b * q \in Int /\ b * q = r - m
  BY <1>1, Z3
<1>4. q * b = b * q
  BY <1>1, Z3
<1>5. r - m >= 1 /\ r - m <= r
  BY <1>1, Z3
<1> QED
  BY <1>3, <1>4, <1>5 DEF q

\* A clip's loop, if it has one, is not empty and lies inside the clip at any
\* tempo.
LEMMA LoopLenInside ==
    ASSUME NEW c \in Clip, NEW b \in Nat, b >= 1, HasLoop(c)
    PROVE  /\ LoopLen(c, b) \in Nat /\ LoopLen(c, b) >= 1
           /\ c.from + LoopLen(c, b) <= c.natural
<1> DEFINE r == RawLoopLen(c)
<1>1. c.from \in Nat /\ c.to \in Nat /\ c.natural \in Nat
  BY DEF Clip
<1>2. r \in Nat /\ r >= 1 /\ c.from + r <= c.natural
  BY <1>1 DEF RawLoopLen, HasLoop, Least
<1>3. CASE b <= 1 \/ r < b
  BY <1>2, <1>3 DEF LoopLen
<1>4. CASE ~(b <= 1 \/ r < b)
  <2> DEFINE len == (r \div b) * b
  <2>1. len \in Nat /\ len >= 1 /\ len <= r
    BY <1>2, <1>4, WholeBeats
  <2>2. LoopLen(c, b) = len
    BY <1>4 DEF LoopLen
  <2> HIDE DEF r, len
  <2>3. c.from + len <= c.natural
    BY <1>1, <1>2, <2>1
  <2> QED
    BY <2>1, <2>2, <2>3
<1> QED
  BY <1>3, <1>4

\* The remainder moves one forward, or from the last value to 0.
LEMMA NextRemainder ==
    ASSUME NEW e \in Nat, NEW n \in Nat, n >= 1
    PROVE  /\ e % n \in Nat /\ (e + 1) % n \in Nat
           /\ \/ (e + 1) % n = (e % n) + 1
              \/ (e % n) + 1 = n /\ (e + 1) % n = 0
<1> DEFINE q1 == e \div n
           m1 == e % n
           q2 == (e + 1) \div n
           m2 == (e + 1) % n
<1>1. q1 \in Int /\ m1 \in 0 .. n - 1 /\ e = n * q1 + m1
  BY Z3
<1>2. q2 \in Int /\ m2 \in 0 .. n - 1 /\ e + 1 = n * q2 + m2
  BY Z3
<1> HIDE DEF q1, m1, q2, m2
<1>3. n * q1 \in Int /\ n * q2 \in Int /\ n * (q2 - q1) = n * q2 - n * q1
  BY <1>1, <1>2, Z3
<1>4. n * (q2 - q1) = m1 + 1 - m2
  BY <1>1, <1>2, <1>3, Z3
<1>5. q2 - q1 = 0 \/ q2 - q1 = 1
  <2>1. q2 - q1 < 2
    BY <1>1, <1>2, <1>4, Z3
  <2>2. q2 - q1 > -1
    BY <1>1, <1>2, <1>4, Z3
  <2> QED
    BY <1>1, <1>2, <2>1, <2>2
<1>6. CASE q2 - q1 = 0
  BY <1>1, <1>2, <1>4, <1>6, Z3 DEF m1, m2
<1>7. CASE q2 - q1 = 1
  BY <1>1, <1>2, <1>4, <1>7, Z3 DEF m1, m2
<1> QED
  BY <1>5, <1>6, <1>7

-----------------------------------------------------------------------------
(* Types.                                                                   *)

LEMMA NewClipType ==
    ASSUME NEW n \in Nat
    PROVE  NewClip(n) \in Clip
BY DEF NewClip, Clip

LEMMA WithLoopType ==
    ASSUME NEW c \in Clip, NEW r \in Nat \X Nat, NEW e \in BOOLEAN
    PROVE  WithLoop(c, r, e) \in Clip
BY DEF WithLoop, Clip, Least

LEMMA WithEventsType ==
    ASSUME NEW c \in Clip, NEW n \in Nat
    PROVE  WithEvents(c, n) \in Clip
BY DEF WithEvents, Clip

\* What a launched pad may start at: the start of a voice, or now.
LEMMA LegatoStartsFrom ==
    ASSUME NEW t \in Tracks, NEW a \in LegatoStarts(t)
    PROVE  \/ playing = {} /\ a = abs
           \/ playing # {} /\ \E r \in playing : a = start[r]
BY DEF LegatoStarts, LegatoPads

LEMMA InitType == Init => TypeOK
<1> SUFFICES ASSUME Init PROVE TypeOK
  OBVIOUS
<1>1. NewClip(0) \in Clip
  BY NewClipType
<1> QED
  BY <1>1, EngineAssumption DEF Init, TypeOK

LEMMA NextType == TypeOK /\ [Next]_vars => TypeOK'
<1> SUFFICES ASSUME TypeOK, [Next]_vars PROVE TypeOK'
  OBVIOUS
<1>1. ASSUME NEW p \in Pads, NEW n \in Lengths, LoadClip(p, n)
      PROVE  TypeOK'
  <2>1. NewClip(n) \in Clip /\ n \in Nat
    BY EngineAssumption, NewClipType
  <2>2. clip' \in [Pads -> Clip]
    BY <1>1, <2>1 DEF LoadClip, TypeOK
  <2>3. start' \in [Pads -> Nat]
    BY <1>1 DEF LoadClip, TypeOK
  <2> QED
    BY <1>1, <2>2, <2>3 DEF LoadClip, Edit, TypeOK
<1>2. ASSUME NEW p \in Pads, NEW r \in LoopRegions, NEW e \in BOOLEAN, SetClipLoop(p, r, e)
      PROVE  TypeOK'
  <2>1. r \in Nat \X Nat
    BY EngineAssumption
  <2>2. clip[p] \in Clip
    BY DEF TypeOK
  <2>3. WithLoop(clip[p], r, e) \in Clip
    BY <2>1, <2>2, WithLoopType
  <2>4. clip' \in [Pads -> Clip]
    BY <1>2, <2>3 DEF SetClipLoop, TypeOK
  <2> QED
    BY <1>2, <2>4 DEF SetClipLoop, Edit, TypeOK
<1>3. ASSUME NEW p \in Pads, NEW n \in Lengths \union {0}, SetClipEvents(p, n)
      PROVE  TypeOK'
  <2>1. n \in Nat /\ clip[p] \in Clip
    BY EngineAssumption DEF TypeOK
  <2>2. WithEvents(clip[p], n) \in Clip
    BY <2>1, WithEventsType
  <2>3. clip' \in [Pads -> Clip]
    BY <1>3, <2>2 DEF SetClipEvents, TypeOK
  <2> QED
    BY <1>3, <2>3 DEF SetClipEvents, Edit, TypeOK
<1>4. ASSUME NEW b \in Beats, SetBpm(b)
      PROVE  TypeOK'
  BY <1>4 DEF SetBpm, Edit, clipVars, TypeOK
<1>5. ASSUME NEW t \in Tracks, NEW s \in Scenes, TriggerClip(t, s)
      PROVE  TypeOK'
  <2>1. <<t, s>> \in Pads
    BY DEF Pads
  <2>2. playing' \subseteq Pads
    BY <1>5, <2>1 DEF TriggerClip, TypeOK
  <2>3. \A a \in LegatoStarts(t) : a \in Nat
    BY LegatoStartsFrom DEF TypeOK
  <2>4. start' \in [Pads -> Nat]
    BY <1>5, <2>3 DEF TriggerClip, TypeOK
  <2> QED
    BY <1>5, <2>2, <2>4 DEF TriggerClip, TypeOK
<1>6. ASSUME NEW s \in Scenes, TriggerScene(s)
      PROVE  TypeOK'
  BY <1>6 DEF TriggerScene, TypeOK
<1>7. ASSUME NEW t \in Tracks, StopTrack(t)
      PROVE  TypeOK'
  BY <1>7 DEF StopTrack, TypeOK
<1>8. ASSUME NEW state \in {"Stopped", "Paused", "Playing"}, SetTransport(state)
      PROVE  TypeOK'
  BY <1>8 DEF SetTransport, clipVars, TypeOK
<1>9. ASSUME NEW t \in Tracks, NEW m \in BOOLEAN, SetTrackMute(t, m)
      PROVE  TypeOK'
  BY <1>9 DEF SetTrackMute, clipVars, TypeOK
<1>10. ASSUME NEW n \in BlockSizes, Process(n)
      PROVE  TypeOK'
  <2>1. n \in Nat
    BY EngineAssumption
  <2>2. abs' \in Nat
    BY <1>10, <2>1 DEF Process, TypeOK
  <2>3. playing' \subseteq Pads
    BY <1>10 DEF Process, TypeOK
  <2> QED
    BY <1>10, <2>2, <2>3 DEF Process, TypeOK
<1>11. CASE UNCHANGED vars
  BY <1>11 DEF vars, TypeOK
<1> QED
  BY <1>1, <1>2, <1>3, <1>4, <1>5, <1>6, <1>7, <1>8, <1>9, <1>10, <1>11 DEF Next, Command, AudioCallback

\* The engine's clips and clocks stay in their types under every command and
\* every block.
THEOREM TypeCorrect == Spec => []TypeOK
BY InitType, NextType, PTL DEF Spec

-----------------------------------------------------------------------------
(* One voice per track.                                                     *)

LEMMA NextOneVoice == OneVoicePerTrack /\ [Next]_vars => OneVoicePerTrack'
<1> SUFFICES ASSUME OneVoicePerTrack, [Next]_vars PROVE OneVoicePerTrack'
  OBVIOUS
<1>1. ASSUME NEW p \in Pads, NEW n \in Lengths, LoadClip(p, n)
      PROVE  OneVoicePerTrack'
  BY <1>1 DEF LoadClip, OneVoicePerTrack
<1>2. ASSUME NEW p \in Pads, NEW r \in LoopRegions, NEW e \in BOOLEAN, SetClipLoop(p, r, e)
      PROVE  OneVoicePerTrack'
  BY <1>2 DEF SetClipLoop, OneVoicePerTrack
<1>3. ASSUME NEW p \in Pads, NEW n \in Lengths \union {0}, SetClipEvents(p, n)
      PROVE  OneVoicePerTrack'
  BY <1>3 DEF SetClipEvents, OneVoicePerTrack
<1>4. ASSUME NEW b \in Beats, SetBpm(b)
      PROVE  OneVoicePerTrack'
  BY <1>4 DEF SetBpm, clipVars, OneVoicePerTrack
<1>5. ASSUME NEW t \in Tracks, NEW s \in Scenes, TriggerClip(t, s)
      PROVE  OneVoicePerTrack'
  <2>1. CASE <<t, s>> \in playing \/ <<t, s>> \notin loaded
    BY <1>5, <2>1 DEF TriggerClip, OneVoicePerTrack
  <2>2. CASE ~(<<t, s>> \in playing \/ <<t, s>> \notin loaded)
    <3>1. playing' = (playing \ PadsOf(t)) \union {<<t, s>>} /\ loaded' = loaded
      BY <1>5, <2>2 DEF TriggerClip
    <3>2. \A q \in Scenes : <<t, q>> \in PadsOf(t)
      BY DEF PadsOf
    <3> QED
      BY <2>2, <3>1, <3>2 DEF OneVoicePerTrack
  <2> QED
    BY <2>1, <2>2
<1>6. ASSUME NEW s \in Scenes, TriggerScene(s)
      PROVE  OneVoicePerTrack'
  <2> DEFINE row == RowOf(s) \intersect loaded
  <2>1. /\ playing' = row \union {p \in playing : <<p[1], s>> \notin row}
        /\ loaded' = loaded
    BY <1>6 DEF TriggerScene
  <2>2. \A t \in Tracks, q \in Scenes : <<t, q>> \in row => q = s
    BY DEF RowOf
  <2>3. \A t \in Tracks, q \in Scenes :
           <<t, q>> \in playing' /\ <<t, q>> \notin row =>
             <<t, q>> \in playing /\ <<t, s>> \notin row
    <3> TAKE t \in Tracks, q \in Scenes
    <3>1. \A p \in playing' \ row : p \in playing /\ <<p[1], s>> \notin row
      BY <2>1
    <3> HIDE DEF row
    <3>2. <<t, q>>[1] = t
      OBVIOUS
    <3> QED
      BY <3>1, <3>2
  <2>4. \A t \in Tracks, q \in Scenes : <<t, q>> \in row => <<t, s>> \in row
    BY <2>2
  <2>5. playing' \subseteq loaded'
    BY <2>1 DEF OneVoicePerTrack
  <2> HIDE DEF row
  <2> QED
    BY <2>2, <2>3, <2>4, <2>5 DEF OneVoicePerTrack
<1>7. ASSUME NEW t \in Tracks, StopTrack(t)
      PROVE  OneVoicePerTrack'
  BY <1>7 DEF StopTrack, OneVoicePerTrack
<1>8. ASSUME NEW state \in {"Stopped", "Paused", "Playing"}, SetTransport(state)
      PROVE  OneVoicePerTrack'
  BY <1>8 DEF SetTransport, clipVars, OneVoicePerTrack
<1>9. ASSUME NEW t \in Tracks, NEW m \in BOOLEAN, SetTrackMute(t, m)
      PROVE  OneVoicePerTrack'
  BY <1>9 DEF SetTrackMute, clipVars, OneVoicePerTrack
<1>10. ASSUME NEW n \in BlockSizes, Process(n)
      PROVE  OneVoicePerTrack'
  BY <1>10 DEF Process, OneVoicePerTrack
<1>11. CASE UNCHANGED vars
  BY <1>11 DEF vars, OneVoicePerTrack
<1> QED
  BY <1>1, <1>2, <1>3, <1>4, <1>5, <1>6, <1>7, <1>8, <1>9, <1>10, <1>11 DEF Next, Command, AudioCallback

\* At most one pad of a track plays, and only pads that hold a clip, under
\* trigger_clip, trigger_scene, stop_track, add_clip and process.
THEOREM OneVoice == Spec => []OneVoicePerTrack
<1>1. Init => OneVoicePerTrack
  BY DEF Init, OneVoicePerTrack
<1> QED
  BY <1>1, NextOneVoice, PTL DEF Spec

-----------------------------------------------------------------------------
(* The clock of the voices.                                                 *)

LEMMA NextStarts == TypeOK /\ StartsInThePast /\ [Next]_vars => StartsInThePast'
<1> SUFFICES ASSUME TypeOK, StartsInThePast, [Next]_vars PROVE StartsInThePast'
  OBVIOUS
<1>1. ASSUME NEW p \in Pads, NEW n \in Lengths, LoadClip(p, n)
      PROVE  StartsInThePast'
  BY <1>1 DEF LoadClip, StartsInThePast, TypeOK
<1>2. ASSUME NEW p \in Pads, NEW r \in LoopRegions, NEW e \in BOOLEAN, SetClipLoop(p, r, e)
      PROVE  StartsInThePast'
  BY <1>2 DEF SetClipLoop, StartsInThePast
<1>3. ASSUME NEW p \in Pads, NEW n \in Lengths \union {0}, SetClipEvents(p, n)
      PROVE  StartsInThePast'
  BY <1>3 DEF SetClipEvents, StartsInThePast
<1>4. ASSUME NEW b \in Beats, SetBpm(b)
      PROVE  StartsInThePast'
  BY <1>4 DEF SetBpm, clipVars, StartsInThePast
<1>5. ASSUME NEW t \in Tracks, NEW s \in Scenes, TriggerClip(t, s)
      PROVE  StartsInThePast'
  <2>1. \A a \in LegatoStarts(t) : a <= abs
    BY LegatoStartsFrom DEF TypeOK, StartsInThePast
  <2>2. abs' = abs /\ <<t, s>> \in Pads
    BY <1>5 DEF TriggerClip, Pads
  <2> QED
    BY <1>5, <2>1, <2>2 DEF TriggerClip, StartsInThePast, TypeOK
<1>6. ASSUME NEW s \in Scenes, TriggerScene(s)
      PROVE  StartsInThePast'
  BY <1>6 DEF TriggerScene, StartsInThePast, TypeOK
<1>7. ASSUME NEW t \in Tracks, StopTrack(t)
      PROVE  StartsInThePast'
  BY <1>7 DEF StopTrack, StartsInThePast
<1>8. ASSUME NEW state \in {"Stopped", "Paused", "Playing"}, SetTransport(state)
      PROVE  StartsInThePast'
  BY <1>8 DEF SetTransport, clipVars, StartsInThePast
<1>9. ASSUME NEW t \in Tracks, NEW m \in BOOLEAN, SetTrackMute(t, m)
      PROVE  StartsInThePast'
  BY <1>9 DEF SetTrackMute, clipVars, StartsInThePast
<1>10. ASSUME NEW n \in BlockSizes, Process(n)
      PROVE  StartsInThePast'
  <2>1. n \in Nat /\ abs \in Nat /\ \A p \in playing : start[p] \in Nat
    BY EngineAssumption DEF TypeOK
  <2>2. abs' = abs + n /\ start' = start /\ playing' \subseteq playing
    BY <1>10 DEF Process
  <2> QED
    BY <2>1, <2>2 DEF StartsInThePast
<1>11. CASE UNCHANGED vars
  BY <1>11 DEF vars, StartsInThePast
<1> QED
  BY <1>1, <1>2, <1>3, <1>4, <1>5, <1>6, <1>7, <1>8, <1>9, <1>10, <1>11 DEF Next, Command, AudioCallback

\* No voice has a start_absolute that lies ahead of absolute_frame, so process
\* and the playhead never subtract a later start (both are unsigned).
THEOREM StartsPast == Spec => []StartsInThePast
<1>1. Init => StartsInThePast
  BY DEF Init, StartsInThePast
<1> QED
  BY <1>1, InitType, NextType, NextStarts, PTL DEF Spec

\* The loop process() plays lies inside its clip and is never empty, whatever
\* loads, edits, loop regions and tempos came before.
THEOREM LoopInside == Spec => []LoopInsideClip
<1>1. TypeOK => LoopInsideClip
  <2> SUFFICES ASSUME TypeOK, NEW p \in loaded, HasLoop(clip[p])
               PROVE  /\ LoopLen(clip[p], beat) >= 1
                      /\ clip[p].from + LoopLen(clip[p], beat) <= clip[p].natural
    BY DEF LoopInsideClip
  <2>1. clip[p] \in Clip /\ beat \in Nat /\ beat >= 1
    BY EngineAssumption DEF TypeOK
  <2> QED
    BY <2>1, LoopLenInside
<1> QED
  BY <1>1, TypeCorrect, PTL

\* One clip: the frame after the one played is the next one, or the loop's
\* first one when the loop's last one was played.
LEMMA NextFrame ==
    ASSUME NEW c \in Clip, NEW b \in Nat, b >= 1, NEW e \in Nat
    PROVE  \/ FramePlayed(c, b, e + 1) = FramePlayed(c, b, e) + 1
           \/ /\ FramePlayed(c, b, e) + 1 = c.from + LoopLen(c, b)
              /\ FramePlayed(c, b, e + 1) = c.from
<1> DEFINE len == LoopLen(c, b)
           f == c.from
<1>1. CASE ~HasLoop(c)
  BY <1>1 DEF FramePlayed
<1>2. CASE HasLoop(c)
  <2>1. f \in Nat /\ len \in Nat /\ len >= 1
    BY <1>2, LoopLenInside DEF Clip
  <2>2. CASE c.events
    <3>1. FramePlayed(c, b, e) = f + (e % len) /\ FramePlayed(c, b, e + 1) = f + ((e + 1) % len)
      BY <1>2, <2>2 DEF FramePlayed
    <3>2. /\ e % len \in Nat /\ (e + 1) % len \in Nat
          /\ \/ (e + 1) % len = (e % len) + 1
             \/ (e % len) + 1 = len /\ (e + 1) % len = 0
      <4> HIDE DEF len
      <4> QED
        BY <2>1, NextRemainder
    <3> HIDE DEF len, f
    <3> QED
      BY <2>1, <3>1, <3>2 DEF len, f
  <2>3. CASE ~c.events
    <3> DEFINE d == e - (f + len)
    <3>1. /\ FramePlayed(c, b, e) = IF e < f + len THEN e ELSE f + (d % len)
          /\ FramePlayed(c, b, e + 1) =
               IF e + 1 < f + len THEN e + 1 ELSE f + (((e + 1) - (f + len)) % len)
      BY <1>2, <2>3 DEF FramePlayed
    <3>2. (e + 1) - (f + len) = d + 1
      <4> HIDE DEF f, len
      <4> QED
        BY <2>1
    <3>3. CASE e + 1 < f + len
      <4>1. e < f + len
        BY <2>1, <3>3
      <4> QED
        BY <3>1, <3>3, <4>1
    <3>4. CASE e + 1 = f + len
      <4> HIDE DEF f, len, d
      <4>1. d + 1 = 0 /\ e < f + len /\ ~(e + 1 < f + len)
        BY <2>1, <3>2, <3>4
      <4>2. 0 % len = 0
        BY <2>1
      <4>3. FramePlayed(c, b, e) = e /\ FramePlayed(c, b, e + 1) = f + 0
        BY <3>1, <3>2, <4>1, <4>2
      <4> QED
        BY <2>1, <3>4, <4>3 DEF f, len
    <3>5. CASE e >= f + len
      <4> HIDE DEF f, len
      <4>1. d \in Nat /\ ~(e < f + len) /\ ~(e + 1 < f + len)
        BY <2>1, <3>5
      <4> HIDE DEF d
      <4>2. /\ d % len \in Nat /\ (d + 1) % len \in Nat
            /\ \/ (d + 1) % len = (d % len) + 1
               \/ (d % len) + 1 = len /\ (d + 1) % len = 0
        BY <2>1, <4>1, NextRemainder
      <4>3. /\ FramePlayed(c, b, e) = f + (d % len)
            /\ FramePlayed(c, b, e + 1) = f + ((d + 1) % len)
        BY <3>1, <3>2, <4>1
      <4> QED
        BY <2>1, <4>2, <4>3 DEF f, len
    <3> QED
      BY <2>1, <3>3, <3>4, <3>5
  <2> QED
    BY <2>2, <2>3
<1> QED
  BY <1>1, <1>2

\* A voice moves frame by frame, without a seam inside its loop or where the
\* loop is entered, for every sample length, loop region and tempo.
THEOREM Seamless == Spec => []NoSeam
<1>1. TypeOK /\ StartsInThePast => NoSeam
  <2> SUFFICES ASSUME TypeOK, StartsInThePast, NEW p \in playing,
                      NEW n \in BlockSizes, NEW i \in 0 .. n - 1
               PROVE  LET c == clip[p]
                          now == FramePlayed(c, beat, Elapsed(p) + i)
                          next == FramePlayed(c, beat, Elapsed(p) + i + 1)
                      IN  \/ next = now + 1
                          \/ now + 1 = c.from + LoopLen(c, beat) /\ next = c.from
    BY DEF NoSeam
  <2>1. clip[p] \in Clip /\ beat \in Nat /\ beat >= 1 /\ Elapsed(p) \in Nat
    BY EngineAssumption DEF TypeOK, StartsInThePast, Elapsed
  <2>2. i \in Nat
    BY EngineAssumption
  <2> DEFINE e == Elapsed(p) + i
  <2>3. e \in Nat
    BY <2>1, <2>2
  <2> HIDE DEF e
  <2>4. LET c == clip[p]
            now == FramePlayed(c, beat, e)
            next == FramePlayed(c, beat, e + 1)
        IN  \/ next = now + 1
            \/ now + 1 = c.from + LoopLen(c, beat) /\ next = c.from
    BY <2>1, <2>3, NextFrame
  <2> QED
    BY <2>4 DEF e
<1> QED
  BY <1>1, TypeCorrect, StartsPast, PTL

-----------------------------------------------------------------------------
(* The playhead.                                                            *)

\* A remainder does not see one turn of the loop more or less.
LEMMA RemainderPeriodic ==
    ASSUME NEW e \in Nat, NEW n \in Nat, n >= 1
    PROVE  /\ e < n => e % n = e
           /\ e >= n => (e - n) % n = e % n
<1>1. ASSUME e < n PROVE e % n = e
  BY <1>1, Z3
<1>2. ASSUME e >= n PROVE (e - n) % n = e % n
  <2> DEFINE q1 == e \div n
             m1 == e % n
             q2 == (e - n) \div n
             m2 == (e - n) % n
  <2>1. q1 \in Int /\ m1 \in 0 .. n - 1 /\ e = n * q1 + m1
    BY Z3
  <2>2. q2 \in Int /\ m2 \in 0 .. n - 1 /\ e - n = n * q2 + m2
    BY <1>2, Z3
  <2> HIDE DEF q1, m1, q2, m2
  <2> DEFINE k == q1 - q2 - 1
  <2>3. n * q1 \in Int /\ n * q2 \in Int /\ k \in Int /\ n * k = n * q1 - n * q2 - n
    BY <2>1, <2>2, Z3
  <2>4. n * k = m2 - m1
    BY <2>1, <2>2, <2>3, Z3
  <2> HIDE DEF k
  <2>5. k < 1 /\ k > -1
    BY <2>1, <2>2, <2>3, <2>4, Z3
  <2>6. m1 = m2
    BY <2>1, <2>2, <2>3, <2>4, <2>5, Z3
  <2> QED
    BY <2>6 DEF m1, m2
<1> QED
  BY <1>1, <1>2

\* One clip: without frames ahead of the loop, what is drawn is what is read.
LEMMA ShownIsPlayed ==
    ASSUME NEW c \in Clip, NEW b \in Nat, b >= 1, NEW e \in Nat, c.events \/ c.from = 0
    PROVE  FrameShown(c, b, e) = FramePlayed(c, b, e)
<1> DEFINE len == LoopLen(c, b)
<1>1. CASE ~HasLoop(c) \/ c.events
  BY <1>1 DEF FrameShown, FramePlayed
<1>2. CASE HasLoop(c) /\ ~c.events
  <2>1. len \in Nat /\ len >= 1 /\ c.from = 0
    BY <1>2, LoopLenInside
  <2>2. /\ FrameShown(c, b, e) = c.from + (e % len)
        /\ FramePlayed(c, b, e) = IF e < c.from + len THEN e
                                  ELSE c.from + ((e - (c.from + len)) % len)
    BY <1>2 DEF FrameShown, FramePlayed
  <2> HIDE DEF len
  <2>3. c.from + len = len /\ e % len \in Nat
    BY <2>1
  <2>4. CASE e < len
    <3>1. e % len = e
      BY <2>1, <2>4, RemainderPeriodic
    <3> QED
      BY <2>1, <2>2, <2>3, <2>4, <3>1
  <2>5. CASE e >= len
    <3>1. (e - len) % len = e % len
      BY <2>1, <2>5, RemainderPeriodic
    <3> QED
      BY <2>1, <2>2, <2>3, <2>5, <3>1
  <2> QED
    BY <2>1, <2>4, <2>5
<1> QED
  BY <1>1, <1>2

\* The playhead the interface draws stands on the frame process() reads, for
\* every clip that plays nothing ahead of its loop.
THEOREM Playhead == Spec => []PlayheadExact
<1>1. TypeOK /\ StartsInThePast => PlayheadExact
  <2> SUFFICES ASSUME TypeOK, StartsInThePast, NEW p \in playing,
                      clip[p].events \/ clip[p].from = 0
               PROVE  FrameShown(clip[p], beat, Elapsed(p)) = FramePlayed(clip[p], beat, Elapsed(p))
    BY DEF PlayheadExact
  <2>1. clip[p] \in Clip /\ beat \in Nat /\ beat >= 1 /\ Elapsed(p) \in Nat
    BY EngineAssumption DEF TypeOK, StartsInThePast, Elapsed
  <2> QED
    BY <2>1, ShownIsPlayed
<1> QED
  BY <1>1, TypeCorrect, StartsPast, PTL

-----------------------------------------------------------------------------
(* Legato launches.                                                         *)

\* While something plays, one pad at most takes a new start, inherited from a
\* voice, unless a scene restarts its row now.
THEOREM Legato == Spec => LegatoOrScene
<1> DEFINE begun == {p \in playing' : p \notin playing \/ start'[p] # start[p]}
           A == begun # {} /\ playing # {} =>
                  \/ Cardinality(begun) = 1 /\ {start'[p] : p \in begun} \subseteq StartsOf(playing)
                  \/ \E s \in Scenes : begun \subseteq RowOf(s) /\ SceneRestarts(s)
<1>1. ASSUME TypeOK, Next PROVE A
  <2>1. CASE playing' \subseteq playing /\ \A p \in playing' : start'[p] = start[p]
    BY <2>1
  <2>2. ASSUME NEW t \in Tracks, NEW s \in Scenes, TriggerClip(t, s) PROVE A
    <3> DEFINE p == <<t, s>>
    <3>1. CASE p \in playing \/ p \notin loaded
      BY <2>1, <2>2, <3>1 DEF TriggerClip
    <3>2. CASE ~(p \in playing \/ p \notin loaded)
      <4> SUFFICES ASSUME playing # {}
                   PROVE  Cardinality(begun) = 1 /\ {start'[q] : q \in begun} \subseteq StartsOf(playing)
        OBVIOUS
      <4>1. PICK a \in LegatoStarts(t) : start' = [start EXCEPT ![p] = a]
        BY <2>2, <3>2 DEF TriggerClip
      <4>2. /\ p \in Pads /\ start'[p] = a
            /\ \A q \in Pads : q # p => start'[q] = start[q]
        <5>1. p \in Pads
          BY DEF Pads
        <5>2. start \in [Pads -> Nat]
          BY <1>1 DEF TypeOK
        <5> HIDE DEF p
        <5> QED
          BY <4>1, <5>1, <5>2
      <4>3. playing' = (playing \ PadsOf(t)) \union {p}
        BY <2>2, <3>2 DEF TriggerClip
      <4>4. begun = {p}
        <5>1. playing \subseteq Pads
          BY <1>1 DEF TypeOK
        <5> HIDE DEF p
        <5> QED
          BY <3>2, <4>2, <4>3, <5>1
      <4>5. a \in StartsOf(playing)
        BY LegatoStartsFrom DEF StartsOf
      <4>6. Cardinality(begun) = 1
        BY <4>4, FS_Singleton
      <4>7. {start'[q] : q \in begun} \subseteq StartsOf(playing)
        BY <4>2, <4>4, <4>5
      <4> QED
        BY <4>6, <4>7
    <3> QED
      BY <3>1, <3>2
  <2>3. ASSUME NEW s \in Scenes, TriggerScene(s) PROVE A
    <3>1. SceneRestarts(s)
      BY <2>3 DEF TriggerScene, SceneRestarts, RowOf, Pads
    <3>2. begun \subseteq RowOf(s)
      BY <1>1, <2>3 DEF TriggerScene, TypeOK
    <3> QED
      BY <3>1, <3>2
  <2>4. ASSUME NEW p \in Pads, NEW n \in Lengths, LoadClip(p, n) PROVE A
    BY <1>1, <2>1, <2>4 DEF LoadClip, TypeOK
  <2>5. ASSUME NEW p \in Pads, NEW r \in LoopRegions, NEW e \in BOOLEAN, SetClipLoop(p, r, e)
        PROVE  A
    BY <2>1, <2>5 DEF SetClipLoop
  <2>6. ASSUME NEW p \in Pads, NEW n \in Lengths \union {0}, SetClipEvents(p, n) PROVE A
    BY <2>1, <2>6 DEF SetClipEvents
  <2>7. ASSUME NEW b \in Beats, SetBpm(b) PROVE A
    BY <2>1, <2>7 DEF SetBpm, clipVars
  <2>8. ASSUME NEW t \in Tracks, StopTrack(t) PROVE A
    BY <2>1, <2>8 DEF StopTrack
  <2>9. ASSUME NEW state \in {"Stopped", "Paused", "Playing"}, SetTransport(state) PROVE A
    BY <2>1, <2>9 DEF SetTransport, clipVars
  <2>10. ASSUME NEW t \in Tracks, NEW m \in BOOLEAN, SetTrackMute(t, m) PROVE A
    BY <2>1, <2>10 DEF SetTrackMute, clipVars
  <2>11. ASSUME NEW n \in BlockSizes, Process(n) PROVE A
    BY <2>1, <2>11 DEF Process
  <2> HIDE DEF A
  <2> QED
    BY <1>1, <2>2, <2>3, <2>4, <2>5, <2>6, <2>7, <2>8, <2>9, <2>10, <2>11
    DEF Next, Command, AudioCallback
<1>2. TypeOK /\ [Next]_vars => [A]_vars
  BY <1>1
<1> QED
  BY <1>2, TypeCorrect, PTL DEF Spec, LegatoOrScene

=============================================================================
