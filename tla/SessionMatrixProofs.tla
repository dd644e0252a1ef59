------------------------- MODULE SessionMatrixProofs -------------------------
(***************************************************************************)
(* What the grid of pads promises over the engine, for every matrix, every  *)
(* sample and any number of gestures: a pad that shows audio has its clip,  *)
(* unless its file could not be read; the pads lit are the ones that play,  *)
(* and a click does what the pad showed, until a gesture the engine does    *)
(* not learn of, or a load that fails.                                      *)
(***************************************************************************)
EXTENDS SessionMatrix, FiniteSetTheorems, SequenceTheorems, TLAPS

-----------------------------------------------------------------------------
(* The clips of the engine, whose loop a pad of the matrix never loses.     *)

LEMMA Numbers ==
    /\ \A n \in Lengths : n \in Nat /\ n >= 1
    /\ \A n \in BlockSizes : n \in Nat
    /\ Cardinality(Tracks) \in Nat /\ Cardinality(Scenes) \in Nat
<1>1. Cardinality(Tracks) \in Nat /\ Cardinality(Scenes) \in Nat
  BY MatrixAssumption, FS_CardinalityType
<1>2. \A n \in Lengths : n \in Nat /\ n >= 1
  BY MatrixAssumption
<1> QED
  BY <1>1, <1>2, MatrixAssumption

LEMMA NewClipIs ==
    ASSUME NEW n \in Nat
    PROVE  Engine!NewClip(n) \in Engine!Clip /\ (n >= 1 => Engine!HasLoop(Engine!NewClip(n)))
BY DEF Engine!NewClip, Engine!Clip, Engine!HasLoop

LEMMA WithLoopIs ==
    ASSUME NEW c \in Engine!Clip, NEW e \in BOOLEAN
    PROVE  /\ Engine!WithLoop(c, <<0, 0>>, e) \in Engine!Clip
           /\ e /\ Engine!HasLoop(c) => Engine!HasLoop(Engine!WithLoop(c, <<0, 0>>, e))
<1> DEFINE whole == <<0, 0>>
           d == Engine!WithLoop(c, whole, e)
<1>0. whole[1] = 0 /\ whole[2] = 0
  OBVIOUS
<1> HIDE DEF whole
<1>1. c.natural \in Nat /\ Engine!Least(0, c.natural) = 0
  BY DEF Engine!Clip, Engine!Least
<1>2. CASE e /\ 0 < c.natural
  <2>1. d = [c EXCEPT !.loop = TRUE, !.from = 0, !.to = c.natural]
    <3>1. (IF Engine!Least(0, c.natural) > 0 THEN Engine!Least(0, c.natural) ELSE c.natural)
             = c.natural
      BY <1>1
    <3> DEFINE to == IF Engine!Least(0, c.natural) > 0 THEN Engine!Least(0, c.natural)
                     ELSE c.natural
    <3>2. d = [c EXCEPT !.loop = TRUE, !.from = 0, !.to = to]
      BY <1>0, <1>2 DEF Engine!WithLoop
    <3>3. to = c.natural
      BY <3>1
    <3> HIDE DEF to, d
    <3> QED
      BY <3>2, <3>3
  <2> HIDE DEF d
  <2>3. d \in Engine!Clip
    BY <1>1, <2>1 DEF Engine!Clip
  <2>4. d.loop
    BY <2>1 DEF Engine!Clip
  <2>5. d.from = 0 /\ d.to = c.natural /\ d.natural = c.natural
    BY <2>1 DEF Engine!Clip
  <2>2. d \in Engine!Clip /\ Engine!HasLoop(d)
    BY <1>1, <1>2, <2>3, <2>4, <2>5 DEF Engine!HasLoop
  <2> QED
    BY <2>2 DEF d, whole
<1>3. CASE ~(e /\ 0 < c.natural)
  <2>1. d = [c EXCEPT !.loop = FALSE, !.from = 0, !.to = 0]
    BY <1>0, <1>1, <1>3 DEF Engine!WithLoop
  <2> HIDE DEF d
  <2>2. d \in Engine!Clip
    BY <2>1 DEF Engine!Clip
  <2>3. ~(e /\ Engine!HasLoop(c))
    BY <1>1, <1>3 DEF Engine!Clip, Engine!HasLoop
  <2> QED
    BY <2>2, <2>3 DEF d, whole
<1> QED
  BY <1>2, <1>3

LEMMA WithEventsIs ==
    ASSUME NEW c \in Engine!Clip, NEW n \in Nat, n >= 1
    PROVE  /\ Engine!WithEvents(c, n) \in Engine!Clip
           /\ Engine!HasLoop(c) => Engine!HasLoop(Engine!WithEvents(c, n))
<1> DEFINE full == c.loop /\ c.from = 0 /\ c.to \in {0, c.duration}
           reset == IF c.loop THEN c.to > n \/ full ELSE c.to = 0
           d == Engine!WithEvents(c, n)
<1>2. /\ c.loop \in BOOLEAN /\ c.from \in Nat /\ c.to \in Nat
      /\ reset \in BOOLEAN
  BY DEF Engine!Clip
<1>3. c.loop /\ ~reset => c.to <= n
  BY <1>2
<1>6. d \in Engine!Clip
  BY DEF Engine!WithEvents, Engine!Clip
<1>4. /\ d \in Engine!Clip
      /\ d.natural = n /\ (c.loop => d.loop)
      /\ d.from = (IF reset THEN 0 ELSE c.from) /\ d.to = (IF reset THEN n ELSE c.to)
  <2>1. d.natural = n
    BY DEF Engine!WithEvents, Engine!Clip
  <2>2. c.loop => d.loop
    BY DEF Engine!WithEvents, Engine!Clip
  <2>3. d.from = (IF reset THEN 0 ELSE c.from)
    BY DEF Engine!WithEvents, Engine!Clip
  <2>4. d.to = (IF reset THEN n ELSE c.to)
    BY DEF Engine!WithEvents, Engine!Clip
  <2> QED
    BY <1>6, <2>1, <2>2, <2>3, <2>4
<1> HIDE DEF d, reset
<1>5. ASSUME Engine!HasLoop(c) PROVE Engine!HasLoop(d)
  BY <1>2, <1>3, <1>4, <1>5 DEF Engine!HasLoop
<1> QED
  BY <1>4, <1>5 DEF d

\* What a launched pad may start at: the start of a voice, or now.
LEMMA StartsType ==
    ASSUME NEW t \in Tracks, NEW a \in Engine!LegatoStarts(t), Engine!TypeOK
    PROVE  a \in Nat
<1>1. \/ a = abs
      \/ \E r \in playing : a = start[r]
  BY DEF Engine!LegatoStarts, Engine!LegatoPads
<1> QED
  BY <1>1 DEF Engine!TypeOK

\* Every clip of the engine loops.
Loops == \A p \in loaded : Engine!HasLoop(clip[p])

LEMMA LoadClipStep ==
    ASSUME Engine!TypeOK, NEW p \in Pads, NEW n \in Lengths, Engine!LoadClip(p, n)
    PROVE  /\ Engine!TypeOK' /\ (Loops => Loops')
           /\ loaded' = loaded \union {p} /\ playing' = playing \ {p}
<1>1. /\ n \in Nat /\ n >= 1
      /\ Engine!NewClip(n) \in Engine!Clip /\ Engine!HasLoop(Engine!NewClip(n))
  BY Numbers, NewClipIs
<1>2. p \in Engine!Pads /\ clip \in [Engine!Pads -> Engine!Clip] /\ start \in [Engine!Pads -> Nat]
  BY DEF Pads, Engine!Pads, Engine!TypeOK
<1>3. /\ loaded' = loaded \union {p} /\ playing' = playing \ {p}
      /\ clip' = [clip EXCEPT ![p] = Engine!NewClip(n)]
      /\ start' = [start EXCEPT ![p] = 0] /\ edits' = edits + 1
      /\ UNCHANGED <<abs, transport, muted, beat>>
  BY DEF Engine!LoadClip, Engine!Edit
<1>4. clip' \in [Engine!Pads -> Engine!Clip] /\ start' \in [Engine!Pads -> Nat]
  BY <1>1, <1>2, <1>3
<1>5. Engine!TypeOK'
  BY <1>2, <1>3, <1>4 DEF Engine!TypeOK
<1>6. ASSUME Loops PROVE Loops'
  <2>1. \A q \in loaded' : Engine!HasLoop(clip'[q])
    <3> TAKE q \in loaded'
    <3>1. q \in Engine!Pads
      BY <1>5 DEF Engine!TypeOK
    <3>2. CASE q = p
      BY <1>1, <1>2, <1>3, <3>2
    <3>3. CASE q # p
      <4>1. clip'[q] = clip[q] /\ q \in loaded
        BY <1>2, <1>3, <3>1, <3>3
      <4> QED
        BY <1>6, <4>1 DEF Loops
    <3> QED
      BY <3>2, <3>3
  <2> QED
    BY <2>1 DEF Loops, Engine!HasLoop
<1> QED
  BY <1>3, <1>5, <1>6

\* A clip that is edited in place.
LEMMA EditStep ==
    ASSUME Engine!TypeOK, NEW p \in Pads, NEW new \in Engine!Clip,
           clip' = IF p \in loaded THEN [clip EXCEPT ![p] = new] ELSE clip,
           edits' = edits + 1, UNCHANGED <<loaded, playing, start, abs, transport, muted, beat>>
    PROVE  /\ Engine!TypeOK'
           /\ Loops /\ (p \in loaded => Engine!HasLoop(new)) => Loops'
<1>1. p \in Engine!Pads /\ clip \in [Engine!Pads -> Engine!Clip]
  BY DEF Pads, Engine!Pads, Engine!TypeOK
<1>2. clip' \in [Engine!Pads -> Engine!Clip]
  BY <1>1
<1>3. Engine!TypeOK'
  BY <1>2 DEF Engine!TypeOK
<1>4. ASSUME Loops, p \in loaded => Engine!HasLoop(new) PROVE Loops'
  <2>1. \A q \in loaded' : Engine!HasLoop(clip'[q])
    <3> TAKE q \in loaded'
    <3>1. q \in Engine!Pads /\ q \in loaded
      BY DEF Engine!TypeOK
    <3>2. CASE q = p
      BY <1>1, <1>4, <3>1, <3>2
    <3>3. CASE q # p
      <4>1. clip'[q] = clip[q]
        BY <1>1, <3>1, <3>3
      <4> QED
        BY <1>4, <3>1, <4>1 DEF Loops
    <3> QED
      BY <3>2, <3>3
  <2> QED
    BY <2>1 DEF Loops, Engine!HasLoop
<1> QED
  BY <1>3, <1>4

LEMMA SetClipLoopStep ==
    ASSUME Engine!TypeOK, NEW p \in Pads, NEW e \in BOOLEAN, Engine!SetClipLoop(p, <<0, 0>>, e)
    PROVE  /\ Engine!TypeOK' /\ (e /\ Loops => Loops')
           /\ loaded' = loaded /\ playing' = playing
<1> DEFINE new == Engine!WithLoop(clip[p], <<0, 0>>, e)
<1>1. clip[p] \in Engine!Clip
  BY DEF Pads, Engine!Pads, Engine!TypeOK
<1>2. new \in Engine!Clip /\ (e /\ Engine!HasLoop(clip[p]) => Engine!HasLoop(new))
  BY <1>1, WithLoopIs
<1>3. /\ clip' = IF p \in loaded THEN [clip EXCEPT ![p] = new] ELSE clip
      /\ edits' = edits + 1 /\ UNCHANGED <<loaded, playing, start, abs, transport, muted, beat>>
  BY DEF Engine!SetClipLoop, Engine!Edit
<1> HIDE DEF new
<1>4. /\ Engine!TypeOK'
      /\ Loops /\ (p \in loaded => Engine!HasLoop(new)) => Loops'
  BY <1>2, <1>3, EditStep
<1> QED
  BY <1>2, <1>3, <1>4 DEF Loops

LEMMA SetClipEventsStep ==
    ASSUME Engine!TypeOK, NEW p \in Pads, NEW n \in Lengths, Engine!SetClipEvents(p, n)
    PROVE  /\ Engine!TypeOK' /\ (Loops => Loops')
           /\ loaded' = loaded /\ playing' = playing
<1> DEFINE new == Engine!WithEvents(clip[p], n)
<1>1. clip[p] \in Engine!Clip /\ n \in Nat /\ n >= 1
  BY Numbers DEF Pads, Engine!Pads, Engine!TypeOK
<1>2. new \in Engine!Clip /\ (Engine!HasLoop(clip[p]) => Engine!HasLoop(new))
  BY <1>1, WithEventsIs
<1>3. /\ clip' = IF p \in loaded THEN [clip EXCEPT ![p] = new] ELSE clip
      /\ edits' = edits + 1 /\ UNCHANGED <<loaded, playing, start, abs, transport, muted, beat>>
  BY DEF Engine!SetClipEvents, Engine!Edit
<1> HIDE DEF new
<1>4. /\ Engine!TypeOK'
      /\ Loops /\ (p \in loaded => Engine!HasLoop(new)) => Loops'
  BY <1>2, <1>3, EditStep
<1> QED
  BY <1>2, <1>3, <1>4 DEF Loops

\* The clips stay as they are in a step that does not edit them.
LEMMA SameClips ==
    ASSUME UNCHANGED <<loaded, clip>>, Loops
    PROVE  Loops'
BY DEF Loops, Engine!HasLoop

\* The other pads of its track stop, and the pad itself if it played.
LEMMA TriggerClipStep ==
    ASSUME Engine!TypeOK, NEW p \in Pads, Engine!TriggerClip(p[1], p[2])
    PROVE  /\ Engine!TypeOK' /\ (Loops => Loops') /\ loaded' = loaded
           /\ playing' = (playing \ Engine!PadsOf(p[1]))
                         \union (IF p \in playing \/ p \notin loaded THEN {} ELSE {p})
<1>1. /\ p = <<p[1], p[2]>> /\ p[1] \in Tracks /\ p[2] \in Scenes
      /\ p \in Engine!Pads
  BY DEF Pads, Engine!Pads
<1>2. /\ IF p \in playing \/ p \notin loaded
         THEN /\ playing' = playing \ Engine!PadsOf(p[1])
              /\ start' = start
         ELSE /\ playing' = (playing \ Engine!PadsOf(p[1])) \union {p}
              /\ \E a \in Engine!LegatoStarts(p[1]) : start' = [start EXCEPT ![p] = a]
      /\ UNCHANGED <<loaded, clip, abs, transport, muted, beat, edits>>
  BY <1>1 DEF Engine!TriggerClip
<1>3. start' \in [Engine!Pads -> Nat]
  BY <1>1, <1>2, StartsType DEF Engine!TypeOK
<1>4. playing' \subseteq Engine!Pads
  BY <1>1, <1>2 DEF Engine!TypeOK
<1>5. Engine!TypeOK'
  BY <1>2, <1>3, <1>4 DEF Engine!TypeOK
<1>6. playing' = (playing \ Engine!PadsOf(p[1]))
                 \union (IF p \in playing \/ p \notin loaded THEN {} ELSE {p})
  BY <1>2
<1> QED
  BY <1>2, <1>5, <1>6, SameClips

LEMMA TriggerSceneStep ==
    ASSUME Engine!TypeOK, NEW s \in Scenes, Engine!TriggerScene(s)
    PROVE  /\ Engine!TypeOK' /\ (Loops => Loops') /\ loaded' = loaded
           /\ LET row == Engine!RowOf(s) \intersect loaded
              IN  playing' = row \union {p \in playing : <<p[1], s>> \notin row}
<1> DEFINE row == Engine!RowOf(s) \intersect loaded
<1>1. /\ playing' = row \union {p \in playing : <<p[1], s>> \notin row}
      /\ start' = [p \in Engine!Pads |-> IF p \in row THEN abs ELSE start[p]]
      /\ UNCHANGED <<loaded, clip, abs, transport, muted, beat, edits>>
  BY DEF Engine!TriggerScene
<1>2. row \subseteq Engine!Pads
  BY DEF Engine!TypeOK
<1>3. playing' \subseteq Engine!Pads
  BY <1>1, <1>2 DEF Engine!TypeOK
<1>4. Engine!TypeOK'
  BY <1>1, <1>3 DEF Engine!TypeOK
<1> QED
  BY <1>1, <1>4, SameClips

LEMMA StopTrackStep ==
    ASSUME Engine!TypeOK, NEW t \in Tracks, Engine!StopTrack(t)
    PROVE  Engine!TypeOK' /\ loaded' = loaded
BY DEF Engine!StopTrack, Engine!TypeOK

LEMMA SetTransportStep ==
    ASSUME Engine!TypeOK, NEW state \in {"Stopped", "Paused", "Playing"}, Engine!SetTransport(state)
    PROVE  /\ Engine!TypeOK' /\ (Loops => Loops')
           /\ loaded' = loaded /\ playing' = playing
<1>1. transport' = state /\ UNCHANGED <<loaded, clip, playing, start, abs, muted, beat, edits>>
  BY DEF Engine!SetTransport, Engine!clipVars
<1>2. Engine!TypeOK'
  BY <1>1 DEF Engine!TypeOK
<1> QED
  BY <1>1, <1>2, SameClips

\* A block ends only voices that do not loop.
LEMMA BlockStep ==
    ASSUME Engine!TypeOK, Block
    PROVE  /\ Engine!TypeOK' /\ (Loops => Loops') /\ loaded' = loaded
           /\ Loops /\ playing \subseteq loaded => playing' = playing
<1>1. PICK n \in BlockSizes : Engine!Process(n)
  BY DEF Block, Engine!AudioCallback
<1>2. /\ playing' = {p \in playing : p[1] \in muted \/ ~Engine!EndsInBlock(p, n)}
      /\ abs' = abs + n /\ n \in Nat
      /\ UNCHANGED <<loaded, clip, start, transport, muted, beat, edits>>
  BY <1>1, Numbers DEF Engine!Process
<1>3. abs' \in Nat
  BY <1>2 DEF Engine!TypeOK
<1>4. playing' \subseteq Engine!Pads
  BY <1>2 DEF Engine!TypeOK
<1>5. Engine!TypeOK'
  BY <1>2, <1>3, <1>4 DEF Engine!TypeOK
<1>6. ASSUME Loops, playing \subseteq loaded PROVE playing' = playing
  <2>1. \A p \in playing : ~Engine!EndsInBlock(p, n)
    BY <1>6 DEF Loops, Engine!EndsInBlock
  <2> QED
    BY <1>2, <2>1
<1> QED
  BY <1>2, <1>5, <1>6, SameClips

-----------------------------------------------------------------------------
(* Types.                                                                   *)

InterfaceOK ==
    /\ grid \in [Pads -> Slot]
    /\ tracks \in Tracks /\ scenes \in Scenes
    /\ clipboard \in {"none", "audio", "midi"}
    /\ commands \in Seq(Command)

LEMMA CommandTypes ==
    /\ \A p \in Pads, b \in BOOLEAN : [op |-> "TriggerClip", pad |-> p, stops |-> b] \in Command
    /\ \A s \in Scenes : [op |-> "TriggerScene", scene |-> s] \in Command
    /\ \A p \in Pads, n \in Lengths :
          /\ [op |-> "LoadClip", pad |-> p, length |-> n] \in Command
          /\ [op |-> "SetClipEvents", pad |-> p, length |-> n] \in Command
    /\ \A t \in Tracks : [op |-> "StopTrack", track |-> t] \in Command
    /\ \A p \in Pads, b \in BOOLEAN : [op |-> "SetClipLoop", pad |-> p, enabled |-> b] \in Command
    /\ \A state \in {"Stopped", "Paused", "Playing"} :
          [op |-> "SetTransport", state |-> state] \in Command
BY DEF Command

LEMMA CommandParts ==
    ASSUME NEW c \in Command
    PROVE  /\ c.op = "TriggerClip" => c.pad \in Pads /\ c.stops \in BOOLEAN
           /\ c.op = "TriggerScene" => c.scene \in Scenes
           /\ c.op \in {"LoadClip", "SetClipEvents"} => c.pad \in Pads /\ c.length \in Lengths
           /\ c.op = "StopTrack" => c.track \in Tracks
           /\ c.op = "SetClipLoop" => c.pad \in Pads /\ c.enabled \in BOOLEAN
           /\ c.op = "SetTransport" => c.state \in {"Stopped", "Paused", "Playing"}
BY DEF Command

LEMMA SendType ==
    ASSUME commands \in Seq(Command), NEW c \in Command, Send(c)
    PROVE  commands' \in Seq(Command)
BY AppendProperties DEF Send

LEMMA SlotTypes ==
    /\ EmptySlot \in Slot
    /\ \A content \in {"none", "audio", "midi"} : StoppedSlot(content) \in Slot
    /\ \A slot \in Slot : /\ [slot EXCEPT !.state = "Playing"] \in Slot
                          /\ [slot EXCEPT !.state = "Stopped"] \in Slot
BY DEF EmptySlot, StoppedSlot, Slot

\* A pad that is shown is one of the matrix.
LEMMA ShownPads == tracks \in Tracks /\ scenes \in Scenes => Shown \subseteq Pads
<1> SUFFICES ASSUME tracks \in Tracks, scenes \in Scenes PROVE Shown \subseteq Pads
  OBVIOUS
<1> DEFINE t == Cardinality(Tracks)
           s == Cardinality(Scenes)
<1>1. Tracks = 1..t /\ Scenes = 1..s /\ t \in Nat /\ s \in Nat
  BY MatrixAssumption, Numbers
<1> HIDE DEF t, s
<1>2. 1..tracks \subseteq Tracks /\ 1..scenes \subseteq Scenes
  BY <1>1
<1> QED
  BY <1>2 DEF Shown, Pads

LEMMA LightingType ==
    ASSUME grid \in [Pads -> Slot], NEW P \in SUBSET Pads
    PROVE  Lighting(P) \in [Pads -> Slot]
BY SlotTypes DEF Lighting

LEMMA ResizeType ==
    ASSUME InterfaceOK, NEW t \in Tracks, NEW s \in Scenes, Resize(t, s)
    PROVE  InterfaceOK'
<1>1. Resized(t, s) \in [Pads -> Slot]
  BY SlotTypes DEF Resized, InterfaceOK
<1> QED
  BY <1>1 DEF Resize, InterfaceOK

\* The clip of a copy is sent if it is an audio clip.
LEMMA LoadCopyType ==
    ASSUME commands \in Seq(Command), NEW p \in Pads, NEW n \in Lengths, NEW content,
           LoadCopy(p, content, n)
    PROVE  commands' \in Seq(Command)
<1>1. CASE content = "audio"
  <2>1. Send([op |-> "LoadClip", pad |-> p, length |-> n])
    BY <1>1 DEF LoadCopy
  <2> QED
    BY <2>1, CommandTypes, SendType
<1>2. CASE content # "audio"
  BY <1>2 DEF LoadCopy
<1> QED
  BY <1>1, <1>2

LEMMA TriggerPadType ==
    ASSUME InterfaceOK, NEW p \in Pads, TriggerPad(p)
    PROVE  InterfaceOK'
<1>1. Lighting({p}) \in [Pads -> Slot]
  BY LightingType DEF InterfaceOK
<1>2. grid' \in [Pads -> Slot]
  BY <1>1, SlotTypes DEF TriggerPad, InterfaceOK
<1>3. commands' \in Seq(Command)
  <2>1. (p \in Lit) \in BOOLEAN /\ commands \in Seq(Command)
    BY DEF InterfaceOK
  <2>2. Send([op |-> "TriggerClip", pad |-> p, stops |-> p \in Lit])
    BY DEF TriggerPad
  <2>3. [op |-> "TriggerClip", pad |-> p, stops |-> p \in Lit] \in Command
    BY <2>1, CommandTypes
  <2> QED
    BY <2>1, <2>2, <2>3, SendType
<1> QED
  BY <1>2, <1>3 DEF TriggerPad, InterfaceOK

LEMMA TriggerSceneType ==
    ASSUME InterfaceOK, NEW s \in Scenes, TriggerScene(s)
    PROVE  InterfaceOK'
<1>1. {p \in Tracks \X {s} : HasClip(p)} \in SUBSET Pads
  BY DEF Pads
<1>2. grid' \in [Pads -> Slot]
  BY <1>1, LightingType DEF TriggerScene, InterfaceOK
<1>3. commands' \in Seq(Command)
  BY CommandTypes, SendType DEF TriggerScene, InterfaceOK
<1> QED
  BY <1>2, <1>3 DEF TriggerScene, InterfaceOK

LEMMA LoadClipType ==
    ASSUME InterfaceOK, NEW p \in Pads, NEW n \in Lengths, NEW decoded \in BOOLEAN,
           LoadClipIntoSlot(p, n, decoded)
    PROVE  InterfaceOK'
<1>1. grid' \in [Pads -> Slot]
  BY SlotTypes DEF LoadClipIntoSlot, InterfaceOK
<1>2. commands' \in Seq(Command)
  BY CommandTypes, SendType DEF LoadClipIntoSlot, InterfaceOK
<1> QED
  BY <1>1, <1>2 DEF LoadClipIntoSlot, InterfaceOK

LEMMA PasteType ==
    ASSUME InterfaceOK, NEW p \in Pads, NEW n \in Lengths, PasteSlot(p, n)
    PROVE  InterfaceOK'
<1>1. grid' \in [Pads -> Slot]
  BY SlotTypes DEF PasteSlot, InterfaceOK
<1>2. commands' \in Seq(Command)
  BY LoadCopyType DEF PasteSlot, InterfaceOK
<1> QED
  BY <1>1, <1>2 DEF PasteSlot, InterfaceOK

\* The pad under one that has a clip.
LEMMA BelowIsAPad ==
    ASSUME InterfaceOK, NEW t \in Tracks, NEW s \in Scenes, HasClip(<<t, s>>), s < scenes
    PROVE  /\ <<t, s>> \in Pads /\ <<t, s + 1>> \in Pads /\ <<t, s + 1>> # <<t, s>>
           /\ <<t, s + 1>> \in Shown
<1> DEFINE n == Cardinality(Scenes)
           m == Cardinality(Tracks)
<1>1. Scenes = 1..n /\ n \in Nat /\ Tracks = 1..m /\ m \in Nat
  BY MatrixAssumption, Numbers
<1> HIDE DEF n, m
<1>2. s + 1 \in 1..scenes /\ s + 1 \in Scenes /\ s + 1 # s
  BY <1>1 DEF InterfaceOK
<1>3. t \in 1..tracks
  BY DEF HasClip, Shown
<1> QED
  BY <1>2, <1>3 DEF Pads, Shown

LEMMA DuplicateType ==
    ASSUME InterfaceOK, NEW t \in Tracks, NEW s \in Scenes, NEW n \in Lengths,
           DuplicateSlot(t, s, n)
    PROVE  InterfaceOK'
<1>1. <<t, s>> \in Pads /\ <<t, s + 1>> \in Pads
  BY BelowIsAPad DEF DuplicateSlot
<1>2. grid' \in [Pads -> Slot]
  BY <1>1 DEF DuplicateSlot, InterfaceOK
<1>3. commands' \in Seq(Command)
  BY <1>1, LoadCopyType DEF DuplicateSlot, InterfaceOK
<1> QED
  BY <1>2, <1>3 DEF DuplicateSlot, InterfaceOK

LEMMA AgreeingType == InterfaceOK /\ Agreeing => InterfaceOK'
<1> SUFFICES ASSUME InterfaceOK, Agreeing PROVE InterfaceOK'
  OBVIOUS
<1>1. ASSUME NEW p \in Pads, CopySlot(p) PROVE InterfaceOK'
  BY <1>1 DEF CopySlot, InterfaceOK, HasClip, Slot
<1>2. ASSUME NEW p \in Pads, SwitchLoop(p, TRUE) PROVE InterfaceOK'
  <2>1. commands' \in Seq(Command)
    BY <1>2, CommandTypes, SendType DEF SwitchLoop, InterfaceOK
  <2> QED
    BY <1>2, <2>1 DEF SwitchLoop, InterfaceOK
<1>3. CASE AddTrack
  BY <1>3, ResizeType DEF AddTrack, InterfaceOK
<1>4. CASE AddScene
  BY <1>4, ResizeType DEF AddScene, InterfaceOK
<1>5. ASSUME NEW state \in {"Stopped", "Paused", "Playing"}, TransportButton(state)
      PROVE  InterfaceOK'
  <2>1. commands' \in Seq(Command)
    BY <1>5, CommandTypes, SendType DEF TransportButton, InterfaceOK
  <2> QED
    BY <1>5, <2>1 DEF TransportButton, InterfaceOK
<1> QED
  BY <1>1, <1>2, <1>3, <1>4, <1>5, TriggerPadType, TriggerSceneType, LoadClipType, PasteType,
     DuplicateType DEF Agreeing

LEMMA ClearType ==
    ASSUME InterfaceOK, NEW p \in Pads, ClearSlot(p), UNCHANGED <<tracks, scenes>>,
           clipboard' \in {clipboard, grid[p].content}
    PROVE  InterfaceOK'
<1>1. grid' \in [Pads -> Slot]
  BY SlotTypes DEF ClearSlot, InterfaceOK
<1>2. commands' \in Seq(Command)
  BY CommandTypes, SendType DEF ClearSlot, InterfaceOK
<1>3. clipboard' \in {"none", "audio", "midi"}
  BY DEF InterfaceOK, Slot
<1> QED
  BY <1>1, <1>2, <1>3 DEF InterfaceOK

LEMMA PartingType == InterfaceOK /\ Parting => InterfaceOK'
<1> SUFFICES ASSUME InterfaceOK, Parting PROVE InterfaceOK'
  OBVIOUS
<1>1. ASSUME NEW p \in Pads, LoadMidiIntoSlot(p) PROVE InterfaceOK'
  BY <1>1, SlotTypes DEF LoadMidiIntoSlot, InterfaceOK
<1>2. ASSUME NEW p \in Pads, CutSlot(p) \/ DeleteSlot(p) PROVE InterfaceOK'
  BY <1>2, ClearType DEF CutSlot, DeleteSlot
<1>3. ASSUME NEW p \in Pads, StopOnEmptyPad(p) PROVE InterfaceOK'
  <2>1. p[1] \in Tracks
    BY DEF Pads
  <2>2. commands' \in Seq(Command)
    BY <1>3, <2>1, CommandTypes, SendType DEF StopOnEmptyPad, InterfaceOK
  <2>3. grid' \in [Pads -> Slot]
    BY <1>3, SlotTypes DEF StopOnEmptyPad, InterfaceOK
  <2> QED
    BY <1>3, <2>2, <2>3 DEF StopOnEmptyPad, InterfaceOK
<1>4. ASSUME NEW p \in Pads, SwitchLoop(p, FALSE) PROVE InterfaceOK'
  <2>1. commands' \in Seq(Command)
    BY <1>4, CommandTypes, SendType DEF SwitchLoop, InterfaceOK
  <2> QED
    BY <1>4, <2>1 DEF SwitchLoop, InterfaceOK
<1>5. CASE RemoveTrack \/ RemoveScene
  <2> DEFINE n == Cardinality(Scenes)
             m == Cardinality(Tracks)
  <2>1. Scenes = 1..n /\ n \in Nat /\ Tracks = 1..m /\ m \in Nat
    BY MatrixAssumption, Numbers
  <2> HIDE DEF n, m
  <2>2. /\ tracks > 1 => tracks - 1 \in Tracks
        /\ scenes > 1 => scenes - 1 \in Scenes
    BY <2>1 DEF InterfaceOK
  <2>3. tracks \in Tracks /\ scenes \in Scenes
    BY DEF InterfaceOK
  <2>4. CASE RemoveTrack
    BY <2>2, <2>3, <2>4, ResizeType DEF RemoveTrack
  <2>5. CASE RemoveScene
    BY <2>2, <2>3, <2>5, ResizeType DEF RemoveScene
  <2> QED
    BY <1>5, <2>4, <2>5
<1> QED
  BY <1>1, <1>2, <1>3, <1>4, <1>5, DuplicateType, LoadClipType DEF Parting, Lit

\* The command that is executed, and the ones that wait behind it.
LEMMA ExecuteTakes ==
    ASSUME commands \in Seq(Command), Execute
    PROVE  /\ Head(commands) \in Command /\ Tail(commands) \in Seq(Command)
           /\ commands # <<>> /\ commands' = Tail(commands)
           /\ UNCHANGED <<grid, tracks, scenes, clipboard, gestures>>
           /\ FailLoad(Head(commands)) \/ Obey(Head(commands))
BY HeadTailProperties DEF Execute, matrixVars

\* What leaves the engine's variables alone leaves their types and its loops.
LEMMA SameEngine ==
    ASSUME UNCHANGED engineVars, Engine!TypeOK
    PROVE  /\ Engine!TypeOK' /\ (Loops => Loops')
           /\ loaded' = loaded /\ playing' = playing
<1>1. UNCHANGED <<loaded, clip, playing, start, abs, transport, muted, beat, edits>>
  BY DEF engineVars
<1>2. Engine!TypeOK'
  BY <1>1 DEF Engine!TypeOK
<1> QED
  BY <1>1, <1>2, SameClips

\* A load that fails: the engine stays as it is.
LEMMA FailLoadStep ==
    ASSUME TypeOK, NEW c \in Command, FailLoad(c)
    PROVE  /\ c.op = "LoadClip" /\ c.pad \in Pads
           /\ Engine!TypeOK' /\ (Loops => Loops') /\ loaded' = loaded /\ playing' = playing
           /\ unread' = unread \union {c.pad}
           /\ parted' \in BOOLEAN
           /\ ~parted' => ~parted /\ c.pad \in loaded /\ c.pad \notin playing
<1>1. c.op = "LoadClip" /\ c.pad \in Pads
  BY CommandParts DEF FailLoad
<1>2. UNCHANGED engineVars /\ Engine!TypeOK /\ parted \in BOOLEAN
  BY DEF FailLoad, TypeOK
<1>3. /\ unread' = unread \union {c.pad}
      /\ parted' = (parted \/ c.pad \notin loaded \/ c.pad \in playing)
  BY DEF FailLoad
<1> QED
  BY <1>1, <1>2, <1>3, SameEngine

LEMMA InitType == Init => TypeOK
<1> SUFFICES ASSUME Init PROVE TypeOK
  OBVIOUS
<1>1. Engine!NewClip(0) \in Engine!Clip
  BY NewClipIs
<1>2. Engine!TypeOK
  BY <1>1 DEF Init, Engine!Init, Engine!TypeOK
<1>3. grid \in [Pads -> Slot] /\ commands \in Seq(Command)
  BY SlotTypes, EmptySeq DEF Init
<1> QED
  BY <1>2, <1>3 DEF Init, TypeOK

LEMMA ExecuteType == TypeOK /\ Execute => TypeOK'
<1> SUFFICES ASSUME TypeOK, Execute PROVE TypeOK'
  OBVIOUS
<1> DEFINE c == Head(commands)
<1>1. commands \in Seq(Command) /\ Engine!TypeOK
  BY DEF TypeOK
<1>2. /\ c \in Command /\ commands' \in Seq(Command)
      /\ UNCHANGED <<grid, tracks, scenes, clipboard, gestures>>
      /\ FailLoad(c) \/ Obey(c)
  BY <1>1, ExecuteTakes
<1> HIDE DEF c
<1>3. CASE FailLoad(c)
  <2>1. /\ Engine!TypeOK' /\ parted' \in BOOLEAN
        /\ unread' = unread \union {c.pad} /\ c.pad \in Pads
    BY <1>2, <1>3, FailLoadStep
  <2> QED
    BY <1>2, <2>1 DEF TypeOK
<1>4. ASSUME Obey(c) PROVE Engine!TypeOK'
  <2>1. CASE c.op = "TriggerClip" /\ Engine!TriggerClip(c.pad[1], c.pad[2])
    <3>1. c.pad \in Pads
      BY <1>2, <2>1, CommandParts
    <3> QED
      BY <1>1, <2>1, <3>1, TriggerClipStep
  <2>2. CASE c.op = "TriggerScene" /\ Engine!TriggerScene(c.scene)
    <3>1. c.scene \in Scenes
      BY <1>2, <2>2, CommandParts
    <3> QED
      BY <1>1, <2>2, <3>1, TriggerSceneStep
  <2>3. CASE c.op = "LoadClip" /\ Engine!LoadClip(c.pad, c.length)
    <3>1. c.pad \in Pads /\ c.length \in Lengths
      BY <1>2, <2>3, CommandParts
    <3> QED
      BY <1>1, <2>3, <3>1, LoadClipStep
  <2>4. CASE c.op = "SetClipEvents" /\ Engine!SetClipEvents(c.pad, c.length)
    <3>1. c.pad \in Pads /\ c.length \in Lengths
      BY <1>2, <2>4, CommandParts
    <3> QED
      BY <1>1, <2>4, <3>1, SetClipEventsStep
  <2>5. CASE c.op = "StopTrack" /\ Engine!StopTrack(c.track)
    <3>1. c.track \in Tracks
      BY <1>2, <2>5, CommandParts
    <3> QED
      BY <1>1, <2>5, <3>1, StopTrackStep
  <2>6. CASE c.op = "SetClipLoop" /\ Engine!SetClipLoop(c.pad, <<0, 0>>, c.enabled)
    <3>1. c.pad \in Pads /\ c.enabled \in BOOLEAN
      BY <1>2, <2>6, CommandParts
    <3> QED
      BY <1>1, <2>6, <3>1, SetClipLoopStep
  <2>7. CASE c.op = "SetTransport" /\ Engine!SetTransport(c.state)
    <3>1. c.state \in {"Stopped", "Paused", "Playing"}
      BY <1>2, <2>7, CommandParts
    <3> QED
      BY <1>1, <2>7, <3>1, SetTransportStep
  <2> QED
    BY <1>4, <2>1, <2>2, <2>3, <2>4, <2>5, <2>6, <2>7 DEF Obey
<1>5. CASE Obey(c)
  <2>1. UNCHANGED parted /\ unread' \subseteq Pads
    BY <1>5 DEF Obey, TypeOK
  <2> QED
    BY <1>2, <1>4, <1>5, <2>1 DEF TypeOK
<1> QED
  BY <1>2, <1>3, <1>5

LEMMA NextType == TypeOK /\ [Next]_vars => TypeOK'
<1> SUFFICES ASSUME TypeOK, [Next]_vars PROVE TypeOK'
  OBVIOUS
<1>1. /\ InterfaceOK /\ Engine!TypeOK
      /\ gestures \in Nat /\ parted \in BOOLEAN /\ unread \subseteq Pads
  BY DEF TypeOK, InterfaceOK
<1>2. CASE Gesture
  <2>1. Engine!TypeOK'
    BY <1>1, <1>2, SameEngine DEF Gesture
  <2>2. InterfaceOK'
    BY <1>1, <1>2, AgreeingType, PartingType DEF Gesture
  <2>3. gestures' \in Nat
    BY <1>1, <1>2 DEF Gesture
  <2>4. parted' \in BOOLEAN /\ unread' \subseteq Pads
    BY <1>1, <1>2 DEF Gesture
  <2> QED
    BY <2>1, <2>2, <2>3, <2>4 DEF TypeOK, InterfaceOK
<1>3. CASE Execute
  BY <1>3, ExecuteType
<1>4. CASE Block
  <2>1. /\ Engine!TypeOK'
        /\ UNCHANGED <<grid, tracks, scenes, clipboard, gestures, parted, unread, commands>>
    BY <1>1, <1>4, BlockStep DEF Block, matrixVars
  <2> QED
    BY <1>1, <2>1 DEF TypeOK, InterfaceOK
<1>5. CASE UNCHANGED vars
  <2>1. /\ Engine!TypeOK'
        /\ UNCHANGED <<grid, tracks, scenes, clipboard, gestures, parted, unread, commands>>
    BY <1>1, <1>5, SameEngine DEF vars, matrixVars
  <2> QED
    BY <1>1, <2>1 DEF TypeOK, InterfaceOK
<1> QED
  BY <1>2, <1>3, <1>4, <1>5 DEF Next

\* The grid, the channel and the engine stay in their types under every
\* gesture of SessionMatrixState, every command and every block.
THEOREM TypeCorrect == Spec => []TypeOK
BY InitType, NextType, PTL DEF Spec

-----------------------------------------------------------------------------
(* Every pad that shows audio has its clip, or the clip is on its way, or   *)
(* its file could not be read.                                              *)

Delivers(cmds, p) == \E i \in DOMAIN cmds : cmds[i].op = "LoadClip" /\ cmds[i].pad = p

LEMMA DeliversAppend ==
    ASSUME NEW cmds \in Seq(Command), NEW c \in Command, NEW p
    PROVE  /\ Delivers(cmds, p) => Delivers(Append(cmds, c), p)
           /\ c.op = "LoadClip" /\ c.pad = p => Delivers(Append(cmds, c), p)
<1> DEFINE n == Len(cmds)
           more == Append(cmds, c)
<1>1. /\ n \in Nat /\ DOMAIN cmds = 1..n
      /\ Len(more) = n + 1 /\ more[n + 1] = c /\ \A i \in 1..n : more[i] = cmds[i]
      /\ more \in Seq(Command)
  BY AppendProperties, LenProperties
<1>2. DOMAIN more = 1..(n + 1)
  BY <1>1, LenProperties
<1> HIDE DEF n, more
<1>3. ASSUME Delivers(cmds, p) PROVE Delivers(more, p)
  <2>1. PICK i \in 1..n : cmds[i].op = "LoadClip" /\ cmds[i].pad = p
    BY <1>1, <1>3 DEF Delivers
  <2>2. i \in 1..(n + 1) /\ more[i] = cmds[i]
    BY <1>1, <2>1
  <2> QED
    BY <1>2, <2>1, <2>2 DEF Delivers
<1>4. ASSUME c.op = "LoadClip", c.pad = p PROVE Delivers(more, p)
  <2>1. n + 1 \in 1..(n + 1)
    BY <1>1
  <2> QED
    BY <1>1, <1>2, <1>4, <2>1 DEF Delivers
<1> QED
  BY <1>3, <1>4 DEF more

LEMMA DeliversTail ==
    ASSUME NEW cmds \in Seq(Command), cmds # <<>>, NEW p, Delivers(cmds, p)
    PROVE  \/ Head(cmds).op = "LoadClip" /\ Head(cmds).pad = p
           \/ Delivers(Tail(cmds), p)
<1> DEFINE n == Len(cmds)
           rest == Tail(cmds)
<1>1. /\ n \in Nat /\ DOMAIN cmds = 1..n /\ Head(cmds) = cmds[1]
  BY LenProperties
<1>2. /\ rest \in Seq(Command) /\ Len(rest) = n - 1
      /\ \A i \in 1..Len(rest) : rest[i] = cmds[i + 1]
  BY HeadTailProperties
<1>3. DOMAIN rest = 1..(n - 1)
  BY <1>2, LenProperties
<1>4. PICK i \in 1..n : cmds[i].op = "LoadClip" /\ cmds[i].pad = p
  BY <1>1 DEF Delivers
<1> HIDE DEF n, rest
<1>5. CASE i = 1
  BY <1>1, <1>4, <1>5
<1>6. CASE i # 1
  <2>1. i - 1 \in 1..(n - 1) /\ (i - 1) + 1 = i
    BY <1>1, <1>4, <1>6
  <2>2. rest[i - 1] = cmds[i]
    BY <1>2, <2>1
  <2>3. Delivers(rest, p)
    BY <1>3, <1>4, <2>1, <2>2 DEF Delivers
  <2> QED
    BY <2>3 DEF rest
<1> QED
  BY <1>5, <1>6

LEMMA SendDelivers ==
    ASSUME commands \in Seq(Command), NEW c \in Command, Send(c)
    PROVE  /\ \A p : Delivers(commands, p) => Delivers(commands', p)
           /\ c.op = "LoadClip" => Delivers(commands', c.pad)
BY DeliversAppend DEF Send

\* The pads whose clip the engine was asked to load and has, or could not.
Answered == loaded \union unread
Backed(p) == p \in Answered \/ Delivers(commands, p)

LEMMA BackedIs == EveryAudioPadLoaded <=> \A p \in AudioPads : Backed(p)
BY DEF EveryAudioPadLoaded, Answered, Backed, Delivers

\* A gesture that empties nothing from the channel and backs the pads on which
\* it puts audio.
LEMMA StayBacked ==
    ASSUME \A p \in AudioPads : Backed(p), Answered' = Answered,
           \A p : Delivers(commands, p) => Delivers(commands', p),
           \A p \in AudioPads' : p \in AudioPads \/ Delivers(commands', p)
    PROVE  \A p \in AudioPads' : Backed(p)'
BY DEF Backed, Delivers

\* What a gesture owes the pads on which it puts audio.
Backs ==
    /\ \A p : Delivers(commands, p) => Delivers(commands', p)
    /\ \A p \in Pads : grid'[p].content = "audio" =>
          grid[p].content = "audio" \/ Delivers(commands', p)

LEMMA LightingIs ==
    ASSUME grid \in [Pads -> Slot], NEW P \in SUBSET Pads, NEW q \in Pads
    PROVE  /\ Lighting(P)[q].content = grid[q].content
           /\ Lighting(P)[q].state = "Playing" <=>
                 \/ q \in P
                 \/ grid[q].state = "Playing" /\ ~ \E p \in P : p[1] = q[1]
<1>1. grid[q] \in Slot
  OBVIOUS
<1>2. Lighting(P)[q] = IF q \in P THEN [grid[q] EXCEPT !.state = "Playing"]
                       ELSE IF grid[q].state = "Playing" /\ \E p \in P : p[1] = q[1]
                            THEN [grid[q] EXCEPT !.state = "Stopped"]
                            ELSE grid[q]
  BY DEF Lighting
<1>3. CASE q \in P
  BY <1>1, <1>2, <1>3 DEF Slot
<1>4. CASE q \notin P /\ grid[q].state = "Playing" /\ \E p \in P : p[1] = q[1]
  BY <1>1, <1>2, <1>4 DEF Slot
<1>5. CASE q \notin P /\ ~(grid[q].state = "Playing" /\ \E p \in P : p[1] = q[1])
  BY <1>1, <1>2, <1>5 DEF Slot
<1> QED
  BY <1>3, <1>4, <1>5

\* Two slots of the grid: their state changes, their content stays.
LEMMA SlotIs ==
    ASSUME NEW slot \in Slot
    PROVE  /\ [slot EXCEPT !.state = "Stopped"].content = slot.content
           /\ [slot EXCEPT !.state = "Stopped"].state = "Stopped"
           /\ EmptySlot.content = "none" /\ EmptySlot.state = "Empty"
           /\ \A content : /\ StoppedSlot(content).content = content
                           /\ StoppedSlot(content).state = "Stopped"
BY DEF Slot, EmptySlot, StoppedSlot

LEMMA CopyBacks ==
    ASSUME InterfaceOK, NEW p \in Pads, NEW n \in Lengths, NEW slot \in Slot,
           grid' = [grid EXCEPT ![p] = slot], LoadCopy(p, slot.content, n)
    PROVE  Backs
<1>1. commands \in Seq(Command) /\ grid \in [Pads -> Slot]
  BY DEF InterfaceOK
<1>2. CASE slot.content = "audio"
  <2> DEFINE c == [op |-> "LoadClip", pad |-> p, length |-> n]
  <2>1. c \in Command /\ Send(c) /\ c.op = "LoadClip" /\ c.pad = p
    BY <1>2, CommandTypes DEF LoadCopy
  <2> HIDE DEF c
  <2>2. /\ \A q : Delivers(commands, q) => Delivers(commands', q)
        /\ Delivers(commands', p)
    BY <1>1, <2>1, SendDelivers
  <2> QED
    BY <1>1, <2>2 DEF Backs
<1>3. CASE slot.content # "audio"
  BY <1>1, <1>3 DEF LoadCopy, Backs
<1> QED
  BY <1>2, <1>3

LEMMA DuplicateBacks ==
    ASSUME InterfaceOK, NEW t \in Tracks, NEW s \in Scenes, NEW n \in Lengths,
           DuplicateSlot(t, s, n)
    PROVE  Backs
<1>1. <<t, s>> \in Pads /\ <<t, s + 1>> \in Pads
  BY BelowIsAPad DEF DuplicateSlot
<1>2. /\ grid' = [grid EXCEPT ![<<t, s + 1>>] = grid[<<t, s>>]]
      /\ LoadCopy(<<t, s + 1>>, grid[<<t, s>>].content, n) /\ grid[<<t, s>>] \in Slot
  BY <1>1 DEF DuplicateSlot, InterfaceOK
<1> QED
  BY <1>1, <1>2, CopyBacks

LEMMA LoadClipBacks ==
    ASSUME InterfaceOK, NEW p \in Pads, NEW n \in Lengths, NEW decoded \in BOOLEAN,
           LoadClipIntoSlot(p, n, decoded)
    PROVE  Backs
<1>1. commands \in Seq(Command) /\ grid \in [Pads -> Slot]
  BY DEF InterfaceOK
<1>2. CASE grid[p].content = "audio"
  <2> DEFINE c == [op |-> IF decoded THEN "SetClipEvents" ELSE "LoadClip",
                   pad |-> p, length |-> n]
  <2>1. c \in Command /\ Send(c) /\ grid' = grid
    BY <1>2, CommandTypes DEF LoadClipIntoSlot
  <2> HIDE DEF c
  <2> QED
    BY <1>1, <2>1, SendDelivers DEF Backs
<1>3. CASE grid[p].content # "audio"
  <2>1. /\ grid' = [grid EXCEPT ![p] = StoppedSlot("audio")]
        /\ StoppedSlot("audio") \in Slot /\ StoppedSlot("audio").content = "audio"
    BY <1>3, SlotTypes DEF LoadClipIntoSlot, StoppedSlot
  <2>2. LoadCopy(p, StoppedSlot("audio").content, n)
    BY <1>3, <2>1 DEF LoadClipIntoSlot, LoadCopy
  <2> QED
    BY <2>1, <2>2, CopyBacks
<1> QED
  BY <1>2, <1>3

LEMMA AgreeingBacks == InterfaceOK /\ Agreeing => Backs
<1> SUFFICES ASSUME InterfaceOK, Agreeing PROVE Backs
  OBVIOUS
<1>1. commands \in Seq(Command) /\ grid \in [Pads -> Slot]
  BY DEF InterfaceOK
<1>2. ASSUME NEW c \in Command, Send(c), \A q \in Pads : grid'[q].content = grid[q].content
      PROVE  Backs
  BY <1>1, <1>2, SendDelivers DEF Backs
<1>3. ASSUME NEW p \in Pads, TriggerPad(p) PROVE Backs
  <2> DEFINE c == [op |-> "TriggerClip", pad |-> p, stops |-> p \in Lit]
  <2>1. c \in Command /\ Send(c)
    <3>1. (p \in Lit) \in BOOLEAN
      OBVIOUS
    <3> QED
      BY <1>3, <3>1, CommandTypes DEF TriggerPad
  <2> HIDE DEF c
  <2>2. ASSUME NEW q \in Pads PROVE grid'[q].content = grid[q].content
    <3>1. CASE p \in Lit
      <4>1. grid' = [grid EXCEPT ![p].state = "Stopped"]
        BY <1>3, <3>1 DEF TriggerPad
      <4> QED
        BY <1>1, <4>1, SlotIs
    <3>2. CASE p \notin Lit
      BY <1>1, <1>3, <3>2, LightingIs DEF TriggerPad
    <3> QED
      BY <3>1, <3>2
  <2> QED
    BY <1>2, <2>1, <2>2
<1>4. ASSUME NEW s \in Scenes, TriggerScene(s) PROVE Backs
  <2> DEFINE c == [op |-> "TriggerScene", scene |-> s]
             P == {p \in Tracks \X {s} : HasClip(p)}
  <2>1. c \in Command /\ Send(c) /\ P \in SUBSET Pads /\ grid' = Lighting(P)
    BY <1>4, CommandTypes DEF TriggerScene, Pads
  <2> HIDE DEF c, P
  <2>2. \A q \in Pads : grid'[q].content = grid[q].content
    BY <1>1, <2>1, LightingIs
  <2> QED
    BY <1>2, <2>1, <2>2
<1>6. ASSUME NEW p \in Pads, NEW n \in Lengths, PasteSlot(p, n) PROVE Backs
  <2>1. /\ grid' = [grid EXCEPT ![p] = StoppedSlot(clipboard)]
        /\ StoppedSlot(clipboard) \in Slot /\ StoppedSlot(clipboard).content = clipboard
    BY <1>6, SlotTypes DEF PasteSlot, StoppedSlot, InterfaceOK
  <2>2. LoadCopy(p, StoppedSlot(clipboard).content, n)
    BY <1>6, <2>1 DEF PasteSlot
  <2> QED
    BY <2>1, <2>2, CopyBacks
<1>8. ASSUME NEW p \in Pads, SwitchLoop(p, TRUE) PROVE Backs
  BY <1>2, <1>8, CommandTypes DEF SwitchLoop
<1>9. ASSUME NEW state \in {"Stopped", "Paused", "Playing"}, TransportButton(state) PROVE Backs
  BY <1>2, <1>9, CommandTypes DEF TransportButton
<1>10. ASSUME NEW t, NEW s, Resize(t, s) PROVE Backs
  BY <1>1, <1>10, SlotIs DEF Resize, Resized, Backs, EmptySlot
<1>11. ASSUME NEW p \in Pads, CopySlot(p) PROVE Backs
  BY <1>11 DEF CopySlot, Backs
<1> QED
  BY <1>3, <1>4, <1>6, <1>8, <1>9, <1>10, <1>11, LoadClipBacks, DuplicateBacks
     DEF Agreeing, AddTrack, AddScene

LEMMA PartingBacks == InterfaceOK /\ Parting => Backs
<1> SUFFICES ASSUME InterfaceOK, Parting PROVE Backs
  OBVIOUS
<1>1. commands \in Seq(Command) /\ grid \in [Pads -> Slot]
  BY DEF InterfaceOK
<1>2. ASSUME NEW p \in Pads, LoadMidiIntoSlot(p) PROVE Backs
  BY <1>1, <1>2, SlotIs DEF LoadMidiIntoSlot, Backs
<1>3. ASSUME NEW p \in Pads, ClearSlot(p) PROVE Backs
  <2>1. grid' = [grid EXCEPT ![p] = EmptySlot] /\ EmptySlot.content # "audio"
    BY <1>3 DEF ClearSlot, EmptySlot
  <2>2. ASSUME NEW q \in Pads, grid'[q].content = "audio" PROVE grid[q].content = "audio"
    BY <1>1, <2>1, <2>2
  <2>3. \A q : Delivers(commands, q) => Delivers(commands', q)
    <3> DEFINE c == [op |-> "TriggerClip", pad |-> p, stops |-> TRUE]
    <3>1. c \in Command
      BY CommandTypes
    <3>2. Send(c) \/ commands' = commands
      BY <1>3 DEF ClearSlot
    <3> HIDE DEF c
    <3> QED
      BY <1>1, <3>1, <3>2, SendDelivers
  <2> QED
    BY <2>2, <2>3 DEF Backs
<1>4. ASSUME NEW p \in Pads, StopOnEmptyPad(p) PROVE Backs
  <2> DEFINE c == [op |-> "StopTrack", track |-> p[1]]
  <2>1. c \in Command /\ Send(c)
    <3>1. p[1] \in Tracks
      BY DEF Pads
    <3> QED
      BY <1>4, <3>1, CommandTypes DEF StopOnEmptyPad
  <2> HIDE DEF c
  <2>2. ASSUME NEW q \in Pads PROVE grid'[q].content = grid[q].content
    <3>1. grid' = [grid EXCEPT ![p].state = "Stopped"]
      BY <1>4 DEF StopOnEmptyPad
    <3> QED
      BY <1>1, <3>1, SlotIs
  <2> QED
    BY <1>1, <2>1, <2>2, SendDelivers DEF Backs
<1>5. ASSUME NEW p \in Pads, SwitchLoop(p, FALSE) PROVE Backs
  <2> DEFINE c == [op |-> "SetClipLoop", pad |-> p, enabled |-> FALSE]
  <2>1. c \in Command /\ Send(c) /\ grid' = grid
    BY <1>5, CommandTypes DEF SwitchLoop
  <2> HIDE DEF c
  <2> QED
    BY <1>1, <2>1, SendDelivers DEF Backs
<1>6. ASSUME NEW t, NEW s, Resize(t, s) PROVE Backs
  BY <1>1, <1>6, SlotIs DEF Resize, Resized, Backs, EmptySlot
<1> QED
  BY <1>2, <1>3, <1>4, <1>5, <1>6, LoadClipBacks, DuplicateBacks
     DEF Parting, CutSlot, DeleteSlot, RemoveTrack, RemoveScene, Lit

\* The command that leaves the channel has delivered what it carried, or could
\* not read it.
LEMMA ExecuteDelivers ==
    ASSUME TypeOK, Execute
    PROVE  /\ Answered \subseteq Answered'
           /\ \A p : Delivers(commands, p) => p \in Answered' \/ Delivers(commands', p)
<1> DEFINE c == Head(commands)
<1>1. commands \in Seq(Command) /\ Engine!TypeOK
  BY DEF TypeOK
<1>2. /\ commands # <<>> /\ commands' = Tail(commands) /\ c \in Command
      /\ FailLoad(c) \/ Obey(c)
  BY <1>1, ExecuteTakes
<1>5. ASSUME FailLoad(c) PROVE Answered \subseteq Answered' /\ c.pad \in Answered'
  BY <1>2, <1>5, FailLoadStep DEF Answered
<1>6. ASSUME Obey(c)
      PROVE  /\ Answered \subseteq Answered'
             /\ c.op = "LoadClip" => c.pad \in Answered'
  <2>1. \/ c.op = "LoadClip" /\ loaded' = loaded \union {c.pad}
        \/ c.op # "LoadClip" /\ loaded' = loaded
    <3>1. \/ c.op = "TriggerClip" /\ Engine!TriggerClip(c.pad[1], c.pad[2])
          \/ c.op = "TriggerScene" /\ Engine!TriggerScene(c.scene)
          \/ c.op = "LoadClip" /\ Engine!LoadClip(c.pad, c.length)
          \/ c.op = "SetClipEvents" /\ Engine!SetClipEvents(c.pad, c.length)
          \/ c.op = "StopTrack" /\ Engine!StopTrack(c.track)
          \/ c.op = "SetClipLoop" /\ Engine!SetClipLoop(c.pad, <<0, 0>>, c.enabled)
          \/ c.op = "SetTransport" /\ Engine!SetTransport(c.state)
      BY <1>6 DEF Obey
    <3> HIDE DEF c
    <3>2. CASE c.op = "TriggerClip" /\ Engine!TriggerClip(c.pad[1], c.pad[2])
      BY <3>2 DEF Engine!TriggerClip
    <3>3. CASE c.op = "TriggerScene" /\ Engine!TriggerScene(c.scene)
      BY <3>3 DEF Engine!TriggerScene
    <3>4. CASE c.op = "LoadClip" /\ Engine!LoadClip(c.pad, c.length)
      BY <3>4 DEF Engine!LoadClip
    <3>5. CASE c.op = "SetClipEvents" /\ Engine!SetClipEvents(c.pad, c.length)
      BY <3>5 DEF Engine!SetClipEvents
    <3>6. CASE c.op = "StopTrack" /\ Engine!StopTrack(c.track)
      BY <3>6 DEF Engine!StopTrack
    <3>7. CASE c.op = "SetClipLoop" /\ Engine!SetClipLoop(c.pad, <<0, 0>>, c.enabled)
      BY <3>7 DEF Engine!SetClipLoop
    <3>8. CASE c.op = "SetTransport" /\ Engine!SetTransport(c.state)
      BY <3>8 DEF Engine!SetTransport, Engine!clipVars
    <3> QED
      BY <3>1, <3>2, <3>3, <3>4, <3>5, <3>6, <3>7, <3>8
  <2>2. unread' = IF c.op = "LoadClip" THEN unread \ {c.pad} ELSE unread
    BY <1>6 DEF Obey
  <2> HIDE DEF c
  <2> QED
    BY <2>1, <2>2 DEF Answered
<1>3. /\ Answered \subseteq Answered'
      /\ c.op = "LoadClip" => c.pad \in Answered'
  BY <1>2, <1>5, <1>6
<1>4. \A p : Delivers(commands, p) => p \in Answered' \/ Delivers(commands', p)
  BY <1>1, <1>2, <1>3, DeliversTail
<1> QED
  BY <1>3, <1>4

LEMMA NextBacked == TypeOK /\ EveryAudioPadLoaded /\ [Next]_vars => EveryAudioPadLoaded'
<1> SUFFICES ASSUME TypeOK, EveryAudioPadLoaded, [Next]_vars
             PROVE  \A p \in AudioPads' : p \in Answered' \/ Delivers(commands', p)
  BY DEF EveryAudioPadLoaded, Answered, Delivers
<1>1. InterfaceOK /\ Engine!TypeOK
  BY DEF TypeOK, InterfaceOK
<1>2. \A p \in Pads : grid[p].content = "audio" => p \in Answered \/ Delivers(commands, p)
  BY DEF EveryAudioPadLoaded, Answered, Delivers, AudioPads
<1>3. CASE Gesture
  <2>1. Backs /\ Answered' = Answered
    BY <1>1, <1>3, AgreeingBacks, PartingBacks DEF Gesture, engineVars, Answered
  <2> QED
    BY <1>2, <2>1 DEF Backs, AudioPads
<1>4. CASE Execute
  <2>1. grid' = grid
    BY <1>4 DEF Execute, matrixVars
  <2> QED
    BY <1>2, <1>4, <2>1, ExecuteDelivers DEF AudioPads
<1>5. CASE Block \/ UNCHANGED vars
  <2>1. grid' = grid /\ commands' = commands /\ Answered' = Answered
    BY <1>1, <1>5, BlockStep DEF Block, vars, matrixVars, engineVars, Answered
  <2> QED
    BY <1>2, <2>1 DEF AudioPads
<1> QED
  BY <1>3, <1>4, <1>5 DEF Next

\* Whatever the gestures, a pad that shows audio has an AudioClipInstance in
\* the engine, or a LoadClip before it, or its last LoadClip found no file it
\* could read: no way to fill a pad forgets the engine, and nothing that is
\* executed takes a clip away.
THEOREM AudioPadsBacked == Spec => []EveryAudioPadLoaded
<1>1. Init => EveryAudioPadLoaded
  BY DEF Init, EveryAudioPadLoaded, AudioPads, EmptySlot
<1> QED
  BY <1>1, InitType, NextType, NextBacked, PTL DEF Spec

-----------------------------------------------------------------------------
(* The commands on their way lead the engine, one by one, to what the grid  *)
(* already shows: what makes GridShowsEngine inductive.                     *)

\* The clips and the voices of the engine, or of the grid.
States == [loaded : SUBSET Pads, playing : SUBSET Pads]

\* A command finds the engine as the click that sent it expected it.
Leads(before, c, after) ==
    \/ /\ c.op = "TriggerClip"
       /\ c.pad \in before.loaded /\ (c.stops <=> c.pad \in before.playing)
       /\ after.loaded = before.loaded
       /\ after.playing = (before.playing \ Engine!PadsOf(c.pad[1]))
                          \union (IF c.stops THEN {} ELSE {c.pad})
    \/ /\ c.op = "TriggerScene"
       /\ after.loaded = before.loaded
       /\ LET row == Engine!RowOf(c.scene) \intersect before.loaded
          IN  after.playing = row \union {p \in before.playing : <<p[1], c.scene>> \notin row}
    \/ /\ c.op = "LoadClip"
       /\ after.loaded = before.loaded \union {c.pad}
       /\ after.playing = before.playing \ {c.pad}
    \/ /\ \/ c.op \in {"SetClipEvents", "SetTransport"}
          \/ c.op = "SetClipLoop" /\ c.enabled
       /\ after.loaded = before.loaded /\ after.playing = before.playing

Reaches(state, cmds, end) ==
    \E h \in [0 .. Len(cmds) -> States] :
        /\ h[0] = state /\ h[Len(cmds)] = end
        /\ \A i \in 1 .. Len(cmds) : Leads(h[i - 1], cmds[i], h[i])

LEMMA ReachesNothing ==
    ASSUME NEW state \in States, NEW end \in States
    PROVE  Reaches(state, <<>>, end) <=> state = end
<1>1. ASSUME Reaches(state, <<>>, end) PROVE state = end
  BY <1>1 DEF Reaches
<1>2. Reaches(state, <<>>, state)
  <2> DEFINE h == [i \in 0 .. 0 |-> state]
  <2>1. h \in [0 .. Len(<<>>) -> States] /\ h[0] = state /\ Len(<<>>) = 0
    OBVIOUS
  <2> HIDE DEF h
  <2> QED
    BY <2>1 DEF Reaches
<1> QED
  BY <1>1, <1>2

LEMMA ReachesAppend ==
    ASSUME NEW state \in States, NEW cmds \in Seq(Command), NEW mid \in States,
           Reaches(state, cmds, mid), NEW c \in Command, NEW end \in States, Leads(mid, c, end)
    PROVE  Reaches(state, Append(cmds, c), end)
<1> DEFINE n == Len(cmds)
           more == Append(cmds, c)
<1>1. PICK h \in [0 .. n -> States] :
        /\ h[0] = state /\ h[n] = mid
        /\ \A i \in 1 .. n : Leads(h[i - 1], cmds[i], h[i])
  BY DEF Reaches
<1>2. n \in Nat
  BY LenProperties
<1>3. Len(more) = n + 1 /\ more[n + 1] = c /\ \A i \in 1 .. n : more[i] = cmds[i]
  BY AppendProperties
<1> HIDE DEF n, more
<1> DEFINE g == [i \in 0 .. (n + 1) |-> IF i <= n THEN h[i] ELSE end]
<1>4. g \in [0 .. (n + 1) -> States]
  BY <1>2
<1>5. /\ \A i \in 0 .. n : g[i] = h[i]
      /\ g[n + 1] = end
  BY <1>2
<1> HIDE DEF g
<1>6. ASSUME NEW i \in 1 .. (n + 1) PROVE Leads(g[i - 1], more[i], g[i])
  <2>1. CASE i <= n
    <3>1. i \in 1 .. n /\ i \in 0 .. n /\ i - 1 \in 0 .. n
      BY <1>2, <2>1
    <3> QED
      BY <1>1, <1>3, <1>5, <3>1
  <2>2. CASE i = n + 1
    <3>1. i - 1 = n /\ n \in 0 .. n
      BY <1>2, <2>2
    <3>2. g[i - 1] = mid /\ g[i] = end /\ more[i] = c
      BY <1>1, <1>3, <1>5, <2>2, <3>1
    <3> QED
      BY <3>2
  <2>3. i <= n \/ i = n + 1
    BY <1>2
  <2> QED
    BY <2>1, <2>2, <2>3, Zenon
<1>7. g[0] = state
  BY <1>1, <1>2, <1>5
<1>8. Reaches(state, more, end)
  BY <1>3, <1>4, <1>5, <1>6, <1>7 DEF Reaches
<1> QED
  BY <1>8 DEF more

LEMMA ReachesTail ==
    ASSUME NEW state \in States, NEW cmds \in Seq(Command), cmds # <<>>, NEW end \in States,
           Reaches(state, cmds, end)
    PROVE  \E mid \in States : /\ Leads(state, Head(cmds), mid)
                               /\ Reaches(mid, Tail(cmds), end)
<1> DEFINE n == Len(cmds)
           rest == Tail(cmds)
<1>1. PICK h \in [0 .. n -> States] :
        /\ h[0] = state /\ h[n] = end
        /\ \A i \in 1 .. n : Leads(h[i - 1], cmds[i], h[i])
  BY DEF Reaches
<1>2. n \in Nat /\ n >= 1 /\ Head(cmds) = cmds[1]
  BY EmptySeq, LenProperties
<1>3. Len(rest) = n - 1 /\ \A i \in 1 .. (n - 1) : rest[i] = cmds[i + 1]
  <2>1. Len(rest) = n - 1 /\ \A i \in 1 .. Len(rest) : rest[i] = cmds[i + 1]
    BY HeadTailProperties
  <2> QED
    BY <2>1
<1> HIDE DEF n, rest
<1> DEFINE g == [i \in 0 .. (n - 1) |-> h[i + 1]]
<1>4. /\ g \in [0 .. (n - 1) -> States]
      /\ \A i \in 0 .. (n - 1) : g[i] = h[i + 1]
  BY <1>2
<1> HIDE DEF g
<1>5. h[1] \in States /\ Leads(state, Head(cmds), h[1])
  <2>1. 1 \in 0 .. n /\ 1 \in 1 .. n /\ 1 - 1 = 0
    BY <1>2
  <2> QED
    BY <1>1, <1>2, <2>1
<1>6. ASSUME NEW i \in 1 .. (n - 1) PROVE Leads(g[i - 1], rest[i], g[i])
  <2>1. /\ i \in 0 .. (n - 1) /\ i - 1 \in 0 .. (n - 1) /\ (i - 1) + 1 = i
        /\ i + 1 \in 1 .. n /\ (i + 1) - 1 = i
    BY <1>2
  <2>2. g[i - 1] = h[i] /\ g[i] = h[i + 1] /\ rest[i] = cmds[i + 1]
    BY <1>3, <1>4, <2>1
  <2>3. Leads(h[(i + 1) - 1], cmds[i + 1], h[i + 1])
    BY <1>1, <2>1
  <2> QED
    BY <2>1, <2>2, <2>3
<1>7. g[0] = h[1] /\ g[n - 1] = end
  <2>1. 0 \in 0 .. (n - 1) /\ n - 1 \in 0 .. (n - 1) /\ (n - 1) + 1 = n /\ 0 + 1 = 1
    BY <1>2
  <2> QED
    BY <1>1, <1>4, <2>1
<1>8. Reaches(h[1], rest, end)
  BY <1>3, <1>4, <1>6, <1>7 DEF Reaches
<1> QED
  BY <1>5, <1>8 DEF rest

\* Until a gesture parts the two, the grid holds audio only, what is lit holds
\* audio, and no two pads of a track are lit.
Alike ==
    /\ \A p \in Pads : grid[p].content # "midi"
    /\ clipboard # "midi"
    /\ AudioPads \subseteq Shown /\ Lit \subseteq AudioPads
    /\ \A p, q \in Lit : p[1] = q[1] => p = q

Shows == [loaded |-> AudioPads, playing |-> Lit]
Sounds == [loaded |-> loaded, playing |-> playing]

\* The channel and what the grid shows move together.
Moves ==
    \/ commands' = commands /\ Shows' = Shows
    \/ \E c \in Command : Send(c) /\ Leads(Shows, c, Shows')

LEMMA ShowsType == Shows \in States
BY DEF Shows, States, AudioPads, Lit

\* The pads of P light up, the others of their tracks go out.
LEMMA Relit ==
    ASSUME InterfaceOK, Alike, NEW P \in SUBSET AudioPads, grid' = Lighting(P),
           \A p, q \in P : p[1] = q[1] => p = q, UNCHANGED <<tracks, scenes, clipboard>>
    PROVE  /\ AudioPads' = AudioPads /\ Alike'
           /\ Lit' = P \union {q \in Lit : ~ \E p \in P : p[1] = q[1]}
<1>1. grid \in [Pads -> Slot] /\ P \in SUBSET Pads
  BY DEF InterfaceOK, AudioPads
<1>2. \A q \in Pads :
        /\ grid'[q].content = grid[q].content
        /\ grid'[q].state = "Playing" <=>
              \/ q \in P
              \/ grid[q].state = "Playing" /\ ~ \E p \in P : p[1] = q[1]
  BY <1>1, LightingIs
<1>3. AudioPads' = AudioPads
  BY <1>2 DEF AudioPads
<1>4. Lit' = P \union {q \in Lit : ~ \E p \in P : p[1] = q[1]}
  BY <1>1, <1>2 DEF Lit
<1>5. Shown' = Shown
  BY DEF Shown
<1>6. ASSUME NEW p \in Lit', NEW q \in Lit', p[1] = q[1] PROVE p = q
  BY <1>4, <1>6 DEF Alike
<1>7. Lit' \subseteq AudioPads'
  BY <1>3, <1>4 DEF Alike
<1> QED
  BY <1>2, <1>3, <1>4, <1>5, <1>6, <1>7 DEF Alike

\* One pad gets a clip that does not play, or goes out.
LEMMA Refilled ==
    ASSUME InterfaceOK, Alike, NEW p \in Pads, p \in Shown, NEW slot,
           grid' = [grid EXCEPT ![p] = slot], slot.content = "audio", slot.state # "Playing",
           UNCHANGED <<tracks, scenes, clipboard>>
    PROVE  /\ AudioPads' = AudioPads \union {p} /\ Lit' = Lit \ {p} /\ Alike'
<1>1. \A q \in Pads : grid'[q] = IF q = p THEN slot ELSE grid[q]
  BY DEF InterfaceOK
<1>2. AudioPads' = AudioPads \union {p}
  BY <1>1 DEF AudioPads
<1>3. Lit' = Lit \ {p}
  BY <1>1 DEF Lit
<1>4. Shown' = Shown
  BY DEF Shown
<1>5. \A q \in Pads : grid'[q].content # "midi"
  BY <1>1 DEF Alike
<1>6. Lit' \subseteq AudioPads' /\ AudioPads' \subseteq Shown'
  BY <1>2, <1>3, <1>4 DEF Alike
<1>7. \A a, b \in Lit' : a[1] = b[1] => a = b
  BY <1>3 DEF Alike
<1> QED
  BY <1>2, <1>3, <1>5, <1>6, <1>7 DEF Alike

\* A pad that has a clip has audio.
LEMMA ClipIsAudio ==
    ASSUME InterfaceOK, Alike, NEW p \in Pads, HasClip(p)
    PROVE  p \in AudioPads /\ p \in Shown /\ grid[p].content = "audio"
<1>1. grid[p] \in Slot
  BY DEF InterfaceOK
<1>2. grid[p].content \in {"none", "audio", "midi"}
  BY <1>1 DEF Slot
<1> QED
  BY <1>2 DEF HasClip, Alike, AudioPads

\* The pads of a track.
LEMMA PadsOfIs ==
    ASSUME NEW p \in Pads, NEW q \in Pads
    PROVE  q \in Engine!PadsOf(p[1]) <=> q[1] = p[1]
BY DEF Engine!PadsOf, Pads

LEMMA TriggerPadMoves ==
    ASSUME InterfaceOK, Alike, NEW p \in Pads, TriggerPad(p)
    PROVE  Alike' /\ Moves
<1> DEFINE c == [op |-> "TriggerClip", pad |-> p, stops |-> p \in Lit]
<1>1. /\ c \in Command /\ Send(c) /\ c.op = "TriggerClip" /\ c.pad = p
      /\ c.stops <=> p \in Lit
  <2>1. (p \in Lit) \in BOOLEAN
    OBVIOUS
  <2> QED
    BY <2>1, CommandTypes DEF TriggerPad
<1>2. /\ p \in AudioPads /\ p \in Shown /\ grid[p].content = "audio"
      /\ UNCHANGED <<tracks, scenes, clipboard>>
  BY ClipIsAudio DEF TriggerPad
<1> HIDE DEF c
<1>3. CASE p \in Lit
  <2> DEFINE slot == [grid[p] EXCEPT !.state = "Stopped"]
  <2>1. grid' = [grid EXCEPT ![p] = slot] /\ slot.content = "audio" /\ slot.state # "Playing"
    <3>1. grid[p] \in Slot
      BY DEF InterfaceOK
    <3>2. grid' = [grid EXCEPT ![p].state = "Stopped"]
      BY <1>3 DEF TriggerPad
    <3> QED
      BY <1>2, <3>1, <3>2, SlotIs
  <2> HIDE DEF slot
  <2>2. AudioPads' = AudioPads \union {p} /\ Lit' = Lit \ {p} /\ Alike'
    BY <1>2, <2>1, Refilled
  <2>3. \A q \in Lit : q \in Pads /\ (q \in Engine!PadsOf(p[1]) <=> q = p)
    BY <1>3, PadsOfIs DEF Alike, Lit
  <2>4. Lit \ {p} = Lit \ Engine!PadsOf(p[1])
    BY <2>3
  <2>5. Leads(Shows, c, Shows')
    BY <1>1, <1>2, <1>3, <2>2, <2>4 DEF Leads, Shows
  <2> QED
    BY <1>1, <2>2, <2>5 DEF Moves
<1>4. CASE p \notin Lit
  <2>1. grid' = Lighting({p})
    BY <1>4 DEF TriggerPad
  <2>2. /\ AudioPads' = AudioPads /\ Alike'
        /\ Lit' = {p} \union {q \in Lit : ~ \E r \in {p} : r[1] = q[1]}
    BY <1>2, <2>1, Relit
  <2>3. Lit \subseteq Pads
    BY DEF Lit
  <2>4. {q \in Lit : ~ \E r \in {p} : r[1] = q[1]} = Lit \ Engine!PadsOf(p[1])
    BY <2>3, PadsOfIs
  <2>5. Lit' = (Lit \ Engine!PadsOf(p[1])) \union {p}
    BY <2>2, <2>4
  <2>6. Leads(Shows, c, Shows')
    BY <1>1, <1>2, <1>4, <2>2, <2>5 DEF Leads, Shows
  <2> QED
    BY <1>1, <2>2, <2>6 DEF Moves
<1> QED
  BY <1>3, <1>4

LEMMA TriggerSceneMoves ==
    ASSUME InterfaceOK, Alike, NEW s \in Scenes, TriggerScene(s)
    PROVE  Alike' /\ Moves
<1> DEFINE c == [op |-> "TriggerScene", scene |-> s]
           P == {p \in Tracks \X {s} : HasClip(p)}
           row == Engine!RowOf(s) \intersect AudioPads
<1>1. /\ c \in Command /\ Send(c) /\ c.op = "TriggerScene" /\ c.scene = s
      /\ grid' = Lighting(P) /\ UNCHANGED <<tracks, scenes, clipboard>>
  BY CommandTypes DEF TriggerScene
<1>2. P = row
  <2>1. ASSUME NEW p \in P PROVE p \in row
    <3>1. p \in Tracks \X {s} /\ p \in Pads /\ HasClip(p)
      BY DEF Pads
    <3> QED
      BY <3>1, ClipIsAudio DEF Engine!RowOf
  <2>2. ASSUME NEW p \in row PROVE p \in P
    <3>1. p \in Tracks \X {s} /\ p \in AudioPads /\ p \in Shown
      BY DEF Engine!RowOf, Alike
    <3> QED
      BY <3>1 DEF HasClip, AudioPads
  <2> QED
    BY <2>1, <2>2
<1>3. /\ row \in SUBSET AudioPads
      /\ \A p \in row : p[1] \in Tracks /\ p = <<p[1], s>>
  BY DEF Engine!RowOf
<1>4. \A p, q \in row : p[1] = q[1] => p = q
  BY <1>3
<1> HIDE DEF c, P, row
<1>5. /\ AudioPads' = AudioPads /\ Alike'
      /\ Lit' = row \union {q \in Lit : ~ \E p \in row : p[1] = q[1]}
  BY <1>1, <1>2, <1>3, <1>4, Relit
<1>6. \A q \in Lit : (\E p \in row : p[1] = q[1]) <=> <<q[1], s>> \in row
  BY <1>3
<1>7. Lit' = row \union {q \in Lit : <<q[1], s>> \notin row}
  BY <1>5, <1>6
<1>8. Leads(Shows, c, Shows')
  BY <1>1, <1>5, <1>7 DEF Leads, Shows, row
<1> QED
  BY <1>1, <1>5, <1>8 DEF Moves

\* A sample on its own pad, an audio slot pasted or duplicated: the clip that
\* is sent is loaded, stopped.
LEMMA FillMoves ==
    ASSUME InterfaceOK, Alike, NEW p \in Pads, p \in Shown, NEW n \in Lengths, NEW slot,
           grid' = [grid EXCEPT ![p] = slot], slot.content = "audio", slot.state # "Playing",
           Send([op |-> "LoadClip", pad |-> p, length |-> n]),
           UNCHANGED <<tracks, scenes, clipboard>>
    PROVE  Alike' /\ Moves
<1> DEFINE c == [op |-> "LoadClip", pad |-> p, length |-> n]
<1>1. c \in Command /\ Send(c) /\ c.op = "LoadClip" /\ c.pad = p
  BY CommandTypes
<1> HIDE DEF c
<1>2. AudioPads' = AudioPads \union {p} /\ Lit' = Lit \ {p} /\ Alike'
  BY Refilled
<1>3. Leads(Shows, c, Shows')
  BY <1>1, <1>2 DEF Leads, Shows
<1> QED
  BY <1>1, <1>2, <1>3 DEF Moves

\* A command that leaves the clips and voices alone, from a grid that stays.
LEMMA IdleMoves ==
    ASSUME Alike, NEW c \in Command, Send(c), UNCHANGED <<grid, tracks, scenes, clipboard>>,
           \/ c.op \in {"SetClipEvents", "SetTransport"}
           \/ c.op = "SetClipLoop" /\ c.enabled
    PROVE  Alike' /\ Moves
<1>1. AudioPads' = AudioPads /\ Lit' = Lit /\ Shown' = Shown
  BY DEF AudioPads, Lit, Shown
<1>2. Alike'
  BY <1>1 DEF Alike
<1>3. Leads(Shows, c, Shows')
  BY <1>1 DEF Leads, Shows
<1> QED
  BY <1>2, <1>3 DEF Moves

\* The matrix grows: what is shown stays.
LEMMA GrowMoves ==
    ASSUME InterfaceOK, Alike, NEW t \in Tracks, NEW s \in Scenes, t >= tracks, s >= scenes,
           Resize(t, s)
    PROVE  Alike' /\ Moves
<1> DEFINE new == (1 .. t) \X (1 .. s)
<1>1. \A q \in Pads : grid'[q] = IF q \in new THEN grid[q] ELSE EmptySlot
  BY DEF Resize, Resized
<1>2. Shown' = new /\ clipboard' = clipboard /\ commands' = commands
  BY DEF Resize, Shown
<1>3. Shown \subseteq new
  <2> DEFINE n == Cardinality(Scenes)
             m == Cardinality(Tracks)
  <2>1. Scenes = 1 .. n /\ n \in Nat /\ Tracks = 1 .. m /\ m \in Nat
    BY MatrixAssumption, Numbers
  <2> HIDE DEF n, m
  <2>2. 1 .. tracks \subseteq 1 .. t /\ 1 .. scenes \subseteq 1 .. s
    BY <2>1 DEF InterfaceOK
  <2> QED
    BY <2>2 DEF Shown
<1> HIDE DEF new
<1>4. EmptySlot.content = "none" /\ EmptySlot.state = "Empty"
  BY DEF EmptySlot
<1>5. \A q \in AudioPads : q \in new
  BY <1>3 DEF Alike
<1>6. AudioPads' = AudioPads
  BY <1>1, <1>4, <1>5 DEF AudioPads
<1>7. Lit \subseteq AudioPads
  BY DEF Alike
<1>8. Lit' = Lit
  BY <1>1, <1>4, <1>5, <1>7 DEF Lit
<1>9. \A p \in Pads : grid'[p].content # "midi"
  BY <1>1, <1>4 DEF Alike
<1>10. AudioPads' \subseteq Shown'
  BY <1>2, <1>5, <1>6
<1>11. \A p, q \in Lit' : p[1] = q[1] => p = q
  BY <1>8 DEF Alike
<1>12. Alike'
  BY <1>2, <1>6, <1>7, <1>8, <1>9, <1>10, <1>11 DEF Alike
<1>13. Shows' = Shows
  BY <1>6, <1>8 DEF Shows
<1> QED
  BY <1>2, <1>12, <1>13 DEF Moves

LEMMA AgreeingMoves == InterfaceOK /\ Alike /\ Agreeing => Alike' /\ Moves
<1> SUFFICES ASSUME InterfaceOK, Alike, Agreeing PROVE Alike' /\ Moves
  OBVIOUS
<1>1. ASSUME NEW p \in Pads, NEW n \in Lengths, NEW decoded \in BOOLEAN,
             LoadClipIntoSlot(p, n, decoded), decoded \/ p \notin Lit
      PROVE  Alike' /\ Moves
  <2>1. CASE grid[p].content = "audio" /\ decoded
    <3> DEFINE c == [op |-> "SetClipEvents", pad |-> p, length |-> n]
    <3>1. /\ c \in Command /\ Send(c) /\ c.op = "SetClipEvents"
          /\ UNCHANGED <<grid, tracks, scenes, clipboard>>
      BY <1>1, <2>1, CommandTypes DEF LoadClipIntoSlot
    <3> HIDE DEF c
    <3> QED
      BY <3>1, IdleMoves
  <2>3. CASE grid[p].content = "audio" /\ ~decoded
    <3> DEFINE slot == grid[p]
    <3>1. slot.content = "audio" /\ slot.state # "Playing"
      BY <1>1, <2>3 DEF Lit
    <3>2. /\ p \in Shown /\ grid' = [grid EXCEPT ![p] = slot]
          /\ Send([op |-> "LoadClip", pad |-> p, length |-> n])
          /\ UNCHANGED <<tracks, scenes, clipboard>>
      BY <1>1, <2>3 DEF LoadClipIntoSlot, InterfaceOK
    <3> HIDE DEF slot
    <3> QED
      BY <3>1, <3>2, FillMoves
  <2>2. CASE grid[p].content # "audio"
    <3> DEFINE slot == StoppedSlot("audio")
    <3>1. slot.content = "audio" /\ slot.state # "Playing"
      BY DEF StoppedSlot
    <3>2. /\ p \in Shown /\ grid' = [grid EXCEPT ![p] = slot]
          /\ Send([op |-> "LoadClip", pad |-> p, length |-> n])
          /\ UNCHANGED <<tracks, scenes, clipboard>>
      BY <1>1, <2>2 DEF LoadClipIntoSlot
    <3> HIDE DEF slot
    <3> QED
      BY <3>1, <3>2, FillMoves
  <2> QED
    BY <2>1, <2>2, <2>3
<1>2. ASSUME NEW p \in Pads, NEW n \in Lengths, PasteSlot(p, n) PROVE Alike' /\ Moves
  <2> DEFINE slot == StoppedSlot(clipboard)
  <2>1. clipboard = "audio"
    BY <1>2 DEF PasteSlot, Alike, InterfaceOK
  <2>2. slot.content = "audio" /\ slot.state # "Playing"
    BY <2>1 DEF StoppedSlot
  <2>3. /\ p \in Shown /\ grid' = [grid EXCEPT ![p] = slot]
        /\ Send([op |-> "LoadClip", pad |-> p, length |-> n])
        /\ UNCHANGED <<tracks, scenes, clipboard>>
    BY <1>2, <2>1 DEF PasteSlot, LoadCopy
  <2> HIDE DEF slot
  <2> QED
    BY <2>2, <2>3, FillMoves
<1>3. ASSUME NEW t \in Tracks, NEW s \in Scenes, NEW n \in Lengths,
             <<t, s>> \notin Lit, DuplicateSlot(t, s, n)
      PROVE  Alike' /\ Moves
  <2> DEFINE slot == grid[<<t, s>>]
  <2>1. <<t, s>> \in Pads /\ <<t, s + 1>> \in Pads /\ <<t, s + 1>> \in Shown
    BY <1>3, BelowIsAPad DEF DuplicateSlot
  <2>2. slot.content = "audio" /\ slot.state # "Playing"
    BY <1>3, <2>1, ClipIsAudio DEF DuplicateSlot, Lit
  <2>3. /\ grid' = [grid EXCEPT ![<<t, s + 1>>] = slot]
        /\ Send([op |-> "LoadClip", pad |-> <<t, s + 1>>, length |-> n])
        /\ UNCHANGED <<tracks, scenes, clipboard>>
    BY <1>3, <2>2 DEF DuplicateSlot, LoadCopy
  <2> HIDE DEF slot
  <2> QED
    BY <2>1, <2>2, <2>3, FillMoves
<1>4. ASSUME NEW p \in Pads, SwitchLoop(p, TRUE) PROVE Alike' /\ Moves
  <2> DEFINE c == [op |-> "SetClipLoop", pad |-> p, enabled |-> TRUE]
  <2>1. /\ c \in Command /\ Send(c) /\ c.op = "SetClipLoop" /\ c.enabled
        /\ UNCHANGED <<grid, tracks, scenes, clipboard>>
    BY <1>4, CommandTypes DEF SwitchLoop
  <2> HIDE DEF c
  <2> QED
    BY <2>1, IdleMoves
<1>5. ASSUME NEW state \in {"Stopped", "Paused", "Playing"}, TransportButton(state)
      PROVE  Alike' /\ Moves
  <2> DEFINE c == [op |-> "SetTransport", state |-> state]
  <2>1. /\ c \in Command /\ Send(c) /\ c.op = "SetTransport"
        /\ UNCHANGED <<grid, tracks, scenes, clipboard>>
    BY <1>5, CommandTypes DEF TransportButton
  <2> HIDE DEF c
  <2> QED
    BY <2>1, IdleMoves
<1>6. ASSUME NEW p \in Pads, CopySlot(p) PROVE Alike' /\ Moves
  <2>1. clipboard' = "audio" /\ UNCHANGED <<grid, tracks, scenes, commands>>
    BY <1>6, ClipIsAudio DEF CopySlot
  <2>2. AudioPads' = AudioPads /\ Lit' = Lit /\ Shown' = Shown
    BY <2>1 DEF AudioPads, Lit, Shown
  <2>3. Alike'
    BY <2>1, <2>2 DEF Alike
  <2> QED
    BY <2>1, <2>2, <2>3 DEF Moves, Shows
<1>7. CASE AddTrack \/ AddScene
  <2> DEFINE n == Cardinality(Scenes)
             m == Cardinality(Tracks)
  <2>1. Scenes = 1 .. n /\ n \in Nat /\ Tracks = 1 .. m /\ m \in Nat
    BY MatrixAssumption, Numbers
  <2> HIDE DEF n, m
  <2>2. /\ tracks \in Tracks /\ scenes \in Scenes
        /\ tracks + 1 >= tracks /\ scenes + 1 >= scenes /\ tracks >= tracks /\ scenes >= scenes
    BY <2>1 DEF InterfaceOK
  <2> QED
    BY <1>7, <2>2, GrowMoves DEF AddTrack, AddScene
<1> QED
  BY <1>1, <1>2, <1>3, <1>4, <1>5, <1>6, <1>7, TriggerPadMoves, TriggerSceneMoves DEF Agreeing

\* Every voice has a clip, every clip loops, and the channel leads to the grid.
Meets ==
    /\ Loops /\ playing \subseteq loaded
    /\ Reaches(Sounds, commands, Shows)

Agreement == ~parted => Alike /\ Meets

LEMMA SoundsType ==
    ASSUME Engine!TypeOK
    PROVE  Sounds \in States
BY DEF Sounds, States, Engine!TypeOK, Engine!Pads, Pads

\* A command that finds what it expected does what was expected of it, unless
\* it is a load that fails.
LEMMA ExecuteLeads ==
    ASSUME TypeOK, Execute, ~parted', NEW mid \in States, Leads(Sounds, Head(commands), mid),
           Loops, playing \subseteq loaded
    PROVE  /\ Sounds' = mid /\ Loops' /\ playing' \subseteq loaded'
           /\ Obeyed(Head(commands))
<1> DEFINE c == Head(commands)
<1>1. commands \in Seq(Command) /\ Engine!TypeOK
  BY DEF TypeOK
<1>2. c \in Command /\ Leads(Sounds, c, mid)
  BY <1>1, ExecuteTakes
<1>3. \/ FailLoad(c)
      \/ c.op = "TriggerClip" /\ Engine!TriggerClip(c.pad[1], c.pad[2])
      \/ c.op = "TriggerScene" /\ Engine!TriggerScene(c.scene)
      \/ c.op = "LoadClip" /\ Engine!LoadClip(c.pad, c.length)
      \/ c.op = "SetClipEvents" /\ Engine!SetClipEvents(c.pad, c.length)
      \/ c.op = "StopTrack" /\ Engine!StopTrack(c.track)
      \/ c.op = "SetClipLoop" /\ Engine!SetClipLoop(c.pad, <<0, 0>>, c.enabled)
      \/ c.op = "SetTransport" /\ Engine!SetTransport(c.state)
  BY <1>1, ExecuteTakes DEF Obey
<1> HIDE DEF c
<1>4. Sounds.loaded = loaded /\ Sounds.playing = playing
  BY DEF Sounds
<1>5. ASSUME loaded' = mid.loaded, playing' = mid.playing PROVE Sounds' = mid
  BY <1>5 DEF Sounds, States
<1>6. CASE c.op = "TriggerClip" /\ Engine!TriggerClip(c.pad[1], c.pad[2])
  <2>1. c.pad \in Pads
    BY <1>2, <1>6, CommandParts
  <2>2. /\ c.pad \in loaded /\ (c.stops <=> c.pad \in playing) /\ mid.loaded = loaded
        /\ mid.playing = (playing \ Engine!PadsOf(c.pad[1])) \union (IF c.stops THEN {} ELSE {c.pad})
    BY <1>2, <1>4, <1>6 DEF Leads
  <2>3. /\ (Loops => Loops') /\ loaded' = loaded
        /\ playing' = (playing \ Engine!PadsOf(c.pad[1]))
                      \union (IF c.pad \in playing \/ c.pad \notin loaded THEN {} ELSE {c.pad})
    BY <1>1, <1>6, <2>1, TriggerClipStep
  <2>4. playing' = mid.playing
    BY <2>2, <2>3
  <2>5. c.pad \in Engine!PadsOf(c.pad[1])
    BY <2>1, PadsOfIs
  <2>6. c.pad \in playing' <=> ~c.stops
    BY <2>2, <2>3, <2>5
  <2>7. playing' \subseteq loaded'
    BY <2>2, <2>3
  <2> QED
    BY <1>5, <2>2, <2>3, <2>4, <2>6, <2>7 DEF Obeyed, c
<1>7. CASE c.op = "TriggerScene" /\ Engine!TriggerScene(c.scene)
  <2>1. c.scene \in Scenes
    BY <1>2, <1>7, CommandParts
  <2> DEFINE row == Engine!RowOf(c.scene) \intersect loaded
  <2>2. /\ mid.loaded = loaded
        /\ mid.playing = row \union {p \in playing : <<p[1], c.scene>> \notin row}
    BY <1>2, <1>4, <1>7 DEF Leads
  <2>3. /\ (Loops => Loops') /\ loaded' = loaded
        /\ playing' = row \union {p \in playing : <<p[1], c.scene>> \notin row}
    BY <1>1, <1>7, <2>1, TriggerSceneStep
  <2>4. playing' \subseteq loaded'
    BY <2>3
  <2> HIDE DEF row
  <2> QED
    BY <1>5, <1>7, <2>2, <2>3, <2>4 DEF Obeyed, c
<1>8. CASE c.op = "LoadClip" /\ Engine!LoadClip(c.pad, c.length)
  <2>1. c.pad \in Pads /\ c.length \in Lengths
    BY <1>2, <1>8, CommandParts
  <2>2. mid.loaded = loaded \union {c.pad} /\ mid.playing = playing \ {c.pad}
    BY <1>2, <1>4, <1>8 DEF Leads
  <2>3. /\ (Loops => Loops')
        /\ loaded' = loaded \union {c.pad} /\ playing' = playing \ {c.pad}
    BY <1>1, <1>8, <2>1, LoadClipStep
  <2> QED
    BY <1>5, <1>8, <2>2, <2>3 DEF Obeyed, c
<1>9. CASE c.op = "SetClipEvents" /\ Engine!SetClipEvents(c.pad, c.length)
  <2>1. c.pad \in Pads /\ c.length \in Lengths
    BY <1>2, <1>9, CommandParts
  <2>2. mid.loaded = loaded /\ mid.playing = playing
    BY <1>2, <1>4, <1>9 DEF Leads
  <2>3. (Loops => Loops') /\ loaded' = loaded /\ playing' = playing
    BY <1>1, <1>9, <2>1, SetClipEventsStep
  <2> QED
    BY <1>5, <1>9, <2>2, <2>3 DEF Obeyed, c
<1>10. CASE c.op = "StopTrack"
  BY <1>2, <1>10 DEF Leads
<1>11. CASE c.op = "SetClipLoop" /\ Engine!SetClipLoop(c.pad, <<0, 0>>, c.enabled)
  <2>1. c.pad \in Pads /\ c.enabled \in BOOLEAN
    BY <1>2, <1>11, CommandParts
  <2>2. mid.loaded = loaded /\ mid.playing = playing /\ c.enabled
    BY <1>2, <1>4, <1>11 DEF Leads
  <2>3. (c.enabled /\ Loops => Loops') /\ loaded' = loaded /\ playing' = playing
    BY <1>1, <1>11, <2>1, SetClipLoopStep
  <2> QED
    BY <1>5, <1>11, <2>2, <2>3 DEF Obeyed, c
<1>12. CASE c.op = "SetTransport" /\ Engine!SetTransport(c.state)
  <2>1. c.state \in {"Stopped", "Paused", "Playing"}
    BY <1>2, <1>12, CommandParts
  <2>2. mid.loaded = loaded /\ mid.playing = playing
    BY <1>2, <1>4, <1>12 DEF Leads
  <2>3. (Loops => Loops') /\ loaded' = loaded /\ playing' = playing
    BY <1>1, <1>12, <2>1, SetTransportStep
  <2> QED
    BY <1>5, <1>12, <2>2, <2>3 DEF Obeyed, c
<1>13. CASE FailLoad(c)
  <2>1. /\ c.op = "LoadClip" /\ c.pad \in loaded /\ c.pad \notin playing
        /\ (Loops => Loops') /\ loaded' = loaded /\ playing' = playing
    BY <1>2, <1>13, FailLoadStep
  <2>2. mid.loaded = loaded \union {c.pad} /\ mid.playing = playing \ {c.pad}
    BY <1>2, <1>4, <2>1 DEF Leads
  <2>3. loaded' = mid.loaded /\ playing' = mid.playing
    BY <2>1, <2>2
  <2> QED
    BY <1>5, <2>1, <2>3 DEF Obeyed, c
<1> QED
  BY <1>3, <1>6, <1>7, <1>8, <1>9, <1>10, <1>11, <1>12, <1>13

LEMMA InitAgreement == Init => Agreement
<1> SUFFICES ASSUME Init PROVE Alike /\ Meets
  BY DEF Agreement
<1>1. AudioPads = {} /\ Lit = {}
  BY DEF Init, EmptySlot, AudioPads, Lit
<1>2. Alike
  BY <1>1 DEF Init, EmptySlot, Alike
<1>3. loaded = {} /\ playing = {} /\ commands = <<>>
  BY DEF Init, Engine!Init
<1>4. Shows = Sounds /\ Sounds \in States
  BY <1>1, <1>3 DEF Shows, Sounds, States
<1>5. Reaches(Sounds, commands, Shows)
  BY <1>3, <1>4, ReachesNothing
<1> QED
  BY <1>2, <1>3, <1>5 DEF Meets, Loops

LEMMA NextAgreement == TypeOK /\ Agreement /\ [Next]_vars => Agreement'
<1> SUFFICES ASSUME TypeOK, Agreement, [Next]_vars, ~parted' PROVE Alike' /\ Meets'
  BY DEF Agreement
<1>1. InterfaceOK /\ Engine!TypeOK /\ commands \in Seq(Command)
  BY DEF TypeOK, InterfaceOK
<1>2. ~parted
  <2>1. CASE Execute
    <3>1. Head(commands) \in Command /\ (FailLoad(Head(commands)) \/ Obey(Head(commands)))
      BY <1>1, <2>1, ExecuteTakes
    <3> QED
      BY <3>1, FailLoadStep DEF Obey
  <2>2. CASE Gesture \/ Block \/ UNCHANGED vars
    BY <2>2 DEF Gesture, Block, vars
  <2> QED
    BY <2>1, <2>2 DEF Next
<1>3. Alike /\ Loops /\ playing \subseteq loaded /\ Reaches(Sounds, commands, Shows)
  BY <1>2 DEF Agreement, Meets
<1>4. Sounds \in States /\ Shows \in States /\ Shows' \in States
  BY <1>1, SoundsType, ShowsType, NextType DEF Shows, States, AudioPads, Lit
<1>5. CASE Gesture
  <2>1. Agreeing /\ UNCHANGED engineVars
    BY <1>5 DEF Gesture
  <2>2. Alike' /\ Moves
    BY <1>1, <1>3, <2>1, AgreeingMoves
  <2>3. Loops' /\ loaded' = loaded /\ playing' = playing
    BY <1>1, <1>3, <2>1, SameEngine
  <2>4. Sounds' = Sounds
    BY <2>3 DEF Sounds
  <2>5. Reaches(Sounds, commands', Shows')
    <3>1. CASE commands' = commands /\ Shows' = Shows
      BY <1>3, <3>1
    <3>2. ASSUME NEW c \in Command, Send(c), Leads(Shows, c, Shows')
          PROVE  Reaches(Sounds, commands', Shows')
      BY <1>1, <1>3, <1>4, <3>2, ReachesAppend DEF Send
    <3> QED
      BY <2>2, <3>1, <3>2 DEF Moves
  <2>6. Reaches(Sounds, commands, Shows)'
    BY <2>4, <2>5 DEF Reaches
  <2> QED
    BY <1>3, <2>2, <2>3, <2>6 DEF Meets
<1>6. CASE Execute
  <2>1. commands # <<>> /\ commands' = Tail(commands) /\ UNCHANGED <<grid, tracks, scenes, clipboard>>
    BY <1>1, <1>6, ExecuteTakes
  <2>2. PICK mid \in States :
          Leads(Sounds, Head(commands), mid) /\ Reaches(mid, Tail(commands), Shows)
    BY <1>1, <1>3, <1>4, <2>1, ReachesTail
  <2>3. Sounds' = mid /\ Loops' /\ playing' \subseteq loaded'
    BY <1>3, <1>6, <2>2, ExecuteLeads
  <2>4. AudioPads' = AudioPads /\ Lit' = Lit /\ Shown' = Shown /\ Shows' = Shows
    BY <2>1 DEF AudioPads, Lit, Shown, Shows
  <2>5. Alike'
    BY <1>3, <2>1, <2>4 DEF Alike
  <2>6. Reaches(Sounds, commands, Shows)'
    BY <2>1, <2>2, <2>3, <2>4 DEF Reaches
  <2> QED
    BY <2>3, <2>5, <2>6 DEF Meets
<1>7. CASE Block \/ UNCHANGED vars
  <2>1. /\ UNCHANGED <<grid, tracks, scenes, clipboard, commands>>
        /\ loaded' = loaded /\ playing' = playing /\ Loops'
    BY <1>1, <1>3, <1>7, BlockStep, SameEngine DEF Block, matrixVars, vars
  <2>2. /\ AudioPads' = AudioPads /\ Lit' = Lit /\ Shown' = Shown /\ Shows' = Shows
        /\ Sounds' = Sounds
    BY <2>1 DEF AudioPads, Lit, Shown, Shows, Sounds
  <2>3. Alike'
    BY <1>3, <2>1, <2>2 DEF Alike
  <2>4. Reaches(Sounds, commands, Shows)'
    BY <1>3, <2>1, <2>2 DEF Reaches
  <2> QED
    BY <1>3, <2>1, <2>3, <2>4 DEF Meets
<1> QED
  BY <1>5, <1>6, <1>7 DEF Next

\* With every command executed and until a gesture or a failed load parts the
\* two, the pads lit green are the pads that play: whatever was clicked while
\* commands waited.
THEOREM GridExact == Spec => []GridShowsEngine
<1>1. TypeOK /\ Agreement => GridShowsEngine
  <2> SUFFICES ASSUME TypeOK, Agreement, commands = <<>>, ~parted PROVE Lit = playing
    BY DEF GridShowsEngine
  <2>1. Reaches(Sounds, <<>>, Shows) /\ Sounds \in States /\ Shows \in States
    BY SoundsType, ShowsType DEF Agreement, Meets, TypeOK
  <2>2. Sounds = Shows
    BY <2>1, ReachesNothing
  <2> QED
    BY <2>2 DEF Sounds, Shows
<1> QED
  BY <1>1, InitType, NextType, InitAgreement, NextAgreement, PTL DEF Spec

\* A gesture sends one command at most and takes none.
LEMMA GestureSends ==
    ASSUME Gesture
    PROVE  commands' = commands \/ \E c : commands' = Append(commands, c)
<1>1. ASSUME NEW p, NEW content, NEW n, LoadCopy(p, content, n)
      PROVE  commands' = commands \/ \E c : commands' = Append(commands, c)
  BY <1>1 DEF LoadCopy, Send
<1>2. ASSUME NEW p, ClearSlot(p)
      PROVE  commands' = commands \/ \E c : commands' = Append(commands, c)
  BY <1>2 DEF ClearSlot, Send
<1>3. ASSUME NEW p, NEW n, NEW decoded, LoadClipIntoSlot(p, n, decoded)
      PROVE  commands' = commands \/ \E c : commands' = Append(commands, c)
  BY <1>3 DEF LoadClipIntoSlot, Send
<1>4. CASE Agreeing
  BY <1>1, <1>3, <1>4
     DEF Agreeing, TriggerPad, CopySlot, TriggerScene, PasteSlot, DuplicateSlot, SwitchLoop,
         AddTrack, AddScene, Resize, TransportButton, Send
<1>5. CASE Parting
  BY <1>1, <1>2, <1>3, <1>5
     DEF Parting, LoadMidiIntoSlot, CutSlot, DeleteSlot, StopOnEmptyPad, DuplicateSlot,
         SwitchLoop, RemoveTrack, RemoveScene, Resize, Send
<1> QED
  BY <1>4, <1>5 DEF Gesture

LEMMA OnlyExecuteTakes ==
    ASSUME commands \in Seq(Command), Next, commands # <<>>, commands' = Tail(commands)
    PROVE  Execute
<1>1. /\ Len(commands) \in Nat /\ Len(Tail(commands)) = Len(commands) - 1
      /\ \A c : Len(Append(commands, c)) = Len(commands) + 1
  <2>1. Len(commands) \in Nat /\ Len(Tail(commands)) = Len(commands) - 1
    BY LenProperties, HeadTailProperties
  <2>2. \A c : Len(Append(commands, c)) = Len(commands) + 1
    OBVIOUS
  <2> QED
    BY <2>1, <2>2
<1> DEFINE n == Len(commands)
           rest == Len(Tail(commands))
<1>2. commands' # commands /\ ~ \E c : commands' = Append(commands, c)
  <2>1. Len(commands') = rest /\ n \in Nat /\ rest = n - 1
    BY <1>1
  <2>2. commands' = commands => Len(commands') = n
    OBVIOUS
  <2>3. \A c : commands' = Append(commands, c) => Len(commands') = n + 1
    BY <1>1
  <2> HIDE DEF n, rest
  <2>4. rest # n /\ rest # n + 1
    BY <2>1
  <2> QED
    BY <2>1, <2>2, <2>3, <2>4, Zenon
<1> QED
  BY <1>2, GestureSends DEF Next, Block

\* A click does what the pad showed when it was clicked, however late its
\* command arrives and whatever was clicked before and since, until a gesture
\* or a failed load parts grid and engine.
THEOREM ClicksObeyed == Spec => ClickIsObeyed
<1> DEFINE Taken == ~parted /\ commands # <<>> /\ commands' = Tail(commands)
<1>1. ASSUME TypeOK, Agreement, Next, Taken PROVE Obeyed(Head(commands))
  <2>1. commands \in Seq(Command) /\ Engine!TypeOK /\ Execute
    BY <1>1, OnlyExecuteTakes DEF TypeOK
  <2>2. Loops /\ playing \subseteq loaded /\ Reaches(Sounds, commands, Shows)
    BY <1>1 DEF Agreement, Meets
  <2>3. Sounds \in States /\ Shows \in States
    BY <2>1, SoundsType, ShowsType
  <2>4. PICK mid \in States : Leads(Sounds, Head(commands), mid)
    BY <1>1, <2>1, <2>2, <2>3, ReachesTail
  <2>5. FailLoad(Head(commands)) \/ Obey(Head(commands))
    BY <2>1, ExecuteTakes
  <2>6. CASE FailLoad(Head(commands))
    BY <2>6 DEF FailLoad, Obeyed
  <2>7. CASE Obey(Head(commands))
    <3>1. ~parted'
      BY <1>1, <2>7 DEF Obey
    <3> QED
      BY <1>1, <2>1, <2>2, <2>4, <3>1, ExecuteLeads
  <2> QED
    BY <2>5, <2>6, <2>7
<1>2. TypeOK /\ Agreement /\ [Next]_vars => [Taken => Obeyed(Head(commands))]_vars
  BY <1>1
<1> QED
  BY <1>2, InitType, NextType, InitAgreement, NextAgreement, PTL DEF Spec, ClickIsObeyed

=============================================================================
