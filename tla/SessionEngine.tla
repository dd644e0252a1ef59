--------------------------- MODULE SessionEngine ---------------------------
(***************************************************************************)
(* The clips of the Session Matrix in hikaru_audio_engine/src/lib.rs       *)
(* (engine in OpenLive mode): loading and editing a pad's clip, launching  *)
(* pads and scenes, and the audio block that plays them.  Every operation  *)
(* runs under Mutex<AudioEngine>, so each is one step.                     *)
(*                                                                         *)
(* Time is the engine's absolute_frame, which only process() advances.     *)
(* Abstracted away: samples and gains (a track is audible or it is not),   *)
(* the cross-fade at the loop seam, and the transport position             *)
(* sample_count with the clips' start_frame, which only OpenStudio mode    *)
(* reads to decide what sounds.                                            *)
(***************************************************************************)
EXTENDS Integers, FiniteSets

CONSTANTS
    Tracks, Scenes,   \* the pads are Tracks \X Scenes
    Lengths,          \* lengths a loaded sample may have, in frames
    LoopRegions,      \* loop regions a user may choose: <<start, end>>
    Beats,            \* frames per beat the tempo may have
    BlockSizes,       \* block sizes the audio device may ask for
    Horizon,          \* bound: absolute_frame never passes it
    MaxEdits          \* bound: loads, edits and tempo changes

Pads == Tracks \X Scenes
PadsOf(t) == {t} \X Scenes
RowOf(s) == Tracks \X {s}

ASSUME EngineAssumption ==
    /\ Lengths \subseteq Nat \ {0}
    /\ LoopRegions \subseteq Nat \X Nat
    /\ Beats \subseteq Nat \ {0} /\ Beats # {}
    /\ BlockSizes \subseteq Nat \ {0}
    /\ Horizon \in Nat /\ MaxEdits \in Nat

VARIABLES
    loaded,      \* pads with an AudioClipInstance
    clip,        \* its lengths and its loop
    playing,     \* pads whose clip has is_playing
    start,       \* start_absolute of each clip
    abs,         \* absolute_frame
    transport,   \* playback_state
    muted,       \* tracks whose gain is 0 on both sides
    beat,        \* samples_per_beat, rounded
    edits        \* how many edits were made

vars == <<loaded, clip, playing, start, abs, transport, muted, beat, edits>>
clipVars == <<loaded, clip, playing, start>>

-----------------------------------------------------------------------------
(* One clip.  natural is natural_frames(): the length of the sample or, once *)
(* the pad was edited (events), the end of its last event.  duration is      *)
(* duration_frames, which stays the length of the sample.                    *)

Clip == [natural : Nat, duration : Nat, events : BOOLEAN,
         loop : BOOLEAN, from : Nat, to : Nat]

Least(m, n) == IF m <= n THEN m ELSE n

\* add_clip for a pad of the matrix: one sample, looping over its whole length.
NewClip(n) == [natural |-> n, duration |-> n, events |-> FALSE,
               loop |-> TRUE, from |-> 0, to |-> n]

HasLoop(c) == c.loop /\ c.to > c.from /\ c.from < c.natural

\* emission_len_frames: duration_frames, if it is set, cuts the clip short.
Emission(c) == IF c.duration > 0 THEN Least(c.duration, c.natural) ELSE c.natural

\* quantized_loop_len: whole beats, rounded down; a loop shorter than a beat
\* is left alone.
RawLoopLen(c) == Least(c.to, c.natural) - c.from
LoopLen_RoundUp(c, b) ==
    IF RawLoopLen(c) < b THEN RawLoopLen(c)
    ELSE ((RawLoopLen(c) + b - 1) \div b) * b
LoopLen(c, b) ==
    IF b <= 1 \/ RawLoopLen(c) < b THEN RawLoopLen(c)
    ELSE (RawLoopLen(c) \div b) * b

\* The frame process() reads at a given number of frames since the start.  A
\* pad with a single sample plays what is before the loop first; an edited pad
\* is in the loop from the start (clip_frame_for_elapsed).
FramePlayed_PhaseOfStart(c, b, elapsed) ==
    IF HasLoop(c) /\ elapsed >= c.from + LoopLen(c, b)
    THEN c.from + (elapsed % LoopLen(c, b))
    ELSE elapsed
FramePlayed(c, b, elapsed) ==
    LET len == LoopLen(c, b) IN
    IF ~HasLoop(c) THEN elapsed
    ELSE IF c.events THEN c.from + (elapsed % len)
    ELSE IF elapsed < c.from + len THEN elapsed
    ELSE c.from + ((elapsed - (c.from + len)) % len)

\* The frame the interface draws the playhead at (voice_frame_linear).
FrameShown_WholeLoop(c, b, elapsed) ==
    IF HasLoop(c) THEN c.from + (elapsed % RawLoopLen(c)) ELSE elapsed
FrameShown(c, b, elapsed) ==
    IF HasLoop(c) THEN c.from + (elapsed % LoopLen(c, b)) ELSE elapsed

\* voice_state_linear: is the voice still sounding (muted or not)?
Active(c, elapsed) == HasLoop(c) \/ elapsed < Emission(c)

Elapsed(p) == abs - start[p]

-----------------------------------------------------------------------------
(* Initial state: AudioEngine::new.                                         *)

Init ==
    /\ loaded = {} /\ playing = {}
    /\ clip \in [Pads -> {NewClip(0)}]
    /\ start = [p \in Pads |-> 0]
    /\ abs = 0
    /\ transport = "Stopped"
    /\ muted = {}
    /\ beat \in Beats
    /\ edits = 0

Edit == edits < MaxEdits /\ edits' = edits + 1

-----------------------------------------------------------------------------
(* Loading and editing clips.                                               *)

\* add_clip (GuiCommand::LoadClip): the pad's clip is replaced, stopped.
LoadClip(p, n) ==
    /\ Edit
    /\ loaded' = loaded \union {p}
    /\ clip' = [clip EXCEPT ![p] = NewClip(n)]
    /\ playing' = playing \ {p}
    /\ start' = [start EXCEPT ![p] = 0]
    /\ UNCHANGED <<abs, transport, muted, beat>>

\* The loop set_clip_loop leaves on a clip: an empty region means the whole
\* clip, a region that begins past its end means no loop.
WithLoop(c, region, enabled) ==
    LET from == region[1]
        to == Least(region[2], c.natural)
    IN  IF enabled /\ from < c.natural
        THEN [c EXCEPT !.loop = TRUE, !.from = from,
                       !.to = IF to > from THEN to ELSE c.natural]
        ELSE [c EXCEPT !.loop = FALSE, !.from = 0, !.to = 0]

SetClipLoop(p, region, enabled) ==
    /\ Edit
    /\ clip' = IF p \in loaded
               THEN [clip EXCEPT ![p] = WithLoop(@, region, enabled)]
               ELSE clip
    /\ UNCHANGED <<loaded, playing, start, abs, transport, muted, beat>>

\* set_clip_events: the clip becomes a timeline of the given length, or its one
\* sample again when no event is left (n = 0).  A loop that sticks out of it is
\* reset to all of it; so is one over the whole original sample, and a clip
\* without a loop gets one.
WithEvents(c, n) ==
    LET natural == IF n = 0 THEN c.duration ELSE n
        wasFull == c.loop /\ c.from = 0 /\ c.to \in {0, c.duration}
        reset == IF c.loop THEN c.to > natural \/ wasFull ELSE c.to = 0
    IN  [c EXCEPT !.natural = natural, !.events = (n # 0),
                  !.loop = @ \/ reset,
                  !.from = IF reset THEN 0 ELSE @,
                  !.to = IF reset THEN natural ELSE @]

SetClipEvents(p, n) ==
    /\ Edit
    /\ clip' = IF p \in loaded THEN [clip EXCEPT ![p] = WithEvents(@, n)] ELSE clip
    /\ UNCHANGED <<loaded, playing, start, abs, transport, muted, beat>>

SetBpm(b) ==
    /\ Edit
    /\ beat' = b
    /\ UNCHANGED <<clipVars, abs, transport, muted>>

-----------------------------------------------------------------------------
(* Launching.                                                               *)

\* legato_reference: a new voice takes the start of the oldest voice of its
\* track, else of the oldest voice anywhere, else it starts now.
LegatoPads(t) == IF playing \intersect PadsOf(t) # {}
                 THEN playing \intersect PadsOf(t)
                 ELSE playing

LegatoStarts_Now(t) == {abs}
LegatoStarts_Elapsed(t) == {start[ref] - abs : ref \in LegatoPads(t)} \union {abs}
LegatoStarts(t) ==
    IF LegatoPads(t) = {} THEN {abs}
    ELSE {start[ref] : ref \in {r \in LegatoPads(t) :
                                  \A other \in LegatoPads(t) : start[r] <= start[other]}}

\* trigger_clip toggles the pad.  The other pads of the track stop, also when
\* the pad itself has no clip.
TriggerClip_SamePadOnly(t, s) ==
    LET p == <<t, s>> IN
    /\ IF p \in playing \/ p \notin loaded
       THEN playing' = playing \ {p} /\ start' = start
       ELSE /\ playing' = playing \union {p}
            /\ \E a \in LegatoStarts(t) : start' = [start EXCEPT ![p] = a]
    /\ UNCHANGED <<loaded, clip, abs, transport, muted, beat, edits>>
TriggerClip(t, s) ==
    LET p == <<t, s>> IN
    /\ IF p \in playing \/ p \notin loaded
       THEN /\ playing' = playing \ PadsOf(t)
            /\ UNCHANGED start
       ELSE /\ playing' = (playing \ PadsOf(t)) \union {p}
            /\ \E a \in LegatoStarts(t) : start' = [start EXCEPT ![p] = a]
    /\ UNCHANGED <<loaded, clip, abs, transport, muted, beat, edits>>

\* trigger_scene restarts every clip of the row now, and stops the other
\* clips of the tracks that have one.
TriggerScene_NextBlock(s) ==
    LET row == RowOf(s) \intersect loaded IN
    /\ playing' = row \union {p \in playing : <<p[1], s>> \notin row}
    /\ start' = [p \in Pads |-> IF p \in row THEN abs + 1 ELSE start[p]]
    /\ UNCHANGED <<loaded, clip, abs, transport, muted, beat, edits>>
TriggerScene(s) ==
    LET row == RowOf(s) \intersect loaded IN
    /\ playing' = row \union {p \in playing : <<p[1], s>> \notin row}
    /\ start' = [p \in Pads |-> IF p \in row THEN abs ELSE start[p]]
    /\ UNCHANGED <<loaded, clip, abs, transport, muted, beat, edits>>

StopTrack(t) ==
    /\ playing' = playing \ PadsOf(t)
    /\ UNCHANGED <<loaded, clip, start, abs, transport, muted, beat, edits>>

-----------------------------------------------------------------------------
(* Transport and mixer.                                                     *)

\* play, pause and stop: stop rewinds sample_count, never absolute_frame, and
\* no voice is stopped by any of them.
SetTransport(state) ==
    /\ transport' = state
    /\ UNCHANGED <<clipVars, abs, muted, beat, edits>>

SetTrackMute(t, mute) ==
    /\ muted' = IF mute THEN muted \union {t} ELSE muted \ {t}
    /\ UNCHANGED <<clipVars, abs, transport, beat, edits>>

-----------------------------------------------------------------------------
(* The audio block: process().                                              *)

\* A clip without a loop ends inside a block of n frames when one of the
\* block's frames is past its emission.
EndsInBlock_Exactly(p, n) == ~HasLoop(clip[p]) /\ Elapsed(p) = Emission(clip[p])
EndsInBlock(p, n) == ~HasLoop(clip[p]) /\ Elapsed(p) + n > Emission(clip[p])

\* Tracks without gain are skipped altogether.
Process(n) ==
    /\ transport = "Playing"
    /\ abs + n <= Horizon
    /\ playing' = {p \in playing : p[1] \in muted \/ ~EndsInBlock(p, n)}
    /\ abs' = abs + n
    /\ UNCHANGED <<loaded, clip, start, transport, muted, beat, edits>>

-----------------------------------------------------------------------------
Command ==
    \/ \E p \in Pads, n \in Lengths : LoadClip(p, n)
    \/ \E p \in Pads, r \in LoopRegions, e \in BOOLEAN : SetClipLoop(p, r, e)
    \/ \E p \in Pads, n \in Lengths \union {0} : SetClipEvents(p, n)
    \/ \E b \in Beats : SetBpm(b)
    \/ \E t \in Tracks, s \in Scenes : TriggerClip(t, s)
    \/ \E s \in Scenes : TriggerScene(s)
    \/ \E t \in Tracks : StopTrack(t)
    \/ \E state \in {"Stopped", "Paused", "Playing"} : SetTransport(state)
    \/ \E t \in Tracks, m \in BOOLEAN : SetTrackMute(t, m)

AudioCallback == \E n \in BlockSizes : Process(n)

Next == Command \/ AudioCallback

\* The device asks for blocks for ever; commands come when the user likes.
Fairness == WF_vars(AudioCallback)

Spec == Init /\ [][Next]_vars /\ Fairness

-----------------------------------------------------------------------------
(* Properties.                                                              *)

TypeOK ==
    /\ loaded \subseteq Pads /\ playing \subseteq Pads
    /\ clip \in [Pads -> Clip]
    /\ start \in [Pads -> Nat] /\ abs \in Nat
    /\ transport \in {"Stopped", "Paused", "Playing"}
    /\ muted \subseteq Tracks /\ beat \in Beats /\ edits \in Nat

\* Only clips play, and at most one per track, whatever the mix of pad toggles,
\* scene launches, reloads and edits (trigger_clip and trigger_scene stop the
\* rest of the track in different ways).
OneVoicePerTrack ==
    /\ playing \subseteq loaded
    /\ \A t \in Tracks, s1 \in Scenes, s2 \in Scenes :
          <<t, s1>> \in playing /\ <<t, s2>> \in playing => s1 = s2

\* No voice starts in the future: abs_start - start_absolute in process() and
\* in the playhead is never taken of a later start, whoever it was inherited
\* from.
StartsInThePast == \A p \in playing : start[p] <= abs

\* The loop the engine plays lies inside the clip and is never empty, after
\* any sequence of loads, edits, loop and tempo changes, so that the modulus
\* and the reads of process() are always defined.
LoopInsideClip ==
    \A p \in loaded : HasLoop(clip[p]) =>
        /\ LoopLen(clip[p], beat) >= 1
        /\ clip[p].from + LoopLen(clip[p], beat) <= clip[p].natural

\* From any frame of the block process() is to fill to the next a voice moves
\* one frame forward, or from the end of its loop to the start of it: no seam
\* inside the loop, where it is entered, or between two blocks.
NoSeam ==
    \A p \in playing, n \in BlockSizes : \A i \in 0 .. n - 1 :
        LET c == clip[p]
            now == FramePlayed(c, beat, Elapsed(p) + i)
            next == FramePlayed(c, beat, Elapsed(p) + i + 1)
        IN  \/ next = now + 1
            \/ now + 1 = c.from + LoopLen(c, beat) /\ next = c.from

\* Voices run off one clock: while something plays, a pad that starts takes
\* over a start that was already playing, unless a scene restarts its row, all
\* of it at once and now (legato launch against scene launch).
StartsOf(P) == {start[p] : p \in P}
SceneRestarts(s) == \A p \in RowOf(s) \intersect loaded :
                        p \in playing' /\ start'[p] = abs
LegatoOrScene ==
    [][LET begun == {p \in playing' : p \notin playing \/ start'[p] # start[p]}
       IN  begun # {} /\ playing # {} =>
              \/ Cardinality(begun) = 1 /\ {start'[p] : p \in begun} \subseteq StartsOf(playing)
              \/ \E s \in Scenes : begun \subseteq RowOf(s) /\ SceneRestarts(s)]_vars

\* A clip without a loop ends by itself, wherever in a block its end falls,
\* unless its track is silent or the transport is not running (the ends that
\* lie beyond the Horizon are left out).
Ending(p) == /\ p \in playing /\ ~HasLoop(clip[p])
             /\ p[1] \notin muted /\ transport = "Playing"
             /\ \A n \in BlockSizes : start[p] + Emission(clip[p]) + n <= Horizon
OneShotEnds ==
    \A p \in Pads :
        (Ending(p) /\ \A n \in BlockSizes : abs + n <= Horizon) ~> ~Ending(p)

\* The playhead the interface draws is where the engine reads, as long as
\* nothing is played ahead of the loop.
PlayheadExact ==
    \A p \in playing :
        LET c == clip[p] IN
        Active(c, Elapsed(p)) /\ (c.events \/ c.from = 0) =>
            FrameShown(c, beat, Elapsed(p)) = FramePlayed(c, beat, Elapsed(p))

=============================================================================
