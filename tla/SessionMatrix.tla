--------------------------- MODULE SessionMatrix ---------------------------
(***************************************************************************)
(* The Session Matrix of the interface (views/matrix.rs) over the engine:  *)
(* the grid of pads that the user sees and clicks, the channel of          *)
(* GuiCommands, the command thread of main.rs that executes them in order, *)
(* and the clips of SessionEngine.                                         *)
(*                                                                         *)
(* The grid decides from its own copy of each pad's state what a click     *)
(* does and is never told what the engine did.  It shows any file that is  *)
(* not MIDI as audio, and only the command thread finds out whether the    *)
(* file can be read.  Abstracted away: what is in a clip (audio or MIDI is *)
(* told apart), names, colours and selection.                              *)
(***************************************************************************)
EXTENDS Integers, Sequences, FiniteSets

CONSTANTS
    Tracks, Scenes,          \* 1 .. n: how far the matrix may grow
    Lengths, Beats, BlockSizes, Horizon,   \* as in SessionEngine
    MaxGestures              \* bound: gestures of the user

Pads == Tracks \X Scenes

ASSUME MatrixAssumption ==
    /\ IsFiniteSet(Tracks) /\ Tracks # {} /\ Tracks = 1 .. Cardinality(Tracks)
    /\ IsFiniteSet(Scenes) /\ Scenes # {} /\ Scenes = 1 .. Cardinality(Scenes)
    /\ Lengths \subseteq Nat \ {0} /\ Beats \subseteq Nat \ {0} /\ Beats # {}
    /\ BlockSizes \subseteq Nat \ {0}
    /\ Horizon \in Nat /\ MaxGestures \in Nat

VARIABLES
    grid,        \* MatrixSlot of each pad
    tracks, scenes,   \* how many tracks and scenes the matrix has
    clipboard,   \* content of matrix_clipboard.copied_slot
    commands,    \* the channel to the command thread
    gestures,    \* how many gestures were made
    parted,      \* history: something made the grid and the engine part
    unread,      \* history: pads whose last LoadClip found no readable file
    loaded, clip, playing, start, abs, transport, muted, beat, edits

matrixVars == <<grid, tracks, scenes, clipboard, gestures>>
engineVars == <<loaded, clip, playing, start, abs, transport, muted, beat, edits>>
vars == <<matrixVars, parted, unread, commands, engineVars>>

Engine == INSTANCE SessionEngine
          WITH LoopRegions <- {<<0, 0>>}, MaxEdits <- MaxGestures

-----------------------------------------------------------------------------
Slot == [state : {"Empty", "Stopped", "Playing"}, content : {"none", "audio", "midi"}]
EmptySlot == [state |-> "Empty", content |-> "none"]
StoppedSlot(content) == [state |-> "Stopped", content |-> content]

Shown == (1 .. tracks) \X (1 .. scenes)
HasClip(p) == p \in Shown /\ grid[p].content # "none"
Lit == {p \in Pads : grid[p].state = "Playing"}

Init ==
    /\ grid = [p \in Pads |-> EmptySlot]
    /\ tracks \in Tracks /\ scenes \in Scenes
    /\ clipboard = "none"
    /\ commands = <<>>
    /\ gestures = 0 /\ parted = FALSE /\ unread = {}
    /\ Engine!Init

Send(command) == commands' = Append(commands, command)

-----------------------------------------------------------------------------
(* Gestures on pads.                                                        *)

\* The other pads of the track that are lit go out.
Lighting_OnlyThese(P) ==
    [q \in Pads |-> IF q \in P THEN [grid[q] EXCEPT !.state = "Playing"] ELSE grid[q]]
Lighting(P) ==
    [q \in Pads |->
        IF q \in P THEN [grid[q] EXCEPT !.state = "Playing"]
        ELSE IF grid[q].state = "Playing" /\ \E p \in P : p[1] = q[1]
             THEN [grid[q] EXCEPT !.state = "Stopped"]
             ELSE grid[q]]

\* trigger_pad: the grid decides whether this is a start or a stop; the
\* command only says "trigger" (stops is kept in it to state ClickIsObeyed).
TriggerPad_NoCommand(p) ==
    /\ HasClip(p)
    /\ grid' = IF p \in Lit THEN [grid EXCEPT ![p].state = "Stopped"] ELSE Lighting({p})
    /\ UNCHANGED <<tracks, scenes, clipboard, commands>>
TriggerPad(p) ==
    /\ HasClip(p)
    /\ grid' = IF p \in Lit THEN [grid EXCEPT ![p].state = "Stopped"] ELSE Lighting({p})
    /\ Send([op |-> "TriggerClip", pad |-> p, stops |-> p \in Lit])
    /\ UNCHANGED <<tracks, scenes, clipboard>>

TriggerScene_FromZero(s) ==
    /\ s <= scenes
    /\ grid' = Lighting({p \in Tracks \X {s} : HasClip(p)})
    /\ Send([op |-> "TriggerScene", scene |-> s - 1])
    /\ UNCHANGED <<tracks, scenes, clipboard>>
TriggerScene_LeavesGrid(s) ==
    /\ s <= scenes
    /\ Send([op |-> "TriggerScene", scene |-> s])
    /\ UNCHANGED <<grid, tracks, scenes, clipboard>>
TriggerScene(s) ==
    /\ s <= scenes
    /\ grid' = Lighting({p \in Tracks \X {s} : HasClip(p)})
    /\ Send([op |-> "TriggerScene", scene |-> s])
    /\ UNCHANGED <<tracks, scenes, clipboard>>

\* load_clip_into_slot: a sample on a pad with audio is appended to it as an
\* event, or, if it cannot be decoded, sent to replace the pad's clip; on any
\* other pad it is shown as a new clip, decoded or not.
LoadClipIntoSlot(p, n, decoded) ==
    /\ p \in Shown
    /\ IF grid[p].content = "audio"
       THEN /\ Send([op |-> IF decoded THEN "SetClipEvents" ELSE "LoadClip",
                     pad |-> p, length |-> n])
            /\ UNCHANGED grid
       ELSE /\ grid' = [grid EXCEPT ![p] = StoppedSlot("audio")]
            /\ Send([op |-> "LoadClip", pad |-> p, length |-> n])
    /\ UNCHANGED <<tracks, scenes, clipboard>>

\* A MIDI file replaces the slot; the engine's audio clip is not told.
LoadMidiIntoSlot(p) ==
    /\ p \in Shown
    /\ grid' = [grid EXCEPT ![p] = StoppedSlot("midi")]
    /\ UNCHANGED <<tracks, scenes, clipboard, commands>>

CopySlot(p) ==
    /\ HasClip(p)
    /\ clipboard' = grid[p].content
    /\ UNCHANGED <<grid, tracks, scenes, commands>>

\* delete_slot: a lit pad is toggled off in the engine, which keeps its clip.
ClearSlot(p) ==
    /\ HasClip(p)
    /\ grid' = [grid EXCEPT ![p] = EmptySlot]
    /\ IF p \in Lit THEN Send([op |-> "TriggerClip", pad |-> p, stops |-> TRUE])
       ELSE UNCHANGED commands
DeleteSlot(p) == ClearSlot(p) /\ UNCHANGED <<tracks, scenes, clipboard>>
CutSlot(p) == ClearSlot(p) /\ clipboard' = grid[p].content /\ UNCHANGED <<tracks, scenes>>

\* The clip a pasted or duplicated slot gets in the engine.
LoadCopy_NoLoad(p, content, n) == UNCHANGED commands
LoadCopy(p, content, n) ==
    IF content = "audio" THEN Send([op |-> "LoadClip", pad |-> p, length |-> n])
    ELSE UNCHANGED commands

PasteSlot(p, n) ==
    /\ clipboard # "none" /\ p \in Shown
    /\ grid' = [grid EXCEPT ![p] = StoppedSlot(clipboard)]
    /\ LoadCopy(p, clipboard, n)
    /\ UNCHANGED <<tracks, scenes, clipboard>>

\* duplicate_slot: the next scene gets a copy, state included.
DuplicateSlot(t, s, n) ==
    /\ HasClip(<<t, s>>) /\ s < scenes
    /\ grid' = [grid EXCEPT ![<<t, s + 1>>] = grid[<<t, s>>]]
    /\ LoadCopy(<<t, s + 1>>, grid[<<t, s>>].content, n)
    /\ UNCHANGED <<tracks, scenes, clipboard>>

\* The stop button on an empty pad of the arranger.
StopOnEmptyPad(p) ==
    /\ p \in Shown /\ ~HasClip(p)
    /\ grid' = [grid EXCEPT ![p].state = "Stopped"]
    /\ Send([op |-> "StopTrack", track |-> p[1]])
    /\ UNCHANGED <<tracks, scenes, clipboard>>

\* The loop switch of the clip editor, with its region left whole.
SwitchLoop(p, enabled) ==
    /\ HasClip(p)
    /\ Send([op |-> "SetClipLoop", pad |-> p, enabled |-> enabled])
    /\ UNCHANGED <<grid, tracks, scenes, clipboard>>

-----------------------------------------------------------------------------
(* The size of the matrix and the transport buttons.                        *)

\* Tracks and scenes come and go at the end; the engine is not told.
Resized(t, s) == [p \in Pads |-> IF p \in (1 .. t) \X (1 .. s) THEN grid[p] ELSE EmptySlot]
Resize(t, s) ==
    /\ tracks' = t /\ scenes' = s /\ grid' = Resized(t, s)
    /\ UNCHANGED <<clipboard, commands>>
AddTrack == tracks + 1 \in Tracks /\ Resize(tracks + 1, scenes)
RemoveTrack == tracks > 1 /\ Resize(tracks - 1, scenes)
AddScene == scenes + 1 \in Scenes /\ Resize(tracks, scenes + 1)
RemoveScene == scenes > 1 /\ Resize(tracks, scenes - 1)

TransportButton(state) ==
    /\ Send([op |-> "SetTransport", state |-> state])
    /\ UNCHANGED <<grid, tracks, scenes, clipboard>>

-----------------------------------------------------------------------------
\* Gestures after which the grid and the engine agree once the commands ran.
Agreeing ==
    \/ \E p \in Pads : TriggerPad(p) \/ CopySlot(p)
    \/ \E s \in Scenes : TriggerScene(s)
    \/ \E p \in Pads, n \in Lengths : LoadClipIntoSlot(p, n, TRUE) \/ PasteSlot(p, n)
    \/ \E p \in Pads \ Lit, n \in Lengths : LoadClipIntoSlot(p, n, FALSE)
    \/ \E t \in Tracks, s \in Scenes, n \in Lengths :
          <<t, s>> \notin Lit /\ DuplicateSlot(t, s, n)
    \/ \E p \in Pads : SwitchLoop(p, TRUE)
    \/ AddTrack \/ AddScene
    \/ \E state \in {"Stopped", "Paused", "Playing"} : TransportButton(state)

\* Gestures that change one of them without the other, now or later: a MIDI
\* clip over an audio one, the copy of a lit pad, clips left in the engine that
\* the next scene finds, a track stopped from an empty pad, a clip that will
\* end by itself, a sample sent to replace a lit pad's.
Parting ==
    \/ \E p \in Pads : \/ LoadMidiIntoSlot(p) \/ CutSlot(p) \/ DeleteSlot(p)
                       \/ StopOnEmptyPad(p) \/ SwitchLoop(p, FALSE)
    \/ \E t \in Tracks, s \in Scenes, n \in Lengths :
          <<t, s>> \in Lit /\ DuplicateSlot(t, s, n)
    \/ \E p \in Lit, n \in Lengths : LoadClipIntoSlot(p, n, FALSE)
    \/ RemoveTrack \/ RemoveScene

Gesture ==
    /\ gestures < MaxGestures /\ gestures' = gestures + 1
    /\ UNCHANGED <<unread, engineVars>>
    /\ \/ Agreeing /\ UNCHANGED parted
       \/ Parting /\ parted' = TRUE

\* LoadClip of a file that does not open as a WAV: a line on stderr.  The pad
\* keeps what it had in the engine, which is not what a load leaves there if
\* that was nothing, or a clip that plays.
FailLoad(c) ==
    /\ c.op = "LoadClip"
    /\ unread' = unread \union {c.pad}
    /\ parted' = (parted \/ c.pad \notin loaded \/ c.pad \in playing)
    /\ UNCHANGED engineVars

\* The other commands, and a LoadClip whose file is read, under the engine's lock.
Obey(c) ==
    /\ \/ c.op = "TriggerClip" /\ Engine!TriggerClip(c.pad[1], c.pad[2])
       \/ c.op = "TriggerScene" /\ Engine!TriggerScene(c.scene)
       \/ c.op = "LoadClip" /\ Engine!LoadClip(c.pad, c.length)
       \/ c.op = "SetClipEvents" /\ Engine!SetClipEvents(c.pad, c.length)
       \/ c.op = "StopTrack" /\ Engine!StopTrack(c.track)
       \/ c.op = "SetClipLoop" /\ Engine!SetClipLoop(c.pad, <<0, 0>>, c.enabled)
       \/ c.op = "SetTransport" /\ Engine!SetTransport(c.state)
    /\ unread' = IF c.op = "LoadClip" THEN unread \ {c.pad} ELSE unread
    /\ UNCHANGED parted

\* One command of the channel.
Execute ==
    /\ commands # <<>> /\ commands' = Tail(commands)
    /\ UNCHANGED matrixVars
    /\ FailLoad(Head(commands)) \/ Obey(Head(commands))

Block == Engine!AudioCallback /\ UNCHANGED <<matrixVars, parted, unread, commands>>

Next == Gesture \/ Execute \/ Block

\* The command thread does nothing but receive and execute.
Spec == Init /\ [][Next]_vars /\ WF_vars(Execute)

-----------------------------------------------------------------------------
(* Properties.                                                              *)

Command == [op : {"TriggerClip"}, pad : Pads, stops : BOOLEAN]
    \union [op : {"TriggerScene"}, scene : Scenes]
    \union [op : {"LoadClip", "SetClipEvents"}, pad : Pads, length : Lengths]
    \union [op : {"StopTrack"}, track : Tracks]
    \union [op : {"SetClipLoop"}, pad : Pads, enabled : BOOLEAN]
    \union [op : {"SetTransport"}, state : {"Stopped", "Paused", "Playing"}]

TypeOK ==
    /\ grid \in [Pads -> Slot]
    /\ tracks \in Tracks /\ scenes \in Scenes
    /\ clipboard \in {"none", "audio", "midi"}
    /\ commands \in Seq(Command)
    /\ gestures \in Nat /\ parted \in BOOLEAN /\ unread \subseteq Pads
    /\ Engine!TypeOK

AudioPads == {p \in Pads : grid[p].content = "audio"}

\* A pad that shows audio is backed by a clip of the engine, or its LoadClip is
\* on the way, or the last one that arrived found no file it could read: "un pad
\* sin AudioClipInstance registrado es un pad que suena a silencio"
\* (project/openlive.rs).  No gesture shows a pad that was never sent.
EveryAudioPadLoaded ==
    \A p \in AudioPads : \/ p \in loaded \union unread
                         \/ \E i \in DOMAIN commands :
                               commands[i].op = "LoadClip" /\ commands[i].pad = p

\* With no command on the way, the pads lit green are the pads that play, one
\* per track at most, until a gesture or a failed load made the two part.
GridShowsEngine == commands = <<>> /\ ~parted => Lit = playing

\* A click on a dark pad starts it and a click on a lit one stops it, when its
\* command arrives, whatever was clicked before.
Obeyed(c) == c.op = "TriggerClip" /\ c.pad \in loaded =>
                (c.pad \in playing' <=> ~c.stops)
ClickIsObeyed ==
    [][~parted /\ commands # <<>> /\ commands' = Tail(commands) => Obeyed(Head(commands))]_vars

\* A lit pad plays sooner or later, or goes dark again.
LitPadsPlay == \A p \in Pads : p \in Lit ~> p \in playing \/ p \notin Lit \/ parted

\* A scene leaves alone the tracks whose pad in its row is empty.
SceneLeavesOthers ==
    [][\A s \in Scenes : commands = <<[op |-> "TriggerScene", scene |-> s]>> /\ commands' = <<>> =>
          \A t \in Tracks : grid[<<t, s>>] = EmptySlot =>
             (playing' \intersect ({t} \X Scenes) = playing \intersect ({t} \X Scenes))]_vars
=============================================================================
