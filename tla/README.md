# Hikaru OpenLive: a verification project

Hikaru OpenLive is a digital audio workstation written in Rust. Its own crates
live under `src/crates/`; `src/crates/*-patched` are vendored copies of GPUI and
of a VST3 host and are not part of this project. This directory holds TLA+
specifications of the crates' concurrent and stateful core, the TLC runs that
check them on small instances, and TLAPS proofs of what matters most.

## 1. Inventory

Threads. The GPUI main thread owns the interface state and calls `sync_frame`
once per frame. One *command thread* (`hikaru_gui/src/main.rs`) receives
`GuiCommand`s from an unbounded channel and executes each under
`Mutex<AudioEngine>`. The *audio callback* (CPAL) takes the same mutex with
`try_lock` and fills one block, or writes silence when the mutex is busy. Each
preview and each open plugin editor has a thread of its own, and every audio
editor window shares one lock-free ring, the *tap*, with the audio callback.

| part | state | operations | what is hard | correctness |
|---|---|---|---|---|
| audio tap (`hikaru_plugin_host/src/tap.rs`) | ring, `lens`, `write`, `read`, `consumers`, `dropped` | `publish`, `take`, `attach_consumer`, `detach_consumer` | two threads without a lock, wrap-around, a full ring | no torn block, newest block only, the display catches up |
| session engine (`hikaru_audio_engine/src/lib.rs`: clips, transport, block) | clip instances with `is_playing`, `start_absolute`; `sample_count`, `absolute_frame`; transport and loop | `trigger_clip`, `trigger_scene`, `stop_track`, `set_clip_loop`, `add_clip`, `remove_clip`, `play`/`pause`/`stop`/`seek`, `process` | a musical clock that does not wrap beside a transport that does, legato starts, clips that end inside a block, muted tracks | one voice per track, starts never in the future, one-shots end, legato partners stay in phase, scenes start together |
| plugin chains and tap registry (same file, `tap.rs` registry) | per-track chain of nodes, registry `(track, slot) -> tap` | `load_external_plugin`, `remove_external_plugin`, `move_external_plugin` | two structures kept in step by hand, indices that shift | what a window looks up is the tap of the node in that slot |
| drum sampler (`DmsVoicePool`) | voices with envelope state and age, sample banks per pad | `trigger`, `release_pad`, `kill_pad`, `process_all_with_gains`, `load_dms_sample` | a full pool steals the oldest voice, release against retrigger | a stolen voice is the oldest, released voices become free |
| command path (`hikaru_gui/src/main.rs`) | command channel, engine mutex, preview threads | one handler per `GuiCommand`, the audio callback | `try_lock` on both sides, decoding outside the lock, detached threads | commands in order, none lost, the last preview asked for is the one that sounds |
| preview player (`preview_player.rs`, `explorer.rs`) | sample, `generation`, `is_playing`, cursor; the explorer's own flag | `start`, `stop`, `play`, `process`, the explorer's clicks | decodes that finish in another order than they began, a stop during a decode, ends inside a block | what sounds against the last command was overtaken while it decoded; a preview that ends was heard whole |
| editor windows (`external_plugins_settings.rs`, `hikaru-wrapper/`) | `open_plugins`, `opening`, `cmd_tx`, close channel; one thread per window | `open_plugin`, `raise`, `close_plugin`, `poll_updates`, `WrapperEventLoop::run` | notifications keyed by name that arrive after a re-open | a live window can be closed, one listener per tap |
| parameter sync (`app.rs`, `dsp_rack.rs`, VST3/CLAP launchers) | rack values, `host_sent` and `seen` tables, control ring, probes in flight | `set_param_normalized`, `poll_param_changes`, `apply_param_feedback`, `flush_pending_external_params` | three copies of each value, echo suppression, a full ring | the three copies agree when nothing moves |
| floating windows hub (`floating_window.rs`) | reply channels, outbox | `open`, `close`, `is_closed`, event loop | replies delivered after their channel is removed | every window's closing is reported |
| Studio timeline (`views/playlist.rs`, `project/openstudio.rs`) | `PlaylistState`: clips, `next_clip_id`, clipboard, drags; the engine's clips | drop, copy, cut, delete, paste, duplicate, move, trim, Play's `SyncPlaylistClips` | the engine is told in five different ways, or not at all, and tells clips apart by id in one mode and by track in the other | one id per clip, every clip shown is in the engine as shown, opening and trimming lose nothing |
| sequencer slots (`hikaru_sequencer`: `clip.rs`, `matrix.rs`, `quantizer.rs`) | atomics per slot | `trigger`, `poll_voice`, `finish_slot_if_playing`, `trigger_scene` | check-then-store on atomics | a launch is not undone by the end of the previous voice |
| transport (`hikaru_transport`) | position, tempo, loop | `wrap_sample_count`, `set_bpm`, tick conversion | rounding, wrapping | positions stay in the loop |
| MCP port (`hikaru_mcp_port`) | port table, client list, telemetry ring | `add_port`, `validate`, handshake, disconnect | identifiers reused, clients removed by position | ids are unique, the right client is removed |
| mixer (`app.rs`, `matrix.rs`, `mixer.rs`, `arranger_view.rs`) | matrix rows, `live_tracks` one index further on, `studio_tracks`, the engine's channels | faders, mutes, add and remove track, mode switch, save, open, `sync_matrix_mixer_bidirectional` | two copies of each track, commands that are dropped | row and strip agree, what a control told the engine is what it does |
| project files (`project/`, `hikaru_project_file`, `*_file`) | one JSON document | `save`, `save_as`, `load`, `reset` | non-atomic write | what is loaded is what was saved |
| plugin instances (`clap/`, `vst3/`, `scratch.rs`, `registry.rs`) | processor, parameter queues | `process`, `set_param`, `ensure_processor` | foreign code | see parameter sync |
| session matrix (`views/matrix.rs`, arranger's stop button) | grid of pads with their own `ClipState`, clipboard | `trigger_pad`, `trigger_scene`, `load_clip_into_slot`, copy, cut, paste, duplicate, delete, add/remove track and scene | the grid is never told what the engine did | what is lit is what plays |
| native windows (`hikaru-wrapper/window.rs`, `x11.rs`, `keep_alive.rs`) | X11 windows | embedding, stacking | decided by the X server | windows stay embedded and visible |
| effects, DSP, rendering, MIDI import, CLI, MCP server | numeric or I/O code | | floating point, files | the signal and the file are right |

Interaction. The interface sends commands down the command path; the command
thread calls the engine; the audio callback calls `AudioEngine::process`, which
calls each plugin node and publishes its output on that slot's tap; an editor
window takes blocks from the tap it looked up when it opened and returns
parameter changes to the interface over a feedback channel, which the interface
sends to the engine as commands.

## 2. Plan

Modules in the order of their weight. A `*` marks what exists.

| order | module | models | composes, refines |
|---|---|---|---|
| 1 * | `LatestBlock` | what a tap promises a window: a lossy channel of whole blocks | abstract specification |
| 1 * | `PluginTap`, `AudioProofs` | the lock-free ring, one shared access per step | implements `LatestBlock` |
| 2 * | `SessionEngine`, `MC_SessionEngine`, `SessionEngineProofs` | clips, launching and the audio block | |
| 3 * | `SessionMatrix`, `SessionMatrixProofs` | the interface's grid, the command channel, the command thread | instantiates `SessionEngine` |
| 4 * | `ParamSync`, `ParamSyncProofs` | one parameter between knob, engine and editor window | |
| 5 * | `PluginChain`, `PluginChainProofs` | rack, engine chains and tap registry, addressed by position | |
| 6 * | `Preview`, `MC_Preview`, `AudioProofs` | the preview player: detached decodes, stop, the block | |
| 7 * | `Mixer`, `MixerProofs` | a track's volume and mute in matrix, strips, engine and project files | |
| 8 * | `EditorWindows`, `EditorWindowsProofs` | windows keyed by plugin name: opening, closing, late notifications | |
| 9 * | `StudioTimeline`, `ClipTrim`, `StudioTimelineProofs` | the Studio's clips in the interface, in the file and in the engine | `StudioTimeline` extends `ClipTrim` |
| 10 | `DrumVoices` | the drum sampler's voice pool: trigger, steal, release, kill | |
| 11 | `FloatingHub` | reply channels and outbox of the floating windows | |
| 12 | `McpPort` | port identifiers and the client list | |

Each further module gets one passing run whose bounds are chosen like the ones
in section 4.

Theorems. Proved: type correctness of every module, every safety invariant and every
action property of the passing runs, the refinement of the tap, and the arithmetic of
trimming (section 5). Next: the voice pool's safety for every pool size. Modules meant for
proofs declare no recursive operator: recursion is a recursive function. `Preview` prefixes
the names of its specification (`PreviewSpec`), so that one module can prove things about
it and about `PluginTap`.

## 3. The modules

### LatestBlock and PluginTap: the audio tap

`tap.rs` is a ring of `Capacity` slots between the audio thread (`publish`) and
an editor window's thread (`attach_consumer`, `take`, `detach_consumer`), with
only atomics between them. In `PluginTap` every access to shared memory is a
step: `ppc` and `cpc` are the program counters inside `publish` and `take`, and
the copies go frame by frame. A frame carries the number of its block, so a torn
block would show as frames of two numbers. The counter of consumers has
wrap-around of `CounterMod`. Closing is modelled as in `event_loop.rs` and
`wrapper.rs`: the loop detaches on leaving and the wrapper detaches once more.

`LatestBlock` is the promise: blocks are accepted whole while the window is less
than `Capacity` behind, and any newer block may be shown, whole. The refinement
maps `sent` and `shown` to themselves, `last` to the ring's read counter.

Memory order: the code stores `write` and `read` with Release and loads them
with Acquire, and slots are touched only between the two; the model is
sequentially consistent. The memory model itself is not checked.

### SessionEngine: the engine's clips

One action per engine operation, since each runs under `Mutex<AudioEngine>`:
`LoadClip` (`add_clip`), `SetClipLoop`, `SetClipEvents`, `SetBpm`,
`TriggerClip`, `TriggerScene`, `StopTrack`, `SetTransport`, `SetTrackMute` and
`Process` (the block). A clip is its lengths and its loop; samples, gains and
the cross-fade at the seam are left out. `abs` is `absolute_frame`, the clock
that only `process` advances; `start` is `start_absolute`. The loop length
follows `quantized_loop_len`, the frame that is read follows `process` and
`clip_frame_for_elapsed`, and the frame that is drawn follows
`voice_frame_linear`: the last two are different functions in the code, which is
why `PlayheadExact` compares them.

### SessionMatrix: the grid over the engine

`grid` is the interface's `MatrixSlot` table, `commands` the unbounded channel,
`Execute` the command thread. The engine is an `INSTANCE` of `SessionEngine`, so
every command has the effect the other module checks. The grid shows any file that is not
MIDI as audio at once, and the explorer offers more kinds of files (`explorer.rs:656`) than
the command thread can read (`main.rs:107`): `Execute` takes a command and either obeys it
(`Obey`) or, a `LoadClip`, finds that its file cannot be read and only prints a line (`FailLoad`).

History: `unread` names the pads whose last `LoadClip` failed. `parted` is set by the gestures
listed in `Parting`, which by the code
change the grid without the engine or the other way round (a MIDI file over an
audio pad, cut, delete, removing a track or scene, the arranger's stop button
on an empty pad, a one-shot clip, the copy of a lit pad), and by a load that fails for a pad
that has no clip in the engine or one that plays. The properties about
agreement hold until then. `EveryAudioPadLoaded` holds always, and what it says is that an audio pad
without its clip is waiting for a `LoadClip` or had one whose file could not be read.

### ParamSync: three copies of a parameter

`rack` is the cached value behind the knob (`app.rs`, `mixer.rs`, `dsp_rack.rs`),
`engine` the value of the instance in the engine's chain and `editor` that of the
second instance in the native window. The queues are the slot's pending change,
the command channel, the instance's bounded ring (used once it has sounded), the
window's command channel and the feedback channel. `Frame` is one frame of the
interface: it applies the feedback, except while the user holds the knob, then
flushes what is pending. `Tick` is one turn of the window's loop (`event_loop.rs`): it takes
all commands, polls the instance each `PollTicks` and sends the echo of what it
was sent each `FeedbackTicks`. `host_sent` suppresses the poll's echoes and
`seen` is the table the poll compares with.

History: `crossed` is set when the user turns one side while a value of the other
is still travelling, or opens a window on a knob that is not on its default;
`dropped` is set when a full ring refuses a change.

### PluginChain: rack, chain and registry

The rack changes at once, the chain of the engine when the command thread gets
there, and both sides name a plugin by its position. Each assigned plugin has a
number of its own, which also names its node and tap, so that
the properties can say whether a position still means the same plugin. The
actions are the gestures of the rack (`add_slot`, `assign_external_plugin`,
`remove_slot`, `move_device`, the flush of parameters, opening an editor),
the three commands, and the window's thread. The click that opens an editor
(`OpenExternalEditor`) takes the position of its slot; the thread
looks a tap up under that position only after it has made its window and loaded the
plugin (`FindTap`, `wrapper.rs:190`), with any gestures and commands in between, and
never again until it ends (`EndEditor`). One window is followed at a time. `settled`
records what the thread cannot see: that at its lookup nothing was on its way or parted and the
plugin stood where it was clicked. A load may fail. `parted` is set when a slot of an external
plugin is deleted (the engine is not told), a plugin is moved over the master
(which has no chain), a load fails, or an external plugin stands behind a native
slot, for then its position in the rack is not its position in the chain.
`Follows` says what a chain that agrees is: the rack's external plugins in order, at its
front, with native slots behind them only.

### EditorWindows: opening and closing native editors

The interface keeps `open_plugins`, `cmd_tx`, `opening` and `gui_errors` by plugin
name. Each window is a thread with a life of its own: it is `opening` while
`HikaruWrapper::open` loads, `running` in its loop, `leaving` once the loop ended
and `gone` when it has reported, on `close_rx`, the name of its plugin. `told`
stands for a Close in its command channel, which a window that is still loading
finds when it gets to its loop. `close_plugin` empties the tables and awaits
nothing; `poll_updates` drains the reports and removes each name, whichever
window the name stands for by then. What the reports say of parameters is
`ParamSync`'s.

History: `reopened` is set when a name is opened while the end of its last
window has not been polled. What the tables promise about windows holds until
then; that they agree with each other, and the liveness properties, hold always.

### Preview: the explorer's preview

Four actors: the explorer and the header's buttons, the command thread, one
detached thread per preview, and the audio callback. All of them touch
the player under the engine's mutex, so a critical section is a step, and a
callback that finds the mutex taken plays silence. `HandlePreview` stops the
player and starts a decode; decodes end in any order (`FinishDecode`,
`FailDecode`) and each starts the player with what it decoded. `AudioBlock`
follows `process`: a block that runs out of samples (`RunsOut`) moves the cursor
once more than it mixes, and the check behind the loop ends a preview that is
exactly used up (`FillsBlock`).

History: `wanted` is the preview the last handled command asks for, `overtaken`
those that were still decoding when a later command was handled, `heard` the frames
that were mixed of the present one.

### Mixer: one track, four places

A track's volume and mute are kept in a row of the matrix, in the live
strip one index further on (the first strip is the master), in the engine's channel
and in the project file, the Studio's strips in a list of their own. Every gesture
that writes them is an action with exactly the writes of its handler:
`SetVolume` writes row and strip, `ToggleHeader` the row only, `AddRow` and
`RemoveRow` leave the strips alone. `OpenLive` is `openlive::apply` with
`sync_matrix_mixer_bidirectional` called on empty old values: what differs from a new
track's value counts as changed, the mixer's change wins, and the push to the engine that
follows still takes the strips of the mode being left: `RowCommands` is what it sends for
one row, `SyncCommands` that for all of them. `Drop` is a fader command
that finds the mutex taken. Pan goes the way of the volume and solo that of the mute.

History: `skewed` is set when a row comes or goes without its strip, `flipped`
names the rows whose mute was clicked in the matrix's header, `told` the controls
whose present value the engine was told.

### StudioTimeline: the Studio's clips

`clips`, `nextId`, `clipboard` and `drag` are the interface's, `engine` the engine's
clips with the flag `is_matrix_clip` (`pad`), `file` the saved project. A drop sends
the clip, the end of a drag sends its bounds once (`Release`), cut, paste and duplication
send every clip again (`ResendAll`), Play sends the whole list (`Synced`),
deletion and opening send nothing. The engine looks a clip up by id in Studio mode and by
track in Live mode (`Same`, `Found`); the operators that change its list take the mode it
is in. A dropped file is `readable` or not. The timeline shows it either way, one step long
if it is not (`TotalOf`); `LoadClip` and `SyncPlaylistClips` skip it (`Decoded`). Files do not
change while the program runs. `Those`, a recursive function over a list, is every `filter` and `retain` of the code. `ModeButton` tells the engine of the mode;
`SwitchSilently`, the View menu, does not. `TrimLeft` and `TrimRight` (module `ClipTrim`,
which keeps no state) are the two branches of `trim_apply`, applied to the bounds as they were grabbed. Times are
steps of the grid and one step is the least length of a clip; the
snap of pasted clips is the identity on them.

History: `allSent` says that every clip has been sent since the project was
opened and that the engine heard all of it in Studio mode; `crossed` names the clips
dragged to another track since they were sent (`UpdateClipBounds` does not move
a clip to another track).

## 4. The runs

Every passing run also checks its module's type invariant (`TypeOK`, `PreviewTypeOK`).

| run | property | what would be wrong if it failed |
|---|---|---|
| `tap` | `NoSharedSlot` | the audio thread writes to the slot being copied |
| | `ImplementsChannel` | a torn, repeated or older block is shown |
| | `DisplayCatchesUp` | an open window stops showing new blocks though blocks keep coming |
| `session` | `OneVoicePerTrack` | two pads of a track sound together |
| | `StartsInThePast` | a subtraction of unsigned frames underflows |
| | `LoopInsideClip` | a loop of length zero (modulus) or past the sample |
| | `NoSeam` | the read position jumps inside a loop, between any two frames of a block |
| | `PlayheadExact` | the drawing and the sound drift apart |
| | `LegatoOrScene` | a voice starts on a phase of its own |
| | `OneShotEnds` | a clip without a loop plays silence for ever |
| `matrix` | `GridShowsEngine` | lit pads and voices differ although nothing is on its way |
| | `EveryAudioPadLoaded` | a pad shows a clip that no gesture sent to the engine |
| | `ClickIsObeyed` | a toggle arrives in another state than the one clicked on |
| | `LitPadsPlay` | a launch is lost |
| `param` | `EngineHearsRack` | the sound stays on another value than the knob's |
| | `CopiesAgree` | knob, editor and engine rest on different values |
| | `ExchangeRests` | an echo goes round for ever |
| `chain` | `ChainFollowsRack` | the order of effects differs from the order shown |
| | `RegistryNamesChain` | a stale tap is left behind or one is missing |
| | `EditorHearsItsPlugin` | a window that finds its plugin at rest displays another's audio |
| | `ParamsReachTheirPlugin` | a knob turns another plugin's parameter |
| `windows` | `TablesAgree` | a plugin is shown as open and cannot be closed |
| | `WindowsAreHeld` | a window runs that the rack can neither close nor send a value |
| | `MarksAreCurrent` | a plugin whose editor is on the screen is marked as broken and loses its button |
| | `ToldWindowsEnd` | a window told to close while it loads stays |
| | `EndedWindowsAreForgotten` | the button of a window the user closed stays on |
| `preview` | `OnlyOvertakenIntrude` | a preview sounds that nobody asked for last and no decode delayed |
| | `WholePreviewHeard` | the start or the end of a sample is cut |
| `mixer` | `MirrorsAgree` | matrix and mixer show different faders for one track |
| | `ToldIsHeard` | the engine keeps another value than the control that was moved |
| `studio` | `EngineHasEveryClip` | a clip on the screen with a file that can be read is silent, or sounds elsewhere |

Three runs expect a violation. Each states what a comment of the code says and
shows a behaviour of the code that contradicts it:

- `matrix_ghost`: the clip of a deleted pad stays in the engine, and the next
  scene launch of its row plays it.
- `studio_open`: `apply_playlist` (`openstudio.rs:240`) asks the mode being left how many
  tracks there are. From the Live mode, in which the application starts with one
  track, opening a project drops the clips of every further track.
- `studio_trim`: dragging the left edge to the left moves the clip's start
  and leaves the sample's offset (`playlist.rs:1050`), so the content slides.

### Bounds

- `tap`: three slots are the least ring in which a producer can be one and two
  slots away from the consumer; six blocks go round it twice; two sessions show
  what a second window inherits from the first. Two frames are enough to tear a
  block. The counter has two bits, and wraps below 0 as the real one does.
- `session`: two tracks of two pads have every relation between pads (same
  track, same scene, neither). Lengths 2 and 3 against beats of 2 and 3 give
  loops shorter than, equal to and longer than a beat; regions are in
  `MC_SessionEngine`. Blocks have three frames and `Horizon` 8 has room for two of them, with
  every command before, between and after them. A clip without a loop ends inside the first
  block (2 frames), on its boundary, where the second block finds the end in its first frame (3
  frames), or inside the second block (2 frames, launched after the first). `OneShotEnds` leaves out
  the 3 frames launched after the first block, which end beyond the last. Three edits reach the
  second edit of one pad.
- `matrix`: up to 2 x 2 pads, four gestures. Four are enough to load two pads,
  launch one and change it, with commands executed at any later time, and every file readable
  or not when its command is.
- `param`: three values of which the odd one is rounded; a ring of one place, so
  that it fills; polls each 2 ticks, as the code does (`PARAM_POLL_TICKS`), and echoes
  each 3 where the code has 5 (`TickBudget`): either way they fall together
  and apart; three turns of the knob.
- `chain`: a master and two strips, racks of two slots, three plugins, seven gestures:
  enough to assign two plugins, move one between strips, assign a third and open its
  editor, which may look its tap up before, between or after the commands of the others. One
  window is followed at a time.
- `windows`: two plugins and three windows: one to close, one opened over its late
  report, and one beside them. Buttons, loads, ends and polls come in every order.

- `preview`: three previews allow a decode to be overtaken twice; two commands on
  their way allow the header's Play, which sends two. Samples of 3, 4 and 5 values in one and
  two channels against blocks of two frames end inside a block, at its end, and
  with half a frame left.
- `mixer`: two tracks are the least for an index to be one off; a third channel takes
  the push that is shifted by the master. Two positions of a fader are the two
  defaults, the only values `sync_matrix_mixer_bidirectional` treats differently. Five
  gestures suffice to change both copies, save, change them again and open.
- `studio`: two rows against the live mixer's one, three clips on a grid of three steps,
  samples of two, each file readable or not. Five gestures are a drop, a copy and a paste with a drag and a
  mode switch in between; drags move any number of times. The two violations need
  fewer.

Deadlock is not checked where the bounds stop the model (`CHECK_DEADLOCK FALSE`):
in `tap` after the last block and session, in `session` at the horizon, in `matrix`
and `chain` after the last gesture, in `windows` after the last window, in `mixer` and `studio` after the last
gesture. `preview` checks it. `param` checks it: the transport's button and
the blocks are always possible.

### Fairness

`preview`, `mixer` and `studio` check safety only and assume none. That a preview
asked for sounds at all is not promised: its decode may fail, or be stopped.

- `tap`: weak fairness of the window's steps only, because its loop ticks for as long
  as it is open. The audio thread owes nothing.
- `session`: weak fairness of the audio callback: the device asks for blocks
  until the stream is closed. Commands owe nothing.
- `matrix`: weak fairness of `Execute`: the command thread does nothing but
  receive and execute. It takes the engine's lock with a blocking `lock`; the
  callback only ever tries it and holds it for one block, far less than a block's time apart.
- `param`: weak fairness of `Frame` (a 33 ms timer in `app.rs` redraws), of
  the command thread, and of the window's `Tick`. The user and the transport
  owe nothing.
- `windows`: weak fairness of `PollUpdates` while the table of open windows is not
  empty, for only then does the timer draw frames; of each window's loading,
  which returns; of `CloseRequested`, because the loop reads its commands on
  every tick; and of `Notify`, which follows the loop. The user owes nothing, nor does
  the window manager.

## 5. What is proved

The proofs hold for every value of the constants that the modules' named
assumptions allow.

`AudioProofs`, the tap. `TypeCorrect`, `NoTearing` and `Refinement` follow from one
inductive invariant `IInv`. `NoSharedSlot` is not inductive: that the producer
is not in the consumer's slot depends on what each of them read earlier. `IInv`
adds that the producer is at most `Capacity` ahead and strictly less once it
has found room (`ProducerInv`), that every slot between `read` and `write` holds
its block whole (`RingInv`), and that the consumer's copy is a prefix of the block it
chose (`ConsumerInv`). The only arithmetic is that two numbers less than
`Capacity` apart have different slots.

`SessionEngineProofs`. `TypeCorrect`, `OneVoice`, `StartsPast` are inductive with the
type invariant. `Playhead` (`PlayheadExact`) follows from those: the two functions are
equal wherever a voice stands that began in the past. `LoopInside` and `Seamless` need that a rounded loop is between 1 and
the region's length, a lemma about division, and for `Seamless` that the frame
read stays in the loop. `Legato` is an action property: a single start comes
from `LegatoStarts`, and more than one only from `TriggerScene`.

`ParamSyncProofs`. `EngineOnItsWay` states `EngineHearsRack`. It needs
`OnItsWay`: the type invariant, and that an instance that has never sounded has an
empty ring. Without that, a change applied at once would overtake changes in
the ring. `CopiesMeet` states `CopiesAgree`, which speaks only of the moments when
nothing is travelling. `Exchange` says of all the others
where the value is that all three will hold: last in the queue to the window,
while no echo runs against it; in the editor, once it has taken that; last in the queue to the
rack, once the window has reported what the editor turned. The lemmas say that `Snap` is
idempotent and stays in range, and what `Last` and `Tail` do to a queue that is
not empty.

`PluginChainProofs`. `TypeCorrect` needs that no rack is longer than its bound.
`ChainFollowsRack` says nothing while commands are on their way, and it is then that a
gesture shifts the positions the commands before it name. `Planned` (theorem
`RackFollowed`) says it at all times: there is a history of the chains, one step per
command, from what the engine has to what follows the racks, in which every command finds
the positions it names filled as its gesture saw them (`Leads`, `Reaches`). A gesture extends
the history at its end (`ReachesAppend`, and one lemma per gesture on what `Follows` becomes), the
command thread takes its first step (`ReachesTail`). `ParamsReach`, an action property, is that of a
parameter's command at the head of the queue. `RegistryCorrect` and
`EditorHears` are inductive beside those two; their content is what insertion at and removal
from a position do to a sequence and to the places of a strip alike, and an editor's, that
with nothing on its way its plugin's place in the rack is its place in the chain: this is used at
the lookup, whatever happened since the click. An editor whose plugin was moved in between, or
that looks while a load or a move is still to be executed, is promised nothing.

`EditorWindowsProofs`. `TypeCorrect` and `Tables` are inductive as they stand. `Held` and
`Marks` are not: a report removes and marks by name, and that it does not reach a
living window depends on what is in the channel. `IInv` adds that a name with
a report on its way has no living window (`NoneBehindAReport`), and, so that a
report cannot break this when it is sent, that two windows of a name never
live together (`OneAlive`); both, like the two properties, until a name is
opened too early. `Onward` says what no step of a window can do: rename a
window, bring it back to life or back in hand; all the steps of its thread use it.

`AudioProofs`, the preview. `PreviewTypeCorrect` needs that a player that plays has a file that was
decoded. `Intruders` is not inductive: that a decode in flight is wanted or overtaken must be
said of the set of decodes, with a command's preview newer than any
(its number is in no other place). `WholePreviews` is an action property over an
invariant that ties the cursor to the frames heard; the only arithmetic is that of whole
frames in what is left of the sample.

`MixerProofs`. `Mirrors` is proved of the lists' lengths and of row and strip index by
index; opening is the step with content, since it must produce agreeing copies
from any two copies in the file. `NeverWithoutTrack` says that no list loses its last
element. `TypeCorrect` needs that what an opening sends is a sequence of commands, for
any number of rows: `RowCommands` is joined row by row, and `Induction`, over a set of numbers,
follows from the least number principle of `WellFoundedInduction`. `ToldHeard` states
`ToldIsHeard`, which says nothing while commands are queued. `Heard` does: the last
command in the queue for a control the engine was told of carries the value shown, and if
there is none the engine has it (`Settles`). It needs `MasterIsSilent`, that in the
Studio the engine has not been told of channel 0: there the master's fader writes the first
strip and tells the engine nothing.

`SessionMatrixProofs`. `TypeCorrect` goes through the sessions of the engine, which
the module instantiates. `AudioPadsBacked` (`EveryAudioPadLoaded`) is inductive: a gesture
that shows audio on a pad sends that pad's `LoadClip` itself, and a `LoadClip` executed leaves
the clip or, if it fails, the pad in `unread`. `GridShowsEngine`, again, says nothing while commands are on their way; `Agreement`
(theorem `GridExact`) is the invariant, until the grid has parted from the engine: `Alike`,
that no pad is MIDI, lit pads have audio and no track has two of them; and
`Meets`, that all clips loop, that a playing pad is loaded and that the commands on their way lead the engine,
one by one, to what the grid shows, each finding it as its click expected. That all clips loop is needed because a one-shot would
leave the lit pad by itself. A load that fails leaves a dark pad's old clip, which changes
nothing for the commands behind it, or parts the two. `ClicksObeyed` (`ClickIsObeyed`) is an action property of the
command thread's step: the command it takes is the first of those `Agreement` speaks of.

`StudioTimelineProofs`. `LeftKeepsEnd`, `InwardKeepsContent` and `RightStaysInSample` are
about `trim_apply` for every clip, tick and sample: while the clamp's bounds are in order the
left edge keeps the end and leaves at least one step, inwards the content stays, and the
right edge never passes the end of the sample, however long that is, unless one step is all
that is left. `TypeCorrect` needs the first and the third,
and what the module's recursive functions compute: `Those` picks the elements of a
list at given indices, each once and in order (`ThoseIs`), and `Synced` adds clip after
clip (`SyncedIs`). Both are shown by `Induction`, over a set of numbers, as in
`MixerProofs`. That ids stay unique rests on one fact about the counter, which copies
leave past the ids they take (`CopiesType`).

`EveryClipHeard` states `EngineHasEveryClip`, which speaks of the moments when nothing
is on its way. The invariant is `Plan`: every history of the engine over the commands
on their way, one step per command (`Leads`, `Reaches`), ends with the timeline complete or with
a command that was lost because it found the engine in Live mode. Complete means, for every
clip whose file can be read,
that the first entry with a clip's id, which is the one the engine finds, is on its track and at
its bounds; that it is the first must be said, since the engine's list may have
entries of one id after it played in Live mode. A gesture splits the
history at what it sends (`ReachesSplit`); `RunHas` says that clips of different ids, added one
by one, are all there in the end, those of unreadable files left out, which serves cut, paste, duplication and Play;
`ReboundFirst`, that the release of a drag brings the bounds of the clip in hand and
touches no other. The command thread takes the first step of the history
(`ReachesFirst`): if the engine is in Studio mode it is the step `Leads` describes, and if
not, `allSent` ends.

`ProjectReturns` is what holds of `OpenKeepsClips`: opened with the Studio on the screen, or
from a live mixer with as many tracks, a project comes back as it was saved. It needs that
`Those` with every index is the list itself (`ThoseAll`).

Only model-checked: the liveness properties (`DisplayCatchesUp`, `OneShotEnds`,
`LitPadsPlay`, `ExchangeRests`, `ToldWindowsEnd`, `EndedWindowsAreForgotten`), which are
temporal properties under fairness and out of the prover's reach. The properties of the
three runs that expect a violation are false and have no theorem; `InwardKeepsContent` and
`ProjectReturns` are what holds of `TrimKeepsContent` and `OpenKeepsClips`.

## 6. Behaviour of the code worth knowing that has no run

Met while modelling; each is written into the guards or the history variables of
the module named.

- `SessionEngine`: the playhead is not where the engine reads when a pad with a
  single sample plays the frames before its loop (hence the condition of
  `PlayheadExact`). A new voice may take its start from one that has
  ended but still counts as playing because its track is mute.
- `SessionMatrix`: duplicating a lit pad copies the lit state too; a one-shot
  stays lit after it ended; the arranger's stop button on an empty pad stops the track but leaves its lit
  pad lit; the first sample appended to a pad replaces its base sample. A file that cannot be read
  (`explorer.rs:656` offers flac, ogg, mp3 and aiff, `main.rs:107` reads WAV) is shown as an audio pad
  that stays silent, or goes on with the clip it had, with a line on stderr (`main.rs:144`); a
  sample appended to such a pad is not heard either, because `set_clip_events` finds no clip.
- `ParamSync`: an echo of an older value of the rack can overwrite a newer one
  when the user does not hold the knob; a window opens with the plugin's
  defaults, not the rack's values; with the transport stopped the ring of an
  instance is not emptied, and when it is full the newest change is the one that
  is lost.
- `PluginChain`: a deleted slot leaves its node sounding. An editor looks its
  tap up once, on its own thread, under the position that was clicked (`wrapper.rs:190`): a load or
  move that is on its way then, or is made between the click and the lookup, leaves it with no tap or
  with that of the plugin that stands there at that moment.
- `PluginTap`: closing a window detaches its consumer twice (`event_loop.rs:480`,
  `wrapper.rs:257`), so the counter wraps: blocks are copied with no window open, and the
  next attach brings it to 0, at which `publish` returns early and that window is not
  served.
- `SessionEngine`: `set_clip_events` (`lib.rs:1286`) means a loop over the whole
  timeline to follow its edits; from the second edit on it does not, because it compares the loop's end
  with the length of the original sample.
- `ParamSync`: `host_sent` is never cleared, so a turn in the editor back to the
  value the rack sent last is taken for an echo (`hikaru_clap_launcher.rs:1058`).
- `PluginChain`: with a native slot before it, a plugin's tap is registered at its
  slot's position while its node stands elsewhere (`lib.rs:952-955`).
- `EditorWindows`: the late report of a closed window removes the entries of the one
  opened after it, and the button then opens a second window of the plugin.
- `Preview`: the generation that `preview_player.rs:11` and `:37` say keeps an old
  decode from sounding is incremented and never compared. An old decode replaces a
  newer preview and sounds after a stop; `OnlyOvertakenIntrude` says that
  nothing else does. The explorer's flag stays lit after a preview ended, and a preview
  asked for while the transport runs loses its flag in the next frame and sounds on.
- `Mixer`: a mute clicked out in the matrix's header comes back on saving and opening, because the strip still
  has it and the mixer's change wins, although `openlive.rs:64-68` says the matrix does.
  A fader's command is dropped when the engine is busy (`main.rs:313`); the comment at
  `main.rs:426-434` describes that fault and repairs it for plugin parameters only.
  `SetMasterVolume` is never sent; "Mx" and "Sx" tell the engine nothing; a switch of the mode leaves
  the engine with the other mode's mix; the push on opening addresses the live strips one
  channel too far; a track that is removed and added again shows a new mix while its channel
  keeps the old one.
- `StudioTimeline`: a file that cannot be read stays on the timeline, one tick long and silent,
  with a line on stderr on each attempt (`main.rs:144`, `:236`); when the engine still has a clip of its id,
  from a project opened before, that one goes on sounding. Deleted and cut clips stay in the engine, also after Play,
  because clips sent by `LoadClip` are marked as pads and `SyncPlaylistClips` keeps those. Pasting before the copied clips leaves the copies where those are.
  `needs_full_sync` is set and read by nobody, although `openstudio.rs:246-248` has
  the render cycle send the clips: after opening, the clips are sent on Play. A clip dragged to another
  track sounds on the old one until it is sent again. Clips of the matrix and of the timeline take ids from
  the same range, and with the engine in Live mode all clips of a track are one.
  With an offset beyond the clip's last step (trim far in, drag to the beginning, trim
  again) the bounds of `clamp` are crossed and it panics; `ClampHolds` excludes it.
- `EditorWindows`: `opening` is left only when the window ends or is closed, never when
  it has come up, so that it always equals the table of open windows. A window
  whose sender is dropped keeps running. Two windows of a plugin take from
  one tap, which is made for one consumer.
- Drum sampler: a voice keeps a pointer to the sample it was started with
  (`trigger`), and `load_dms_sample` replaces the sample without ending the voices that
  play it (`kill_dms_note` exists and has no caller). The rates of an
  envelope are divided by the sample rate where a note is received
  (`main.rs:391`) and again in `advance_envelope`.

## 7. Not modelled

Section 2 lists what is planned. Left out for good: signal processing, drawing
and layout, file dialogs and device enumeration, the X server and the window
manager, foreign plugin code, and the tempo and tick arithmetic on floating-point
numbers. Of project files the models have what saving and opening do to mixes and clips; that
the write is not atomic is a hazard, not a state to explore. `hikaru_sequencer`'s slots, lanes and
quantizer are not used by the application at this commit.
