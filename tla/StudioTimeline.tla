--------------------------- MODULE StudioTimeline ---------------------------
(***************************************************************************)
(* The clips of the Studio's timeline: the list the interface edits         *)
(* (playlist.rs, project/openstudio.rs), the commands that tell the engine  *)
(* about it, and the clips the engine plays (hikaru_audio_engine).  The     *)
(* interface sends a clip when it is dropped, the bounds when a drag ends,  *)
(* every clip after a cut, a paste or a duplication, and the whole list on  *)
(* Play; after a deletion or the opening of a project it sends nothing.     *)
(* The timeline shows whatever file is dropped on it; the engine has no     *)
(* clip of one it cannot read.  Times are grid steps (the single tick an    *)
(* unreadable file gets counts as one); the master is track 0; the matrix   *)
(* holds no pads; files do not change while the program runs.               *)
(***************************************************************************)
EXTENDS ClipTrim, Integers, Sequences, FiniteSetsExt

CONSTANTS LiveRows, StudioRows, \* tracks of each mixer besides the master
          MaxTick,              \* bound: last step of the grid
          MaxClips,             \* bound: clips in the timeline
          MaxGestures           \* bound: gestures of the user

ASSUME TimelineAssumption ==
    /\ {LiveRows, StudioRows, MaxTick} \subseteq Nat \ {0}
    /\ MaxClips \in Nat /\ MaxGestures \in Nat

VARIABLES mode,      \* "live" or "studio": of the interface
          clips,     \* playlist_state.clips
          nextId,    \* next_clip_id
          clipboard,
          drag,      \* clip_drag or trim_drag, with the clip as it was grabbed
          file,      \* the project file last written
          queue,     \* commands on their way
          engineMode,
          engine,    \* the engine's clips
          allSent,   \* history: see EngineHasEveryClip
          crossed,   \* history: clips dragged to another track since they were last sent
          gestures   \* counter

interface == <<mode, clips, nextId, clipboard, drag, file>>
vars == <<interface, queue, engineMode, engine, allSent, crossed, gestures>>

Rows(m) == 1..(IF m = "live" THEN LiveRows ELSE StudioRows)
Clip == [id : Nat \ {0}, track : Rows("studio"), start : Nat, dur : Nat \ {0}, off : Nat,
         readable : BOOLEAN]
Ids(list) == {list[i].id : i \in DOMAIN list}
Bounds(clip) == <<clip.start, clip.dur, clip.off>>

\* total_sample_ticks: what load_sample_info makes of the file.
TotalOf(readable) == IF readable THEN SampleLen ELSE 1

\* What list has at the indices in keep, in order.
Those(list, keep) ==
    LET Upto[i \in 0..Len(list)] ==
            IF i = 0 THEN <<>>
            ELSE IF i \in keep THEN Append(Upto[i - 1], list[i]) ELSE Upto[i - 1]
    IN  Upto[Len(list)]

OnRows(list, rows) == Those(list, {i \in DOMAIN list : list[i].track \in rows})

NoDrag == [id |-> 0, edge |-> "none", moved |-> FALSE, from |-> <<0, 0, 0>>]
Blank == [clips |-> <<>>, next |-> 1]

Load(clip) == [op |-> "load", clip |-> clip]
Sends(commands) == queue' = queue \o commands

Init ==
    /\ mode = "live" /\ clips = <<>> /\ nextId = 1 /\ clipboard = <<>> /\ drag = NoDrag
    /\ file = Blank /\ queue = <<>> /\ engineMode = "studio" /\ engine = <<>>
    /\ allSent = TRUE /\ crossed = {} /\ gestures = 0

Gesture == gestures < MaxGestures /\ gestures' = gestures + 1

-----------------------------------------------------------------------------
(* Editing.  The shortcuts work in both modes, the mouse in the Studio.     *)

\* sync_all_clips_to_engine
ResendAll(list) ==
    /\ Sends([i \in DOMAIN list |-> Load(list[i])])
    /\ allSent' = TRUE /\ crossed' = {}

Drop ==
    /\ mode = "studio" /\ Gesture /\ Len(clips) < MaxClips
    /\ \E track \in Rows(mode), start \in 0..MaxTick, readable \in BOOLEAN :
        LET clip == [id |-> nextId, track |-> track, start |-> start,
                     dur |-> TotalOf(readable), off |-> 0, readable |-> readable]
        IN  clips' = Append(clips, clip) /\ Sends(<<Load(clip)>>)
    /\ nextId' = nextId + 1
    /\ UNCHANGED <<mode, clipboard, drag, file, engineMode, engine, allSent, crossed>>

Selected(selection) == Those(clips, {i \in DOMAIN clips : clips[i].id \in selection})
Unselected(selection) == Those(clips, {i \in DOMAIN clips : clips[i].id \notin selection})
Selections == SUBSET Ids(clips) \ {{}}

Copy ==
    /\ Gesture
    /\ \E selection \in Selections : clipboard' = Selected(selection)
    /\ UNCHANGED <<mode, clips, nextId, drag, file, queue, engineMode, engine, allSent, crossed>>

Cut ==
    /\ Gesture
    /\ \E selection \in Selections :
        /\ clipboard' = Selected(selection)
        /\ clips' = Unselected(selection)
        /\ ResendAll(clips')
    /\ UNCHANGED <<mode, nextId, drag, file, engineMode, engine>>

Delete ==
    /\ Gesture
    /\ \E selection \in Selections : clips' = Unselected(selection)
    /\ UNCHANGED <<mode, nextId, clipboard, drag, file, queue, engineMode, engine, allSent, crossed>>

Highest(list) == Max(Ids(list) \union {0})
Earliest(list) == Min({list[i].start : i \in DOMAIN list})
Latest(list) == Max({list[i].start + list[i].dur : i \in DOMAIN list})

\* Mutant: the highest id in use, not one above it.
NextFree_Taken(list, next) == Highest(list)

\* next_free_clip_id
NextFree(list, next) == Greater(Highest(list), next) + 1

\* Copies of the clips of list that fall on the given rows, moved by delta,
\* each with the id after the last one given.
AddCopies(list, rows, delta) ==
    LET added == OnRows(list, rows)
        first == NextFree(clips, nextId)
        \* each id raises next_clip_id past itself, so the next is two further
        copies == [i \in DOMAIN added |->
                    [added[i] EXCEPT !.id = first + 2 * (i - 1), !.start = @ + delta]]
    IN  /\ added # <<>> /\ Len(clips) + Len(added) <= MaxClips
        /\ \A i \in DOMAIN copies : copies[i].start <= MaxTick
        /\ clips' = clips \o copies
        /\ nextId' = Greater(nextId, first + 2 * Len(added) - 1)
        /\ ResendAll(clips')

\* Pasting before the copied clips leaves the copies where the clips are.
Paste ==
    /\ Gesture /\ clipboard # <<>>
    /\ \E at \in 0..MaxTick : AddCopies(clipboard, Rows(mode), Less(at, Earliest(clipboard)))
    /\ UNCHANGED <<mode, clipboard, drag, file, engineMode, engine>>

Duplicate ==
    /\ Gesture
    /\ \E selection \in Selections :
        LET picked == Selected(selection)
        IN  AddCopies(picked, Rows("studio"), Latest(picked) - Earliest(picked))
    /\ UNCHANGED <<mode, clipboard, drag, file, engineMode, engine>>

-----------------------------------------------------------------------------
(* Dragging a clip, or one of its edges.  What the mouse moves is written   *)
(* at every step; the engine is told once, when the button is released.     *)

IndexOf(id) == CHOOSE i \in DOMAIN clips : clips[i].id = id

Grab ==
    /\ mode = "studio" /\ drag = NoDrag /\ Gesture
    /\ \E i \in DOMAIN clips, edge \in {"none", "left", "right"} :
        drag' = [id |-> clips[i].id, edge |-> edge, moved |-> FALSE, from |-> Bounds(clips[i])]
    /\ UNCHANGED <<mode, clips, nextId, clipboard, file, queue, engineMode, engine,
                   allSent, crossed>>

Trim ==
    /\ mode = "studio" /\ drag.edge # "none" /\ drag.id \in Ids(clips)
    /\ drag.edge = "left" => ClampHolds(drag.from)
    /\ \E tick \in 0..MaxTick :
        LET i == IndexOf(drag.id)
            to == IF drag.edge = "left" THEN TrimLeft(drag.from, tick)
                  ELSE TrimRight(drag.from, TotalOf(clips[i].readable), tick)
        IN  /\ to[1] # clips[i].start \/ to[2] # clips[i].dur
            /\ clips' = [clips EXCEPT ![i] = [@ EXCEPT !.start = to[1], !.dur = to[2], !.off = to[3]]]
    /\ drag' = [drag EXCEPT !.moved = TRUE]
    /\ UNCHANGED <<mode, nextId, clipboard, file, queue, engineMode, engine, allSent, crossed,
                   gestures>>

Move ==
    /\ mode = "studio" /\ drag # NoDrag /\ drag.edge = "none" /\ drag.id \in Ids(clips)
    /\ \E track \in Rows(mode), tick \in 0..MaxTick :
        LET i == IndexOf(drag.id)
        IN  /\ track # clips[i].track \/ tick # clips[i].start
            /\ clips' = [clips EXCEPT ![i] = [@ EXCEPT !.track = track, !.start = tick]]
            /\ crossed' = IF track = clips[i].track THEN crossed ELSE crossed \union {drag.id}
    /\ drag' = [drag EXCEPT !.moved = TRUE]
    /\ UNCHANGED <<mode, nextId, clipboard, file, queue, engineMode, engine, allSent, gestures>>

\* A clip cut or deleted under the hand has nothing to report.
Release ==
    /\ mode = "studio" /\ drag # NoDrag
    /\ Sends(IF drag.moved /\ drag.id \in Ids(clips)
             THEN <<[op |-> "bounds", clip |-> clips[IndexOf(drag.id)]]>> ELSE <<>>)
    /\ drag' = NoDrag
    /\ UNCHANGED <<mode, clips, nextId, clipboard, file, engineMode, engine, allSent, crossed,
                   gestures>>

-----------------------------------------------------------------------------
(* Mode, transport and project.                                             *)

\* The two buttons of the header tell the engine ...
ModeButton ==
    /\ Gesture
    /\ mode' = IF mode = "live" THEN "studio" ELSE "live"
    /\ Sends(<<[op |-> "mode", to |-> mode']>>)
    /\ UNCHANGED <<clips, nextId, clipboard, drag, file, engineMode, engine, allSent, crossed>>

\* ... the View menu and the opening of a project of the other mode do not.
SwitchSilently ==
    /\ Gesture
    /\ mode' = IF mode = "live" THEN "studio" ELSE "live"
    /\ UNCHANGED <<clips, nextId, clipboard, drag, file, queue, engineMode, engine, allSent, crossed>>

Play ==
    /\ Gesture
    /\ IF mode = "studio"
       THEN Sends(<<[op |-> "sync", clips |-> clips]>>) /\ allSent' = TRUE /\ crossed' = {}
       ELSE Sends(<<[op |-> "mode", to |-> "live"]>>) /\ UNCHANGED <<allSent, crossed>>
    /\ UNCHANGED <<mode, clips, nextId, clipboard, drag, file, engineMode, engine>>

Save ==
    /\ mode = "studio" /\ Gesture
    /\ file' = [clips |-> clips, next |-> nextId]
    /\ UNCHANGED <<mode, clips, nextId, clipboard, drag, queue, engineMode, engine, allSent, crossed>>

\* apply_playlist keeps the clips on tracks of the mode being left.
Apply(project) ==
    /\ clips' = OnRows(project.clips, Rows(mode))
    /\ nextId' = project.next
    /\ clipboard' = <<>> /\ drag' = NoDrag /\ mode' = "studio"
    /\ allSent' = (clips' = <<>>) /\ crossed' = {}
    /\ UNCHANGED <<file, queue, engineMode, engine>>

Open == Gesture /\ Apply(file)

NewProject == mode = "studio" /\ Gesture /\ Apply(Blank)

-----------------------------------------------------------------------------
(* The engine, on the command thread.  In Live mode it knows a clip by its  *)
(* track (the scene is always 0), in Studio mode by its id.                 *)

\* Mutant: by track in Studio mode too.
Same_ByTrack(m, e, clip) == e.track = clip.track

Same(m, e, clip) == IF m = "studio" THEN e.id = clip.id ELSE e.track = clip.track
Found(m, list, clip) == {i \in DOMAIN list : Same(m, list[i].clip, clip)}

\* add_clip: replaces the first clip that is the same, or appends.
Added(m, list, clip, pad) ==
    LET new == [clip |-> clip, pad |-> pad]
        found == Found(m, list, clip)
    IN  IF found = {} THEN Append(list, new) ELSE [list EXCEPT ![Min(found)] = new]

\* LoadClip and SyncPlaylistClips: a file WavReader cannot open is only reported.
Decoded(m, list, clip, pad) == IF clip.readable THEN Added(m, list, clip, pad) ELSE list

AtBounds(e, clip) == [e EXCEPT !.start = clip.start, !.dur = clip.dur, !.off = clip.off]

\* update_clip_bounds: the track and the samples stay.
Rebound(m, list, clip) ==
    LET found == Found(m, list, clip)
    IN  IF found = {} THEN list ELSE [list EXCEPT ![Min(found)].clip = AtBounds(@, clip)]

\* SyncPlaylistClips keeps every clip that came by LoadClip, as if it were a pad.
Synced(m, list, new) ==
    LET Upto[i \in 0..Len(new)] ==
            IF i = 0 THEN Those(list, {k \in DOMAIN list : list[k].pad})
            ELSE Decoded(m, Upto[i - 1], new[i], FALSE)
    IN  Upto[Len(new)]

Heard == allSent' = (allSent /\ engineMode = "studio") /\ UNCHANGED engineMode

Obey(command) ==
    \/ /\ command.op = "load"
       /\ engine' = Decoded(engineMode, engine, command.clip, TRUE) /\ Heard
    \/ /\ command.op = "bounds"
       /\ engine' = Rebound(engineMode, engine, command.clip) /\ Heard
    \/ /\ command.op = "sync"
       /\ engine' = Synced(engineMode, engine, command.clips) /\ Heard
    \/ /\ command.op = "mode"
       /\ engineMode' = command.to /\ UNCHANGED <<engine, allSent>>

Handle ==
    /\ queue # <<>>
    /\ Obey(Head(queue)) /\ queue' = Tail(queue)
    /\ UNCHANGED <<interface, crossed, gestures>>

Next ==
    \/ Drop \/ Copy \/ Cut \/ Delete \/ Paste \/ Duplicate
    \/ Grab \/ Trim \/ Move \/ Release
    \/ ModeButton \/ SwitchSilently \/ Play \/ Save \/ Open \/ NewProject
    \/ Handle

Spec == Init /\ [][Next]_vars

-----------------------------------------------------------------------------
(* Properties.                                                              *)

IsTimeline(list, next) ==
    /\ list \in Seq(Clip) /\ next \in Nat \ {0}
    /\ \A i \in DOMAIN list : list[i].id < next
    /\ \A i, j \in DOMAIN list : list[i].id = list[j].id => i = j

Hand == [id : Nat, edge : {"none", "left", "right"}, moved : BOOLEAN, from : Nat \X Nat \X Nat]

OneClip == [op : {"load", "bounds"}, clip : Clip]
WholeList == [op : {"sync"}, clips : Seq(Clip)]
ChangeMode == [op : {"mode"}, to : {"live", "studio"}]
Command == OneClip \union WholeList \union ChangeMode

Entry == [clip : Clip, pad : BOOLEAN]

\* The state is well formed; no two clips of the timeline, nor of the project
\* on disk, share an id, and no id is one that drop_audio_at_grid_pos or
\* next_free_clip_id is still to give.
TypeOK ==
    /\ {mode, engineMode} \subseteq {"live", "studio"}
    /\ IsTimeline(clips, nextId) /\ IsTimeline(file.clips, file.next)
    /\ clipboard \in Seq(Clip)
    /\ drag \in Hand /\ (drag.edge # "none" => drag.from[2] # 0)
    /\ queue \in Seq(Command)
    /\ engine \in Seq(Entry)
    /\ allSent \in BOOLEAN /\ crossed \subseteq Nat

Plays(e, clip) ==
    /\ e.id = clip.id /\ Bounds(e) = Bounds(clip)
    /\ e.track = clip.track \/ clip.id \in crossed

\* Once every clip has been sent since the project was opened, and the engine
\* has heard all of it in Studio mode, every clip whose file could be read and
\* that is not in the user's hand is one the engine plays, at the bounds and on
\* the track shown; the track of one dragged across rows only from the next
\* time it is sent.  A clip of an unreadable file stays on the timeline with
\* nothing to play: LoadClip and SyncPlaylistClips only print an error.
EngineHasEveryClip ==
    (allSent /\ queue = <<>>) =>
        \A i \in DOMAIN clips :
            (clips[i].readable /\ clips[i].id # drag.id) =>
                \E j \in DOMAIN engine : Plays(engine[j].clip, clips[i])

\* Opening a project brings back every clip whose track the project has.
\* apply (openstudio.rs): apply_playlist decides which clips are valid by how
\* many tracks there are, "y tiene que ver el set nuevo".
OpenKeepsClips ==
    [][Open => clips' = OnRows(file.clips, Rows("studio"))]_vars

\* Trimming the left edge does not move the sample under the grid.  trim_apply
\* (playlist.rs): the start and the offset move "en la misma cantidad, de modo
\* que el waveform no 'salta' dentro del clip".
TrimKeepsContent ==
    [][\A i \in DOMAIN clips :
        (Trim /\ drag.edge = "left" /\ clips[i].id = drag.id) =>
            clips'[i].start - clips'[i].off = clips[i].start - clips[i].off]_vars
=============================================================================
