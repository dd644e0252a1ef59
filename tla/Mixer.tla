------------------------------- MODULE Mixer -------------------------------
(***************************************************************************)
(* Volume and mute of a track: the rows of the Session Matrix, the strips  *)
(* of the live mixer that mirror them one index further on (live_tracks[0] *)
(* is the master), the strips of the Studio, the channels of the engine,   *)
(* and the project files (app.rs, matrix.rs, arranger_view.rs, mixer.rs,   *)
(* playlist.rs, project/, main.rs).  Pan goes the way of the volume, solo  *)
(* the way of the mute.  The command thread takes the engine with try_lock *)
(* and drops the command of a fader when it is busy.                       *)
(* Sequences count from 1, the engine's channels from 0.                   *)
(***************************************************************************)
EXTENDS Integers, Sequences

CONSTANTS Volumes,       \* positions of a fader
          Default,       \* 0.75: a new track, and the engine's channels
          StudioDefault, \* 0.70: masters and the first Studio track
          ChannelCount,  \* channels of the engine
          MaxTracks,     \* bound: rows of the matrix and strips of the Studio
          MaxGestures,   \* bound: gestures of the user
          MaxLost        \* bound: commands dropped

ASSUME MixerAssumption ==
    /\ {Default, StudioDefault} \subseteq Volumes
    /\ ChannelCount \in Nat /\ MaxTracks \in Nat \ {0}
    /\ MaxGestures \in Nat /\ MaxLost \in Nat

Channels == 0..ChannelCount - 1
Mix == [vol : Volumes, mute : BOOLEAN]
New == [vol |-> Default, mute |-> FALSE]
Master == [vol |-> StudioDefault, mute |-> FALSE]

VARIABLES mode,        \* "live" or "studio": of the interface
          matrix,      \* matrix_state.tracks
          live,        \* live_tracks, the master first
          studio,      \* studio_tracks, the master first
          oplf, opsf,  \* the project files last written
          queue,       \* commands on their way
          engine,      \* the engine's channels
          skewed,      \* history: a row came or went without its strip since the last opening
          flipped,     \* history: rows whose mute was clicked in their header since it was last aligned
          told,        \* history: <<channel, control>> the engine was told last by the control shown
          gestures, lost   \* counters

interface == <<mode, matrix, live, studio, oplf, opsf>>
history == <<skewed, flipped, told, gestures>>
vars == <<interface, queue, engine, history, lost>>

Command == [ch : Nat, vol : Volumes] \union [ch : Nat, mute : BOOLEAN]
Controls == {"vol", "mute"}
Rows == DOMAIN matrix

Blank == [matrix |-> <<New>>, live |-> <<Master, New>>]
BlankStudio == <<Master, Master>>

Init ==
    /\ mode = "live" /\ matrix = <<New>> /\ live = <<New, New>>
    /\ studio = BlankStudio /\ oplf = Blank /\ opsf = BlankStudio
    /\ queue = <<>> /\ engine = [c \in Channels |-> New]
    /\ skewed = FALSE /\ flipped = {} /\ told = {0} \X Controls
    /\ gestures = 0 /\ lost = 0

-----------------------------------------------------------------------------
(* Gestures.                                                                *)

Gesture == gestures < MaxGestures /\ gestures' = gestures + 1

\* A control of channel ch sends what it now shows.
Tells(ch, control, command) ==
    /\ queue' = Append(queue, command)
    /\ told' = told \union {<<ch, control>>}

Strip(i) == live[i + 1]

\* Mutant: the strip with the row's own index is written, as for the Studio.
SetVolume_OtherStrip(i, v) ==
    /\ matrix' = [matrix EXCEPT ![i].vol = v]
    /\ live' = IF i \in DOMAIN live THEN [live EXCEPT ![i].vol = v] ELSE live
    /\ Tells(i - 1, "vol", [ch |-> i - 1, vol |-> v])

\* The fader of a row, in the matrix, the arranger and the mixer alike.
SetVolume(i, v) ==
    /\ matrix' = [matrix EXCEPT ![i].vol = v]
    /\ live' = IF i + 1 \in DOMAIN live THEN [live EXCEPT ![i + 1].vol = v] ELSE live
    /\ Tells(i - 1, "vol", [ch |-> i - 1, vol |-> v])

LiveVolume ==
    /\ mode = "live" /\ Gesture
    /\ \E i \in Rows, v \in Volumes : v # matrix[i].vol /\ SetVolume(i, v)
    /\ UNCHANGED <<mode, studio, oplf, opsf, engine, skewed, flipped, lost>>

\* The mute of a strip: toggled from the row's, written to row and strip.
StripMute ==
    /\ mode = "live" /\ Gesture
    /\ \E i \in Rows :
        LET m == ~matrix[i].mute
        IN  /\ matrix' = [matrix EXCEPT ![i].mute = m]
            /\ live' = IF i + 1 \in DOMAIN live THEN [live EXCEPT ![i + 1].mute = m] ELSE live
            /\ Tells(i - 1, "mute", [ch |-> i - 1, mute |-> m])
            /\ flipped' = flipped \ {i}
    /\ UNCHANGED <<mode, studio, oplf, opsf, engine, skewed, lost>>

\* Mutant: the state from before the click is sent.
ToggleHeader_SendsOld(i) ==
    /\ matrix' = [matrix EXCEPT ![i].mute = ~@]
    /\ Tells(i - 1, "mute", [ch |-> i - 1, mute |-> matrix[i].mute])

\* The mute in the header of the matrix writes the row only.
ToggleHeader(i) ==
    /\ matrix' = [matrix EXCEPT ![i].mute = ~@]
    /\ Tells(i - 1, "mute", [ch |-> i - 1, mute |-> matrix'[i].mute])

HeaderMute ==
    /\ mode = "live" /\ Gesture
    /\ \E i \in Rows : ToggleHeader(i) /\ flipped' = flipped \union {i}
    /\ UNCHANGED <<mode, live, studio, oplf, opsf, engine, skewed, lost>>

StudioVolume ==
    /\ mode = "studio" /\ Gesture
    /\ \E i \in DOMAIN studio \ {1}, v \in Volumes :
        /\ v # studio[i].vol
        /\ studio' = [studio EXCEPT ![i].vol = v]
        /\ Tells(i - 1, "vol", [ch |-> i - 1, vol |-> v])
    /\ UNCHANGED <<mode, matrix, live, oplf, opsf, engine, skewed, flipped, lost>>

StudioMute ==
    /\ mode = "studio" /\ Gesture
    /\ \E i \in DOMAIN studio \ {1} :
        /\ studio' = [studio EXCEPT ![i].mute = ~@]
        /\ Tells(i - 1, "mute", [ch |-> i - 1, mute |-> studio'[i].mute])
    /\ UNCHANGED <<mode, matrix, live, oplf, opsf, engine, skewed, flipped, lost>>

\* The master's controls are the interface's alone: no command is sent.
MasterVolume ==
    /\ Gesture
    /\ \E v \in Volumes :
        IF mode = "live"
        THEN v # live[1].vol /\ live' = [live EXCEPT ![1].vol = v] /\ UNCHANGED studio
        ELSE v # studio[1].vol /\ studio' = [studio EXCEPT ![1].vol = v] /\ UNCHANGED live
    /\ UNCHANGED <<mode, matrix, oplf, opsf, queue, engine, skewed, flipped, told, lost>>

Unmuted(strips) == [i \in DOMAIN strips |-> [strips[i] EXCEPT !.mute = FALSE]]

\* "Mx" puts out every mute and tells the engine nothing.
ClearMutes ==
    /\ Gesture
    /\ matrix' = Unmuted(matrix) /\ live' = Unmuted(live) /\ studio' = Unmuted(studio)
    /\ flipped' = {}
    /\ told' = told \ (Channels \X {"mute"})
    /\ UNCHANGED <<mode, oplf, opsf, queue, engine, skewed, lost>>

Untold(ch) == told \ ({ch} \X Controls)

\* "+" of the arranger: a row and a strip.
AddBoth ==
    /\ mode = "live" /\ Gesture /\ Len(matrix) < MaxTracks
    /\ matrix' = Append(matrix, New) /\ live' = Append(live, New)
    /\ flipped' = flipped \ {Len(matrix')}
    /\ told' = Untold(Len(matrix))
    /\ UNCHANGED <<mode, studio, oplf, opsf, queue, engine, skewed, lost>>

\* "+ Track" of the matrix and "+" of the mixer panel: a row alone.
AddRow ==
    /\ mode = "live" /\ Gesture /\ Len(matrix) < MaxTracks
    /\ matrix' = Append(matrix, New)
    /\ skewed' = TRUE
    /\ told' = Untold(Len(matrix))
    /\ UNCHANGED <<mode, live, studio, oplf, opsf, queue, engine, flipped, lost>>

\* Mutant: the last row goes too.
Shorter_ToNothing(rows) == SubSeq(rows, 1, Len(rows) - 1)

Shorter(rows) == IF Len(rows) > 1 THEN SubSeq(rows, 1, Len(rows) - 1) ELSE rows

\* "-" of the arranger: one row and two strips stay.
RemoveBoth ==
    /\ matrix' = Shorter(matrix)
    /\ live' = IF Len(live) > 2 THEN Shorter(live) ELSE live

\* "- Track" of the matrix: the last row alone.
RemoveRow == matrix' = Shorter(matrix) /\ UNCHANGED live

RemoveTrack ==
    /\ mode = "live" /\ Gesture
    /\ \/ RemoveBoth /\ UNCHANGED skewed
       \/ RemoveRow /\ skewed' = TRUE
    /\ flipped' = flipped \intersect DOMAIN matrix'
    /\ told' = Untold(Len(matrix'))
    /\ UNCHANGED <<mode, studio, oplf, opsf, queue, engine, lost>>

AddStudio ==
    /\ mode = "studio" /\ Gesture /\ Len(studio) < MaxTracks + 1
    /\ studio' = Append(studio, New)
    /\ told' = Untold(Len(studio))
    /\ UNCHANGED <<mode, matrix, live, oplf, opsf, queue, engine, skewed, flipped, lost>>

\* The last strip that is not the master.
RemoveStudio ==
    /\ mode = "studio" /\ Gesture
    /\ studio' = Shorter(studio)
    /\ told' = Untold(Len(studio'))
    /\ UNCHANGED <<mode, matrix, live, oplf, opsf, queue, engine, skewed, flipped, lost>>

\* The other mode's strips come up; the engine keeps the mix it has.
SwitchMode ==
    /\ Gesture
    /\ mode' = IF mode = "live" THEN "studio" ELSE "live"
    /\ told' = {}
    /\ UNCHANGED <<matrix, live, studio, oplf, opsf, queue, engine, skewed, flipped, lost>>

-----------------------------------------------------------------------------
(* Project files.                                                           *)

Save ==
    /\ Gesture
    /\ IF mode = "live"
       THEN oplf' = [matrix |-> matrix, live |-> live] /\ UNCHANGED opsf
       ELSE opsf' = studio /\ UNCHANGED oplf
    /\ UNCHANGED <<mode, matrix, live, studio, queue, engine, skewed, flipped, told, lost>>

\* sync_matrix_mixer_bidirectional with nothing to compare with: what differs
\* from a new track's value counts as changed, and the mixer's change wins.
Matched(strips, rows) ==
    [i \in 1..Len(rows) + 1 |-> IF i \in DOMAIN strips THEN strips[i] ELSE rows[i - 1]]

Reconciled(strip, row) ==
    [vol |-> IF strip.vol # Default THEN strip.vol ELSE row.vol,
     mute |-> strip.mute \/ row.mute]

RowCommands(strips, rows, i) ==
    LET s == strips[i + 1]
    IN (IF s.vol # Default THEN <<[ch |-> i - 1, vol |-> s.vol]>> ELSE <<>>)
       \o (IF Reconciled(s, rows[i]).mute THEN <<[ch |-> i - 1, mute |-> TRUE]>> ELSE <<>>)

SyncCommands(strips, rows) ==
    LET Upto[i \in 0..Len(rows)] ==
            IF i = 0 THEN <<>> ELSE Upto[i - 1] \o RowCommands(strips, rows, i)
    IN Upto[Len(rows)]

\* push_track_mix_to_engine: strip k of the mode's own list, master included,
\* to channel k.
PushCommands(strips) ==
    [k \in 1..2 * Len(strips) |->
        LET i == (k + 1) \div 2
        IN IF k % 2 = 1 THEN [ch |-> i - 1, vol |-> strips[i].vol]
                        ELSE [ch |-> i - 1, mute |-> strips[i].mute]]

\* openlive::apply.  The push still looks at the mode that is being left.
OpenLive(file) ==
    LET strips == Matched(file.live, file.matrix)
        rows == [i \in DOMAIN file.matrix |-> Reconciled(strips[i + 1], file.matrix[i])]
    IN  /\ matrix' = rows
        /\ live' = <<strips[1]>> \o rows
        /\ queue' = queue \o SyncCommands(strips, file.matrix)
                          \o PushCommands(IF mode = "live" THEN live' ELSE studio)
        /\ mode' = "live"
        /\ skewed' = FALSE /\ flipped' = {} /\ told' = {}
        /\ UNCHANGED studio

\* openstudio::apply.
OpenStudio(file) ==
    /\ studio' = file
    /\ queue' = queue \o PushCommands(IF mode = "live" THEN live ELSE studio')
    /\ mode' = "studio" /\ told' = {}
    /\ UNCHANGED <<matrix, live, skewed, flipped>>

\* Opening what was saved, from either mode, or a new project of the mode.
Open ==
    /\ Gesture
    /\ \/ OpenLive(oplf) \/ OpenStudio(opsf)
       \/ mode = "live" /\ OpenLive(Blank)
       \/ mode = "studio" /\ OpenStudio(BlankStudio)
    /\ UNCHANGED <<oplf, opsf, engine, lost>>

-----------------------------------------------------------------------------
(* The command thread.                                                      *)

Set(c) ==
    engine' = IF c.ch \notin Channels THEN engine
              ELSE IF "vol" \in DOMAIN c THEN [engine EXCEPT ![c.ch].vol = c.vol]
              ELSE [engine EXCEPT ![c.ch].mute = c.mute]

Obey ==
    /\ queue # <<>>
    /\ Set(Head(queue)) /\ queue' = Tail(queue)
    /\ UNCHANGED <<interface, history, lost>>

\* The audio callback or a preview's thread has the engine: try_lock fails.
Drop ==
    /\ queue # <<>> /\ lost < MaxLost
    /\ lost' = lost + 1
    /\ queue' = Tail(queue)
    /\ told' = told \ {<<Head(queue).ch, IF "vol" \in DOMAIN Head(queue) THEN "vol" ELSE "mute">>}
    /\ UNCHANGED <<interface, engine, skewed, flipped, gestures>>

Next ==
    \/ LiveVolume \/ StripMute \/ HeaderMute \/ StudioVolume \/ StudioMute
    \/ MasterVolume \/ ClearMutes
    \/ AddBoth \/ AddRow \/ RemoveTrack \/ AddStudio \/ RemoveStudio
    \/ SwitchMode \/ Save \/ Open
    \/ Obey \/ Drop

Spec == Init /\ [][Next]_vars

-----------------------------------------------------------------------------
(* Properties.                                                              *)

\* The state is well formed: neither mode ever loses its last track, and what
\* the project files hold are mixes like those they came from.
TypeOK ==
    /\ mode \in {"live", "studio"}
    /\ matrix \in Seq(Mix) /\ matrix # <<>>
    /\ live \in Seq(Mix) /\ live # <<>> /\ studio \in Seq(Mix) /\ studio # <<>>
    /\ oplf \in [matrix : Seq(Mix), live : Seq(Mix)] /\ opsf \in Seq(Mix)
    /\ queue \in Seq(Command) /\ engine \in [Channels -> Mix]
    /\ skewed \in BOOLEAN /\ flipped \subseteq Nat /\ told \subseteq Nat \X Controls
    /\ gestures \in 0..MaxGestures /\ lost \in 0..MaxLost

\* Row i and strip i + 1 are one track: they agree through every gesture, save
\* and opening, whatever the file's two copies said, except for a mute that was
\* clicked in the matrix's header, and unless a row came or went alone
\* (app.rs 63-139, arranger_view.rs, matrix.rs 1701-1725).
MirrorsAgree ==
    ~skewed =>
        /\ Len(live) = Len(matrix) + 1
        /\ \A i \in Rows : /\ Strip(i).vol = matrix[i].vol
                           /\ i \notin flipped => Strip(i).mute = matrix[i].mute

Shown(ch) == IF mode = "live" THEN matrix[ch + 1] ELSE studio[ch + 1]

\* What a control shows is what the engine does once its commands are through,
\* until one of them is dropped or something that tells the engine nothing
\* changes the picture (main.rs 312-336).
ToldIsHeard ==
    queue = <<>> =>
        \A ch \in Channels :
            /\ <<ch, "vol">> \in told => engine[ch].vol = Shown(ch).vol
            /\ <<ch, "mute">> \in told => engine[ch].mute = Shown(ch).mute

=============================================================================
