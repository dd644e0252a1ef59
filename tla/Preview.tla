------------------------------ MODULE Preview ------------------------------
(***************************************************************************)
(* The preview of the explorer: the buttons, the command thread, one       *)
(* detached thread per preview that decodes and then starts the player,    *)
(* and the audio callback that plays it (explorer.rs, main.rs,             *)
(* preview_player.rs).  Everything the player is written or read by runs   *)
(* under the engine mutex, so a critical section is one step; a callback   *)
(* whose try_lock fails plays silence and changes nothing.  Volume and     *)
(* resampling are left out.                                                *)
(***************************************************************************)
EXTENDS Integers, Sequences

CONSTANTS Audio,         \* files decode_wav reads
          Broken,        \* files with an audio name that it does not read
          Midi,          \* files is_midi_file recognises
          Length,        \* samples of each audio file, all channels together
          Channels,      \* 1 or 2
          NoFile,
          BlockFrames,   \* frames of one callback
          MaxRequests,   \* bound: previews ever asked for
          MaxQueue       \* bound: commands on their way

ASSUME PreviewAssumption ==
    /\ Length \in [Audio -> Nat] /\ Channels \in [Audio -> {1, 2}]
    /\ NoFile \notin Audio \union Broken \union Midi
    /\ BlockFrames \in Nat \ {0} /\ MaxRequests \in Nat /\ MaxQueue \in Nat

Files == Audio \union Broken \union Midi
Requests == 1..MaxRequests

VARIABLES selected,    \* the file chosen in the explorer
          button,      \* is_playing_preview
          transport,   \* the interface's playback state
          queue,       \* commands, oldest first
          requests,    \* number of previews asked for so far
          decoding,    \* previews whose thread has not finished
          player,      \* PreviewBuffer
          wanted,      \* history: the preview the last handled command wants, 0 for silence
          overtaken,   \* history: previews that were still decoding when a later command was handled
          heard        \* history: frames of the player's samples that were mixed

explorer == <<selected, button, transport, requests>>
history == <<wanted, overtaken, heard>>
previewVars == <<explorer, queue, decoding, player, history>>

Preview == [req : Requests, file : Files]
Command == [op : {"preview"}, req : Requests, file : Files] \union [op : {"stop", "play"}]
Player == [playing : BOOLEAN, req : 0..MaxRequests, file : Audio \union {NoFile}, cursor : Nat]

PreviewInit ==
    /\ selected = NoFile /\ button = FALSE /\ transport = "stopped" /\ requests = 0
    /\ queue = <<>> /\ decoding = {}
    /\ player = [playing |-> FALSE, req |-> 0, file |-> NoFile, cursor |-> 0]
    /\ wanted = 0 /\ overtaken = {} /\ heard = 0

-----------------------------------------------------------------------------
(* The interface's thread.                                                  *)

Sends(commands) ==
    /\ Len(queue) + Len(commands) <= MaxQueue
    /\ queue' = queue \o commands

AsksFor(file) ==
    /\ requests < MaxRequests
    /\ requests' = requests + 1
    /\ Sends(<<[op |-> "preview", req |-> requests + 1, file |-> file]>>)

Engine == <<decoding, player, history>>

\* A click on a file that is not MIDI plays it.
SelectSample(file) ==
    /\ file \in Audio \union Broken
    /\ selected' = file /\ button' = TRUE
    /\ AsksFor(file)
    /\ UNCHANGED <<transport, Engine>>

SelectMidi(file) ==
    /\ file \in Midi
    /\ selected' = file /\ button' = FALSE
    /\ Sends(<<[op |-> "stop"]>>)
    /\ UNCHANGED <<transport, requests, Engine>>

\* The button decides from its own flag; with no file chosen it only lights.
\* A chosen MIDI file is asked for like any other and does not decode.
TogglePlay ==
    /\ button' = ~button
    /\ IF button THEN Sends(<<[op |-> "stop"]>>) /\ UNCHANGED requests
       ELSE IF selected = NoFile THEN UNCHANGED <<queue, requests>>
       ELSE AsksFor(selected)
    /\ UNCHANGED <<selected, transport, Engine>>

\* A click on the waveform of the chosen file plays it from its beginning.
ClickWaveform ==
    /\ selected # NoFile
    /\ button' = TRUE
    /\ AsksFor(selected)
    /\ UNCHANGED <<selected, transport, Engine>>

\* The header's buttons, as far as they concern the preview.
Play ==
    /\ transport # "playing"
    /\ transport' = "playing"
    /\ Sends(<<[op |-> "stop"], [op |-> "play"]>>)
    /\ UNCHANGED <<selected, button, requests, Engine>>

PauseOrStop ==
    /\ transport' \in {"paused", "stopped"} /\ transport' # transport
    /\ transport' = "paused" => transport = "playing"
    /\ UNCHANGED <<selected, button, requests, queue, Engine>>

\* While the transport runs every frame puts the button out.
SyncFrame ==
    /\ transport = "playing" /\ button
    /\ button' = FALSE
    /\ UNCHANGED <<selected, transport, requests, queue, Engine>>

-----------------------------------------------------------------------------
(* The command thread.                                                      *)

Stopped(p) == [p EXCEPT !.playing = FALSE, !.cursor = 0]

Decodes == {d.req : d \in decoding}

\* Mutant: what plays goes on until the new sample is decoded.
HandlePreview_KeepsPlaying(c) ==
    /\ c.op = "preview"
    /\ decoding' = decoding \union {[req |-> c.req, file |-> c.file]}
    /\ wanted' = c.req /\ overtaken' = overtaken \union Decodes
    /\ UNCHANGED <<player, heard>>

HandlePreview(c) ==
    /\ c.op = "preview"
    /\ player' = Stopped(player)
    /\ decoding' = decoding \union {[req |-> c.req, file |-> c.file]}
    /\ wanted' = c.req /\ overtaken' = overtaken \union Decodes
    /\ UNCHANGED heard

\* StopPreview, and Play, which stops the preview too.
HandleStop(c) ==
    /\ c.op \in {"stop", "play"}
    /\ player' = Stopped(player)
    /\ wanted' = 0 /\ overtaken' = overtaken \union Decodes
    /\ UNCHANGED <<decoding, heard>>

HandleCommand ==
    /\ queue # <<>>
    /\ queue' = Tail(queue)
    /\ HandlePreview(Head(queue)) \/ HandleStop(Head(queue))
    /\ UNCHANGED explorer

-----------------------------------------------------------------------------
(* The decode threads: they end in any order.                               *)

\* Mutant: the cursor is left where it stood.
Started_KeepsCursor(d) ==
    [playing |-> TRUE, req |-> d.req, file |-> d.file, cursor |-> player.cursor]

\* Mutant: the samples of the sample played before stay in place.
Started_KeepsSamples(d) ==
    [playing |-> TRUE, req |-> d.req, file |-> player.file, cursor |-> 0]

Started(d) == [playing |-> TRUE, req |-> d.req, file |-> d.file, cursor |-> 0]

\* The generation that play() counts is compared with nothing.
FinishDecode(d) ==
    /\ d.file \in Audio
    /\ player' = Started(d) /\ heard' = 0
    /\ decoding' = decoding \ {d}
    /\ UNCHANGED <<explorer, queue, wanted, overtaken>>

FailDecode(d) ==
    /\ d.file \notin Audio
    /\ decoding' = decoding \ {d}
    /\ UNCHANGED <<explorer, queue, player, history>>

-----------------------------------------------------------------------------
(* The audio callback: process.                                             *)

ActiveLen == Length[player.file]
Ch == Channels[player.file]
FramesLeft == (ActiveLen - player.cursor) \div Ch

\* The loop runs into the end of the samples: the cursor was moved once more.
RunsOut ==
    /\ FramesLeft < BlockFrames
    /\ player' = [player EXCEPT !.playing = FALSE, !.cursor = @ + (FramesLeft + 1) * Ch]
    /\ heard' = heard + FramesLeft

\* Mutant: the check behind the loop looks one frame ahead.
FillsBlock_EndsEarly ==
    /\ FramesLeft >= BlockFrames
    /\ LET at == player.cursor + BlockFrames * Ch
       IN player' = [player EXCEPT !.cursor = at, !.playing = at + Ch < ActiveLen]
    /\ heard' = heard + BlockFrames

\* The block is filled; the check behind the loop ends what is exactly used up.
FillsBlock ==
    /\ FramesLeft >= BlockFrames
    /\ LET at == player.cursor + BlockFrames * Ch
       IN player' = [player EXCEPT !.cursor = at, !.playing = at < ActiveLen]
    /\ heard' = heard + BlockFrames

AudioBlock ==
    /\ player.playing
    /\ RunsOut \/ FillsBlock
    /\ UNCHANGED <<explorer, queue, decoding, wanted, overtaken>>

-----------------------------------------------------------------------------
Decode == \E d \in decoding : FinishDecode(d) \/ FailDecode(d)

PreviewNext ==
    \/ \E f \in Files : SelectSample(f) \/ SelectMidi(f)
    \/ TogglePlay \/ ClickWaveform \/ Play \/ PauseOrStop \/ SyncFrame
    \/ HandleCommand
    \/ Decode
    \/ AudioBlock

PreviewSpec == PreviewInit /\ [][PreviewNext]_previewVars

-----------------------------------------------------------------------------
(* Properties.                                                              *)

\* The state is well formed: the player plays only samples that were decoded
\* (preview_player.rs 61-72), and at most the asked-for previews exist.
PreviewTypeOK ==
    /\ selected \in Files \union {NoFile} /\ button \in BOOLEAN
    /\ transport \in {"stopped", "playing", "paused"} /\ requests \in 0..MaxRequests
    /\ queue \in Seq(Command) /\ Len(queue) <= MaxQueue
    /\ decoding \subseteq Preview
    /\ player \in Player /\ (player.playing => player.file \in Audio)
    /\ wanted \in 0..MaxRequests /\ overtaken \subseteq Requests /\ heard \in Nat

\* What sounds is the preview the last command asked for, and after a stop
\* there is silence, unless its decode was in flight when that command came:
\* the only preview that can sound against the user's wish is one that was
\* overtaken while it decoded (main.rs 148-185).
OnlyOvertakenIntrude ==
    player.playing => player.req = wanted \/ player.req \in overtaken

\* A preview that ends by itself has been mixed from its first frame to its
\* last, whatever the length is to the block size, also when another preview
\* was playing when it started: process, preview_player.rs 90-140.
WholePreviewHeard ==
    [][player.playing /\ ~player'.playing /\ queue' = queue
         => heard' = ActiveLen \div Ch]_previewVars

=============================================================================
