----------------------------- MODULE ParamSync -----------------------------
(***************************************************************************)
(* One parameter of one external CLAP plugin that sits in one slot of the  *)
(* rack.  Three instances hold a value for it: the knob of the rack, the   *)
(* copy of the plugin that sounds in the engine, and the copy that lives   *)
(* in the native editor window.  The user may turn the knob on either      *)
(* side; four queues carry the values between the interface's frame, the   *)
(* command thread, the audio callback and the window's own thread.         *)
(***************************************************************************)
EXTENDS Integers, Sequences, SequencesExt

CONSTANTS Top,            \* a parameter takes the values 0..Top
          Step,           \* the rack rounds to multiples of Step
          Default,        \* the value a fresh instance of the plugin has
          None,           \* no value
          Capacity,       \* places in the ring of an instance
          PollTicks,      \* ticks of the window between two polls
          FeedbackTicks,  \* ticks of the window between two echoes
          MaxGestures     \* bound on the times the user turns the parameter

Values == 0..Top

ASSUME ParameterRange == /\ Top \in Nat \ {0} /\ Step \in Nat \ {0}
                         /\ Top % Step = 0
                         /\ Default \in Values /\ None \notin Values
ASSUME DefaultOnAStep == Default % Step = 0
ASSUME Rhythm == /\ Capacity \in Nat \ {0} /\ MaxGestures \in Nat
                 /\ PollTicks \in Nat \ {0} /\ FeedbackTicks \in Nat \ {0}

VARIABLES rack,       \* the value the knob of the rack shows
          pending,    \* the slot's change the next frame will send, or None
          dragging,   \* the user holds the knob of the rack
          commands,   \* changes on their way to the command thread
          ring,       \* changes the engine's instance has not yet processed
          engine,     \* the value the engine's instance plays with
          sounding,   \* the engine's instance has processed a block
          playing,    \* the transport runs
          open,       \* the native editor window is open
          editor,     \* the value the window's instance has
          seen,       \* the value its last poll read, or None
          hostSent,   \* the last value the rack sent to it, or None
          tick,       \* the ticks of the window's loop
          toWindow,   \* changes on their way to the window
          feedback,   \* changes on their way back to the rack
          gestures,   \* how often the user has turned the parameter
          hand,       \* the side the user turned last
          crossed,    \* history: he turned one side with the other's in flight
          dropped     \* history: a full ring refused a change

rackVars   == <<rack, pending, dragging>>
engineVars == <<commands, ring, engine, sounding, playing, dropped>>
windowVars == <<open, editor, seen, hostSent, tick>>
userVars   == <<gestures, hand, crossed>>
vars == <<rackVars, engineVars, windowVars, toWindow, feedback, userVars>>

Cycle == PollTicks * FeedbackTicks

TypeOK ==
  /\ rack \in Values /\ engine \in Values /\ editor \in Values
  /\ {pending, seen, hostSent} \subseteq Values \cup {None}
  /\ {commands, ring, toWindow, feedback} \subseteq Seq(Values)
  /\ Len(ring) <= Capacity
  /\ {dragging, sounding, playing, open, crossed, dropped} \subseteq BOOLEAN
  /\ tick \in 0..(Cycle - 1) /\ gestures \in 0..MaxGestures
  /\ hand \in {"rack", "editor"}

(* The nearest step, as PluginParamInfo::snap rounds to it.                *)
Snap(v) == LET over == v % Step
           IN  IF 2 * over >= Step /\ over # 0 THEN v - over + Step ELSE v - over

Init ==
  /\ rack = Default /\ pending = None /\ dragging = FALSE
  /\ commands = <<>> /\ ring = <<>> /\ engine = Default
  /\ sounding = FALSE /\ playing = FALSE
  /\ open = FALSE /\ editor = Default /\ seen = None /\ hostSent = None
  /\ tick = 0 /\ toWindow = <<>> /\ feedback = <<>>
  /\ gestures = 0 /\ hand = "rack" /\ crossed = FALSE /\ dropped = FALSE

(* What has not yet reached the other side: a value of the rack the window *)
(* has not taken or its poll not yet read, a value of the editor or an     *)
(* echo the rack has not applied.                                          *)
Arriving == toWindow # <<>> \/ (open /\ editor = hostSent /\ seen # editor)
Leaving  == feedback # <<>> \/ (open /\ editor # hostSent /\ seen # editor)
Settled  == ~Arriving /\ ~Leaving

----------------------------------------------------------------------------
(* The hand of the user.                                                   *)

Turned(side, crossing) ==
  /\ gestures < MaxGestures
  /\ gestures' = gestures + 1
  /\ hand' = side
  /\ crossed' = (crossed \/ crossing)

(* A change already queued for the engine is not replaced by the new one.  *)
CommitExternalParam_KeepsQueued(v) ==
  /\ Snap(v) # rack
  /\ rack' = Snap(v)
  /\ pending' = IF pending = None THEN Snap(v) ELSE pending
  /\ toWindow' = IF open THEN Append(toWindow, Snap(v)) ELSE toWindow
  /\ Turned("rack", ~dragging /\ open /\ ~Settled)
  /\ UNCHANGED <<dragging, engineVars, windowVars, feedback>>

(* A knob turn that changes the rounded value: cache, pending and window.  *)
CommitExternalParam(v) ==
  /\ Snap(v) # rack
  /\ rack' = Snap(v)
  /\ pending' = Snap(v)
  /\ toWindow' = IF open THEN Append(toWindow, Snap(v)) ELSE toWindow
  /\ Turned("rack", ~dragging /\ open /\ ~Settled)
  /\ UNCHANGED <<dragging, engineVars, windowVars, feedback>>

(* The mouse button goes down on a knob of the rack, and up again.         *)
Hold(held) ==
  /\ dragging = ~held
  /\ dragging' = held
  /\ crossed' = (crossed \/ ~Settled)
  /\ UNCHANGED <<rack, pending, gestures, hand, engineVars, windowVars,
                 toWindow, feedback>>

(* The user turns the knob inside the plugin's own window.                 *)
EditorTurn(v) ==
  /\ open /\ v # editor
  /\ editor' = v
  /\ Turned("editor", dragging \/ Arriving \/ seen = None)
  /\ UNCHANGED <<rackVars, engineVars, open, seen, hostSent, tick, toWindow,
                 feedback>>

(* A window opens with an instance of its own, which has its defaults.     *)
OpenEditor ==
  /\ ~open
  /\ open' = TRUE /\ editor' = Default /\ seen' = None /\ hostSent' = None
  /\ tick' = 0 /\ toWindow' = <<>>
  /\ crossed' = (crossed \/ {rack, engine} # {Default} \/ ~Settled
                         \/ pending # None \/ commands # <<>> \/ ring # <<>>)
  /\ UNCHANGED <<rackVars, engineVars, feedback, gestures, hand>>

CloseEditor ==
  /\ open
  /\ open' = FALSE /\ toWindow' = <<>>
  /\ UNCHANGED <<rackVars, engineVars, editor, seen, hostSent, tick, feedback,
                 userVars>>

ToggleTransport ==
  /\ playing' = ~playing
  /\ UNCHANGED <<rackVars, commands, ring, engine, sounding, dropped,
                 windowVars, toWindow, feedback, userVars>>

----------------------------------------------------------------------------
(* The window's change is queued for the engine only if the knob moved.    *)
ApplyFeedback_IfKnobMoves(change) ==
  IF change = <<>> \/ dragging \/ Snap(Last(change)) = rack
    THEN [rack |-> rack, pending |-> pending]
    ELSE [rack |-> Snap(Last(change)), pending |-> Last(change)]

(* One frame of the interface: what the window reported is applied to the  *)
(* knob and queued for the engine, unless the user holds the knob; then    *)
(* the slot's pending change leaves.                                       *)
ApplyFeedback(change) ==
  IF change = <<>> \/ dragging
    THEN [rack |-> rack, pending |-> pending]
    ELSE [rack |-> Snap(Last(change)), pending |-> Last(change)]

(* The frame applies what the window reported with the same operation a    *)
(* knob uses, which tells the window.                                      *)
Frame_TellsWindow ==
  /\ feedback # <<>> \/ pending # None
  /\ LET applied == ApplyFeedback(feedback)
     IN  /\ rack' = applied.rack
         /\ commands' = IF applied.pending = None THEN commands
                        ELSE Append(commands, applied.pending)
  /\ toWindow' = IF open /\ feedback # <<>> THEN Append(toWindow, Last(feedback))
                 ELSE toWindow
  /\ pending' = None
  /\ feedback' = <<>>
  /\ UNCHANGED <<dragging, ring, engine, sounding, playing, dropped,
                 windowVars, userVars>>

Frame ==
  /\ feedback # <<>> \/ pending # None
  /\ LET applied == ApplyFeedback(feedback)
     IN  /\ rack' = applied.rack
         /\ commands' = IF applied.pending = None THEN commands
                        ELSE Append(commands, applied.pending)
  /\ pending' = None
  /\ feedback' = <<>>
  /\ UNCHANGED <<dragging, ring, engine, sounding, playing, dropped,
                 windowVars, toWindow, userVars>>

(* The ring takes one change more than it has places.                      *)
SetParamNormalized_OneMore ==
  /\ commands # <<>>
  /\ commands' = Tail(commands)
  /\ IF ~sounding
       THEN engine' = Head(commands) /\ UNCHANGED <<ring, dropped>>
       ELSE /\ UNCHANGED engine
            /\ IF Len(ring) <= Capacity
                 THEN ring' = Append(ring, Head(commands)) /\ UNCHANGED dropped
                 ELSE dropped' = TRUE /\ UNCHANGED ring
  /\ UNCHANGED <<rackVars, sounding, playing, windowVars, toWindow, feedback,
                 userVars>>

(* The command thread hands one change to the engine's instance: at once   *)
(* if it never sounded, else through its ring, which may be full.          *)
SetParamNormalized ==
  /\ commands # <<>>
  /\ commands' = Tail(commands)
  /\ IF ~sounding
       THEN engine' = Head(commands) /\ UNCHANGED <<ring, dropped>>
       ELSE /\ UNCHANGED engine
            /\ IF Len(ring) < Capacity
                 THEN ring' = Append(ring, Head(commands)) /\ UNCHANGED dropped
                 ELSE dropped' = TRUE /\ UNCHANGED ring
  /\ UNCHANGED <<rackVars, sounding, playing, windowVars, toWindow, feedback,
                 userVars>>

(* The audio callback processes a block, which only a running transport    *)
(* makes it do, and the instance empties its ring.                         *)
Block ==
  /\ playing
  /\ engine' = IF ring = <<>> THEN engine ELSE Last(ring)
  /\ ring' = <<>> /\ sounding' = TRUE
  /\ UNCHANGED <<rackVars, commands, playing, dropped, windowVars, toWindow,
                 feedback, userVars>>

----------------------------------------------------------------------------
(* One turn of the window's loop.  The echo buffer lives for one turn.     *)

Polls(t)  == t % PollTicks = 0
Echoes(t) == t % FeedbackTicks = 0

PollParamChanges(value, sent) ==
  IF seen # None /\ seen # value /\ sent # value THEN <<value>> ELSE <<>>

Tick ==
  /\ open
  /\ tick' = (tick + 1) % Cycle
  /\ LET value == IF toWindow = <<>> THEN editor ELSE Last(toWindow)
         sent  == IF toWindow = <<>> THEN hostSent ELSE Last(toWindow)
         moved == IF Polls(tick') THEN PollParamChanges(value, sent) ELSE <<>>
         echo  == IF Echoes(tick') /\ toWindow # <<>> THEN <<value>> ELSE <<>>
     IN  /\ editor' = value /\ hostSent' = sent
         /\ seen' = IF Polls(tick') THEN value ELSE seen
         /\ feedback' = feedback \o moved \o echo
  /\ toWindow' = <<>>
  /\ UNCHANGED <<open, rackVars, engineVars, userVars>>

----------------------------------------------------------------------------

User == \/ \E v \in Values : CommitExternalParam(v) \/ EditorTurn(v)
        \/ \E held \in BOOLEAN : Hold(held)
        \/ OpenEditor \/ CloseEditor \/ ToggleTransport

Next == User \/ Frame \/ SetParamNormalized \/ Block \/ Tick

(* GPUI draws frames, the command thread receives, the window's loop turns *)
(* for as long as the window is open; the user owes nothing.               *)
Fairness == WF_vars(Frame) /\ WF_vars(SetParamNormalized) /\ WF_vars(Tick)

Spec == Init /\ [][Next]_vars /\ Fairness

----------------------------------------------------------------------------

(* The value the engine's instance will have once every queue between the  *)
(* rack and it has run dry.                                                *)
WillPlay == IF pending # None THEN pending
            ELSE IF commands # <<>> THEN Last(commands)
            ELSE IF ring # <<>> THEN Last(ring)
            ELSE engine

(* Whatever the frame, the command thread and the audio callback have done *)
(* so far, the instance that sounds is going to play what the knob shows,  *)
(* unless a full ring refused a change (mixer.rs enqueue_external_param:   *)
(* the new value replaces the old one).                                    *)
EngineHearsRack == ~dropped => Snap(WillPlay) = rack

(* The editor stands, by the user's hand, on the value the rack last sent: *)
(* the poll takes it for an echo.                                          *)
Masked == hand = "editor" /\ editor = hostSent

(* If the user never turned one side while a value of the other was still  *)
(* travelling, then once nothing travels the knob, the editor and the      *)
(* engine hold one value (event_loop.rs: the exchange is bidirectional).   *)
(* Masked is the one exception.                                            *)
CopiesAgree == (open /\ Settled /\ ~crossed /\ ~dropped /\ ~Masked)
                 => rack = Snap(editor) /\ WillPlay = editor

(* Once the user rests no value goes round: the echo of a change is not    *)
(* sent to the window again (app.rs: no cycle rack, editor, rack).         *)
ExchangeRests == <>[](pending = None /\ commands = <<>> /\ toWindow = <<>>
                        /\ feedback = <<>>)

=============================================================================
