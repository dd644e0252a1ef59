---------------------------- MODULE PluginChain ----------------------------
(***************************************************************************)
(* Where the external plugins are.  The rack of the interface keeps, for   *)
(* every mixer track, a sequence of slots; the engine keeps, for every     *)
(* track but the master, a chain of plugin nodes; a process-wide registry  *)
(* names the tap of the node at every place, so that a native editor can   *)
(* find the audio it displays.  The rack changes at once, the chain when   *)
(* the command thread gets to it, and both are addressed by position.      *)
(***************************************************************************)
EXTENDS Integers, Sequences, SequencesExt

CONSTANTS Tracks,       \* tracks of the mixer; Master is one of them
          Master,       \* the track that has no chain in the engine
          MaxSlots,     \* bound on the slots of one rack
          MaxLoads,     \* bound on the plugins ever assigned
          MaxGestures   \* bound on the gestures of the user

ASSUME MasterIsATrack == Master \in Tracks
ASSUME Bounds == /\ MaxSlots \in Nat \ {0} /\ MaxLoads \in Nat
                 /\ MaxGestures \in Nat

Strips  == Tracks \ {Master}      \* the tracks the engine has
Plugins == 1..MaxLoads            \* an assigned plugin, its node and its tap
Native  == 0                      \* a slot with no external plugin; no tap
Slots   == Plugins \cup {Native}
Places  == 0..(MaxSlots + MaxLoads)

VARIABLES rack,       \* track -> the slots the interface shows, in order
          commands,   \* commands on their way to the command thread
          chain,      \* strip -> the nodes the engine runs, in order
          registry,   \* strip -> place -> the tap registered there, or Native
          editor,     \* the native editor followed: see NoEditor
          loads,      \* plugins assigned so far
          gestures,   \* gestures so far
          parted      \* history: a gesture or a failed load parted rack and chain

vars == <<rack, commands, chain, registry, editor, loads, gestures, parted>>

(* The plugin a window was opened for, the key its thread was given, the    *)
(* tap found under it, and whether it is the one: see EditorHearsItsPlugin. *)
NoEditor == [of |-> Native, on |-> Master, slot |-> 0, opening |-> FALSE,
             tap |-> Native, settled |-> FALSE]

LoadCommand == [op : {"load"}, track : Strips, slot : Nat, plugin : Plugins]
MoveCommand == [op : {"move"}, from : Strips, slot : Nat, to : Strips, place : Nat]
SyncCommand == [op : {"sync"}, track : Strips, slot : Nat, plugin : Plugins]

TypeOK ==
  /\ rack \in [Tracks -> Seq(Slots)]
  /\ commands \in Seq(LoadCommand \cup MoveCommand \cup SyncCommand)
  /\ chain \in [Strips -> Seq(Plugins)]
  /\ registry \in [Strips -> [Places -> Slots]]
  /\ editor \in [of : Slots, on : Tracks, slot : Places, opening : BOOLEAN,
                 tap : Slots, settled : BOOLEAN]
  /\ loads \in 0..MaxLoads /\ gestures \in 0..MaxGestures /\ parted \in BOOLEAN

Init ==
  /\ rack = [t \in Tracks |-> <<>>]
  /\ commands = <<>>
  /\ chain = [s \in Strips |-> <<>>]
  /\ registry = [s \in Strips |-> [p \in Places |-> Native]]
  /\ editor = NoEditor
  /\ loads = 0 /\ gestures = 0 /\ parted = FALSE

(* Positions are counted from 0, as in the code.                           *)
At(seq, place) == seq[place + 1]
Without(seq, place) == RemoveAt(seq, place + 1)
Lower(m, n) == IF m <= n THEN m ELSE n
With(seq, place, x) == InsertAt(seq, Lower(place, Len(seq)) + 1, x)

(* A slot's position is also its plugin's place in the chain only if the   *)
(* external plugins stand before every other slot.                         *)
Aligned(slots) == \A i, j \in DOMAIN slots :
                    i < j /\ slots[j] # Native => slots[i] # Native

Gesture(parting) ==
  /\ gestures < MaxGestures
  /\ gestures' = gestures + 1
  /\ parted' = (parted \/ parting \/ \E s \in Strips : ~Aligned(rack'[s]))

engineVars == <<chain, registry>>

(* History: the editor's plugin is where it was when its editor was opened. *)
InItsSlot == /\ editor.slot < Len(rack[editor.on])
             /\ At(rack[editor.on], editor.slot) = editor.of

----------------------------------------------------------------------------
(* The interface.                                                          *)

AddSlot(t) ==
  /\ Len(rack[t]) < MaxSlots
  /\ rack' = [rack EXCEPT ![t] = Append(@, Native)]
  /\ Gesture(FALSE)
  /\ UNCHANGED <<commands, engineVars, editor, loads>>

(* Mutant: the master's plugins are sent to the engine too.                *)
AssignExternalPlugin_TellsOfMaster(t, slot) ==
  /\ loads < MaxLoads
  /\ loads' = loads + 1
  /\ rack' = [rack EXCEPT ![t][slot + 1] = loads']
  /\ commands' = Append(commands, [op |-> "load", track |-> t,
                                   slot |-> slot, plugin |-> loads'])
  /\ Gesture(FALSE)
  /\ UNCHANGED <<engineVars, editor>>

(* The slot takes the plugin's name and descriptor; the engine is told the *)
(* slot's position.  The master has no chain and tells nobody.             *)
AssignExternalPlugin(t, slot) ==
  /\ loads < MaxLoads
  /\ loads' = loads + 1
  /\ rack' = [rack EXCEPT ![t][slot + 1] = loads']
  /\ commands' = IF t = Master THEN commands
                 ELSE Append(commands, [op |-> "load", track |-> t,
                                        slot |-> slot, plugin |-> loads'])
  /\ Gesture(FALSE)
  /\ UNCHANGED <<engineVars, editor>>

(* Deleting a slot tells the engine nothing: its node goes on sounding.    *)
RemoveSlot(t, slot) ==
  /\ rack' = [rack EXCEPT ![t] = Without(@, slot)]
  /\ Gesture(t # Master /\ At(rack[t], slot) # Native)
  /\ UNCHANGED <<commands, engineVars, editor, loads>>

(* A slot is dragged to another place.  The engine follows if the slot     *)
(* holds an external plugin and neither end is the master.                 *)
MovedRack(from, slot, to, place) ==
  LET taken == [rack EXCEPT ![from] = Without(@, slot)]
  IN  [taken EXCEPT ![to] = With(@, place, At(rack[from], slot))]

(* Mutant: the engine hears only of moves to another track.                *)
MoveDevice_OtherTrackOnly(from, slot, to, place) ==
  /\ from = to => slot # place
  /\ from # to => Len(rack[to]) < MaxSlots
  /\ rack' = MovedRack(from, slot, to, place)
  /\ LET external == At(rack[from], slot) # Native
         inserted == Lower(place, Len(rack'[to]) - 1)
     IN  /\ commands' = IF external /\ from # to /\ Master \notin {from, to}
                          THEN Append(commands,
                                 [op |-> "move", from |-> from, slot |-> slot,
                                  to |-> to, place |-> inserted])
                          ELSE commands
         /\ Gesture(external /\ from # to /\ Master \in {from, to})
  /\ UNCHANGED <<engineVars, editor, loads>>

MoveDevice(from, slot, to, place) ==
  /\ from = to => slot # place
  /\ from # to => Len(rack[to]) < MaxSlots
  /\ rack' = MovedRack(from, slot, to, place)
  /\ LET external == At(rack[from], slot) # Native
         left     == Len(rack'[to]) - 1
         inserted == Lower(place, left)
     IN  /\ commands' = IF external /\ Master \notin {from, to}
                          THEN Append(commands,
                                 [op |-> "move", from |-> from, slot |-> slot,
                                  to |-> to, place |-> inserted])
                          ELSE commands
         /\ Gesture(external /\ from # to /\ Master \in {from, to})
  /\ UNCHANGED <<engineVars, editor, loads>>

(* A knob of the slot was turned: the frame sends its pending parameters   *)
(* with the slot's position.                                               *)
FlushPendingExternalParams(t, slot) ==
  /\ At(rack[t], slot) # Native /\ t # Master
  /\ commands' = Append(commands, [op |-> "sync", track |-> t, slot |-> slot,
                                   plugin |-> At(rack[t], slot)])
  /\ UNCHANGED <<rack, engineVars, editor, loads>>
  /\ Gesture(FALSE)

(* The click takes the slot's position and leaves the rest to a thread of  *)
(* the window; while that plugin has one, another click does nothing.      *)
OpenExternalEditor(t, slot) ==
  /\ At(rack[t], slot) # Native
  /\ editor = NoEditor
  /\ editor' = [NoEditor EXCEPT !.of = At(rack[t], slot), !.on = t, !.slot = slot,
                                !.opening = TRUE]
  /\ UNCHANGED <<rack, commands, engineVars, loads>>
  /\ Gesture(FALSE)

----------------------------------------------------------------------------
(* The window's thread.  Windows share only the registry, which they only  *)
(* read, so the model follows one at a time.                               *)

(* Mutant: the editor looks under the mixer's index of the track, which is *)
(* one more than the engine's.                                             *)
Lookup_MixerIndex(t, slot) ==
  IF t + 1 \in Strips THEN registry[t + 1][slot] ELSE Native

(* What stands under the key by now; the master's key is never there.      *)
Lookup(t, slot) == IF t = Master THEN Native ELSE registry[t][slot]

(* Once, when the window has been created and the plugin's library loaded. *)
FindTap ==
  /\ editor.opening
  /\ editor' = [editor EXCEPT !.opening = FALSE,
                              !.tap = Lookup(editor.on, editor.slot),
                              !.settled = commands = <<>> /\ ~parted /\ InItsSlot]
  /\ UNCHANGED <<rack, commands, engineVars, loads, gestures, parted>>

(* It is closed, or could not be opened.                                   *)
EndEditor ==
  /\ editor # NoEditor
  /\ editor' = NoEditor
  /\ UNCHANGED <<rack, commands, engineVars, loads, gestures, parted>>

----------------------------------------------------------------------------
(* The command thread, one command with the engine's lock held.            *)

Unregistered(taps, place) == [taps EXCEPT ![place] = Native]

(* The taps of the nodes of a chain, registered at their places.           *)
Registered(taps, nodes) ==
  [p \in Places |-> IF p < Len(nodes) THEN At(nodes, p) ELSE taps[p]]

(* Mutant: a plugin already in the slot stays in the chain.                *)
LoadExternalPlugin_KeepsOld(c, loaded) ==
  LET taps == Unregistered(registry[c.track], c.slot)
  IN  IF loaded
        THEN /\ chain' = [chain EXCEPT ![c.track] = With(@, c.slot, c.plugin)]
             /\ registry' = [registry EXCEPT ![c.track] =
                               [taps EXCEPT ![c.slot] = c.plugin]]
             /\ UNCHANGED parted
        ELSE /\ registry' = [registry EXCEPT ![c.track] = taps]
             /\ parted' = TRUE
             /\ UNCHANGED chain

LoadExternalPlugin(c, loaded) ==
  LET taps  == Unregistered(registry[c.track], c.slot)
      freed == IF c.slot < Len(chain[c.track])
                 THEN Without(chain[c.track], c.slot) ELSE chain[c.track]
  IN  IF loaded
        THEN /\ chain' = [chain EXCEPT ![c.track] = With(freed, c.slot, c.plugin)]
             /\ registry' = [registry EXCEPT ![c.track] =
                               [taps EXCEPT ![c.slot] = c.plugin]]
             /\ UNCHANGED parted
        ELSE /\ chain' = [chain EXCEPT ![c.track] = freed]
             /\ registry' = [registry EXCEPT ![c.track] = taps]
             /\ parted' = TRUE

(* Mutant: the place behind the shortened chain keeps its tap.             *)
MoveExternalPlugin_LeavesLastTap(c) ==
  IF c.slot >= Len(chain[c.from]) THEN UNCHANGED <<chain, registry>>
  ELSE
  LET node  == At(chain[c.from], c.slot)
      rest  == Without(chain[c.from], c.slot)
      taken == [chain EXCEPT ![c.from] = rest]
      freed == Unregistered(registry[c.from], c.slot)
      taps  == [registry EXCEPT ![c.from] = Registered(freed, rest)]
      dest  == With(taken[c.to], c.place, node)
  IN  /\ chain' = [taken EXCEPT ![c.to] = dest]
      /\ registry' = [taps EXCEPT ![c.to] = Registered(@, dest)]

MoveExternalPlugin(c) ==
  IF c.slot >= Len(chain[c.from]) THEN UNCHANGED <<chain, registry>>
  ELSE
  LET node  == At(chain[c.from], c.slot)
      rest  == Without(chain[c.from], c.slot)
      taken == [chain EXCEPT ![c.from] = rest]
      freed == Unregistered(Unregistered(registry[c.from], c.slot), Len(rest))
      taps  == [registry EXCEPT ![c.from] = Registered(freed, rest)]
      dest  == With(taken[c.to], c.place, node)
  IN  /\ chain' = [taken EXCEPT ![c.to] = dest]
      /\ registry' = [taps EXCEPT ![c.to] = Registered(@, dest)]

(* A parameter goes to whatever node stands at the place.                  *)
SyncExternalPluginParams(c) == UNCHANGED <<chain, registry>>

Execute ==
  /\ commands # <<>>
  /\ commands' = Tail(commands)
  /\ LET c == Head(commands)
     IN  \/ /\ c.op = "load"
            /\ \E loaded \in BOOLEAN : LoadExternalPlugin(c, loaded)
         \/ c.op = "move" /\ MoveExternalPlugin(c) /\ UNCHANGED parted
         \/ c.op = "sync" /\ SyncExternalPluginParams(c) /\ UNCHANGED parted
  /\ UNCHANGED <<rack, editor, loads, gestures>>

----------------------------------------------------------------------------

User ==
  \E t \in Tracks :
    \/ AddSlot(t)
    \/ \E slot \in 0..(Len(rack[t]) - 1) :
         \/ AssignExternalPlugin(t, slot) \/ RemoveSlot(t, slot)
         \/ FlushPendingExternalParams(t, slot) \/ OpenExternalEditor(t, slot)
         \/ \E to \in Tracks : \E place \in 0..Len(rack[to]) :
              MoveDevice(t, slot, to, place)

Next == User \/ FindTap \/ EndEditor \/ Execute

Spec == Init /\ [][Next]_vars

----------------------------------------------------------------------------

(* The first slots hold the nodes, in their order, and the others nothing. *)
Follows(nodes, slots) ==
  /\ Len(nodes) <= Len(slots)
  /\ \A i \in DOMAIN slots :
       slots[i] = IF i <= Len(nodes) THEN nodes[i] ELSE Native

(* Once every command is executed, each chain runs exactly the external    *)
(* plugins of its rack, in the rack's order, unless a gesture the engine   *)
(* is not told of, or a plugin that does not load, parted the two          *)
(* (app.rs move_device: the node is relocated with the slot).              *)
ChainFollowsRack ==
  (commands = <<>> /\ ~parted) =>
    \A s \in Strips : Follows(chain[s], rack[s])

(* Every place of every chain, and no other, has its node's tap in the     *)
(* registry, with any number of loads and moves still on their way         *)
(* (lib.rs move_external_plugin: the taps of both tracks are registered    *)
(* again after the node has moved).                                        *)
RegistryNamesChain ==
  ~parted => \A s \in Strips, p \in Places :
               registry[s][p] = IF p < Len(chain[s]) THEN At(chain[s], p)
                                ELSE Native

(* A parameter of a slot reaches the slot's own plugin, whatever was moved *)
(* or loaded before it was sent or between its sending and its arrival.    *)
Arrives(c) == c.op = "sync" /\ commands' = Tail(commands) /\ ~parted
ParamsReachTheirPlugin ==
  [][commands # <<>> /\ Arrives(Head(commands)) =>
       LET c == Head(commands)
       IN  c.slot < Len(chain[c.track]) /\ At(chain[c.track], c.slot) = c.plugin]_vars

(* The key is taken at the click and used later, and only once.  If by      *)
(* then the plugin stands in the slot that was clicked, nothing is on its  *)
(* way to the engine and nothing has parted rack and chain, the editor     *)
(* displays that plugin from then on, and silence only if it is on the     *)
(* master: whatever was loaded or moved, there and back too, before the    *)
(* click and between the click and the lookup (dsp_rack.rs                 *)
(* open_external_editor, wrapper.rs open).  Otherwise it may show another  *)
(* plugin's audio, or none, for as long as it is open.                     *)
EditorHearsItsPlugin ==
  editor.settled => editor.tap = IF editor.on = Master THEN Native ELSE editor.of

=============================================================================
