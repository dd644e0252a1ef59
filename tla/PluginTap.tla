----------------------------- MODULE PluginTap -----------------------------
(***************************************************************************)
(* hikaru_plugin_host/src/tap.rs and the two ends that use it: the audio   *)
(* thread that calls publish after a plugin's process(), and the thread of *)
(* the plugin's editor window, which attaches, calls take once per tick    *)
(* and detaches (hikaru-wrapper/event_loop.rs and wrapper.rs).             *)
(*                                                                         *)
(* Every access to shared memory is a step of its own, the copies one      *)
(* frame at a time, so that a torn read would show up as a block made of   *)
(* frames of two blocks.  A frame holds the number of the block it belongs *)
(* to; 0 is the silence the ring is created with.  Steps are sequentially  *)
(* consistent: the code publishes write and read with Release and loads    *)
(* them with Acquire, and nothing else is shared.                          *)
(***************************************************************************)
EXTENDS Integers, Sequences

CONSTANTS
    Capacity,     \* blocks in the ring (DEFAULT_CAPACITY is 8)
    MaxFrames,    \* frames in a slot of the ring
    CounterMod,   \* 2^w for the w-bit usize of the consumer counter
    MaxBlocks,    \* bound: blocks that reach the ring, kept or dropped
    MaxSessions   \* bound: times the editor window is opened

ASSUME TapAssumption ==
    /\ Capacity \in Nat /\ Capacity >= 2          \* capacity.max(2)
    /\ MaxFrames \in Nat /\ MaxFrames >= 1        \* max_frames.max(1)
    /\ CounterMod \in Nat /\ CounterMod >= 2
    /\ MaxBlocks \in Nat
    /\ MaxSessions \in Nat

VARIABLES
    \* The fields of PluginTap.
    ring, lens, write, read, consumers, dropped,
    \* The audio thread inside publish: where it is, the length of its block
    \* and how many of the frames it has copied.
    ppc, frames, copied,
    \* The window thread: where it is, the block it is taking, the length it
    \* read for it, and the scratch buffer it copies into.
    cpc, newest, len, out,
    \* How often the window was opened.
    sessions,
    \* History: lengths of the blocks published, and the last block taken.
    sent, shown

tapVars == <<ring, lens, write, read, consumers, dropped>>
producerVars == <<ppc, frames, copied>>
consumerVars == <<cpc, newest, len, out, sessions>>
vars == <<tapVars, producerVars, consumerVars, sent, shown>>

Slots == 0 .. Capacity - 1
Slot(i) == i % Capacity

\* publish drops the new block when write - read >= capacity.
HasRoom_OneTooMany == write - read <= Capacity
HasRoom == write - read < Capacity

\* take returns false when write <= read.
SomethingNew_NotTheLast == write > read + 1
SomethingNew == write > read

\* fetch_add and fetch_sub wrap around.
Incremented(c) == (c + 1) % CounterMod
Decremented_NoWrap(c) == c - 1
Decremented(c) == (c - 1) % CounterMod

ProducerPoints == {"idle", "room", "copy", "len", "release"}
ConsumerPoints == {"closed", "open", "len", "copy", "release", "left"}

Init ==
    /\ ring = [s \in Slots |-> [k \in 1..MaxFrames |-> 0]]
    /\ lens = [s \in Slots |-> 0]
    /\ write = 0 /\ read = 0 /\ consumers = 0 /\ dropped = 0
    /\ ppc = "idle" /\ frames = 0 /\ copied = 0
    /\ cpc = "closed" /\ newest = 0 /\ len = 0 /\ out = << >>
    /\ sessions = 0
    /\ sent = << >> /\ shown = << >>

-----------------------------------------------------------------------------
(* The audio thread: publish.                                              *)

\* With nobody listening publish returns before it touches the ring, and so
\* it does for an empty block.
PublishStart ==
    /\ ppc = "idle"
    /\ consumers # 0
    /\ write + dropped < MaxBlocks
    /\ frames' \in 1..MaxFrames
    /\ ppc' = "room"
    /\ copied' = 0
    /\ UNCHANGED <<tapVars, consumerVars, sent, shown>>

\* The ring is full: the new block is dropped, never an old one.
PublishDrop ==
    /\ ppc = "room"
    /\ ~HasRoom
    /\ dropped' = dropped + 1
    /\ ppc' = "idle"
    /\ UNCHANGED <<ring, lens, write, read, consumers, frames, copied,
                   consumerVars, sent, shown>>

PublishRoom ==
    /\ ppc = "room"
    /\ HasRoom
    /\ ppc' = "copy"
    /\ UNCHANGED <<tapVars, frames, copied, consumerVars, sent, shown>>

PublishCopy ==
    /\ ppc = "copy"
    /\ copied < frames
    /\ ring' = [ring EXCEPT ![Slot(write)][copied + 1] = write + 1]
    /\ copied' = copied + 1
    /\ ppc' = IF copied' = frames THEN "len" ELSE "copy"
    /\ UNCHANGED <<lens, write, read, consumers, dropped, frames,
                   consumerVars, sent, shown>>

PublishLen ==
    /\ ppc = "len"
    /\ lens' = [lens EXCEPT ![Slot(write)] = frames]
    /\ ppc' = "release"
    /\ UNCHANGED <<ring, write, read, consumers, dropped, frames, copied,
                   consumerVars, sent, shown>>

PublishRelease ==
    /\ ppc = "release"
    /\ write' = write + 1
    /\ sent' = Append(sent, frames)
    /\ ppc' = "idle"
    /\ UNCHANGED <<ring, lens, read, consumers, dropped, frames, copied,
                   consumerVars, shown>>

-----------------------------------------------------------------------------
(* The window thread: attach, take on every tick, detach.                  *)

Attach ==
    /\ cpc = "closed"
    /\ sessions < MaxSessions
    /\ consumers' = Incremented(consumers)
    /\ cpc' = "open"
    /\ sessions' = sessions + 1
    /\ UNCHANGED <<ring, lens, write, read, dropped, producerVars,
                   newest, len, out, sent, shown>>

\* read is stored before the copy instead of after it.
TakeLoad_ReadFirst ==
    /\ cpc = "open"
    /\ SomethingNew
    /\ newest' = write - 1
    /\ read' = write
    /\ cpc' = "len"
    /\ UNCHANGED <<ring, lens, write, consumers, dropped, producerVars,
                   len, out, sessions, sent, shown>>

\* Nothing new: take returns false and the tick goes on without it (a step
\* that changes nothing).  Otherwise only the newest block is taken.
TakeLoad ==
    /\ cpc = "open"
    /\ SomethingNew
    /\ newest' = write - 1
    /\ cpc' = "len"
    /\ UNCHANGED <<tapVars, producerVars, len, out, sessions, sent, shown>>

\* An empty slot would be skipped without a copy.
TakeLen ==
    /\ cpc = "len"
    /\ len' = lens[Slot(newest)]
    /\ IF len' = 0
       THEN /\ read' = newest + 1
            /\ cpc' = "open"
            /\ UNCHANGED out
       ELSE /\ out' = << >>
            /\ cpc' = "copy"
            /\ UNCHANGED read
    /\ UNCHANGED <<ring, lens, write, consumers, dropped, producerVars,
                   newest, sessions, sent, shown>>

TakeCopy ==
    /\ cpc = "copy"
    /\ Len(out) < len
    /\ out' = Append(out, ring[Slot(newest)][Len(out) + 1])
    /\ cpc' = IF Len(out') = len THEN "release" ELSE "copy"
    /\ UNCHANGED <<tapVars, producerVars, newest, len, sessions, sent, shown>>

TakeRelease ==
    /\ cpc = "release"
    /\ read' = newest + 1
    /\ shown' = out
    /\ cpc' = "open"
    /\ UNCHANGED <<ring, lens, write, consumers, dropped, producerVars,
                   newest, len, out, sessions, sent>>

\* The event loop ends (closed by the user, by the DAW or by the X server)
\* and detaches its consumer ...
Detach ==
    /\ cpc = "open"
    /\ consumers' = Decremented(consumers)
    /\ cpc' = "left"
    /\ UNCHANGED <<ring, lens, write, read, dropped, producerVars,
                   newest, len, out, sessions, sent, shown>>

\* ... and HikaruWrapper::run, which called it, detaches once more.
DetachAgain ==
    /\ cpc = "left"
    /\ consumers' = Decremented(consumers)
    /\ cpc' = "closed"
    /\ UNCHANGED <<ring, lens, write, read, dropped, producerVars,
                   newest, len, out, sessions, sent, shown>>

-----------------------------------------------------------------------------
Publish == \/ PublishStart \/ PublishDrop \/ PublishRoom
           \/ PublishCopy \/ PublishLen \/ PublishRelease

Take == TakeLoad \/ TakeLen \/ TakeCopy \/ TakeRelease

Next == Publish \/ Take \/ Attach \/ Detach \/ DetachAgain

\* The window thread sleeps between ticks and takes again: it never stops
\* ticking while the window is open.  Nothing is assumed of the audio thread.
Fairness == WF_vars(Take)

Spec == Init /\ [][Next]_vars /\ Fairness

-----------------------------------------------------------------------------
(* Properties.                                                             *)

TypeOK ==
    /\ ring \in [Slots -> [1..MaxFrames -> Nat]]
    /\ lens \in [Slots -> 0..MaxFrames]
    /\ write \in Nat /\ read \in Nat /\ dropped \in Nat
    /\ consumers \in 0 .. CounterMod - 1
    /\ ppc \in ProducerPoints /\ frames \in 0..MaxFrames
    /\ copied \in 0..MaxFrames
    /\ cpc \in ConsumerPoints /\ newest \in Nat /\ len \in 0..MaxFrames
    /\ out \in Seq(Nat) /\ sessions \in Nat
    /\ sent \in Seq(1..MaxFrames) /\ shown \in Seq(Nat)

Writing == ppc \in {"copy", "len"}
Copying == cpc \in {"len", "copy", "release"}

\* While the window thread is inside take, the audio thread never writes to
\* the slot being copied: the real-time contract of publish (tap.rs header
\* and both SAFETY comments), which rests on the order of the loads of write
\* and read and on read being stored only after the copy.
NoSharedSlot == Writing /\ Copying => Slot(write) # Slot(newest)

\* The whole history of the ring implements the lossy channel: what the
\* window shows is one whole block, with that block's own length, newer than
\* the one before (publish and take together, with a window that may be
\* closed and opened again between two blocks).
Channel == INSTANCE LatestBlock WITH last <- read
ImplementsChannel == Channel!ChannelSpec

\* A block published while the window is open is shown, or a newer one is,
\* unless the window closes first: a full ring never leaves the display
\* stuck on an old block (publish drops the new block, take empties the ring).
DisplayCatchesUp ==
    \A n \in 1..MaxBlocks :
        (write >= n /\ cpc = "open") ~> (read >= n \/ cpc \in {"closed", "left"})

=============================================================================
