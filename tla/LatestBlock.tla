---------------------------- MODULE LatestBlock ----------------------------
(***************************************************************************)
(* What the audio tap of a plugin slot promises to the editor window that  *)
(* listens to it: a lossy channel of blocks.  The display may skip blocks, *)
(* but it only ever shows whole blocks, each newer than the one before,    *)
(* and the producer never runs more than Capacity blocks ahead of it.      *)
(***************************************************************************)
EXTENDS Naturals, Sequences

CONSTANTS Capacity,    \* blocks the channel may hold
          MaxFrames    \* longest block, in frames

VARIABLES sent,     \* sent[b] is the length of the b-th accepted block
          last,     \* number of the newest block consumed, 0 for none
          shown     \* the block on display: one cell per frame

channelVars == <<sent, last, shown>>

\* The b-th block as the producer handed it in: every frame is of block b.
Whole(b) == [k \in 1..sent[b] |-> b]

ChannelInit == /\ sent = << >>
               /\ last = 0
               /\ shown = << >>

Accept == /\ Len(sent) - last < Capacity
          /\ \E frames \in 1..MaxFrames : sent' = Append(sent, frames)
          /\ UNCHANGED <<last, shown>>

Show == /\ \E b \in last + 1 .. Len(sent) : /\ shown' = Whole(b)
                                            /\ last' = b
        /\ UNCHANGED sent

ChannelNext == Accept \/ Show

ChannelSpec == ChannelInit /\ [][ChannelNext]_channelVars
=============================================================================
