---------------------------- MODULE AudioProofs ----------------------------
(***************************************************************************)
(* What the audio callback shares with other threads.  PluginTap: the ring *)
(* of tap.rs is correct for every capacity, block length, number of blocks *)
(* and number of window sessions.  Preview: whatever the files, the block  *)
(* size and the order in which decodes end, what sounds and how far.       *)
(***************************************************************************)
EXTENDS PluginTap, Preview, TLAPS

-----------------------------------------------------------------------------
(* The ring of the tap.  The three theorems rest on one inductive          *)
(* invariant: what is between read and write is whole, what the producer   *)
(* is writing is outside of it, and what the consumer is copying inside.   *)

\* The blocks that wait to be taken are in the ring, whole.
RingInv ==
    /\ read <= write
    /\ write - read <= Capacity
    /\ Len(sent) = write
    /\ \A i \in Nat : read <= i /\ i < write =>
         /\ lens[Slot(i)] = sent[i + 1]
         /\ \A k \in 1 .. sent[i + 1] : ring[Slot(i)][k] = i + 1

\* The producer writes into a free slot, the frames in order.
ProducerInv ==
    /\ ppc \in {"copy", "len", "release"} =>
         /\ write - read < Capacity
         /\ \A k \in 1..copied : ring[Slot(write)][k] = write + 1
    /\ ppc # "idle" => frames \in 1..MaxFrames
    /\ ppc = "room" => copied = 0
    /\ ppc = "copy" => copied < frames
    /\ ppc \in {"len", "release"} => copied = frames
    /\ ppc = "release" => lens[Slot(write)] = frames

\* The consumer copies a published block that it has not released yet.
ConsumerInv ==
    /\ Copying => read <= newest /\ newest < write
    /\ cpc \in {"copy", "release"} =>
         /\ len = sent[newest + 1]
         /\ \A k \in 1..Len(out) : out[k] = newest + 1
    /\ cpc = "copy" => Len(out) < len
    /\ cpc = "release" => Len(out) = len

IInv == TypeOK /\ RingInv /\ ProducerInv /\ ConsumerInv

-----------------------------------------------------------------------------
(* Arithmetic of the slots.                                                *)

\* Indices less than a capacity apart are in different slots.
LEMMA DifferentSlots ==
    ASSUME NEW a \in Nat, NEW b \in Nat, a < b, b - a < Capacity
    PROVE  Slot(a) # Slot(b)
<1> USE TapAssumption
<1> SUFFICES ASSUME a % Capacity = b % Capacity PROVE FALSE
  BY DEF Slot
<1> DEFINE qa == a \div Capacity
           qb == b \div Capacity
<1>1. /\ a = (Capacity * qa) + (a % Capacity) /\ qa \in Int
      /\ b = (Capacity * qb) + (b % Capacity) /\ qb \in Int
  OBVIOUS
<1>2. Capacity * qa \in Int /\ Capacity * qb \in Int /\ a % Capacity \in Int
  BY <1>1
<1> HIDE DEF qa, qb
<1>3. b - a = (Capacity * qb) - (Capacity * qa)
  BY <1>1, <1>2
<1>4. (Capacity * qb) - (Capacity * qa) = Capacity * (qb - qa)
  BY <1>1
<1>5. CASE qb - qa >= 1
  <2>1. Capacity * (qb - qa) >= Capacity
    BY <1>1, <1>5
  <2> QED
    BY <1>3, <1>4, <2>1
<1>6. CASE qb - qa <= 0
  <2>1. Capacity * (qb - qa) <= 0
    BY <1>1, <1>6
  <2> QED
    BY <1>3, <1>4, <2>1
<1> QED
  BY <1>1, <1>5, <1>6

\* Taking a block shrinks the backlog.
LEMMA SmallerBacklog ==
    ASSUME NEW w \in Nat, NEW r \in Nat, NEW s \in Nat, NEW c \in Nat,
           w - r <= c, r <= s
    PROVE  w - s <= c
  OBVIOUS

LEMMA StrictlySmallerBacklog ==
    ASSUME NEW w \in Nat, NEW r \in Nat, NEW s \in Nat, NEW c \in Nat,
           w - r < c, r <= s
    PROVE  w - s < c
  OBVIOUS

\* Every index has its slot in the ring.
LEMMA SlotType == ASSUME NEW i \in Nat PROVE Slot(i) \in Slots
  BY TapAssumption DEF Slot, Slots

\* The consumer counter wraps inside its range.
LEMMA CounterType ==
    ASSUME NEW c \in 0 .. CounterMod - 1
    PROVE  /\ Incremented(c) \in 0 .. CounterMod - 1
           /\ Decremented(c) \in 0 .. CounterMod - 1
  BY TapAssumption DEF Incremented, Decremented

-----------------------------------------------------------------------------
(* Initial states and steps.                                               *)

LEMMA InitIInv == Init => IInv
<1> SUFFICES ASSUME Init PROVE IInv
  OBVIOUS
<1> USE TapAssumption DEF Init
<1>1. TypeOK
  BY DEF TypeOK, ProducerPoints, ConsumerPoints
<1>2. RingInv /\ ProducerInv /\ ConsumerInv
  BY DEF RingInv, ProducerInv, ConsumerInv, Copying
<1> QED
  BY <1>1, <1>2 DEF IInv

LEMMA TypeStep == IInv /\ [Next]_vars => TypeOK'
<1> SUFFICES ASSUME IInv, [Next]_vars PROVE TypeOK'
  OBVIOUS
<1> USE TapAssumption DEF IInv, TypeOK, ProducerPoints, ConsumerPoints,
                          vars, tapVars, producerVars, consumerVars
<1>1. CASE PublishStart BY <1>1 DEF PublishStart
<1>2. CASE PublishDrop BY <1>2 DEF PublishDrop
<1>3. CASE PublishRoom BY <1>3 DEF PublishRoom
<1>4. CASE PublishCopy
  <2>1. Slot(write) \in Slots
    BY SlotType
  <2>2. copied + 1 \in 1..MaxFrames
    BY <1>4 DEF PublishCopy
  <2>3. ring' \in [Slots -> [1..MaxFrames -> Nat]]
    BY <1>4, <2>1, <2>2 DEF PublishCopy
  <2> QED
    BY <1>4, <2>2, <2>3 DEF PublishCopy
<1>5. CASE PublishLen BY <1>5, SlotType DEF PublishLen
<1>6. CASE PublishRelease BY <1>6 DEF PublishRelease, ProducerInv
<1>7. CASE TakeLoad BY <1>7 DEF TakeLoad, SomethingNew
<1>8. CASE TakeLen
  <2>1. newest \in Nat /\ lens[Slot(newest)] \in 0..MaxFrames
    BY SlotType
  <2>2. len' \in 0..MaxFrames
    BY <1>8, <2>1 DEF TakeLen
  <2>3. read' \in Nat
    BY <1>8, <2>1 DEF TakeLen
  <2>4. out' \in Seq(Nat)
    <3>1. out' = out \/ out' = << >>
      BY <1>8 DEF TakeLen
    <3>2. out \in Seq(Nat) /\ << >> \in Seq(Nat)
      OBVIOUS
    <3> QED
      BY ONLY <3>1, <3>2
  <2>5. cpc' \in ConsumerPoints
    BY <1>8 DEF TakeLen
  <2> QED
    BY <1>8, <2>2, <2>3, <2>4, <2>5 DEF TakeLen
<1>9. CASE TakeCopy
  <2>1. Slot(newest) \in Slots /\ Len(out) + 1 \in 1..MaxFrames
    BY <1>9, SlotType DEF TakeCopy
  <2>2. ring[Slot(newest)][Len(out) + 1] \in Nat
    BY <2>1
  <2>3. out' \in Seq(Nat)
    BY <1>9, <2>2 DEF TakeCopy
  <2>4. cpc' \in ConsumerPoints
    BY <1>9 DEF TakeCopy
  <2> QED
    BY <1>9, <2>3, <2>4 DEF TakeCopy
<1>10. CASE TakeRelease BY <1>10 DEF TakeRelease
<1>11. CASE Attach
  <2>1. consumers' \in 0 .. CounterMod - 1
    BY <1>11, CounterType DEF Attach
  <2> QED
    BY <1>11, <2>1 DEF Attach
<1>12. CASE Detach
  <2>1. consumers' \in 0 .. CounterMod - 1
    BY <1>12, CounterType DEF Detach
  <2> QED
    BY <1>12, <2>1 DEF Detach
<1>13. CASE DetachAgain
  <2>1. consumers' \in 0 .. CounterMod - 1
    BY <1>13, CounterType DEF DetachAgain
  <2> QED
    BY <1>13, <2>1 DEF DetachAgain
<1>14. CASE UNCHANGED vars BY <1>14
<1> QED
  BY <1>1, <1>2, <1>3, <1>4, <1>5, <1>6, <1>7, <1>8, <1>9, <1>10, <1>11,
     <1>12, <1>13, <1>14 DEF Next, Publish, Take

LEMMA RingStep == IInv /\ [Next]_vars => RingInv'
<1> SUFFICES ASSUME IInv, [Next]_vars PROVE RingInv'
  OBVIOUS
<1> USE TapAssumption
<1>0. /\ TypeOK /\ RingInv /\ ProducerInv /\ ConsumerInv
      /\ write \in Nat /\ read \in Nat /\ newest \in Nat
      /\ read <= write /\ write - read <= Capacity /\ Capacity \in Nat
  BY DEF IInv, TypeOK, RingInv
\* A block of the backlog is not in the slot the producer writes to.
<1>1. ASSUME NEW i \in Nat, read <= i, i < write, write - read < Capacity
      PROVE  Slot(i) # Slot(write) /\ Slot(i) \in Slots /\ Slot(write) \in Slots
  BY <1>0, <1>1, DifferentSlots, SlotType
<1>2. CASE UNCHANGED <<ring, lens, write, read, sent>>
  BY <1>0, <1>2 DEF RingInv
<1>3. CASE PublishCopy
  <2>1. ASSUME NEW i \in Nat, read <= i, i < write
        PROVE  ring'[Slot(i)] = ring[Slot(i)]
    BY <1>0, <1>1, <1>3, <2>1 DEF PublishCopy, ProducerInv, TypeOK
  <2> QED
    BY <1>0, <1>3, <2>1 DEF PublishCopy, RingInv
<1>4. CASE PublishLen
  <2>1. ASSUME NEW i \in Nat, read <= i, i < write
        PROVE  lens'[Slot(i)] = lens[Slot(i)]
    BY <1>0, <1>1, <1>4, <2>1 DEF PublishLen, ProducerInv, TypeOK
  <2> QED
    BY <1>0, <1>4, <2>1 DEF PublishLen, RingInv
<1>5. CASE PublishRelease
  <2>1. /\ write' = write + 1 /\ read' = read /\ ring' = ring /\ lens' = lens
        /\ Len(sent') = write' /\ sent'[write + 1] = frames
        /\ \A i \in Nat : i < write => sent'[i + 1] = sent[i + 1]
    <3>1. /\ write' = write + 1 /\ read' = read /\ ring' = ring /\ lens' = lens
          /\ sent' = Append(sent, frames)
      BY <1>5 DEF PublishRelease
    <3>2. sent \in Seq(1..MaxFrames) /\ frames \in 1..MaxFrames /\ Len(sent) = write
      BY <1>0, <1>5 DEF PublishRelease, RingInv, TypeOK, ProducerInv
    <3>3. Len(sent') = write + 1 /\ sent'[write + 1] = frames
      BY <3>1, <3>2
    <3>4. ASSUME NEW i \in Nat, i < write
          PROVE  sent'[i + 1] = sent[i + 1]
      BY <1>0, <3>1, <3>2, <3>4
    <3>5. QED
      BY <3>1, <3>3, <3>4
  <2>2. /\ lens[Slot(write)] = frames
        /\ \A k \in 1..frames : ring[Slot(write)][k] = write + 1
        /\ write - read < Capacity
    BY <1>0, <1>5 DEF PublishRelease, ProducerInv
  <2>3. ASSUME NEW i \in Nat, read' <= i, i < write'
        PROVE  /\ lens'[Slot(i)] = sent'[i + 1]
               /\ \A k \in 1 .. sent'[i + 1] : ring'[Slot(i)][k] = i + 1
    <3>1. CASE i = write
      BY <2>1, <2>2, <3>1
    <3>2. CASE i < write
      BY <1>0, <2>1, <2>3, <3>2 DEF RingInv
    <3> QED
      BY <1>0, <2>1, <2>3, <3>1, <3>2
  <2> QED
    BY <1>0, <2>1, <2>2, <2>3 DEF RingInv
<1>6. CASE TakeLen
  <2>1. read' \in Nat /\ read <= read' /\ read' <= write
    BY <1>0, <1>6 DEF TakeLen, ConsumerInv, Copying, RingInv
  <2>2. ring' = ring /\ lens' = lens /\ write' = write /\ sent' = sent
    BY <1>6 DEF TakeLen
  <2>3. write' - read' <= Capacity
    BY ONLY <1>0, <2>1, <2>2, SmallerBacklog
  <2>4. ASSUME NEW i \in Nat, read' <= i, i < write'
        PROVE  /\ lens'[Slot(i)] = sent'[i + 1]
               /\ \A k \in 1 .. sent'[i + 1] : ring'[Slot(i)][k] = i + 1
    BY <1>0, <2>1, <2>2, <2>4 DEF RingInv
  <2> QED
    BY <1>0, <2>1, <2>2, <2>3, <2>4 DEF RingInv
<1>7. CASE TakeRelease
  <2>1. read' \in Nat /\ read <= read' /\ read' <= write
    BY <1>0, <1>7 DEF TakeRelease, ConsumerInv, Copying, RingInv
  <2>2. ring' = ring /\ lens' = lens /\ write' = write /\ sent' = sent
    BY <1>7 DEF TakeRelease
  <2>3. write' - read' <= Capacity
    BY ONLY <1>0, <2>1, <2>2, SmallerBacklog
  <2>4. ASSUME NEW i \in Nat, read' <= i, i < write'
        PROVE  /\ lens'[Slot(i)] = sent'[i + 1]
               /\ \A k \in 1 .. sent'[i + 1] : ring'[Slot(i)][k] = i + 1
    BY <1>0, <2>1, <2>2, <2>4 DEF RingInv
  <2> QED
    BY <1>0, <2>1, <2>2, <2>3, <2>4 DEF RingInv
<1> QED
  BY <1>2, <1>3, <1>4, <1>5, <1>6, <1>7
     DEF Next, Publish, Take, PublishStart, PublishDrop, PublishRoom, TakeLoad,
         TakeCopy, Attach, Detach, DetachAgain, vars, tapVars, producerVars,
         consumerVars

LEMMA ProducerStep == IInv /\ [Next]_vars => ProducerInv'
<1> SUFFICES ASSUME IInv, [Next]_vars PROVE ProducerInv'
  OBVIOUS
<1> USE TapAssumption
<1>0. /\ TypeOK /\ RingInv /\ ProducerInv /\ ConsumerInv
      /\ write \in Nat /\ read \in Nat /\ newest \in Nat /\ Capacity \in Nat
      /\ frames \in 0..MaxFrames /\ copied \in 0..MaxFrames
      /\ Slot(write) \in Slots
  BY SlotType DEF IInv, TypeOK
<1>1. CASE UNCHANGED <<ring, lens, write, read, producerVars>>
  BY <1>0, <1>1 DEF ProducerInv, producerVars
<1>2. CASE PublishStart
  BY <1>0, <1>2 DEF PublishStart, ProducerInv
<1>3. CASE PublishDrop
  BY <1>0, <1>3 DEF PublishDrop, ProducerInv
<1>4. CASE PublishRoom
  BY <1>0, <1>4 DEF PublishRoom, ProducerInv, HasRoom, tapVars
<1>5. CASE PublishCopy
  <2>1. /\ write' = write /\ read' = read /\ frames' = frames
        /\ copied' = copied + 1 /\ copied < frames
        /\ ppc' \in {"copy", "len"} /\ (ppc' = "len" <=> copied' = frames)
        /\ frames \in 1..MaxFrames /\ copied + 1 \in 1..MaxFrames
        /\ write - read < Capacity
    BY <1>0, <1>5 DEF PublishCopy, ProducerInv
  <2>2. ring' = [ring EXCEPT ![Slot(write)][copied + 1] = write + 1]
    BY <1>5 DEF PublishCopy
  <2>3. ring[Slot(write)] \in [1..MaxFrames -> Nat]
    BY <1>0 DEF TypeOK
  <2>4. ASSUME NEW k \in 1 .. copied + 1
        PROVE  ring'[Slot(write)][k] = write + 1
    <3>1. CASE k = copied + 1
      BY <1>0, <2>1, <2>2, <2>3, <3>1 DEF TypeOK
    <3>2. CASE k # copied + 1
      <4>1. k \in 1..copied /\ k \in 1..MaxFrames
        BY <1>0, <2>1, <3>2
      <4>2. ring'[Slot(write)][k] = ring[Slot(write)][k]
        BY <1>0, <2>2, <2>3, <3>2, <4>1 DEF TypeOK
      <4> QED
        BY <1>0, <1>5, <4>1, <4>2 DEF PublishCopy, ProducerInv
    <3> QED
      BY <3>1, <3>2
  <2> QED
    BY <1>0, <2>1, <2>4 DEF ProducerInv
<1>6. CASE PublishLen
  BY <1>0, <1>6 DEF PublishLen, ProducerInv, TypeOK
<1>7. CASE PublishRelease
  BY <1>0, <1>7 DEF PublishRelease, ProducerInv
<1>8. CASE TakeLen \/ TakeRelease
  <2>1. /\ ring' = ring /\ lens' = lens /\ write' = write /\ ppc' = ppc
        /\ frames' = frames /\ copied' = copied
    BY <1>8 DEF TakeLen, TakeRelease, producerVars
  <2>2. read' \in Nat /\ read <= read'
    BY <1>0, <1>8 DEF TakeLen, TakeRelease, ConsumerInv, Copying
  <2>3. write - read < Capacity => write' - read' < Capacity
    BY <1>0, <2>1, <2>2, StrictlySmallerBacklog
  <2> QED
    BY <1>0, <2>1, <2>3 DEF ProducerInv
<1> QED
  BY <1>1, <1>2, <1>3, <1>4, <1>5, <1>6, <1>7, <1>8
     DEF Next, Publish, Take, TakeLoad, TakeCopy, Attach, Detach, DetachAgain,
         vars, tapVars, consumerVars

LEMMA ConsumerStep == IInv /\ [Next]_vars => ConsumerInv'
<1> SUFFICES ASSUME IInv, [Next]_vars PROVE ConsumerInv'
  OBVIOUS
<1> USE TapAssumption
<1>0. /\ TypeOK /\ RingInv /\ ConsumerInv
      /\ write \in Nat /\ read \in Nat /\ newest \in Nat /\ Capacity \in Nat
      /\ read <= write /\ out \in Seq(Nat) /\ len \in 0..MaxFrames
  BY DEF IInv, TypeOK, RingInv
<1>1. CASE UNCHANGED <<write, read, sent, cpc, newest, len, out>>
  BY <1>0, <1>1 DEF ConsumerInv, Copying
<1>2. CASE PublishRelease
  <2>1. /\ write' = write + 1 /\ read' = read /\ cpc' = cpc /\ newest' = newest
        /\ len' = len /\ out' = out /\ Len(sent) = write
        /\ \A i \in Nat : i < write => sent'[i + 1] = sent[i + 1]
    BY <1>0, <1>2 DEF PublishRelease, consumerVars, RingInv, TypeOK
  <2> QED
    BY <1>0, <2>1 DEF ConsumerInv, Copying
<1>3. CASE TakeLoad
  BY <1>0, <1>3 DEF TakeLoad, SomethingNew, ConsumerInv, Copying, tapVars
<1>4. CASE TakeLen
  <2>1. /\ cpc = "len" /\ read <= newest /\ newest < write
        /\ lens[Slot(newest)] = sent[newest + 1]
    BY <1>0, <1>4 DEF TakeLen, ConsumerInv, RingInv, Copying
  <2>2. /\ write' = write /\ sent' = sent /\ newest' = newest
        /\ len' = sent[newest + 1]
    BY <1>4, <2>1 DEF TakeLen
  <2>3. len' \in 0..MaxFrames
    BY <1>0, <2>1, <1>4, SlotType DEF TakeLen, TypeOK
  <2>4. CASE len' = 0
    BY <1>4, <2>4 DEF TakeLen, ConsumerInv, Copying
  <2>5. CASE len' # 0
    <3>1. cpc' = "copy" /\ out' = << >> /\ read' = read
      BY <1>4, <2>5 DEF TakeLen
    <3> QED
      BY <2>1, <2>2, <2>3, <2>5, <3>1 DEF ConsumerInv, Copying
  <2> QED
    BY <2>4, <2>5
<1>5. CASE TakeCopy
  <2>1. /\ write' = write /\ read' = read /\ newest' = newest /\ len' = len
        /\ sent' = sent /\ len = sent[newest + 1] /\ Len(out) < len
        /\ read <= newest /\ newest < write
        /\ cpc' \in {"copy", "release"}
        /\ cpc' = "release" <=> Len(out') = len
    BY <1>0, <1>5 DEF TakeCopy, ConsumerInv, Copying, tapVars
  <2>2. ring[Slot(newest)][Len(out) + 1] = newest + 1
    <3>1. Len(out) + 1 \in 1 .. sent[newest + 1]
      BY <1>0, <2>1
    <3>2. \A k \in 1 .. sent[newest + 1] : ring[Slot(newest)][k] = newest + 1
      BY <1>0, <2>1 DEF RingInv
    <3> QED
      BY <3>1, <3>2
  <2>3. out' = Append(out, newest + 1)
    BY <1>5, <2>2 DEF TakeCopy
  <2>4. /\ Len(out') = Len(out) + 1
        /\ \A k \in 1..Len(out') : out'[k] = newest + 1
    BY <1>0, <1>5, <2>3 DEF ConsumerInv, TakeCopy
  <2>5. cpc' = "copy" => Len(out') < len'
    BY <1>0, <2>1, <2>4
  <2> QED
    BY <2>1, <2>4, <2>5 DEF ConsumerInv, Copying
<1>6. CASE TakeRelease
  BY <1>6 DEF TakeRelease, ConsumerInv, Copying
<1>7. CASE Attach \/ Detach \/ DetachAgain
  BY <1>7 DEF Attach, Detach, DetachAgain, ConsumerInv, Copying
<1> QED
  BY <1>1, <1>2, <1>3, <1>4, <1>5, <1>6, <1>7
     DEF Next, Publish, Take, PublishStart, PublishDrop, PublishRoom,
         PublishCopy, PublishLen, vars, tapVars, producerVars, consumerVars

LEMMA Inductive == Spec => []IInv
<1>1. IInv /\ [Next]_vars => IInv'
  BY TypeStep, RingStep, ProducerStep, ConsumerStep DEF IInv
<1> QED
  BY <1>1, InitIInv, PTL DEF Spec

-----------------------------------------------------------------------------
(* The theorems.                                                           *)

\* Every variable of the tap and of its two threads keeps its type; the
\* consumer counter stays a w-bit number.
THEOREM TypeCorrect == Spec => []TypeOK
<1>1. IInv => TypeOK
  BY DEF IInv
<1> QED
  BY <1>1, Inductive, PTL

\* publish never writes to the slot take is copying, for every capacity of
\* the ring: the real-time contract of the tap.
THEOREM NoTearing == Spec => []NoSharedSlot
<1>1. IInv => NoSharedSlot
  <2> SUFFICES ASSUME IInv, Writing, Copying PROVE Slot(write) # Slot(newest)
    BY DEF NoSharedSlot
  <2>1. /\ write \in Nat /\ read \in Nat /\ newest \in Nat
        /\ write - read < Capacity /\ read <= newest /\ newest < write
    BY DEF IInv, TypeOK, ProducerInv, ConsumerInv, Writing
  <2>2. write - newest < Capacity
    BY <2>1, TapAssumption, StrictlySmallerBacklog
  <2> QED
    BY <2>1, <2>2, DifferentSlots
<1> QED
  BY <1>1, Inductive, PTL

\* The ring implements the lossy channel: whole blocks only, newest first,
\* never more than Capacity of them waiting.
THEOREM Refinement == Spec => ImplementsChannel
<1>1. Init => Channel!ChannelInit
  BY DEF Init, Channel!ChannelInit
<1>2. IInv /\ [Next]_vars => [Channel!ChannelNext]_(Channel!channelVars)
  <2> SUFFICES ASSUME IInv, [Next]_vars
               PROVE  Channel!Accept \/ Channel!Show \/ UNCHANGED Channel!channelVars
    BY DEF Channel!ChannelNext
  <2> USE TapAssumption
  <2>0. /\ write \in Nat /\ read \in Nat /\ newest \in Nat /\ Len(sent) = write
        /\ sent \in Seq(1..MaxFrames)
    BY DEF IInv, TypeOK, RingInv
  <2>1. CASE UNCHANGED <<read, sent, shown>>
    BY <2>1 DEF Channel!channelVars
  <2>2. CASE PublishRelease
    <3>1. Len(sent) - read < Capacity /\ frames \in 1..MaxFrames
      BY <2>0, <2>2 DEF PublishRelease, IInv, ProducerInv
    <3> QED
      BY <2>2, <3>1 DEF PublishRelease, Channel!Accept
  <2>3. CASE TakeLen
    <3>1. /\ lens[Slot(newest)] = sent[newest + 1] /\ newest + 1 \in 1..Len(sent)
      BY <2>0, <2>3 DEF TakeLen, IInv, ConsumerInv, RingInv, Copying
    <3>2. sent[newest + 1] # 0
      BY <2>0, <3>1
    <3> QED
      BY <2>3, <3>1, <3>2 DEF TakeLen, Channel!channelVars
  <2>4. CASE TakeRelease
    <3>1. /\ read' = newest + 1 /\ shown' = out /\ sent' = sent
          /\ read <= newest /\ newest < write
          /\ len = sent[newest + 1] /\ Len(out) = len
          /\ \A k \in 1..Len(out) : out[k] = newest + 1
          /\ out \in Seq(Nat)
      BY <2>4 DEF TakeRelease, IInv, TypeOK, ConsumerInv, Copying
    <3>2. newest + 1 \in read + 1 .. Len(sent)
      BY <2>0, <3>1
    <3>3. out = Channel!Whole(newest + 1)
      BY <3>1 DEF Channel!Whole
    <3> QED
      BY <3>1, <3>2, <3>3 DEF Channel!Show
  <2> QED
    BY <2>1, <2>2, <2>3, <2>4
       DEF Next, Publish, Take, PublishStart, PublishDrop, PublishRoom,
           PublishCopy, PublishLen, TakeLoad, TakeCopy, Attach, Detach,
           DetachAgain, vars, tapVars, producerVars, consumerVars
<1> QED
  BY <1>1, <1>2, Inductive, PTL DEF Spec, ImplementsChannel, Channel!ChannelSpec

-----------------------------------------------------------------------------
(* The preview player.                                                     *)

\* What a command on its way to the command thread is.
LEMMA HeadIsCommand ==
    ASSUME PreviewTypeOK, queue # <<>>
    PROVE  /\ Head(queue) \in Command
           /\ Tail(queue) \in Seq(Command)
           /\ Len(Tail(queue)) <= MaxQueue
           /\ Tail(queue) # queue
<1>1. queue \in Seq(Command) /\ Len(queue) <= MaxQueue /\ MaxQueue \in Nat
  BY PreviewAssumption DEF PreviewTypeOK
<1>2. Len(queue) \in Nat /\ Len(queue) > 0
  BY <1>1
<1>3. Head(queue) \in Command /\ Tail(queue) \in Seq(Command)
  BY <1>1
<1>4. Len(Tail(queue)) = Len(queue) - 1
  BY <1>1, <1>2
<1>5. Tail(queue) # queue
  <2>1. SUFFICES ASSUME Tail(queue) = queue PROVE FALSE
    OBVIOUS
  <2>2. Len(queue) = Len(queue) - 1
    BY <1>4, <2>1
  <2>3. QED
    BY <1>2, <2>2
<1>6. Len(Tail(queue)) <= MaxQueue
  BY <1>1, <1>2, <1>4
<1>7. QED
  BY <1>3, <1>5, <1>6

LEMMA PreviewCommand ==
    ASSUME NEW c \in Command, c.op = "preview"
    PROVE  c.req \in Requests /\ c.file \in Files
BY DEF Command

\* Sending keeps the queue a bounded queue of commands.
LEMMA SendsType ==
    ASSUME PreviewTypeOK, NEW commands \in Seq(Command), Sends(commands)
    PROVE  queue' \in Seq(Command) /\ Len(queue') <= MaxQueue
<1>1. queue \in Seq(Command) /\ queue' = queue \o commands
  BY DEF PreviewTypeOK, Sends
<1>2. Len(queue \o commands) = Len(queue) + Len(commands)
  BY <1>1
<1>3. Len(queue) + Len(commands) <= MaxQueue
  BY DEF Sends
<1>4. QED
  BY <1>1, <1>2, <1>3

LEMMA AsksForType ==
    ASSUME PreviewTypeOK, NEW file \in Files, AsksFor(file)
    PROVE  /\ requests' \in 0..MaxRequests
           /\ queue' \in Seq(Command) /\ Len(queue') <= MaxQueue
<1> DEFINE command == [op |-> "preview", req |-> requests + 1, file |-> file]
<1>1. requests \in 0..MaxRequests /\ MaxRequests \in Nat
  BY PreviewAssumption DEF PreviewTypeOK
<1>2. requests < MaxRequests /\ requests' = requests + 1 /\ Sends(<<command>>)
  BY DEF AsksFor
<1>3. requests + 1 \in Requests
  BY <1>1, <1>2 DEF Requests
<1>4. command \in Command
  BY <1>3 DEF Command
<1>5. <<command>> \in Seq(Command)
  BY <1>4
<1>6. queue' \in Seq(Command) /\ Len(queue') <= MaxQueue
  BY <1>2, <1>5, SendsType
<1>7. QED
  BY <1>1, <1>2, <1>6

-----------------------------------------------------------------------------
(* How far the player is: the cursor counts the frames that were mixed and  *)
(* stays inside the samples while it plays.                                 *)

Progress == player.playing => player.cursor = heard * Ch /\ player.cursor <= ActiveLen

\* What one callback does to the player, in terms of frames.
LEMMA BlockFacts ==
    ASSUME NEW total \in Nat, NEW ch \in {1, 2}, NEW n \in Nat, NEW b \in Nat \ {0},
           n * ch <= total
    PROVE  LET left == (total - n * ch) \div ch
           IN  /\ left \in Nat
               /\ n + left = total \div ch
               /\ left >= b => /\ n * ch + b * ch <= total
                               /\ n * ch + b * ch = (n + b) * ch
                               /\ n * ch + b * ch >= total => n + b = total \div ch
<1>1. CASE ch = 1
  <2>1. n * 1 = n /\ b * 1 = b /\ (n + b) * 1 = n + b
    OBVIOUS
  <2>2. (total - n) \div 1 = total - n /\ total \div 1 = total
    OBVIOUS
  <2>3. QED
    BY <1>1, <2>1, <2>2
<1>2. CASE ch = 2
  <2>1. n * 2 = n + n /\ b * 2 = b + b /\ (n + b) * 2 = n + n + b + b
    OBVIOUS
  <2>2. n + n <= total
    BY <1>2, <2>1
  <2>3. n + ((total - (n + n)) \div 2) = total \div 2
    BY <2>2
  <2>4. (total - (n + n)) \div 2 \in Nat
    BY <2>2
  <2>5. ((total - (n + n)) \div 2) >= b => n + n + b + b <= total
    BY <2>2
  <2>6. n + n + b + b = total => n + b = total \div 2
    OBVIOUS
  <2>7. QED
    BY <1>2, <2>1, <2>2, <2>3, <2>4, <2>5, <2>6
<1>3. QED
  BY <1>1, <1>2

\* The numbers of the sample that plays.
LEMMA SampleFacts ==
    ASSUME PreviewTypeOK, player.playing
    PROVE  ActiveLen \in Nat /\ Ch \in {1, 2} /\ player.file \in Audio
<1>1. player.file \in Audio
  BY DEF PreviewTypeOK
<1>2. QED
  BY <1>1, PreviewAssumption DEF ActiveLen, Ch

\* One callback: the player stays a player, makes progress, and when it ends
\* all of the sample has been mixed.
LEMMA BlockStep ==
    ASSUME PreviewTypeOK, Progress, AudioBlock
    PROVE  /\ player' \in Player /\ heard' \in Nat
           /\ player'.file = player.file /\ player'.req = player.req
           /\ player'.playing => player'.cursor = heard' * Ch /\ player'.cursor <= ActiveLen
           /\ ~player'.playing => heard' = ActiveLen \div Ch
<1> DEFINE total == ActiveLen  ch == Ch  left == (total - heard * ch) \div ch
<1>1. player.playing /\ player \in Player /\ heard \in Nat
  BY DEF AudioBlock, PreviewTypeOK
<1>2. total \in Nat /\ ch \in {1, 2} /\ player.file \in Audio
  BY <1>1, SampleFacts
<1>3. player.cursor = heard * ch /\ heard * ch <= total
  BY <1>1 DEF Progress
<1>4. BlockFrames \in Nat \ {0}
  BY PreviewAssumption
<1>5. FramesLeft = left
  BY <1>3 DEF FramesLeft
<1> HIDE DEF total, ch
<1>6. /\ left \in Nat
      /\ heard + left = total \div ch
      /\ left >= BlockFrames =>
            /\ heard * ch + BlockFrames * ch <= total
            /\ heard * ch + BlockFrames * ch = (heard + BlockFrames) * ch
            /\ heard * ch + BlockFrames * ch >= total => heard + BlockFrames = total \div ch
  BY <1>1, <1>2, <1>3, <1>4, BlockFacts
<1>7. heard * ch \in Nat /\ BlockFrames * ch \in Nat /\ (left + 1) * ch \in Nat
  <2>1. ch = 1 \/ ch = 2
    BY <1>2
  <2> HIDE DEF left
  <2>2. QED
    BY <2>1, <1>1, <1>4, <1>6
<1> HIDE DEF left
<1>8. CASE RunsOut
  <2>1. player' = [player EXCEPT !.playing = FALSE, !.cursor = heard * ch + (left + 1) * ch]
    BY <1>8, <1>3, <1>5 DEF RunsOut, ch
  <2>2. heard' = heard + left
    BY <1>8, <1>5 DEF RunsOut
  <2>3. heard * ch + (left + 1) * ch \in Nat
    BY <1>7
  <2>4. /\ player' \in Player
        /\ player'.file = player.file /\ player'.req = player.req
        /\ ~player'.playing
    BY <1>1, <2>1, <2>3 DEF Player
  <2>5. heard' \in Nat /\ heard' = total \div ch
    BY <1>1, <1>6, <2>2
  <2>6. QED
    BY <2>4, <2>5 DEF total, ch
<1>9. CASE FillsBlock
  <2> DEFINE at == heard * ch + BlockFrames * ch
  <2>1. player' = [player EXCEPT !.cursor = at, !.playing = at < total]
    BY <1>9, <1>3 DEF FillsBlock, total, ch
  <2>2. heard' = heard + BlockFrames /\ left >= BlockFrames
    BY <1>9, <1>5 DEF FillsBlock
  <2>3. /\ at \in Nat /\ at <= total /\ at = (heard + BlockFrames) * ch
        /\ at >= total => heard + BlockFrames = total \div ch
    BY <1>6, <1>7, <2>2
  <2> HIDE DEF at
  <2>4. /\ player' \in Player
        /\ player'.file = player.file /\ player'.req = player.req
        /\ player'.cursor = at /\ (player'.playing <=> at < total)
    <3> DEFINE on == at < total
    <3>1. on \in BOOLEAN
      OBVIOUS
    <3> HIDE DEF on
    <3>2. player' = [player EXCEPT !.cursor = at, !.playing = on]
      BY <2>1 DEF on
    <3>3. player' \in Player
      BY <1>1, <2>3, <3>1, <3>2 DEF Player
    <3>4. player \in [playing : BOOLEAN, req : 0..MaxRequests, file : Audio \union {NoFile}, cursor : Nat]
      BY <1>1 DEF Player
    <3>5. /\ player'.file = player.file /\ player'.req = player.req
          /\ player'.cursor = at /\ player'.playing = on
      BY <3>2, <3>4
    <3>6. player'.playing <=> at < total
      BY <3>5 DEF on
    <3>7. QED
      BY <3>3, <3>5, <3>6
  <2>5. heard' \in Nat
    BY <1>1, <1>4, <2>2
  <2>6. player'.playing => player'.cursor = heard' * ch /\ player'.cursor <= total
    BY <2>2, <2>3, <2>4
  <2>7. ~player'.playing => heard' = total \div ch
    BY <1>2, <2>2, <2>3, <2>4
  <2>8. QED
    BY <2>4, <2>5, <2>6, <2>7 DEF total, ch
<1>10. QED
  BY <1>8, <1>9 DEF AudioBlock

-----------------------------------------------------------------------------
(* The inductive invariant.                                                 *)

\* Every decode that is still under way is the wanted one or was overtaken.
DecodesTracked == \A d \in decoding : d.req = wanted \/ d.req \in overtaken

PreviewInv == PreviewTypeOK /\ Progress /\ DecodesTracked /\ OnlyOvertakenIntrude

LEMMA InitPreviewInv == PreviewInit => PreviewInv
<1> SUFFICES ASSUME PreviewInit PROVE PreviewInv
  OBVIOUS
<1>1. MaxRequests \in Nat /\ MaxQueue \in Nat
  BY PreviewAssumption
<1>2. player = [playing |-> FALSE, req |-> 0, file |-> NoFile, cursor |-> 0] /\ decoding = {}
  BY DEF PreviewInit
<1>3. player \in Player /\ ~player.playing
  BY <1>1, <1>2 DEF Player
<1>4. <<>> \in Seq(Command) /\ Len(<<>>) = 0
  OBVIOUS
<1>5. PreviewTypeOK
  <2>1. queue \in Seq(Command) /\ Len(queue) <= MaxQueue
    BY <1>1, <1>4 DEF PreviewInit
  <2>2. /\ selected \in Files \union {NoFile} /\ button \in BOOLEAN
        /\ transport \in {"stopped", "playing", "paused"} /\ requests \in 0..MaxRequests
        /\ wanted \in 0..MaxRequests /\ overtaken \subseteq Requests /\ heard \in Nat
    <3>1. button \in BOOLEAN
      BY Zenon DEF PreviewInit
    <3>2. QED
      BY <1>1, <3>1 DEF PreviewInit
  <2>3. decoding \subseteq Preview
    BY <1>2
  <2>4. QED
    BY <1>3, <2>1, <2>2, <2>3 DEF PreviewTypeOK
<1>6. QED
  BY <1>2, <1>3, <1>5 DEF PreviewInv, Progress, DecodesTracked, OnlyOvertakenIntrude

\* A player that was started or stopped.
LEMMA StoppedType ==
    ASSUME NEW p \in Player
    PROVE  Stopped(p) \in Player /\ ~Stopped(p).playing
<1>1. p \in [playing : BOOLEAN, req : 0..MaxRequests, file : Audio \union {NoFile}, cursor : Nat]
  BY DEF Player
<1>2. QED
  BY <1>1 DEF Stopped, Player

LEMMA StartedType ==
    ASSUME MaxRequests \in Nat, NEW d \in Preview, d.file \in Audio
    PROVE  /\ Started(d) \in Player /\ Started(d).playing /\ Started(d).cursor = 0
           /\ Started(d).file = d.file /\ Started(d).req = d.req
<1>1. d.req \in 0..MaxRequests
  BY DEF Preview, Requests
<1>2. QED
  BY <1>1 DEF Started, Player

\* The steps of the interface's thread leave the engine alone.
InterfaceStep ==
    \/ \E f \in Files : SelectSample(f) \/ SelectMidi(f)
    \/ TogglePlay \/ ClickWaveform \/ Play \/ PauseOrStop \/ SyncFrame

LEMMA InterfaceType ==
    ASSUME PreviewTypeOK, InterfaceStep
    PROVE  /\ selected' \in Files \union {NoFile} /\ button' \in BOOLEAN
           /\ transport' \in {"stopped", "playing", "paused"} /\ requests' \in 0..MaxRequests
           /\ queue' \in Seq(Command) /\ Len(queue') <= MaxQueue
           /\ UNCHANGED Engine
<1> USE DEF PreviewTypeOK
<1>1. <<[op |-> "stop"]>> \in Seq(Command) /\ <<[op |-> "stop"], [op |-> "play"]>> \in Seq(Command)
  <2>1. [op |-> "stop"] \in Command /\ [op |-> "play"] \in Command
    BY DEF Command
  <2>2. QED
    BY <2>1
<1>2. ASSUME NEW f \in Files, SelectSample(f)
      PROVE  selected' \in Files /\ button' = TRUE /\ transport' = transport
             /\ AsksFor(f) /\ UNCHANGED Engine
  BY <1>2 DEF SelectSample
<1>3. ASSUME NEW f \in Files, SelectMidi(f)
      PROVE  selected' \in Files /\ button' = FALSE /\ transport' = transport
             /\ requests' = requests /\ Sends(<<[op |-> "stop"]>>) /\ UNCHANGED Engine
  BY <1>3 DEF SelectMidi
<1>4. CASE \E f \in Files : SelectSample(f)
  <2>1. PICK f \in Files : SelectSample(f)
    BY <1>4
  <2>2. /\ requests' \in 0..MaxRequests
        /\ queue' \in Seq(Command) /\ Len(queue') <= MaxQueue
    BY <1>2, <2>1, AsksForType
  <2>3. selected' \in Files /\ button' = TRUE /\ transport' = transport /\ UNCHANGED Engine
    BY <1>2, <2>1
  <2>4. QED
    BY <2>2, <2>3
<1>5. CASE \E f \in Files : SelectMidi(f)
  <2>1. PICK f \in Files : SelectMidi(f)
    BY <1>5
  <2>2. queue' \in Seq(Command) /\ Len(queue') <= MaxQueue
    BY <1>1, <1>3, <2>1, SendsType
  <2>3. /\ selected' \in Files /\ button' = FALSE /\ transport' = transport
        /\ requests' = requests /\ UNCHANGED Engine
    BY <1>3, <2>1
  <2>4. QED
    BY <2>2, <2>3
<1>6. CASE TogglePlay
  <2>1. selected' = selected /\ button' \in BOOLEAN /\ transport' = transport /\ UNCHANGED Engine
    BY <1>6, Zenon DEF TogglePlay
  <2>2. /\ requests' \in 0..MaxRequests
        /\ queue' \in Seq(Command) /\ Len(queue') <= MaxQueue
    <3>1. CASE button
      <4>1. Sends(<<[op |-> "stop"]>>) /\ requests' = requests
        BY <1>6, <3>1 DEF TogglePlay
      <4>2. QED
        BY <1>1, <4>1, SendsType
    <3>2. CASE ~button /\ selected = NoFile
      BY <1>6, <3>2 DEF TogglePlay
    <3>3. CASE ~button /\ selected # NoFile
      <4>1. selected \in Files /\ AsksFor(selected)
        BY <1>6, <3>3 DEF TogglePlay
      <4>2. QED
        BY <4>1, AsksForType
    <3>4. QED
      BY <3>1, <3>2, <3>3
  <2>3. QED
    BY <2>1, <2>2
<1>7. CASE ClickWaveform
  <2>1. /\ selected \in Files /\ AsksFor(selected)
        /\ button' = TRUE /\ UNCHANGED <<selected, transport, Engine>>
    BY <1>7 DEF ClickWaveform
  <2>2. /\ requests' \in 0..MaxRequests
        /\ queue' \in Seq(Command) /\ Len(queue') <= MaxQueue
    BY <2>1, AsksForType
  <2>3. QED
    BY <2>1, <2>2
<1>8. CASE Play
  <2>1. /\ Sends(<<[op |-> "stop"], [op |-> "play"]>>) /\ transport' = "playing"
        /\ UNCHANGED <<selected, button, requests, Engine>>
    BY <1>8 DEF Play
  <2>2. queue' \in Seq(Command) /\ Len(queue') <= MaxQueue
    BY <1>1, <2>1, SendsType
  <2>3. QED
    BY <2>1, <2>2
<1>9. CASE PauseOrStop
  BY <1>9 DEF PauseOrStop
<1>10. CASE SyncFrame
  BY <1>10 DEF SyncFrame
<1>11. QED
  BY <1>4, <1>5, <1>6, <1>7, <1>8, <1>9, <1>10 DEF InterfaceStep

LEMMA InterfaceInv == PreviewInv /\ InterfaceStep => PreviewInv'
<1> SUFFICES ASSUME PreviewInv, InterfaceStep PROVE PreviewInv'
  OBVIOUS
<1>1. UNCHANGED <<decoding, player, wanted, overtaken, heard>>
  BY InterfaceType DEF PreviewInv, Engine, history
<1>2. PreviewTypeOK'
  BY <1>1, InterfaceType DEF PreviewInv, PreviewTypeOK
<1>3. QED
  BY <1>1, <1>2 DEF PreviewInv, Progress, ActiveLen, Ch, DecodesTracked, OnlyOvertakenIntrude

LEMMA CommandInv == PreviewInv /\ HandleCommand => PreviewInv'
<1> SUFFICES ASSUME PreviewInv, HandleCommand PROVE PreviewInv'
  OBVIOUS
<1> DEFINE c == Head(queue)
<1>1. PreviewTypeOK /\ DecodesTracked /\ queue # <<>>
  BY DEF PreviewInv, HandleCommand
<1>2. c \in Command /\ queue' = Tail(queue) /\ Tail(queue) \in Seq(Command) /\ Len(Tail(queue)) <= MaxQueue
  BY <1>1, HeadIsCommand DEF HandleCommand
<1>3. UNCHANGED <<selected, button, transport, requests>>
  BY DEF HandleCommand, explorer
<1>4. player' = Stopped(player) /\ UNCHANGED heard /\ overtaken' = overtaken \union Decodes
  BY DEF HandleCommand, HandlePreview, HandleStop
<1>5. player' \in Player /\ ~player'.playing
  BY <1>1, <1>4, StoppedType DEF PreviewTypeOK
<1>6. Decodes \subseteq Requests
  BY <1>1 DEF PreviewTypeOK, Decodes, Preview
<1>7. /\ decoding' \subseteq Preview /\ wanted' \in 0..MaxRequests
      /\ \A d \in decoding' : d.req = wanted' \/ d \in decoding
  <2> HIDE DEF c
  <2>1. CASE HandlePreview(c)
    <3> DEFINE new == [req |-> c.req, file |-> c.file]
    <3>1. c.op = "preview" /\ decoding' = decoding \union {new} /\ wanted' = c.req
      BY <2>1 DEF HandlePreview
    <3>2. c.req \in Requests /\ c.file \in Files
      BY <1>2, <3>1, PreviewCommand
    <3>3. new \in Preview /\ new.req = c.req
      BY <3>2 DEF Preview
    <3>4. c.req \in 0..MaxRequests
      BY <3>2, PreviewAssumption DEF Requests
    <3> HIDE DEF new
    <3>5. QED
      BY <1>1, <3>1, <3>3, <3>4 DEF PreviewTypeOK
  <2>2. CASE HandleStop(c)
    BY <1>1, <2>2, PreviewAssumption DEF HandleStop, PreviewTypeOK
  <2>3. QED
    BY <2>1, <2>2 DEF HandleCommand, c
<1>8. DecodesTracked'
  BY <1>4, <1>7 DEF DecodesTracked, Decodes
<1>9. PreviewTypeOK'
  <2>1. overtaken' \subseteq Requests /\ heard' \in Nat
    BY <1>1, <1>4, <1>6 DEF PreviewTypeOK
  <2>2. QED
    BY <1>1, <1>2, <1>3, <1>5, <1>7, <2>1 DEF PreviewTypeOK
<1>10. QED
  BY <1>5, <1>8, <1>9 DEF PreviewInv, Progress, OnlyOvertakenIntrude

LEMMA DecodeInv == PreviewInv /\ Decode => PreviewInv'
<1> SUFFICES ASSUME PreviewInv, NEW d \in decoding, FinishDecode(d) \/ FailDecode(d) PROVE PreviewInv'
  BY DEF Decode
<1>1. PreviewTypeOK /\ Progress /\ DecodesTracked /\ d \in Preview
  BY DEF PreviewInv, PreviewTypeOK
<1>2. CASE FinishDecode(d)
  <2>1. d.file \in Audio /\ player' = Started(d) /\ heard' = 0 /\ decoding' = decoding \ {d}
        /\ UNCHANGED <<selected, button, transport, requests, queue, wanted, overtaken>>
    BY <1>2 DEF FinishDecode, explorer
  <2>2. /\ player' \in Player /\ player'.playing /\ player'.cursor = 0
        /\ player'.file = d.file /\ player'.req = d.req
    BY <1>1, <2>1, StartedType, PreviewAssumption
  <2>3. PreviewTypeOK'
    BY <1>1, <2>1, <2>2 DEF PreviewTypeOK
  <2>4. Progress'
    <3>1. ActiveLen' \in Nat /\ Ch' \in {1, 2}
      BY <2>1, <2>2, PreviewAssumption DEF ActiveLen, Ch
    <3>2. 0 * Ch' = 0 /\ 0 <= ActiveLen'
      <4>1. CASE Ch' = 1
        BY <3>1, <4>1
      <4>2. CASE Ch' = 2
        BY <3>1, <4>2
      <4>3. QED
        BY <3>1, <4>1, <4>2
    <3>3. QED
      BY <2>1, <2>2, <3>2 DEF Progress
  <2>5. DecodesTracked' /\ OnlyOvertakenIntrude'
    BY <1>1, <2>1, <2>2 DEF DecodesTracked, OnlyOvertakenIntrude
  <2>6. QED
    BY <2>3, <2>4, <2>5 DEF PreviewInv
<1>3. CASE FailDecode(d)
  <2>1. decoding' = decoding \ {d}
        /\ UNCHANGED <<selected, button, transport, requests, queue, player, wanted, overtaken, heard>>
    BY <1>3 DEF FailDecode, explorer, history
  <2>2. PreviewTypeOK'
    BY <1>1, <2>1 DEF PreviewTypeOK
  <2>3. Progress' /\ DecodesTracked' /\ OnlyOvertakenIntrude'
    BY <1>1, <2>1 DEF PreviewInv, Progress, ActiveLen, Ch, DecodesTracked, OnlyOvertakenIntrude
  <2>4. QED
    BY <2>2, <2>3 DEF PreviewInv
<1>4. QED
  BY <1>2, <1>3

LEMMA BlockInv == PreviewInv /\ AudioBlock => PreviewInv'
<1> SUFFICES ASSUME PreviewInv, AudioBlock PROVE PreviewInv'
  OBVIOUS
<1>1. PreviewTypeOK /\ Progress /\ DecodesTracked /\ OnlyOvertakenIntrude /\ player.playing
  BY DEF PreviewInv, AudioBlock
<1>2. UNCHANGED <<selected, button, transport, requests, queue, decoding, wanted, overtaken>>
  BY DEF AudioBlock, explorer
<1>3. /\ player' \in Player /\ heard' \in Nat
      /\ player'.file = player.file /\ player'.req = player.req
      /\ player'.playing => player'.cursor = heard' * Ch /\ player'.cursor <= ActiveLen
  BY <1>1, BlockStep
<1>4. PreviewTypeOK'
  BY <1>1, <1>2, <1>3 DEF PreviewTypeOK
<1>5. Progress'
  BY <1>3 DEF Progress, ActiveLen, Ch
<1>6. DecodesTracked' /\ OnlyOvertakenIntrude'
  BY <1>1, <1>2, <1>3 DEF DecodesTracked, OnlyOvertakenIntrude
<1>7. QED
  BY <1>4, <1>5, <1>6 DEF PreviewInv

LEMMA NextPreviewInv == PreviewInv /\ [PreviewNext]_previewVars => PreviewInv'
<1> SUFFICES ASSUME PreviewInv, [PreviewNext]_previewVars PROVE PreviewInv'
  OBVIOUS
<1>1. CASE InterfaceStep
  BY <1>1, InterfaceInv
<1>2. CASE HandleCommand
  BY <1>2, CommandInv
<1>3. CASE Decode
  BY <1>3, DecodeInv
<1>4. CASE AudioBlock
  BY <1>4, BlockInv
<1>5. CASE UNCHANGED previewVars
  BY <1>5 DEF PreviewInv, PreviewTypeOK, Progress, ActiveLen, Ch, DecodesTracked, OnlyOvertakenIntrude,
              previewVars, explorer, history
<1>6. QED
  BY <1>1, <1>2, <1>3, <1>4, <1>5 DEF PreviewNext, InterfaceStep

LEMMA AlwaysPreviewInv == PreviewSpec => []PreviewInv
<1>1. QED
  BY InitPreviewInv, NextPreviewInv, PTL DEF PreviewSpec

-----------------------------------------------------------------------------
(* The results.                                                             *)

\* The explorer, the commands, the decode threads and the player keep their
\* types; what plays was decoded from a sample.
THEOREM PreviewTypeCorrect == PreviewSpec => []PreviewTypeOK
<1>1. PreviewInv => PreviewTypeOK
  BY DEF PreviewInv
<1>2. QED
  BY <1>1, AlwaysPreviewInv, PTL

\* However the decode threads are scheduled, what sounds is the preview the
\* last command asked for, or one whose decode that command overtook.
THEOREM Intruders == PreviewSpec => []OnlyOvertakenIntrude
<1>1. PreviewInv => OnlyOvertakenIntrude
  BY DEF PreviewInv
<1>2. QED
  BY <1>1, AlwaysPreviewInv, PTL

LEMMA EndStep ==
    PreviewInv /\ [PreviewNext]_previewVars =>
        [player.playing /\ ~player'.playing /\ queue' = queue
            => heard' = ActiveLen \div Ch]_previewVars
<1> SUFFICES ASSUME PreviewInv, PreviewNext, player.playing, ~player'.playing, queue' = queue
             PROVE  heard' = ActiveLen \div Ch
  OBVIOUS
<1>1. CASE InterfaceStep
  <2>1. player' = player
    BY <1>1, InterfaceType DEF PreviewInv, Engine
  <2>2. QED
    BY <2>1
<1>2. CASE HandleCommand
  <2>1. queue # <<>> /\ queue' = Tail(queue)
    BY <1>2 DEF HandleCommand
  <2>2. QED
    BY <2>1, HeadIsCommand DEF PreviewInv
<1>3. CASE Decode
  <2>1. PICK d \in decoding : FinishDecode(d) \/ FailDecode(d)
    BY <1>3 DEF Decode
  <2>2. player'.playing
    BY <2>1 DEF FinishDecode, FailDecode, Started, history
  <2>3. QED
    BY <2>2
<1>4. CASE AudioBlock
  BY <1>4, BlockStep DEF PreviewInv
<1>5. QED
  BY <1>1, <1>2, <1>3, <1>4 DEF PreviewNext, InterfaceStep

\* For every sample length, channel count and block size, a preview that ends
\* by itself has been mixed to its last whole frame.
THEOREM WholePreviews == PreviewSpec => WholePreviewHeard
<1>1. QED
  BY AlwaysPreviewInv, EndStep, PTL DEF PreviewSpec, WholePreviewHeard
=============================================================================
