------------------------- MODULE PluginChainProofs -------------------------
(***************************************************************************)
(* That the engine's chains and the registry of taps follow the racks, for *)
(* any number of tracks, slots and plugins and any number of commands on   *)
(* their way.                                                              *)
(***************************************************************************)
EXTENDS PluginChain, SequenceTheorems, TLAPS

----------------------------------------------------------------------------
(* Taking an element out of a sequence and putting one in.                 *)

LEMMA LowerIs ==
  ASSUME NEW m \in Nat, NEW n \in Nat
  PROVE  /\ Lower(m, n) \in Nat /\ Lower(m, n) <= m /\ Lower(m, n) <= n
         /\ m <= n => Lower(m, n) = m
         /\ n <= m => Lower(m, n) = n
BY DEF Lower

LEMMA WithoutIs ==
  ASSUME NEW S, NEW seq \in Seq(S), NEW place \in 0..(Len(seq) - 1)
  PROVE  /\ Without(seq, place) \in Seq(S)
         /\ Len(Without(seq, place)) = Len(seq) - 1
         /\ \A i \in 1..(Len(seq) - 1) :
              Without(seq, place)[i] = IF i <= place THEN seq[i] ELSE seq[i + 1]
<1> DEFINE n == Len(seq)
           head == SubSeq(seq, 1, place)
           tail == SubSeq(seq, place + 2, n)
<1>0. n = Len(seq)
  OBVIOUS
<1>1. n \in Nat /\ place \in Nat /\ place < n /\ \A i \in 1..n : seq[i] \in S
  BY LenProperties, ElementOfSeq
<1>2. Without(seq, place) = head \o tail
  <2>1. (place + 1) - 1 = place /\ (place + 1) + 1 = place + 2
    BY <1>1
  <2> QED
    BY <2>1 DEF Without, RemoveAt
<1>3. /\ head \in Seq(S) /\ Len(head) = place
      /\ \A i \in 1..place : head[i] = seq[i]
  <2>1. \A i \in 1..place : seq[i] \in S
    BY <1>1
  <2>2. /\ head \in Seq(S)
        /\ Len(head) = IF 1 <= place THEN place - 1 + 1 ELSE 0
        /\ \A i \in 1..(place - 1 + 1) : head[i] = seq[1 + i - 1]
    BY <1>1, <2>1, SubSeqProperties
  <2> HIDE DEF head
  <2> QED
    BY <1>1, <2>2
<1>4. /\ tail \in Seq(S) /\ Len(tail) = n - 1 - place
      /\ \A i \in 1..(n - 1 - place) : tail[i] = seq[place + 1 + i]
  <2>1. \A i \in (place + 2)..n : seq[i] \in S
    BY <1>1
  <2>2. /\ tail \in Seq(S)
        /\ Len(tail) = IF place + 2 <= n THEN n - (place + 2) + 1 ELSE 0
        /\ \A i \in 1..(n - (place + 2) + 1) : tail[i] = seq[(place + 2) + i - 1]
    BY <1>1, <2>1, SubSeqProperties
  <2> HIDE DEF tail, n
  <2> QED
    BY <1>1, <2>2
<1> HIDE DEF head, tail
<1>5. /\ head \o tail \in Seq(S)
      /\ Len(head \o tail) = Len(head) + Len(tail)
      /\ \A i \in 1..(Len(head) + Len(tail)) :
           (head \o tail)[i] = IF i <= Len(head) THEN head[i] ELSE tail[i - Len(head)]
  BY <1>3, <1>4, ConcatProperties
<1> HIDE DEF n
<1>6. Len(head) + Len(tail) = n - 1
  BY <1>1, <1>3, <1>4
<1>7. ASSUME NEW i \in 1..(n - 1)
      PROVE  (head \o tail)[i] = IF i <= place THEN seq[i] ELSE seq[i + 1]
  <2>1. CASE i <= place
    BY <1>1, <1>3, <1>5, <1>6, <2>1
  <2>2. CASE i > place
    <3>1. i - place \in 1..(n - 1 - place) /\ place + 1 + (i - place) = i + 1
      BY <1>1, <2>2
    <3>2. (head \o tail)[i] = tail[i - place]
      BY <1>1, <1>3, <1>5, <1>6, <2>2
    <3>3. tail[i - place] = seq[i + 1]
      BY <1>4, <3>1
    <3> QED
      BY <1>1, <2>2, <3>2, <3>3
  <2>3. i <= place \/ i > place
    BY <1>1
  <2> QED
    BY <2>1, <2>2, <2>3, Zenon
<1> QED
  BY <1>0, <1>2, <1>5, <1>6, <1>7

LEMMA WithIs ==
  ASSUME NEW S, NEW seq \in Seq(S), NEW place \in Nat, NEW x \in S
  PROVE  /\ With(seq, place, x) \in Seq(S)
         /\ Len(With(seq, place, x)) = Len(seq) + 1
         /\ \A i \in 1..(Len(seq) + 1) :
              With(seq, place, x)[i] = IF i < Lower(place, Len(seq)) + 1 THEN seq[i]
                                       ELSE IF i = Lower(place, Len(seq)) + 1 THEN x
                                       ELSE seq[i - 1]
<1> DEFINE n == Len(seq)
           k == Lower(place, n)
           head == SubSeq(seq, 1, k)
           tail == SubSeq(seq, k + 1, n)
           front == head \o <<x>>
<1>0. n = Len(seq) /\ k = Lower(place, Len(seq))
  OBVIOUS
<1>1. n \in Nat /\ k \in Nat /\ k <= n /\ \A i \in 1..n : seq[i] \in S
  BY LenProperties, ElementOfSeq, LowerIs
<1>2. With(seq, place, x) = front \o tail
  <2>1. (k + 1) - 1 = k
    BY <1>1
  <2> QED
    BY <2>1 DEF With, InsertAt
<1> HIDE DEF n, k
<1>3. /\ head \in Seq(S) /\ Len(head) = k
      /\ \A i \in 1..k : head[i] = seq[i]
  <2>1. \A i \in 1..k : seq[i] \in S
    BY <1>1
  <2>2. /\ head \in Seq(S)
        /\ Len(head) = IF 1 <= k THEN k - 1 + 1 ELSE 0
        /\ \A i \in 1..(k - 1 + 1) : head[i] = seq[1 + i - 1]
    BY <1>1, <2>1, SubSeqProperties
  <2> HIDE DEF head
  <2> QED
    BY <1>1, <2>2
<1>4. /\ tail \in Seq(S) /\ Len(tail) = n - k
      /\ \A i \in 1..(n - k) : tail[i] = seq[k + i]
  <2>1. \A i \in (k + 1)..n : seq[i] \in S
    BY <1>1
  <2>2. /\ tail \in Seq(S)
        /\ Len(tail) = IF k + 1 <= n THEN n - (k + 1) + 1 ELSE 0
        /\ \A i \in 1..(n - (k + 1) + 1) : tail[i] = seq[(k + 1) + i - 1]
    BY <1>1, <2>1, SubSeqProperties
  <2> HIDE DEF tail
  <2> QED
    BY <1>1, <2>2
<1> HIDE DEF head, tail
<1>5. /\ front \in Seq(S) /\ Len(front) = k + 1
      /\ \A i \in 1..(k + 1) : front[i] = IF i <= k THEN seq[i] ELSE x
  <2>1. <<x>> \in Seq(S) /\ Len(<<x>>) = 1 /\ <<x>>[1] = x
    OBVIOUS
  <2>2. /\ front \in Seq(S)
        /\ Len(front) = Len(head) + Len(<<x>>)
        /\ \A i \in 1..(Len(head) + Len(<<x>>)) :
             front[i] = IF i <= Len(head) THEN head[i] ELSE <<x>>[i - Len(head)]
    BY <1>3, <2>1, ConcatProperties
  <2> HIDE DEF front
  <2>3. ASSUME NEW i \in 1..(k + 1) PROVE front[i] = IF i <= k THEN seq[i] ELSE x
    <3>1. CASE i <= k
      BY <1>1, <1>3, <2>1, <2>2, <3>1
    <3>2. CASE i = k + 1
      <4>1. i - k = 1 /\ ~(i <= k)
        BY <1>1, <3>2
      <4> QED
        BY <1>3, <2>1, <2>2, <4>1
    <3> QED
      BY <1>1, <3>1, <3>2
  <2> QED
    BY <1>1, <1>3, <2>1, <2>2, <2>3
<1> HIDE DEF front
<1>6. /\ front \o tail \in Seq(S)
      /\ Len(front \o tail) = Len(front) + Len(tail)
      /\ \A i \in 1..(Len(front) + Len(tail)) :
           (front \o tail)[i] = IF i <= Len(front) THEN front[i] ELSE tail[i - Len(front)]
  BY <1>4, <1>5, ConcatProperties
<1>7. Len(front) + Len(tail) = n + 1
  BY <1>1, <1>4, <1>5
<1>8. ASSUME NEW i \in 1..(n + 1)
      PROVE  (front \o tail)[i] = IF i < k + 1 THEN seq[i] ELSE IF i = k + 1 THEN x ELSE seq[i - 1]
  <2>1. CASE i <= k + 1
    <3>1. (front \o tail)[i] = front[i] /\ i \in 1..(k + 1)
      BY <1>1, <1>5, <1>6, <1>7, <2>1
    <3> QED
      BY <1>1, <1>5, <2>1, <3>1
  <2>2. CASE i > k + 1
    <3>1. i - (k + 1) \in 1..(n - k) /\ k + (i - (k + 1)) = i - 1
      BY <1>1, <2>2
    <3>2. (front \o tail)[i] = tail[i - (k + 1)]
      BY <1>1, <1>5, <1>6, <1>7, <2>2
    <3>3. tail[i - (k + 1)] = seq[i - 1]
      BY <1>4, <3>1
    <3> QED
      BY <1>1, <2>2, <3>2, <3>3
  <2>3. i <= k + 1 \/ i > k + 1
    BY <1>1
  <2> QED
    BY <2>1, <2>2, <2>3, Zenon
<1> QED
  BY <1>0, <1>2, <1>6, <1>7, <1>8

\* Putting in at a place that is there, or right behind the last.
Inserted(S, seq, place, x, result) ==
  /\ result \in Seq(S) /\ Len(result) = Len(seq) + 1
  /\ \A i \in 1..(Len(seq) + 1) :
       result[i] = IF i < place + 1 THEN seq[i] ELSE IF i = place + 1 THEN x ELSE seq[i - 1]

LEMMA WithInside ==
  ASSUME NEW S, NEW seq \in Seq(S), NEW place \in Nat, place <= Len(seq), NEW x \in S
  PROVE  Inserted(S, seq, place, x, With(seq, place, x))
<1>1. Lower(place, Len(seq)) = place
  BY LenProperties, LowerIs
<1>2. /\ With(seq, place, x) \in Seq(S)
      /\ Len(With(seq, place, x)) = Len(seq) + 1
      /\ \A i \in 1..(Len(seq) + 1) :
           With(seq, place, x)[i] = IF i < Lower(place, Len(seq)) + 1 THEN seq[i]
                                    ELSE IF i = Lower(place, Len(seq)) + 1 THEN x
                                    ELSE seq[i - 1]
  BY WithIs
<1> QED
  BY <1>1, <1>2 DEF Inserted

----------------------------------------------------------------------------
(* One rack and one chain: what a gesture and its command do to both.      *)

\* What Follows says without the library's DOMAIN.
LEMMA FollowsIs ==
  ASSUME NEW nodes \in Seq(Plugins), NEW slots \in Seq(Slots)
  PROVE  /\ Len(nodes) \in Nat /\ Len(slots) \in Nat
         /\ Follows(nodes, slots) <=>
              /\ Len(nodes) <= Len(slots)
              /\ \A i \in 1..Len(slots) :
                   slots[i] = IF i <= Len(nodes) THEN nodes[i] ELSE Native
         /\ \A i \in 1..Len(nodes) : nodes[i] \in Plugins /\ nodes[i] # Native
         /\ Aligned(slots) <=>
              \A i, j \in 1..Len(slots) : i < j /\ slots[j] # Native => slots[i] # Native
<1>1. DOMAIN slots = 1..Len(slots) /\ Len(slots) \in Nat /\ Len(nodes) \in Nat
  BY LenProperties
<1>2. \A i \in 1..Len(nodes) : nodes[i] \in Plugins
  BY ElementOfSeq
<1>3. \A x \in Plugins : x # Native
  BY Bounds DEF Plugins, Native
<1> QED
  BY <1>1, <1>2, <1>3 DEF Follows, Aligned

\* A slot behind the others: nothing changes in the chain.
LEMMA AddFollows ==
  ASSUME NEW nodes \in Seq(Plugins), NEW slots \in Seq(Slots), Follows(nodes, slots)
  PROVE  /\ Append(slots, Native) \in Seq(Slots)
         /\ Follows(nodes, Append(slots, Native))
<1>1. Native \in Slots
  BY DEF Slots
<1>2. /\ Append(slots, Native) \in Seq(Slots)
      /\ Len(Append(slots, Native)) = Len(slots) + 1
      /\ \A i \in 1..Len(slots) : Append(slots, Native)[i] = slots[i]
      /\ Append(slots, Native)[Len(slots) + 1] = Native
  BY <1>1, AppendProperties
<1> DEFINE longer == Append(slots, Native)
<1> HIDE DEF longer
<1>3. /\ longer \in Seq(Slots) /\ Len(longer) = Len(slots) + 1
      /\ \A i \in 1..Len(slots) : longer[i] = slots[i]
      /\ longer[Len(slots) + 1] = Native
  BY <1>2 DEF longer
<1>4. /\ Len(nodes) \in Nat /\ Len(slots) \in Nat /\ Len(nodes) <= Len(slots)
      /\ \A i \in 1..Len(slots) : slots[i] = IF i <= Len(nodes) THEN nodes[i] ELSE Native
  BY FollowsIs
<1>5. ASSUME NEW i \in 1..Len(longer)
      PROVE  longer[i] = IF i <= Len(nodes) THEN nodes[i] ELSE Native
  BY <1>3, <1>4
<1>6. Follows(nodes, longer)
  BY <1>3, <1>4, <1>5, FollowsIs
<1> QED
  BY <1>3, <1>6 DEF longer

\* The chain that LoadExternalPlugin leaves.
LoadedNodes(nodes, slot, plugin) ==
  With(IF slot < Len(nodes) THEN Without(nodes, slot) ELSE nodes, slot, plugin)

LEMMA LoadedIs ==
  ASSUME NEW nodes \in Seq(Plugins), NEW slot \in Nat, NEW x \in Plugins,
         slot <= Len(nodes)
  PROVE  LET loaded == LoadedNodes(nodes, slot, x)
             n == IF slot < Len(nodes) THEN Len(nodes) ELSE Len(nodes) + 1
         IN  /\ loaded \in Seq(Plugins) /\ Len(loaded) = n
             /\ \A i \in 1..n : loaded[i] = IF i = slot + 1 THEN x ELSE nodes[i]
<1> DEFINE loaded == LoadedNodes(nodes, slot, x)
<1>1. Len(nodes) \in Nat
  BY LenProperties
<1>2. CASE slot < Len(nodes)
  <2> DEFINE freed == Without(nodes, slot)
  <2>1. slot \in 0..(Len(nodes) - 1)
    BY <1>1, <1>2
  <2>2. /\ freed \in Seq(Plugins) /\ Len(freed) = Len(nodes) - 1
        /\ \A i \in 1..(Len(nodes) - 1) :
             freed[i] = IF i <= slot THEN nodes[i] ELSE nodes[i + 1]
    BY <2>1, WithoutIs
  <2>3. freed \in Seq(Plugins) /\ slot <= Len(freed)
    BY <1>1, <1>2, <2>2
  <2> HIDE DEF freed
  <2> DEFINE put == With(freed, slot, x)
  <2>4. /\ put \in Seq(Plugins) /\ Len(put) = Len(freed) + 1
        /\ \A i \in 1..(Len(freed) + 1) :
             put[i] = IF i < slot + 1 THEN freed[i]
                         ELSE IF i = slot + 1 THEN x ELSE freed[i - 1]
    <3>1. Inserted(Plugins, freed, slot, x, put)
      BY <2>3, WithInside, Zenon
    <3> HIDE DEF put
    <3> QED
      BY <3>1 DEF Inserted
  <2>7. loaded = put
    BY <1>2 DEF LoadedNodes, freed
  <2> HIDE DEF loaded, put
  <2>5. /\ loaded \in Seq(Plugins) /\ Len(loaded) = Len(freed) + 1
        /\ \A i \in 1..(Len(freed) + 1) :
             loaded[i] = IF i < slot + 1 THEN freed[i]
                         ELSE IF i = slot + 1 THEN x ELSE freed[i - 1]
    BY <2>7, <2>4
  <2>6. ASSUME NEW i \in 1..Len(nodes)
        PROVE  loaded[i] = IF i = slot + 1 THEN x ELSE nodes[i]
    <3>1. CASE i < slot + 1
      <4>1. i \in 1..(Len(nodes) - 1) /\ i <= slot
        BY <1>1, <1>2, <3>1
      <4> QED
        BY <1>1, <2>2, <2>5, <3>1, <4>1
    <3>2. CASE i = slot + 1
      BY <1>1, <2>2, <2>5, <3>2
    <3>3. CASE i > slot + 1
      <4>1. i - 1 \in 1..(Len(nodes) - 1) /\ ~(i - 1 <= slot) /\ (i - 1) + 1 = i
        BY <1>1, <3>3
      <4>2. freed[i - 1] = nodes[i]
        BY <2>2, <4>1
      <4> QED
        BY <1>1, <2>2, <2>5, <3>3, <4>2
    <3> QED
      BY <1>1, <3>1, <3>2, <3>3
  <2>8. Len(loaded) = Len(nodes)
    BY <1>1, <2>2, <2>5
  <2> QED
    BY <1>2, <2>5, <2>6, <2>8 DEF loaded
<1>3. CASE slot = Len(nodes)
  <2> DEFINE put == With(nodes, slot, x)
  <2>1. /\ put \in Seq(Plugins) /\ Len(put) = Len(nodes) + 1
        /\ \A i \in 1..(Len(nodes) + 1) :
             put[i] = IF i < slot + 1 THEN nodes[i]
                      ELSE IF i = slot + 1 THEN x ELSE nodes[i - 1]
    <3>1. Inserted(Plugins, nodes, slot, x, put)
      BY nodes \in Seq(Plugins), slot <= Len(nodes), WithInside, Zenon
    <3> HIDE DEF put
    <3> QED
      BY <3>1 DEF Inserted
  <2>2. loaded = put
    BY <1>1, <1>3 DEF LoadedNodes
  <2> HIDE DEF loaded, put
  <2>3. /\ loaded \in Seq(Plugins) /\ Len(loaded) = Len(nodes) + 1
        /\ \A i \in 1..(Len(nodes) + 1) :
             loaded[i] = IF i < slot + 1 THEN nodes[i]
                         ELSE IF i = slot + 1 THEN x ELSE nodes[i - 1]
    BY <2>1, <2>2
  <2>4. ASSUME NEW i \in 1..(Len(nodes) + 1)
        PROVE  loaded[i] = IF i = slot + 1 THEN x ELSE nodes[i]
    BY <1>1, <1>3, <2>3
  <2> QED
    BY <1>1, <1>3, <2>3, <2>4 DEF loaded
<1> QED
  BY <1>1, <1>2, <1>3

\* A plugin assigned to a slot of a rack that stays aligned replaces the node
\* at that place or comes right behind the last one.
LEMMA AssignFollows ==
  ASSUME NEW nodes \in Seq(Plugins), NEW slots \in Seq(Slots), Follows(nodes, slots),
         NEW slot \in 0..(Len(slots) - 1), NEW x \in Plugins,
         Aligned([slots EXCEPT ![slot + 1] = x])
  PROVE  /\ slot <= Len(nodes)
         /\ Follows(LoadedNodes(nodes, slot, x), [slots EXCEPT ![slot + 1] = x])
<1> DEFINE now == [slots EXCEPT ![slot + 1] = x]
<1>1. /\ Len(nodes) \in Nat /\ Len(slots) \in Nat /\ Len(nodes) <= Len(slots)
      /\ \A i \in 1..Len(slots) : slots[i] = IF i <= Len(nodes) THEN nodes[i] ELSE Native
  BY FollowsIs
<1>2. x \in Slots /\ x # Native /\ slot \in Nat /\ slot + 1 \in 1..Len(slots)
  BY <1>1, Bounds DEF Slots, Plugins, Native
<1>3. /\ now \in Seq(Slots) /\ Len(now) = Len(slots)
      /\ \A i \in 1..Len(slots) : now[i] = IF i = slot + 1 THEN x ELSE slots[i]
  BY <1>2, ExceptSeq
<1> HIDE DEF now
<1>4. \A i, j \in 1..Len(slots) : i < j /\ now[j] # Native => now[i] # Native
  BY <1>3, FollowsIs DEF now
<1>5. slot <= Len(nodes)
  <2> SUFFICES ASSUME slot > Len(nodes) PROVE FALSE
    BY <1>1, <1>2
  <2> DEFINE i == Len(nodes) + 1
  <2>1. i \in 1..Len(slots) /\ i < slot + 1 /\ ~(i <= Len(nodes))
    BY <1>1, <1>2
  <2>2. now[i] = Native
    BY <1>1, <1>3, <2>1
  <2>3. now[slot + 1] # Native
    BY <1>2, <1>3
  <2> HIDE DEF i
  <2> QED
    BY <1>2, <1>4, <2>1, <2>2, <2>3
<1> DEFINE loaded == LoadedNodes(nodes, slot, x)
           n == IF slot < Len(nodes) THEN Len(nodes) ELSE Len(nodes) + 1
<1>6. /\ loaded \in Seq(Plugins) /\ Len(loaded) = n
      /\ \A i \in 1..n : loaded[i] = IF i = slot + 1 THEN x ELSE nodes[i]
  BY <1>2, <1>5, LoadedIs
<1> HIDE DEF loaded
<1>7. n \in Nat /\ n <= Len(slots) /\ slot + 1 <= n
  BY <1>1, <1>2, <1>5
<1>8. ASSUME NEW i \in 1..Len(slots)
      PROVE  now[i] = IF i <= n THEN loaded[i] ELSE Native
  <2>1. CASE i = slot + 1
    BY <1>3, <1>6, <1>7, <2>1
  <2>2. CASE i # slot + 1 /\ i <= n
    <3>1. i <= Len(nodes) /\ i \in 1..n
      BY <1>1, <1>2, <1>5, <2>2
    <3> QED
      BY <1>1, <1>3, <1>6, <2>2, <3>1
  <2>3. CASE i # slot + 1 /\ ~(i <= n)
    <3>1. ~(i <= Len(nodes))
      BY <1>1, <1>2, <1>5, <2>3
    <3> QED
      BY <1>1, <1>3, <2>3, <3>1
  <2> QED
    BY <2>1, <2>2, <2>3
<1>9. Follows(loaded, now)
  <2> HIDE DEF n
  <2> QED
    BY <1>3, <1>6, <1>7, <1>8, FollowsIs
<1> QED
  BY <1>5, <1>9 DEF loaded, now

\* A slot is taken out of a rack: with its node if it has one.
LEMMA TakeFollows ==
  ASSUME NEW nodes \in Seq(Plugins), NEW slots \in Seq(Slots), Follows(nodes, slots),
         NEW slot \in 0..(Len(slots) - 1)
  PROVE  /\ slots[slot + 1] # Native =>
              /\ slot < Len(nodes) /\ slots[slot + 1] = nodes[slot + 1]
              /\ Follows(Without(nodes, slot), Without(slots, slot))
         /\ slots[slot + 1] = Native =>
              /\ slot >= Len(nodes)
              /\ Follows(nodes, Without(slots, slot))
<1>1. /\ Len(nodes) \in Nat /\ Len(slots) \in Nat /\ Len(nodes) <= Len(slots)
      /\ \A i \in 1..Len(slots) : slots[i] = IF i <= Len(nodes) THEN nodes[i] ELSE Native
      /\ \A i \in 1..Len(nodes) : nodes[i] # Native
  BY FollowsIs
<1>2. slot \in Nat /\ slot + 1 \in 1..Len(slots)
  BY <1>1
<1> DEFINE left == Without(slots, slot)
<1>3. /\ left \in Seq(Slots) /\ Len(left) = Len(slots) - 1
      /\ \A i \in 1..(Len(slots) - 1) :
           left[i] = IF i <= slot THEN slots[i] ELSE slots[i + 1]
  BY slots \in Seq(Slots), slot \in 0..(Len(slots) - 1), WithoutIs
<1> HIDE DEF left
<1>4. ASSUME slot < Len(nodes)
      PROVE  /\ slots[slot + 1] # Native /\ slots[slot + 1] = nodes[slot + 1]
             /\ Follows(Without(nodes, slot), left)
  <2> DEFINE rest == Without(nodes, slot)
  <2>1. slot \in 0..(Len(nodes) - 1) /\ slot + 1 \in 1..Len(nodes)
    BY <1>1, <1>2, <1>4
  <2>2. slots[slot + 1] # Native /\ slots[slot + 1] = nodes[slot + 1]
    BY <1>1, <1>2, <2>1
  <2>3. /\ rest \in Seq(Plugins) /\ Len(rest) = Len(nodes) - 1
        /\ \A i \in 1..(Len(nodes) - 1) :
             rest[i] = IF i <= slot THEN nodes[i] ELSE nodes[i + 1]
    BY nodes \in Seq(Plugins), <2>1, WithoutIs
  <2> HIDE DEF rest
  <2>4. ASSUME NEW i \in 1..Len(left)
        PROVE  left[i] = IF i <= Len(rest) THEN rest[i] ELSE Native
    <3>1. CASE i <= slot
      <4>1. i \in 1..Len(slots) /\ i \in 1..(Len(nodes) - 1) /\ i \in 1..(Len(slots) - 1)
        BY <1>1, <1>2, <1>3, <1>4, <3>1
      <4> QED
        BY <1>1, <1>3, <2>3, <3>1, <4>1
    <3>2. CASE i > slot /\ i <= Len(rest)
      <4>1. i + 1 \in 1..Len(slots) /\ i + 1 <= Len(nodes) /\ i \in 1..(Len(nodes) - 1) /\ i \in 1..(Len(slots) - 1)
        BY <1>1, <1>2, <1>3, <2>3, <3>2
      <4>2. left[i] = slots[i + 1] /\ rest[i] = nodes[i + 1]
        BY <1>1, <1>2, <1>3, <2>3, <3>2, <4>1
      <4> QED
        BY <1>1, <3>2, <4>1, <4>2
    <3>3. CASE i > Len(rest)
      <4>1. i + 1 \in 1..Len(slots) /\ ~(i + 1 <= Len(nodes)) /\ ~(i <= slot) /\ i \in 1..(Len(slots) - 1)
        BY <1>1, <1>2, <1>3, <1>4, <2>3, <3>3
      <4>2. left[i] = slots[i + 1]
        BY <1>3, <4>1
      <4> QED
        BY <1>1, <2>3, <3>3, <4>1, <4>2
    <3>4. i <= slot \/ (i > slot /\ i <= Len(rest)) \/ i > Len(rest)
      BY <1>1, <1>2, <1>3, <2>3
    <3> QED
      BY <3>1, <3>2, <3>3, <3>4, Zenon
  <2>5. Len(rest) <= Len(left)
    BY <1>1, <1>3, <2>3
  <2>6. Follows(rest, left)
    BY <1>3, <2>3, <2>4, <2>5, FollowsIs
  <2> QED
    BY <2>2, <2>6 DEF rest
<1>5. ASSUME slot >= Len(nodes)
      PROVE  slots[slot + 1] = Native /\ Follows(nodes, left)
  <2>1. ~(slot + 1 <= Len(nodes))
    BY <1>1, <1>2, <1>5
  <2>2. slots[slot + 1] = Native
    BY <1>1, <1>2, <2>1
  <2>3. ASSUME NEW i \in 1..Len(left)
        PROVE  left[i] = IF i <= Len(nodes) THEN nodes[i] ELSE Native
    <3>1. i \in 1..(Len(slots) - 1) /\ i \in 1..Len(slots) /\ i + 1 \in 1..Len(slots)
      BY <1>1, <1>3
    <3>2. CASE i <= slot
      BY <1>1, <1>3, <3>1, <3>2
    <3>3. CASE i > slot
      <4>1. ~(i <= slot) /\ ~(i <= Len(nodes)) /\ ~(i + 1 <= Len(nodes))
        BY <1>1, <1>2, <1>5, <3>1, <3>3
      <4>2. left[i] = slots[i + 1]
        BY <1>3, <3>1, <4>1
      <4> QED
        BY <1>1, <3>1, <4>1, <4>2
    <3>4. i <= slot \/ i > slot
      BY <1>2, <3>1
    <3> QED
      BY <3>2, <3>3, <3>4, Zenon
  <2>4. Len(nodes) <= Len(left)
    BY <1>1, <1>2, <1>3, <1>5
  <2> QED
    BY nodes \in Seq(Plugins), <1>3, <2>2, <2>3, <2>4, FollowsIs
<1>6. slot < Len(nodes) \/ slot >= Len(nodes)
  BY <1>1, <1>2
<1> QED
  BY <1>4, <1>5, <1>6 DEF left

\* A slot is put into a rack that stays aligned: one with a plugin among or
\* right behind the others', with its node; an empty one behind them.
LEMMA PutFollows ==
  ASSUME NEW nodes \in Seq(Plugins), NEW slots \in Seq(Slots), Follows(nodes, slots),
         NEW place \in Nat, NEW x \in Slots, Aligned(With(slots, place, x))
  PROVE  /\ x # Native =>
              /\ x \in Plugins /\ Lower(place, Len(slots)) <= Len(nodes)
              /\ Follows(With(nodes, Lower(place, Len(slots)), x), With(slots, place, x))
         /\ x = Native => Follows(nodes, With(slots, place, x))
<1> DEFINE k == Lower(place, Len(slots))
           now == With(slots, place, x)
<1>1. /\ Len(nodes) \in Nat /\ Len(slots) \in Nat /\ Len(nodes) <= Len(slots)
      /\ \A i \in 1..Len(slots) : slots[i] = IF i <= Len(nodes) THEN nodes[i] ELSE Native
      /\ \A i \in 1..Len(nodes) : nodes[i] # Native
  BY FollowsIs
<1>2. k \in Nat /\ k <= Len(slots)
  BY <1>1, LowerIs
<1>3. /\ now \in Seq(Slots) /\ Len(now) = Len(slots) + 1
      /\ \A i \in 1..(Len(slots) + 1) :
           now[i] = IF i < k + 1 THEN slots[i] ELSE IF i = k + 1 THEN x ELSE slots[i - 1]
  BY slots \in Seq(Slots), x \in Slots, place \in Nat, WithIs
<1>0. now = With(slots, place, x) /\ k = Lower(place, Len(slots))
  OBVIOUS
<1> HIDE DEF k, now
<1>4. \A i, j \in 1..Len(now) : i < j /\ now[j] # Native => now[i] # Native
  <2>1. Aligned(now)
    BY <1>0
  <2> QED
    BY nodes \in Seq(Plugins), <1>3, <2>1, FollowsIs
<1>5. ASSUME x # Native
      PROVE  x \in Plugins /\ k <= Len(nodes) /\ Follows(With(nodes, k, x), now)
  <2>1. x \in Plugins
    BY <1>5 DEF Slots
  <2>2. k <= Len(nodes)
    <3> SUFFICES ASSUME k > Len(nodes) PROVE FALSE
      BY <1>1, <1>2
    <3> DEFINE i == Len(nodes) + 1
    <3>1. /\ i \in 1..Len(slots) /\ i \in 1..Len(now) /\ i < k + 1 /\ ~(i <= Len(nodes))
          /\ i \in 1..(Len(slots) + 1) /\ k + 1 \in 1..(Len(slots) + 1) /\ k + 1 \in 1..Len(now)
      BY <1>1, <1>2, <1>3
    <3> HIDE DEF i
    <3>2. now[i] = Native
      BY <1>1, <1>3, <3>1
    <3>3. now[k + 1] = x
      BY <1>2, <1>3, <3>1
    <3> QED
      BY <1>4, <1>5, <3>1, <3>2, <3>3
  <2> DEFINE put == With(nodes, k, x)
  <2>3. /\ put \in Seq(Plugins) /\ Len(put) = Len(nodes) + 1
        /\ \A i \in 1..(Len(nodes) + 1) :
             put[i] = IF i < k + 1 THEN nodes[i] ELSE IF i = k + 1 THEN x ELSE nodes[i - 1]
    <3>1. k \in Nat /\ k <= Len(nodes)
      BY <1>2, <2>1, <2>2
    <3>2. Inserted(Plugins, nodes, k, x, put)
      BY nodes \in Seq(Plugins), <2>1, <3>1, WithInside, Zenon
    <3> HIDE DEF put
    <3> QED
      BY <3>2 DEF Inserted
  <2>4. put = With(nodes, k, x)
    OBVIOUS
  <2> HIDE DEF put
  <2>5. ASSUME NEW i \in 1..Len(now)
        PROVE  now[i] = IF i <= Len(put) THEN put[i] ELSE Native
    <3>1. i \in 1..(Len(slots) + 1)
      BY <1>3
    <3>2. CASE i < k + 1
      <4>1. i \in 1..Len(slots) /\ i <= Len(nodes) /\ i \in 1..(Len(nodes) + 1) /\ i <= Len(put)
        BY <1>1, <1>2, <2>2, <2>3, <3>1, <3>2
      <4>2. now[i] = slots[i] /\ put[i] = nodes[i] /\ slots[i] = nodes[i]
        BY <1>1, <1>3, <2>3, <3>1, <3>2, <4>1
      <4> QED
        BY <4>1, <4>2
    <3>3. CASE i = k + 1
      <4>1. i \in 1..(Len(nodes) + 1) /\ i <= Len(put) /\ ~(i < k + 1)
        BY <1>1, <1>2, <2>2, <2>3, <3>1, <3>3
      <4>2. now[i] = x /\ put[i] = x
        BY <1>3, <2>3, <3>1, <3>3, <4>1
      <4> QED
        BY <4>1, <4>2
    <3>4. CASE i > k + 1 /\ i <= Len(put)
      <4>1. /\ i - 1 \in 1..Len(slots) /\ i - 1 <= Len(nodes) /\ i \in 1..(Len(nodes) + 1)
            /\ ~(i < k + 1) /\ ~(i = k + 1)
        BY <1>1, <1>2, <2>3, <3>1, <3>4
      <4>2. now[i] = slots[i - 1] /\ put[i] = nodes[i - 1] /\ slots[i - 1] = nodes[i - 1]
        BY <1>1, <1>3, <2>3, <3>1, <4>1
      <4> QED
        BY <3>4, <4>2
    <3>5. CASE i > Len(put)
      <4>1. i - 1 \in 1..Len(slots) /\ ~(i - 1 <= Len(nodes)) /\ ~(i < k + 1) /\ ~(i = k + 1)
        BY <1>1, <1>2, <2>2, <2>3, <3>1, <3>5
      <4>2. now[i] = slots[i - 1] /\ slots[i - 1] = Native
        BY <1>1, <1>3, <3>1, <4>1
      <4>3. ~(i <= Len(put))
        BY <1>1, <2>3, <3>1, <3>5
      <4> QED
        BY <4>2, <4>3
    <3>6. i < k + 1 \/ i = k + 1 \/ (i > k + 1 /\ i <= Len(put)) \/ i > Len(put)
      BY <1>1, <1>2, <2>3, <3>1
    <3> QED
      BY <3>2, <3>3, <3>4, <3>5, <3>6, Zenon
  <2>6. Len(put) <= Len(now)
    BY <1>1, <1>3, <2>3
  <2>7. Follows(put, now)
    BY <1>3, <2>3, <2>5, <2>6, FollowsIs
  <2> QED
    BY <2>1, <2>2, <2>4, <2>7
<1>6. ASSUME x = Native PROVE Follows(nodes, now)
  <2>1. k >= Len(nodes)
    <3> SUFFICES ASSUME k < Len(nodes) PROVE FALSE
      BY <1>1, <1>2
    <3> DEFINE j == Len(nodes) + 1
    <3>1. /\ j - 1 \in 1..Len(slots) /\ j - 1 \in 1..Len(nodes) /\ j - 1 <= Len(nodes)
          /\ j \in 1..Len(now) /\ j \in 1..(Len(slots) + 1) /\ k + 1 \in 1..(Len(slots) + 1)
          /\ k + 1 \in 1..Len(now) /\ k + 1 < j /\ ~(j < k + 1) /\ ~(j = k + 1)
      BY <1>1, <1>2, <1>3
    <3> HIDE DEF j
    <3>2. now[j] # Native
      <4>1. now[j] = slots[j - 1] /\ slots[j - 1] = nodes[j - 1]
        BY <1>1, <1>3, <3>1
      <4> QED
        BY <1>1, <3>1, <4>1
    <3>3. now[k + 1] = Native
      BY <1>2, <1>3, <1>6, <3>1
    <3> QED
      BY <1>4, <3>1, <3>2, <3>3
  <2>2. ASSUME NEW i \in 1..Len(now)
        PROVE  now[i] = IF i <= Len(nodes) THEN nodes[i] ELSE Native
    <3>1. i \in 1..(Len(slots) + 1)
      BY <1>3
    <3>2. CASE i <= Len(nodes)
      <4>1. i < k + 1 /\ i \in 1..Len(slots)
        BY <1>1, <1>2, <2>1, <3>1, <3>2
      <4>2. now[i] = slots[i] /\ slots[i] = nodes[i]
        BY <1>1, <1>3, <3>1, <3>2, <4>1
      <4> QED
        BY <3>2, <4>2
    <3>3. CASE i > Len(nodes) /\ i < k + 1
      <4>1. i \in 1..Len(slots) /\ ~(i <= Len(nodes))
        BY <1>1, <1>2, <3>1, <3>3
      <4>2. now[i] = slots[i] /\ slots[i] = Native
        BY <1>1, <1>3, <3>1, <3>3, <4>1
      <4> QED
        BY <4>1, <4>2
    <3>4. CASE i = k + 1
      <4>1. ~(i < k + 1) /\ ~(i <= Len(nodes))
        BY <1>1, <1>2, <2>1, <3>1, <3>4
      <4> QED
        BY <1>3, <1>6, <3>1, <3>4, <4>1
    <3>5. CASE i > k + 1
      <4>1. /\ i - 1 \in 1..Len(slots) /\ ~(i - 1 <= Len(nodes)) /\ ~(i <= Len(nodes))
            /\ ~(i < k + 1) /\ ~(i = k + 1)
        BY <1>1, <1>2, <2>1, <3>1, <3>5
      <4>2. now[i] = slots[i - 1] /\ slots[i - 1] = Native
        BY <1>1, <1>3, <3>1, <4>1
      <4> QED
        BY <4>1, <4>2
    <3>6. i <= Len(nodes) \/ (i > Len(nodes) /\ i < k + 1) \/ i = k + 1 \/ i > k + 1
      BY <1>1, <1>2, <3>1
    <3> QED
      BY <3>2, <3>3, <3>4, <3>5, <3>6, Zenon
  <2>3. Len(nodes) <= Len(now)
    BY <1>1, <1>3
  <2> QED
    BY nodes \in Seq(Plugins), <1>3, <2>2, <2>3, FollowsIs
<1> QED
  BY <1>0, <1>5, <1>6

----------------------------------------------------------------------------
(* All racks, or all chains: an element goes from one place to another.    *)

Relocated(seqs, from, slot, to, place) ==
  LET taken == [seqs EXCEPT ![from] = Without(seqs[from], slot)]
  IN  [taken EXCEPT ![to] = With(taken[to], place, At(seqs[from], slot))]

Relocates(after, P, S, seqs, from, slot, to, place) ==
  /\ after \in [P -> Seq(S)]
  /\ Without(seqs[from], slot) \in Seq(S) /\ seqs[from][slot + 1] \in S
  /\ Len(Without(seqs[from], slot)) = Len(seqs[from]) - 1
  /\ from = to => after[to] = With(Without(seqs[from], slot), place, seqs[from][slot + 1])
  /\ from # to => /\ after[from] = Without(seqs[from], slot)
                  /\ after[to] = With(seqs[to], place, seqs[from][slot + 1])
  /\ \A p \in P : p # from /\ p # to => after[p] = seqs[p]

LEMMA RelocatedIs ==
  ASSUME NEW S, NEW P, NEW seqs \in [P -> Seq(S)], NEW from \in P, NEW to \in P,
         NEW slot \in 0..(Len(seqs[from]) - 1), NEW place \in Nat
  PROVE  Relocates(Relocated(seqs, from, slot, to, place), P, S, seqs, from, slot, to, place)
<1> DEFINE after == Relocated(seqs, from, slot, to, place)
           left  == Without(seqs[from], slot)
           moved == seqs[from][slot + 1]
           taken == [seqs EXCEPT ![from] = left]
           put == With(taken[to], place, moved)
<1>1. seqs[from] \in Seq(S) /\ seqs[to] \in Seq(S)
  OBVIOUS
<1>2. left \in Seq(S) /\ Len(left) = Len(seqs[from]) - 1
  BY <1>1, WithoutIs
<1>3. moved \in S
  <2>1. Len(seqs[from]) \in Nat
    BY <1>1, LenProperties
  <2>2. slot + 1 \in 1..Len(seqs[from])
    BY <2>1
  <2> QED
    BY <1>1, <2>2, ElementOfSeq
<1>4. after = [taken EXCEPT ![to] = put]
  BY DEF Relocated, At
<1> HIDE DEF left, moved, after
<1>5. /\ taken \in [P -> Seq(S)] /\ taken[from] = left
      /\ \A p \in P : p # from => taken[p] = seqs[p]
  BY <1>2
<1> HIDE DEF taken
<1>6. put \in Seq(S)
  <2>1. taken[to] \in Seq(S)
    BY <1>5
  <2> QED
    BY <1>3, <2>1, WithIs
<1>7. from = to => put = With(left, place, moved)
  BY <1>5
<1>8. from # to => put = With(seqs[to], place, moved)
  BY <1>5
<1> HIDE DEF put
<1>9. after \in [P -> Seq(S)] /\ after[to] = put /\ \A p \in P : p # to => after[p] = taken[p]
  BY <1>4, <1>5, <1>6
<1> QED
  BY <1>2, <1>3, <1>5, <1>7, <1>8, <1>9 DEF after, left, moved, Relocates

----------------------------------------------------------------------------
(* The commands on their way lead the chains, one by one, to where the     *)
(* racks already are: what makes ChainFollowsRack inductive.               *)

Command == LoadCommand \cup MoveCommand \cup SyncCommand

\* Chains no longer than a rack.
Chains == {nodes \in [Strips -> Seq(Plugins)] : \A s \in Strips : Len(nodes[s]) <= MaxSlots}

\* A command finds the chains as the gesture that sent it expected them.
Leads(before, c, after) ==
  \/ /\ c.op = "load"
     /\ c.slot <= Len(before[c.track])
     /\ after = [before EXCEPT ![c.track] = LoadedNodes(before[c.track], c.slot, c.plugin)]
  \/ /\ c.op = "move"
     /\ c.slot < Len(before[c.from])
     /\ after = Relocated(before, c.from, c.slot, c.to, c.place)
  \/ /\ c.op = "sync"
     /\ c.slot < Len(before[c.track]) /\ At(before[c.track], c.slot) = c.plugin
     /\ after = before

Reaches(nodes, cmds, end) ==
  \E h \in [0..Len(cmds) -> Chains] :
    /\ h[0] = nodes /\ h[Len(cmds)] = end
    /\ \A i \in 1..Len(cmds) : Leads(h[i - 1], cmds[i], h[i])

LEMMA ReachesNothing ==
  ASSUME NEW nodes \in Chains, NEW end \in Chains
  PROVE  Reaches(nodes, <<>>, end) <=> nodes = end
<1>1. ASSUME Reaches(nodes, <<>>, end) PROVE nodes = end
  BY <1>1 DEF Reaches
<1>2. Reaches(nodes, <<>>, nodes)
  <2> DEFINE h == [i \in 0..0 |-> nodes]
  <2>1. h \in [0..Len(<<>>) -> Chains] /\ h[0] = nodes /\ Len(<<>>) = 0
    OBVIOUS
  <2> HIDE DEF h
  <2> QED
    BY <2>1 DEF Reaches
<1> QED
  BY <1>1, <1>2

LEMMA ReachesAppend ==
  ASSUME NEW nodes \in Chains, NEW cmds \in Seq(Command), NEW mid \in Chains,
         Reaches(nodes, cmds, mid), NEW c \in Command, NEW end \in Chains, Leads(mid, c, end)
  PROVE  Reaches(nodes, Append(cmds, c), end)
<1> DEFINE n == Len(cmds)
           more == Append(cmds, c)
<1>1. PICK h \in [0..n -> Chains] :
        /\ h[0] = nodes /\ h[n] = mid
        /\ \A i \in 1..n : Leads(h[i - 1], cmds[i], h[i])
  BY DEF Reaches
<1>2. n \in Nat
  BY LenProperties
<1>3. Len(more) = n + 1 /\ more[n + 1] = c /\ \A i \in 1..n : more[i] = cmds[i]
  BY AppendProperties
<1> HIDE DEF n, more
<1> DEFINE g == [i \in 0..(n + 1) |-> IF i <= n THEN h[i] ELSE end]
<1>4. g \in [0..(n + 1) -> Chains]
  BY <1>2
<1>5. /\ \A i \in 0..n : g[i] = h[i]
      /\ g[n + 1] = end
  BY <1>2
<1> HIDE DEF g
<1>6. ASSUME NEW i \in 1..(n + 1) PROVE Leads(g[i - 1], more[i], g[i])
  <2>1. CASE i <= n
    <3>1. i \in 1..n /\ i \in 0..n /\ i - 1 \in 0..n
      BY <1>2, <2>1
    <3> QED
      BY <1>1, <1>3, <1>5, <3>1
  <2>2. CASE i = n + 1
    <3>1. i - 1 = n /\ n \in 0..n
      BY <1>2, <2>2
    <3>2. g[i - 1] = mid /\ g[i] = end /\ more[i] = c
      BY <1>1, <1>3, <1>5, <2>2, <3>1
    <3> QED
      BY <3>2
  <2>3. i <= n \/ i = n + 1
    BY <1>2
  <2> QED
    BY <2>1, <2>2, <2>3, Zenon
<1>7. g[0] = nodes
  BY <1>1, <1>2, <1>5
<1>8. Reaches(nodes, more, end)
  BY <1>3, <1>4, <1>5, <1>6, <1>7 DEF Reaches
<1> QED
  BY <1>8 DEF more

LEMMA ReachesTail ==
  ASSUME NEW nodes \in Chains, NEW cmds \in Seq(Command), cmds # <<>>, NEW end \in Chains,
         Reaches(nodes, cmds, end)
  PROVE  \E mid \in Chains : /\ Leads(nodes, Head(cmds), mid)
                             /\ Reaches(mid, Tail(cmds), end)
<1> DEFINE n == Len(cmds)
           rest == Tail(cmds)
<1>1. PICK h \in [0..n -> Chains] :
        /\ h[0] = nodes /\ h[n] = end
        /\ \A i \in 1..n : Leads(h[i - 1], cmds[i], h[i])
  BY DEF Reaches
<1>2. n \in Nat /\ n >= 1 /\ Head(cmds) = cmds[1]
  BY EmptySeq, LenProperties
<1>3. Len(rest) = n - 1 /\ \A i \in 1..(n - 1) : rest[i] = cmds[i + 1]
  <2>1. Len(rest) = n - 1 /\ \A i \in 1..Len(rest) : rest[i] = cmds[i + 1]
    BY HeadTailProperties
  <2> QED
    BY <2>1
<1> HIDE DEF n, rest
<1> DEFINE g == [i \in 0..(n - 1) |-> h[i + 1]]
<1>4. /\ g \in [0..(n - 1) -> Chains]
      /\ \A i \in 0..(n - 1) : g[i] = h[i + 1]
  BY <1>2
<1> HIDE DEF g
<1>5. h[1] \in Chains /\ Leads(nodes, Head(cmds), h[1])
  <2>1. 1 \in 0..n /\ 1 \in 1..n /\ 1 - 1 = 0
    BY <1>2
  <2> QED
    BY <1>1, <1>2, <2>1
<1>6. ASSUME NEW i \in 1..(n - 1) PROVE Leads(g[i - 1], rest[i], g[i])
  <2>1. i \in 0..(n - 1) /\ i - 1 \in 0..(n - 1) /\ (i - 1) + 1 = i /\ i + 1 \in 1..n /\ (i + 1) - 1 = i
    BY <1>2
  <2>2. g[i - 1] = h[i] /\ g[i] = h[i + 1] /\ rest[i] = cmds[i + 1]
    BY <1>3, <1>4, <2>1
  <2>3. Leads(h[(i + 1) - 1], cmds[i + 1], h[i + 1])
    BY <1>1, <2>1
  <2> QED
    BY <2>1, <2>2, <2>3
<1>7. g[0] = h[1] /\ g[n - 1] = end
  <2>1. 0 \in 0..(n - 1) /\ n - 1 \in 0..(n - 1) /\ (n - 1) + 1 = n /\ 0 + 1 = 1
    BY <1>2
  <2> QED
    BY <1>1, <1>4, <2>1
<1>8. Reaches(h[1], rest, end)
  BY <1>3, <1>4, <1>6, <1>7 DEF Reaches
<1> QED
  BY <1>5, <1>8 DEF rest

----------------------------------------------------------------------------
(* Types.                                                                  *)

\* No rack is longer than its bound.
RacksFit == \A t \in Tracks : Len(rack[t]) <= MaxSlots

Typed == TypeOK /\ RacksFit

Editors == [of : Slots, on : Tracks, slot : Places, opening : BOOLEAN,
            tap : Slots, settled : BOOLEAN]

LEMMA NoEditorTyped == NoEditor \in Editors
<1>1. Native \in Slots /\ 0 \in Places
  BY Bounds DEF Slots, Places
<1> QED
  BY <1>1, MasterIsATrack DEF NoEditor, Editors

LEMMA TypedInit == Init => Typed
<1> SUFFICES ASSUME Init PROVE Typed
  OBVIOUS
<1>1. Len(<<>>) = 0 /\ <<>> \in Seq(Slots) /\ <<>> \in Seq(Plugins) /\ commands \in Seq(Command)
  BY EmptySeq DEF Init
<1>2. Native \in Slots
  BY DEF Slots
<1>3. rack \in [Tracks -> Seq(Slots)] /\ RacksFit
  BY <1>1, Bounds DEF Init, RacksFit
<1>4. chain \in [Strips -> Seq(Plugins)] /\ registry \in [Strips -> [Places -> Slots]]
  BY <1>1, <1>2 DEF Init
<1>5. editor \in Editors
  <2>1. NoEditor \in Editors
    BY NoEditorTyped
  <2> QED
    BY <2>1 DEF Init
<1>6. loads \in 0..MaxLoads /\ gestures \in 0..MaxGestures /\ parted \in BOOLEAN
  <2>1. loads = 0 /\ gestures = 0 /\ MaxLoads \in Nat /\ MaxGestures \in Nat
    BY Bounds DEF Init
  <2>2. parted \in BOOLEAN
    BY Zenon DEF Init
  <2> QED
    BY <2>1, <2>2
<1> QED
  BY <1>1, <1>3, <1>4, <1>5, <1>6 DEF Typed, TypeOK, Command, Editors

LEMMA GestureTyped ==
  ASSUME Typed, NEW parting \in BOOLEAN, Gesture(parting)
  PROVE  /\ gestures' \in 0..MaxGestures /\ parted' \in BOOLEAN
         /\ ~parted' => /\ ~parted /\ ~parting
                        /\ \A s \in Strips : Aligned(rack'[s])
<1>1. gestures' \in 0..MaxGestures
  BY Bounds DEF Typed, TypeOK, Gesture
<1>2. parted' \in BOOLEAN
  BY Zenon DEF Typed, TypeOK, Gesture
<1>3. ASSUME ~parted' PROVE ~parted /\ ~parting /\ \A s \in Strips : Aligned(rack'[s])
  BY <1>3, Zenon DEF Gesture
<1> QED
  BY <1>1, <1>2, <1>3

\* A rack that the gesture leaves in place of another.
LEMMA RackTyped ==
  ASSUME Typed, NEW t \in Tracks, NEW slots \in Seq(Slots), Len(slots) <= MaxSlots,
         rack' = [rack EXCEPT ![t] = slots]
  PROVE  rack' \in [Tracks -> Seq(Slots)] /\ RacksFit'
BY DEF Typed, TypeOK, RacksFit

LEMMA SlotIs ==
  ASSUME Typed, NEW t \in Tracks, NEW slot \in 0..(Len(rack[t]) - 1)
  PROVE  /\ rack[t] \in Seq(Slots) /\ Len(rack[t]) \in Nat /\ Len(rack[t]) <= MaxSlots
         /\ slot \in Nat /\ slot \in Places /\ slot + 1 \in 1..Len(rack[t])
         /\ At(rack[t], slot) = rack[t][slot + 1] /\ At(rack[t], slot) \in Slots
         /\ At(rack[t], slot) # Native => At(rack[t], slot) \in Plugins
<1>1. rack[t] \in Seq(Slots) /\ Len(rack[t]) \in Nat /\ Len(rack[t]) <= MaxSlots
  BY LenProperties DEF Typed, TypeOK, RacksFit
<1>2. slot \in Nat /\ slot \in Places /\ slot + 1 \in 1..Len(rack[t])
  BY <1>1, Bounds DEF Places
<1>3. rack[t][slot + 1] \in Slots
  BY <1>1, <1>2, ElementOfSeq
<1> QED
  BY <1>1, <1>2, <1>3 DEF At, Slots

\* Sending one more command.
LEMMA SentTyped ==
  ASSUME Typed, NEW c \in Command
  PROVE  Append(commands, c) \in Seq(Command)
BY AppendProperties DEF Typed, TypeOK, Command

LEMMA AddTyped ==
  ASSUME Typed, NEW t \in Tracks, AddSlot(t)
  PROVE  Typed'
<1>1. rack[t] \in Seq(Slots) /\ Len(rack[t]) \in Nat /\ Native \in Slots
  BY LenProperties DEF Typed, TypeOK, Slots
<1>2. Append(rack[t], Native) \in Seq(Slots) /\ Len(Append(rack[t], Native)) = Len(rack[t]) + 1
  BY <1>1, AppendProperties
<1>3. Len(rack[t]) + 1 <= MaxSlots
  BY <1>1, Bounds DEF AddSlot
<1>4. rack' \in [Tracks -> Seq(Slots)] /\ RacksFit'
  BY <1>2, <1>3, RackTyped DEF AddSlot
<1>5. gestures' \in 0..MaxGestures /\ parted' \in BOOLEAN
  BY GestureTyped DEF AddSlot
<1> QED
  BY <1>4, <1>5 DEF Typed, TypeOK, AddSlot, engineVars

LEMMA AssignTyped ==
  ASSUME Typed, NEW t \in Tracks, NEW slot \in 0..(Len(rack[t]) - 1),
         AssignExternalPlugin(t, slot)
  PROVE  Typed'
<1>1. loads' \in 0..MaxLoads /\ loads' \in Plugins
  BY Bounds DEF Typed, TypeOK, AssignExternalPlugin, Plugins
<1>2. /\ rack[t] \in Seq(Slots) /\ Len(rack[t]) <= MaxSlots /\ loads' \in Slots
      /\ slot + 1 \in 1..Len(rack[t]) /\ slot \in Nat
  BY <1>1, SlotIs DEF Slots
<1> DEFINE now == [rack[t] EXCEPT ![slot + 1] = loads']
<1>3. now \in Seq(Slots) /\ Len(now) <= MaxSlots
  BY <1>2, ExceptSeq
<1>4. rack' = [rack EXCEPT ![t] = now]
  BY DEF AssignExternalPlugin, Typed, TypeOK
<1> HIDE DEF now
<1>5. rack' \in [Tracks -> Seq(Slots)] /\ RacksFit'
  BY <1>3, <1>4, RackTyped
<1>6. commands' \in Seq(Command)
  <2>1. CASE t = Master
    BY <2>1 DEF AssignExternalPlugin, Typed, TypeOK, Command
  <2>2. CASE t # Master
    <3> DEFINE c == [op |-> "load", track |-> t, slot |-> slot, plugin |-> loads']
    <3>1. c \in Command
      BY <1>1, <1>2, <2>2 DEF Command, LoadCommand, Strips
    <3> HIDE DEF c
    <3>2. commands' = Append(commands, c)
      BY <2>2 DEF AssignExternalPlugin, c
    <3> QED
      BY <3>1, <3>2, SentTyped
  <2> QED
    BY <2>1, <2>2
<1>7. gestures' \in 0..MaxGestures /\ parted' \in BOOLEAN
  BY GestureTyped DEF AssignExternalPlugin
<1> QED
  BY <1>1, <1>5, <1>6, <1>7 DEF Typed, TypeOK, AssignExternalPlugin, engineVars, Command

LEMMA RemoveTyped ==
  ASSUME Typed, NEW t \in Tracks, NEW slot \in 0..(Len(rack[t]) - 1), RemoveSlot(t, slot)
  PROVE  Typed'
<1>1. rack[t] \in Seq(Slots) /\ Len(rack[t]) \in Nat /\ Len(rack[t]) <= MaxSlots
  BY SlotIs
<1>2. Without(rack[t], slot) \in Seq(Slots) /\ Len(Without(rack[t], slot)) = Len(rack[t]) - 1
  BY <1>1, WithoutIs
<1>3. Len(Without(rack[t], slot)) <= MaxSlots
  BY <1>1, <1>2, Bounds
<1>4. rack' \in [Tracks -> Seq(Slots)] /\ RacksFit'
  BY <1>2, <1>3, RackTyped DEF RemoveSlot
<1>5. gestures' \in 0..MaxGestures /\ parted' \in BOOLEAN
  <2> DEFINE parting == t # Master /\ At(rack[t], slot) # Native
  <2>1. parting \in BOOLEAN /\ Gesture(parting)
    BY DEF RemoveSlot
  <2> HIDE DEF parting
  <2> QED
    BY <2>1, GestureTyped
<1> QED
  BY <1>4, <1>5 DEF Typed, TypeOK, RemoveSlot, engineVars

LEMMA FlushTyped ==
  ASSUME Typed, NEW t \in Tracks, NEW slot \in 0..(Len(rack[t]) - 1),
         FlushPendingExternalParams(t, slot)
  PROVE  Typed'
<1> DEFINE c == [op |-> "sync", track |-> t, slot |-> slot, plugin |-> At(rack[t], slot)]
<1>1. c \in Command
  <2>1. slot \in Nat /\ At(rack[t], slot) \in Plugins /\ t \in Strips
    BY SlotIs DEF FlushPendingExternalParams, Strips
  <2> QED
    BY <2>1 DEF Command, SyncCommand
<1>2. commands' = Append(commands, c)
  BY DEF FlushPendingExternalParams
<1> HIDE DEF c
<1>3. commands' \in Seq(Command)
  BY <1>1, <1>2, SentTyped
<1>4. gestures' \in 0..MaxGestures /\ parted' \in BOOLEAN
  BY GestureTyped DEF FlushPendingExternalParams
<1> QED
  BY <1>3, <1>4 DEF Typed, TypeOK, RacksFit, FlushPendingExternalParams, engineVars, Command

LEMMA OpenTyped ==
  ASSUME Typed, NEW t \in Tracks, NEW slot \in 0..(Len(rack[t]) - 1),
         OpenExternalEditor(t, slot)
  PROVE  Typed'
<1>1. At(rack[t], slot) \in Slots /\ slot \in Places
  BY SlotIs
<1>4. editor' \in Editors
  <2>1. editor' = [NoEditor EXCEPT !.of = At(rack[t], slot), !.on = t, !.slot = slot,
                                   !.opening = TRUE]
    BY DEF OpenExternalEditor
  <2> QED
    BY <1>1, <2>1, NoEditorTyped DEF Editors
<1>5. gestures' \in 0..MaxGestures /\ parted' \in BOOLEAN
  BY GestureTyped DEF OpenExternalEditor
<1> QED
  BY <1>4, <1>5 DEF Typed, TypeOK, RacksFit, OpenExternalEditor, engineVars, Editors

\* The window's thread and the closing of the window change the editor only.
LEMMA WindowOnly ==
  ASSUME FindTap \/ EndEditor
  PROVE  UNCHANGED <<rack, commands, chain, registry, loads, gestures, parted>>
BY DEF FindTap, EndEditor, engineVars

\* What the thread finds, and whether it was to find its plugin's tap.
LEMMA FoundTyped ==
  ASSUME Typed, FindTap
  PROVE  /\ editor' \in Editors /\ editor'.of = editor.of /\ editor'.on = editor.on
         /\ editor'.tap = Lookup(editor.on, editor.slot)
         /\ editor'.settled => commands = <<>> /\ ~parted /\ InItsSlot
<1> DEFINE settled == commands = <<>> /\ ~parted /\ InItsSlot
           tap == Lookup(editor.on, editor.slot)
<1>1. editor \in Editors
  BY DEF Typed, TypeOK, Editors
<1>2. editor.on \in Tracks /\ editor.slot \in Places
  BY <1>1 DEF Editors
<1>3. tap \in Slots
  BY <1>2 DEF Lookup, Typed, TypeOK, Strips, Slots
<1>4. settled \in BOOLEAN
  BY Zenon
<1>5. editor' = [editor EXCEPT !.opening = FALSE, !.tap = tap, !.settled = settled]
  BY Zenon DEF FindTap
<1> HIDE DEF tap, settled
<1>6. /\ editor' \in Editors /\ editor'.of = editor.of /\ editor'.on = editor.on
      /\ editor'.tap = tap /\ editor'.settled = settled
  BY <1>1, <1>3, <1>4, <1>5 DEF Editors
<1> QED
  BY <1>6, Zenon DEF tap, settled

LEMMA WindowTyped ==
  ASSUME Typed, FindTap \/ EndEditor
  PROVE  Typed'
<1>1. editor' \in Editors
  BY FoundTyped, NoEditorTyped DEF EndEditor
<1> QED
  BY <1>1, WindowOnly DEF Typed, TypeOK, RacksFit, Editors

\* The racks a drag leaves.
LEMMA MovedRackIs ==
  ASSUME Typed, NEW from \in Tracks, NEW slot \in 0..(Len(rack[from]) - 1),
         NEW to \in Tracks, NEW place \in 0..Len(rack[to]),
         MoveDevice(from, slot, to, place)
  PROVE  /\ rack' \in [Tracks -> Seq(Slots)] /\ RacksFit' /\ place \in Nat
         /\ Without(rack[from], slot) \in Seq(Slots)
         /\ from = to =>
              /\ rack'[to] = With(Without(rack[from], slot), place, At(rack[from], slot))
              /\ Len(rack'[to]) - 1 = Len(Without(rack[from], slot))
         /\ from # to => /\ rack'[from] = Without(rack[from], slot)
                         /\ rack'[to] = With(rack[to], place, At(rack[from], slot))
                         /\ Len(rack'[to]) - 1 = Len(rack[to])
         /\ \A t \in Tracks : t # from /\ t # to => rack'[t] = rack[t]
<1> DEFINE left == Without(rack[from], slot)
           x    == At(rack[from], slot)
<1>1. /\ rack \in [Tracks -> Seq(Slots)] /\ rack[to] \in Seq(Slots) /\ Len(rack[to]) \in Nat
      /\ Len(rack[from]) \in Nat /\ \A t \in Tracks : Len(rack[t]) <= MaxSlots
      /\ x \in Slots /\ x = rack[from][slot + 1]
  <2>1. Len(rack[to]) \in Nat /\ Len(rack[from]) \in Nat
    BY LenProperties DEF Typed, TypeOK
  <2>2. x \in Slots /\ x = rack[from][slot + 1]
    BY SlotIs
  <2> QED
    BY <2>1, <2>2 DEF Typed, TypeOK, RacksFit
<1>2. place \in Nat /\ place <= Len(rack[to])
  BY <1>1
<1>3. rack' = Relocated(rack, from, slot, to, place)
  BY DEF MoveDevice, MovedRack, Relocated
<1> DEFINE after == Relocated(rack, from, slot, to, place)
<1>9. /\ after \in [Tracks -> Seq(Slots)]
      /\ left \in Seq(Slots) /\ Len(left) = Len(rack[from]) - 1
      /\ from = to => after[to] = With(left, place, rack[from][slot + 1])
      /\ from # to => after[from] = left /\ after[to] = With(rack[to], place, rack[from][slot + 1])
      /\ \A t \in Tracks : t # from /\ t # to => after[t] = rack[t]
  <2>1. rack \in [Tracks -> Seq(Slots)] /\ place \in Nat
    BY <1>1, <1>2
  <2>2. slot \in 0..(Len(rack[from]) - 1)
    OBVIOUS
  <2>3. Relocates(Relocated(rack, from, slot, to, place), Tracks, Slots,
                  rack, from, slot, to, place)
    BY <2>1, <2>2, RelocatedIs, Zenon
  <2> QED
    BY <2>3, Zenon DEF Relocates
<1> HIDE DEF left, x, after
<1>4. /\ rack' \in [Tracks -> Seq(Slots)]
      /\ left \in Seq(Slots) /\ Len(left) = Len(rack[from]) - 1
      /\ from = to => rack'[to] = With(left, place, x)
      /\ from # to => rack'[from] = left /\ rack'[to] = With(rack[to], place, x)
      /\ \A t \in Tracks : t # from /\ t # to => rack'[t] = rack[t]
  BY <1>1, <1>3, <1>9 DEF after
<1>10. /\ Len(With(left, place, x)) = Len(left) + 1
       /\ Len(With(rack[to], place, x)) = Len(rack[to]) + 1
  <2>1. left \in Seq(Slots) /\ rack[to] \in Seq(Slots) /\ x \in Slots /\ place \in Nat
    BY <1>1, <1>2, <1>4
  <2>2. Len(With(left, place, x)) = Len(left) + 1
    BY <2>1, WithIs
  <2> DEFINE there == rack[to]
  <2>4. there \in Seq(Slots)
    BY <2>1
  <2> HIDE DEF there
  <2>5. Len(With(there, place, x)) = Len(there) + 1
    BY <2>1, <2>4, WithIs
  <2>3. Len(With(rack[to], place, x)) = Len(rack[to]) + 1
    BY <2>5 DEF there
  <2> QED
    BY <2>2, <2>3
<1>5. from = to => Len(rack'[to]) = Len(left) + 1
  BY <1>4, <1>10
<1>6. from # to => Len(rack'[to]) = Len(rack[to]) + 1
  BY <1>4, <1>10
<1>7. Len(left) \in Nat
  BY <1>4, LenProperties
<1>8. ASSUME NEW t \in Tracks PROVE Len(rack'[t]) <= MaxSlots
  <2>0. MaxSlots \in Nat /\ (from # to => Len(rack[to]) < MaxSlots) /\ Len(rack[from]) <= MaxSlots
    BY <1>1, Bounds DEF MoveDevice
  <2>1. CASE t # from /\ t # to
    BY <1>1, <1>4, <2>1
  <2>2. CASE t = to
    BY <1>1, <1>4, <1>5, <1>6, <1>7, <2>0, <2>2
  <2>3. CASE t = from /\ from # to
    <3>1. rack'[t] = left
      BY <1>4, <2>3
    <3> QED
      BY <1>1, <1>4, <1>7, <2>0, <3>1
  <2> QED
    BY <2>1, <2>2, <2>3
<1> QED
  BY <1>2, <1>4, <1>5, <1>6, <1>7, <1>1, <1>8 DEF RacksFit, left, x

LEMMA MoveTyped ==
  ASSUME Typed, NEW from \in Tracks, NEW slot \in 0..(Len(rack[from]) - 1),
         NEW to \in Tracks, NEW place \in 0..Len(rack[to]),
         MoveDevice(from, slot, to, place)
  PROVE  Typed'
<1> DEFINE x == At(rack[from], slot)
           inserted == Lower(place, Len(rack'[to]) - 1)
           c == [op |-> "move", from |-> from, slot |-> slot, to |-> to, place |-> inserted]
<1>1. rack' \in [Tracks -> Seq(Slots)] /\ RacksFit'
  BY MovedRackIs
<1>2. inserted \in Nat
  <2>1. place \in Nat /\ Len(rack'[to]) - 1 \in Nat
    <3> DEFINE left == Without(rack[from], slot)
    <3>1. /\ left \in Seq(Slots) /\ place \in Nat
          /\ Len(rack'[to]) - 1 = IF from = to THEN Len(left) ELSE Len(rack[to])
      BY MovedRackIs
    <3>2. Len(rack[to]) \in Nat
      BY LenProperties DEF Typed, TypeOK
    <3> HIDE DEF left
    <3>3. Len(left) \in Nat
      BY <3>1, LenProperties
    <3> QED
      BY <3>1, <3>2, <3>3
  <2> QED
    BY <2>1, LowerIs
<1>3. ASSUME Master \notin {from, to} PROVE c \in Command
  <2>1. slot \in Nat /\ from \in Strips /\ to \in Strips
    BY <1>3, SlotIs DEF Strips
  <2> HIDE DEF inserted
  <2> QED
    BY <1>2, <2>1 DEF Command, MoveCommand
<1>4. commands' = IF x # Native /\ Master \notin {from, to} THEN Append(commands, c) ELSE commands
  BY DEF MoveDevice
<1>5. gestures' \in 0..MaxGestures /\ parted' \in BOOLEAN
  <2> DEFINE parting == x # Native /\ from # to /\ Master \in {from, to}
  <2>1. parting \in BOOLEAN /\ Gesture(parting)
    BY DEF MoveDevice
  <2> HIDE DEF parting
  <2> QED
    BY <2>1, GestureTyped
<1> HIDE DEF c, x
<1>6. commands' \in Seq(Command)
  <2>1. CASE x # Native /\ Master \notin {from, to}
    BY <1>3, <1>4, <2>1, SentTyped
  <2>2. CASE ~(x # Native /\ Master \notin {from, to})
    BY <1>4, <2>2 DEF Typed, TypeOK, Command
  <2> QED
    BY <2>1, <2>2
<1> QED
  BY <1>1, <1>5, <1>6 DEF Typed, TypeOK, MoveDevice, engineVars, Command

LEMMA RegisteredTyped ==
  ASSUME NEW taps \in [Places -> Slots], NEW nodes \in Seq(Plugins)
  PROVE  Registered(taps, nodes) \in [Places -> Slots]
<1>1. ASSUME NEW p \in Places, p < Len(nodes) PROVE At(nodes, p) \in Slots
  <2>1. Len(nodes) \in Nat
    BY LenProperties
  <2>2. p + 1 \in 1..Len(nodes)
    BY <1>1, <2>1, Bounds DEF Places
  <2>3. nodes[p + 1] \in Plugins
    BY <2>2, ElementOfSeq
  <2> QED
    BY <2>3 DEF At, Slots
<1> QED
  BY <1>1 DEF Registered

\* A chain whose node is replaced at a place that exists, or behind the last.
LEMMA FreedTyped ==
  ASSUME NEW nodes \in Seq(Plugins), NEW slot \in Nat
  PROVE  (IF slot < Len(nodes) THEN Without(nodes, slot) ELSE nodes) \in Seq(Plugins)
<1>1. Len(nodes) \in Nat
  BY LenProperties
<1>2. CASE slot < Len(nodes)
  <2>1. slot \in 0..(Len(nodes) - 1)
    BY <1>1, <1>2
  <2>2. Without(nodes, slot) \in Seq(Plugins)
    BY <2>1, WithoutIs
  <2> QED
    BY <1>2, <2>2
<1> QED
  BY <1>2

LEMMA LoadTyped ==
  ASSUME Typed, NEW c \in LoadCommand, NEW loaded \in BOOLEAN, LoadExternalPlugin(c, loaded)
  PROVE  /\ chain' \in [Strips -> Seq(Plugins)]
         /\ registry' \in [Strips -> [Places -> Slots]] /\ parted' \in BOOLEAN
<1>1. c.track \in Strips /\ c.slot \in Nat /\ c.plugin \in Plugins /\ c.plugin \in Slots
  BY DEF LoadCommand, Slots
<1>2. chain \in [Strips -> Seq(Plugins)] /\ registry \in [Strips -> [Places -> Slots]]
  BY DEF Typed, TypeOK
<1> DEFINE taps == Unregistered(registry[c.track], c.slot)
           freed == IF c.slot < Len(chain[c.track])
                      THEN Without(chain[c.track], c.slot) ELSE chain[c.track]
           put == With(freed, c.slot, c.plugin)
<1>3. taps \in [Places -> Slots]
  BY <1>1, <1>2 DEF Unregistered, Slots
<1>4. freed \in Seq(Plugins)
  BY <1>1, <1>2, FreedTyped
<1> HIDE DEF taps, freed
<1>5. put \in Seq(Plugins)
  BY <1>1, <1>4, WithIs
<1> HIDE DEF put
<1>6. CASE loaded
  <2>1. /\ chain' = [chain EXCEPT ![c.track] = put]
        /\ registry' = [registry EXCEPT ![c.track] = [taps EXCEPT ![c.slot] = c.plugin]]
        /\ parted' = parted
    BY <1>6 DEF LoadExternalPlugin, taps, freed, put
  <2>2. [taps EXCEPT ![c.slot] = c.plugin] \in [Places -> Slots]
    BY <1>1, <1>3
  <2> QED
    BY <1>1, <1>2, <1>5, <2>1, <2>2 DEF Typed, TypeOK
<1>7. CASE ~loaded
  <2>1. /\ chain' = [chain EXCEPT ![c.track] = freed]
        /\ registry' = [registry EXCEPT ![c.track] = taps]
    BY <1>7 DEF LoadExternalPlugin, taps, freed
  <2>2. parted' \in BOOLEAN
    BY <1>7, Zenon DEF LoadExternalPlugin
  <2> QED
    BY <1>1, <1>2, <1>3, <1>4, <2>1, <2>2
<1> QED
  BY <1>6, <1>7

LEMMA MoveCommandTyped ==
  ASSUME Typed, NEW c \in MoveCommand, MoveExternalPlugin(c)
  PROVE  /\ chain' \in [Strips -> Seq(Plugins)]
         /\ registry' \in [Strips -> [Places -> Slots]]
<1>1. c.from \in Strips /\ c.to \in Strips /\ c.slot \in Nat /\ c.place \in Nat
  BY DEF MoveCommand
<1>2. chain \in [Strips -> Seq(Plugins)] /\ registry \in [Strips -> [Places -> Slots]]
  BY DEF Typed, TypeOK
<1>3. CASE c.slot >= Len(chain[c.from])
  BY <1>2, <1>3 DEF MoveExternalPlugin
<1>4. CASE ~(c.slot >= Len(chain[c.from]))
  <2> DEFINE node  == At(chain[c.from], c.slot)
             rest  == Without(chain[c.from], c.slot)
             taken == [chain EXCEPT ![c.from] = rest]
             freed == Unregistered(Unregistered(registry[c.from], c.slot), Len(rest))
             taps  == [registry EXCEPT ![c.from] = Registered(freed, rest)]
             dest  == With(taken[c.to], c.place, node)
  <2>1. Len(chain[c.from]) \in Nat /\ c.slot \in 0..(Len(chain[c.from]) - 1)
    <3>1. Len(chain[c.from]) \in Nat
      BY <1>1, <1>2, LenProperties
    <3> QED
      BY <1>1, <1>4, <3>1
  <2>2. node \in Plugins
    <3>1. c.slot + 1 \in 1..Len(chain[c.from]) /\ chain[c.from] \in Seq(Plugins)
      BY <1>1, <1>2, <2>1
    <3> QED
      BY <3>1, ElementOfSeq DEF At
  <2>3. rest \in Seq(Plugins)
    BY <1>1, <1>2, <2>1, WithoutIs
  <2>4. /\ chain' = [taken EXCEPT ![c.to] = dest]
        /\ registry' = [taps EXCEPT ![c.to] = Registered(taps[c.to], dest)]
    BY <1>4 DEF MoveExternalPlugin
  <2>5. freed \in [Places -> Slots]
    BY <1>1, <1>2 DEF Unregistered, Slots
  <2> HIDE DEF node, rest, freed
  <2>6. taken \in [Strips -> Seq(Plugins)]
    BY <1>2, <2>3
  <2>7. Registered(freed, rest) \in [Places -> Slots]
    BY <2>3, <2>5, RegisteredTyped
  <2>8. taps \in [Strips -> [Places -> Slots]]
    BY <1>2, <2>7
  <2> HIDE DEF taken, taps
  <2>9. dest \in Seq(Plugins)
    <3>1. taken[c.to] \in Seq(Plugins)
      BY <1>1, <2>6
    <3> QED
      BY <1>1, <2>2, <3>1, WithIs
  <2> HIDE DEF dest
  <2>10. Registered(taps[c.to], dest) \in [Places -> Slots]
    BY <1>1, <2>8, <2>9, RegisteredTyped
  <2> QED
    BY <1>1, <2>4, <2>6, <2>8, <2>9, <2>10
<1> QED
  BY <1>3, <1>4

LEMMA ExecuteTyped ==
  ASSUME Typed, Execute
  PROVE  Typed'
<1> DEFINE c == Head(commands)
<1>1. c \in Command /\ Tail(commands) \in Seq(Command)
  BY HeadTailProperties DEF Typed, TypeOK, Execute, Command
<1>2. /\ commands' = Tail(commands) /\ UNCHANGED <<rack, editor, loads, gestures>>
      /\ \/ c.op = "load" /\ \E loaded \in BOOLEAN : LoadExternalPlugin(c, loaded)
         \/ c.op = "move" /\ MoveExternalPlugin(c) /\ UNCHANGED parted
         \/ c.op = "sync" /\ SyncExternalPluginParams(c) /\ UNCHANGED parted
  BY DEF Execute
<1> HIDE DEF c
<1>3. /\ chain' \in [Strips -> Seq(Plugins)]
      /\ registry' \in [Strips -> [Places -> Slots]] /\ parted' \in BOOLEAN
  <2>1. CASE c.op = "load" /\ \E loaded \in BOOLEAN : LoadExternalPlugin(c, loaded)
    <3>1. c \in LoadCommand
      BY <1>1, <2>1 DEF Command, LoadCommand, MoveCommand, SyncCommand
    <3> QED
      BY <2>1, <3>1, LoadTyped
  <2>2. CASE c.op = "move" /\ MoveExternalPlugin(c) /\ UNCHANGED parted
    <3>1. c \in MoveCommand
      BY <1>1, <2>2 DEF Command, LoadCommand, MoveCommand, SyncCommand
    <3> QED
      BY <2>2, <3>1, MoveCommandTyped DEF Typed, TypeOK
  <2>3. CASE c.op = "sync" /\ SyncExternalPluginParams(c) /\ UNCHANGED parted
    BY <2>3 DEF SyncExternalPluginParams, Typed, TypeOK
  <2> QED
    BY <1>2, <2>1, <2>2, <2>3
<1> QED
  BY <1>1, <1>2, <1>3 DEF Typed, TypeOK, RacksFit, Command

LEMMA TypedStep ==
  ASSUME Typed, [Next]_vars
  PROVE  Typed'
<1>1. ASSUME NEW t \in Tracks, AddSlot(t) PROVE Typed'
  BY <1>1, AddTyped
<1>2. ASSUME NEW t \in Tracks, NEW slot \in 0..(Len(rack[t]) - 1),
             \/ AssignExternalPlugin(t, slot) \/ RemoveSlot(t, slot)
             \/ FlushPendingExternalParams(t, slot) \/ OpenExternalEditor(t, slot)
      PROVE  Typed'
  BY <1>2, AssignTyped, RemoveTyped, FlushTyped, OpenTyped
<1>3. ASSUME NEW t \in Tracks, NEW slot \in 0..(Len(rack[t]) - 1), NEW to \in Tracks,
             NEW place \in 0..Len(rack[to]), MoveDevice(t, slot, to, place)
      PROVE  Typed'
  BY <1>3, MoveTyped
<1>4. ASSUME Execute PROVE Typed'
  BY <1>4, ExecuteTyped
<1>5. ASSUME UNCHANGED vars PROVE Typed'
  BY <1>5 DEF vars, Typed, TypeOK, RacksFit
<1>6. ASSUME FindTap \/ EndEditor PROVE Typed'
  BY <1>6, WindowTyped
<1> QED
  BY <1>1, <1>2, <1>3, <1>4, <1>5, <1>6 DEF Next, User

\* Every variable has its type: no gesture and no command leaves a position,
\* a plugin or a tap that is none (lib.rs load_external_plugin,
\* move_external_plugin, whatever the rack has become meanwhile).
THEOREM TypeCorrect == Spec => []TypeOK
<1>1. Init => Typed
  BY TypedInit
<1>2. Typed /\ [Next]_vars => Typed'
  BY TypedStep
<1>3. Typed => TypeOK
  BY DEF Typed
<1> QED
  BY <1>1, <1>2, <1>3, PTL DEF Spec

----------------------------------------------------------------------------
(* The invariant.  ChainFollowsRack alone says nothing while a command is  *)
(* on its way, and it is then that gestures shift the positions the        *)
(* commands name.  Planned says at all times where the commands lead.      *)

Planned ==
  ~parted => \E end \in Chains : /\ Reaches(chain, commands, end)
                                 /\ \A s \in Strips : Follows(end[s], rack[s])

LEMMA PlannedInit == Init => Planned
<1> SUFFICES ASSUME Init PROVE Planned
  OBVIOUS
<1>1. chain \in Chains
  <2>1. <<>> \in Seq(Plugins) /\ Len(<<>>) = 0
    BY EmptySeq
  <2> QED
    BY <2>1, Bounds DEF Init, Chains
<1>2. Reaches(chain, commands, chain)
  BY <1>1, ReachesNothing DEF Init
<1>3. ASSUME NEW s \in Strips PROVE Follows(chain[s], rack[s])
  <2>1. chain[s] = <<>> /\ rack[s] = <<>> /\ s \in Tracks
    BY DEF Init, Strips
  <2>2. <<>> \in Seq(Plugins) /\ <<>> \in Seq(Slots) /\ Len(<<>>) = 0
    BY EmptySeq
  <2>3. Follows(<<>>, <<>>)
    BY <2>2 DEF Follows
  <2> QED
    BY <2>1, <2>3
<1> QED
  BY <1>1, <1>2, <1>3 DEF Planned

\* A gesture keeps the plan if what it sends leads from where the plan ended
\* to where the racks are now.
LEMMA Replanned ==
  ASSUME Typed, Typed', chain' = chain,
         NEW end \in Chains, Reaches(chain, commands, end),
         NEW now \in [Strips -> Seq(Plugins)], \A s \in Strips : Follows(now[s], rack'[s]),
         \/ commands' = commands /\ now = end
         \/ \E c \in Command : commands' = Append(commands, c) /\ Leads(end, c, now)
  PROVE  Planned'
<1>1. now \in Chains
  <2>1. ASSUME NEW s \in Strips PROVE Len(now[s]) <= MaxSlots
    <3>1. s \in Tracks /\ rack'[s] \in Seq(Slots) /\ Len(rack'[s]) <= MaxSlots
      BY DEF Strips, Typed, TypeOK, RacksFit
    <3>2. now[s] \in Seq(Plugins) /\ Follows(now[s], rack'[s])
      OBVIOUS
    <3>3. /\ Len(now[s]) \in Nat /\ Len(rack'[s]) \in Nat /\ Len(now[s]) <= Len(rack'[s])
      BY <3>1, <3>2, LenProperties DEF Follows
    <3> QED
      BY <3>1, <3>3, Bounds
  <2> QED
    BY <2>1 DEF Chains
<1>2. chain \in Chains
  <2>1. PICK h \in [0..Len(commands) -> Chains] : h[0] = chain
    BY DEF Reaches
  <2>2. Len(commands) \in Nat
    BY LenProperties DEF Typed, TypeOK
  <2> QED
    BY <2>1, <2>2
<1>3. Reaches(chain, commands', now)
  <2>1. CASE commands' = commands /\ now = end
    BY <2>1
  <2>2. CASE \E c \in Command : commands' = Append(commands, c) /\ Leads(end, c, now)
    <3>1. PICK c \in Command : commands' = Append(commands, c) /\ Leads(end, c, now)
      BY <2>2
    <3>2. commands \in Seq(Command)
      BY DEF Typed, TypeOK, Command
    <3>3. Reaches(chain, Append(commands, c), now)
      BY <1>1, <1>2, <3>1, <3>2, ReachesAppend
    <3> QED
      BY <3>1, <3>3
  <2> QED
    BY <2>1, <2>2
<1> QED
  BY <1>1, <1>3 DEF Planned

\* One rack and its chain, as a gesture finds them.
LEMMA PlanIs ==
  ASSUME Typed, NEW end \in Chains, NEW s \in Strips
  PROVE  /\ s \in Tracks /\ end \in [Strips -> Seq(Plugins)] /\ end[s] \in Seq(Plugins)
         /\ rack[s] \in Seq(Slots) /\ s # Master
BY DEF Strips, Chains, Typed, TypeOK

LEMMA AddPlanned ==
  ASSUME Typed, Typed', Planned, NEW t \in Tracks, AddSlot(t), ~parted'
  PROVE  Planned'
<1>1. ~parted /\ commands' = commands /\ chain' = chain
  BY GestureTyped DEF AddSlot, engineVars
<1>2. PICK end \in Chains : /\ Reaches(chain, commands, end)
                            /\ \A s \in Strips : Follows(end[s], rack[s])
  BY <1>1 DEF Planned
<1>3. ASSUME NEW s \in Strips PROVE Follows(end[s], rack'[s])
  <2>1. end[s] \in Seq(Plugins) /\ rack[s] \in Seq(Slots) /\ Follows(end[s], rack[s]) /\ s \in Tracks
    BY <1>2, PlanIs
  <2>2. Follows(end[s], Append(rack[s], Native))
    BY <2>1, AddFollows
  <2>3. rack'[s] = IF s = t THEN Append(rack[s], Native) ELSE rack[s]
    BY <2>1 DEF AddSlot, Typed, TypeOK
  <2> QED
    BY <2>1, <2>2, <2>3
<1>4. end \in [Strips -> Seq(Plugins)]
  BY DEF Chains
<1> QED
  BY <1>1, <1>2, <1>3, <1>4, Replanned

LEMMA AssignPlanned ==
  ASSUME Typed, Typed', Planned, NEW t \in Tracks, NEW slot \in 0..(Len(rack[t]) - 1),
         AssignExternalPlugin(t, slot), ~parted'
  PROVE  Planned'
<1>1. ~parted /\ chain' = chain /\ \A s \in Strips : Aligned(rack'[s])
  BY GestureTyped DEF AssignExternalPlugin, engineVars
<1>2. PICK end \in Chains : /\ Reaches(chain, commands, end)
                            /\ \A s \in Strips : Follows(end[s], rack[s])
  BY <1>1 DEF Planned
<1>3. end \in [Strips -> Seq(Plugins)]
  BY DEF Chains
<1>4. loads' \in Plugins
  BY Bounds DEF Typed, TypeOK, AssignExternalPlugin, Plugins
<1>5. /\ rack'[t] = [rack[t] EXCEPT ![slot + 1] = loads']
      /\ \A s \in Tracks : s # t => rack'[s] = rack[s]
  BY DEF AssignExternalPlugin, Typed, TypeOK
<1>6. CASE t = Master
  <2>1. commands' = commands
    BY <1>6 DEF AssignExternalPlugin
  <2>2. \A s \in Strips : Follows(end[s], rack'[s])
    BY <1>2, <1>5, <1>6 DEF Strips
  <2> QED
    BY <1>1, <1>2, <1>3, <2>1, <2>2, Replanned
<1>7. CASE t # Master
  <2> DEFINE c == [op |-> "load", track |-> t, slot |-> slot, plugin |-> loads']
             nodes == LoadedNodes(end[t], slot, loads')
             now == [end EXCEPT ![t] = nodes]
  <2>1. t \in Strips
    BY <1>7 DEF Strips
  <2>2. end[t] \in Seq(Plugins) /\ rack[t] \in Seq(Slots) /\ Follows(end[t], rack[t])
    BY <1>2, <2>1, PlanIs
  <2>3. Aligned([rack[t] EXCEPT ![slot + 1] = loads'])
    BY <1>1, <1>5, <2>1
  <2>4. /\ slot <= Len(end[t])
        /\ Follows(nodes, [rack[t] EXCEPT ![slot + 1] = loads'])
    BY <1>4, <2>2, <2>3, AssignFollows
  <2>5. slot \in Nat
    BY SlotIs
  <2>6. nodes \in Seq(Plugins)
    BY <1>4, <2>2, <2>4, <2>5, LoadedIs
  <2>7. c \in Command
    BY <1>4, <2>1, <2>5 DEF Command, LoadCommand
  <2>8. commands' = Append(commands, c)
    BY <1>7 DEF AssignExternalPlugin
  <2>9. Leads(end, c, now)
    BY <2>4 DEF Leads
  <2> HIDE DEF c, nodes
  <2>10. now \in [Strips -> Seq(Plugins)]
    BY <1>3, <2>6
  <2>11. ASSUME NEW s \in Strips PROVE Follows(now[s], rack'[s])
    <3>1. CASE s = t
      BY <1>3, <1>5, <2>1, <2>4, <3>1
    <3>2. CASE s # t
      BY <1>2, <1>3, <1>5, <3>2 DEF Strips
    <3> QED
      BY <3>1, <3>2
  <2> HIDE DEF now
  <2> QED
    BY <1>1, <1>2, <2>7, <2>8, <2>9, <2>10, <2>11, Replanned
<1> QED
  BY <1>6, <1>7

LEMMA RemovePlanned ==
  ASSUME Typed, Typed', Planned, NEW t \in Tracks, NEW slot \in 0..(Len(rack[t]) - 1),
         RemoveSlot(t, slot), ~parted'
  PROVE  Planned'
<1> DEFINE parting == t # Master /\ At(rack[t], slot) # Native
<1>1. parting \in BOOLEAN /\ Gesture(parting) /\ commands' = commands /\ chain' = chain
  BY DEF RemoveSlot, engineVars
<1>0. parting <=> t # Master /\ At(rack[t], slot) # Native
  OBVIOUS
<1> HIDE DEF parting
<1>2. ~parted /\ ~parting
  BY <1>1, GestureTyped
<1>3. PICK end \in Chains : /\ Reaches(chain, commands, end)
                            /\ \A s \in Strips : Follows(end[s], rack[s])
  BY <1>2 DEF Planned
<1>4. end \in [Strips -> Seq(Plugins)]
  BY DEF Chains
<1>5. ASSUME NEW s \in Strips PROVE Follows(end[s], rack'[s])
  <2>1. end[s] \in Seq(Plugins) /\ rack[s] \in Seq(Slots) /\ Follows(end[s], rack[s])
        /\ s \in Tracks /\ s # Master
    BY <1>3, PlanIs
  <2>2. CASE s = t
    <3>1. rack[s][slot + 1] = Native /\ slot \in 0..(Len(rack[s]) - 1)
      BY <1>0, <1>2, <2>1, <2>2 DEF At
    <3>2. Follows(end[s], Without(rack[s], slot))
      BY <2>1, <3>1, TakeFollows
    <3>3. rack'[s] = Without(rack[s], slot)
      BY <2>1, <2>2 DEF RemoveSlot, Typed, TypeOK
    <3> QED
      BY <3>2, <3>3
  <2>3. CASE s # t
    BY <2>1, <2>3 DEF RemoveSlot, Typed, TypeOK
  <2> QED
    BY <2>2, <2>3
<1> QED
  BY <1>1, <1>3, <1>4, <1>5, Replanned

LEMMA FlushPlanned ==
  ASSUME Typed, Typed', Planned, NEW t \in Tracks, NEW slot \in 0..(Len(rack[t]) - 1),
         FlushPendingExternalParams(t, slot), ~parted'
  PROVE  Planned'
<1>1. /\ ~parted /\ chain' = chain /\ rack' = rack /\ t # Master
      /\ At(rack[t], slot) # Native
  BY GestureTyped DEF FlushPendingExternalParams, engineVars
<1>2. PICK end \in Chains : /\ Reaches(chain, commands, end)
                            /\ \A s \in Strips : Follows(end[s], rack[s])
  BY <1>1 DEF Planned
<1> DEFINE c == [op |-> "sync", track |-> t, slot |-> slot, plugin |-> At(rack[t], slot)]
<1>3. t \in Strips
  BY <1>1 DEF Strips
<1>4. /\ end \in [Strips -> Seq(Plugins)] /\ end[t] \in Seq(Plugins) /\ rack[t] \in Seq(Slots)
      /\ Follows(end[t], rack[t])
  BY <1>2, <1>3, PlanIs
<1>5. c \in Command
  <2>1. slot \in Nat /\ At(rack[t], slot) \in Plugins
    BY <1>1, SlotIs
  <2> QED
    BY <1>3, <2>1 DEF Command, SyncCommand
<1>6. slot < Len(end[t]) /\ At(end[t], slot) = At(rack[t], slot)
  BY <1>1, <1>4, TakeFollows DEF At
<1>7. Leads(end, c, end)
  BY <1>6 DEF Leads
<1>8. commands' = Append(commands, c)
  BY DEF FlushPendingExternalParams
<1> HIDE DEF c
<1>9. \A s \in Strips : Follows(end[s], rack'[s])
  BY <1>1, <1>2
<1> QED
  BY <1>1, <1>2, <1>4, <1>5, <1>7, <1>8, <1>9, Replanned

LEMMA OpenPlanned ==
  ASSUME Typed, Typed', Planned, NEW t \in Tracks, NEW slot \in 0..(Len(rack[t]) - 1),
         OpenExternalEditor(t, slot), ~parted'
  PROVE  Planned'
<1>1. ~parted /\ chain' = chain /\ rack' = rack /\ commands' = commands
  BY GestureTyped DEF OpenExternalEditor, engineVars
<1> QED
  BY <1>1 DEF Planned

\* One strip of a drag of an empty slot.
LEMMA MoveNativePlanned ==
  ASSUME Typed, NEW from \in Tracks, NEW slot \in 0..(Len(rack[from]) - 1),
         NEW to \in Tracks, NEW place \in 0..Len(rack[to]),
         MoveDevice(from, slot, to, place), At(rack[from], slot) = Native,
         NEW s \in Strips, Aligned(rack'[s]),
         NEW nodes \in Seq(Plugins), Follows(nodes, rack[s])
  PROVE  Follows(nodes, rack'[s])
<1>1. s \in Tracks /\ rack[s] \in Seq(Slots) /\ place \in Nat /\ Native \in Slots
  BY MovedRackIs DEF Strips, Typed, TypeOK, Slots
<1>2. CASE s # from /\ s # to
  BY <1>1, <1>2, MovedRackIs
<1> DEFINE left == Without(rack[from], slot)
<1>3. CASE s = from
  <2>1. rack[from][slot + 1] = Native
    BY DEF At
  <2>2. slot \in 0..(Len(rack[s]) - 1) /\ rack[s][slot + 1] = Native
    BY <1>3, <2>1
  <2>3. Follows(nodes, Without(rack[s], slot))
    BY <1>1, <2>2, TakeFollows
  <2>4. left = Without(rack[s], slot) /\ left \in Seq(Slots)
    BY <1>3, MovedRackIs
  <2>5. CASE from # to
    <3>1. rack'[s] = Without(rack[s], slot)
      BY <1>3, <2>5, MovedRackIs
    <3> QED
      BY <2>3, <3>1
  <2>6. CASE from = to
    <3>1. rack'[s] = With(left, place, Native)
      BY <1>3, <2>6, MovedRackIs
    <3> HIDE DEF left
    <3>2. Aligned(With(left, place, Native)) /\ Follows(nodes, left)
      BY <2>3, <2>4, <3>1
    <3>3. Follows(nodes, With(left, place, Native))
      BY <1>1, <2>4, <3>2, PutFollows
    <3> QED
      BY <3>1, <3>3
  <2> QED
    BY <2>5, <2>6
<1>4. CASE s # from /\ s = to
  <2>1. rack'[s] = With(rack[s], place, Native)
    BY <1>4, MovedRackIs
  <2>2. Aligned(With(rack[s], place, Native))
    BY <2>1
  <2>3. Follows(nodes, With(rack[s], place, Native))
    BY <1>1, <2>2, PutFollows
  <2> QED
    BY <2>1, <2>3
<1> QED
  BY <1>2, <1>3, <1>4

\* A drag of a plugin between strips: where its node must go.
LEMMA MoveExternalPlanned ==
  ASSUME Typed, NEW from \in Strips, NEW slot \in 0..(Len(rack[from]) - 1),
         NEW to \in Strips, NEW place \in 0..Len(rack[to]),
         MoveDevice(from, slot, to, place), At(rack[from], slot) # Native,
         \A s \in Strips : Aligned(rack'[s]),
         NEW end \in [Strips -> Seq(Plugins)], \A s \in Strips : Follows(end[s], rack[s])
  PROVE  LET inserted == Lower(place, Len(rack'[to]) - 1)
         IN  /\ slot < Len(end[from]) /\ inserted \in Nat
             /\ Relocated(end, from, slot, to, inserted) \in [Strips -> Seq(Plugins)]
             /\ \A s \in Strips : Follows(Relocated(end, from, slot, to, inserted)[s], rack'[s])
<1> DEFINE left == Without(rack[from], slot)
           rest == Without(end[from], slot)
           x == At(rack[from], slot)
           there == IF from = to THEN left ELSE rack[to]
           nodes == IF from = to THEN rest ELSE end[to]
           inserted == Lower(place, Len(rack'[to]) - 1)
           now == Relocated(end, from, slot, to, inserted)
<1>1. /\ from \in Tracks /\ to \in Tracks
      /\ rack[from] \in Seq(Slots) /\ rack[to] \in Seq(Slots)
      /\ end[from] \in Seq(Plugins) /\ end[to] \in Seq(Plugins)
  BY DEF Strips, Typed, TypeOK
<1>2. /\ place \in Nat /\ left \in Seq(Slots)
      /\ from = to => rack'[to] = With(left, place, x) /\ Len(rack'[to]) - 1 = Len(left)
      /\ from # to => /\ rack'[from] = left /\ rack'[to] = With(rack[to], place, x)
                      /\ Len(rack'[to]) - 1 = Len(rack[to])
      /\ \A t \in Tracks : t # from /\ t # to => rack'[t] = rack[t]
  BY <1>1, MovedRackIs
<1>3. /\ slot < Len(end[from]) /\ x = end[from][slot + 1]
      /\ Follows(rest, left)
  BY <1>1, TakeFollows DEF At
<1>4. Len(end[from]) \in Nat /\ slot \in 0..(Len(end[from]) - 1)
  <2>1. Len(end[from]) \in Nat
    BY <1>1, LenProperties
  <2> QED
    BY <1>3, <2>1
<1>5. rest \in Seq(Plugins)
  BY <1>1, <1>4, WithoutIs
<1>6. x \in Slots /\ x # Native
  BY <1>1, SlotIs
<1> HIDE DEF left, rest, x
<1>7. /\ there \in Seq(Slots) /\ nodes \in Seq(Plugins) /\ Follows(nodes, there)
      /\ rack'[to] = With(there, place, x) /\ Len(rack'[to]) - 1 = Len(there)
  BY <1>1, <1>2, <1>3, <1>5
<1>8. inserted = Lower(place, Len(there)) /\ inserted \in Nat
  <2>1. Len(there) \in Nat
    BY <1>7, LenProperties
  <2>2. Lower(place, Len(there)) \in Nat
    BY <1>2, <2>1, LowerIs
  <2> QED
    BY <1>7, <2>2
<1>9. Relocates(now, Strips, Plugins, end, from, slot, to, inserted)
  <2>1. end \in [Strips -> Seq(Plugins)] /\ inserted \in Nat
    BY <1>8
  <2> QED
    BY <1>4, <2>1, RelocatedIs, Zenon
<1>10. Follows(With(nodes, Lower(place, Len(there)), x), With(there, place, x))
  <2>1. Aligned(With(there, place, x))
    BY <1>7
  <2> HIDE DEF nodes, there
  <2> QED
    BY <1>2, <1>6, <1>7, <2>1, PutFollows
<1>11. now[to] = With(nodes, Lower(place, Len(there)), x)
  <2> HIDE DEF there, inserted, now
  <2>1. CASE from = to
    BY <1>3, <1>8, <1>9, <2>1 DEF Relocates, rest
  <2>2. CASE from # to
    BY <1>3, <1>8, <1>9, <2>2 DEF Relocates
  <2> QED
    BY <2>1, <2>2
<1> HIDE DEF there, nodes
<1>12. ASSUME NEW s \in Strips PROVE Follows(now[s], rack'[s])
  <2> HIDE DEF now
  <2>1. CASE s = to
    BY <1>7, <1>10, <1>11, <2>1
  <2>2. CASE s # to /\ s = from
    <3>1. now[s] = rest
      BY <1>9, <2>2 DEF Relocates, rest
    <3>2. rack'[s] = left
      BY <1>2, <2>2
    <3> QED
      BY <1>3, <3>1, <3>2
  <2>3. CASE s # to /\ s # from
    <3>1. now[s] = end[s]
      BY <1>9, <2>3 DEF Relocates
    <3>2. rack'[s] = rack[s]
      BY <1>2, <2>3 DEF Strips
    <3> QED
      BY <3>1, <3>2
  <2> QED
    BY <2>1, <2>2, <2>3
<1>13. now \in [Strips -> Seq(Plugins)]
  BY <1>9, Zenon DEF Relocates
<1> HIDE DEF now
<1> QED
  BY <1>3, <1>8, <1>12, <1>13 DEF now

LEMMA MovePlanned ==
  ASSUME Typed, Typed', Planned,
         NEW from \in Tracks, NEW slot \in 0..(Len(rack[from]) - 1),
         NEW to \in Tracks, NEW place \in 0..Len(rack[to]),
         MoveDevice(from, slot, to, place), ~parted'
  PROVE  Planned'
<1> DEFINE external == At(rack[from], slot) # Native
           inserted == Lower(place, Len(rack'[to]) - 1)
           c == [op |-> "move", from |-> from, slot |-> slot, to |-> to, place |-> inserted]
           parting == external /\ from # to /\ Master \in {from, to}
<1>1. /\ parting \in BOOLEAN /\ Gesture(parting) /\ chain' = chain
      /\ commands' = IF external /\ Master \notin {from, to}
                       THEN Append(commands, c) ELSE commands
  BY DEF MoveDevice, engineVars
<1>2. ~parted /\ ~parting /\ \A s \in Strips : Aligned(rack'[s])
  <2> HIDE DEF parting
  <2> QED
    BY <1>1, GestureTyped
<1>3. PICK end \in Chains : /\ Reaches(chain, commands, end)
                            /\ \A s \in Strips : Follows(end[s], rack[s])
  BY <1>2 DEF Planned
<1>4. end \in [Strips -> Seq(Plugins)]
  BY DEF Chains
<1>5. CASE ~external
  <2>1. commands' = commands
    BY <1>1, <1>5
  <2>2. ASSUME NEW s \in Strips PROVE Follows(end[s], rack'[s])
    <3>1. end[s] \in Seq(Plugins) /\ Follows(end[s], rack[s]) /\ Aligned(rack'[s])
      BY <1>2, <1>3, <1>4
    <3> QED
      BY <1>5, <3>1, MoveNativePlanned
  <2> QED
    BY <1>1, <1>3, <1>4, <2>1, <2>2, Replanned
<1>6. CASE external /\ Master \in {from, to}
  <2>1. from = Master /\ to = Master
    BY <1>2, <1>6
  <2>2. commands' = commands
    BY <1>1, <1>6
  <2>3. ASSUME NEW s \in Strips PROVE Follows(end[s], rack'[s])
    <3>1. s \in Tracks /\ s # from /\ s # to
      BY <2>1 DEF Strips
    <3>2. rack'[s] = rack[s]
      BY <3>1, MovedRackIs
    <3> QED
      BY <1>3, <3>2
  <2> QED
    BY <1>1, <1>3, <1>4, <2>2, <2>3, Replanned
<1>7. CASE external /\ Master \notin {from, to}
  <2> DEFINE now == Relocated(end, from, slot, to, inserted)
  <2>1. from \in Strips /\ to \in Strips
    BY <1>7 DEF Strips
  <2>2. /\ slot < Len(end[from]) /\ inserted \in Nat
        /\ now \in [Strips -> Seq(Plugins)]
        /\ \A s \in Strips : Follows(now[s], rack'[s])
    BY <1>2, <1>3, <1>4, <1>7, <2>1, MoveExternalPlanned
  <2> HIDE DEF inserted
  <2>3. c \in Command
    <3>1. slot \in Nat
      BY SlotIs
    <3> QED
      BY <2>1, <2>2, <3>1 DEF Command, MoveCommand
  <2>4. commands' = Append(commands, c)
    BY <1>1, <1>7
  <2>5. Leads(end, c, now)
    BY <2>2 DEF Leads
  <2> HIDE DEF c, now
  <2> QED
    BY <1>1, <1>3, <2>2, <2>3, <2>4, <2>5, Replanned
<1>8. ~external \/ (external /\ Master \in {from, to}) \/ (external /\ Master \notin {from, to})
  OBVIOUS
<1> QED
  BY <1>5, <1>6, <1>7, <1>8, Zenon

----------------------------------------------------------------------------
(* The command thread: the next command is the plan's first step.          *)

LEMMA PlanTail ==
  ASSUME Typed, Planned, ~parted, commands # <<>>
  PROVE  /\ chain \in Chains
         /\ \E mid \in Chains, end \in Chains :
              /\ Leads(chain, Head(commands), mid)
              /\ Reaches(mid, Tail(commands), end)
              /\ \A s \in Strips : Follows(end[s], rack[s])
<1>1. PICK end \in Chains : /\ Reaches(chain, commands, end)
                            /\ \A s \in Strips : Follows(end[s], rack[s])
  BY DEF Planned
<1>2. commands \in Seq(Command) /\ Len(commands) \in Nat
  BY LenProperties DEF Typed, TypeOK, Command
<1>3. chain \in Chains
  <2>1. PICK h \in [0..Len(commands) -> Chains] : h[0] = chain
    BY <1>1 DEF Reaches
  <2> QED
    BY <1>2, <2>1
<1>4. \E mid \in Chains : Leads(chain, Head(commands), mid) /\ Reaches(mid, Tail(commands), end)
  BY <1>1, <1>2, <1>3, ReachesTail
<1> QED
  BY <1>1, <1>3, <1>4

\* What a command that leads somewhere does to the chains.
LEMMA LoadLeads ==
  ASSUME NEW c \in LoadCommand, NEW mid, Leads(chain, c, mid), NEW loaded \in BOOLEAN,
         LoadExternalPlugin(c, loaded), ~parted'
  PROVE  /\ ~parted /\ c.slot <= Len(chain[c.track]) /\ chain' = mid
         /\ mid = [chain EXCEPT ![c.track] = LoadedNodes(chain[c.track], c.slot, c.plugin)]
         /\ registry' = [registry EXCEPT ![c.track] =
              [Unregistered(registry[c.track], c.slot) EXCEPT ![c.slot] = c.plugin]]
<1>1. c.op = "load"
  BY DEF LoadCommand
<1>2. loaded
  BY Zenon DEF LoadExternalPlugin
<1>3. /\ c.slot <= Len(chain[c.track])
      /\ mid = [chain EXCEPT ![c.track] = LoadedNodes(chain[c.track], c.slot, c.plugin)]
  BY <1>1 DEF Leads
<1>4. /\ chain' = [chain EXCEPT ![c.track] = LoadedNodes(chain[c.track], c.slot, c.plugin)]
      /\ registry' = [registry EXCEPT ![c.track] =
           [Unregistered(registry[c.track], c.slot) EXCEPT ![c.slot] = c.plugin]]
      /\ parted' = parted
  BY <1>2 DEF LoadExternalPlugin, LoadedNodes
<1> QED
  BY <1>3, <1>4

LEMMA MoveLeads ==
  ASSUME NEW c \in MoveCommand, chain \in Chains, NEW mid, Leads(chain, c, mid),
         MoveExternalPlugin(c)
  PROVE  /\ c.slot \in 0..(Len(chain[c.from]) - 1) /\ chain' = mid
         /\ mid = Relocated(chain, c.from, c.slot, c.to, c.place)
         /\ registry' =
              LET rest  == Without(chain[c.from], c.slot)
                  freed == Unregistered(Unregistered(registry[c.from], c.slot), Len(rest))
                  taps  == [registry EXCEPT ![c.from] = Registered(freed, rest)]
              IN  [taps EXCEPT ![c.to] = Registered(taps[c.to], mid[c.to])]
<1>1. c.op = "move" /\ c.slot \in Nat /\ c.from \in Strips /\ c.to \in Strips
  BY DEF MoveCommand
<1>2. c.slot < Len(chain[c.from]) /\ mid = Relocated(chain, c.from, c.slot, c.to, c.place)
  BY <1>1 DEF Leads
<1>3. chain \in [Strips -> Seq(Plugins)] /\ Len(chain[c.from]) \in Nat
  BY <1>1, LenProperties DEF Chains
<1>4. c.slot \in 0..(Len(chain[c.from]) - 1) /\ ~(c.slot >= Len(chain[c.from]))
  BY <1>1, <1>2, <1>3
<1> DEFINE node  == At(chain[c.from], c.slot)
           rest  == Without(chain[c.from], c.slot)
           taken == [chain EXCEPT ![c.from] = rest]
           freed == Unregistered(Unregistered(registry[c.from], c.slot), Len(rest))
           taps  == [registry EXCEPT ![c.from] = Registered(freed, rest)]
           dest  == With(taken[c.to], c.place, node)
<1>5. /\ chain' = [taken EXCEPT ![c.to] = dest]
      /\ registry' = [taps EXCEPT ![c.to] = Registered(taps[c.to], dest)]
  BY <1>4 DEF MoveExternalPlugin
<1>6. mid = [taken EXCEPT ![c.to] = dest]
  BY <1>2 DEF Relocated
<1>7. mid[c.to] = dest
  BY <1>1, <1>3, <1>6
<1> QED
  BY <1>2, <1>4, <1>5, <1>6, <1>7

LEMMA ExecutePlanned ==
  ASSUME Typed, Planned, Execute, ~parted'
  PROVE  Planned'
<1> DEFINE c == Head(commands)
<1>1. c \in Command
  BY HeadTailProperties DEF Typed, TypeOK, Execute, Command
<1>2. /\ commands # <<>> /\ commands' = Tail(commands) /\ rack' = rack
      /\ \/ c.op = "load" /\ \E loaded \in BOOLEAN : LoadExternalPlugin(c, loaded)
         \/ c.op = "move" /\ MoveExternalPlugin(c) /\ UNCHANGED parted
         \/ c.op = "sync" /\ SyncExternalPluginParams(c) /\ UNCHANGED parted
  BY DEF Execute
<1>3. ~parted
  <2>1. ASSUME \E loaded \in BOOLEAN : LoadExternalPlugin(c, loaded) PROVE ~parted
    BY <2>1, Zenon DEF LoadExternalPlugin
  <2> QED
    BY <1>2, <2>1, Zenon
<1>4. chain \in Chains
  BY <1>2, <1>3, PlanTail
<1>5. PICK mid \in Chains, end \in Chains :
        /\ Leads(chain, c, mid) /\ Reaches(mid, Tail(commands), end)
        /\ \A s \in Strips : Follows(end[s], rack[s])
  BY <1>2, <1>3, PlanTail
<1> HIDE DEF c
<1>6. chain' = mid
  <2>1. CASE c.op = "load" /\ \E loaded \in BOOLEAN : LoadExternalPlugin(c, loaded)
    <3>1. c \in LoadCommand
      BY <1>1, <2>1 DEF Command, LoadCommand, MoveCommand, SyncCommand
    <3> QED
      BY <1>5, <2>1, <3>1, LoadLeads
  <2>2. CASE c.op = "move" /\ MoveExternalPlugin(c)
    <3>1. c \in MoveCommand
      BY <1>1, <2>2 DEF Command, LoadCommand, MoveCommand, SyncCommand
    <3> QED
      BY <1>4, <1>5, <2>2, <3>1, MoveLeads
  <2>3. CASE c.op = "sync" /\ SyncExternalPluginParams(c)
    <3>1. mid = chain
      BY <1>5, <2>3 DEF Leads
    <3> QED
      BY <2>3, <3>1 DEF SyncExternalPluginParams
  <2> QED
    BY <1>2, <2>1, <2>2, <2>3
<1> QED
  BY <1>2, <1>5, <1>6 DEF Planned

LEMMA PlannedStep ==
  ASSUME Typed, Typed', Planned, [Next]_vars
  PROVE  Planned'
<1> SUFFICES ASSUME ~parted' PROVE Planned'
  BY DEF Planned
<1>1. ASSUME NEW t \in Tracks, AddSlot(t) PROVE Planned'
  BY <1>1, AddPlanned
<1>2. ASSUME NEW t \in Tracks, NEW slot \in 0..(Len(rack[t]) - 1),
             \/ AssignExternalPlugin(t, slot) \/ RemoveSlot(t, slot)
             \/ FlushPendingExternalParams(t, slot) \/ OpenExternalEditor(t, slot)
      PROVE  Planned'
  BY <1>2, AssignPlanned, RemovePlanned, FlushPlanned, OpenPlanned
<1>3. ASSUME NEW t \in Tracks, NEW slot \in 0..(Len(rack[t]) - 1), NEW to \in Tracks,
             NEW place \in 0..Len(rack[to]), MoveDevice(t, slot, to, place)
      PROVE  Planned'
  BY <1>3, MovePlanned
<1>4. ASSUME Execute PROVE Planned'
  BY <1>4, ExecutePlanned
<1>5. ASSUME UNCHANGED vars PROVE Planned'
  <2>1. chain' = chain /\ commands' = commands /\ rack' = rack /\ parted' = parted
    BY <1>5 DEF vars
  <2> QED
    BY <2>1 DEF Planned
<1>6. ASSUME FindTap \/ EndEditor PROVE Planned'
  <2>1. chain' = chain /\ commands' = commands /\ rack' = rack /\ parted' = parted
    BY <1>6, WindowOnly
  <2> QED
    BY <2>1 DEF Planned
<1> QED
  BY <1>1, <1>2, <1>3, <1>4, <1>5, <1>6 DEF Next, User

LEMMA PlanHolds == Spec => [](Typed /\ Planned)
<1>1. Init => Typed /\ Planned
  BY TypedInit, PlannedInit
<1>2. Typed /\ Planned /\ [Next]_vars => Typed' /\ Planned'
  BY TypedStep, PlannedStep
<1> QED
  BY <1>1, <1>2, PTL DEF Spec

LEMMA PlanFollows ==
  ASSUME Typed, Planned, commands = <<>>, ~parted, NEW s \in Strips
  PROVE  Follows(chain[s], rack[s])
<1>1. PICK end \in Chains : /\ Reaches(chain, commands, end)
                            /\ \A r \in Strips : Follows(end[r], rack[r])
  BY DEF Planned
<1>2. chain = end
  BY <1>1 DEF Reaches
<1> QED
  BY <1>1, <1>2

\* Once nothing is on its way, every strip's chain runs exactly the plugins
\* of its rack in the rack's order, however many loads and moves crossed the
\* gestures that sent them (app.rs move_device, dsp_rack.rs
\* assign_external_plugin, lib.rs load_external_plugin, move_external_plugin).
THEOREM RackFollowed == Spec => []ChainFollowsRack
<1>1. Typed /\ Planned => ChainFollowsRack
  BY PlanFollows DEF ChainFollowsRack
<1> QED
  BY <1>1, PlanHolds, PTL

\* A parameter the command thread applies finds its plugin at the position it
\* was sent with (dsp_rack.rs flush_pending_external_params, lib.rs
\* sync_external_plugin_params).
THEOREM ParamsReach == Spec => ParamsReachTheirPlugin
<1>1. ASSUME Typed, Planned, commands # <<>>, Arrives(Head(commands))
      PROVE  LET c == Head(commands)
             IN  c.slot < Len(chain[c.track]) /\ At(chain[c.track], c.slot) = c.plugin
  <2>1. Head(commands).op = "sync" /\ ~parted
    BY <1>1 DEF Arrives
  <2>2. PICK mid \in Chains : Leads(chain, Head(commands), mid)
    BY <1>1, <2>1, PlanTail
  <2> QED
    BY <2>1, <2>2 DEF Leads
<1> QED
  BY <1>1, PlanHolds, PTL DEF ParamsReachTheirPlugin

----------------------------------------------------------------------------
(* The registry.                                                           *)

\* The taps of one strip are those of the nodes, each at its place.
Names(taps, nodes) ==
  \A p \in Places : taps[p] = IF p < Len(nodes) THEN At(nodes, p) ELSE Native

LEMMA LoadNames ==
  ASSUME NEW taps \in [Places -> Slots], NEW nodes \in Seq(Plugins), Names(taps, nodes),
         NEW slot \in Nat, slot <= Len(nodes), Len(nodes) <= MaxSlots, NEW x \in Plugins
  PROVE  Names([Unregistered(taps, slot) EXCEPT ![slot] = x], LoadedNodes(nodes, slot, x))
<1> DEFINE loaded == LoadedNodes(nodes, slot, x)
           now == [Unregistered(taps, slot) EXCEPT ![slot] = x]
           n == IF slot < Len(nodes) THEN Len(nodes) ELSE Len(nodes) + 1
<1>1. Len(nodes) \in Nat /\ slot \in Places
  <2>1. Len(nodes) \in Nat
    BY LenProperties
  <2> QED
    BY <2>1, Bounds DEF Places
<1>2. \A p \in Places : now[p] = IF p = slot THEN x ELSE taps[p]
  BY <1>1 DEF Unregistered
<1>3. Len(loaded) = n /\ \A i \in 1..n : loaded[i] = IF i = slot + 1 THEN x ELSE nodes[i]
  BY LoadedIs
<1> HIDE DEF loaded, now
<1>4. ASSUME NEW p \in Places
      PROVE  now[p] = IF p < Len(loaded) THEN loaded[p + 1] ELSE Native
  <2>1. taps[p] = IF p < Len(nodes) THEN nodes[p + 1] ELSE Native
    BY DEF Names, At
  <2>2. p \in Nat
    BY DEF Places
  <2>3. CASE p = slot
    <3>1. p < n /\ p + 1 \in 1..n
      BY <1>1, <2>2, <2>3
    <3> QED
      BY <1>2, <1>3, <2>3, <3>1
  <2>4. CASE p # slot /\ p < Len(nodes)
    <3>1. p < n /\ p + 1 \in 1..n /\ p + 1 # slot + 1
      BY <1>1, <2>2, <2>4
    <3> QED
      BY <1>2, <1>3, <2>1, <2>4, <3>1
  <2>5. CASE p # slot /\ ~(p < Len(nodes))
    <3>1. ~(p < n)
      BY <1>1, <2>2, <2>5
    <3> QED
      BY <1>2, <1>3, <2>1, <2>5, <3>1
  <2> QED
    BY <2>3, <2>4, <2>5
<1> QED
  BY <1>4 DEF Names, At, loaded, now

\* The chain a node was taken from: the later ones are registered again, the
\* place behind the last is freed.
LEMMA TakeNames ==
  ASSUME NEW taps \in [Places -> Slots], NEW nodes \in Seq(Plugins), Names(taps, nodes),
         NEW slot \in 0..(Len(nodes) - 1)
  PROVE  LET rest == Without(nodes, slot)
         IN  Names(Registered(Unregistered(Unregistered(taps, slot), Len(rest)), rest), rest)
<1> DEFINE rest == Without(nodes, slot)
           freed == Unregistered(Unregistered(taps, slot), Len(rest))
           now == Registered(freed, rest)
<1>1. Len(nodes) \in Nat /\ Len(rest) = Len(nodes) - 1
  BY LenProperties, WithoutIs
<1> HIDE DEF rest
<1>2. \A p \in Places : freed[p] = IF p = slot \/ p = Len(rest) THEN Native ELSE taps[p]
  BY DEF Unregistered
<1> HIDE DEF freed
<1>3. ASSUME NEW p \in Places PROVE now[p] = IF p < Len(rest) THEN At(rest, p) ELSE Native
  <2>1. taps[p] = IF p < Len(nodes) THEN At(nodes, p) ELSE Native
    BY DEF Names
  <2>2. p \in Nat
    BY DEF Places
  <2>3. now[p] = IF p < Len(rest) THEN At(rest, p) ELSE freed[p]
    BY DEF Registered
  <2>4. ASSUME ~(p < Len(rest)) PROVE freed[p] = Native
    <3>1. CASE p = Len(rest)
      BY <1>2, <3>1
    <3>2. CASE p # Len(rest)
      <4>1. ~(p < Len(nodes))
        BY <1>1, <2>2, <2>4, <3>2
      <4> QED
        BY <1>2, <2>1, <4>1
    <3> QED
      BY <3>1, <3>2
  <2> QED
    BY <2>3, <2>4
<1> QED
  BY <1>3 DEF Names, rest, freed

LEMMA PutNames ==
  ASSUME NEW taps \in [Places -> Slots], NEW nodes \in Seq(Plugins), Names(taps, nodes),
         NEW place \in Nat, NEW x \in Plugins
  PROVE  Names(Registered(taps, With(nodes, place, x)), With(nodes, place, x))
<1> DEFINE dest == With(nodes, place, x)
           now == Registered(taps, dest)
<1>1. Len(nodes) \in Nat /\ Len(dest) = Len(nodes) + 1
  BY LenProperties, WithIs
<1> HIDE DEF dest
<1>2. ASSUME NEW p \in Places PROVE now[p] = IF p < Len(dest) THEN At(dest, p) ELSE Native
  <2>1. taps[p] = IF p < Len(nodes) THEN At(nodes, p) ELSE Native
    BY DEF Names
  <2>2. p \in Nat
    BY DEF Places
  <2>3. now[p] = IF p < Len(dest) THEN At(dest, p) ELSE taps[p]
    BY DEF Registered
  <2>4. ~(p < Len(dest)) => ~(p < Len(nodes))
    BY <1>1, <2>2
  <2> QED
    BY <2>1, <2>3, <2>4
<1> QED
  BY <1>2 DEF Names, dest

LEMMA RegistryIs ==
  RegistryNamesChain <=> (~parted => \A s \in Strips : Names(registry[s], chain[s]))
BY DEF RegistryNamesChain, Names

LEMMA RegistryInit == Init => RegistryNamesChain
<1> SUFFICES ASSUME Init PROVE RegistryNamesChain
  OBVIOUS
<1>1. ASSUME NEW s \in Strips, NEW p \in Places
      PROVE  registry[s][p] = Native /\ ~(p < Len(chain[s]))
  <2>1. Len(<<>>) = 0 /\ p \in Nat
    BY EmptySeq DEF Places
  <2> QED
    BY <2>1 DEF Init
<1> QED
  BY <1>1 DEF RegistryNamesChain

LEMMA ExecuteNames ==
  ASSUME Typed, Planned, RegistryNamesChain, Execute, ~parted'
  PROVE  \A s \in Strips : Names(registry'[s], chain'[s])
<1> DEFINE c == Head(commands)
<1>1. c \in Command
  BY HeadTailProperties DEF Typed, TypeOK, Execute, Command
<1>2. /\ commands # <<>>
      /\ \/ c.op = "load" /\ \E loaded \in BOOLEAN : LoadExternalPlugin(c, loaded)
         \/ c.op = "move" /\ MoveExternalPlugin(c) /\ UNCHANGED parted
         \/ c.op = "sync" /\ SyncExternalPluginParams(c) /\ UNCHANGED parted
  BY DEF Execute
<1>3. ~parted
  <2>1. ASSUME \E loaded \in BOOLEAN : LoadExternalPlugin(c, loaded) PROVE ~parted
    BY <2>1, Zenon DEF LoadExternalPlugin
  <2> QED
    BY <1>2, <2>1, Zenon
<1>4. chain \in Chains /\ \E mid \in Chains : Leads(chain, c, mid)
  BY <1>2, <1>3, PlanTail
<1>5. PICK mid \in Chains : Leads(chain, c, mid)
  BY <1>4
<1>6. /\ chain \in [Strips -> Seq(Plugins)] /\ \A s \in Strips : Len(chain[s]) <= MaxSlots
      /\ registry \in [Strips -> [Places -> Slots]]
  BY <1>4 DEF Chains, Typed, TypeOK
<1>7. \A s \in Strips : Names(registry[s], chain[s])
  BY <1>3, RegistryIs
<1> HIDE DEF c
<1>8. CASE c.op = "load" /\ \E loaded \in BOOLEAN : LoadExternalPlugin(c, loaded)
  <2>1. c \in LoadCommand
    BY <1>1, <1>8 DEF Command, LoadCommand, MoveCommand, SyncCommand
  <2>2. c.track \in Strips /\ c.slot \in Nat /\ c.plugin \in Plugins
    BY <2>1 DEF LoadCommand
  <2> DEFINE t == c.track
             nodes == LoadedNodes(chain[t], c.slot, c.plugin)
             taps == [Unregistered(registry[t], c.slot) EXCEPT ![c.slot] = c.plugin]
  <2>3. /\ c.slot <= Len(chain[t]) /\ chain' = [chain EXCEPT ![t] = nodes]
        /\ registry' = [registry EXCEPT ![t] = taps]
    BY <1>5, <1>8, <2>1, LoadLeads
  <2>4. /\ registry[t] \in [Places -> Slots] /\ chain[t] \in Seq(Plugins)
        /\ Names(registry[t], chain[t]) /\ Len(chain[t]) <= MaxSlots
    BY <1>6, <1>7, <2>2
  <2>5. Names(taps, nodes)
    BY <2>2, <2>3, <2>4, LoadNames
  <2> HIDE DEF nodes, taps, t
  <2>6. ASSUME NEW s \in Strips PROVE Names(registry'[s], chain'[s])
    <3>1. /\ s = t => registry'[s] = taps /\ chain'[s] = nodes
          /\ s # t => registry'[s] = registry[s] /\ chain'[s] = chain[s]
      BY <1>6, <2>3
    <3> QED
      BY <1>7, <2>5, <3>1
  <2> QED
    BY <2>6
<1>9. CASE c.op = "move" /\ MoveExternalPlugin(c)
  <2>1. c \in MoveCommand
    BY <1>1, <1>9 DEF Command, LoadCommand, MoveCommand, SyncCommand
  <2> DEFINE f == c.from
             t == c.to
             node == At(chain[f], c.slot)
             rest == Without(chain[f], c.slot)
             freed == Unregistered(Unregistered(registry[f], c.slot), Len(rest))
             regRest == Registered(freed, rest)
             taps == [registry EXCEPT ![f] = regRest]
             taken == [chain EXCEPT ![f] = rest]
             dest == With(taken[t], c.place, node)
             regDest == Registered(taps[t], dest)
  <2>2. f \in Strips /\ t \in Strips /\ c.slot \in Nat /\ c.place \in Nat
    BY <2>1 DEF MoveCommand
  <2>3. /\ c.slot \in 0..(Len(chain[f]) - 1) /\ chain' = mid
        /\ mid = Relocated(chain, f, c.slot, t, c.place)
        /\ registry' = [taps EXCEPT ![t] = Registered(taps[t], mid[t])]
    BY <1>4, <1>5, <1>9, <2>1, MoveLeads
  <2>4. mid = [taken EXCEPT ![t] = dest]
    BY <2>3 DEF Relocated
  <2>5. /\ chain[f] \in Seq(Plugins) /\ registry[f] \in [Places -> Slots]
        /\ Names(registry[f], chain[f])
    BY <1>6, <1>7, <2>2
  <2>6. rest \in Seq(Plugins) /\ Names(regRest, rest)
    BY <2>3, <2>5, WithoutIs, TakeNames
  <2>7. node \in Plugins
    <3>1. Len(chain[f]) \in Nat
      BY <2>5, LenProperties
    <3>2. c.slot + 1 \in 1..Len(chain[f])
      BY <2>3, <3>1
    <3> QED
      BY <2>5, <3>2, ElementOfSeq DEF At
  <2>8. regRest \in [Places -> Slots]
    <3>1. freed \in [Places -> Slots]
      BY <2>5 DEF Unregistered, Slots
    <3> HIDE DEF freed, rest
    <3> QED
      BY <2>6, <3>1, RegisteredTyped
  <2> HIDE DEF f, t, node, rest, freed, regRest
  <2>9. ASSUME NEW s \in Strips
        PROVE  /\ taps[s] \in [Places -> Slots] /\ taken[s] \in Seq(Plugins)
               /\ Names(taps[s], taken[s])
    <3>1. /\ s = f => taps[s] = regRest /\ taken[s] = rest
          /\ s # f => taps[s] = registry[s] /\ taken[s] = chain[s]
      BY <1>6, <2>2
    <3>2. registry[s] \in [Places -> Slots] /\ chain[s] \in Seq(Plugins) /\ Names(registry[s], chain[s])
      BY <1>6, <1>7
    <3> HIDE DEF taps, taken
    <3> QED
      BY <2>6, <2>8, <3>1, <3>2
  <2>10. DOMAIN taps = Strips /\ DOMAIN taken = Strips
    BY <1>6
  <2>14. taps \in [Strips -> [Places -> Slots]] /\ taken \in [Strips -> Seq(Plugins)]
    BY <1>6, <2>6, <2>8
  <2> HIDE DEF taps, taken
  <2>11. Names(regDest, dest)
    <3>1. taps[t] \in [Places -> Slots] /\ taken[t] \in Seq(Plugins) /\ Names(taps[t], taken[t])
      BY <2>2, <2>9
    <3> QED
      BY <2>2, <2>7, <3>1, PutNames
  <2>12. mid[t] = dest
    BY <2>2, <2>4, <2>14
  <2> HIDE DEF dest, regDest
  <2>13. ASSUME NEW s \in Strips PROVE Names(registry'[s], chain'[s])
    <3>1. registry' = [taps EXCEPT ![t] = regDest]
      BY <2>3, <2>12 DEF regDest
    <3>2. /\ s = t => registry'[s] = regDest /\ chain'[s] = dest
          /\ s # t => registry'[s] = taps[s] /\ chain'[s] = taken[s]
      BY <2>3, <2>4, <2>14, <3>1
    <3> QED
      BY <2>9, <2>11, <3>2
  <2> QED
    BY <2>13
<1>10. CASE c.op = "sync" /\ SyncExternalPluginParams(c)
  BY <1>7, <1>10 DEF SyncExternalPluginParams
<1> QED
  BY <1>2, <1>8, <1>9, <1>10

LEMMA RegistryStep ==
  ASSUME Typed, Planned, RegistryNamesChain, [Next]_vars
  PROVE  RegistryNamesChain'
<1>1. ASSUME Execute PROVE RegistryNamesChain'
  <2>1. ASSUME ~parted' PROVE \A s \in Strips : Names(registry'[s], chain'[s])
    BY <1>1, <2>1, ExecuteNames
  <2> QED
    BY <2>1 DEF RegistryNamesChain, Names
<1>2. ASSUME registry' = registry, chain' = chain, ~parted' => ~parted
      PROVE  RegistryNamesChain'
  BY <1>2 DEF RegistryNamesChain
<1>3. ASSUME User PROVE registry' = registry /\ chain' = chain /\ (~parted' => ~parted)
  <2>1. registry' = registry /\ chain' = chain
    <3>1. ASSUME NEW t \in Tracks, AddSlot(t) PROVE UNCHANGED engineVars
      BY <3>1 DEF AddSlot
    <3>2. ASSUME NEW t \in Tracks, NEW slot \in 0..(Len(rack[t]) - 1),
                 AssignExternalPlugin(t, slot) \/ FlushPendingExternalParams(t, slot)
                   \/ OpenExternalEditor(t, slot) \/ RemoveSlot(t, slot)
          PROVE  UNCHANGED engineVars
      BY <3>2 DEF AssignExternalPlugin, FlushPendingExternalParams, OpenExternalEditor,
         RemoveSlot, engineVars
    <3>3. ASSUME NEW t \in Tracks, NEW slot \in 0..(Len(rack[t]) - 1), NEW to \in Tracks,
                 NEW place \in 0..Len(rack[to]), MoveDevice(t, slot, to, place)
          PROVE  UNCHANGED engineVars
      BY <3>3 DEF MoveDevice, engineVars
    <3>4. UNCHANGED engineVars
      BY <1>3, <3>1, <3>2, <3>3 DEF User
    <3> QED
      BY <3>4 DEF engineVars
  <2>2. ASSUME NEW parting \in BOOLEAN, Gesture(parting), ~parted' PROVE ~parted
    BY <2>2, Zenon DEF Gesture
  <2>3. ASSUME ~parted' PROVE ~parted
    <3>1. ASSUME NEW t \in Tracks, AddSlot(t) PROVE ~parted
      BY <2>2, <2>3, <3>1 DEF AddSlot
    <3>2. ASSUME NEW t \in Tracks, NEW slot \in 0..(Len(rack[t]) - 1),
                 AssignExternalPlugin(t, slot) \/ FlushPendingExternalParams(t, slot)
                   \/ OpenExternalEditor(t, slot)
          PROVE  ~parted
      BY <2>2, <2>3, <3>2 DEF AssignExternalPlugin, FlushPendingExternalParams,
         OpenExternalEditor
    <3>3. ASSUME NEW t \in Tracks, NEW slot \in 0..(Len(rack[t]) - 1), RemoveSlot(t, slot)
          PROVE  ~parted
      BY <2>2, <2>3, <3>3, Zenon DEF RemoveSlot
    <3>4. ASSUME NEW t \in Tracks, NEW slot \in 0..(Len(rack[t]) - 1), NEW to \in Tracks,
                 NEW place \in 0..Len(rack[to]), MoveDevice(t, slot, to, place)
          PROVE  ~parted
      BY <2>2, <2>3, <3>4, Zenon DEF MoveDevice
    <3> QED
      BY <1>3, <3>1, <3>2, <3>3, <3>4 DEF User
  <2> QED
    BY <2>1, <2>3
<1>4. ASSUME UNCHANGED vars PROVE registry' = registry /\ chain' = chain /\ parted' = parted
  BY <1>4 DEF vars
<1>5. ASSUME FindTap \/ EndEditor
      PROVE  registry' = registry /\ chain' = chain /\ parted' = parted
  BY <1>5, WindowOnly
<1> QED
  BY <1>1, <1>2, <1>3, <1>4, <1>5 DEF Next

LEMMA RegistryHolds == Spec => []RegistryNamesChain
<1>1. Typed /\ Planned /\ RegistryNamesChain /\ [Next]_vars => RegistryNamesChain'
  BY RegistryStep
<1> QED
  BY <1>1, RegistryInit, PlanHolds, PTL DEF Spec

\* The registry has the tap of every node at the node's place and no other
\* tap, between any two commands (lib.rs load_external_plugin and
\* move_external_plugin, tap.rs register and unregister).
THEOREM RegistryCorrect == Spec => []RegistryNamesChain
BY RegistryHolds

----------------------------------------------------------------------------
(* The editor.                                                             *)

LEMMA FoundHears ==
  ASSUME Typed, Planned, RegistryNamesChain, FindTap
  PROVE  EditorHearsItsPlugin'
<1> DEFINE t == editor.on  slot == editor.slot
<1>1. /\ editor'.of = editor.of /\ editor'.on = t /\ editor'.tap = Lookup(t, slot)
      /\ editor'.settled => commands = <<>> /\ ~parted /\ InItsSlot
  BY FoundTyped
<1>2. t \in Tracks /\ slot \in Places
  BY DEF Typed, TypeOK
<1>3. SUFFICES ASSUME commands = <<>>, ~parted, InItsSlot
               PROVE  Lookup(t, slot) = IF t = Master THEN Native ELSE editor.of
  BY <1>1 DEF EditorHearsItsPlugin
<1>4. CASE t = Master
  BY <1>4 DEF Lookup
<1>5. CASE t # Master
  <2>1. t \in Strips
    BY <1>2, <1>5 DEF Strips
  <2>2. Follows(chain[t], rack[t])
    BY <1>3, <2>1, PlanFollows
  <2>3. chain[t] \in Seq(Plugins) /\ rack[t] \in Seq(Slots)
    BY <2>1 DEF Typed, TypeOK, Strips
  <2>4. slot < Len(rack[t]) /\ At(rack[t], slot) = editor.of
    BY <1>3 DEF InItsSlot
  <2>5. At(rack[t], slot) = IF slot < Len(chain[t]) THEN At(chain[t], slot) ELSE Native
    <3>1. Len(rack[t]) \in Nat /\ Len(chain[t]) \in Nat /\ slot \in Nat
      BY <1>2, <2>3, LenProperties DEF Places
    <3>2. slot \in 0..(Len(rack[t]) - 1)
      BY <2>4, <3>1
    <3> QED
      BY <2>2, <2>3, <3>1, <3>2, TakeFollows DEF At
  <2>6. registry[t][slot] = IF slot < Len(chain[t]) THEN At(chain[t], slot) ELSE Native
    BY <1>2, <1>3, <2>1 DEF RegistryNamesChain
  <2> QED
    BY <1>5, <2>4, <2>5, <2>6 DEF Lookup
<1> QED
  BY <1>4, <1>5

LEMMA EditorStep ==
  ASSUME Typed, Planned, RegistryNamesChain, EditorHearsItsPlugin, [Next]_vars
  PROVE  EditorHearsItsPlugin'
<1>1. ASSUME NEW t \in Tracks, NEW slot \in 0..(Len(rack[t]) - 1), OpenExternalEditor(t, slot)
      PROVE  EditorHearsItsPlugin'
  <2>1. editor' = [NoEditor EXCEPT !.of = At(rack[t], slot), !.on = t, !.slot = slot,
                                   !.opening = TRUE]
    BY <1>1 DEF OpenExternalEditor
  <2>2. ~editor'.settled
    BY <2>1 DEF NoEditor
  <2> QED
    BY <2>2 DEF EditorHearsItsPlugin
<1>2. ASSUME editor' = editor PROVE EditorHearsItsPlugin'
  BY <1>2 DEF EditorHearsItsPlugin
<1>3. ASSUME NEW t \in Tracks, AddSlot(t) PROVE editor' = editor
  BY <1>3 DEF AddSlot
<1>4. ASSUME NEW t \in Tracks, NEW slot \in 0..(Len(rack[t]) - 1),
             \/ AssignExternalPlugin(t, slot) \/ RemoveSlot(t, slot)
             \/ FlushPendingExternalParams(t, slot)
      PROVE  editor' = editor
  BY <1>4 DEF AssignExternalPlugin, RemoveSlot, FlushPendingExternalParams
<1>5. ASSUME NEW t \in Tracks, NEW slot \in 0..(Len(rack[t]) - 1), NEW to \in Tracks,
             NEW place \in 0..Len(rack[to]), MoveDevice(t, slot, to, place)
      PROVE  editor' = editor
  BY <1>5 DEF MoveDevice
<1>6. ASSUME Execute PROVE editor' = editor
  BY <1>6 DEF Execute
<1>7. ASSUME FindTap PROVE EditorHearsItsPlugin'
  BY <1>7, FoundHears
<1>8. ASSUME EndEditor PROVE EditorHearsItsPlugin'
  BY <1>8 DEF EndEditor, NoEditor, EditorHearsItsPlugin
<1>9. ASSUME UNCHANGED vars PROVE editor' = editor
  BY <1>9 DEF vars
<1> QED
  BY <1>1, <1>2, <1>3, <1>4, <1>5, <1>6, <1>7, <1>8, <1>9 DEF Next, User

\* An editor whose plugin still stands in the slot that was clicked when the
\* window's thread gets to the registry, with nothing on its way and rack and
\* chain not parted by then, has that plugin's tap, or none on the master,
\* whatever happened between the click and the lookup (dsp_rack.rs
\* open_external_editor, wrapper.rs open, tap.rs lookup).
THEOREM EditorHears == Spec => []EditorHearsItsPlugin
<1>1. Init => EditorHearsItsPlugin
  BY DEF Init, NoEditor, EditorHearsItsPlugin
<1>2. /\ Typed /\ Planned /\ RegistryNamesChain /\ EditorHearsItsPlugin
      /\ [Next]_vars
      => EditorHearsItsPlugin'
  BY EditorStep
<1> QED
  BY <1>1, <1>2, PlanHolds, RegistryHolds, PTL DEF Spec

=============================================================================
