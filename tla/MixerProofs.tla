---------------------------- MODULE MixerProofs ----------------------------
(***************************************************************************)
(* Proofs about Mixer: the rows of the matrix and the strips of its mixer,  *)
(* for any fader positions and any number of tracks and gestures.           *)
(***************************************************************************)
EXTENDS Mixer, SequenceTheorems, WellFoundedInduction, TLAPS

\* The lists and the saved files are lists of mixes, and the matrix keeps a row.
Shapes ==
    /\ matrix \in Seq(Mix) /\ matrix # <<>>
    /\ live \in Seq(Mix) /\ live # <<>>
    /\ oplf.matrix \in Seq(Mix) /\ oplf.matrix # <<>> /\ oplf.live \in Seq(Mix) /\ oplf.live # <<>>

Inv == Shapes /\ MirrorsAgree

\* Two lists mirror each other, except for the mutes of the rows in apart.
Mirrored(rows, strips, apart) ==
    /\ Len(strips) = Len(rows) + 1
    /\ \A i \in DOMAIN rows : /\ strips[i + 1].vol = rows[i].vol
                              /\ i \notin apart => strips[i + 1].mute = rows[i].mute

LEMMA MirrorsAgreeIs == MirrorsAgree <=> (~skewed => Mirrored(matrix, live, flipped))
BY DEF MirrorsAgree, Mirrored, Rows, Strip

LEMMA ConstantMixes == New \in Mix /\ Master \in Mix
BY MixerAssumption DEF New, Master, Mix

\* A mix with one of its controls moved.
LEMMA MixVol ==
    ASSUME NEW mix \in Mix, NEW v \in Volumes
    PROVE  /\ [mix EXCEPT !.vol = v] \in Mix
           /\ [mix EXCEPT !.vol = v].vol = v /\ [mix EXCEPT !.vol = v].mute = mix.mute
<1>1. mix \in [vol : Volumes, mute : BOOLEAN]
  BY DEF Mix
<1>2. QED
  BY <1>1 DEF Mix

LEMMA MixMute ==
    ASSUME NEW mix \in Mix, NEW m \in BOOLEAN
    PROVE  /\ [mix EXCEPT !.mute = m] \in Mix
           /\ [mix EXCEPT !.mute = m].mute = m /\ [mix EXCEPT !.mute = m].vol = mix.vol
<1>1. mix \in [vol : Volumes, mute : BOOLEAN]
  BY DEF Mix
<1>2. QED
  BY <1>1 DEF Mix

\* One element of a list replaced.
LEMMA Replaced ==
    ASSUME NEW s \in Seq(Mix), NEW i \in DOMAIN s, NEW mix \in Mix
    PROVE  /\ [s EXCEPT ![i] = mix] \in Seq(Mix)
           /\ Len([s EXCEPT ![i] = mix]) = Len(s)
           /\ [s EXCEPT ![i] = mix][i] = mix
           /\ \A j \in DOMAIN s \ {i} : [s EXCEPT ![i] = mix][j] = s[j]
           /\ DOMAIN [s EXCEPT ![i] = mix] = DOMAIN s
BY ExceptSeq

\* The last element of a list dropped, unless it is alone.
LEMMA ShorterFacts ==
    ASSUME NEW s \in Seq(Mix), s # <<>>
    PROVE  /\ Shorter(s) \in Seq(Mix) /\ Shorter(s) # <<>>
           /\ Len(Shorter(s)) = IF Len(s) > 1 THEN Len(s) - 1 ELSE Len(s)
           /\ \A i \in DOMAIN Shorter(s) : i \in DOMAIN s /\ Shorter(s)[i] = s[i]
<1>1. Len(s) \in Nat /\ Len(s) >= 1
  BY EmptySeq
<1>2. CASE Len(s) > 1
  <2>1. Shorter(s) = SubSeq(s, 1, Len(s) - 1)
    BY <1>2 DEF Shorter
  <2>2. /\ SubSeq(s, 1, Len(s) - 1) \in Seq(Mix)
        /\ Len(SubSeq(s, 1, Len(s) - 1)) = Len(s) - 1
        /\ \A i \in 1..Len(s) - 1 : SubSeq(s, 1, Len(s) - 1)[i] = s[i]
    BY <1>1, <1>2
  <2>3. Shorter(s) # <<>>
    <3>1. SUFFICES ASSUME SubSeq(s, 1, Len(s) - 1) = <<>> PROVE FALSE
      BY <2>1
    <3>2. Len(s) - 1 = 0
      BY <2>2, <3>1, EmptySeq, Zenon
    <3> DEFINE n == Len(s)
    <3>3. n \in Nat /\ n > 1 /\ n - 1 = 0
      BY <1>1, <1>2, <3>2
    <3> HIDE DEF n
    <3>4. QED
      BY <3>3
  <2>4. DOMAIN Shorter(s) = 1..Len(s) - 1 /\ DOMAIN s = 1..Len(s)
    BY <2>1, <2>2
  <2>5. \A i \in DOMAIN Shorter(s) : i \in DOMAIN s /\ Shorter(s)[i] = s[i]
    BY <1>1, <2>1, <2>2, <2>4
  <2>6. QED
    BY <1>2, <2>1, <2>2, <2>3, <2>5
<1>3. CASE ~(Len(s) > 1)
  BY <1>3 DEF Shorter
<1>4. QED
  BY <1>2, <1>3

-----------------------------------------------------------------------------
(* Each gesture that touches a row or a strip.                              *)

\* A control of row i written to the row and, if there is one, to its strip.
LEMMA BothWritten ==
    ASSUME NEW rows \in Seq(Mix), rows # <<>>, NEW strips \in Seq(Mix), strips # <<>>,
           NEW i \in DOMAIN rows, NEW mix \in Mix, NEW other \in Mix, NEW apart, NEW left,
           Mirrored(rows, strips, apart),
           other.vol = mix.vol, other.mute = mix.mute \/ i \in left, apart \ {i} \subseteq left
    PROVE  Mirrored([rows EXCEPT ![i] = mix], [strips EXCEPT ![i + 1] = other], left)
<1>1. /\ Len(strips) = Len(rows) + 1 /\ i + 1 \in DOMAIN strips
      /\ DOMAIN rows = 1..Len(rows) /\ DOMAIN strips = 1..Len(strips)
      /\ Len(rows) \in Nat
  <2>1. /\ DOMAIN rows = 1..Len(rows) /\ DOMAIN strips = 1..Len(strips) /\ Len(rows) \in Nat
    BY LenProperties
  <2>2. Len(strips) = Len(rows) + 1
    BY DEF Mirrored
  <2>3. QED
    BY <2>1, <2>2
<1> DEFINE r == [rows EXCEPT ![i] = mix]  s == [strips EXCEPT ![i + 1] = other]
<1>2. Len(s) = Len(r) + 1 /\ DOMAIN r = DOMAIN rows
  BY <1>1, Replaced
<1>3. ASSUME NEW j \in DOMAIN rows, j # i
      PROVE  r[j] = rows[j] /\ s[j + 1] = strips[j + 1]
  <2>1. j + 1 \in DOMAIN strips \ {i + 1}
    BY <1>1, <1>3
  <2>2. QED
    BY <1>1, <1>3, <2>1, Replaced
<1>4. r[i] = mix /\ s[i + 1] = other
  BY <1>1, Replaced
<1> HIDE DEF r, s
<1>5. ASSUME NEW j \in DOMAIN rows
      PROVE  s[j + 1].vol = r[j].vol /\ (j \notin left => s[j + 1].mute = r[j].mute)
  <2>1. CASE j = i
    BY <1>4, <2>1
  <2>2. CASE j # i
    BY <1>3, <2>2 DEF Mirrored
  <2>3. QED
    BY <2>1, <2>2
<1>6. QED
  BY <1>2, <1>5 DEF Mirrored, r, s

\* Elements of a list are mixes.
LEMMA ElementIsMix ==
    ASSUME NEW s \in Seq(Mix), NEW i \in DOMAIN s
    PROVE  s[i] \in Mix /\ s[i].vol \in Volumes /\ s[i].mute \in BOOLEAN
<1>1. s[i] \in Mix
  BY LenProperties
<1>2. QED
  BY <1>1 DEF Mix

LEMMA NonEmptyStays ==
    ASSUME NEW s \in Seq(Mix), s # <<>>, NEW t \in Seq(Mix), Len(t) >= Len(s)
    PROVE  t # <<>>
BY EmptySeq

LEMMA LiveVolumeInv == Inv /\ LiveVolume => Inv'
<1> SUFFICES ASSUME Inv, NEW i \in Rows, NEW v \in Volumes, SetVolume(i, v),
                    UNCHANGED <<oplf, skewed, flipped>>
             PROVE  Inv'
  BY DEF LiveVolume
<1>1. matrix \in Seq(Mix) /\ matrix # <<>> /\ live \in Seq(Mix) /\ live # <<>> /\ i \in DOMAIN matrix
  BY DEF Inv, Shapes, Rows
<1> DEFINE row == [matrix[i] EXCEPT !.vol = v]  strip == [live[i + 1] EXCEPT !.vol = v]
<1>2. matrix' = [matrix EXCEPT ![i] = row]
  BY DEF SetVolume
<1>3. row \in Mix /\ row.vol = v /\ row.mute = matrix[i].mute
  BY <1>1, ElementIsMix, MixVol
<1>4. matrix' \in Seq(Mix) /\ matrix' # <<>> /\ Len(matrix') = Len(matrix)
  <2> HIDE DEF row
  <2>1. matrix' \in Seq(Mix) /\ Len(matrix') = Len(matrix)
    BY <1>1, <1>2, <1>3, Replaced
  <2>2. QED
    BY <1>1, <2>1, EmptySeq
<1>5. CASE i + 1 \in DOMAIN live
  <2>1. live' = [live EXCEPT ![i + 1] = strip]
    BY <1>5 DEF SetVolume
  <2>2. strip \in Mix /\ strip.vol = v /\ strip.mute = live[i + 1].mute
    BY <1>1, <1>5, ElementIsMix, MixVol
  <2> HIDE DEF row, strip
  <2>3. live' \in Seq(Mix) /\ live' # <<>>
    <3>1. live' \in Seq(Mix) /\ Len(live') = Len(live)
      BY <1>1, <1>5, <2>1, <2>2, Replaced
    <3>2. QED
      BY <1>1, <3>1, EmptySeq
  <2>4. ASSUME Mirrored(matrix, live, flipped) PROVE Mirrored(matrix', live', flipped)
    <3>1. strip.mute = row.mute \/ i \in flipped
      BY <1>1, <1>3, <2>2, <2>4 DEF Mirrored
    <3>2. QED
      BY <1>1, <1>2, <1>3, <2>1, <2>2, <2>4, <3>1, BothWritten
  <2>5. QED
    BY <1>4, <2>3, <2>4, MirrorsAgreeIs DEF Inv, Shapes, MirrorsAgree, Mirrored, Rows, Strip
<1>6. CASE i + 1 \notin DOMAIN live
  <2>1. live' = live
    BY <1>6 DEF SetVolume
  <2>2. ~Mirrored(matrix, live, flipped)
    BY <1>1, <1>6, LenProperties DEF Mirrored
  <2>3. skewed
    BY <2>2, MirrorsAgreeIs DEF Inv
  <2>4. QED
    BY <1>1, <1>4, <2>1, <2>3 DEF Inv, Shapes, MirrorsAgree
<1>7. QED
  BY <1>5, <1>6

\* What a gesture has to keep.
LEMMA InvKept ==
    ASSUME Shapes', ~skewed' => Mirrored(matrix', live', flipped')
    PROVE  Inv'
BY DEF Inv, MirrorsAgree, Mirrored, Rows, Strip

LEMMA StripMuteInv == Inv /\ StripMute => Inv'
<1> DEFINE m(i) == ~matrix[i].mute
           row(i) == [matrix[i] EXCEPT !.mute = m(i)]
           strip(i) == [live[i + 1] EXCEPT !.mute = m(i)]
<1> SUFFICES ASSUME Inv, NEW i \in Rows,
                    matrix' = [matrix EXCEPT ![i] = row(i)],
                    live' = IF i + 1 \in DOMAIN live THEN [live EXCEPT ![i + 1] = strip(i)] ELSE live,
                    flipped' = flipped \ {i},
                    UNCHANGED <<oplf, skewed>>
             PROVE  Inv'
  BY DEF StripMute
<1>1. matrix \in Seq(Mix) /\ matrix # <<>> /\ live \in Seq(Mix) /\ live # <<>> /\ i \in DOMAIN matrix
  BY DEF Inv, Shapes, Rows
<1>2. m(i) \in BOOLEAN
  BY Zenon
<1> HIDE DEF m
<1>3. row(i) \in Mix /\ row(i).mute = m(i) /\ row(i).vol = matrix[i].vol
  BY <1>1, <1>2, ElementIsMix, MixMute
<1>4. matrix' \in Seq(Mix) /\ matrix' # <<>>
  <2> HIDE DEF row
  <2>1. matrix' \in Seq(Mix) /\ Len(matrix') = Len(matrix)
    BY <1>1, <1>3, Replaced
  <2>2. QED
    BY <1>1, <2>1, EmptySeq
<1>5. CASE i + 1 \in DOMAIN live
  <2>1. live' = [live EXCEPT ![i + 1] = strip(i)]
    BY <1>5
  <2>2. strip(i) \in Mix /\ strip(i).mute = m(i) /\ strip(i).vol = live[i + 1].vol
    BY <1>1, <1>2, <1>5, ElementIsMix, MixMute
  <2> HIDE DEF row, strip
  <2>3. live' \in Seq(Mix) /\ live' # <<>>
    <3>1. live' \in Seq(Mix) /\ Len(live') = Len(live)
      BY <1>1, <1>5, <2>1, <2>2, Replaced
    <3>2. QED
      BY <1>1, <3>1, EmptySeq
  <2>4. ASSUME Mirrored(matrix, live, flipped) PROVE Mirrored(matrix', live', flipped')
    <3>1. strip(i).vol = row(i).vol /\ strip(i).mute = row(i).mute
      BY <1>1, <1>3, <2>2, <2>4 DEF Mirrored
    <3>2. flipped \ {i} \subseteq flipped'
      OBVIOUS
    <3>3. Mirrored([matrix EXCEPT ![i] = row(i)], [live EXCEPT ![i + 1] = strip(i)], flipped')
      BY <1>1, <1>3, <2>2, <2>4, <3>1, <3>2, BothWritten
    <3>4. QED
      BY <2>1, <3>3
  <2>5. QED
    BY <1>4, <2>3, <2>4, MirrorsAgreeIs, InvKept DEF Inv, Shapes
<1>6. CASE i + 1 \notin DOMAIN live
  <2>1. live' = live
    BY <1>6
  <2>2. ~Mirrored(matrix, live, flipped)
    BY <1>1, <1>6, LenProperties DEF Mirrored
  <2>3. skewed
    BY <2>2, MirrorsAgreeIs DEF Inv
  <2>4. QED
    BY <1>1, <1>4, <2>1, <2>3, InvKept DEF Inv, Shapes
<1>7. QED
  BY <1>5, <1>6

LEMMA HeaderMuteInv == Inv /\ HeaderMute => Inv'
<1> DEFINE row(i) == [matrix[i] EXCEPT !.mute = ~@]
<1> SUFFICES ASSUME Inv, NEW i \in Rows, matrix' = [matrix EXCEPT ![i] = row(i)],
                    flipped' = flipped \union {i}, UNCHANGED <<live, oplf, skewed>>
             PROVE  Inv'
  BY DEF HeaderMute, ToggleHeader
<1>1. matrix \in Seq(Mix) /\ matrix # <<>> /\ i \in DOMAIN matrix
  BY DEF Inv, Shapes, Rows
<1>2. row(i) \in Mix /\ row(i).vol = matrix[i].vol
  <2> DEFINE m == ~matrix[i].mute
  <2>1. m \in BOOLEAN
    BY Zenon
  <2>2. matrix[i] \in Mix
    BY <1>1, ElementIsMix
  <2> HIDE DEF m
  <2>3. [matrix[i] EXCEPT !.mute = m] \in Mix /\ [matrix[i] EXCEPT !.mute = m].vol = matrix[i].vol
    BY <2>1, <2>2, MixMute
  <2>4. QED
    BY <2>3 DEF m
<1> HIDE DEF row
<1>3. matrix' \in Seq(Mix) /\ matrix' # <<>> /\ Len(matrix') = Len(matrix) /\ DOMAIN matrix' = DOMAIN matrix
      /\ matrix'[i] = row(i) /\ \A j \in DOMAIN matrix \ {i} : matrix'[j] = matrix[j]
  <2>1. matrix' \in Seq(Mix) /\ Len(matrix') = Len(matrix) /\ DOMAIN matrix' = DOMAIN matrix
        /\ matrix'[i] = row(i) /\ \A j \in DOMAIN matrix \ {i} : matrix'[j] = matrix[j]
    BY <1>1, <1>2, Replaced
  <2>2. QED
    BY <1>1, <2>1, EmptySeq
<1>4. Mirrored(matrix, live, flipped) => Mirrored(matrix', live', flipped')
  BY <1>2, <1>3 DEF Mirrored
<1>5. QED
  BY <1>3, <1>4, MirrorsAgreeIs, InvKept DEF Inv, Shapes

LEMMA MasterVolumeInv == Inv /\ MasterVolume => Inv'
<1> SUFFICES ASSUME Inv, MasterVolume PROVE Inv'
  OBVIOUS
<1>1. matrix \in Seq(Mix) /\ live \in Seq(Mix) /\ live # <<>>
      /\ UNCHANGED <<matrix, oplf, skewed, flipped>>
  BY DEF Inv, Shapes, MasterVolume
<1>2. CASE mode = "live"
  <2>1. PICK v \in Volumes : live' = [live EXCEPT ![1] = [live[1] EXCEPT !.vol = v]]
    BY <1>2 DEF MasterVolume
  <2>2. 1 \in DOMAIN live /\ DOMAIN matrix = 1..Len(matrix) /\ Len(matrix) \in Nat
    BY <1>1, EmptySeq, LenProperties
  <2>3. [live[1] EXCEPT !.vol = v] \in Mix
    BY <1>1, <2>2, ElementIsMix, MixVol
  <2>4. live' \in Seq(Mix) /\ Len(live') = Len(live)
        /\ \A j \in DOMAIN live \ {1} : live'[j] = live[j]
    <3> DEFINE strip == [live[1] EXCEPT !.vol = v]
    <3> HIDE DEF strip
    <3>1. live' = [live EXCEPT ![1] = strip] /\ strip \in Mix
      BY <2>1, <2>3 DEF strip
    <3>2. QED
      BY <1>1, <2>2, <3>1, Replaced
  <2>5. live' # <<>>
    BY <1>1, <2>4, EmptySeq
  <2>6. ASSUME Mirrored(matrix, live, flipped) PROVE Mirrored(matrix', live', flipped')
    <3>1. \A i \in DOMAIN matrix : i + 1 \in DOMAIN live \ {1}
      BY <1>1, <2>2, <2>6, LenProperties DEF Mirrored
    <3>2. \A i \in DOMAIN matrix : live'[i + 1] = live[i + 1]
      BY <2>4, <3>1
    <3>3. QED
      BY <1>1, <2>4, <2>6, <3>2 DEF Mirrored
  <2>7. QED
    BY <1>1, <2>4, <2>5, <2>6, MirrorsAgreeIs, InvKept DEF Inv, Shapes
<1>3. CASE mode # "live"
  <2>1. live' = live
    BY <1>3 DEF MasterVolume
  <2>2. QED
    BY <1>1, <2>1, MirrorsAgreeIs, InvKept DEF Inv, Shapes
<1>4. QED
  BY <1>2, <1>3

LEMMA UnmutedFacts ==
    ASSUME NEW s \in Seq(Mix), s # <<>>
    PROVE  /\ Unmuted(s) \in Seq(Mix) /\ Unmuted(s) # <<>> /\ Len(Unmuted(s)) = Len(s)
           /\ DOMAIN Unmuted(s) = DOMAIN s
           /\ \A i \in DOMAIN s : Unmuted(s)[i].vol = s[i].vol /\ Unmuted(s)[i].mute = FALSE
<1>1. DOMAIN s = 1..Len(s) /\ Len(s) \in Nat /\ Len(s) # 0
  BY LenProperties, EmptySeq
<1>2. ASSUME NEW i \in DOMAIN s
      PROVE  /\ [s[i] EXCEPT !.mute = FALSE] \in Mix
             /\ [s[i] EXCEPT !.mute = FALSE].vol = s[i].vol /\ [s[i] EXCEPT !.mute = FALSE].mute = FALSE
  <2>1. FALSE \in BOOLEAN
    OBVIOUS
  <2>2. QED
    BY <2>1, ElementIsMix, MixMute
<1>3. Unmuted(s) \in [1..Len(s) -> Mix]
  BY <1>1, <1>2 DEF Unmuted
<1>4. Unmuted(s) \in Seq(Mix) /\ Len(Unmuted(s)) = Len(s)
  BY <1>1, <1>3
<1>5. QED
  BY <1>1, <1>2, <1>4, EmptySeq DEF Unmuted

LEMMA ClearMutesInv == Inv /\ ClearMutes => Inv'
<1> SUFFICES ASSUME Inv, ClearMutes PROVE Inv'
  OBVIOUS
<1>1. /\ matrix' = Unmuted(matrix) /\ live' = Unmuted(live) /\ flipped' = {}
      /\ UNCHANGED <<oplf, skewed>>
      /\ matrix \in Seq(Mix) /\ matrix # <<>> /\ live \in Seq(Mix) /\ live # <<>>
  BY DEF ClearMutes, Inv, Shapes
<1>2. Shapes'
  BY <1>1, UnmutedFacts DEF Inv, Shapes
<1>3. ASSUME Mirrored(matrix, live, flipped) PROVE Mirrored(matrix', live', flipped')
  <2>1. \A i \in DOMAIN matrix : i + 1 \in DOMAIN live
    BY <1>1, <1>3, LenProperties DEF Mirrored
  <2>2. /\ Len(matrix') = Len(matrix) /\ Len(live') = Len(live) /\ DOMAIN matrix' = DOMAIN matrix
        /\ \A i \in DOMAIN matrix : matrix'[i].vol = matrix[i].vol /\ matrix'[i].mute = FALSE
    BY <1>1, UnmutedFacts
  <2>3. ASSUME NEW i \in DOMAIN matrix
        PROVE  live'[i + 1].vol = live[i + 1].vol /\ live'[i + 1].mute = FALSE
    BY <1>1, <2>1, UnmutedFacts
  <2>4. QED
    BY <1>3, <2>2, <2>3 DEF Mirrored
<1>4. QED
  BY <1>1, <1>2, <1>3, MirrorsAgreeIs, InvKept DEF Inv

-----------------------------------------------------------------------------
(* Tracks come and go.                                                      *)

LEMMA Appended ==
    ASSUME NEW s \in Seq(Mix)
    PROVE  /\ Append(s, New) \in Seq(Mix) /\ Append(s, New) # <<>>
           /\ Len(Append(s, New)) = Len(s) + 1 /\ Append(s, New)[Len(s) + 1] = New
           /\ \A i \in DOMAIN s : Append(s, New)[i] = s[i]
           /\ DOMAIN Append(s, New) = DOMAIN s \union {Len(s) + 1}
<1>1. New \in Mix
  BY ConstantMixes
<1> HIDE DEF New
<1>2. Len(s) \in Nat /\ DOMAIN s = 1..Len(s)
  BY LenProperties
<1>3. /\ Append(s, New) \in Seq(Mix)
      /\ Len(Append(s, New)) = Len(s) + 1 /\ Append(s, New)[Len(s) + 1] = New
      /\ \A i \in 1..Len(s) : Append(s, New)[i] = s[i]
  BY <1>1, <1>2
<1>4. DOMAIN Append(s, New) = 1..Len(s) + 1
  BY <1>3, LenProperties
<1>5. 1..Len(s) + 1 = (1..Len(s)) \union {Len(s) + 1}
  BY <1>2
<1>6. Append(s, New) # <<>>
  BY <1>2, <1>4, EmptySeq
<1>7. QED
  BY <1>2, <1>3, <1>4, <1>5, <1>6

LEMMA AddInv == Inv /\ (AddBoth \/ AddRow) => Inv'
<1> SUFFICES ASSUME Inv, AddBoth \/ AddRow PROVE Inv'
  OBVIOUS
<1>1. matrix \in Seq(Mix) /\ live \in Seq(Mix) /\ live # <<>> /\ oplf' = oplf
      /\ matrix' = Append(matrix, New)
  BY DEF Inv, Shapes, AddBoth, AddRow
<1>2. CASE AddBoth
  <2>1. live' = Append(live, New) /\ flipped' = flipped \ {Len(matrix')} /\ skewed' = skewed
    BY <1>2 DEF AddBoth
  <2>2. Shapes'
    BY <1>1, <2>1, Appended DEF Inv, Shapes
  <2>3. ASSUME Mirrored(matrix, live, flipped) PROVE Mirrored(matrix', live', flipped')
    <3>1. Len(live) = Len(matrix) + 1 /\ Len(matrix) \in Nat
          /\ DOMAIN matrix = 1..Len(matrix) /\ DOMAIN live = 1..Len(live)
      BY <1>1, <2>3, LenProperties DEF Mirrored
    <3>2. Len(matrix') = Len(matrix) + 1 /\ Len(live') = Len(live) + 1
          /\ DOMAIN matrix' = DOMAIN matrix \union {Len(matrix) + 1}
      BY <1>1, <2>1, Appended
    <3>3. ASSUME NEW i \in DOMAIN matrix
          PROVE  /\ live'[i + 1].vol = matrix'[i].vol
                 /\ i \notin flipped' => live'[i + 1].mute = matrix'[i].mute
      <4>1. i + 1 \in DOMAIN live /\ i # Len(matrix')
        BY <3>1, <3>2
      <4>2. live'[i + 1] = live[i + 1] /\ matrix'[i] = matrix[i]
        BY <1>1, <2>1, <4>1, Appended
      <4>3. QED
        BY <2>1, <2>3, <4>1, <4>2 DEF Mirrored
    <3>4. live'[Len(live) + 1] = New /\ matrix'[Len(matrix) + 1] = New
      BY <1>1, <2>1, Appended
    <3>5. Len(live') = Len(matrix') + 1 /\ (Len(matrix) + 1) + 1 = Len(live) + 1
      BY <3>1, <3>2
    <3>6. ASSUME NEW i \in DOMAIN matrix', i \notin DOMAIN matrix
          PROVE  live'[i + 1] = matrix'[i]
      <4>1. i = Len(matrix) + 1
        BY <3>2, <3>6
      <4>2. QED
        BY <3>4, <3>5, <4>1
    <3>7. QED
      BY <3>3, <3>5, <3>6 DEF Mirrored
  <2>4. QED
    BY <2>1, <2>2, <2>3, MirrorsAgreeIs, InvKept DEF Inv
<1>3. CASE AddRow
  <2>1. live' = live /\ skewed'
    BY <1>3 DEF AddRow
  <2>2. Shapes'
    BY <1>1, <2>1, Appended DEF Inv, Shapes
  <2>3. QED
    BY <2>1, <2>2, InvKept
<1>4. QED
  BY <1>2, <1>3

LEMMA RemoveInv == Inv /\ RemoveTrack => Inv'
<1> SUFFICES ASSUME Inv, RemoveTrack PROVE Inv'
  OBVIOUS
<1>1. matrix \in Seq(Mix) /\ matrix # <<>> /\ live \in Seq(Mix) /\ live # <<>> /\ oplf' = oplf
      /\ flipped' = flipped \intersect DOMAIN matrix' /\ matrix' = Shorter(matrix)
  BY DEF Inv, Shapes, RemoveTrack, RemoveBoth, RemoveRow
<1>2. CASE RemoveRow /\ skewed' = TRUE
  <2>1. Shapes'
    BY <1>1, <1>2, ShorterFacts DEF Inv, Shapes, RemoveRow
  <2>2. QED
    BY <1>2, <2>1, InvKept
<1>3. CASE RemoveBoth /\ UNCHANGED skewed
  <2>1. live' = IF Len(live) > 2 THEN Shorter(live) ELSE live
    BY <1>3 DEF RemoveBoth
  <2>2. live' \in Seq(Mix) /\ live' # <<>>
    BY <1>1, <2>1, ShorterFacts
  <2>3. Shapes'
    BY <1>1, <2>2, ShorterFacts DEF Inv, Shapes
  <2>4. ASSUME Mirrored(matrix, live, flipped) PROVE Mirrored(matrix', live', flipped')
    <3> DEFINE n == Len(matrix)
    <3>1. Len(live) = n + 1 /\ n \in Nat /\ n # 0
      BY <1>1, <2>4, EmptySeq DEF Mirrored
    <3>2. Len(matrix') = (IF n > 1 THEN n - 1 ELSE n)
      BY <1>1, ShorterFacts
    <3>3. Len(live') = IF n > 1 THEN (n + 1) - 1 ELSE n + 1
      <4> DEFINE l == Len(live)
      <4>1. Len(Shorter(live)) = IF l > 1 THEN l - 1 ELSE l
        BY <1>1, ShorterFacts
      <4>2. Len(live') = IF l > 2 THEN Len(Shorter(live)) ELSE l
        BY <2>1
      <4>3. l = n + 1
        BY <3>1
      <4> HIDE DEF l, n
      <4>4. QED
        BY <3>1, <4>1, <4>2, <4>3
    <3> HIDE DEF n
    <3>4. Len(live') = Len(matrix') + 1 /\ Len(matrix') \in Nat
      BY <3>1, <3>2, <3>3
    <3>5. DOMAIN matrix' = 1..Len(matrix') /\ DOMAIN live' = 1..Len(live')
      BY <2>2, <2>3, LenProperties DEF Shapes
    <3>6. ASSUME NEW i \in DOMAIN matrix'
          PROVE  i \in DOMAIN matrix /\ matrix'[i] = matrix[i] /\ live'[i + 1] = live[i + 1]
      <4>1. i + 1 \in DOMAIN live'
        BY <3>4, <3>5
      <4>2. live'[i + 1] = live[i + 1]
        BY <1>1, <2>1, <4>1, ShorterFacts
      <4>3. QED
        BY <1>1, <4>2, ShorterFacts
    <3>7. QED
      BY <1>1, <2>4, <3>4, <3>6 DEF Mirrored
  <2>5. QED
    BY <1>3, <2>3, <2>4, MirrorsAgreeIs, InvKept DEF Inv
<1>4. QED
  BY <1>2, <1>3 DEF RemoveTrack

-----------------------------------------------------------------------------
(* Project files.                                                           *)

\* A sequence put after one element keeps its elements, one place further.
LEMMA Cons ==
    ASSUME NEW S, NEW a \in S, NEW s \in Seq(S)
    PROVE  /\ <<a>> \o s \in Seq(S) /\ Len(<<a>> \o s) = 1 + Len(s)
           /\ \A i \in 1..Len(s) : (<<a>> \o s)[i + 1] = s[i]
<1> DEFINE one == <<a>>  all == one \o s  n == Len(s)
<1>1. one \in Seq(S) /\ Len(one) = 1 /\ n \in Nat
  BY LenProperties
<1> HIDE DEF one
<1>2. /\ all \in Seq(S) /\ Len(all) = Len(one) + n
      /\ \A i \in 1..Len(one) + n : all[i] = IF i <= Len(one) THEN one[i] ELSE s[i - Len(one)]
  BY <1>1, ConcatProperties
<1> HIDE DEF all, n
<1>3. Len(all) = 1 + n
  BY <1>1, <1>2
<1>4. ASSUME NEW i \in 1..n
      PROVE  all[i + 1] = s[i]
  <2>1. i + 1 \in 1..Len(one) + n /\ ~(i + 1 <= Len(one)) /\ (i + 1) - Len(one) = i
    BY <1>1
  <2>2. QED
    BY <1>2, <2>1
<1>5. QED
  BY <1>2, <1>3, <1>4 DEF all, one, n

\* Whatever the two copies in the file said, what is opened mirrors itself.
LEMMA OpenLiveInv ==
    ASSUME Inv, NEW file, OpenLive(file), oplf' = oplf,
           file.matrix \in Seq(Mix), file.matrix # <<>>, file.live \in Seq(Mix), file.live # <<>>
    PROVE  Inv'
<1> DEFINE strips == Matched(file.live, file.matrix)
           rows == [i \in DOMAIN file.matrix |-> Reconciled(strips[i + 1], file.matrix[i])]
           n == Len(file.matrix)
<1>1. matrix' = rows /\ live' = <<strips[1]>> \o rows /\ skewed' = FALSE
  BY DEF OpenLive
<1>2. n \in Nat /\ n # 0 /\ DOMAIN file.matrix = 1..n /\ 1 \in DOMAIN file.live
  BY LenProperties, EmptySeq
<1>3. ASSUME NEW i \in 1..n + 1
      PROVE  strips[i] \in Mix
  <2>1. strips[i] = IF i \in DOMAIN file.live THEN file.live[i] ELSE file.matrix[i - 1]
    BY DEF Matched
  <2>2. CASE i \in DOMAIN file.live
    BY <2>1, <2>2, ElementIsMix
  <2>3. CASE i \notin DOMAIN file.live
    <3>1. i - 1 \in DOMAIN file.matrix
      BY <1>2, <2>3
    <3>2. QED
      BY <2>1, <2>3, <3>1, ElementIsMix
  <2>4. QED
    BY <2>2, <2>3
<1> HIDE DEF strips
<1>4. ASSUME NEW i \in DOMAIN file.matrix
      PROVE  rows[i] \in Mix
  <2> DEFINE strip == strips[i + 1]  row == file.matrix[i]
  <2>1. i + 1 \in 1..n + 1
    BY <1>2
  <2>2. strip \in Mix /\ row \in Mix
    BY <1>3, <2>1, ElementIsMix
  <2> HIDE DEF strip, row
  <2>3. strip.vol \in Volumes /\ row.vol \in Volumes
    BY <2>2 DEF Mix
  <2>4. (strip.mute \/ row.mute) \in BOOLEAN
    BY Zenon
  <2>5. Reconciled(strip, row) \in Mix
    BY <2>3, <2>4 DEF Reconciled, Mix
  <2>6. QED
    BY <2>5 DEF strip, row
<1>5. rows \in Seq(Mix) /\ Len(rows) = n /\ DOMAIN rows = 1..n
  <2>1. rows \in [1..n -> Mix]
    BY <1>2, <1>4
  <2>2. QED
    BY <1>2, <2>1
<1>6. strips[1] \in Mix
  BY <1>2, <1>3
<1> HIDE DEF rows
<1>7. /\ live' \in Seq(Mix) /\ Len(live') = 1 + n
      /\ \A i \in 1..n : live'[i + 1] = rows[i]
  <2> DEFINE first == strips[1]
  <2>1. first \in Mix /\ live' = <<first>> \o rows
    BY <1>1, <1>6
  <2> HIDE DEF n, first
  <2>2. QED
    BY <2>1, <1>5, Cons
<1> HIDE DEF n
<1>8. matrix' # <<>> /\ live' # <<>>
  BY <1>1, <1>2, <1>5, <1>7, EmptySeq
<1>9. Shapes'
  BY <1>1, <1>5, <1>7, <1>8 DEF Inv, Shapes
<1>10. Mirrored(matrix', live', flipped')
  BY <1>1, <1>2, <1>5, <1>7 DEF Mirrored
<1>11. QED
  BY <1>9, <1>10, InvKept

LEMMA BlankIs ==
    /\ Blank.matrix \in Seq(Mix) /\ Blank.matrix # <<>>
    /\ Blank.live \in Seq(Mix) /\ Blank.live # <<>>
<1>1. New \in Mix /\ Master \in Mix
  BY ConstantMixes
<1> HIDE DEF New, Master
<1>2. Blank.matrix = <<New>> /\ Blank.live = <<Master, New>>
  BY DEF Blank
<1>3. <<New>> \in Seq(Mix) /\ Len(<<New>>) = 1 /\ <<Master, New>> \in Seq(Mix) /\ Len(<<Master, New>>) = 2
  BY <1>1
<1>4. QED
  BY <1>2, <1>3, EmptySeq

LEMMA OpenInv == Inv /\ Open => Inv'
<1> SUFFICES ASSUME Inv, Open PROVE Inv'
  OBVIOUS
<1>1. oplf' = oplf
  BY DEF Open
<1>2. CASE OpenLive(oplf)
  BY <1>1, <1>2, OpenLiveInv DEF Inv, Shapes
<1>3. CASE OpenLive(Blank)
  BY <1>1, <1>3, BlankIs, OpenLiveInv
<1>4. CASE \E file : OpenStudio(file)
  <2>1. UNCHANGED <<matrix, live, skewed, flipped>>
    BY <1>4 DEF OpenStudio
  <2>2. QED
    BY <1>1, <2>1, MirrorsAgreeIs, InvKept DEF Inv, Shapes
<1>5. QED
  BY <1>2, <1>3, <1>4 DEF Open

LEMMA SaveInv == Inv /\ Save => Inv'
<1> SUFFICES ASSUME Inv, Save PROVE Inv'
  OBVIOUS
<1>1. UNCHANGED <<matrix, live, skewed, flipped>>
  BY DEF Save
<1>2. oplf' = [matrix |-> matrix, live |-> live] \/ oplf' = oplf
  BY DEF Save
<1>3. QED
  BY <1>1, <1>2, MirrorsAgreeIs, InvKept DEF Inv, Shapes

-----------------------------------------------------------------------------
LEMMA InitInv == Init => Inv
<1> SUFFICES ASSUME Init PROVE Inv
  OBVIOUS
<1>1. matrix = <<New>> /\ live = <<New, New>> /\ oplf = Blank
  BY DEF Init
<1>2. New \in Mix
  BY ConstantMixes
<1> HIDE DEF New
<1>3. /\ <<New>> \in Seq(Mix) /\ Len(<<New>>) = 1 /\ <<New>>[1] = New /\ DOMAIN <<New>> = {1}
      /\ <<New, New>> \in Seq(Mix) /\ Len(<<New, New>>) = 2 /\ <<New, New>>[2] = New
  BY <1>2
<1>4. Shapes
  BY <1>1, <1>3, BlankIs, EmptySeq DEF Shapes
<1>5. Mirrored(matrix, live, flipped)
  BY <1>1, <1>3 DEF Mirrored
<1>6. QED
  BY <1>4, <1>5, MirrorsAgreeIs DEF Inv

\* The other gestures and the engine leave rows, strips and files alone.
LEMMA OthersInv ==
    ASSUME Inv, UNCHANGED <<matrix, live, oplf, skewed, flipped>>
    PROVE  Inv'
BY MirrorsAgreeIs, InvKept DEF Inv, Shapes

LEMMA NextInv == Inv /\ [Next]_vars => Inv'
<1> SUFFICES ASSUME Inv, [Next]_vars PROVE Inv'
  OBVIOUS
<1>1. CASE LiveVolume
  BY <1>1, LiveVolumeInv
<1>2. CASE StripMute
  BY <1>2, StripMuteInv
<1>3. CASE HeaderMute
  BY <1>3, HeaderMuteInv
<1>4. CASE MasterVolume
  BY <1>4, MasterVolumeInv
<1>5. CASE ClearMutes
  BY <1>5, ClearMutesInv
<1>6. CASE AddBoth \/ AddRow
  BY <1>6, AddInv
<1>7. CASE RemoveTrack
  BY <1>7, RemoveInv
<1>8. CASE Save
  BY <1>8, SaveInv
<1>9. CASE Open
  BY <1>9, OpenInv
<1>10. CASE StudioVolume \/ StudioMute \/ AddStudio \/ RemoveStudio \/ SwitchMode
  BY <1>10, OthersInv DEF StudioVolume, StudioMute, AddStudio, RemoveStudio, SwitchMode
<1>11. CASE Obey \/ Drop \/ UNCHANGED vars
  BY <1>11, OthersInv DEF Obey, Drop, vars, interface, history
<1>12. QED
  BY <1>1, <1>2, <1>3, <1>4, <1>5, <1>6, <1>7, <1>8, <1>9, <1>10, <1>11 DEF Next

LEMMA Invariance == Spec => []Inv
<1>1. QED
  BY InitInv, NextInv, PTL DEF Spec

-----------------------------------------------------------------------------
(* Induction over numbers, from the order of the naturals.                  *)

LEMMA LeastNat ==
    ASSUME NEW T, T \subseteq Nat, T # {}
    PROVE  \E n \in T : \A m \in T : n <= m
<1>1. PICK n \in T : \A m \in T : ~(<<m, n>> \in OpToRel(<, Nat))
  BY NatLessThanWellFounded, WFMin
<1>2. ASSUME NEW m \in T
      PROVE  n <= m
  <2>1. m \in Nat /\ n \in Nat
    OBVIOUS
  <2>2. m < n => <<m, n>> \in OpToRel(<, Nat)
    BY <2>1 DEF OpToRel
  <2>3. ~(m < n)
    BY <1>1, <2>2
  <2> HIDE <1>1
  <2>4. QED
    BY <2>1, <2>3
<1>3. QED
  BY <1>2

\* A set with 0 and with the successor of each of its numbers has them all.
LEMMA Induction ==
    ASSUME NEW T, 0 \in T, \A n \in Nat : n \in T => n + 1 \in T
    PROVE  Nat \subseteq T
<1> DEFINE Others == Nat \ T
<1>1. SUFFICES ASSUME Others # {} PROVE FALSE
  OBVIOUS
<1>2. PICK n \in Others : \A m \in Others : n <= m
  BY <1>1, LeastNat
<1>3. n \in Nat /\ n # 0 /\ n \notin T
  OBVIOUS
<1>4. n - 1 \in Nat /\ n - 1 \notin Others
  BY <1>2, <1>3
<1>5. QED
  BY <1>3, <1>4

\* f[k] is the first k sequences of parts, one after the other.
Joins(f, n, parts, S) ==
    /\ f \in [0..n -> Seq(S)] /\ f[0] = <<>>
    /\ \A i \in 1..n : f[i] = f[i - 1] \o parts[i]

LEMMA JoinExists ==
    ASSUME NEW S, NEW n \in Nat, NEW parts \in [1..n -> Seq(S)]
    PROVE  \E f : Joins(f, n, parts, S)
<1> DEFINE T == {k \in Nat : k <= n => \E f : Joins(f, k, parts, S)}
<1>1. 0 \in T
  <2> DEFINE f == [i \in 0..0 |-> <<>>]
  <2>1. Joins(f, 0, parts, S)
    BY DEF Joins
  <2>2. QED
    BY <2>1
<1>2. ASSUME NEW k \in Nat, k \in T
      PROVE  k + 1 \in T
  <2>1. SUFFICES ASSUME k + 1 <= n PROVE \E f : Joins(f, k + 1, parts, S)
    OBVIOUS
  <2>2. PICK f : Joins(f, k, parts, S)
    BY <1>2, <2>1
  <2> DEFINE g == [i \in 0..k + 1 |-> IF i = k + 1 THEN f[k] \o parts[k + 1] ELSE f[i]]
  <2>3. f[k] \o parts[k + 1] \in Seq(S)
    <3>1. f[k] \in Seq(S) /\ parts[k + 1] \in Seq(S)
      BY <2>1, <2>2 DEF Joins
    <3>2. QED
      BY <3>1, ConcatProperties
  <2>4. g \in [0..k + 1 -> Seq(S)] /\ g[0] = <<>>
    BY <2>2, <2>3 DEF Joins
  <2>5. ASSUME NEW i \in 1..k + 1
        PROVE  g[i] = g[i - 1] \o parts[i]
    <3>1. CASE i = k + 1
      <4>1. i - 1 = k /\ k \in 0..k + 1 /\ k # k + 1
        BY <3>1
      <4>2. g[i] = f[k] \o parts[k + 1] /\ g[k] = f[k]
        BY <3>1, <4>1
      <4>3. QED
        BY <3>1, <4>1, <4>2
    <3>2. CASE i # k + 1
      <4>1. i \in 1..k /\ i - 1 \in 0..k + 1 /\ i - 1 # k + 1
        BY <3>2
      <4>2. g[i] = f[i] /\ g[i - 1] = f[i - 1]
        BY <4>1
      <4>3. f[i] = f[i - 1] \o parts[i]
        BY <2>2, <4>1 DEF Joins
      <4>4. QED
        BY <4>2, <4>3
    <3>3. QED
      BY <3>1, <3>2
  <2>6. QED
    BY <2>4, <2>5 DEF Joins
<1>3. n \in T
  BY <1>1, <1>2, Induction
<1>4. QED
  BY <1>3

-----------------------------------------------------------------------------
(* The commands a list of strips turns into.                                *)

LEMMA CommandVol ==
    ASSUME NEW ch \in Nat, NEW v \in Volumes
    PROVE  [ch |-> ch, vol |-> v] \in Command
BY DEF Command

LEMMA CommandMute ==
    ASSUME NEW ch \in Nat, NEW m \in BOOLEAN
    PROVE  [ch |-> ch, mute |-> m] \in Command
BY DEF Command

LEMMA OneCommand ==
    ASSUME NEW c \in Command
    PROVE  <<c>> \in Seq(Command) /\ <<>> \in Seq(Command)
OBVIOUS

\* The commands of one row: of its fader, of its mute, of both or of neither.
LEMMA RowCommandsType ==
    ASSUME NEW rows \in Seq(Mix), NEW strips, NEW i \in DOMAIN rows, strips[i + 1] \in Mix
    PROVE  RowCommands(strips, rows, i) \in Seq(Command)
<1> DEFINE s == strips[i + 1]
           fader == IF s.vol # Default THEN <<[ch |-> i - 1, vol |-> s.vol]>> ELSE <<>>
           button == IF Reconciled(s, rows[i]).mute THEN <<[ch |-> i - 1, mute |-> TRUE]>> ELSE <<>>
<1>1. i - 1 \in Nat /\ s.vol \in Volumes
  BY LenProperties DEF Mix
<1>2. fader \in Seq(Command)
  <2> DEFINE c == [ch |-> i - 1, vol |-> s.vol]
  <2>1. c \in Command
    BY <1>1, CommandVol
  <2> HIDE DEF c
  <2>2. <<c>> \in Seq(Command) /\ <<>> \in Seq(Command)
    BY <2>1, OneCommand
  <2>3. QED
    BY <2>2 DEF c
<1>3. button \in Seq(Command)
  <2> DEFINE c == [ch |-> i - 1, mute |-> TRUE]
  <2>1. c \in Command
    BY <1>1, CommandMute
  <2> HIDE DEF c
  <2>2. <<c>> \in Seq(Command) /\ <<>> \in Seq(Command)
    BY <2>1, OneCommand
  <2>3. QED
    BY <2>2 DEF c
<1>4. RowCommands(strips, rows, i) = fader \o button
  BY DEF RowCommands
<1> HIDE DEF fader, button
<1>5. QED
  BY <1>2, <1>3, <1>4, ConcatProperties

\* However many rows there are, synchronising them sends well-formed commands.
LEMMA SyncCommandsType ==
    ASSUME NEW rows \in Seq(Mix), NEW strips, \A i \in DOMAIN rows : strips[i + 1] \in Mix
    PROVE  SyncCommands(strips, rows) \in Seq(Command)
<1> DEFINE n == Len(rows)
           parts == [i \in 1..n |-> RowCommands(strips, rows, i)]
           Recursion(g) == g = [i \in 0..n |-> IF i = 0 THEN <<>>
                                               ELSE g[i - 1] \o RowCommands(strips, rows, i)]
           upto == CHOOSE g : Recursion(g)
<1>1. n \in Nat /\ DOMAIN rows = 1..n
  BY LenProperties
<1>2. \A i \in 1..n : RowCommands(strips, rows, i) \in Seq(Command)
  BY <1>1, RowCommandsType
<1>3. PICK f : Joins(f, n, parts, Command)
  <2>1. parts \in [1..n -> Seq(Command)]
    BY <1>2
  <2>2. QED
    BY <1>1, <2>1, JoinExists
<1>4. Recursion(f)
  BY <1>1, <1>3 DEF Joins
<1>5. Recursion(upto)
  BY <1>4
<1>6. SyncCommands(strips, rows) = upto[n]
  BY DEF SyncCommands
<1> DEFINE T == {k \in Nat : k <= n => upto[k] \in Seq(Command)}
<1> HIDE DEF upto
<1>7. 0 \in T
  <2>1. upto[0] = <<>>
    BY <1>1, <1>5
  <2>2. <<>> \in Seq(Command) /\ 0 \in Nat
    OBVIOUS
  <2> HIDE DEF n
  <2>3. QED
    BY <2>1, <2>2
<1>8. ASSUME NEW k \in Nat, k \in T
      PROVE  k + 1 \in T
  <2>1. SUFFICES ASSUME k + 1 <= n PROVE upto[k + 1] \in Seq(Command)
    OBVIOUS
  <2>2. k + 1 \in 0..n /\ k + 1 \in 1..n /\ k + 1 # 0 /\ (k + 1) - 1 = k /\ k <= n
    BY <1>1, <2>1
  <2>3. upto[k + 1] = upto[k] \o RowCommands(strips, rows, k + 1)
    BY <1>5, <2>2
  <2>4. upto[k] \in Seq(Command) /\ RowCommands(strips, rows, k + 1) \in Seq(Command)
    BY <1>2, <1>8, <2>2
  <2>5. QED
    BY <2>3, <2>4, ConcatProperties
<1> HIDE DEF T
<1>9. Nat \subseteq T
  BY <1>7, <1>8, Induction
<1>10. QED
  BY <1>1, <1>6, <1>9 DEF T

\* A fader's and a mute's command for every strip.
LEMMA PushCommandsType ==
    ASSUME NEW strips \in Seq(Mix)
    PROVE  PushCommands(strips) \in Seq(Command)
<1> DEFINE n == Len(strips)
<1>1. n \in Nat /\ DOMAIN strips = 1..n
  BY LenProperties
<1>2. ASSUME NEW k \in 1..2 * n
      PROVE  PushCommands(strips)[k] \in Command
  <2> DEFINE i == (k + 1) \div 2
  <2>1. i \in 1..n
    BY <1>1
  <2>2. strips[i].vol \in Volumes /\ strips[i].mute \in BOOLEAN /\ i - 1 \in Nat
    BY <1>1, <2>1, ElementIsMix
  <2>3. PushCommands(strips)[k] = IF k % 2 = 1 THEN [ch |-> i - 1, vol |-> strips[i].vol]
                                  ELSE [ch |-> i - 1, mute |-> strips[i].mute]
    BY DEF PushCommands
  <2>4. [ch |-> i - 1, vol |-> strips[i].vol] \in Command
    BY <2>2, CommandVol
  <2>5. [ch |-> i - 1, mute |-> strips[i].mute] \in Command
    BY <2>2, CommandMute
  <2> HIDE DEF i
  <2>6. QED
    BY <2>3, <2>4, <2>5
<1>3. PushCommands(strips) \in [1..2 * n -> Command]
  BY <1>2 DEF PushCommands
<1>4. QED
  BY <1>1, <1>3

-----------------------------------------------------------------------------
(* Types, of what Shapes leaves out.                                        *)

Counted ==
    /\ mode \in {"live", "studio"} /\ skewed \in BOOLEAN
    /\ flipped \subseteq Nat /\ told \subseteq Nat \X Controls
    /\ gestures \in 0..MaxGestures /\ lost \in 0..MaxLost

Kept ==
    /\ studio \in Seq(Mix) /\ studio # <<>>
    /\ oplf \in [matrix : Seq(Mix), live : Seq(Mix)]
    /\ opsf \in Seq(Mix) /\ opsf # <<>>

Traffic == queue \in Seq(Command) /\ engine \in [Channels -> Mix]

Typed == Inv /\ Counted /\ Kept /\ Traffic

LEMMA TypedTypes == Typed => TypeOK
BY DEF Typed, Inv, Shapes, Counted, Kept, Traffic, TypeOK

LEMMA TellsType ==
    ASSUME told \subseteq Nat \X Controls, NEW i \in Nat \ {0}, NEW control \in Controls,
           NEW command, Tells(i - 1, control, command)
    PROVE  told' \subseteq Nat \X Controls
<1>1. <<i - 1, control>> \in Nat \X Controls
  OBVIOUS
<1>2. QED
  BY <1>1 DEF Tells

\* A gesture writes one control of one channel, or takes some of told away.
LEMMA ToldStep ==
    ASSUME Inv, Counted, Kept, [Next]_vars
    PROVE  told' \subseteq Nat \X Controls
<1>1. told \subseteq Nat \X Controls
  BY DEF Counted
<1>2. DOMAIN matrix = 1..Len(matrix) /\ DOMAIN studio = 1..Len(studio)
      /\ Len(matrix) \in Nat /\ Len(studio) \in Nat
  BY LenProperties DEF Inv, Shapes, Kept
<1>3. "vol" \in Controls /\ "mute" \in Controls
  BY DEF Controls
<1>4. CASE LiveVolume
  <2>1. PICK i \in Rows, v \in Volumes : Tells(i - 1, "vol", [ch |-> i - 1, vol |-> v])
    BY <1>4 DEF LiveVolume, SetVolume
  <2>2. i \in Nat \ {0}
    BY <1>2 DEF Rows
  <2>3. QED
    BY <1>1, <1>3, <2>1, <2>2, TellsType
<1>5. CASE StripMute
  <2>1. PICK i \in Rows : \E c : Tells(i - 1, "mute", c)
    BY <1>5 DEF StripMute
  <2>2. i \in Nat \ {0}
    BY <1>2 DEF Rows
  <2>3. QED
    BY <1>1, <1>3, <2>1, <2>2, TellsType
<1>6. CASE HeaderMute
  <2>1. PICK i \in Rows : \E c : Tells(i - 1, "mute", c)
    BY <1>6 DEF HeaderMute, ToggleHeader
  <2>2. i \in Nat \ {0}
    BY <1>2 DEF Rows
  <2>3. QED
    BY <1>1, <1>3, <2>1, <2>2, TellsType
<1>7. CASE StudioVolume
  <2>1. PICK i \in DOMAIN studio : \E c : Tells(i - 1, "vol", c)
    BY <1>7 DEF StudioVolume
  <2>2. i \in Nat \ {0}
    BY <1>2
  <2>3. QED
    BY <1>1, <1>3, <2>1, <2>2, TellsType
<1>8. CASE StudioMute
  <2>1. PICK i \in DOMAIN studio : \E c : Tells(i - 1, "mute", c)
    BY <1>8 DEF StudioMute
  <2>2. i \in Nat \ {0}
    BY <1>2
  <2>3. QED
    BY <1>1, <1>3, <2>1, <2>2, TellsType
<1>9. CASE ClearMutes \/ AddBoth \/ AddRow \/ RemoveTrack \/ AddStudio \/ RemoveStudio \/ Drop
  <2>1. told' \subseteq told
    BY <1>9 DEF ClearMutes, AddBoth, AddRow, RemoveTrack, AddStudio, RemoveStudio, Drop, Untold
  <2>2. QED
    BY <1>1, <2>1
<1>10. CASE SwitchMode \/ Open
  <2>1. told' = {}
    BY <1>10 DEF SwitchMode, Open, OpenLive, OpenStudio
  <2>2. QED
    BY <2>1
<1>11. CASE MasterVolume \/ Save \/ Obey \/ UNCHANGED vars
  <2>1. told' = told
    BY <1>11 DEF MasterVolume, Save, Obey, vars, history
  <2>2. QED
    BY <1>1, <2>1
<1>12. QED
  BY <1>4, <1>5, <1>6, <1>7, <1>8, <1>9, <1>10, <1>11 DEF Next

LEMMA FlippedStep ==
    ASSUME Inv, Inv', Counted, [Next]_vars
    PROVE  flipped' \subseteq Nat
<1>1. flipped \subseteq Nat
  BY DEF Counted
<1>2. DOMAIN matrix = 1..Len(matrix)
  BY LenProperties DEF Inv, Shapes
<1>3. CASE HeaderMute
  <2>1. PICK i \in Rows : flipped' = flipped \union {i}
    BY <1>3 DEF HeaderMute
  <2>2. i \in Nat
    BY <1>2 DEF Rows
  <2>3. QED
    BY <1>1, <2>1, <2>2
<1>4. CASE ~HeaderMute
  <2>1. flipped' \subseteq flipped
    <3>1. CASE LiveVolume \/ StudioVolume \/ StudioMute \/ MasterVolume \/ AddRow \/ AddStudio \/ RemoveStudio
               \/ SwitchMode \/ Save
      BY <3>1 DEF LiveVolume, StudioVolume, StudioMute, MasterVolume, AddRow, AddStudio, RemoveStudio,
                  SwitchMode, Save
    <3>2. CASE StripMute \/ ClearMutes \/ AddBoth \/ RemoveTrack
      BY <3>2 DEF StripMute, ClearMutes, AddBoth, RemoveTrack
    <3>3. CASE Open
      BY <3>3 DEF Open, OpenLive, OpenStudio
    <3>4. CASE Obey \/ Drop \/ UNCHANGED vars
      BY <3>4 DEF Obey, Drop, vars, history
    <3>5. QED
      BY <1>4, <3>1, <3>2, <3>3, <3>4, Zenon DEF Next
  <2>2. QED
    BY <1>1, <2>1
<1>5. QED
  BY <1>3, <1>4

LEMMA CountedStep ==
    ASSUME Inv, Inv', Counted, Kept, [Next]_vars
    PROVE  Counted'
<1>1. mode' \in {"live", "studio"}
  <2>1. CASE SwitchMode
    BY <2>1 DEF SwitchMode
  <2>2. CASE Open
    BY <2>2 DEF Open, OpenLive, OpenStudio
  <2>3. CASE ~SwitchMode /\ ~Open
    <3>1. mode' = mode
      BY <2>3 DEF Next, LiveVolume, StripMute, HeaderMute, StudioVolume, StudioMute, MasterVolume, ClearMutes,
                  AddBoth, AddRow, RemoveTrack, AddStudio, RemoveStudio, Save, Obey, Drop, vars, interface
    <3>2. QED
      BY <3>1 DEF Counted
  <2>4. QED
    BY <2>1, <2>2, <2>3
<1>2. skewed' \in BOOLEAN
  <2>1. skewed' = skewed \/ skewed' = TRUE \/ skewed' = FALSE
    <3>1. CASE AddRow \/ RemoveTrack \/ Open
      BY <3>1, Zenon DEF AddRow, RemoveTrack, Open, OpenLive, OpenStudio
    <3>2. CASE LiveVolume \/ StripMute \/ HeaderMute \/ StudioVolume \/ StudioMute \/ MasterVolume
               \/ ClearMutes \/ AddBoth \/ AddStudio \/ RemoveStudio \/ SwitchMode \/ Save
      BY <3>2, Zenon DEF LiveVolume, StripMute, HeaderMute, StudioVolume, StudioMute, MasterVolume, ClearMutes,
                         AddBoth, AddStudio, RemoveStudio, SwitchMode, Save
    <3>3. CASE Obey \/ Drop \/ UNCHANGED vars
      BY <3>3, Zenon DEF Obey, Drop, vars, history
    <3>4. QED
      BY <3>1, <3>2, <3>3, Zenon DEF Next
  <2>2. QED
    BY <2>1, Zenon DEF Counted
<1>3. gestures' \in 0..MaxGestures
  <2>1. CASE Gesture
    BY <2>1, MixerAssumption DEF Gesture, Counted
  <2>2. CASE ~Gesture
    <3>1. gestures' = gestures
      BY <2>2 DEF Next, LiveVolume, StripMute, HeaderMute, StudioVolume, StudioMute, MasterVolume, ClearMutes,
                  AddBoth, AddRow, RemoveTrack, AddStudio, RemoveStudio, SwitchMode, Save, Open, Obey, Drop,
                  vars, history
    <3>2. QED
      BY <3>1 DEF Counted
  <2>3. QED
    BY <2>1, <2>2
<1>4. lost' \in 0..MaxLost
  <2>1. CASE Drop
    BY <2>1, MixerAssumption DEF Drop, Counted
  <2>2. CASE ~Drop
    <3>1. lost' = lost
      BY <2>2 DEF Next, LiveVolume, StripMute, HeaderMute, StudioVolume, StudioMute, MasterVolume, ClearMutes,
                  AddBoth, AddRow, RemoveTrack, AddStudio, RemoveStudio, SwitchMode, Save, Open, Obey, vars
    <3>2. QED
      BY <3>1 DEF Counted
  <2>3. QED
    BY <2>1, <2>2
<1>5. QED
  BY <1>1, <1>2, <1>3, <1>4, ToldStep, FlippedStep DEF Counted

\* The Studio's strips change as the matrix's rows do.
LEMMA StudioStep ==
    ASSUME Inv, Kept, [Next]_vars
    PROVE  studio' \in Seq(Mix) /\ studio' # <<>>
<1>1. studio \in Seq(Mix) /\ studio # <<>> /\ opsf \in Seq(Mix) /\ opsf # <<>>
  BY DEF Kept
<1>2. ASSUME NEW i \in DOMAIN studio, NEW mix \in Mix, studio' = [studio EXCEPT ![i] = mix]
      PROVE  studio' \in Seq(Mix) /\ studio' # <<>>
  <2>1. studio' \in Seq(Mix) /\ Len(studio') = Len(studio)
    BY <1>1, <1>2, Replaced
  <2>2. QED
    BY <1>1, <2>1, EmptySeq
<1>3. CASE StudioVolume
  <2>1. PICK i \in DOMAIN studio \ {1}, v \in Volumes : studio' = [studio EXCEPT ![i].vol = v]
    BY <1>3 DEF StudioVolume
  <2> DEFINE mix == [studio[i] EXCEPT !.vol = v]
  <2>2. mix \in Mix
    BY <1>1, ElementIsMix, MixVol
  <2>3. studio' = [studio EXCEPT ![i] = mix]
    BY <2>1
  <2> HIDE DEF mix
  <2>4. QED
    BY <1>2, <2>2, <2>3
<1>4. CASE StudioMute
  <2>1. PICK i \in DOMAIN studio \ {1} : studio' = [studio EXCEPT ![i].mute = ~@]
    BY <1>4 DEF StudioMute
  <2> DEFINE m == ~studio[i].mute
             mix == [studio[i] EXCEPT !.mute = m]
  <2>2. studio' = [studio EXCEPT ![i] = mix]
    BY <2>1
  <2>3. m \in BOOLEAN
    BY Zenon
  <2> HIDE DEF m
  <2>4. mix \in Mix
    BY <1>1, <2>3, ElementIsMix, MixMute
  <2> HIDE DEF mix
  <2>5. QED
    BY <1>2, <2>2, <2>4
<1>5. CASE MasterVolume
  <2>1. CASE mode = "live"
    BY <1>1, <1>5, <2>1 DEF MasterVolume
  <2>2. CASE mode # "live"
    <3>1. PICK v \in Volumes : studio' = [studio EXCEPT ![1].vol = v]
      BY <1>5, <2>2 DEF MasterVolume
    <3> DEFINE mix == [studio[1] EXCEPT !.vol = v]
    <3>2. 1 \in DOMAIN studio
      BY <1>1, EmptySeq, LenProperties
    <3>3. mix \in Mix
      BY <1>1, <3>2, ElementIsMix, MixVol
    <3>4. studio' = [studio EXCEPT ![1] = mix]
      BY <3>1
    <3> HIDE DEF mix
    <3>5. QED
      BY <1>2, <3>2, <3>3, <3>4
  <2>3. QED
    BY <2>1, <2>2
<1>6. CASE ClearMutes
  BY <1>1, <1>6, UnmutedFacts DEF ClearMutes
<1>7. CASE AddStudio
  BY <1>1, <1>7, Appended DEF AddStudio
<1>8. CASE RemoveStudio
  BY <1>1, <1>8, ShorterFacts DEF RemoveStudio
<1>9. CASE Open
  <2>1. studio' = studio \/ studio' = opsf \/ studio' = BlankStudio
    BY <1>9 DEF Open, OpenLive, OpenStudio
  <2>2. BlankStudio \in Seq(Mix) /\ BlankStudio # <<>>
    <3>1. Master \in Mix
      BY ConstantMixes
    <3> HIDE DEF Master
    <3>2. <<Master, Master>> \in Seq(Mix) /\ Len(<<Master, Master>>) = 2
      BY <3>1
    <3>3. QED
      BY <3>2, EmptySeq DEF BlankStudio
  <2>3. QED
    BY <1>1, <2>1, <2>2
<1>10. CASE LiveVolume \/ StripMute \/ HeaderMute \/ AddBoth \/ AddRow \/ RemoveTrack \/ SwitchMode \/ Save
  BY <1>1, <1>10 DEF LiveVolume, StripMute, HeaderMute, AddBoth, AddRow, RemoveTrack, SwitchMode, Save
<1>11. CASE Obey \/ Drop \/ UNCHANGED vars
  BY <1>1, <1>11 DEF Obey, Drop, vars, interface
<1>12. QED
  BY <1>3, <1>4, <1>5, <1>6, <1>7, <1>8, <1>9, <1>10, <1>11 DEF Next

LEMMA KeptStep ==
    ASSUME Inv, Kept, [Next]_vars
    PROVE  Kept'
<1>1. CASE Save
  <2>1. \/ oplf' = [matrix |-> matrix, live |-> live] /\ opsf' = opsf
        \/ opsf' = studio /\ oplf' = oplf
    BY <1>1, Zenon DEF Save
  <2>2. matrix \in Seq(Mix) /\ live \in Seq(Mix) /\ studio \in Seq(Mix) /\ studio # <<>>
        /\ oplf \in [matrix : Seq(Mix), live : Seq(Mix)] /\ opsf \in Seq(Mix) /\ opsf # <<>>
    BY DEF Inv, Shapes, Kept
  <2>3. oplf' \in [matrix : Seq(Mix), live : Seq(Mix)] /\ opsf' \in Seq(Mix) /\ opsf' # <<>>
    BY <2>1, <2>2
  <2>4. studio' \in Seq(Mix) /\ studio' # <<>>
    BY StudioStep
  <2>5. QED
    BY <2>3, <2>4 DEF Kept
<1>2. CASE ~Save
  <2>1. UNCHANGED <<oplf, opsf>>
    <3>1. CASE Obey \/ Drop \/ UNCHANGED vars
      BY <3>1 DEF Obey, Drop, vars, interface
    <3>2. CASE Open
      BY <3>2 DEF Open
    <3>3. QED
      BY <1>2, <3>1, <3>2 DEF Next, LiveVolume, StripMute, HeaderMute, StudioVolume, StudioMute, MasterVolume,
         ClearMutes, AddBoth, AddRow, RemoveTrack, AddStudio, RemoveStudio, SwitchMode
  <2>2. QED
    BY <2>1, StudioStep DEF Kept
<1>3. QED
  BY <1>1, <1>2

LEMMA MatchedType ==
    ASSUME NEW rows \in Seq(Mix), NEW strips \in Seq(Mix)
    PROVE  \A i \in DOMAIN rows : Matched(strips, rows)[i + 1] \in Mix
<1>1. Len(rows) \in Nat /\ DOMAIN rows = 1..Len(rows)
  BY LenProperties
<1>2. ASSUME NEW i \in DOMAIN rows
      PROVE  Matched(strips, rows)[i + 1] \in Mix
  <2>1. i + 1 \in 1..Len(rows) + 1 /\ (i + 1) - 1 = i
    BY <1>1
  <2>2. Matched(strips, rows)[i + 1] = IF i + 1 \in DOMAIN strips THEN strips[i + 1] ELSE rows[i]
    BY <2>1 DEF Matched
  <2>3. QED
    BY <2>2, ElementIsMix
<1>3. QED
  BY <1>2

\* What opening sends, after whatever is still on its way.
LEMMA OpenQueueType ==
    ASSUME Typed, Inv', Kept', Open
    PROVE  queue' \in Seq(Command)
<1>1. /\ queue \in Seq(Command)
      /\ live \in Seq(Mix) /\ live' \in Seq(Mix) /\ studio \in Seq(Mix) /\ studio' \in Seq(Mix)
  BY DEF Typed, Inv, Shapes, Kept, Traffic
<1>2. ASSUME NEW file, OpenLive(file), file.matrix \in Seq(Mix), file.live \in Seq(Mix)
      PROVE  queue' \in Seq(Command)
  <2> DEFINE sync == SyncCommands(Matched(file.live, file.matrix), file.matrix)
             strips == IF mode = "live" THEN live' ELSE studio
             push == PushCommands(strips)
  <2>1. queue' = queue \o sync \o push
    BY <1>2 DEF OpenLive
  <2>2. sync \in Seq(Command)
    BY <1>2, MatchedType, SyncCommandsType
  <2>3. strips \in Seq(Mix)
    BY <1>1
  <2> HIDE DEF strips
  <2>4. push \in Seq(Command)
    BY <2>3, PushCommandsType
  <2> HIDE DEF sync, push
  <2>5. QED
    BY <1>1, <2>1, <2>2, <2>4, ConcatProperties
<1>3. ASSUME NEW file, OpenStudio(file)
      PROVE  queue' \in Seq(Command)
  <2> DEFINE strips == IF mode = "live" THEN live ELSE studio'
             push == PushCommands(strips)
  <2>1. queue' = queue \o push
    BY <1>3 DEF OpenStudio
  <2>2. strips \in Seq(Mix)
    BY <1>1
  <2> HIDE DEF strips
  <2>3. push \in Seq(Command)
    BY <2>2, PushCommandsType
  <2> HIDE DEF push
  <2>4. QED
    BY <1>1, <2>1, <2>3, ConcatProperties
<1>4. CASE OpenLive(oplf)
  BY <1>2, <1>4 DEF Typed, Inv, Shapes
<1>5. CASE OpenLive(Blank)
  BY <1>2, <1>5, BlankIs
<1>6. QED
  BY <1>3, <1>4, <1>5 DEF Open

LEMMA CommandIs ==
    ASSUME NEW c \in Command
    PROVE  /\ c.ch \in Nat
           /\ \/ "vol" \in DOMAIN c /\ "mute" \notin DOMAIN c /\ c.vol \in Volumes
              \/ "mute" \in DOMAIN c /\ "vol" \notin DOMAIN c /\ c.mute \in BOOLEAN
<1>1. CASE c \in [ch : Nat, vol : Volumes]
  BY <1>1
<1>2. CASE c \in [ch : Nat, mute : BOOLEAN]
  BY <1>2
<1>3. QED
  BY <1>1, <1>2 DEF Command

LEMMA SetType ==
    ASSUME engine \in [Channels -> Mix], NEW c \in Command, Set(c)
    PROVE  engine' \in [Channels -> Mix]
<1>1. CASE c.ch \notin Channels
  BY <1>1 DEF Set
<1>2. CASE c.ch \in Channels
  <2> DEFINE mix == engine[c.ch]
  <2>1. mix \in Mix
    BY <1>2
  <2>2. CASE "vol" \in DOMAIN c
    <3> DEFINE v == c.vol
    <3>1. v \in Volumes
      BY <2>2, CommandIs
    <3>2. engine' = [engine EXCEPT ![c.ch] = [mix EXCEPT !.vol = v]]
      BY <1>2, <2>2 DEF Set
    <3> HIDE DEF v
    <3>3. [mix EXCEPT !.vol = v] \in Mix
      BY <2>1, <3>1, MixVol
    <3>4. QED
      BY <3>2, <3>3
  <2>3. CASE "vol" \notin DOMAIN c
    <3> DEFINE m == c.mute
    <3>1. m \in BOOLEAN
      BY <2>3, CommandIs
    <3>2. engine' = [engine EXCEPT ![c.ch] = [mix EXCEPT !.mute = m]]
      BY <1>2, <2>3 DEF Set
    <3> HIDE DEF m
    <3>3. [mix EXCEPT !.mute = m] \in Mix
      BY <2>1, <3>1, MixMute
    <3>4. QED
      BY <3>2, <3>3
  <2>4. QED
    BY <2>2, <2>3
<1>3. QED
  BY <1>1, <1>2

LEMMA TrafficStep ==
    ASSUME Typed, Inv', Kept', [Next]_vars
    PROVE  Traffic'
<1>1. queue \in Seq(Command) /\ engine \in [Channels -> Mix]
  BY DEF Typed, Traffic
<1>2. DOMAIN matrix \subseteq Nat \ {0} /\ DOMAIN studio \subseteq Nat \ {0}
  <2>1. DOMAIN matrix = 1..Len(matrix) /\ DOMAIN studio = 1..Len(studio)
    BY LenProperties DEF Typed, Inv, Shapes, Kept
  <2>2. QED
    BY <2>1
<1>3. ASSUME NEW i \in Nat \ {0}, NEW control, NEW c \in Command, Tells(i - 1, control, c), engine' = engine
      PROVE  Traffic'
  BY <1>1, <1>3, AppendProperties DEF Tells, Traffic
<1>4. CASE LiveVolume
  <2>1. PICK i \in Rows, v \in Volumes : Tells(i - 1, "vol", [ch |-> i - 1, vol |-> v])
    BY <1>4 DEF LiveVolume, SetVolume
  <2>2. i \in Nat \ {0} /\ i - 1 \in Nat
    BY <1>2 DEF Rows
  <2>3. [ch |-> i - 1, vol |-> v] \in Command /\ engine' = engine
    BY <1>4, <2>2, CommandVol DEF LiveVolume
  <2>4. QED
    BY <1>3, <2>1, <2>2, <2>3
<1>5. CASE StripMute
  <2>1. PICK i \in Rows, m \in BOOLEAN : Tells(i - 1, "mute", [ch |-> i - 1, mute |-> m])
    <3>1. PICK i \in Rows : Tells(i - 1, "mute", [ch |-> i - 1, mute |-> ~matrix[i].mute])
      BY <1>5 DEF StripMute
    <3>2. (~matrix[i].mute) \in BOOLEAN
      BY Zenon
    <3>3. QED
      BY <3>1, <3>2, Zenon
  <2>2. i \in Nat \ {0} /\ i - 1 \in Nat
    BY <1>2 DEF Rows
  <2>3. [ch |-> i - 1, mute |-> m] \in Command /\ engine' = engine
    BY <1>5, <2>2, CommandMute DEF StripMute
  <2>4. QED
    BY <1>3, <2>1, <2>2, <2>3
<1>6. CASE HeaderMute
  <2>1. PICK i \in Rows : Tells(i - 1, "mute", [ch |-> i - 1, mute |-> matrix'[i].mute]) /\ i \in DOMAIN matrix'
    BY <1>6 DEF HeaderMute, ToggleHeader, Rows
  <2>2. i \in Nat \ {0} /\ i - 1 \in Nat
    BY <1>2 DEF Rows
  <2>3. matrix'[i].mute \in BOOLEAN
    <3>1. matrix' \in Seq(Mix)
      BY DEF Inv, Shapes
    <3>2. QED
      BY <2>1, <3>1, ElementIsMix
  <2> DEFINE m == matrix'[i].mute
  <2> HIDE DEF m
  <2>4. [ch |-> i - 1, mute |-> m] \in Command /\ engine' = engine
    BY <1>6, <2>2, <2>3, CommandMute DEF HeaderMute, m
  <2>5. QED
    BY <1>3, <2>1, <2>2, <2>4 DEF m
<1>7. CASE StudioVolume
  <2>1. PICK i \in DOMAIN studio, v \in Volumes : Tells(i - 1, "vol", [ch |-> i - 1, vol |-> v])
    BY <1>7 DEF StudioVolume
  <2>2. i \in Nat \ {0} /\ i - 1 \in Nat
    BY <1>2
  <2>3. [ch |-> i - 1, vol |-> v] \in Command /\ engine' = engine
    BY <1>7, <2>2, CommandVol DEF StudioVolume
  <2>4. QED
    BY <1>3, <2>1, <2>2, <2>3
<1>8. CASE StudioMute
  <2>1. PICK i \in DOMAIN studio : Tells(i - 1, "mute", [ch |-> i - 1, mute |-> studio'[i].mute]) /\ i \in DOMAIN studio'
    BY <1>8 DEF StudioMute
  <2>2. i \in Nat \ {0} /\ i - 1 \in Nat
    BY <1>2
  <2>3. studio'[i].mute \in BOOLEAN
    <3>1. studio' \in Seq(Mix)
      BY DEF Kept
    <3>2. QED
      BY <2>1, <3>1, ElementIsMix
  <2> DEFINE m == studio'[i].mute
  <2> HIDE DEF m
  <2>4. [ch |-> i - 1, mute |-> m] \in Command /\ engine' = engine
    BY <1>8, <2>2, <2>3, CommandMute DEF StudioMute, m
  <2>5. QED
    BY <1>3, <2>1, <2>2, <2>4 DEF m
<1>9. CASE Open
  <2>1. engine' = engine
    BY <1>9 DEF Open
  <2>2. QED
    BY <1>1, <1>9, <2>1, OpenQueueType DEF Traffic
<1>10. CASE Obey \/ Drop
  <2>1. queue # <<>> /\ queue' = Tail(queue)
    BY <1>10 DEF Obey, Drop
  <2>2. Head(queue) \in Command /\ Tail(queue) \in Seq(Command)
    BY <1>1, <2>1, HeadTailProperties
  <2>3. engine' = engine \/ Set(Head(queue))
    BY <1>10 DEF Obey, Drop
  <2>4. engine' \in [Channels -> Mix]
    BY <1>1, <2>2, <2>3, SetType
  <2>5. QED
    BY <2>1, <2>2, <2>4 DEF Traffic
<1>11. CASE MasterVolume \/ ClearMutes \/ AddBoth \/ AddRow \/ RemoveTrack \/ AddStudio \/ RemoveStudio
            \/ SwitchMode \/ Save \/ UNCHANGED vars
  <2>1. UNCHANGED <<queue, engine>>
    BY <1>11 DEF MasterVolume, ClearMutes, AddBoth, AddRow, RemoveTrack, AddStudio, RemoveStudio,
                 SwitchMode, Save, vars
  <2>2. QED
    BY <1>1, <2>1 DEF Traffic
<1>12. QED
  BY <1>4, <1>5, <1>6, <1>7, <1>8, <1>9, <1>10, <1>11 DEF Next

LEMMA InitTyped == Init => Typed
<1> SUFFICES ASSUME Init PROVE Typed
  OBVIOUS
<1>1. New \in Mix /\ Master \in Mix
  BY ConstantMixes
<1>2. Kept
  <2> HIDE DEF New, Master
  <2>1. <<Master, Master>> \in Seq(Mix) /\ Len(<<Master, Master>>) = 2
        /\ <<New>> \in Seq(Mix) /\ <<Master, New>> \in Seq(Mix)
    BY <1>1
  <2>2. QED
    BY <2>1, EmptySeq DEF Init, Kept, Blank, BlankStudio
<1>3. Counted /\ Traffic
  <2> HIDE DEF New, Master
  <2>1. Counted
    <3>1. mode = "live" /\ flipped = {} /\ told = {0} \X Controls /\ gestures = 0 /\ lost = 0
      BY DEF Init
    <3>2. skewed \in BOOLEAN
      BY Zenon DEF Init
    <3>3. gestures \in 0..MaxGestures /\ lost \in 0..MaxLost
      BY <3>1, MixerAssumption
    <3>4. QED
      BY <3>1, <3>2, <3>3 DEF Counted
  <2>2. Traffic
    BY <1>1 DEF Init, Traffic
  <2>3. QED
    BY <2>1, <2>2
<1>4. QED
  BY <1>2, <1>3, InitInv DEF Typed

LEMMA NextTyped == Typed /\ [Next]_vars => Typed'
<1> SUFFICES ASSUME Typed, [Next]_vars PROVE Typed'
  OBVIOUS
<1>1. Inv' /\ Kept'
  BY NextInv, KeptStep DEF Typed
<1>2. Counted' /\ Traffic'
  BY <1>1, CountedStep, TrafficStep DEF Typed
<1>3. QED
  BY <1>1, <1>2 DEF Typed

-----------------------------------------------------------------------------
(* What the commands on their way make of a control.                        *)

For(c, ch, control) == c.ch = ch /\ control \in DOMAIN c

Last(q, j, ch, control) ==
    For(q[j], ch, control) /\ \A l \in DOMAIN q : l > j => ~For(q[l], ch, control)

\* Once the commands of q are through, the control has this value.
Settles(q, played, ch, control, value) ==
    /\ \A j \in DOMAIN q : Last(q, j, ch, control) => q[j][control] = value
    /\ (\A j \in DOMAIN q : ~For(q[j], ch, control)) => played[ch][control] = value

\* The list whose controls are on the screen.
Showing == IF mode = "live" THEN matrix ELSE studio

Heard ==
    \A ch \in Channels, control \in Controls : <<ch, control>> \in told =>
        /\ ch + 1 \in DOMAIN Showing
        /\ Settles(queue, engine, ch, control, Showing[ch + 1][control])

LEMMA HeardIsHeard == Heard => ToldIsHeard
<1> SUFFICES ASSUME Heard, queue = <<>>, NEW ch \in Channels
             PROVE  /\ <<ch, "vol">> \in told => engine[ch].vol = Shown(ch).vol
                    /\ <<ch, "mute">> \in told => engine[ch].mute = Shown(ch).mute
  BY DEF ToldIsHeard
<1>1. ASSUME NEW control \in Controls, <<ch, control>> \in told
      PROVE  engine[ch][control] = Showing[ch + 1][control]
  <2>1. Settles(queue, engine, ch, control, Showing[ch + 1][control])
    BY <1>1 DEF Heard
  <2>2. DOMAIN queue = {}
    OBVIOUS
  <2>3. QED
    BY <2>1, <2>2 DEF Settles
<1>2. Showing[ch + 1] = Shown(ch)
  BY DEF Showing, Shown
<1>3. QED
  BY <1>1, <1>2 DEF Controls

\* A command sent settles its own control and leaves the others as they were.
LEMMA AppendSettles ==
    ASSUME NEW q \in Seq(Command), NEW c \in Command, NEW played, NEW ch, NEW control, NEW value,
           \/ For(c, ch, control) /\ value = c[control]
           \/ ~For(c, ch, control) /\ Settles(q, played, ch, control, value)
    PROVE  Settles(Append(q, c), played, ch, control, value)
<1> DEFINE n == Len(q)  all == Append(q, c)
<1>1. n \in Nat /\ DOMAIN q = 1..n
  BY LenProperties
<1>2. /\ all \in Seq(Command) /\ Len(all) = n + 1 /\ all[n + 1] = c
      /\ \A j \in 1..n : all[j] = q[j]
  BY AppendProperties
<1>3. DOMAIN all = 1..n + 1
  BY <1>2, LenProperties
<1> HIDE DEF all, n
<1>4. n + 1 \in DOMAIN all /\ \A j \in DOMAIN all : j = n + 1 \/ (j \in 1..n /\ n + 1 > j)
  <2>1. n + 1 \in 1..n + 1
    BY <1>1
  <2>2. \A j \in 1..n + 1 : j = n + 1 \/ (j \in 1..n /\ n + 1 > j)
    BY <1>1
  <2>3. QED
    BY <1>3, <2>1, <2>2
<1>5. CASE For(c, ch, control) /\ value = c[control]
  <2>1. ASSUME NEW j \in DOMAIN all, Last(all, j, ch, control)
        PROVE  all[j][control] = value
    <3>1. j = n + 1
      BY <1>2, <1>4, <1>5, <2>1 DEF Last
    <3>2. QED
      BY <1>2, <1>5, <3>1
  <2>2. QED
    BY <1>2, <1>4, <1>5, <2>1 DEF Settles, all
<1>6. CASE ~For(c, ch, control) /\ Settles(q, played, ch, control, value)
  <2>1. ASSUME NEW j \in DOMAIN all, Last(all, j, ch, control)
        PROVE  all[j][control] = value
    <3>1. j \in 1..n
      BY <1>2, <1>4, <1>6, <2>1 DEF Last
    <3>2. For(q[j], ch, control) /\ all[j] = q[j]
      BY <1>2, <2>1, <3>1 DEF Last
    <3>3. ASSUME NEW l \in 1..n, l > j
          PROVE  ~For(q[l], ch, control)
      <4>1. l \in DOMAIN all /\ all[l] = q[l]
        BY <1>1, <1>2, <1>3
      <4>2. QED
        BY <2>1, <3>3, <4>1 DEF Last
    <3>4. Last(q, j, ch, control)
      BY <1>1, <3>2, <3>3 DEF Last
    <3>5. QED
      BY <1>1, <1>6, <3>1, <3>2, <3>4 DEF Settles
  <2>2. ASSUME \A j \in DOMAIN all : ~For(all[j], ch, control)
        PROVE  played[ch][control] = value
    <3>1. \A j \in DOMAIN q : ~For(q[j], ch, control)
      <4>1. \A j \in 1..n : j \in DOMAIN all
        BY <1>1, <1>3
      <4>2. QED
        BY <1>1, <1>2, <2>2, <4>1
    <3>2. QED
      BY <1>6, <3>1 DEF Settles
  <2>3. QED
    BY <2>1, <2>2 DEF Settles, all
<1>7. QED
  BY <1>5, <1>6

\* The first command taken away, executed or, if it is another control's, lost.
LEMMA TailSettles ==
    ASSUME NEW q \in Seq(Command), q # <<>>, NEW before, NEW after, NEW ch, NEW control, NEW value,
           Settles(q, before, ch, control, value),
           after[ch][control] = IF For(Head(q), ch, control) THEN Head(q)[control]
                                ELSE before[ch][control]
    PROVE  Settles(Tail(q), after, ch, control, value)
<1> DEFINE n == Len(q)  rest == Tail(q)
<1>1. n \in Nat /\ n # 0 /\ DOMAIN q = 1..n /\ Head(q) = q[1]
  BY LenProperties, EmptySeq
<1>2. /\ rest \in Seq(Command) /\ Len(rest) = n - 1
      /\ \A j \in 1..Len(rest) : rest[j] = q[j + 1]
  BY HeadTailProperties
<1>3. DOMAIN rest = 1..n - 1
  BY <1>2, LenProperties
<1> HIDE DEF rest, n
<1>4. \A j \in DOMAIN rest : j + 1 \in DOMAIN q /\ rest[j] = q[j + 1]
  BY <1>1, <1>2, <1>3
<1>5. \A l \in DOMAIN q : l = 1 \/ (l - 1 \in DOMAIN rest /\ rest[l - 1] = q[l])
  <2>1. ASSUME NEW l \in 1..n, l # 1
        PROVE  l - 1 \in 1..n - 1 /\ (l - 1) + 1 = l
    BY <1>1, <2>1
  <2>2. QED
    BY <1>1, <1>3, <1>4, <2>1
<1>6. ASSUME NEW j \in DOMAIN rest, Last(rest, j, ch, control)
      PROVE  rest[j][control] = value
  <2>1. For(q[j + 1], ch, control)
    BY <1>4, <1>6 DEF Last
  <2>2. ASSUME NEW l \in DOMAIN q, l > j + 1
        PROVE  ~For(q[l], ch, control)
    <3>1. l # 1 /\ l - 1 > j
      BY <1>1, <1>3, <2>2
    <3>2. QED
      BY <1>5, <1>6, <3>1 DEF Last
  <2>3. Last(q, j + 1, ch, control)
    BY <2>1, <2>2 DEF Last
  <2>4. QED
    BY <1>4, <2>3 DEF Settles
<1>7. ASSUME \A j \in DOMAIN rest : ~For(rest[j], ch, control)
      PROVE  after[ch][control] = value
  <2>1. \A l \in DOMAIN q : l > 1 => ~For(q[l], ch, control)
    BY <1>1, <1>5, <1>7
  <2>2. CASE For(Head(q), ch, control)
    <3>1. Last(q, 1, ch, control) /\ 1 \in DOMAIN q
      BY <1>1, <2>1, <2>2 DEF Last
    <3>2. q[1][control] = value
      BY <3>1 DEF Settles
    <3>3. QED
      BY <1>1, <2>2, <3>2
  <2>3. CASE ~For(Head(q), ch, control)
    <3>1. \A l \in DOMAIN q : ~For(q[l], ch, control)
      <4>1. \A l \in DOMAIN q : l = 1 \/ l > 1
        BY <1>1
      <4>2. QED
        BY <1>1, <2>1, <2>3, <4>1
    <3>2. QED
      BY <2>3, <3>1 DEF Settles
  <2>4. QED
    BY <2>2, <2>3
<1>8. QED
  BY <1>6, <1>7 DEF Settles, rest

\* Executing a command changes the control it is for and no other.
LEMMA SetIs ==
    ASSUME engine \in [Channels -> Mix], NEW c \in Command, Set(c),
           NEW ch \in Channels, NEW control \in Controls
    PROVE  engine'[ch][control] = IF For(c, ch, control) THEN c[control] ELSE engine[ch][control]
<1> DEFINE mix == engine[ch]
<1>1. mix \in Mix
  OBVIOUS
<1>2. CASE c.ch # ch
  <2>1. engine'[ch] = engine[ch]
    BY <1>2 DEF Set
  <2>2. QED
    BY <1>2, <2>1 DEF For
<1>3. CASE c.ch = ch /\ "vol" \in DOMAIN c
  <2>1. "mute" \notin DOMAIN c /\ c.vol \in Volumes
    BY <1>3, CommandIs
  <2>2. engine'[ch] = [mix EXCEPT !.vol = c.vol]
    BY <1>3 DEF Set
  <2> DEFINE v == c.vol
  <2>3. engine'[ch] = [mix EXCEPT !.vol = v] /\ v \in Volumes
    BY <2>1, <2>2
  <2> HIDE DEF mix, v
  <2>4. engine'[ch].vol = v /\ engine'[ch].mute = mix.mute
    BY <1>1, <2>3, MixVol
  <2>5. QED
    BY <1>3, <2>1, <2>4 DEF For, Controls, mix, v
<1>4. CASE c.ch = ch /\ "vol" \notin DOMAIN c
  <2>1. "mute" \in DOMAIN c /\ c.mute \in BOOLEAN
    BY <1>4, CommandIs
  <2>2. engine'[ch] = [mix EXCEPT !.mute = c.mute]
    BY <1>4 DEF Set
  <2> DEFINE m == c.mute
  <2>3. engine'[ch] = [mix EXCEPT !.mute = m] /\ m \in BOOLEAN
    BY <2>1, <2>2
  <2> HIDE DEF mix, m
  <2>4. engine'[ch].mute = m /\ engine'[ch].vol = mix.vol
    BY <1>1, <2>3, MixMute
  <2>5. QED
    BY <1>4, <2>1, <2>4 DEF For, Controls, mix, m
<1>5. QED
  BY <1>2, <1>3, <1>4

-----------------------------------------------------------------------------
(* What is shown is what will be heard.                                     *)

\* A gesture that writes control of place i of the list shown and says so.
LEMMA SaidIsHeard ==
    ASSUME Typed, Heard, engine' = engine,
           NEW i \in DOMAIN Showing, NEW control \in Controls, NEW c \in Command,
           Tells(i - 1, control, c), For(c, i - 1, control),
           \A ch \in Channels, k \in Controls : For(c, ch, k) => k = control,
           DOMAIN Showing' = DOMAIN Showing, Showing'[i][control] = c[control],
           \A j \in DOMAIN Showing, k \in Controls :
               j # i \/ k # control => Showing'[j][k] = Showing[j][k]
    PROVE  Heard'
<1>1. queue \in Seq(Command) /\ queue' = Append(queue, c) /\ told' = told \union {<<i - 1, control>>}
  BY DEF Typed, Traffic, Tells
<1>2. DOMAIN Showing \subseteq Nat
  BY LenProperties DEF Typed, Inv, Shapes, Kept, Showing
<1>3. SUFFICES ASSUME NEW ch \in Channels, NEW k \in Controls, <<ch, k>> \in told'
               PROVE  /\ ch + 1 \in DOMAIN Showing'
                      /\ Settles(queue', engine', ch, k, Showing'[ch + 1][k])
  BY DEF Heard
<1>4. ch \in Nat /\ i \in Nat /\ (ch + 1) - 1 = ch
  BY <1>2, MixerAssumption DEF Channels
<1>5. CASE ch = i - 1 /\ k = control
  <2>1. ch + 1 = i
    BY <1>4, <1>5
  <2>2. For(c, ch, k) /\ Showing'[ch + 1][k] = c[k]
    BY <1>5, <2>1
  <2>3. Settles(Append(queue, c), engine, ch, k, Showing'[ch + 1][k])
    BY <1>1, <2>2, AppendSettles
  <2>4. QED
    BY <1>1, <2>1, <2>3
<1>6. CASE ~(ch = i - 1 /\ k = control)
  <2>1. <<ch, k>> \in told
    BY <1>1, <1>3, <1>6
  <2>2. ch + 1 \in DOMAIN Showing /\ Settles(queue, engine, ch, k, Showing[ch + 1][k])
    BY <2>1 DEF Heard
  <2>3. ch + 1 # i \/ k # control
    BY <1>4, <1>6
  <2>4. Showing'[ch + 1][k] = Showing[ch + 1][k]
    BY <2>2, <2>3
  <2>5. ~For(c, ch, k)
    <3>1. c.ch = i - 1
      BY DEF For
    <3>2. QED
      BY <1>6, <3>1 DEF For
  <2>6. Settles(Append(queue, c), engine, ch, k, Showing'[ch + 1][k])
    BY <1>1, <2>2, <2>4, <2>5, AppendSettles
  <2>7. QED
    BY <1>1, <2>2, <2>6
<1>7. QED
  BY <1>5, <1>6

\* A step that says nothing, and changes no control it does not also disclaim.
LEMMA SilentIsHeard ==
    ASSUME Heard, UNCHANGED <<queue, engine>>, told' \subseteq told,
           \A ch \in Channels, k \in Controls :
               <<ch, k>> \in told' /\ ch + 1 \in DOMAIN Showing =>
                   ch + 1 \in DOMAIN Showing' /\ Showing'[ch + 1][k] = Showing[ch + 1][k]
    PROVE  Heard'
<1> SUFFICES ASSUME NEW ch \in Channels, NEW k \in Controls, <<ch, k>> \in told'
             PROVE  /\ ch + 1 \in DOMAIN Showing'
                    /\ Settles(queue', engine', ch, k, Showing'[ch + 1][k])
  BY DEF Heard
<1>1. ch + 1 \in DOMAIN Showing /\ Settles(queue, engine, ch, k, Showing[ch + 1][k])
  BY DEF Heard
<1>2. QED
  BY <1>1

LEMMA ShowingIs ==
    ASSUME Typed
    PROVE  /\ Showing \in Seq(Mix) /\ Showing # <<>>
           /\ DOMAIN Showing = 1..Len(Showing) /\ Len(Showing) \in Nat
           /\ mode = "live" => Showing = matrix
           /\ mode = "studio" => Showing = studio
<1>1. matrix \in Seq(Mix) /\ matrix # <<>> /\ studio \in Seq(Mix) /\ studio # <<>>
  BY DEF Typed, Inv, Shapes, Kept
<1>2. Showing \in Seq(Mix) /\ Showing # <<>>
  BY <1>1 DEF Showing
<1>3. (mode = "live" => Showing = matrix) /\ (mode = "studio" => Showing = studio)
  BY DEF Showing
<1>4. QED
  BY <1>2, <1>3, LenProperties

\* The fader of place i of the list shown.
LEMMA VolumeIsHeard ==
    ASSUME Typed, Heard, engine' = engine, NEW i \in DOMAIN Showing, NEW v \in Volumes,
           Showing' = [Showing EXCEPT ![i] = [Showing[i] EXCEPT !.vol = v]],
           Tells(i - 1, "vol", [ch |-> i - 1, vol |-> v])
    PROVE  Heard'
<1> DEFINE mix == Showing[i]  moved == [mix EXCEPT !.vol = v]  c == [ch |-> i - 1, vol |-> v]
<1>1. mix \in Mix /\ i - 1 \in Nat
  BY ShowingIs, ElementIsMix
<1>2. moved.vol = v /\ moved.mute = mix.mute
  BY <1>1, MixVol
<1>3. c \in Command /\ For(c, i - 1, "vol") /\ ~("mute" \in DOMAIN c) /\ c.vol = v
  BY <1>1, CommandVol DEF For
<1>4. \A ch \in Channels, k \in Controls : For(c, ch, k) => k = "vol"
  BY <1>3 DEF For, Controls
<1>5. Showing' = [Showing EXCEPT ![i] = moved] /\ Tells(i - 1, "vol", c)
  OBVIOUS
<1> HIDE DEF moved, c
<1>6. DOMAIN Showing' = DOMAIN Showing /\ Showing'[i] = moved
      /\ \A j \in DOMAIN Showing : j # i => Showing'[j] = Showing[j]
  BY <1>5, ShowingIs
<1>7. \A j \in DOMAIN Showing, k \in Controls :
          j # i \/ k # "vol" => Showing'[j][k] = Showing[j][k]
  BY <1>2, <1>6 DEF Controls
<1>8. Showing'[i]["vol"] = c["vol"]
  BY <1>2, <1>3, <1>6
<1>9. "vol" \in Controls
  BY DEF Controls
<1>10. QED
  BY <1>3, <1>4, <1>5, <1>6, <1>7, <1>8, <1>9, SaidIsHeard

LEMMA MuteIsHeard ==
    ASSUME Typed, Heard, engine' = engine, NEW i \in DOMAIN Showing, NEW m \in BOOLEAN,
           Showing' = [Showing EXCEPT ![i] = [Showing[i] EXCEPT !.mute = m]],
           Tells(i - 1, "mute", [ch |-> i - 1, mute |-> m])
    PROVE  Heard'
<1> DEFINE mix == Showing[i]  moved == [mix EXCEPT !.mute = m]  c == [ch |-> i - 1, mute |-> m]
<1>1. mix \in Mix /\ i - 1 \in Nat
  BY ShowingIs, ElementIsMix
<1>2. moved.mute = m /\ moved.vol = mix.vol
  BY <1>1, MixMute
<1>3. c \in Command /\ For(c, i - 1, "mute") /\ ~("vol" \in DOMAIN c) /\ c.mute = m
  BY <1>1, CommandMute DEF For
<1>4. \A ch \in Channels, k \in Controls : For(c, ch, k) => k = "mute"
  BY <1>3 DEF For, Controls
<1>5. Showing' = [Showing EXCEPT ![i] = moved] /\ Tells(i - 1, "mute", c)
  OBVIOUS
<1> HIDE DEF moved, c
<1>6. DOMAIN Showing' = DOMAIN Showing /\ Showing'[i] = moved
      /\ \A j \in DOMAIN Showing : j # i => Showing'[j] = Showing[j]
  BY <1>5, ShowingIs
<1>7. \A j \in DOMAIN Showing, k \in Controls :
          j # i \/ k # "mute" => Showing'[j][k] = Showing[j][k]
  BY <1>2, <1>6 DEF Controls
<1>8. Showing'[i]["mute"] = c["mute"]
  BY <1>2, <1>3, <1>6
<1>9. "mute" \in Controls
  BY DEF Controls
<1>10. QED
  BY <1>3, <1>4, <1>5, <1>6, <1>7, <1>8, <1>9, SaidIsHeard

\* The Studio's master has channel 0's place on the screen and says nothing.
MasterIsSilent == mode = "studio" => \A k \in Controls : <<0, k>> \notin told

LEMMA MasterStep ==
    ASSUME Typed, MasterIsSilent, [Next]_vars
    PROVE  MasterIsSilent'
<1>1. CASE SwitchMode \/ Open
  <2>1. told' = {}
    BY <1>1 DEF SwitchMode, Open, OpenLive, OpenStudio
  <2>2. QED
    BY <2>1 DEF MasterIsSilent
<1>2. CASE LiveVolume \/ StripMute \/ HeaderMute \/ AddBoth \/ AddRow \/ RemoveTrack
  <2>1. mode' = "live"
    BY <1>2 DEF LiveVolume, StripMute, HeaderMute, AddBoth, AddRow, RemoveTrack
  <2>2. QED
    BY <2>1 DEF MasterIsSilent
<1>3. CASE StudioVolume \/ StudioMute
  <2>1. PICK i \in DOMAIN studio \ {1}, control \in Controls : told' = told \union {<<i - 1, control>>}
    BY <1>3 DEF StudioVolume, StudioMute, Tells, Controls
  <2>2. mode' = mode
    BY <1>3 DEF StudioVolume, StudioMute
  <2>3. i \in Nat
    BY LenProperties DEF Typed, Kept
  <2>4. i - 1 # 0
    BY <2>3
  <2>5. QED
    BY <2>1, <2>2, <2>4 DEF MasterIsSilent
<1>4. CASE MasterVolume \/ ClearMutes \/ AddStudio \/ RemoveStudio \/ Save \/ Obey \/ Drop \/ UNCHANGED vars
  <2>1. mode' = mode /\ told' \subseteq told
    BY <1>4 DEF MasterVolume, ClearMutes, AddStudio, RemoveStudio, Save, Obey, Drop, Untold,
                vars, interface, history
  <2>2. QED
    BY <2>1 DEF MasterIsSilent
<1>5. QED
  BY <1>1, <1>2, <1>3, <1>4 DEF Next

LEMMA ControlHeard ==
    ASSUME Typed, Typed', Heard,
           LiveVolume \/ StripMute \/ HeaderMute \/ StudioVolume \/ StudioMute
    PROVE  Heard'
<1>1. Showing' = IF mode' = "live" THEN matrix' ELSE studio'
  BY DEF Showing
<1>2. CASE LiveVolume
  <2>1. PICK i \in Rows, v \in Volumes : SetVolume(i, v)
    BY <1>2 DEF LiveVolume
  <2>2. Showing = matrix /\ Showing' = matrix' /\ engine' = engine
    BY <1>1, <1>2, ShowingIs DEF LiveVolume
  <2>3. matrix' = [matrix EXCEPT ![i] = [matrix[i] EXCEPT !.vol = v]]
        /\ Tells(i - 1, "vol", [ch |-> i - 1, vol |-> v])
    BY <2>1 DEF SetVolume
  <2>4. QED
    BY <2>2, <2>3, VolumeIsHeard DEF Rows
<1>3. CASE StripMute
  <2>1. PICK i \in Rows :
            /\ matrix' = [matrix EXCEPT ![i].mute = ~matrix[i].mute]
            /\ Tells(i - 1, "mute", [ch |-> i - 1, mute |-> ~matrix[i].mute])
    BY <1>3, Zenon DEF StripMute
  <2> DEFINE m == ~matrix[i].mute
  <2>2. Showing = matrix /\ Showing' = matrix' /\ engine' = engine
    BY <1>1, <1>3, ShowingIs DEF StripMute
  <2>3. m \in BOOLEAN
    BY Zenon
  <2>4. matrix' = [matrix EXCEPT ![i] = [matrix[i] EXCEPT !.mute = m]]
        /\ Tells(i - 1, "mute", [ch |-> i - 1, mute |-> m])
    BY <2>1
  <2> HIDE DEF m
  <2>5. QED
    BY <2>2, <2>3, <2>4, MuteIsHeard DEF Rows
<1>4. CASE HeaderMute
  <2>1. PICK i \in Rows :
            /\ matrix' = [matrix EXCEPT ![i].mute = ~@]
            /\ Tells(i - 1, "mute", [ch |-> i - 1, mute |-> matrix'[i].mute])
    BY <1>4, Zenon DEF HeaderMute, ToggleHeader
  <2> DEFINE m == ~matrix[i].mute
  <2>2. Showing = matrix /\ Showing' = matrix' /\ engine' = engine
    BY <1>1, <1>4, ShowingIs DEF HeaderMute
  <2>3. m \in BOOLEAN
    BY Zenon
  <2>4. matrix' = [matrix EXCEPT ![i] = [matrix[i] EXCEPT !.mute = m]]
    BY <2>1
  <2> HIDE DEF m
  <2>5. matrix'[i].mute = m
    <3>1. matrix[i] \in Mix /\ i \in DOMAIN matrix
      BY ElementIsMix DEF Typed, Inv, Shapes, Rows
    <3> DEFINE moved == [matrix[i] EXCEPT !.mute = m]
    <3>2. moved.mute = m
      BY <2>3, <3>1, MixMute
    <3> HIDE DEF moved
    <3>3. matrix' = [matrix EXCEPT ![i] = moved]
      BY <2>4 DEF moved
    <3>4. matrix'[i] = moved
      BY <3>1, <3>3
    <3>5. QED
      BY <3>2, <3>4
  <2>6. Tells(i - 1, "mute", [ch |-> i - 1, mute |-> m])
    BY <2>1, <2>5
  <2>7. QED
    BY <2>2, <2>3, <2>4, <2>6, MuteIsHeard DEF Rows
<1>5. CASE StudioVolume
  <2>1. PICK i \in DOMAIN studio, v \in Volumes :
            /\ studio' = [studio EXCEPT ![i].vol = v]
            /\ Tells(i - 1, "vol", [ch |-> i - 1, vol |-> v])
    BY <1>5 DEF StudioVolume
  <2>2. Showing = studio /\ Showing' = studio' /\ engine' = engine
    BY <1>1, <1>5, ShowingIs DEF StudioVolume
  <2>3. studio' = [studio EXCEPT ![i] = [studio[i] EXCEPT !.vol = v]]
    BY <2>1
  <2>4. QED
    BY <2>1, <2>2, <2>3, VolumeIsHeard
<1>6. CASE StudioMute
  <2>1. PICK i \in DOMAIN studio :
            /\ studio' = [studio EXCEPT ![i].mute = ~@]
            /\ Tells(i - 1, "mute", [ch |-> i - 1, mute |-> studio'[i].mute])
    BY <1>6, Zenon DEF StudioMute
  <2> DEFINE m == ~studio[i].mute
  <2>2. Showing = studio /\ Showing' = studio' /\ engine' = engine
    BY <1>1, <1>6, ShowingIs DEF StudioMute
  <2>3. m \in BOOLEAN
    BY Zenon
  <2>4. studio' = [studio EXCEPT ![i] = [studio[i] EXCEPT !.mute = m]]
    BY <2>1
  <2> HIDE DEF m
  <2>5. studio'[i].mute = m
    <3>1. studio[i] \in Mix
      BY ElementIsMix DEF Typed, Kept
    <3> DEFINE moved == [studio[i] EXCEPT !.mute = m]
    <3>2. moved.mute = m
      BY <2>3, <3>1, MixMute
    <3> HIDE DEF moved
    <3>3. studio' = [studio EXCEPT ![i] = moved]
      BY <2>4 DEF moved
    <3>4. studio'[i] = moved
      BY <3>3
    <3>5. QED
      BY <3>2, <3>4
  <2>6. Tells(i - 1, "mute", [ch |-> i - 1, mute |-> m])
    BY <2>1, <2>5
  <2>7. QED
    BY <2>2, <2>3, <2>4, <2>6, MuteIsHeard
<1>7. QED
  BY <1>2, <1>3, <1>4, <1>5, <1>6

LEMMA LongerKeeps ==
    ASSUME Typed, Heard, UNCHANGED <<queue, engine>>, told' \subseteq told,
           Showing' = Append(Showing, New)
    PROVE  Heard'
<1>1. \A j \in DOMAIN Showing : j \in DOMAIN Showing' /\ Showing'[j] = Showing[j]
  BY ShowingIs, Appended
<1>2. QED
  BY <1>1, SilentIsHeard

LEMMA ShorterKeeps ==
    ASSUME Typed, Heard, UNCHANGED <<queue, engine>>, told' = Untold(Len(Showing')),
           Showing' = Shorter(Showing)
    PROVE  Heard'
<1> DEFINE n == Len(Showing)
<1>1. /\ Showing' \in Seq(Mix)
      /\ Len(Showing') = IF n > 1 THEN n - 1 ELSE n
      /\ \A j \in DOMAIN Showing' : Showing'[j] = Showing[j]
  BY ShowingIs, ShorterFacts
<1>2. n \in Nat /\ n # 0 /\ DOMAIN Showing = 1..n /\ DOMAIN Showing' = 1..Len(Showing')
  BY <1>1, ShowingIs, EmptySeq, LenProperties
<1>3. ASSUME NEW ch \in Channels, NEW k \in Controls, <<ch, k>> \in told', ch + 1 \in DOMAIN Showing
      PROVE  ch + 1 \in DOMAIN Showing' /\ Showing'[ch + 1][k] = Showing[ch + 1][k]
  <2>1. ch # Len(Showing') /\ ch \in Nat
    BY <1>3, MixerAssumption DEF Untold, Channels
  <2>2. ch + 1 \in 1..n
    BY <1>2, <1>3
  <2> HIDE DEF n
  <2>3. ch + 1 \in 1..Len(Showing')
    BY <1>1, <1>2, <2>1, <2>2
  <2>4. QED
    BY <1>1, <1>2, <2>3
<1>4. told' \subseteq told
  BY DEF Untold
<1>5. QED
  BY <1>3, <1>4, SilentIsHeard

LEMMA SilentHeard ==
    ASSUME Typed, Heard, MasterIsSilent,
           \/ MasterVolume \/ ClearMutes \/ AddBoth \/ AddRow \/ RemoveTrack
           \/ AddStudio \/ RemoveStudio \/ Save \/ UNCHANGED vars
    PROVE  Heard'
<1>1. Showing' = IF mode' = "live" THEN matrix' ELSE studio'
  BY DEF Showing
<1>2. mode = "live" \/ mode = "studio"
  BY DEF Typed, Counted
<1>3. CASE MasterVolume
  <2>1. UNCHANGED <<mode, matrix, queue, engine, told>>
    BY <1>3 DEF MasterVolume
  <2>2. CASE mode = "live"
    <3>1. Showing' = Showing
      BY <1>1, <2>1, <2>2 DEF Showing
    <3>2. QED
      BY <2>1, <3>1, SilentIsHeard
  <2>3. CASE mode = "studio"
    <3>1. PICK v \in Volumes : studio' = [studio EXCEPT ![1].vol = v]
      BY <1>3, <2>3 DEF MasterVolume
    <3>2. Showing = studio /\ Showing' = studio'
      BY <1>1, <2>1, <2>3, ShowingIs
    <3>3. DOMAIN Showing' = DOMAIN Showing /\ \A j \in DOMAIN Showing : j # 1 => Showing'[j] = Showing[j]
      BY <3>1, <3>2
    <3>4. ASSUME NEW ch \in Channels, NEW k \in Controls, <<ch, k>> \in told
          PROVE  ch + 1 # 1
      <4>1. ch # 0
        BY <2>3, <3>4 DEF MasterIsSilent
      <4>2. QED
        BY <4>1, MixerAssumption DEF Channels
    <3>5. QED
      BY <2>1, <3>3, <3>4, SilentIsHeard
  <2>4. QED
    BY <1>2, <2>2, <2>3
<1>4. CASE ClearMutes
  <2>1. /\ UNCHANGED <<mode, queue, engine>> /\ told' = told \ (Channels \X {"mute"})
        /\ matrix' = Unmuted(matrix) /\ studio' = Unmuted(studio)
    BY <1>4 DEF ClearMutes
  <2>2. Showing' = Unmuted(Showing)
    BY <1>1, <2>1 DEF Showing
  <2>3. DOMAIN Showing' = DOMAIN Showing /\ \A j \in DOMAIN Showing : Showing'[j].vol = Showing[j].vol
    BY <2>2, ShowingIs, UnmutedFacts
  <2>4. \A ch \in Channels, k \in Controls : <<ch, k>> \in told' => k = "vol"
    BY <2>1 DEF Controls
  <2>5. \A ch \in Channels, k \in Controls : <<ch, k>> \in told' /\ ch + 1 \in DOMAIN Showing =>
            ch + 1 \in DOMAIN Showing' /\ Showing'[ch + 1][k] = Showing[ch + 1][k]
    BY <2>3, <2>4
  <2>6. QED
    BY <2>1, <2>5, SilentIsHeard
<1>5. CASE AddBoth \/ AddRow
  <2>1. UNCHANGED <<queue, engine>> /\ told' \subseteq told /\ Showing' = Append(Showing, New)
    BY <1>1, <1>5, ShowingIs DEF AddBoth, AddRow, Untold
  <2>2. QED
    BY <2>1, LongerKeeps
<1>6. CASE AddStudio
  <2>1. UNCHANGED <<queue, engine>> /\ told' \subseteq told /\ Showing' = Append(Showing, New)
    BY <1>1, <1>6, ShowingIs DEF AddStudio, Untold
  <2>2. QED
    BY <2>1, LongerKeeps
<1>7. CASE RemoveTrack
  <2>1. mode = "live" /\ mode' = mode /\ matrix' = Shorter(matrix)
        /\ told' = Untold(Len(matrix')) /\ UNCHANGED <<queue, engine>>
    BY <1>7 DEF RemoveTrack, RemoveBoth, RemoveRow
  <2>2. Showing = matrix /\ Showing' = matrix'
    BY <1>1, <2>1, ShowingIs
  <2>3. QED
    BY <2>1, <2>2, ShorterKeeps
<1>8. CASE RemoveStudio
  <2>1. mode = "studio" /\ mode' = mode /\ studio' = Shorter(studio)
        /\ told' = Untold(Len(studio')) /\ UNCHANGED <<queue, engine>>
    BY <1>8 DEF RemoveStudio
  <2>2. Showing = studio /\ Showing' = studio'
    BY <1>1, <2>1, ShowingIs
  <2>3. QED
    BY <2>1, <2>2, ShorterKeeps
<1>9. CASE Save \/ UNCHANGED vars
  <2>1. UNCHANGED <<mode, matrix, studio, queue, engine, told>>
    BY <1>9 DEF Save, vars, interface, history
  <2>2. Showing' = Showing
    BY <1>1, <2>1 DEF Showing
  <2>3. QED
    BY <2>1, <2>2, SilentIsHeard
<1>10. QED
  BY <1>3, <1>4, <1>5, <1>6, <1>7, <1>8, <1>9

\* The command thread executes the first command or drops it.
LEMMA ThreadHeard ==
    ASSUME Typed, Heard, Obey \/ Drop
    PROVE  Heard'
<1> DEFINE c == Head(queue)
<1>1. queue \in Seq(Command) /\ queue # <<>> /\ queue' = Tail(queue) /\ engine \in [Channels -> Mix]
  BY DEF Typed, Traffic, Obey, Drop
<1>2. c \in Command
  BY <1>1, HeadTailProperties
<1>3. UNCHANGED <<mode, matrix, studio>> /\ Showing' = Showing
  BY DEF Obey, Drop, interface, Showing
<1> HIDE DEF c
<1>4. SUFFICES ASSUME NEW ch \in Channels, NEW k \in Controls, <<ch, k>> \in told'
               PROVE  /\ <<ch, k>> \in told
                      /\ engine'[ch][k] = IF For(c, ch, k) THEN c[k] ELSE engine[ch][k]
  <2>1. ASSUME NEW ch \in Channels, NEW k \in Controls, <<ch, k>> \in told'
        PROVE  ch + 1 \in DOMAIN Showing' /\ Settles(queue', engine', ch, k, Showing'[ch + 1][k])
    <3>1. <<ch, k>> \in told /\ engine'[ch][k] = IF For(c, ch, k) THEN c[k] ELSE engine[ch][k]
      BY <1>4, <2>1
    <3>2. ch + 1 \in DOMAIN Showing /\ Settles(queue, engine, ch, k, Showing[ch + 1][k])
      BY <3>1 DEF Heard
    <3>3. Settles(Tail(queue), engine', ch, k, Showing[ch + 1][k])
      BY <1>1, <3>1, <3>2, TailSettles DEF c
    <3>4. QED
      BY <1>1, <1>3, <3>2, <3>3
  <2>2. QED
    BY <2>1 DEF Heard
<1>5. CASE Obey
  <2>1. Set(c) /\ told' = told
    BY <1>5 DEF Obey, history, c
  <2>2. QED
    BY <1>1, <1>2, <1>4, <2>1, SetIs
<1>6. CASE Drop
  <2>1. engine' = engine
        /\ told' = told \ {<<c.ch, IF "vol" \in DOMAIN c THEN "vol" ELSE "mute">>}
    BY <1>6 DEF Drop, c
  <2>2. ASSUME For(c, ch, k) PROVE FALSE
    <3>1. c.ch = ch /\ k \in DOMAIN c
      BY <2>2 DEF For
    <3>2. k = IF "vol" \in DOMAIN c THEN "vol" ELSE "mute"
      BY <1>2, <3>1, CommandIs DEF Controls
    <3>3. QED
      BY <1>4, <2>1, <3>1, <3>2
  <2>3. QED
    BY <1>4, <2>1, <2>2
<1>7. QED
  BY <1>5, <1>6

LEMMA HeardStep ==
    ASSUME Typed, Typed', Heard, MasterIsSilent, [Next]_vars
    PROVE  Heard'
<1>1. CASE SwitchMode \/ Open
  <2>1. told' = {}
    BY <1>1 DEF SwitchMode, Open, OpenLive, OpenStudio
  <2>2. QED
    BY <2>1 DEF Heard
<1>2. CASE Obey \/ Drop
  BY <1>2, ThreadHeard
<1>3. QED
  BY <1>1, <1>2, ControlHeard, SilentHeard DEF Next

Hearing == Typed /\ Heard /\ MasterIsSilent

LEMMA InitHearing == Init => Hearing
<1> SUFFICES ASSUME Init PROVE Hearing
  OBVIOUS
<1>1. mode = "live" /\ matrix = <<New>> /\ queue = <<>> /\ engine = [c \in Channels |-> New]
      /\ told = {0} \X Controls
  BY DEF Init
<1>2. MasterIsSilent
  BY <1>1 DEF MasterIsSilent
<1>3. ASSUME NEW ch \in Channels, NEW control \in Controls, <<ch, control>> \in told
      PROVE  ch + 1 \in DOMAIN Showing /\ Settles(queue, engine, ch, control, Showing[ch + 1][control])
  <2>1. ch = 0 /\ ch + 1 = 1
    BY <1>1, <1>3
  <2>2. Showing = <<New>> /\ 1 \in DOMAIN <<New>> /\ <<New>>[1] = New
    BY <1>1 DEF Showing
  <2>3. DOMAIN queue = {} /\ engine[ch] = New
    BY <1>1
  <2> HIDE DEF New
  <2>4. QED
    BY <2>1, <2>2, <2>3 DEF Settles
<1>4. Heard
  BY <1>3 DEF Heard
<1>5. QED
  BY <1>2, <1>4, InitTyped DEF Hearing

LEMMA NextHearing == Hearing /\ [Next]_vars => Hearing'
BY NextTyped, HeardStep, MasterStep DEF Hearing

LEMMA HearingInvariance == Spec => []Hearing
<1>1. QED
  BY InitHearing, NextHearing, PTL DEF Spec

-----------------------------------------------------------------------------
(* The results.                                                             *)

\* For any number of tracks the row of a track and its strip agree through
\* every gesture, save and opening, with the exceptions MirrorsAgree names.
THEOREM Mirrors == Spec => []MirrorsAgree
<1>1. Inv => MirrorsAgree
  BY DEF Inv
<1>2. QED
  BY <1>1, Invariance, PTL

\* Neither list ever loses its last element, so a session and what is saved
\* of it always has a row and a master.
THEOREM NeverWithoutTrack ==
    Spec => [](matrix # <<>> /\ live # <<>> /\ oplf.matrix # <<>> /\ oplf.live # <<>>)
<1>1. Inv => matrix # <<>> /\ live # <<>> /\ oplf.matrix # <<>> /\ oplf.live # <<>>
  BY DEF Inv, Shapes
<1>2. QED
  BY <1>1, Invariance, PTL

\* The state stays well formed, whatever is opened and however many commands
\* an opening sends after those that are still on their way.
THEOREM TypeCorrect == Spec => []TypeOK
<1>1. Hearing => TypeOK
  BY TypedTypes DEF Hearing
<1>2. QED
  BY <1>1, HearingInvariance, PTL

\* For any number of gestures and of commands on their way: with none of them
\* left, a control the engine was told of shows what the engine does.
THEOREM ToldHeard == Spec => []ToldIsHeard
<1>1. Hearing => ToldIsHeard
  BY HeardIsHeard DEF Hearing
<1>2. QED
  BY <1>1, HearingInvariance, PTL

=============================================================================
