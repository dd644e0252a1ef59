------------------------ MODULE StudioTimelineProofs ------------------------
(***************************************************************************)
(* What the Studio's timeline promises, for any number of clips, tracks,    *)
(* gestures and commands on their way: clips keep their own ids, the engine *)
(* plays what is shown, and trimming a clip's edges keeps to the sample.    *)
(***************************************************************************)
EXTENDS StudioTimeline, SequenceTheorems, WellFoundedInduction, TLAPS

-----------------------------------------------------------------------------
(* Numbers: the least of a set, induction, the greatest of a bounded set.   *)

LEMMA LeastNat ==
    ASSUME NEW T, T \subseteq Nat, T # {}
    PROVE  \E n \in T : \A m \in T : n <= m
<1>1. PICK n \in T : \A m \in T : ~(<<m, n>> \in OpToRel(<, Nat))
  BY NatLessThanWellFounded, WFMin
<1>2. ASSUME NEW m \in T
      PROVE  n <= m
  <2>1. m \in Nat /\ n \in Nat
    OBVIOUS
  <2>2. m < n => <<m, n>> \in OpToRel(<, Nat)
    BY <2>1 DEF OpToRel
  <2>3. ~(m < n)
    BY <1>1, <2>2
  <2> HIDE <1>1
  <2>4. QED
    BY <2>1, <2>3
<1>3. QED
  BY <1>2

\* A set with 0 and with the successor of each of its numbers has them all.
LEMMA Induction ==
    ASSUME NEW T, 0 \in T, \A n \in Nat : n \in T => n + 1 \in T
    PROVE  Nat \subseteq T
<1> DEFINE Others == Nat \ T
<1>1. SUFFICES ASSUME Others # {} PROVE FALSE
  OBVIOUS
<1>2. PICK n \in Others : \A m \in Others : n <= m
  BY <1>1, LeastNat
<1>3. n \in Nat /\ n # 0 /\ n \notin T
  OBVIOUS
<1>4. n - 1 \in Nat /\ n - 1 \notin Others
  BY <1>2, <1>3
<1>5. QED
  BY <1>3, <1>4

LEMMA MinIs ==
    ASSUME NEW S \in SUBSET Nat, S # {}
    PROVE  Min(S) \in S /\ \A m \in S : Min(S) <= m
<1>1. \E n \in S : \A m \in S : n <= m
  BY LeastNat
<1>2. QED
  BY <1>1 DEF Min

LEMMA MaxIs ==
    ASSUME NEW S \in SUBSET Nat, S # {}, NEW b \in Nat, \A x \in S : x <= b
    PROVE  Max(S) \in S /\ \A m \in S : m <= Max(S)
<1> DEFINE U == {u \in Nat : \A x \in S : x <= u}
<1>1. PICK u \in U : \A v \in U : u <= v
  <2>1. b \in U
    OBVIOUS
  <2>2. QED
    BY <2>1, LeastNat
<1>2. u \in S
  <2>1. SUFFICES ASSUME u \notin S PROVE FALSE
    OBVIOUS
  <2>2. \A x \in S : x \in Nat /\ x <= u /\ x # u
    BY <2>1
  <2>3. PICK x \in S : TRUE
    OBVIOUS
  <2>4. u - 1 \in U /\ u \in Nat
    <3>1. u \in Nat /\ x \in Nat /\ x <= u /\ x # u
      BY <2>2, <2>3
    <3>2. u - 1 \in Nat
      BY <3>1
    <3>3. \A y \in S : y <= u - 1
      BY <2>2, <3>1
    <3>4. QED
      BY <3>1, <3>2, <3>3
  <2>5. QED
    BY <1>1, <2>4
<1>3. \E n \in S : \A m \in S : n >= m
  BY <1>2
<1>4. Max(S) \in S /\ \A m \in S : Max(S) >= m
  BY <1>3 DEF Max
<1>5. QED
  BY <1>4

\* A sequence of numbers has a bound.
LEMMA BoundExists ==
    ASSUME NEW n \in Nat, NEW f, \A i \in 1..n : f[i] \in Nat
    PROVE  \E b \in Nat : \A i \in 1..n : f[i] <= b
<1> DEFINE T == {k \in Nat : k <= n => \E b \in Nat : \A i \in 1..k : f[i] <= b}
<1>1. 0 \in T
  OBVIOUS
<1>2. ASSUME NEW k \in Nat, k \in T
      PROVE  k + 1 \in T
  <2>1. SUFFICES ASSUME k + 1 <= n PROVE \E b \in Nat : \A i \in 1..(k + 1) : f[i] <= b
    OBVIOUS
  <2>2. PICK b \in Nat : \A i \in 1..k : f[i] <= b
    BY <1>2, <2>1
  <2>3. f[k + 1] \in Nat
    BY <2>1
  <2>4. PICK d \in Nat : b <= d /\ f[k + 1] <= d
    BY <2>3
  <2>5. ASSUME NEW i \in 1..(k + 1)
        PROVE  f[i] <= d
    <3>1. CASE i = k + 1
      BY <2>4, <3>1
    <3>2. CASE i # k + 1
      <4>1. i \in 1..k /\ i \in 1..n
        BY <2>1, <3>2
      <4>2. f[i] <= b /\ f[i] \in Nat
        BY <2>2, <4>1
      <4>3. QED
        BY <2>4, <4>2
    <3>3. QED
      BY <3>1, <3>2
  <2>6. QED
    BY <2>5
<1> HIDE DEF T
<1>3. Nat \subseteq T
  BY <1>1, <1>2, Induction
<1>4. n \in T /\ n <= n
  BY <1>3
<1>5. QED
  BY <1>4 DEF T

-----------------------------------------------------------------------------
(* Recursion over a list: a start and a step give a function of the length. *)

\* f takes n of the steps G from v.
Unfolds(f, n, G, v, V) ==
    /\ f \in [0..n -> V] /\ f[0] = v
    /\ \A i \in 1..n : f[i] = G[i][f[i - 1]]

LEMMA Unfold ==
    ASSUME NEW V, NEW v \in V, NEW n \in Nat, NEW G \in [1..n -> [V -> V]]
    PROVE  \E f : Unfolds(f, n, G, v, V)
<1> DEFINE Good(f, k) == /\ f \in [0..k -> V] /\ f[0] = v
                         /\ \A i \in 1..k : f[i] = G[i][f[i - 1]]
           T == {k \in Nat : k <= n => \E f : Good(f, k)}
<1>1. 0 \in T
  <2> DEFINE f == [i \in 0..0 |-> v]
  <2>1. Good(f, 0)
    OBVIOUS
  <2>2. QED
    BY <2>1
<1>2. ASSUME NEW k \in Nat, k \in T
      PROVE  k + 1 \in T
  <2>1. SUFFICES ASSUME k + 1 <= n PROVE \E f : Good(f, k + 1)
    OBVIOUS
  <2>2. PICK f : Good(f, k)
    BY <1>2, <2>1
  <2> DEFINE x == G[k + 1][f[k]]
             g == [i \in 0..(k + 1) |-> IF i = k + 1 THEN x ELSE f[i]]
  <2>3. x \in V
    <3>1. k + 1 \in 1..n /\ f[k] \in V
      BY <2>1, <2>2
    <3>2. QED
      BY <3>1
  <2> HIDE DEF x
  <2>4. g \in [0..(k + 1) -> V] /\ g[0] = v
    BY <2>2, <2>3
  <2>5. ASSUME NEW i \in 1..(k + 1)
        PROVE  g[i] = G[i][g[i - 1]]
    <3>1. CASE i = k + 1
      <4>1. i - 1 = k /\ k \in 0..(k + 1) /\ k # k + 1
        BY <3>1
      <4>2. g[i] = x /\ g[k] = f[k]
        BY <3>1, <4>1
      <4>3. QED
        BY <3>1, <4>1, <4>2 DEF x
    <3>2. CASE i # k + 1
      <4>1. i \in 1..k /\ i - 1 \in 0..(k + 1) /\ i - 1 # k + 1
        BY <3>2
      <4>2. g[i] = f[i] /\ g[i - 1] = f[i - 1]
        BY <4>1
      <4>3. f[i] = G[i][f[i - 1]]
        BY <2>2, <4>1
      <4>4. QED
        BY <4>2, <4>3
    <3>3. QED
      BY <3>1, <3>2
  <2> HIDE DEF g
  <2>6. QED
    BY <2>4, <2>5
<1> HIDE DEF T
<1>3. Nat \subseteq T
  BY <1>1, <1>2, Induction
<1>4. PICK f : Good(f, n)
  BY <1>3 DEF T
<1>5. QED
  BY <1>4 DEF Unfolds

-----------------------------------------------------------------------------
(* Those: a part of a list, in order.                                       *)

\* e says where in the first n of list the elements of part come from: from
\* every index in keep, and in the list's order.
Picks(e, part, list, keep, n) ==
    /\ e \in [1..Len(part) -> (1..n) \intersect keep]
    /\ \A k \in 1..Len(part) : part[k] = list[e[k]]
    /\ \A k, l \in 1..Len(part) : k < l => e[k] < e[l]
    /\ \A i \in (1..n) \intersect keep : \E k \in 1..Len(part) : e[k] = i

LEMMA PicksNext ==
    ASSUME NEW S, NEW n \in Nat, NEW list, list[n + 1] \in S, NEW keep,
           NEW part \in Seq(S), NEW e, Picks(e, part, list, keep, n)
    PROVE  \E f : Picks(f, IF n + 1 \in keep THEN Append(part, list[n + 1]) ELSE part,
                        list, keep, n + 1)
<1> DEFINE m == Len(part)
<1>1. m \in Nat
  BY LenProperties
<1>2. CASE n + 1 \notin keep
  <2>1. (1..(n + 1)) \intersect keep = (1..n) \intersect keep
    BY <1>2
  <2>2. Picks(e, part, list, keep, n + 1)
    BY <2>1 DEF Picks
  <2>3. QED
    BY <1>2, <2>2
<1>3. CASE n + 1 \in keep
  <2> DEFINE more == Append(part, list[n + 1])
             f == [k \in 1..(m + 1) |-> IF k = m + 1 THEN n + 1 ELSE e[k]]
  <2>1. Len(more) = m + 1 /\ more[m + 1] = list[n + 1] /\ \A k \in 1..m : more[k] = part[k]
    BY AppendProperties
  <2>2. /\ \A k \in 1..m : e[k] \in 1..n /\ e[k] \in keep /\ part[k] = list[e[k]]
        /\ \A k, l \in 1..m : k < l => e[k] < e[l]
        /\ \A i \in (1..n) \intersect keep : \E k \in 1..m : e[k] = i
    BY DEF Picks
  <2> HIDE DEF m, more
  <2>3. f[m + 1] = n + 1 /\ \A k \in 1..m : k \in 1..(m + 1) /\ f[k] = e[k]
    BY <1>1
  <2>4. \A k \in 1..(m + 1) : k = m + 1 \/ k \in 1..m
    BY <1>1
  <2>5. f \in [1..(m + 1) -> (1..(n + 1)) \intersect keep]
    BY <1>3, <2>2, <2>3, <2>4
  <2> HIDE DEF f
  <2>6. \A k \in 1..(m + 1) : more[k] = list[f[k]]
    BY <2>1, <2>2, <2>3, <2>4
  <2>7. ASSUME NEW k \in 1..(m + 1), NEW l \in 1..(m + 1), k < l
        PROVE  f[k] < f[l]
    <3>1. k \in 1..m /\ f[k] = e[k] /\ e[k] <= n
      BY <1>1, <2>2, <2>3, <2>4, <2>7
    <3>2. CASE l = m + 1
      BY <2>2, <2>3, <3>1, <3>2
    <3>3. CASE l # m + 1
      BY <2>2, <2>3, <2>4, <2>7, <3>1, <3>3
    <3>4. QED
      BY <3>2, <3>3
  <2>8. \A i \in (1..(n + 1)) \intersect keep : \E k \in 1..(m + 1) : f[k] = i
    <3>1. TAKE i \in (1..(n + 1)) \intersect keep
    <3>2. CASE i = n + 1
      BY <1>1, <2>3, <3>2
    <3>3. CASE i # n + 1
      <4>1. i \in (1..n) \intersect keep
        BY <3>3
      <4>2. PICK k \in 1..m : e[k] = i
        BY <2>2, <4>1
      <4>3. QED
        BY <2>3, <4>2
    <3>4. QED
      BY <3>2, <3>3
  <2>9. Picks(f, more, list, keep, n + 1)
    BY <2>1, <2>5, <2>6, <2>7, <2>8 DEF Picks
  <2>10. QED
    BY <1>3, <2>9 DEF more
<1>4. QED
  BY <1>2, <1>3

LEMMA ThoseIs ==
    ASSUME NEW S, NEW list \in Seq(S), NEW keep
    PROVE  /\ Those(list, keep) \in Seq(S)
           /\ \E e : Picks(e, Those(list, keep), list, keep, Len(list))
<1> DEFINE n == Len(list)
           Next1(i, part) == IF i \in keep THEN Append(part, list[i]) ELSE part
           Recursion(g) == g = [i \in 0..n |-> IF i = 0 THEN <<>>
                                               ELSE IF i \in keep THEN Append(g[i - 1], list[i])
                                               ELSE g[i - 1]]
           upto == CHOOSE g : Recursion(g)
           G == [i \in 1..n |-> [part \in Seq(S) |-> Next1(i, part)]]
<1>1. n \in Nat /\ DOMAIN list = 1..n /\ \A i \in 1..n : list[i] \in S
  BY LenProperties, ElementOfSeq
<1>2. \A i \in 1..n, part \in Seq(S) : Next1(i, part) \in Seq(S)
  BY <1>1, AppendProperties
<1>3. <<>> \in Seq(S)
  OBVIOUS
<1> HIDE DEF n
<1>4. \E f : Recursion(f) /\ f \in [0..n -> Seq(S)]
  <2>1. G \in [1..n -> [Seq(S) -> Seq(S)]]
    BY <1>2
  <2> HIDE DEF G
  <2>2. PICK f \in [0..n -> Seq(S)] : f[0] = <<>> /\ \A i \in 1..n : f[i] = G[i][f[i - 1]]
    <3>1. PICK f : Unfolds(f, n, G, <<>>, Seq(S))
      BY <1>1, <1>3, <2>1, Unfold
    <3>2. QED
      BY <3>1 DEF Unfolds
  <2>3. ASSUME NEW i \in 1..n
        PROVE  f[i] = Next1(i, f[i - 1])
    <3>1. i - 1 \in 0..n
      BY <1>1
    <3>2. f[i - 1] \in Seq(S) /\ f[i] = G[i][f[i - 1]]
      BY <2>2, <3>1
    <3>3. QED
      BY <3>2 DEF G
  <2>4. \A i \in 0..n : i = 0 \/ i \in 1..n
    BY <1>1
  <2>5. f = [i \in 0..n |-> f[i]]
    BY <2>2
  <2>6. Recursion(f)
    BY <2>2, <2>3, <2>4, <2>5
  <2>7. QED
    BY <2>2, <2>6
<1>5. Recursion(upto)
  BY <1>4
<1>6. Those(list, keep) = upto[n]
  BY DEF Those, n
<1> HIDE DEF upto
<1>7. upto[0] = <<>> /\ \A i \in 1..n : upto[i] = Next1(i, upto[i - 1])
  <2>1. 0 \in 0..n /\ \A i \in 1..n : i \in 0..n /\ i # 0
    BY <1>1
  <2>2. QED
    BY <1>5, <2>1
<1> HIDE DEF Recursion
<1> DEFINE T == {k \in Nat : k <= n => upto[k] \in Seq(S) /\ \E e : Picks(e, upto[k], list, keep, k)}
<1>8. 0 \in T
  <2> DEFINE e == [k \in {} |-> 0]
  <2>1. Picks(e, <<>>, list, keep, 0)
    BY DEF Picks
  <2> HIDE DEF e
  <2>2. upto[0] \in Seq(S) /\ \E f : Picks(f, upto[0], list, keep, 0)
    <3>1. upto[0] = <<>>
      BY <1>7
    <3>2. QED
      BY <1>3, <2>1, <3>1
  <2>3. QED
    BY <2>2
<1>9. ASSUME NEW k \in Nat, k \in T
      PROVE  k + 1 \in T
  <2>1. SUFFICES ASSUME k + 1 <= n
                 PROVE  upto[k + 1] \in Seq(S) /\ \E e : Picks(e, upto[k + 1], list, keep, k + 1)
    OBVIOUS
  <2>2. k <= n /\ k + 1 \in 1..n /\ (k + 1) - 1 = k
    BY <1>1, <2>1
  <2>3. upto[k] \in Seq(S) /\ \E e : Picks(e, upto[k], list, keep, k)
    BY <1>9, <2>2
  <2>4. upto[k + 1] = Next1(k + 1, upto[k])
    BY <1>7, <2>2
  <2>5. Next1(k + 1, upto[k]) \in Seq(S)
    BY <1>2, <2>2, <2>3
  <2>6. \E e : Picks(e, Next1(k + 1, upto[k]), list, keep, k + 1)
    BY <1>1, <2>2, <2>3, PicksNext
  <2>7. QED
    BY <2>4, <2>5, <2>6
<1> HIDE DEF T
<1>10. n \in T /\ n <= n
  <2>1. Nat \subseteq T
    BY <1>8, <1>9, Induction
  <2>2. QED
    BY <1>1, <2>1
<1>11. QED
  BY <1>6, <1>10 DEF T, n

\* What follows for its elements and, if the list's elements are told apart by
\* their ids, for its own.
LEMMA ThoseOf ==
    ASSUME NEW S, NEW list \in Seq(S), NEW keep
    PROVE  LET part == Those(list, keep)
           IN  /\ part \in Seq(S)
               /\ \A k \in DOMAIN part : \E i \in DOMAIN list \intersect keep : part[k] = list[i]
               /\ \A i \in DOMAIN list \intersect keep : \E k \in DOMAIN part : part[k] = list[i]
<1> DEFINE part == Those(list, keep)
<1>1. PICK e : Picks(e, part, list, keep, Len(list))
  BY ThoseIs
<1>2. part \in Seq(S)
  BY ThoseIs
<1> HIDE DEF part
<1>3. DOMAIN part = 1..Len(part) /\ DOMAIN list = 1..Len(list)
  BY <1>2, LenProperties
<1>4. \A k \in DOMAIN part : e[k] \in DOMAIN list \intersect keep /\ part[k] = list[e[k]]
  BY <1>1, <1>3 DEF Picks
<1>5. \A i \in DOMAIN list \intersect keep : \E k \in DOMAIN part : e[k] = i
  BY <1>1, <1>3 DEF Picks
<1>6. QED
  BY <1>2, <1>4, <1>5 DEF part

Distinct(list) == \A i, j \in DOMAIN list : list[i].id = list[j].id => i = j

LEMMA ThoseDistinct ==
    ASSUME NEW S, NEW list \in Seq(S), NEW keep, Distinct(list)
    PROVE  Distinct(Those(list, keep))
<1> DEFINE part == Those(list, keep)
<1>1. PICK e : Picks(e, part, list, keep, Len(list))
  BY ThoseIs
<1>2. part \in Seq(S)
  BY ThoseIs
<1> HIDE DEF part
<1>3. DOMAIN part = 1..Len(part) /\ DOMAIN list = 1..Len(list)
  BY <1>2, LenProperties
<1>4. ASSUME NEW k \in DOMAIN part, NEW l \in DOMAIN part, part[k].id = part[l].id
      PROVE  k = l
  <2>1. e[k] \in DOMAIN list /\ e[l] \in DOMAIN list /\ part[k] = list[e[k]] /\ part[l] = list[e[l]]
    BY <1>1, <1>3 DEF Picks
  <2>2. e[k] = e[l]
    BY <1>4, <2>1 DEF Distinct
  <2>3. k \in Nat /\ l \in Nat /\ e[k] \in Nat /\ e[l] \in Nat
    BY <1>1, <1>3 DEF Picks
  <2>4. ~(k < l) /\ ~(l < k)
    BY <1>1, <1>3, <2>2, <2>3 DEF Picks
  <2>5. QED
    BY <2>3, <2>4
<1>5. QED
  BY <1>4 DEF Distinct, part

\* With every index in keep it is the list itself.
LEMMA ThoseAll ==
    ASSUME NEW S, NEW list \in Seq(S), NEW keep, DOMAIN list \subseteq keep
    PROVE  Those(list, keep) = list
<1> DEFINE part == Those(list, keep)  m == Len(part)  n == Len(list)
<1>1. PICK e : Picks(e, part, list, keep, n)
  BY ThoseIs
<1>2. part \in Seq(S)
  BY ThoseIs
<1> HIDE DEF part
<1>3. m \in Nat /\ n \in Nat /\ DOMAIN part = 1..m /\ DOMAIN list = 1..n
  BY <1>2, LenProperties
<1>4. /\ \A k \in 1..m : e[k] \in 1..n /\ part[k] = list[e[k]]
      /\ \A k, l \in 1..m : k < l => e[k] < e[l]
      /\ \A i \in 1..n : \E k \in 1..m : e[k] = i
  BY <1>1, <1>3 DEF Picks
<1> HIDE DEF m, n
\* The least index that is not taken to itself is skipped or taken twice.
<1>5. \A k \in Nat : k \in 1..m \/ k \in 1..n => k \in 1..m /\ k \in 1..n /\ e[k] = k
  <2> DEFINE Bad == {k \in Nat : ~(k \in 1..m \/ k \in 1..n => k \in 1..m /\ k \in 1..n /\ e[k] = k)}
  <2>1. SUFFICES ASSUME Bad # {} PROVE FALSE
    OBVIOUS
  <2>2. PICK k \in Bad : \A i \in Bad : k <= i
    BY <2>1, LeastNat
  <2>3. k \in Nat /\ k >= 1 /\ (k \in 1..m \/ k \in 1..n) /\ ~(k \in 1..m /\ k \in 1..n /\ e[k] = k)
    BY <1>3
  <2>4. \A i \in 1..(k - 1) : i \in 1..m => e[i] = i
    <3>1. TAKE i \in 1..(k - 1)
    <3>2. i \in Nat /\ i < k /\ i \notin Bad
      BY <2>2, <2>3
    <3>3. QED
      BY <3>2
  <2> HIDE DEF Bad
  <2>5. \A i \in 1..m : i >= k => e[i] >= k
    <3>1. SUFFICES ASSUME NEW i \in 1..m, i >= k, e[i] < k PROVE FALSE
      BY <1>3, <1>4, <2>3
    <3>2. e[i] \in 1..(k - 1) /\ e[i] < i /\ e[i] \in 1..m
      BY <1>3, <1>4, <2>3, <3>1
    <3>3. e[e[i]] = e[i] /\ e[e[i]] < e[i]
      BY <1>4, <2>4, <3>1, <3>2
    <3>4. QED
      BY <1>4, <3>1, <3>3
  <2>6. k \in 1..n
    <3>1. SUFFICES ASSUME k \in 1..m, k \notin 1..n PROVE FALSE
      BY <2>3
    <3>2. e[k] >= k /\ e[k] \in 1..n
      BY <1>4, <2>3, <2>5, <3>1
    <3>3. QED
      BY <1>3, <2>3, <3>1, <3>2
  <2>7. PICK i \in 1..m : e[i] = k
    BY <1>4, <2>6
  <2>8. i \in Nat /\ i >= k
    BY <1>3, <2>3, <2>4, <2>7
  <2>9. k \in 1..m
    BY <1>3, <2>3, <2>8
  <2>10. e[k] >= k /\ (k < i => e[k] < e[i])
    BY <1>4, <2>3, <2>5, <2>9
  <2>11. QED
    BY <1>4, <2>3, <2>6, <2>7, <2>8, <2>9, <2>10
<1>6. m = n
  <2>1. CASE m < n
    <3>1. n \in 1..n /\ n \in Nat
      BY <1>3, <2>1
    <3>2. QED
      BY <1>3, <1>5, <2>1, <3>1
  <2>2. CASE n < m
    <3>1. m \in 1..m /\ m \in Nat
      BY <1>3, <2>2
    <3>2. QED
      BY <1>3, <1>5, <2>2, <3>1
  <2>3. QED
    BY <1>3, <2>1, <2>2
<1>7. \A k \in 1..n : part[k] = list[k]
  <2>1. TAKE k \in 1..n
  <2>2. k \in Nat /\ k \in 1..m /\ e[k] = k
    BY <1>3, <1>5
  <2>3. QED
    BY <1>4, <2>2
<1>8. part = list
  BY <1>2, <1>3, <1>6, <1>7, SeqEqual DEF m, n
<1>9. QED
  BY <1>8 DEF part

-----------------------------------------------------------------------------
(* Lists of clips.                                                          *)

LEMMA Sizes == MaxTick \in Nat /\ SampleLen \in Nat \ {0}
BY TimelineAssumption, SampleAssumption

LEMMA ClipIs ==
    ASSUME NEW c \in Clip
    PROVE  /\ c.id \in Nat \ {0} /\ c.track \in Rows("studio") /\ c.start \in Nat
           /\ c.dur \in Nat \ {0} /\ c.off \in Nat /\ c.readable \in BOOLEAN
BY DEF Clip

LEMMA TotalIs == \A readable : TotalOf(readable) \in Nat \ {0}
BY Sizes DEF TotalOf

LEMMA EntryIsClip ==
    ASSUME NEW list \in Seq(Clip), NEW i \in DOMAIN list
    PROVE  list[i] \in Clip /\ i \in 1..Len(list) /\ i \in Nat
BY LenProperties, ElementOfSeq

LEMMA TimelineIs ==
    ASSUME NEW list, NEW next
    PROVE  IsTimeline(list, next) <=> /\ list \in Seq(Clip) /\ next \in Nat \ {0}
                                      /\ \A i \in DOMAIN list : list[i].id < next
                                      /\ Distinct(list)
BY DEF IsTimeline, Distinct

LEMMA PartTimeline ==
    ASSUME NEW list, NEW next, IsTimeline(list, next), NEW keep
    PROVE  IsTimeline(Those(list, keep), next)
<1> DEFINE part == Those(list, keep)
<1>1. list \in Seq(Clip) /\ Distinct(list) /\ \A i \in DOMAIN list : list[i].id < next
  BY TimelineIs
<1>2. /\ part \in Seq(Clip)
      /\ \A k \in DOMAIN part : \E i \in DOMAIN list \intersect keep : part[k] = list[i]
  BY <1>1, ThoseOf
<1>3. Distinct(part)
  BY <1>1, ThoseDistinct
<1> HIDE DEF part
<1>4. \A k \in DOMAIN part : part[k].id < next
  BY <1>1, <1>2
<1>5. IsTimeline(part, next)
  BY <1>2, <1>3, <1>4, TimelineIs
<1>6. QED
  BY <1>5 DEF part

\* Clips with ids of their own that no clip of the list has reached.
LEMMA MoreClips ==
    ASSUME NEW list, NEW next, IsTimeline(list, next),
           NEW more \in Seq(Clip), Distinct(more), NEW top \in Nat, next <= top,
           \A i \in DOMAIN more : next <= more[i].id /\ more[i].id < top
    PROVE  IsTimeline(list \o more, top)
<1> DEFINE n == Len(list)  m == Len(more)  all == list \o more
<1>1. list \in Seq(Clip) /\ next \in Nat \ {0} /\ Distinct(list)
      /\ \A i \in DOMAIN list : list[i].id < next
  BY TimelineIs
<1>2. n \in Nat /\ m \in Nat /\ DOMAIN list = 1..n /\ DOMAIN more = 1..m
  BY <1>1, LenProperties
<1>3. all \in Seq(Clip) /\ Len(all) = n + m /\ \A i \in 1..(n + m) :
         all[i] = IF i <= n THEN list[i] ELSE more[i - n]
  BY <1>1, ConcatProperties
<1>4. DOMAIN all = 1..(n + m)
  BY <1>3, LenProperties
<1>5. \A i \in 1..n : list[i].id \in Nat /\ list[i].id < next
  BY <1>1, <1>2, EntryIsClip, ClipIs
<1>6. \A i \in 1..m : more[i].id \in Nat /\ next <= more[i].id /\ more[i].id < top
  BY <1>2, ClipIs
<1>7. \A i, j \in 1..n : list[i].id = list[j].id => i = j
  BY <1>1, <1>2 DEF Distinct
<1>8. \A i, j \in 1..m : more[i].id = more[j].id => i = j
  BY <1>2 DEF Distinct
<1> HIDE DEF n, m, all
<1>9. \A i \in 1..(n + m) : /\ i <= n => i \in 1..n /\ all[i] = list[i]
                            /\ ~(i <= n) => i - n \in 1..m /\ all[i] = more[i - n]
  <2>1. TAKE i \in 1..(n + m)
  <2>2. all[i] = IF i <= n THEN list[i] ELSE more[i - n]
    BY <1>3
  <2>3. (i <= n => i \in 1..n) /\ (~(i <= n) => i - n \in 1..m)
    BY <1>2
  <2>4. QED
    BY <2>2, <2>3
<1>10. \A i \in 1..(n + m) : all[i].id < top
  BY <1>1, <1>5, <1>6, <1>9
<1>11. ASSUME NEW i \in 1..(n + m), NEW j \in 1..(n + m), all[i].id = all[j].id
       PROVE  i = j
  <2>1. CASE i <= n /\ j <= n
    BY <1>7, <1>9, <1>11, <2>1
  <2>2. CASE ~(i <= n) /\ ~(j <= n)
    <3>1. i - n \in 1..m /\ j - n \in 1..m /\ more[i - n].id = more[j - n].id
      BY <1>9, <1>11, <2>2
    <3>2. i - n = j - n
      BY <1>8, <3>1
    <3>3. QED
      BY <1>2, <3>2
  <2>3. CASE i <= n /\ ~(j <= n)
    <3>1. i \in 1..n /\ j - n \in 1..m /\ list[i].id = more[j - n].id
      BY <1>9, <1>11, <2>3
    <3>2. QED
      BY <1>1, <1>5, <1>6, <3>1
  <2>4. CASE ~(i <= n) /\ j <= n
    <3>1. j \in 1..n /\ i - n \in 1..m /\ list[j].id = more[i - n].id
      BY <1>9, <1>11, <2>4
    <3>2. QED
      BY <1>1, <1>5, <1>6, <3>1
  <2>5. QED
    BY <2>1, <2>2, <2>3, <2>4
<1>12. Distinct(all) /\ \A i \in DOMAIN all : all[i].id < top
  BY <1>4, <1>10, <1>11 DEF Distinct
<1>13. top \in Nat \ {0}
  BY <1>1
<1>14. IsTimeline(all, top)
  BY <1>3, <1>12, <1>13, TimelineIs
<1>15. QED
  BY <1>14 DEF all

\* One clip changed, but for its id.
LEMMA ChangedClip ==
    ASSUME NEW list, NEW next, IsTimeline(list, next), NEW i \in DOMAIN list,
           NEW c \in Clip, c.id = list[i].id
    PROVE  IsTimeline([list EXCEPT ![i] = c], next)
<1> DEFINE new == [list EXCEPT ![i] = c]
<1>1. list \in Seq(Clip) /\ next \in Nat \ {0} /\ Distinct(list)
      /\ \A j \in DOMAIN list : list[j].id < next
  BY TimelineIs
<1>2. new \in Seq(Clip)
  BY <1>1, ExceptSeq, LenProperties
<1>3. DOMAIN new = DOMAIN list /\ \A j \in DOMAIN list : new[j].id = list[j].id
  OBVIOUS
<1> HIDE DEF new
<1>4. Distinct(new) /\ \A j \in DOMAIN new : new[j].id < next
  BY <1>1, <1>3 DEF Distinct
<1>5. IsTimeline(new, next)
  BY <1>1, <1>2, <1>4, TimelineIs
<1>6. QED
  BY <1>5 DEF new

\* The numbers that are taken over a list.
LEMMA HighestIs ==
    ASSUME NEW list \in Seq(Clip)
    PROVE  Highest(list) \in Nat
<1> DEFINE n == Len(list)  f == [i \in 1..n |-> list[i].id]  S == Ids(list) \union {0}
<1>1. n \in Nat /\ DOMAIN list = 1..n /\ \A i \in 1..n : list[i].id \in Nat
  BY LenProperties, EntryIsClip, ClipIs
<1>2. PICK b \in Nat : \A i \in 1..n : f[i] <= b
  <2>1. \A i \in 1..n : f[i] \in Nat
    BY <1>1
  <2> HIDE DEF f, n
  <2>2. QED
    BY <1>1, <2>1, BoundExists
<1>3. S \in SUBSET Nat /\ S # {} /\ \A x \in S : x <= b
  <2>1. \A x \in S : x = 0 \/ \E i \in 1..n : x = list[i].id
    BY <1>1 DEF Ids
  <2>2. \A i \in 1..n : list[i].id <= b
    BY <1>2
  <2>3. 0 \in S /\ 0 <= b
    OBVIOUS
  <2> HIDE DEF S, n, f
  <2>4. QED
    BY <1>1, <2>1, <2>2, <2>3
<1> HIDE DEF S
<1>4. Max(S) \in Nat
  BY <1>3, MaxIs
<1>5. QED
  BY <1>4 DEF S, Highest

LEMMA SpanIs ==
    ASSUME NEW list \in Seq(Clip), list # <<>>
    PROVE  /\ Earliest(list) \in Nat /\ Latest(list) \in Nat
           /\ Earliest(list) <= Latest(list)
<1> DEFINE n == Len(list)  f == [i \in 1..n |-> list[i].start + list[i].dur]
           S == {list[i].start : i \in DOMAIN list}
           E == {list[i].start + list[i].dur : i \in DOMAIN list}
<1>1. n \in Nat /\ DOMAIN list = 1..n /\ n # 0
  BY LenProperties, EmptySeq, SeqEqual
<1>2. \A i \in 1..n : list[i].start \in Nat /\ list[i].dur \in Nat
  BY <1>1, EntryIsClip, ClipIs
<1>3. PICK b \in Nat : \A i \in 1..n : f[i] <= b
  <2>1. \A i \in 1..n : f[i] \in Nat
    BY <1>2
  <2> HIDE DEF f, n
  <2>2. QED
    BY <1>1, <2>1, BoundExists
<1>4. 1 \in DOMAIN list
  BY <1>1
<1>5. S \in SUBSET Nat /\ S # {} /\ list[1].start \in S
  BY <1>1, <1>2, <1>4
<1>6. E \in SUBSET Nat /\ E # {} /\ list[1].start + list[1].dur \in E
  BY <1>1, <1>2, <1>4
<1>7. \A x \in E : x <= b
  BY <1>1, <1>3
<1> HIDE DEF S, E
<1>8. Min(S) \in Nat /\ Min(S) <= list[1].start
  BY <1>5, MinIs
<1>9. Max(E) \in Nat /\ list[1].start + list[1].dur <= Max(E)
  BY <1>6, <1>7, MaxIs
<1>10. list[1].start \in Nat /\ list[1].dur \in Nat
  BY <1>1, <1>2, <1>4
<1>11. Min(S) <= Max(E)
  BY <1>8, <1>9, <1>10
<1>12. QED
  BY <1>8, <1>9, <1>11 DEF Earliest, Latest, S, E

-----------------------------------------------------------------------------
(* The engine's list.                                                       *)

LEMMA EntryIs ==
    ASSUME NEW list \in Seq(Entry), NEW i \in DOMAIN list
    PROVE  list[i] \in Entry /\ list[i].clip \in Clip /\ list[i].pad \in BOOLEAN
           /\ i \in Nat
<1>1. i \in 1..Len(list) /\ Len(list) \in Nat
  BY LenProperties
<1>2. list[i] \in Entry
  BY <1>1, ElementOfSeq
<1>3. QED
  BY <1>1, <1>2 DEF Entry

LEMMA FoundIs ==
    ASSUME NEW m, NEW list \in Seq(Entry), NEW clip, Found(m, list, clip) # {}
    PROVE  LET j == Min(Found(m, list, clip))
           IN  /\ j \in DOMAIN list /\ Same(m, list[j].clip, clip)
               /\ \A k \in DOMAIN list : Same(m, list[k].clip, clip) => j <= k
<1> DEFINE found == Found(m, list, clip)
<1>1. found \in SUBSET Nat
  BY EntryIs DEF Found
<1>2. Min(found) \in found /\ \A k \in found : Min(found) <= k
  BY <1>1, MinIs
<1>3. QED
  BY <1>2 DEF Found

LEMMA AddedType ==
    ASSUME NEW m, NEW list \in Seq(Entry), NEW clip \in Clip, NEW pad \in BOOLEAN
    PROVE  Added(m, list, clip, pad) \in Seq(Entry)
<1> DEFINE new == [clip |-> clip, pad |-> pad]  found == Found(m, list, clip)
<1>1. new \in Entry
  BY DEF Entry
<1>2. Added(m, list, clip, pad) = IF found = {} THEN Append(list, new)
                                  ELSE [list EXCEPT ![Min(found)] = new]
  BY DEF Added
<1>3. found # {} => Min(found) \in DOMAIN list
  BY FoundIs
<1> HIDE DEF new, found
<1>4. Append(list, new) \in Seq(Entry)
  BY <1>1, AppendProperties
<1>5. found # {} => [list EXCEPT ![Min(found)] = new] \in Seq(Entry)
  BY <1>1, <1>3, ExceptSeq, LenProperties
<1>6. QED
  BY <1>2, <1>4, <1>5

\* A file that cannot be read leaves the list as it is.
LEMMA DecodedType ==
    ASSUME NEW m, NEW list \in Seq(Entry), NEW clip \in Clip, NEW pad \in BOOLEAN
    PROVE  Decoded(m, list, clip, pad) \in Seq(Entry)
BY AddedType DEF Decoded

\* One clip at the bounds of another.
LEMMA Moved ==
    ASSUME NEW c \in Clip, NEW d \in Clip
    PROVE  LET e == AtBounds(d, c)
           IN  e \in Clip /\ e.id = d.id /\ e.track = d.track /\ Bounds(e) = Bounds(c)
<1> DEFINE e == [d EXCEPT !.start = c.start, !.dur = c.dur, !.off = c.off]
<1>1. e.id = d.id /\ e.track = d.track /\ e.start = c.start /\ e.dur = c.dur /\ e.off = c.off
  BY DEF Clip
<1>2. e \in Clip
  BY DEF Clip
<1>3. e = AtBounds(d, c)
  BY DEF AtBounds
<1>4. QED
  BY <1>1, <1>2, <1>3 DEF Bounds

LEMMA ReboundIs ==
    ASSUME NEW m, NEW list \in Seq(Entry), NEW clip \in Clip, Found(m, list, clip) # {}
    PROVE  LET j == Min(Found(m, list, clip))
               new == AtBounds(list[j].clip, clip)
           IN  Rebound(m, list, clip) = [list EXCEPT ![j] = [clip |-> new, pad |-> list[j].pad]]
<1> DEFINE j == Min(Found(m, list, clip))
           new == AtBounds(list[j].clip, clip)
<1>1. j \in DOMAIN list
  BY FoundIs
<1>2. Rebound(m, list, clip) = [list EXCEPT ![j].clip = AtBounds(@, clip)]
  BY DEF Rebound
<1> HIDE DEF j
<1>3. list[j] \in Entry
  BY <1>1, EntryIs
<1>4. [list[j] EXCEPT !.clip = new] = [clip |-> new, pad |-> list[j].pad]
  BY <1>3 DEF Entry
<1>5. [list EXCEPT ![j].clip = AtBounds(@, clip)] = [list EXCEPT ![j] = [list[j] EXCEPT !.clip = new]]
  BY <1>1
<1>6. Rebound(m, list, clip) = [list EXCEPT ![j] = [clip |-> new, pad |-> list[j].pad]]
  BY <1>2, <1>4, <1>5
<1>7. QED
  BY <1>6 DEF j, new

LEMMA ReboundType ==
    ASSUME NEW m, NEW list \in Seq(Entry), NEW clip \in Clip
    PROVE  Rebound(m, list, clip) \in Seq(Entry)
<1>1. CASE Found(m, list, clip) = {}
  BY <1>1 DEF Rebound
<1>2. CASE Found(m, list, clip) # {}
  <2> DEFINE j == Min(Found(m, list, clip))
             new == AtBounds(list[j].clip, clip)
             entry == [clip |-> new, pad |-> list[j].pad]
  <2>1. j \in DOMAIN list /\ list[j].clip \in Clip /\ list[j].pad \in BOOLEAN
    BY <1>2, FoundIs, EntryIs
  <2>2. Rebound(m, list, clip) = [list EXCEPT ![j] = entry]
    BY <1>2, ReboundIs
  <2> HIDE DEF j
  <2>3. new \in Clip
    BY <2>1, Moved
  <2> HIDE DEF new
  <2>4. entry \in Entry
    BY <2>1, <2>3 DEF Entry
  <2> HIDE DEF entry
  <2>5. [list EXCEPT ![j] = entry] \in Seq(Entry)
    BY <2>1, <2>4, ExceptSeq, LenProperties
  <2>6. QED
    BY <2>2, <2>5
<1>3. QED
  BY <1>1, <1>2

Pads(list) == Those(list, {k \in DOMAIN list : list[k].pad})

\* f is how the engine's list grows over the clips of new.
Grows(f, m, start, new, pad) ==
    /\ f \in [0..Len(new) -> Seq(Entry)] /\ f[0] = start
    /\ \A i \in 1..Len(new) : f[i] = Decoded(m, f[i - 1], new[i], pad)

LEMMA GrowthExists ==
    ASSUME NEW m, NEW start \in Seq(Entry), NEW new \in Seq(Clip), NEW pad \in BOOLEAN
    PROVE  \E f : Grows(f, m, start, new, pad)
<1> DEFINE n == Len(new)
           G == [i \in 1..n |-> [list \in Seq(Entry) |-> Decoded(m, list, new[i], pad)]]
<1>1. n \in Nat /\ DOMAIN new = 1..n
  BY LenProperties
<1>2. \A i \in 1..n, list \in Seq(Entry) : Decoded(m, list, new[i], pad) \in Seq(Entry)
  BY <1>1, EntryIsClip, DecodedType
<1>3. G \in [1..n -> [Seq(Entry) -> Seq(Entry)]]
  BY <1>2
<1> HIDE DEF n, G
<1>4. PICK f : Unfolds(f, n, G, start, Seq(Entry))
  BY <1>1, <1>3, Unfold
<1>5. ASSUME NEW i \in 1..n
      PROVE  f[i] = Decoded(m, f[i - 1], new[i], pad)
  <2>1. i - 1 \in 0..n
    BY <1>1
  <2>2. f[i - 1] \in Seq(Entry) /\ f[i] = G[i][f[i - 1]]
    BY <1>4, <2>1 DEF Unfolds
  <2>3. QED
    BY <2>2 DEF G
<1>6. Grows(f, m, start, new, pad)
  BY <1>4, <1>5 DEF Unfolds, Grows, n
<1>7. QED
  BY <1>6

LEMMA SyncedIs ==
    ASSUME NEW m, NEW list \in Seq(Entry), NEW new \in Seq(Clip)
    PROVE  \E f : Grows(f, m, Pads(list), new, FALSE) /\ Synced(m, list, new) = f[Len(new)]
<1> DEFINE n == Len(new)
           Recursion(g) == g = [i \in 0..n |->
                                  IF i = 0 THEN Those(list, {k \in DOMAIN list : list[k].pad})
                                  ELSE Decoded(m, g[i - 1], new[i], FALSE)]
           upto == CHOOSE g : Recursion(g)
<1>1. n \in Nat /\ Pads(list) \in Seq(Entry)
  BY LenProperties, ThoseOf DEF Pads
<1>2. PICK f : Grows(f, m, Pads(list), new, FALSE)
  BY <1>1, GrowthExists
<1>3. Recursion(f)
  <2>1. \A i \in 0..n : i = 0 \/ i \in 1..n
    BY <1>1
  <2>2. f = [i \in 0..n |-> f[i]]
    BY <1>2 DEF Grows
  <2>3. f[0] = Those(list, {k \in DOMAIN list : list[k].pad})
    BY <1>2 DEF Grows, Pads
  <2>4. \A i \in 1..n : f[i] = Decoded(m, f[i - 1], new[i], FALSE)
    BY <1>2 DEF Grows
  <2>5. QED
    BY <2>1, <2>2, <2>3, <2>4
<1>4. Recursion(upto)
  BY <1>3
<1>5. Synced(m, list, new) = upto[n]
  BY DEF Synced
<1> HIDE DEF upto
<1>6. Grows(upto, m, Pads(list), new, FALSE)
  <2> DEFINE Val(i) == IF i = 0 THEN Pads(list) ELSE Decoded(m, upto[i - 1], new[i], FALSE)
  <2>1. upto = [i \in 0..n |-> Val(i)]
    BY <1>4 DEF Pads
  <2> HIDE DEF Recursion
  <2>2. upto[0] = Pads(list)
    BY <1>1, <2>1
  <2>3. ASSUME NEW i \in 1..n
        PROVE  upto[i] = Decoded(m, upto[i - 1], new[i], FALSE)
    <3>1. i \in 0..n /\ i # 0
      BY <1>1
    <3> HIDE DEF n
    <3>2. QED
      BY <2>1, <3>1
  <2> DEFINE T == {k \in Nat : k <= n => upto[k] \in Seq(Entry)}
  <2>4. 0 \in T
    BY <1>1, <2>2
  <2>5. ASSUME NEW k \in Nat, k \in T
        PROVE  k + 1 \in T
    <3>1. SUFFICES ASSUME k + 1 <= n PROVE upto[k + 1] \in Seq(Entry)
      OBVIOUS
    <3>2. k <= n /\ k + 1 \in 1..n /\ (k + 1) - 1 = k
      BY <1>1, <3>1
    <3>3. upto[k + 1] = Decoded(m, upto[k], new[k + 1], FALSE)
      BY <2>3, <3>2
    <3>4. upto[k] \in Seq(Entry) /\ new[k + 1] \in Clip
      BY <2>5, <3>2, LenProperties, EntryIsClip
    <3>5. QED
      BY <3>3, <3>4, DecodedType
  <2> HIDE DEF T
  <2>6. Nat \subseteq T
    BY <2>4, <2>5, Induction
  <2>7. \A k \in 0..n : upto[k] \in Seq(Entry)
    BY <1>1, <2>6 DEF T
  <2>8. upto \in [0..n -> Seq(Entry)]
    BY <2>1, <2>7
  <2>9. QED
    BY <2>2, <2>3, <2>8 DEF Grows
<1>7. QED
  BY <1>5, <1>6

-----------------------------------------------------------------------------
(* Types.                                                                   *)

LEMMA CommandParts ==
    ASSUME NEW c \in Command
    PROVE  /\ c.op \in {"load", "bounds"} => c.clip \in Clip
           /\ c.op = "sync" => c.clips \in Seq(Clip)
           /\ c.op = "mode" => c.to \in {"live", "studio"}
           /\ c.op \in {"load", "bounds", "sync", "mode"}
<1>1. CASE c \in OneClip
  BY <1>1 DEF OneClip
<1>2. CASE c \in WholeList
  BY <1>2 DEF WholeList
<1>3. CASE c \in ChangeMode
  BY <1>3 DEF ChangeMode
<1>4. QED
  BY <1>1, <1>2, <1>3 DEF Command

LEMMA SendsType ==
    ASSUME queue \in Seq(Command), NEW new \in Seq(Command), Sends(new)
    PROVE  queue' \in Seq(Command)
BY ConcatProperties DEF Sends

LEMMA OneType ==
    ASSUME queue \in Seq(Command), NEW c \in Command, Sends(<<c>>)
    PROVE  queue' \in Seq(Command)
<1>1. <<c>> \in Seq(Command)
  OBVIOUS
<1>2. QED
  BY <1>1, SendsType

Loads(list) == [i \in DOMAIN list |-> Load(list[i])]

LEMMA LoadsAre ==
    ASSUME NEW list \in Seq(Clip)
    PROVE  /\ Loads(list) \in Seq(Command) /\ Len(Loads(list)) = Len(list)
           /\ \A i \in 1..Len(list) : Loads(list)[i] = Load(list[i])
<1> DEFINE n == Len(list)
<1>1. n \in Nat /\ DOMAIN list = 1..n
  BY LenProperties
<1>2. \A i \in 1..n : Load(list[i]) \in Command
  <2>1. TAKE i \in 1..n
  <2>2. list[i] \in Clip
    BY <1>1, EntryIsClip
  <2>3. QED
    BY <2>2 DEF Load, OneClip, Command
<1> HIDE DEF n
<1>3. Loads(list) = [i \in 1..n |-> Load(list[i])]
  BY <1>1 DEF Loads
<1>4. Loads(list) \in [1..n -> Command]
  BY <1>2, <1>3
<1>5. Loads(list) \in Seq(Command)
  BY <1>1, <1>4, IsASeq
<1>6. Len(Loads(list)) = n
  BY <1>1, <1>4, <1>5, LenProperties
<1>7. QED
  BY <1>3, <1>5, <1>6 DEF n

LEMMA ResendType ==
    ASSUME queue \in Seq(Command), NEW list \in Seq(Clip), ResendAll(list)
    PROVE  queue' \in Seq(Command) /\ allSent' = TRUE /\ crossed' = {}
<1>1. Sends(Loads(list)) /\ Loads(list) \in Seq(Command)
  BY LoadsAre DEF ResendAll, Loads
<1>2. QED
  BY <1>1, SendsType DEF ResendAll

LEMMA DropIs ==
    ASSUME TypeOK, Drop
    PROVE  \E clip \in Clip : /\ clip.id = nextId /\ clips' = Append(clips, clip)
                              /\ Sends(<<Load(clip)>>)
<1>1. PICK row \in Rows(mode), at \in 0..MaxTick, readable \in BOOLEAN :
         LET clip == [id |-> nextId, track |-> row, start |-> at,
                      dur |-> TotalOf(readable), off |-> 0, readable |-> readable]
         IN  clips' = Append(clips, clip) /\ Sends(<<Load(clip)>>)
  BY DEF Drop
<1> DEFINE clip == [id |-> nextId, track |-> row, start |-> at,
                    dur |-> TotalOf(readable), off |-> 0, readable |-> readable]
<1>2. mode = "studio" /\ nextId \in Nat \ {0} /\ at \in Nat
  BY Sizes DEF Drop, TypeOK, IsTimeline
<1>3. clip \in Clip /\ clip.id = nextId
  BY <1>2, TotalIs DEF Clip
<1>4. clips' = Append(clips, clip) /\ Sends(<<Load(clip)>>)
  BY <1>1
<1> HIDE DEF clip
<1>5. QED
  BY <1>3, <1>4

LEMMA DropType == TypeOK /\ Drop => TypeOK'
<1> SUFFICES ASSUME TypeOK, Drop PROVE TypeOK'
  OBVIOUS
<1>1. PICK clip \in Clip : /\ clip.id = nextId /\ clips' = Append(clips, clip)
                           /\ Sends(<<Load(clip)>>)
  BY DropIs
<1>2. nextId' = nextId + 1
      /\ UNCHANGED <<mode, clipboard, drag, file, engineMode, engine, allSent, crossed>>
  BY DEF Drop
<1>3. clips \in Seq(Clip) /\ nextId \in Nat \ {0} /\ IsTimeline(clips, nextId)
  BY DEF TypeOK, IsTimeline
<1>4. IsTimeline(clips', nextId')
  <2> DEFINE more == <<clip>>
  <2>1. more \in Seq(Clip) /\ DOMAIN more = {1} /\ more[1] = clip
    OBVIOUS
  <2>2. clips' = clips \o more
    BY <1>1, <1>3, AppendIsConcat
  <2> HIDE DEF more
  <2>3. Distinct(more)
    BY <2>1 DEF Distinct
  <2>4. \A i \in DOMAIN more : nextId <= more[i].id /\ more[i].id < nextId'
    BY <1>1, <1>2, <1>3, <2>1
  <2>5. nextId' \in Nat /\ nextId <= nextId'
    BY <1>2, <1>3
  <2>6. QED
    BY <1>3, <2>1, <2>2, <2>3, <2>4, <2>5, MoreClips
<1>5. queue' \in Seq(Command)
  <2>1. Load(clip) \in Command
    BY DEF Load, OneClip, Command
  <2>2. QED
    BY <1>1, <2>1, OneType DEF TypeOK
<1>6. QED
  BY <1>2, <1>4, <1>5 DEF TypeOK

LEMMA PickedType ==
    ASSUME TypeOK, NEW selection
    PROVE  Selected(selection) \in Seq(Clip) /\ IsTimeline(Unselected(selection), nextId)
<1>1. clips \in Seq(Clip) /\ IsTimeline(clips, nextId)
  BY DEF TypeOK, IsTimeline
<1>2. QED
  BY <1>1, ThoseOf, PartTimeline DEF Selected, Unselected

LEMMA CopyType == TypeOK /\ Copy => TypeOK'
<1> SUFFICES ASSUME TypeOK, Copy PROVE TypeOK'
  OBVIOUS
<1>1. clipboard' \in Seq(Clip)
  BY PickedType DEF Copy
<1>2. QED
  BY <1>1 DEF Copy, TypeOK

LEMMA CutType == TypeOK /\ Cut => TypeOK'
<1> SUFFICES ASSUME TypeOK, Cut PROVE TypeOK'
  OBVIOUS
<1>1. clipboard' \in Seq(Clip) /\ IsTimeline(clips', nextId) /\ ResendAll(clips')
  BY PickedType DEF Cut
<1>2. clips' \in Seq(Clip)
  BY <1>1 DEF IsTimeline
<1>3. queue' \in Seq(Command) /\ allSent' = TRUE /\ crossed' = {}
  BY <1>1, <1>2, ResendType DEF TypeOK
<1>4. UNCHANGED <<mode, nextId, drag, file, engineMode, engine>>
  BY DEF Cut
<1>5. QED
  BY <1>1, <1>3, <1>4 DEF TypeOK

LEMMA DeleteType == TypeOK /\ Delete => TypeOK'
<1> SUFFICES ASSUME TypeOK, Delete PROVE TypeOK'
  OBVIOUS
<1>1. IsTimeline(clips', nextId)
  BY PickedType DEF Delete
<1>2. QED
  BY <1>1 DEF Delete, TypeOK

\* The copies have ids that no clip has reached, and the counter is past them.
LEMMA CopiesType ==
    ASSUME TypeOK, NEW list \in Seq(Clip), NEW rows, NEW delta \in Nat,
           AddCopies(list, rows, delta)
    PROVE  IsTimeline(clips', nextId') /\ ResendAll(clips')
<1> DEFINE added == OnRows(list, rows)
           n == Len(added)
           first == NextFree(clips, nextId)
           copies == [i \in DOMAIN added |->
                        [added[i] EXCEPT !.id = first + 2 * (i - 1), !.start = @ + delta]]
<1>1. /\ clips' = clips \o copies /\ ResendAll(clips')
      /\ nextId' = Greater(nextId, first + 2 * n - 1)
      /\ added # <<>>
  BY DEF AddCopies
<1>2. IsTimeline(clips, nextId) /\ clips \in Seq(Clip) /\ nextId \in Nat \ {0}
  BY DEF TypeOK, IsTimeline
<1>3. added \in Seq(Clip)
  BY ThoseOf DEF OnRows
<1>4. first \in Nat /\ nextId < first
  <2>1. Highest(clips) \in Nat
    BY <1>2, HighestIs
  <2>2. QED
    BY <1>2, <2>1 DEF NextFree, Greater
<1> HIDE DEF added, first
<1>5. n \in Nat /\ n # 0 /\ DOMAIN added = 1..n /\ \A i \in 1..n : added[i] \in Clip
  BY <1>1, <1>3, LenProperties, EmptySeq, SeqEqual, EntryIsClip
<1> HIDE DEF n
<1>60. DOMAIN copies = 1..n
  BY <1>5
<1>61. ASSUME NEW i \in 1..n
       PROVE  copies[i] \in Clip /\ copies[i].id = first + 2 * (i - 1)
  <2>1. copies[i] = [added[i] EXCEPT !.id = first + 2 * (i - 1), !.start = @ + delta]
    BY <1>5
  <2> HIDE DEF copies
  <2>2. first + 2 * (i - 1) \in Nat \ {0}
    BY <1>2, <1>4, <1>5
  <2> DEFINE id == first + 2 * (i - 1)
  <2>3. added[i] \in Clip /\ added[i].start + delta \in Nat /\ id \in Nat \ {0}
    BY <1>5, <2>2, ClipIs
  <2> HIDE DEF id
  <2>4. copies[i] = [added[i] EXCEPT !.id = id, !.start = @ + delta]
    BY <2>1 DEF id
  <2>5. copies[i] \in Clip /\ copies[i].id = id
    BY <2>3, <2>4 DEF Clip
  <2>6. QED
    BY <2>5 DEF id
<1>6. DOMAIN copies = 1..n /\ \A i \in 1..n : copies[i] \in Clip /\ copies[i].id = first + 2 * (i - 1)
  <2> HIDE DEF copies
  <2>1. QED
    BY <1>60, <1>61
<1>7. copies \in Seq(Clip)
  <2>1. copies = [i \in 1..n |-> copies[i]]
    BY <1>5
  <2> HIDE DEF copies
  <2>2. copies \in [1..n -> Clip]
    BY <1>6, <2>1
  <2>3. QED
    BY <1>5, <2>2, IsASeq
<1> HIDE DEF copies
<1>8. Distinct(copies)
  <2>1. ASSUME NEW i \in 1..n, NEW j \in 1..n, copies[i].id = copies[j].id
        PROVE  i = j
    <3>1. first + 2 * (i - 1) = first + 2 * (j - 1)
      BY <1>6, <2>1
    <3>2. QED
      BY <1>4, <1>5, <3>1
  <2>2. QED
    BY <1>6, <2>1 DEF Distinct
<1>9. first + 2 * n - 1 \in Nat /\ first <= first + 2 * n - 1
  BY <1>4, <1>5
<1>10. nextId' = first + 2 * n - 1
  BY <1>1, <1>2, <1>4, <1>9 DEF Greater
<1>11. \A i \in DOMAIN copies : nextId <= copies[i].id /\ copies[i].id < nextId'
  <2>1. TAKE i \in DOMAIN copies
  <2>2. i \in 1..n /\ copies[i].id = first + 2 * (i - 1)
    BY <1>6
  <2>3. QED
    BY <1>2, <1>4, <1>5, <1>10, <2>2
<1>12. IsTimeline(clips \o copies, nextId')
  <2>1. nextId' \in Nat /\ nextId <= nextId'
    BY <1>2, <1>4, <1>9, <1>10
  <2>2. QED
    BY <1>2, <1>7, <1>8, <1>11, <2>1, MoreClips
<1>13. QED
  BY <1>1, <1>12

LEMMA PasteType ==
    ASSUME TypeOK, Paste
    PROVE  IsTimeline(clips', nextId') /\ ResendAll(clips')
           /\ UNCHANGED <<mode, clipboard, drag, file, engineMode, engine>>
<1>1. PICK at \in 0..MaxTick : AddCopies(clipboard, Rows(mode), Less(at, Earliest(clipboard)))
  BY DEF Paste
<1>2. clipboard \in Seq(Clip) /\ clipboard # <<>>
  BY DEF TypeOK, Paste
<1>3. Earliest(clipboard) \in Nat /\ at \in Nat
  BY <1>2, SpanIs, Sizes
<1>4. Less(at, Earliest(clipboard)) \in Nat
  BY <1>3 DEF Less, Greater
<1>5. QED
  BY <1>1, <1>2, <1>4, CopiesType DEF Paste

LEMMA DuplicateType ==
    ASSUME TypeOK, Duplicate
    PROVE  IsTimeline(clips', nextId') /\ ResendAll(clips')
           /\ UNCHANGED <<mode, clipboard, drag, file, engineMode, engine>>
<1>1. PICK selection : AddCopies(Selected(selection), Rows("studio"),
                                 Latest(Selected(selection)) - Earliest(Selected(selection)))
  BY DEF Duplicate
<1> DEFINE picked == Selected(selection)
<1>2. picked \in Seq(Clip)
  BY PickedType
<1>3. picked # <<>>
  <2>1. OnRows(picked, Rows("studio")) # <<>>
    BY <1>1 DEF AddCopies
  <2> HIDE DEF picked
  <2>2. SUFFICES ASSUME picked = <<>> PROVE FALSE
    OBVIOUS
  <2> DEFINE part == OnRows(picked, Rows("studio"))
  <2>3. part \in Seq(Clip) /\ \A k \in DOMAIN part : \E i \in DOMAIN picked : TRUE
    BY <1>2, ThoseOf DEF OnRows
  <2>4. DOMAIN picked = {}
    BY <2>2
  <2>5. DOMAIN part = {}
    BY <2>3, <2>4
  <2> HIDE DEF part
  <2>6. part = <<>>
    BY <2>3, <2>5, LenProperties, EmptySeq, SeqEqual
  <2>7. QED
    BY <2>1, <2>6 DEF part
<1> HIDE DEF picked
<1>4. Latest(picked) - Earliest(picked) \in Nat
  BY <1>2, <1>3, SpanIs
<1>5. QED
  BY <1>1, <1>2, <1>4, CopiesType DEF Duplicate, picked

LEMMA CopiedType ==
    ASSUME TypeOK, Paste \/ Duplicate
    PROVE  TypeOK'
<1>1. IsTimeline(clips', nextId') /\ ResendAll(clips')
      /\ UNCHANGED <<mode, clipboard, drag, file, engineMode, engine>>
  BY PasteType, DuplicateType
<1>2. clips' \in Seq(Clip)
  BY <1>1 DEF IsTimeline
<1>3. queue' \in Seq(Command) /\ allSent' = TRUE /\ crossed' = {}
  BY <1>1, <1>2, ResendType DEF TypeOK
<1>4. QED
  BY <1>1, <1>3 DEF TypeOK

-----------------------------------------------------------------------------
(* Trimming.                                                                *)

\* The bounds of a clip as a gesture freezes them.
Frozen == Nat \X (Nat \ {0}) \X Nat

LEMMA Parts ==
    ASSUME NEW from \in Frozen
    PROVE  from[1] \in Nat /\ from[2] \in Nat \ {0} /\ from[3] \in Nat
BY DEF Frozen

\* The greater and the smaller of two numbers, and the difference that stops at 0.
LEMMA Extremes ==
    ASSUME NEW a \in Nat, NEW b \in Nat
    PROVE  /\ Greater(a, b) \in Nat /\ Greater(a, b) >= a /\ Greater(a, b) >= b
           /\ Greater(a, b) \in {a, b}
           /\ Smaller(a, b) \in Nat /\ Smaller(a, b) <= a /\ Smaller(a, b) <= b
           /\ Smaller(a, b) \in {a, b}
           /\ Less(a, b) \in Nat /\ (a >= b => Less(a, b) = a - b) /\ (a <= b => Less(a, b) = 0)
BY DEF Greater, Smaller, Less

-----------------------------------------------------------------------------
(* The left edge of a clip.                                                 *)

\* While the bounds of the clamp are in order, the clip's end stays where it
\* was, something is left of the clip, and it starts at the tick that is
\* pointed at, at the sample's offset or one step before the end.
THEOREM LeftKeepsEnd ==
    ASSUME NEW from \in Frozen, NEW tick \in Nat, ClampHolds(from)
    PROVE  LET to == TrimLeft(from, tick)
           IN  /\ to \in Frozen
               /\ to[1] + to[2] = from[1] + from[2]
               /\ to[1] \in {tick, from[3], from[1] + from[2] - 1}
<1> DEFINE begin == from[1]  end == from[1] + from[2]  off == from[3]
           at == Greater(off, Smaller(tick, end - 1))
           new == Greater(end - at, 1)
           moved == off + Less(at, begin)
<1>1. begin \in Nat /\ end \in Nat /\ off \in Nat /\ end - 1 \in Nat /\ off <= end - 1
  BY Parts DEF ClampHolds
<1>2. TrimLeft(from, tick) = <<at, new, moved>>
  BY DEF TrimLeft
<1> HIDE DEF begin, end, off
<1>3. Smaller(tick, end - 1) \in Nat /\ Smaller(tick, end - 1) <= end - 1
      /\ Smaller(tick, end - 1) \in {tick, end - 1}
  BY <1>1, Extremes
<1>4. at \in Nat /\ at <= end - 1 /\ at \in {off, tick, end - 1}
  BY <1>1, <1>3, Extremes
<1> HIDE DEF at
<1>5. new = end - at /\ new \in Nat \ {0}
  BY <1>1, <1>4 DEF Greater
<1>6. moved \in Nat
  <2>1. Less(at, begin) \in Nat
    BY <1>1, <1>4 DEF Less, Greater
  <2> QED
    BY <1>1, <2>1
<1> HIDE DEF new, moved
<1>7. <<at, new, moved>> \in Frozen /\ at + new = end
  BY <1>1, <1>4, <1>5, <1>6 DEF Frozen
<1>8. end = from[1] + from[2] /\ off = from[3]
  BY DEF end, off
<1> DEFINE to == TrimLeft(from, tick)
<1>9. to \in Frozen /\ to[1] = at /\ to[2] = new
  BY <1>2, <1>7
<1> HIDE DEF to
<1>10. to[1] + to[2] = from[1] + from[2]
  BY <1>7, <1>8, <1>9
<1>11. to[1] \in {tick, from[3], from[1] + from[2] - 1}
  <2>1. end - 1 = from[1] + from[2] - 1
    BY <1>1, <1>8, Parts
  <2>2. QED
    BY <1>4, <1>8, <1>9, <2>1
<1>12. QED
  BY <1>9, <1>10, <1>11 DEF to

\* A trim inwards keeps the sample where it is under the grid.  The other way
\* it does not: see TrimKeepsContent.
THEOREM InwardKeepsContent ==
    ASSUME NEW from \in Frozen, NEW tick \in Nat, ClampHolds(from), TrimLeft(from, tick)[1] >= from[1]
    PROVE  TrimLeft(from, tick)[1] - TrimLeft(from, tick)[3] = from[1] - from[3]
<1> DEFINE to == TrimLeft(from, tick)
<1>1. to[1] \in Nat /\ from[1] \in Nat /\ from[3] \in Nat
  BY LeftKeepsEnd, Parts
<1>2. to[3] = from[3] + Less(to[1], from[1])
  BY DEF TrimLeft
<1> HIDE DEF to
<1>3. to[1] >= from[1]
  BY DEF to
<1>4. Less(to[1], from[1]) = to[1] - from[1]
  BY <1>1, <1>3, Extremes
<1>5. to[1] - to[3] = from[1] - from[3]
  BY <1>1, <1>2, <1>4
<1>6. QED
  BY <1>5 DEF to

-----------------------------------------------------------------------------
(* The right edge.                                                          *)

\* Start and offset stay, something is left of the clip, and it does not go on
\* past its sample, unless it is one step long.
THEOREM RightStaysInSample ==
    ASSUME NEW from \in Frozen, NEW total \in Nat, NEW tick \in Nat
    PROVE  LET to == TrimRight(from, total, tick)
           IN  /\ to \in Frozen
               /\ to[1] = from[1] /\ to[3] = from[3]
               /\ to[2] = 1 \/ to[3] + to[2] <= total
<1> DEFINE begin == from[1]  off == from[3]
           left == Greater(total - off, 1)
           end == Smaller(Greater(tick, begin + 1), begin + left)
           new == Greater(end - begin, 1)
<1>1. begin \in Nat /\ off \in Nat
  BY Parts
<1>2. TrimRight(from, total, tick) = <<begin, new, off>>
  BY DEF TrimRight
<1> HIDE DEF begin, off
<1>3. left \in Nat /\ left >= 1 /\ (left = 1 \/ off + left = total)
  BY <1>1 DEF Greater
<1> HIDE DEF left
<1>4. end \in Nat /\ end >= begin + 1 /\ end <= begin + left
  BY <1>1, <1>3 DEF Greater, Smaller
<1> HIDE DEF end
<1>5. new = end - begin /\ new \in Nat \ {0} /\ new <= left
  BY <1>1, <1>3, <1>4 DEF Greater
<1> HIDE DEF new
<1>6. new = 1 \/ off + new <= total
  BY <1>1, <1>3, <1>5
<1>7. <<begin, new, off>> \in Frozen
  BY <1>1, <1>5 DEF Frozen
<1>8. QED
  BY <1>2, <1>6, <1>7 DEF begin, off

-----------------------------------------------------------------------------
(* Dragging.                                                                *)

LEMMA GrabType == TypeOK /\ Grab => TypeOK'
<1> SUFFICES ASSUME TypeOK, Grab PROVE TypeOK'
  OBVIOUS
<1>1. PICK i \in DOMAIN clips, edge \in {"none", "left", "right"} :
         drag' = [id |-> clips[i].id, edge |-> edge, moved |-> FALSE, from |-> Bounds(clips[i])]
  BY DEF Grab
<1>2. clips[i] \in Clip
  BY EntryIsClip DEF TypeOK, IsTimeline
<1>3. Bounds(clips[i]) \in Nat \X Nat \X Nat /\ Bounds(clips[i])[2] # 0
  BY <1>2, ClipIs DEF Bounds
<1> DEFINE bounds == Bounds(clips[i])
<1>4. clips[i].id \in Nat /\ bounds \in Nat \X Nat \X Nat /\ bounds[2] # 0
  BY <1>2, <1>3, ClipIs
<1> HIDE DEF bounds
<1>5. drag' = [id |-> clips[i].id, edge |-> edge, moved |-> FALSE, from |-> bounds]
  BY <1>1 DEF bounds
<1>6. drag' \in Hand /\ drag'.from[2] # 0
  BY <1>4, <1>5 DEF Hand
<1>7. UNCHANGED <<mode, clips, nextId, clipboard, file, queue, engineMode, engine, allSent, crossed>>
  BY DEF Grab
<1>8. QED
  BY <1>6, <1>7 DEF TypeOK

\* The clip in hand, while the timeline has it.
LEMMA IndexIs ==
    ASSUME TypeOK, NEW id \in Ids(clips)
    PROVE  /\ IndexOf(id) \in DOMAIN clips /\ clips[IndexOf(id)].id = id
           /\ clips[IndexOf(id)] \in Clip
<1>1. \E i \in DOMAIN clips : clips[i].id = id
  BY DEF Ids
<1>2. IndexOf(id) \in DOMAIN clips /\ clips[IndexOf(id)].id = id
  BY <1>1 DEF IndexOf
<1>3. QED
  BY <1>2, EntryIsClip DEF TypeOK, IsTimeline

\* What either edge makes of the bounds that were grabbed.
LEMMA EdgeIs ==
    ASSUME TypeOK, drag.edge # "none", drag.edge = "left" => ClampHolds(drag.from), NEW tick \in Nat,
           NEW total \in Nat
    PROVE  LET to == IF drag.edge = "left" THEN TrimLeft(drag.from, tick)
                     ELSE TrimRight(drag.from, total, tick)
           IN  to \in Frozen
<1>1. drag.from \in Nat \X Nat \X Nat /\ drag.from[2] # 0
  BY DEF TypeOK, Hand
<1>2. drag.from \in Frozen
  BY <1>1 DEF Frozen
<1>3. CASE drag.edge = "left"
  BY <1>2, <1>3, LeftKeepsEnd
<1>4. CASE drag.edge # "left"
  BY <1>2, <1>4, RightStaysInSample
<1>5. QED
  BY <1>3, <1>4

LEMMA TrimIs ==
    ASSUME TypeOK, Trim
    PROVE  \E c \in Clip : /\ c.id = drag.id /\ c.track = clips[IndexOf(drag.id)].track
                           /\ c.readable = clips[IndexOf(drag.id)].readable
                           /\ clips' = [clips EXCEPT ![IndexOf(drag.id)] = c]
<1> DEFINE i == IndexOf(drag.id)  c == clips[i]
<1>1. drag.id \in Ids(clips) /\ drag.edge # "none" /\ (drag.edge = "left" => ClampHolds(drag.from))
  BY DEF Trim
<1>2. PICK tick \in 0..MaxTick :
         LET to == IF drag.edge = "left" THEN TrimLeft(drag.from, tick)
                   ELSE TrimRight(drag.from, TotalOf(clips[i].readable), tick)
         IN  clips' = [clips EXCEPT ![i] = [@ EXCEPT !.start = to[1], !.dur = to[2], !.off = to[3]]]
  BY DEF Trim
<1> DEFINE total == TotalOf(clips[i].readable)
           to == IF drag.edge = "left" THEN TrimLeft(drag.from, tick)
                 ELSE TrimRight(drag.from, total, tick)
<1>3. to \in Frozen
  BY <1>1, <1>2, Sizes, TotalIs, EdgeIs
<1>4. clips' = [clips EXCEPT ![i] = [@ EXCEPT !.start = to[1], !.dur = to[2], !.off = to[3]]]
  BY <1>2
<1>5. i \in DOMAIN clips /\ c \in Clip /\ c.id = drag.id
  BY <1>1, IndexIs
<1> HIDE DEF to, total, i
<1> DEFINE new == [c EXCEPT !.start = to[1], !.dur = to[2], !.off = to[3]]
<1>6. clips' = [clips EXCEPT ![i] = new]
  BY <1>4, <1>5
<1>7. to[1] \in Nat /\ to[2] \in Nat \ {0} /\ to[3] \in Nat
  BY <1>3, Parts
<1> HIDE DEF c
<1>8. new \in Clip /\ new.id = c.id /\ new.track = c.track /\ new.readable = c.readable
  BY <1>5, <1>7 DEF Clip
<1> HIDE DEF new
<1>9. new.id = drag.id
  BY <1>5, <1>8
<1>10. QED
  BY <1>6, <1>8, <1>9 DEF i, c

LEMMA MoveIs ==
    ASSUME TypeOK, Move
    PROVE  \E c \in Clip : /\ c.id = drag.id /\ clips' = [clips EXCEPT ![IndexOf(drag.id)] = c]
                           /\ c.readable = clips[IndexOf(drag.id)].readable
                           /\ crossed' = IF c.track = clips[IndexOf(drag.id)].track THEN crossed
                                         ELSE crossed \union {drag.id}
<1> DEFINE i == IndexOf(drag.id)  c == clips[i]
<1>1. drag.id \in Ids(clips) /\ mode = "studio"
  BY DEF Move
<1>2. PICK row \in Rows(mode), tick \in 0..MaxTick :
         /\ clips' = [clips EXCEPT ![i] = [@ EXCEPT !.track = row, !.start = tick]]
         /\ crossed' = IF row = clips[i].track THEN crossed ELSE crossed \union {drag.id}
  BY DEF Move
<1>3. row \in Rows("studio") /\ tick \in Nat
  BY <1>1, <1>2, Sizes
<1>4. i \in DOMAIN clips /\ c \in Clip /\ c.id = drag.id
  BY <1>1, IndexIs
<1> HIDE DEF i
<1> DEFINE new == [c EXCEPT !.track = row, !.start = tick]
<1>5. clips' = [clips EXCEPT ![i] = new]
  BY <1>2, <1>4
<1>6. crossed' = IF row = c.track THEN crossed ELSE crossed \union {drag.id}
  BY <1>2
<1> HIDE DEF c
<1>7. new \in Clip /\ new.id = c.id /\ new.track = row /\ new.readable = c.readable
  BY <1>3, <1>4 DEF Clip
<1> HIDE DEF new
<1>8. new.id = drag.id
  BY <1>4, <1>7
<1>9. QED
  BY <1>5, <1>6, <1>7, <1>8 DEF i, c

\* A step of the drag, whatever it writes into the clip.
LEMMA DraggedType ==
    ASSUME TypeOK, drag.id \in Ids(clips), NEW c \in Clip, c.id = drag.id,
           clips' = [clips EXCEPT ![IndexOf(drag.id)] = c]
    PROVE  IsTimeline(clips', nextId)
<1>1. IndexOf(drag.id) \in DOMAIN clips /\ clips[IndexOf(drag.id)].id = c.id
  BY IndexIs
<1>2. IsTimeline(clips, nextId)
  BY DEF TypeOK
<1>3. QED
  BY <1>1, <1>2, ChangedClip

LEMMA MovedHand ==
    ASSUME drag \in Hand, drag' = [drag EXCEPT !.moved = TRUE]
    PROVE  drag' \in Hand /\ drag'.id = drag.id /\ drag'.edge = drag.edge /\ drag'.from = drag.from
           /\ drag'.moved
BY DEF Hand

LEMMA DragType == TypeOK /\ (Trim \/ Move) => TypeOK'
<1> SUFFICES ASSUME TypeOK, Trim \/ Move PROVE TypeOK'
  OBVIOUS
<1>1. drag.id \in Ids(clips) /\ drag' = [drag EXCEPT !.moved = TRUE]
      /\ UNCHANGED <<mode, nextId, clipboard, file, queue, engineMode, engine, allSent>>
  BY DEF Trim, Move
<1>2. IsTimeline(clips', nextId) /\ crossed' \subseteq Nat
  <2>1. CASE Trim
    <3>1. IsTimeline(clips', nextId)
      BY <1>1, <2>1, TrimIs, DraggedType
    <3>2. crossed' = crossed
      BY <2>1 DEF Trim
    <3>3. QED
      BY <3>1, <3>2 DEF TypeOK
  <2>2. CASE Move
    <3>1. IsTimeline(clips', nextId)
      BY <1>1, <2>2, MoveIs, DraggedType
    <3>2. crossed' \subseteq crossed \union {drag.id}
      BY <2>2, MoveIs
    <3>3. drag.id \in Nat
      BY DEF TypeOK, Hand
    <3>4. QED
      BY <3>1, <3>2, <3>3 DEF TypeOK
  <2>3. QED
    BY <2>1, <2>2
<1>3. drag' \in Hand /\ (drag'.edge # "none" => drag'.from[2] # 0)
  BY <1>1, MovedHand DEF TypeOK
<1>4. QED
  BY <1>1, <1>2, <1>3 DEF TypeOK

LEMMA NoHand == NoDrag \in Hand /\ NoDrag.edge = "none" /\ NoDrag.id = 0
BY DEF NoDrag, Hand

LEMMA ReleaseType == TypeOK /\ Release => TypeOK'
<1> SUFFICES ASSUME TypeOK, Release PROVE TypeOK'
  OBVIOUS
<1>1. queue' \in Seq(Command)
  <2>1. CASE drag.moved /\ drag.id \in Ids(clips)
    <3> DEFINE bounds == [op |-> "bounds", clip |-> clips[IndexOf(drag.id)]]
    <3>1. Sends(<<bounds>>)
      BY <2>1 DEF Release
    <3>2. bounds \in Command
      BY <2>1, IndexIs DEF OneClip, Command
    <3> HIDE DEF bounds
    <3>3. QED
      BY <3>1, <3>2, OneType DEF TypeOK
  <2>2. CASE ~(drag.moved /\ drag.id \in Ids(clips))
    <3>1. Sends(<<>>)
      BY <2>2 DEF Release
    <3>2. <<>> \in Seq(Command)
      OBVIOUS
    <3>3. QED
      BY <3>1, <3>2, SendsType DEF TypeOK
  <2>3. QED
    BY <2>1, <2>2
<1>2. drag' = NoDrag
      /\ UNCHANGED <<mode, clips, nextId, clipboard, file, engineMode, engine, allSent, crossed>>
  BY DEF Release
<1>3. QED
  BY <1>1, <1>2, NoHand DEF TypeOK

-----------------------------------------------------------------------------
(* Mode, transport, project; the engine.                                    *)

LEMMA ModeType == TypeOK /\ (ModeButton \/ SwitchSilently) => TypeOK'
<1> SUFFICES ASSUME TypeOK, ModeButton \/ SwitchSilently PROVE TypeOK'
  OBVIOUS
<1>1. mode' \in {"live", "studio"}
      /\ UNCHANGED <<clips, nextId, clipboard, drag, file, engineMode, engine, allSent, crossed>>
  BY DEF ModeButton, SwitchSilently
<1>2. queue' \in Seq(Command)
  <2>1. CASE ModeButton
    <3> DEFINE c == [op |-> "mode", to |-> mode']
    <3>1. c \in Command
      BY <1>1 DEF ChangeMode, Command
    <3>2. Sends(<<c>>)
      BY <2>1 DEF ModeButton
    <3> HIDE DEF c
    <3>3. QED
      BY <3>1, <3>2, OneType DEF TypeOK
  <2>2. CASE SwitchSilently
    BY <2>2 DEF SwitchSilently, TypeOK
  <2>3. QED
    BY <2>1, <2>2
<1>3. QED
  BY <1>1, <1>2 DEF TypeOK

LEMMA PlayType == TypeOK /\ Play => TypeOK'
<1> SUFFICES ASSUME TypeOK, Play PROVE TypeOK'
  OBVIOUS
<1>1. UNCHANGED <<mode, clips, nextId, clipboard, drag, file, engineMode, engine>>
  BY DEF Play
<1>2. allSent' \in BOOLEAN /\ crossed' \subseteq Nat
  BY DEF Play, TypeOK
<1> DEFINE c == IF mode = "studio" THEN [op |-> "sync", clips |-> clips] ELSE [op |-> "mode", to |-> "live"]
<1>3. c \in Command
  <2>1. clips \in Seq(Clip)
    BY DEF TypeOK, IsTimeline
  <2>2. QED
    BY <2>1 DEF WholeList, ChangeMode, Command
<1>4. Sends(<<c>>)
  BY DEF Play
<1> HIDE DEF c
<1>5. queue' \in Seq(Command)
  BY <1>3, <1>4, OneType DEF TypeOK
<1>6. QED
  BY <1>1, <1>2, <1>5 DEF TypeOK

LEMMA ApplyType ==
    ASSUME TypeOK, NEW project, IsTimeline(project.clips, project.next), Apply(project)
    PROVE  TypeOK'
<1>1. IsTimeline(clips', nextId')
  BY PartTimeline DEF Apply, OnRows
<1>2. /\ clipboard' = <<>> /\ drag' = NoDrag /\ mode' = "studio"
      /\ allSent' \in BOOLEAN /\ crossed' = {}
      /\ UNCHANGED <<file, queue, engineMode, engine>>
  BY DEF Apply
<1>3. <<>> \in Seq(Clip)
  OBVIOUS
<1>4. QED
  BY <1>1, <1>2, <1>3, NoHand DEF TypeOK

LEMMA BlankIs == IsTimeline(Blank.clips, Blank.next)
<1>1. Blank.clips = <<>> /\ Blank.next = 1
  BY DEF Blank
<1>2. <<>> \in Seq(Clip) /\ DOMAIN <<>> = {}
  OBVIOUS
<1>3. QED
  BY <1>1, <1>2 DEF IsTimeline

LEMMA ProjectType == TypeOK /\ (Save \/ Open \/ NewProject) => TypeOK'
<1> SUFFICES ASSUME TypeOK, Save \/ Open \/ NewProject PROVE TypeOK'
  OBVIOUS
<1>1. CASE Save
  <2>1. file'.clips = clips /\ file'.next = nextId
    BY <1>1 DEF Save
  <2>2. UNCHANGED <<mode, clips, nextId, clipboard, drag, queue, engineMode, engine, allSent, crossed>>
    BY <1>1 DEF Save
  <2>3. QED
    BY <2>1, <2>2 DEF TypeOK
<1>2. CASE Open
  BY <1>2, ApplyType DEF Open, TypeOK
<1>3. CASE NewProject
  BY <1>3, ApplyType, BlankIs DEF NewProject
<1>4. QED
  BY <1>1, <1>2, <1>3

LEMMA SyncedType ==
    ASSUME NEW m, NEW list \in Seq(Entry), NEW new \in Seq(Clip)
    PROVE  Synced(m, list, new) \in Seq(Entry)
<1>1. PICK f : Grows(f, m, Pads(list), new, FALSE) /\ Synced(m, list, new) = f[Len(new)]
  BY SyncedIs
<1>2. Len(new) \in 0..Len(new)
  BY LenProperties
<1>3. QED
  BY <1>1, <1>2 DEF Grows

LEMMA HeadIs ==
    ASSUME TypeOK, queue # <<>>
    PROVE  Head(queue) \in Command /\ Tail(queue) \in Seq(Command)
BY HeadTailProperties DEF TypeOK

LEMMA HandleType == TypeOK /\ Handle => TypeOK'
<1> SUFFICES ASSUME TypeOK, Handle PROVE TypeOK'
  OBVIOUS
<1> DEFINE c == Head(queue)
<1>1. c \in Command /\ queue' \in Seq(Command)
  BY HeadIs DEF Handle
<1>2. Obey(c) /\ UNCHANGED <<interface, crossed>>
  BY DEF Handle
<1> HIDE DEF c
<1>3. engine \in Seq(Entry) /\ engineMode \in {"live", "studio"} /\ allSent \in BOOLEAN
  BY DEF TypeOK
<1>4. engine' \in Seq(Entry) /\ engineMode' \in {"live", "studio"} /\ allSent' \in BOOLEAN
  <2>1. CASE c.op = "load"
    <3>1. c.clip \in Clip
      BY <1>1, <2>1, CommandParts
    <3>2. engine' = Decoded(engineMode, engine, c.clip, TRUE) /\ Heard
      BY <1>2, <2>1 DEF Obey
    <3>3. QED
      BY <1>3, <3>1, <3>2, DecodedType DEF Heard
  <2>2. CASE c.op = "bounds"
    <3>1. c.clip \in Clip
      BY <1>1, <2>2, CommandParts
    <3>2. engine' = Rebound(engineMode, engine, c.clip) /\ Heard
      BY <1>2, <2>2 DEF Obey
    <3>3. QED
      BY <1>3, <3>1, <3>2, ReboundType DEF Heard
  <2>3. CASE c.op = "sync"
    <3>1. c.clips \in Seq(Clip)
      BY <1>1, <2>3, CommandParts
    <3>2. engine' = Synced(engineMode, engine, c.clips) /\ Heard
      BY <1>2, <2>3 DEF Obey
    <3>3. QED
      BY <1>3, <3>1, <3>2, SyncedType DEF Heard
  <2>4. CASE c.op = "mode"
    <3>1. c.to \in {"live", "studio"}
      BY <1>1, <2>4, CommandParts
    <3>2. engineMode' = c.to /\ UNCHANGED <<engine, allSent>>
      BY <1>2, <2>4 DEF Obey
    <3>3. QED
      BY <1>3, <3>1, <3>2
  <2>5. QED
    BY <1>1, <2>1, <2>2, <2>3, <2>4, CommandParts
<1>5. QED
  BY <1>1, <1>2, <1>4 DEF TypeOK, interface

LEMMA InitType == Init => TypeOK
<1> SUFFICES ASSUME Init PROVE TypeOK
  OBVIOUS
<1>1. /\ mode = "live" /\ clips = <<>> /\ nextId = 1 /\ clipboard = <<>> /\ drag = NoDrag
      /\ file = Blank /\ queue = <<>> /\ engineMode = "studio" /\ engine = <<>>
      /\ allSent = TRUE /\ crossed = {}
  BY DEF Init
<1>2. IsTimeline(clips, nextId) /\ IsTimeline(file.clips, file.next)
  BY <1>1, BlankIs DEF Blank
<1>3. clipboard \in Seq(Clip) /\ queue \in Seq(Command) /\ engine \in Seq(Entry)
  BY <1>1
<1>4. QED
  BY <1>1, <1>2, <1>3, NoHand DEF TypeOK

LEMMA StepType == TypeOK /\ [Next]_vars => TypeOK'
<1> SUFFICES ASSUME TypeOK, [Next]_vars PROVE TypeOK'
  OBVIOUS
<1>1. CASE UNCHANGED vars
  BY <1>1 DEF TypeOK, vars, interface
<1>2. QED
  BY <1>1, DropType, CopyType, CutType, DeleteType, CopiedType, GrabType, DragType, ReleaseType,
     ModeType, PlayType, ProjectType, HandleType DEF Next

\* The state stays well formed.  Above all no two clips of the timeline, nor of
\* the project on disk, share an id, and no id of either is still to be given,
\* however clips are dropped, cut, pasted and duplicated and projects opened:
\* the engine finds the clip a command is about by its id alone.
THEOREM TypeCorrect == Spec => []TypeOK
BY InitType, StepType, PTL DEF Spec

-----------------------------------------------------------------------------
(* What the engine has once it has obeyed the commands on their way.  The   *)
(* engine plays the first of its clips with an id.                          *)

States == [mode : {"live", "studio"}, list : Seq(Entry), lost : BOOLEAN]

Now == [mode |-> engineMode, list |-> engine, lost |-> FALSE]

Played(list, c) ==
    CASE c.op = "load" -> Decoded("studio", list, c.clip, TRUE)
      [] c.op = "bounds" -> Rebound("studio", list, c.clip)
      [] c.op = "sync" -> Synced("studio", list, c.clips)

\* A command about clips that arrives in Live mode is lost: it finds them by
\* their tracks.
Leads(s, c, t) ==
    IF c.op = "mode" THEN t.mode = c.to /\ t.list = s.list /\ t.lost = s.lost
    ELSE /\ t.mode = s.mode /\ (t.lost <=> s.lost \/ s.mode = "live")
         /\ ~t.lost => t.list = Played(s.list, c)

\* h goes from start to end over the commands cmds.
History(h, start, cmds, end) ==
    /\ h \in [0..Len(cmds) -> States] /\ h[0] = start /\ h[Len(cmds)] = end
    /\ \A i \in 1..Len(cmds) : Leads(h[i - 1], cmds[i], h[i])

Reaches(start, cmds, end) == \E h : History(h, start, cmds, end)

First(list, j, id) ==
    /\ j \in DOMAIN list /\ list[j].clip.id = id
    /\ \A k \in DOMAIN list : k < j => list[k].clip.id # id

Has(list, c) == c.readable => \E j : First(list, j, c.id) /\ list[j].clip = c

\* The clip, if its file can be read, is in list as it is shown, but for what
\* the engine is told later: the bounds of one being dragged when the button is
\* released, the track of one dragged across rows when it is next sent.
Shows(list, c) ==
    c.readable =>
        \E j : /\ First(list, j, c.id)
               /\ list[j].clip.track = c.track \/ c.id \in crossed
               /\ Bounds(list[j].clip) = Bounds(c) \/ (c.id = drag.id /\ drag.moved)

Complete(list) == \A i \in DOMAIN clips : Shows(list, clips[i])

\* Whatever is still on its way, it ends with every clip in the engine, or
\* with a command that finds the engine in Live mode.
Plan ==
    allSent => \A end \in States : Reaches(Now, queue, end) => end.lost \/ Complete(end.list)

LEMMA ReachesNothing ==
    ASSUME NEW s \in States
    PROVE  Reaches(s, <<>>, s)
<1> DEFINE h == [i \in 0..0 |-> s]
<1>1. h \in [0..0 -> States] /\ h[0] = s
  OBVIOUS
<1>2. Len(<<>>) = 0
  OBVIOUS
<1> HIDE DEF h
<1>3. History(h, s, <<>>, s)
  BY <1>1, <1>2 DEF History
<1>4. QED
  BY <1>3 DEF Reaches

\* The commands in two parts.
LEMMA ReachesSplit ==
    ASSUME NEW s \in States, NEW cmds \in Seq(Command), NEW more \in Seq(Command),
           NEW end \in States, Reaches(s, cmds \o more, end)
    PROVE  \E mid \in States : Reaches(s, cmds, mid) /\ Reaches(mid, more, end)
<1> DEFINE n == Len(cmds)  m == Len(more)  all == cmds \o more
<1>1. n \in Nat /\ m \in Nat
  BY LenProperties
<1>2. Len(all) = n + m /\ \A i \in 1..(n + m) : all[i] = IF i <= n THEN cmds[i] ELSE more[i - n]
  BY <1>1, ConcatProperties
<1>3. PICK h : History(h, s, all, end)
  BY DEF Reaches
<1> HIDE DEF all, n, m
<1>4. /\ h \in [0..(n + m) -> States] /\ h[0] = s /\ h[n + m] = end
      /\ \A i \in 1..(n + m) : Leads(h[i - 1], all[i], h[i])
  BY <1>2, <1>3 DEF History
<1> DEFINE f == [i \in 0..n |-> h[i]]  g == [i \in 0..m |-> h[n + i]]
<1>5. /\ f \in [0..n -> States] /\ f[0] = s /\ f[n] = h[n] /\ \A i \in 0..n : f[i] = h[i]
      /\ g \in [0..m -> States] /\ g[0] = h[n] /\ g[m] = end /\ \A i \in 0..m : g[i] = h[n + i]
  BY <1>1, <1>4
<1> HIDE DEF f, g
<1>6. ASSUME NEW i \in 1..n PROVE Leads(f[i - 1], cmds[i], f[i])
  <2>1. i \in 1..(n + m) /\ i \in 0..n /\ i - 1 \in 0..n /\ i <= n
    BY <1>1
  <2>2. Leads(h[i - 1], all[i], h[i]) /\ all[i] = cmds[i]
    BY <1>2, <1>4, <2>1
  <2>3. QED
    BY <1>5, <2>1, <2>2
<1>7. ASSUME NEW i \in 1..m PROVE Leads(g[i - 1], more[i], g[i])
  <2>1. n + i \in 1..(n + m) /\ i \in 0..m /\ i - 1 \in 0..m /\ ~(n + i <= n)
        /\ n + (i - 1) = (n + i) - 1 /\ (n + i) - n = i
    BY <1>1
  <2>2. Leads(h[(n + i) - 1], all[n + i], h[n + i]) /\ all[n + i] = more[i]
    BY <1>2, <1>4, <2>1
  <2>3. g[i - 1] = h[(n + i) - 1] /\ g[i] = h[n + i]
    BY <1>5, <2>1
  <2>4. QED
    BY <2>2, <2>3
<1>8. History(f, s, cmds, h[n]) /\ History(g, h[n], more, end)
  BY <1>5, <1>6, <1>7 DEF History, n, m
<1>9. h[n] \in States
  BY <1>1, <1>4
<1>10. QED
  BY <1>8, <1>9 DEF Reaches

\* One command.
LEMMA ReachesOne ==
    ASSUME NEW s \in States, NEW c, NEW end \in States, Reaches(s, <<c>>, end)
    PROVE  Leads(s, c, end)
<1> DEFINE cmds == <<c>>
<1>1. Len(cmds) = 1 /\ cmds[1] = c
  OBVIOUS
<1>2. PICK h : History(h, s, cmds, end)
  BY DEF Reaches
<1> HIDE DEF cmds
<1>3. h[0] = s /\ h[1] = end /\ Leads(h[1 - 1], cmds[1], h[1])
  BY <1>1, <1>2 DEF History
<1>4. QED
  BY <1>1, <1>3

LEMMA ReachesFirst ==
    ASSUME NEW s \in States, NEW cmds \in Seq(Command), cmds # <<>>, NEW t \in States,
           Leads(s, Head(cmds), t), NEW end \in States, Reaches(t, Tail(cmds), end)
    PROVE  Reaches(s, cmds, end)
<1> DEFINE n == Len(cmds)  rest == Tail(cmds)
<1>1. n \in Nat /\ n >= 1 /\ Head(cmds) = cmds[1]
  BY EmptySeq, LenProperties
<1>2. Len(rest) = n - 1 /\ \A i \in 1..(n - 1) : rest[i] = cmds[i + 1]
  <2>1. Len(rest) = n - 1 /\ \A i \in 1..Len(rest) : rest[i] = cmds[i + 1]
    BY HeadTailProperties
  <2>2. QED
    BY <2>1
<1>3. PICK h : History(h, t, rest, end)
  BY DEF Reaches
<1> HIDE DEF n, rest
<1>4. /\ h \in [0..(n - 1) -> States] /\ h[0] = t /\ h[n - 1] = end
      /\ \A i \in 1..(n - 1) : Leads(h[i - 1], rest[i], h[i])
  BY <1>2, <1>3 DEF History
<1> DEFINE g == [i \in 0..n |-> IF i = 0 THEN s ELSE h[i - 1]]
<1>5. /\ g \in [0..n -> States] /\ g[0] = s /\ g[n] = end
      /\ \A i \in 1..n : g[i] = h[i - 1]
  BY <1>1, <1>4
<1> HIDE DEF g
<1>6. ASSUME NEW i \in 1..n PROVE Leads(g[i - 1], cmds[i], g[i])
  <2>1. CASE i = 1
    <3>1. g[i - 1] = s /\ g[i] = t /\ cmds[i] = Head(cmds)
      BY <1>1, <1>4, <1>5, <2>1
    <3>2. QED
      BY <3>1
  <2>2. CASE i # 1
    <3>1. i - 1 \in 1..(n - 1) /\ i - 1 \in 1..n /\ (i - 1) + 1 = i
      BY <1>1, <2>2
    <3>2. Leads(h[(i - 1) - 1], rest[i - 1], h[i - 1]) /\ rest[i - 1] = cmds[i]
      BY <1>2, <1>4, <3>1
    <3>3. g[i - 1] = h[(i - 1) - 1] /\ g[i] = h[i - 1]
      BY <1>5, <3>1
    <3>4. QED
      BY <3>2, <3>3
  <2>3. QED
    BY <2>1, <2>2
<1>7. History(g, s, cmds, end)
  BY <1>5, <1>6 DEF History, n
<1>8. QED
  BY <1>7 DEF Reaches

-----------------------------------------------------------------------------
(* What a clip sent, or its bounds, leave in the engine's list.             *)

LEMMA AddedHas ==
    ASSUME NEW list \in Seq(Entry), NEW c \in Clip, NEW pad \in BOOLEAN
    PROVE  LET new == Added("studio", list, c, pad)
           IN  /\ Has(new, c)
               /\ \A j, id : id # c.id /\ First(list, j, id) => First(new, j, id) /\ new[j] = list[j]
<1> DEFINE new == Added("studio", list, c, pad)
           entry == [clip |-> c, pad |-> pad]
           found == Found("studio", list, c)
           n == Len(list)
<1>1. entry \in Entry /\ entry.clip = c
  BY DEF Entry
<1>2. new = IF found = {} THEN Append(list, entry) ELSE [list EXCEPT ![Min(found)] = entry]
  BY DEF Added
<1>3. \A k : k \in found <=> k \in DOMAIN list /\ list[k].clip.id = c.id
  BY DEF Found, Same
<1>4. n \in Nat /\ DOMAIN list = 1..n
  BY LenProperties
<1>5. CASE found = {}
  <2>1. Len(Append(list, entry)) = n + 1 /\ Append(list, entry)[n + 1] = entry
        /\ \A k \in 1..n : Append(list, entry)[k] = list[k]
    BY <1>1, AppendProperties
  <2>2. DOMAIN Append(list, entry) = 1..(n + 1)
    BY <1>1, <1>4, <2>1, AppendProperties, LenProperties
  <2>3. new = Append(list, entry)
    BY <1>2, <1>5
  <2> HIDE DEF new, found, entry, n
  <2>4. DOMAIN new = 1..(n + 1) /\ new[n + 1] = entry /\ \A k \in 1..n : new[k] = list[k]
    BY <2>1, <2>2, <2>3
  <2>5. \A k \in 1..n : list[k].clip.id # c.id
    BY <1>3, <1>4, <1>5
  <2>6. First(new, n + 1, c.id) /\ new[n + 1].clip = c
    <3>1. n + 1 \in DOMAIN new /\ new[n + 1].clip = c
      BY <1>1, <1>4, <2>4
    <3>2. ASSUME NEW k \in DOMAIN new, k < n + 1 PROVE new[k].clip.id # c.id
      <4>1. k \in 1..n
        BY <1>4, <2>4, <3>2
      <4>2. QED
        BY <2>4, <2>5, <4>1
    <3>3. QED
      BY <3>1, <3>2 DEF First
  <2>7. ASSUME NEW j, NEW id, First(list, j, id)
        PROVE  First(new, j, id) /\ new[j] = list[j]
    <3>1. j \in 1..n /\ list[j].clip.id = id /\ \A k \in 1..n : k < j => list[k].clip.id # id
      BY <1>4, <2>7 DEF First
    <3>2. \A k \in 1..(n + 1) : k < j => k \in 1..n
      BY <1>4, <3>1
    <3>3. j \in 1..(n + 1)
      BY <1>4, <3>1
    <3>4. QED
      BY <2>4, <3>1, <3>2, <3>3 DEF First
  <2>8. Has(new, c) /\ \A j, id : id # c.id /\ First(list, j, id) => First(new, j, id) /\ new[j] = list[j]
    BY <2>6, <2>7 DEF Has
  <2>9. QED
    BY <2>8 DEF new
<1>6. CASE found # {}
  <2> DEFINE at == Min(found)
  <2>1. at \in DOMAIN list /\ list[at].clip.id = c.id
        /\ \A k \in DOMAIN list : list[k].clip.id = c.id => at <= k
    BY <1>6, FoundIs DEF Same
  <2>2. new = [list EXCEPT ![at] = entry]
    BY <1>2, <1>6
  <2> HIDE DEF new, found, entry, at
  <2>3. DOMAIN new = DOMAIN list /\ new[at] = entry /\ \A k \in DOMAIN list : k # at => new[k] = list[k]
    BY <2>1, <2>2
  <2>4. \A k \in DOMAIN list : new[k].clip.id = list[k].clip.id
    BY <1>1, <2>1, <2>3
  <2>5. \A k \in DOMAIN list : k < at => list[k].clip.id # c.id
    <3>1. \A k \in DOMAIN list : k \in Nat
      BY <1>4
    <3>2. QED
      BY <2>1, <3>1
  <2>6. First(new, at, c.id) /\ new[at].clip = c
    BY <1>1, <2>1, <2>3, <2>4, <2>5 DEF First
  <2>7. ASSUME NEW j, NEW id, id # c.id, First(list, j, id)
        PROVE  First(new, j, id) /\ new[j] = list[j]
    BY <2>1, <2>3, <2>4, <2>7 DEF First
  <2>8. Has(new, c) /\ \A j, id : id # c.id /\ First(list, j, id) => First(new, j, id) /\ new[j] = list[j]
    BY <2>6, <2>7 DEF Has
  <2>9. QED
    BY <2>8 DEF new
<1>7. QED
  BY <1>5, <1>6

LEMMA DecodedHas ==
    ASSUME NEW list \in Seq(Entry), NEW c \in Clip, NEW pad \in BOOLEAN
    PROVE  LET new == Decoded("studio", list, c, pad)
           IN  /\ Has(new, c)
               /\ \A j, id : id # c.id /\ First(list, j, id) => First(new, j, id) /\ new[j] = list[j]
<1>1. CASE c.readable
  BY <1>1, AddedHas DEF Decoded
<1>2. CASE ~c.readable
  <2>1. Decoded("studio", list, c, pad) = list
    BY <1>2 DEF Decoded
  <2>2. Has(list, c)
    BY <1>2 DEF Has
  <2>3. QED
    BY <2>1, <2>2
<1>3. QED
  BY <1>1, <1>2

LEMMA ReboundFirst ==
    ASSUME NEW list \in Seq(Entry), NEW c \in Clip
    PROVE  LET new == Rebound("studio", list, c)
           IN  \A j, id : First(list, j, id) =>
                 /\ First(new, j, id) /\ new[j].clip.track = list[j].clip.track
                 /\ Bounds(new[j].clip) = IF id = c.id THEN Bounds(c) ELSE Bounds(list[j].clip)
<1> DEFINE new == Rebound("studio", list, c)
           found == Found("studio", list, c)
           Kept(j, id) == /\ First(new, j, id) /\ new[j].clip.track = list[j].clip.track
                          /\ Bounds(new[j].clip) = IF id = c.id THEN Bounds(c) ELSE Bounds(list[j].clip)
<1>1. \A k : k \in found <=> k \in DOMAIN list /\ list[k].clip.id = c.id
  BY DEF Found, Same
<1>2. ASSUME found = {}, NEW j, NEW id, First(list, j, id) PROVE Kept(j, id)
  <2>1. new = list
    BY <1>2 DEF Rebound
  <2>2. id # c.id
    BY <1>1, <1>2 DEF First
  <2> HIDE DEF new
  <2>3. QED
    BY <1>2, <2>1, <2>2
<1>3. ASSUME found # {}, NEW j, NEW id, First(list, j, id) PROVE Kept(j, id)
  <2> DEFINE at == Min(found)
             moved == AtBounds(list[at].clip, c)
             entry == [clip |-> moved, pad |-> list[at].pad]
  <2>1. at \in DOMAIN list /\ list[at].clip.id = c.id
        /\ \A k \in DOMAIN list : list[k].clip.id = c.id => at <= k
    BY <1>3, FoundIs DEF Same
  <2>2. new = [list EXCEPT ![at] = entry]
    BY <1>3, ReboundIs
  <2>3. list[at].clip \in Clip
    BY <2>1, EntryIs
  <2>4. moved.id = c.id /\ moved.track = list[at].clip.track /\ Bounds(moved) = Bounds(c)
    BY <2>1, <2>3, Moved
  <2>5. entry.clip = moved
    OBVIOUS
  <2>6. \A k \in DOMAIN list : k \in Nat
    BY LenProperties
  <2> HIDE DEF new, found, entry, at, moved
  <2>7. DOMAIN new = DOMAIN list /\ new[at] = entry /\ \A k \in DOMAIN list : k # at => new[k] = list[k]
    BY <2>1, <2>2
  <2>8. \A k \in DOMAIN list : new[k].clip.id = list[k].clip.id
    BY <2>1, <2>4, <2>5, <2>7
  <2>9. j \in DOMAIN list /\ list[j].clip.id = id /\ First(new, j, id)
    BY <1>3, <2>7, <2>8 DEF First
  <2>10. id = c.id <=> j = at
    <3>1. ASSUME id = c.id PROVE j = at
      <4>1. at <= j
        BY <2>1, <2>9, <3>1
      <4>2. ~(at < j)
        BY <1>3, <2>1, <3>1 DEF First
      <4>3. QED
        BY <2>1, <2>6, <2>9, <4>1, <4>2
    <3>2. QED
      BY <2>1, <2>9, <3>1
  <2>11. CASE id = c.id
    BY <2>4, <2>5, <2>7, <2>9, <2>10, <2>11
  <2>12. CASE id # c.id
    BY <2>7, <2>9, <2>10, <2>12
  <2>13. QED
    BY <2>11, <2>12
<1> HIDE DEF Kept
<1>4. \A j, id : First(list, j, id) => Kept(j, id)
  BY <1>2, <1>3
<1>5. QED
  BY <1>4 DEF Kept

\* A clip the list has, it still has after one of another id.
LEMMA StillHas ==
    ASSUME NEW list \in Seq(Entry), NEW c \in Clip, NEW pad \in BOOLEAN,
           NEW d, d.id # c.id, Has(list, d)
    PROVE  Has(Decoded("studio", list, c, pad), d)
<1> DEFINE new == Decoded("studio", list, c, pad)
<1> SUFFICES ASSUME d.readable PROVE Has(new, d)
  BY DEF Has
<1>1. PICK j : First(list, j, d.id) /\ list[j].clip = d
  BY DEF Has
<1>2. First(new, j, d.id) /\ new[j] = list[j]
  BY <1>1, DecodedHas
<1>3. QED
  BY <1>1, <1>2 DEF Has

\* All the clips of a list, added one by one, are there in the end, unless one
\* of the commands is lost.
LEMMA RunHas ==
    ASSUME NEW list \in Seq(Clip), Distinct(list), NEW pad \in BOOLEAN, NEW n, n = Len(list),
           NEW f \in [0..n -> Seq(Entry)], NEW lost,
           \A i \in 1..n : \/ lost[i]
                           \/ ~lost[i - 1] /\ f[i] = Decoded("studio", f[i - 1], list[i], pad)
    PROVE  lost[n] \/ \A i \in 1..n : Has(f[n], list[i])
<1> DEFINE T == {k \in Nat : k <= n => lost[k] \/ \A i \in 1..k : Has(f[k], list[i])}
<1>1. n \in Nat /\ DOMAIN list = 1..n /\ \A i \in 1..n : list[i] \in Clip
  BY LenProperties, EntryIsClip
<1>2. 0 \in T
  OBVIOUS
<1>3. ASSUME NEW k \in Nat, k \in T
      PROVE  k + 1 \in T
  <2>1. SUFFICES ASSUME k + 1 <= n, ~lost[k + 1]
                 PROVE  \A i \in 1..(k + 1) : Has(f[k + 1], list[i])
    OBVIOUS
  <2>2. k + 1 \in 1..n /\ k \in 0..n /\ (k + 1) - 1 = k /\ k <= n
    BY <1>1, <2>1
  <2>3. ~lost[k] /\ f[k + 1] = Decoded("studio", f[k], list[k + 1], pad)
    BY <2>1, <2>2
  <2>4. \A i \in 1..k : Has(f[k], list[i])
    BY <1>3, <2>2, <2>3
  <2>5. list[k + 1] \in Clip /\ f[k] \in Seq(Entry)
    BY <1>1, <2>2
  <2>6. ASSUME NEW i \in 1..(k + 1) PROVE Has(f[k + 1], list[i])
    <3>1. CASE i = k + 1
      <4>1. Has(Decoded("studio", f[k], list[k + 1], pad), list[k + 1])
        BY <2>5, DecodedHas
      <4>2. QED
        BY <2>3, <3>1, <4>1
    <3>2. CASE i # k + 1
      <4>1. i \in 1..k /\ i \in 1..n
        BY <2>2, <3>2
      <4>2. list[i].id # list[k + 1].id
        BY <1>1, <2>2, <3>2, <4>1 DEF Distinct
      <4>3. QED
        BY <2>3, <2>4, <2>5, <4>1, <4>2, StillHas
    <3>3. QED
      BY <3>1, <3>2
  <2>7. QED
    BY <2>6
<1>4. n \in T
  BY <1>1, <1>2, <1>3, Induction
<1>5. QED
  BY <1>1, <1>4

LEMMA SyncedHas ==
    ASSUME NEW list \in Seq(Entry), NEW new \in Seq(Clip), Distinct(new)
    PROVE  \A i \in DOMAIN new : Has(Synced("studio", list, new), new[i])
<1> DEFINE n == Len(new)  lost == [i \in 0..n |-> FALSE]
<1>1. PICK f : Grows(f, "studio", Pads(list), new, FALSE) /\ Synced("studio", list, new) = f[n]
  BY SyncedIs
<1>2. n \in Nat /\ DOMAIN new = 1..n
  BY LenProperties
<1>3. f \in [0..n -> Seq(Entry)] /\ \A i \in 1..n : f[i] = Decoded("studio", f[i - 1], new[i], FALSE)
  BY <1>1 DEF Grows
<1>4. ~lost[n] /\ \A i \in 1..n : ~lost[i - 1]
  BY <1>2
<1> HIDE DEF lost
<1>5. lost[n] \/ \A i \in 1..n : Has(f[n], new[i])
  BY <1>3, <1>4, RunHas
<1>6. QED
  BY <1>1, <1>2, <1>4, <1>5

\* The clips all sent.
LEMMA LoadsReach ==
    ASSUME NEW list \in Seq(Clip), Distinct(list), NEW s \in States, NEW end \in States,
           Reaches(s, Loads(list), end)
    PROVE  end.lost \/ \A i \in DOMAIN list : Has(end.list, list[i])
<1> DEFINE n == Len(list)
<1>1. n \in Nat /\ DOMAIN list = 1..n /\ Len(Loads(list)) = n
      /\ \A i \in 1..n : Loads(list)[i] = Load(list[i])
  BY LenProperties, LoadsAre
<1>2. PICK h : History(h, s, Loads(list), end)
  BY DEF Reaches
<1> HIDE DEF n
<1>3. h \in [0..n -> States] /\ h[n] = end /\ \A i \in 1..n : Leads(h[i - 1], Load(list[i]), h[i])
  BY <1>1, <1>2 DEF History
<1> DEFINE f == [i \in 0..n |-> h[i].list]  lost == [i \in 0..n |-> h[i].lost]
<1>4. \A i \in 0..n : h[i].list \in Seq(Entry) /\ h[i].lost \in BOOLEAN
  BY <1>3 DEF States
<1>5. f \in [0..n -> Seq(Entry)]
  BY <1>4
<1>6. \A i \in 0..n : f[i] = h[i].list /\ lost[i] = h[i].lost
  OBVIOUS
<1> HIDE DEF f, lost
<1>7. ASSUME NEW i \in 1..n
      PROVE  \/ lost[i]
             \/ ~lost[i - 1] /\ f[i] = Decoded("studio", f[i - 1], list[i], TRUE)
  <2> DEFINE c == Load(list[i])
  <2>1. c.op = "load" /\ c.clip = list[i]
    BY DEF Load
  <2>2. Leads(h[i - 1], c, h[i])
    BY <1>3
  <2> HIDE DEF c
  <2>3. /\ h[i].lost <=> h[i - 1].lost \/ h[i - 1].mode = "live"
        /\ ~h[i].lost => h[i].list = Decoded("studio", h[i - 1].list, list[i], TRUE)
    BY <2>1, <2>2 DEF Leads, Played
  <2>4. i \in 0..n /\ i - 1 \in 0..n
    BY <1>1
  <2>5. f[i] = h[i].list /\ lost[i] = h[i].lost
        /\ f[i - 1] = h[i - 1].list /\ lost[i - 1] = h[i - 1].lost
    BY <1>6, <2>4
  <2>6. QED
    BY <2>3, <2>5
<1>8. lost[n] \/ \A i \in 1..n : Has(f[n], list[i])
  BY <1>5, <1>7, RunHas DEF n
<1>9. f[n] = end.list /\ lost[n] = end.lost
  BY <1>1, <1>3, <1>6
<1>10. QED
  BY <1>1, <1>8, <1>9

-----------------------------------------------------------------------------
(* Every clip in the engine.                                                *)

LEMMA NowType == TypeOK => Now \in States
BY DEF TypeOK, Now, States

LEMMA StateIs ==
    ASSUME NEW s \in States
    PROVE  s.mode \in {"live", "studio"} /\ s.list \in Seq(Entry) /\ s.lost \in BOOLEAN
BY DEF States

LEMMA ClipsAre ==
    ASSUME TypeOK
    PROVE  /\ clips \in Seq(Clip) /\ Distinct(clips)
           /\ \A i \in DOMAIN clips : clips[i] \in Clip /\ clips[i].id \in Nat \ {0}
<1>1. clips \in Seq(Clip) /\ Distinct(clips)
  BY TimelineIs DEF TypeOK
<1>2. QED
  BY <1>1, EntryIsClip, ClipIs

\* Nothing is sent: what is complete stays so.
LEMMA Unsent ==
    ASSUME Plan, allSent' => allSent, UNCHANGED <<queue, engineMode, engine>>,
           \A list \in Seq(Entry) : Complete(list) => Complete(list)'
    PROVE  Plan'
<1>1. UNCHANGED Now
  BY DEF Now
<1>2. ASSUME allSent', NEW end \in States, Reaches(Now', queue', end)
      PROVE  end.lost \/ Complete(end.list)'
  <2>1. Reaches(Now, queue, end)
    BY <1>1, <1>2
  <2>2. end.lost \/ Complete(end.list)
    BY <1>2, <2>1 DEF Plan
  <2>3. QED
    BY <2>2, StateIs
<1>3. QED
  BY <1>2 DEF Plan

\* One command is sent: it completes what the timeline now shows.
LEMMA OneSent ==
    ASSUME TypeOK, Plan, allSent' => allSent, UNCHANGED <<engineMode, engine>>,
           NEW c \in Command, Sends(<<c>>),
           \A mid, end \in States :
              Leads(mid, c, end) /\ ~end.lost /\ (mid.lost \/ Complete(mid.list))
                => Complete(end.list)'
    PROVE  Plan'
<1>1. UNCHANGED Now
  BY DEF Now
<1> DEFINE new == <<c>>
<1>2. new \in Seq(Command) /\ queue \in Seq(Command) /\ queue' = queue \o new
  BY DEF TypeOK, Sends
<1>3. ASSUME allSent', NEW end \in States, Reaches(Now', queue', end)
      PROVE  end.lost \/ Complete(end.list)'
  <2> HIDE DEF new
  <2>1. PICK mid \in States : Reaches(Now, queue, mid) /\ Reaches(mid, new, end)
    BY <1>1, <1>2, <1>3, NowType, ReachesSplit
  <2>2. Leads(mid, c, end)
    BY <2>1, ReachesOne DEF new
  <2>3. mid.lost \/ Complete(mid.list)
    BY <1>3, <2>1 DEF Plan
  <2>4. QED
    BY <2>2, <2>3
<1>4. QED
  BY <1>3 DEF Plan

\* The whole timeline is sent, clip by clip.
LEMMA Resent ==
    ASSUME TypeOK, UNCHANGED <<engineMode, engine>>, clips' \in Seq(Clip), Distinct(clips'),
           ResendAll(clips')
    PROVE  Plan'
<1>1. UNCHANGED Now
  BY DEF Now
<1>2. queue' = queue \o Loads(clips') /\ Loads(clips') \in Seq(Command) /\ queue \in Seq(Command)
  BY LoadsAre DEF ResendAll, Loads, Sends, TypeOK
<1>3. ASSUME NEW end \in States, Reaches(Now', queue', end)
      PROVE  end.lost \/ Complete(end.list)'
  <2>1. PICK mid \in States : Reaches(mid, Loads(clips'), end)
    BY <1>1, <1>2, <1>3, NowType, ReachesSplit
  <2>2. end.lost \/ \A i \in DOMAIN clips' : Has(end.list, clips'[i])
    BY <2>1, LoadsReach
  <2>3. (\A i \in DOMAIN clips' : Has(end.list, clips'[i])) => Complete(end.list)'
    BY DEF Has, Complete, Shows
  <2>4. QED
    BY <2>2, <2>3
<1>4. QED
  BY <1>3 DEF Plan

LEMMA DropPlan == TypeOK /\ Plan /\ Drop => Plan'
<1> SUFFICES ASSUME TypeOK, Plan, Drop PROVE Plan'
  OBVIOUS
<1>1. PICK clip \in Clip : /\ clip.id = nextId /\ clips' = Append(clips, clip)
                           /\ Sends(<<Load(clip)>>)
  BY DropIs
<1> DEFINE c == Load(clip)
<1>2. c \in Command /\ c.op = "load" /\ c.clip = clip
  BY DEF Load, OneClip, Command
<1>3. UNCHANGED <<drag, crossed, allSent, engineMode, engine>>
  BY DEF Drop
<1>4. Sends(<<c>>)
  BY <1>1
<1> HIDE DEF c
<1>5. clips \in Seq(Clip) /\ \A i \in DOMAIN clips : clips[i].id # clip.id
  <2>1. \A i \in DOMAIN clips : clips[i].id < nextId /\ clips[i].id \in Nat
    BY ClipsAre DEF TypeOK, IsTimeline
  <2>2. QED
    BY <1>1, <2>1, ClipsAre
<1>6. \A i \in DOMAIN clips' : \/ i \in DOMAIN clips /\ clips'[i] = clips[i]
                               \/ clips'[i] = clip
  BY <1>1, <1>5, AppendProperties, LenProperties
<1>7. ASSUME NEW mid \in States, NEW end \in States, Leads(mid, c, end), ~end.lost,
             mid.lost \/ Complete(mid.list)
      PROVE  Complete(end.list)'
  <2>1. end.list = Decoded("studio", mid.list, clip, TRUE) /\ Complete(mid.list)
    BY <1>2, <1>7 DEF Leads, Played
  <2>2. mid.list \in Seq(Entry)
    BY StateIs
  <2>3. Has(end.list, clip)
    BY <2>1, <2>2, DecodedHas
  <2>30. \A j, id : id # clip.id /\ First(mid.list, j, id) =>
                      First(end.list, j, id) /\ end.list[j] = mid.list[j]
    <3> DEFINE old == mid.list  new == Decoded("studio", old, clip, TRUE)
    <3>1. old \in Seq(Entry) /\ end.list = new
      BY <2>1, <2>2
    <3> HIDE DEF old
    <3>2. \A j, id : id # clip.id /\ First(old, j, id) => First(new, j, id) /\ new[j] = old[j]
      BY <3>1, DecodedHas
    <3> HIDE DEF new
    <3>3. QED
      BY <3>1, <3>2 DEF old
  <2>4. ASSUME NEW i \in DOMAIN clips PROVE Shows(end.list, clips[i])
    <3> SUFFICES ASSUME clips[i].readable PROVE Shows(end.list, clips[i])
      BY DEF Shows
    <3>1. PICK j : /\ First(mid.list, j, clips[i].id)
                   /\ mid.list[j].clip.track = clips[i].track \/ clips[i].id \in crossed
                   /\ \/ Bounds(mid.list[j].clip) = Bounds(clips[i])
                      \/ clips[i].id = drag.id /\ drag.moved
      BY <2>1 DEF Complete, Shows
    <3>2. First(end.list, j, clips[i].id) /\ end.list[j] = mid.list[j]
      BY <1>5, <2>30, <3>1
    <3>3. /\ end.list[j].clip.track = clips[i].track \/ clips[i].id \in crossed
          /\ \/ Bounds(end.list[j].clip) = Bounds(clips[i])
             \/ clips[i].id = drag.id /\ drag.moved
      BY <3>1, <3>2
    <3>4. QED
      BY <3>2, <3>3 DEF Shows
  <2>5. \A i \in DOMAIN clips' : \/ i \in DOMAIN clips /\ clips'[i] = clips[i]
                                 \/ Has(end.list, clips'[i])
    BY <1>6, <2>3
  <2>6. QED
    BY <1>3, <2>4, <2>5 DEF Complete, Shows, Has
<1>8. QED
  BY <1>2, <1>3, <1>4, <1>7, OneSent

LEMMA QuietPlan == Plan /\ (Copy \/ Save \/ SwitchSilently) => Plan'
<1> SUFFICES ASSUME Plan, Copy \/ Save \/ SwitchSilently PROVE Plan'
  OBVIOUS
<1>1. UNCHANGED <<clips, drag, crossed, allSent, queue, engineMode, engine>>
  BY DEF Copy, Save, SwitchSilently
<1>2. \A list \in Seq(Entry) : Complete(list) => Complete(list)'
  BY <1>1 DEF Complete, Shows
<1>3. QED
  BY <1>1, <1>2, Unsent

LEMMA CutPlan == TypeOK /\ Cut => Plan'
<1> SUFFICES ASSUME TypeOK, Cut PROVE Plan'
  OBVIOUS
<1>1. IsTimeline(clips', nextId) /\ ResendAll(clips') /\ UNCHANGED <<engineMode, engine>>
  BY PickedType DEF Cut
<1>2. QED
  BY <1>1, TimelineIs, Resent

LEMMA CopiedPlan == TypeOK /\ (Paste \/ Duplicate) => Plan'
<1> SUFFICES ASSUME TypeOK, Paste \/ Duplicate PROVE Plan'
  OBVIOUS
<1>1. IsTimeline(clips', nextId') /\ ResendAll(clips') /\ UNCHANGED <<engineMode, engine>>
  BY PasteType, DuplicateType
<1>2. QED
  BY <1>1, TimelineIs, Resent

LEMMA DeletePlan == TypeOK /\ Plan /\ Delete => Plan'
<1> SUFFICES ASSUME TypeOK, Plan, Delete PROVE Plan'
  OBVIOUS
<1>1. UNCHANGED <<drag, crossed, allSent, queue, engineMode, engine>>
  BY DEF Delete
<1>2. PICK selection : clips' = Unselected(selection)
  BY DEF Delete
<1>3. \A k \in DOMAIN clips' : \E i \in DOMAIN clips : clips'[k] = clips[i]
  <2> DEFINE keep == {i \in DOMAIN clips : clips[i].id \notin selection}
  <2>1. clips' = Those(clips, keep) /\ clips \in Seq(Clip)
    BY <1>2, ClipsAre DEF Unselected
  <2> HIDE DEF keep
  <2>2. \A k \in DOMAIN Those(clips, keep) :
           \E i \in DOMAIN clips \intersect keep : Those(clips, keep)[k] = clips[i]
    BY <2>1, ThoseOf
  <2>3. QED
    BY <2>1, <2>2
<1>4. ASSUME NEW list \in Seq(Entry), Complete(list), NEW k \in DOMAIN clips'
      PROVE  Shows(list, clips[k])'
  <2>1. PICK i \in DOMAIN clips : clips'[k] = clips[i]
    BY <1>3
  <2>2. Shows(list, clips[i])
    BY <1>4 DEF Complete
  <2>3. QED
    BY <1>1, <2>1, <2>2 DEF Shows
<1>5. \A list \in Seq(Entry) : Complete(list) => Complete(list)'
  BY <1>4 DEF Complete
<1>6. QED
  BY <1>1, <1>5, Unsent

LEMMA GrabPlan == TypeOK /\ Plan /\ Grab => Plan'
<1> SUFFICES ASSUME TypeOK, Plan, Grab PROVE Plan'
  OBVIOUS
<1>1. UNCHANGED <<clips, crossed, allSent, queue, engineMode, engine>> /\ drag = NoDrag
  BY DEF Grab
<1>2. \A i \in DOMAIN clips : clips[i].id # drag.id
  BY <1>1, ClipsAre, NoHand
<1>3. \A list \in Seq(Entry) : Complete(list) => Complete(list)'
  BY <1>1, <1>2 DEF Complete, Shows
<1>4. QED
  BY <1>1, <1>3, Unsent

\* What a drag writes into the clip in hand is told when the button is released.
LEMMA DragPlan == TypeOK /\ Plan /\ (Trim \/ Move) => Plan'
<1> SUFFICES ASSUME TypeOK, Plan, Trim \/ Move PROVE Plan'
  OBVIOUS
<1> DEFINE at == IndexOf(drag.id)
<1>1. drag.id \in Ids(clips) /\ drag' = [drag EXCEPT !.moved = TRUE]
      /\ UNCHANGED <<allSent, queue, engineMode, engine>>
  BY DEF Trim, Move
<1>2. \E c \in Clip : /\ c.id = drag.id /\ clips' = [clips EXCEPT ![at] = c]
                      /\ c.readable = clips[at].readable
                      /\ crossed' = IF c.track = clips[at].track THEN crossed
                                    ELSE crossed \union {drag.id}
  <2>1. CASE Trim
    <3>1. crossed' = crossed
      BY <2>1 DEF Trim
    <3>2. QED
      BY <2>1, <3>1, TrimIs
  <2>2. CASE Move
    BY <2>2, MoveIs
  <2>3. QED
    BY <2>1, <2>2
<1>3. PICK c \in Clip : /\ c.id = drag.id /\ clips' = [clips EXCEPT ![at] = c]
                        /\ c.readable = clips[at].readable
                        /\ crossed' = IF c.track = clips[at].track THEN crossed
                                      ELSE crossed \union {drag.id}
  BY <1>2
<1>4. at \in DOMAIN clips /\ clips[at].id = drag.id
  BY <1>1, IndexIs
<1>5. drag'.id = drag.id /\ drag'.moved
  BY <1>1, MovedHand DEF TypeOK
<1> HIDE DEF at
<1>6. DOMAIN clips' = DOMAIN clips /\ clips'[at] = c
      /\ \A i \in DOMAIN clips : i # at => clips'[i] = clips[i] /\ clips[i].id # drag.id
  BY <1>3, <1>4, ClipsAre DEF Distinct
<1>7. crossed \subseteq crossed' /\ (c.track = clips[at].track \/ drag.id \in crossed')
  BY <1>3
<1>8. ASSUME NEW list \in Seq(Entry), Complete(list), NEW i \in DOMAIN clips
      PROVE  Shows(list, clips[i])'
  <2>0. clips'[i].readable = clips[i].readable
    BY <1>3, <1>6
  <2> SUFFICES ASSUME clips[i].readable PROVE Shows(list, clips[i])'
    BY <2>0 DEF Shows
  <2>1. PICK j : /\ First(list, j, clips[i].id)
                 /\ list[j].clip.track = clips[i].track \/ clips[i].id \in crossed
                 /\ Bounds(list[j].clip) = Bounds(clips[i]) \/ (clips[i].id = drag.id /\ drag.moved)
    BY <1>8 DEF Complete, Shows
  <2>2. clips'[i].id = clips[i].id
    BY <1>3, <1>4, <1>6
  <2>3. CASE i = at
    <3>1. list[j].clip.track = c.track \/ c.id \in crossed'
      BY <1>3, <1>4, <1>7, <2>1, <2>3
    <3>2. QED
      BY <1>3, <1>4, <1>5, <1>6, <2>1, <2>2, <2>3, <3>1 DEF Shows
  <2>4. CASE i # at
    <3>1. clips'[i] = clips[i] /\ Bounds(list[j].clip) = Bounds(clips[i])
      BY <1>6, <2>1, <2>4
    <3>2. list[j].clip.track = clips[i].track \/ clips[i].id \in crossed'
      BY <1>7, <2>1
    <3>3. QED
      BY <2>1, <3>1, <3>2 DEF Shows
  <2>5. QED
    BY <2>3, <2>4
<1>9. \A list \in Seq(Entry) : Complete(list) => Complete(list)'
  BY <1>6, <1>8 DEF Complete
<1>10. QED
  BY <1>1, <1>9, Unsent

LEMMA ReleasePlan == TypeOK /\ Plan /\ Release => Plan'
<1> SUFFICES ASSUME TypeOK, Plan, Release PROVE Plan'
  OBVIOUS
<1>1. drag' = NoDrag /\ UNCHANGED <<clips, crossed, allSent, engineMode, engine>>
  BY DEF Release
<1>2. CASE drag.moved /\ drag.id \in Ids(clips)
  <2> DEFINE d == clips[IndexOf(drag.id)]  c == [op |-> "bounds", clip |-> d]
  <2>1. d \in Clip /\ d.id = drag.id /\ IndexOf(drag.id) \in DOMAIN clips
    BY <1>2, IndexIs
  <2>2. c \in Command /\ c.op = "bounds" /\ c.clip = d
    BY <2>1 DEF OneClip, Command
  <2>3. Sends(<<c>>)
    BY <1>2 DEF Release
  <2>4. \A i \in DOMAIN clips : clips[i].id = drag.id => clips[i] = d
    BY <2>1, ClipsAre DEF Distinct
  <2> HIDE DEF c, d
  <2>5. ASSUME NEW mid \in States, NEW end \in States, Leads(mid, c, end), ~end.lost,
               mid.lost \/ Complete(mid.list)
        PROVE  Complete(end.list)'
    <3>1. end.list = Rebound("studio", mid.list, d) /\ Complete(mid.list)
      BY <2>2, <2>5 DEF Leads, Played
    <3>2. mid.list \in Seq(Entry)
      BY StateIs
    <3>3. ASSUME NEW i \in DOMAIN clips PROVE Shows(end.list, clips[i])'
      <4> SUFFICES ASSUME clips[i].readable PROVE Shows(end.list, clips[i])'
        BY <1>1 DEF Shows
      <4>1. PICK j : /\ First(mid.list, j, clips[i].id)
                     /\ mid.list[j].clip.track = clips[i].track \/ clips[i].id \in crossed
                     /\ \/ Bounds(mid.list[j].clip) = Bounds(clips[i])
                        \/ clips[i].id = drag.id /\ drag.moved
        BY <3>1 DEF Complete, Shows
      <4>2. /\ First(end.list, j, clips[i].id)
            /\ end.list[j].clip.track = mid.list[j].clip.track
            /\ Bounds(end.list[j].clip) = IF clips[i].id = d.id THEN Bounds(d)
                                          ELSE Bounds(mid.list[j].clip)
        BY <2>1, <3>1, <3>2, <4>1, ReboundFirst
      <4>3. Bounds(end.list[j].clip) = Bounds(clips[i])
        BY <2>1, <2>4, <4>1, <4>2
      <4>4. end.list[j].clip.track = clips[i].track \/ clips[i].id \in crossed'
        BY <1>1, <4>1, <4>2
      <4>5. QED
        BY <1>1, <4>2, <4>3, <4>4 DEF Shows
    <3>4. QED
      BY <1>1, <3>3 DEF Complete
  <2>6. QED
    BY <1>1, <2>2, <2>3, <2>5, OneSent
<1>3. CASE ~(drag.moved /\ drag.id \in Ids(clips))
  <2>1. queue' = queue \o <<>>
    BY <1>3 DEF Release, Sends
  <2>2. queue' = queue
    BY <2>1, ConcatEmptySeq DEF TypeOK
  <2>3. \A i \in DOMAIN clips : ~(clips[i].id = drag.id /\ drag.moved)
    BY <1>3 DEF Ids
  <2>4. \A list \in Seq(Entry) : Complete(list) => Complete(list)'
    BY <1>1, <2>3 DEF Complete, Shows
  <2>5. QED
    BY <1>1, <2>2, <2>4, Unsent
<1>4. QED
  BY <1>2, <1>3

\* A command that only changes the engine's mode.
LEMMA ToldPlan ==
    ASSUME TypeOK, Plan, NEW m \in {"live", "studio"}, Sends(<<[op |-> "mode", to |-> m]>>),
           UNCHANGED <<clips, drag, crossed, allSent, engineMode, engine>>
    PROVE  Plan'
<1> DEFINE c == [op |-> "mode", to |-> m]
<1>1. c \in Command /\ c.op = "mode" /\ Sends(<<c>>)
  BY DEF ChangeMode, Command
<1> HIDE DEF c
<1>2. \A list : Complete(list) => Complete(list)'
  BY DEF Complete, Shows
<1>3. \A mid, end \in States :
         Leads(mid, c, end) /\ ~end.lost /\ (mid.lost \/ Complete(mid.list)) => Complete(end.list)'
  BY <1>1, <1>2 DEF Leads
<1>4. QED
  BY <1>1, <1>3, OneSent

LEMMA PlayPlan == TypeOK /\ Plan /\ Play => Plan'
<1> SUFFICES ASSUME TypeOK, Plan, Play PROVE Plan'
  OBVIOUS
<1>1. UNCHANGED <<clips, drag, engineMode, engine>>
  BY DEF Play
<1>2. CASE mode = "studio"
  <2> DEFINE c == [op |-> "sync", clips |-> clips]  new == <<c>>
  <2>1. c \in Command /\ c.op = "sync" /\ c.clips = clips
    BY ClipsAre DEF WholeList, Command
  <2>2. Sends(new)
    BY <1>2 DEF Play
  <2> HIDE DEF c
  <2>3. new \in Seq(Command) /\ queue \in Seq(Command) /\ queue' = queue \o new
    BY <2>1, <2>2 DEF Sends, TypeOK
  <2>4. UNCHANGED Now
    BY <1>1 DEF Now
  <2>5. ASSUME NEW end \in States, Reaches(Now', queue', end)
        PROVE  end.lost \/ Complete(end.list)'
    <3> HIDE DEF new
    <3>1. PICK mid \in States : Reaches(mid, new, end)
      BY <2>3, <2>4, <2>5, NowType, ReachesSplit
    <3>2. Leads(mid, c, end)
      BY <3>1, ReachesOne DEF new
    <3>3. end.lost \/ end.list = Synced("studio", mid.list, clips)
      BY <2>1, <3>2 DEF Leads, Played
    <3>4. \A i \in DOMAIN clips : Has(Synced("studio", mid.list, clips), clips[i])
      BY ClipsAre, StateIs, SyncedHas
    <3>5. (\A i \in DOMAIN clips : Has(end.list, clips[i])) => Complete(end.list)'
      BY <1>1 DEF Has, Complete, Shows
    <3>6. QED
      BY <3>3, <3>4, <3>5
  <2>6. QED
    BY <2>5 DEF Plan
<1>3. CASE mode # "studio"
  <2>1. Sends(<<[op |-> "mode", to |-> "live"]>>) /\ UNCHANGED <<allSent, crossed>>
    BY <1>3 DEF Play
  <2>2. QED
    BY <1>1, <2>1, ToldPlan
<1>4. QED
  BY <1>2, <1>3

LEMMA ModePlan == TypeOK /\ Plan /\ ModeButton => Plan'
<1> SUFFICES ASSUME TypeOK, Plan, ModeButton PROVE Plan'
  OBVIOUS
<1>1. UNCHANGED <<clips, drag, crossed, allSent, engineMode, engine>>
  BY DEF ModeButton
<1>2. \E m \in {"live", "studio"} : Sends(<<[op |-> "mode", to |-> m]>>)
  <2>1. mode' \in {"live", "studio"} /\ Sends(<<[op |-> "mode", to |-> mode']>>)
    BY DEF ModeButton
  <2>2. QED
    BY <2>1
<1>3. QED
  BY <1>1, <1>2, ToldPlan

\* What is opened has not been sent, unless there is nothing to send.
LEMMA OpenPlan == Open \/ NewProject => Plan'
<1> SUFFICES ASSUME Open \/ NewProject PROVE Plan'
  OBVIOUS
<1>1. allSent' => clips' = <<>>
  BY DEF Open, NewProject, Apply
<1>2. clips' = <<>> => \A list : Complete(list)'
  BY DEF Complete
<1>3. QED
  BY <1>1, <1>2 DEF Plan

LEMMA HandlePlan == TypeOK /\ Plan /\ Handle => Plan'
<1> SUFFICES ASSUME TypeOK, Plan, Handle, allSent' PROVE Plan'
  BY DEF Plan
<1> DEFINE c == Head(queue)
<1>1. queue \in Seq(Command) /\ queue # <<>> /\ queue' = Tail(queue) /\ c \in Command
  BY HeadIs DEF Handle, TypeOK
<1>2. Obey(c) /\ UNCHANGED <<clips, drag, crossed>>
  BY DEF Handle, interface
<1> HIDE DEF c
<1>3. allSent /\ Leads(Now, c, Now')
  <2>1. CASE c.op = "mode"
    BY <1>2, <2>1 DEF Obey, Leads, Now
  <2>2. CASE c.op # "mode"
    <3>1. Heard /\ engine' = Played(engine, c)
      <4>1. Heard /\ engineMode = "studio"
        BY <1>2, <2>2 DEF Obey, Heard
      <4>2. QED
        BY <1>2, <2>2, <4>1 DEF Obey, Played
    <3>2. allSent /\ engineMode = "studio" /\ engineMode' = engineMode
      BY <3>1 DEF Heard
    <3>3. QED
      BY <2>2, <3>1, <3>2 DEF Leads, Now
  <2>3. QED
    BY <2>1, <2>2
<1>4. Now \in States /\ Now' \in States
  <2>1. TypeOK'
    BY HandleType
  <2>2. Now' \in States
    BY <2>1 DEF TypeOK, Now, States
  <2>3. QED
    BY <2>2, NowType
<1>5. ASSUME NEW end \in States, Reaches(Now', queue', end)
      PROVE  end.lost \/ Complete(end.list)'
  <2>1. Reaches(Now, queue, end)
    BY <1>1, <1>3, <1>4, <1>5, ReachesFirst DEF c
  <2>2. end.lost \/ Complete(end.list)
    BY <1>3, <2>1 DEF Plan
  <2>3. QED
    BY <1>2, <2>2 DEF Complete, Shows
<1>6. QED
  BY <1>5 DEF Plan

LEMMA InitPlan == Init => Plan
<1> SUFFICES ASSUME Init PROVE Plan
  OBVIOUS
<1>1. clips = <<>>
  BY DEF Init
<1>2. \A list : Complete(list)
  BY <1>1 DEF Complete
<1>3. QED
  BY <1>2 DEF Plan

LEMMA StepPlan == TypeOK /\ Plan /\ [Next]_vars => Plan'
<1> SUFFICES ASSUME TypeOK, Plan, [Next]_vars PROVE Plan'
  OBVIOUS
<1>1. CASE UNCHANGED vars
  <2>1. UNCHANGED <<clips, drag, crossed, allSent, queue, engineMode, engine>>
    BY <1>1 DEF vars, interface
  <2>2. \A list \in Seq(Entry) : Complete(list) => Complete(list)'
    BY <2>1 DEF Complete, Shows
  <2>3. QED
    BY <2>1, <2>2, Unsent
<1>2. QED
  BY <1>1, DropPlan, QuietPlan, CutPlan, CopiedPlan, DeletePlan, GrabPlan, DragPlan, ReleasePlan,
     PlayPlan, ModePlan, OpenPlan, HandlePlan DEF Next

\* With nothing on its way, what the engine will have is what it has.
LEMMA PlanShows == TypeOK /\ Plan => EngineHasEveryClip
<1> SUFFICES ASSUME TypeOK, Plan, allSent, queue = <<>>, NEW i \in DOMAIN clips,
                    clips[i].readable, clips[i].id # drag.id
             PROVE  \E j \in DOMAIN engine : Plays(engine[j].clip, clips[i])
  BY DEF EngineHasEveryClip
<1>1. Now \in States /\ Now.list = engine /\ ~Now.lost
  BY NowType DEF Now
<1>2. Reaches(Now, queue, Now)
  BY <1>1, ReachesNothing
<1>3. Complete(engine)
  BY <1>1, <1>2 DEF Plan
<1>4. PICK j : /\ First(engine, j, clips[i].id)
               /\ engine[j].clip.track = clips[i].track \/ clips[i].id \in crossed
               /\ Bounds(engine[j].clip) = Bounds(clips[i])
  BY <1>3 DEF Complete, Shows
<1>5. QED
  BY <1>4 DEF First, Plays

\* Once every clip has been sent, and the engine has heard it all in Studio
\* mode, it plays every clip of the timeline whose file could be read, as it is
\* shown, but for the one in the user's hand.  The gestures that edit the list send a clip, its bounds,
\* all of it or nothing, so the invariant speaks of what the commands on their
\* way leave in the engine, each replacing what it has by the clip's id.
THEOREM EveryClipHeard == Spec => []EngineHasEveryClip
<1>1. Init => TypeOK /\ Plan
  BY InitType, InitPlan
<1>2. TypeOK /\ Plan /\ [Next]_vars => (TypeOK /\ Plan)'
  BY StepType, StepPlan
<1>3. QED
  BY <1>1, <1>2, PlanShows, PTL DEF Spec

-----------------------------------------------------------------------------
(* Opening a project.                                                       *)

\* A project opened while the Studio is on the screen, or the live mixer has as
\* many tracks, comes back as it was saved: every clip, and the counter of ids.
\* Otherwise it loses clips: see OpenKeepsClips.
OpensAsSaved ==
    [][Open /\ (mode = "studio" \/ StudioRows <= LiveRows) =>
         clips' = file.clips /\ nextId' = file.next]_vars

LEMMA OpenedAll ==
    ASSUME TypeOK, Open, mode = "studio" \/ StudioRows <= LiveRows
    PROVE  clips' = file.clips /\ nextId' = file.next
<1>1. clips' = OnRows(file.clips, Rows(mode)) /\ nextId' = file.next
  BY DEF Open, Apply
<1> DEFINE list == file.clips
           keep == {i \in DOMAIN list : list[i].track \in Rows(mode)}
<1>2. list \in Seq(Clip)
  BY DEF TypeOK, IsTimeline
<1>3. Rows("studio") \subseteq Rows(mode)
  <2>1. LiveRows \in Nat /\ StudioRows \in Nat
    BY TimelineAssumption
  <2>2. mode = "live" => Rows(mode) = 1..LiveRows
    BY DEF Rows
  <2>3. Rows("studio") = 1..StudioRows
    BY DEF Rows
  <2>4. mode \in {"live", "studio"}
    BY DEF TypeOK
  <2>5. QED
    BY <2>1, <2>2, <2>3, <2>4
<1>4. DOMAIN list \subseteq keep
  <2>1. \A i \in DOMAIN list : list[i].track \in Rows("studio")
    BY <1>2, EntryIsClip, ClipIs
  <2> HIDE DEF list
  <2>2. QED
    BY <1>3, <2>1
<1>5. clips' = Those(list, keep)
  BY <1>1 DEF OnRows
<1> HIDE DEF list, keep
<1>6. clips' = list
  BY <1>2, <1>4, <1>5, ThoseAll
<1>7. QED
  BY <1>1, <1>6 DEF list

\* A project comes back as it was saved, unless it is opened from a mode with
\* fewer tracks: apply_playlist (openstudio.rs) drops the clips on the others.
THEOREM ProjectReturns == Spec => OpensAsSaved
<1>1. TypeOK /\ [Next]_vars =>
        [Open /\ (mode = "studio" \/ StudioRows <= LiveRows) =>
           clips' = file.clips /\ nextId' = file.next]_vars
  BY OpenedAll
<1>2. QED
  BY <1>1, TypeCorrect, PTL DEF Spec, OpensAsSaved

=============================================================================
