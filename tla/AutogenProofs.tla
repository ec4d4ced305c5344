--------------------------- MODULE AutogenProofs ----------------------------
(***************************************************************************)
(* What autogen_perf_events.py guarantees for every list of events and     *)
(* every tree, killed or not: a patch keeps the hand-written text and      *)
(* leaves the generated one between the markers, a run that exits with 0   *)
(* leaves all nine files in step, and the RTL and the software agree on    *)
(* the bit of every event.                                                 *)
(*                                                                         *)
(* The parts: the n-th number of a set; the marked regions of a file, and  *)
(* that they are what the script finds; a splice, then all of a patch; the *)
(* generators write no marker; the invariant of the runs; the bits.        *)
(***************************************************************************)
EXTENDS Autogen, FiniteSetTheorems, SequenceTheorems, NaturalsInduction, TLAPS

-----------------------------------------------------------------------------
(* Numbers.                                                                 *)

\* A set of numbers has a least one.
LEMMA LeastNumber ==
  ASSUME NEW S, S \subseteq Nat, S # {}
  PROVE  \E m \in S : \A n \in S : m <= n
<1>1. PICK m \in S : \A n \in S : ~(<<n, m>> \in OpToRel(<, Nat))
  BY NatLessThanWellFounded, WFMin, Zenon
<1>2. \A n \in S : n < m => <<n, m>> \in OpToRel(<, Nat)
  BY DEF OpToRel
<1>3. \A n \in S : ~(n < m)
  BY <1>1, <1>2, Zenon
<1> QED
  BY <1>3

\* Induction, with a set for the predicate.
LEMMA SetInduction ==
  ASSUME NEW S, 0 \in S, \A n \in Nat : n \in S => n + 1 \in S
  PROVE  \A n \in Nat : n \in S
<1> SUFFICES ASSUME Nat \ S # {} PROVE FALSE
  OBVIOUS
<1>1. PICK m \in Nat \ S : \A n \in Nat \ S : m <= n
  BY LeastNumber
<1>2. m # 0 /\ m - 1 \in Nat
  BY <1>1
<1> QED
  BY <1>1, <1>2

-----------------------------------------------------------------------------
(* The n-th number of a set.                                                *)

\* The numbers of S up to k.
UpTo(S, k) == {j \in S : j <= k}

\* How many numbers of a finite set are up to one of them: no more than there are, and
\* more for a greater one.
LEMMA Ranks ==
  ASSUME NEW S, S \subseteq Nat, IsFiniteSet(S)
  PROVE  /\ \A k \in S : Cardinality(UpTo(S, k)) \in 1 .. Cardinality(S)
         /\ \A k, l \in S : k < l => Cardinality(UpTo(S, k)) < Cardinality(UpTo(S, l))
<1>1. Cardinality(S) \in Nat
  BY FS_CardinalityType
<1>2. ASSUME NEW k \in S
      PROVE  IsFiniteSet(UpTo(S, k)) /\ Cardinality(UpTo(S, k)) \in 1 .. Cardinality(S)
  <2>1. UpTo(S, k) \in SUBSET S /\ k \in UpTo(S, k)
    BY DEF UpTo
  <2>2. IsFiniteSet(UpTo(S, k)) /\ Cardinality(UpTo(S, k)) <= Cardinality(S)
    BY <2>1, FS_Subset
  <2>3. Cardinality(UpTo(S, k)) \in Nat /\ Cardinality(UpTo(S, k)) # 0
    BY <2>1, <2>2, FS_CardinalityType, FS_EmptySet
  <2> QED
    BY <1>1, <2>2, <2>3
<1>3. ASSUME NEW k \in S, NEW l \in S, k < l
      PROVE  Cardinality(UpTo(S, k)) < Cardinality(UpTo(S, l))
  <2>1. UpTo(S, k) \in SUBSET UpTo(S, l) /\ l \in UpTo(S, l) /\ l \notin UpTo(S, k)
    <3>1. k \in Nat /\ l \in Nat /\ \A j \in S : j \in Nat
      OBVIOUS
    <3>2. \A j \in S : j <= k => j <= l
      BY <1>3, <3>1
    <3>3. l <= l /\ ~(l <= k)
      BY <1>3, <3>1
    <3> QED
      BY <3>2, <3>3 DEF UpTo
  <2>2. /\ Cardinality(UpTo(S, k)) <= Cardinality(UpTo(S, l))
        /\ Cardinality(UpTo(S, l)) # Cardinality(UpTo(S, k))
    <3>1. IsFiniteSet(UpTo(S, l))
      BY <1>2
    <3>2. UpTo(S, l) # UpTo(S, k)
      BY <2>1
    <3> QED
      BY <2>1, <3>1, <3>2, FS_Subset
  <2>3. Cardinality(UpTo(S, k)) \in Nat /\ Cardinality(UpTo(S, l)) \in Nat
    BY <1>2, <1>1
  <2> QED
    BY <2>2, <2>3
<1> QED
  BY <1>2, <1>3

\* Nth(S, n) is in S and has n numbers of S up to it.
LEMMA NthIsThere ==
  ASSUME NEW S, S \subseteq Nat, IsFiniteSet(S), NEW n \in 1 .. Cardinality(S)
  PROVE  Nth(S, n) \in S /\ Cardinality(UpTo(S, Nth(S, n))) = n
<1> DEFINE f == [k \in S |-> Cardinality(UpTo(S, k))]
           C == Cardinality(S)
<1>1. C \in Nat /\ IsFiniteSet(1 .. C) /\ Cardinality(1 .. C) = C
  BY FS_CardinalityType, FS_Interval
<1>2. f \in [S -> 1 .. C]
  BY Ranks
<1>3. \A k, l \in S : f[k] = f[l] => k = l
  <2> SUFFICES ASSUME NEW k \in S, NEW l \in S, f[k] = f[l] PROVE k = l
    OBVIOUS
  <2>1. ~(k < l) /\ ~(l < k)
    <3>1. k < l => f[k] < f[l]
      BY Ranks
    <3>2. l < k => f[l] < f[k]
      BY Ranks
    <3>3. f[k] \in Nat /\ f[l] \in Nat
      BY <1>2
    <3> QED
      BY <3>1, <3>2, <3>3
  <2> QED
    BY <2>1
<1>4. f \in Injection(S, 1 .. C)
  BY <1>2, <1>3 DEF Injection, IsInjective
<1>5. f \in Surjection(S, 1 .. C)
  BY <1>1, <1>4, FS_Injection
<1>6. \E k \in S : Cardinality(UpTo(S, k)) = n
  BY <1>5 DEF Surjection
<1> QED
  BY <1>6 DEF Nth, UpTo

\* A number is the n-th for the n it counts.
LEMMA NthOfRank ==
  ASSUME NEW S, S \subseteq Nat, IsFiniteSet(S), NEW k \in S
  PROVE  Nth(S, Cardinality(UpTo(S, k))) = k
<1>1. PICK n : n = Cardinality(UpTo(S, k))
  OBVIOUS
<1>2. n \in 1 .. Cardinality(S) /\ Cardinality(S) \in Nat
  BY <1>1, Ranks, FS_CardinalityType
<1>3. PICK l \in S : l = Nth(S, n) /\ Cardinality(UpTo(S, l)) = n
  BY <1>2, NthIsThere
<1>4. k < l => n < n
  BY <1>1, <1>3, Ranks
<1>5. l < k => n < n
  BY <1>1, <1>3, Ranks
<1> QED
  BY <1>1, <1>2, <1>3, <1>4, <1>5

\* The n-th number grows with n.
LEMMA NthGrows ==
  ASSUME NEW S, S \subseteq Nat, IsFiniteSet(S),
         NEW m \in 1 .. Cardinality(S), NEW n \in 1 .. Cardinality(S), m < n
  PROVE  Nth(S, m) < Nth(S, n)
<1>1. PICK k \in S : k = Nth(S, m) /\ Cardinality(UpTo(S, k)) = m
  BY NthIsThere
<1>2. PICK l \in S : l = Nth(S, n) /\ Cardinality(UpTo(S, l)) = n
  BY NthIsThere
<1>3. l < k => n < m
  BY <1>1, <1>2, Ranks
<1>4. ~(l < k) /\ k # l
  <2>1. Cardinality(S) \in Nat
    BY FS_CardinalityType
  <2> QED
    BY <1>1, <1>2, <1>3, <2>1
<1> QED
  BY <1>1, <1>2, <1>4

-----------------------------------------------------------------------------
(* The markers.                                                             *)

\* s is a sequence, of whatever it has.
IsSeq(s) == s \in Seq(ToSet(s))

\* Places of markers, and the next one behind b.
Markers(lines) == Opens(lines) \cup Closes(lines)

IsNextMarker(lines, b, e) ==
  /\ e \in b + 1 .. Len(lines) + 1
  /\ e \in Markers(lines) \cup {Len(lines) + 1}
  /\ \A k \in b + 1 .. e - 1 : k \notin Markers(lines)

\* NextMarker is the first marker behind a line, or the end of the file.
LEMMA NextMarkerIs ==
  ASSUME NEW lines, IsSeq(lines), NEW b \in DOMAIN lines
  PROVE  IsNextMarker(lines, b, NextMarker(lines, b))
<1> DEFINE L == Len(lines)
           S == {k \in b + 1 .. L + 1 : k \in Markers(lines) \cup {L + 1}}
<1>1. L \in Nat /\ b \in 1 .. L
  BY DEF IsSeq
<1>2. S \subseteq Nat /\ L + 1 \in S
  BY <1>1
<1>3. PICK e \in S : \A n \in S : e <= n
  BY <1>2, LeastNumber
<1>4. \A k \in b + 1 .. e - 1 : k \notin Markers(lines)
  <2> SUFFICES ASSUME NEW k \in b + 1 .. e - 1, k \in Markers(lines) PROVE FALSE
    OBVIOUS
  <2>1. k \in S /\ k < e
    BY <1>1
  <2> QED
    BY <1>1, <1>3, <2>1
<1>5. IsNextMarker(lines, b, e)
  BY <1>3, <1>4 DEF IsNextMarker
<1> QED
  BY <1>5 DEF NextMarker, IsNextMarker, Markers

\* There is only one such place.
LEMMA NextMarkerUnique ==
  ASSUME NEW lines, IsSeq(lines), NEW b \in DOMAIN lines, NEW e,
         IsNextMarker(lines, b, e)
  PROVE  NextMarker(lines, b) = e
<1>1. PICK n : n = NextMarker(lines, b) /\ IsNextMarker(lines, b, n)
  BY NextMarkerIs
<1>2. Len(lines) \in Nat /\ b \in Nat /\ Markers(lines) \subseteq 1 .. Len(lines)
  BY DEF IsSeq, Markers, Opens, Closes
<1>3. ~(n < e) /\ ~(e < n)
  BY <1>1, <1>2 DEF IsNextMarker
<1> QED
  BY <1>1, <1>2, <1>3 DEF IsNextMarker

\* P are the marked regions of a file: each a BEGIN and the END that follows it, one
\* behind the other, and no other BEGIN.
Regions(lines, P) ==
  /\ P \in Seq(Nat \X Nat)
  /\ \A m \in DOMAIN P :
       /\ P[m][1] \in Opens(lines) /\ P[m][2] \in Closes(lines) /\ P[m][1] < P[m][2]
       /\ \A k \in P[m][1] + 1 .. P[m][2] - 1 : k \notin Closes(lines)
  /\ \A m, o \in DOMAIN P : m < o => P[m][2] < P[o][1]
  /\ \A k \in Opens(lines) : \E m \in DOMAIN P : k = P[m][1]

\* The BEGIN markers are among the lines.
LEMMA OpensFinite ==
  ASSUME NEW lines, IsSeq(lines)
  PROVE  /\ Opens(lines) \subseteq 1 .. Len(lines) /\ Len(lines) \in Nat
         /\ Opens(lines) \subseteq Nat
         /\ IsFiniteSet(Opens(lines)) /\ Cardinality(Opens(lines)) \in Nat
<1>1. Opens(lines) \subseteq 1 .. Len(lines) /\ Len(lines) \in Nat
  BY DEF IsSeq, Opens
<1>2. IsFiniteSet(1 .. Len(lines)) /\ Opens(lines) \in SUBSET (1 .. Len(lines))
  BY <1>1, FS_Interval
<1>3. IsFiniteSet(Opens(lines))
  BY <1>2, FS_Subset
<1> QED
  BY <1>1, <1>3, FS_CardinalityType

\* What the script finds in a file it does not refuse.
LEMMA FoundAreRegions ==
  ASSUME NEW lines, IsSeq(lines), ~RaisesRuntimeError(lines)
  PROVE  Regions(lines, find_tag_pairs(lines))
<1> DEFINE O == Opens(lines)
           N == Cardinality(O)
<1>0. PICK P : P = find_tag_pairs(lines)
  OBVIOUS
<1>1. O \subseteq 1 .. Len(lines) /\ Len(lines) \in Nat /\ O \subseteq Nat /\ IsFiniteSet(O)
      /\ N \in Nat
  BY OpensFinite
<1>2. DOMAIN P = 1 .. N /\ P = [m \in 1 .. N |-> P[m]]
  BY <1>0 DEF find_tag_pairs
<1>3. ASSUME NEW b \in O
      PROVE  /\ NextMarker(lines, b) \in Closes(lines) /\ b < NextMarker(lines, b)
             /\ NextMarker(lines, b) \in Nat
             /\ \A k \in b + 1 .. NextMarker(lines, b) - 1 : k \notin Markers(lines)
  <2>1. PICK e : e = NextMarker(lines, b) /\ IsNextMarker(lines, b, e)
    <3>1. b \in DOMAIN lines
      BY DEF Opens
    <3> QED
      BY <3>1, NextMarkerIs
  <2>2. e \in Closes(lines)
    BY <2>1 DEF RaisesRuntimeError
  <2>3. b \in Nat /\ e \in Nat /\ b < e
    BY <1>1, <2>1 DEF IsNextMarker
  <2> QED
    BY <2>1, <2>2, <2>3 DEF IsNextMarker
<1>4. ASSUME NEW m \in 1 .. N
      PROVE  /\ P[m] = <<Nth(O, m), NextMarker(lines, Nth(O, m))>>
             /\ Nth(O, m) \in O
  BY <1>0, <1>1, NthIsThere DEF find_tag_pairs
<1>5. P \in Seq(Nat \X Nat)
  <2>1. ASSUME NEW m \in 1 .. N PROVE P[m] \in Nat \X Nat
    <3>1. PICK b \in O : P[m] = <<b, NextMarker(lines, b)>>
      BY <1>4
    <3>2. b \in Nat /\ NextMarker(lines, b) \in Nat
      BY <1>1, <1>3
    <3> QED
      BY <3>1, <3>2
  <2>2. P \in [1 .. N -> Nat \X Nat]
    BY <1>2, <2>1
  <2> QED
    BY <1>1, <2>2
<1>6. ASSUME NEW m \in 1 .. N
      PROVE  /\ P[m][1] \in O /\ P[m][2] \in Closes(lines) /\ P[m][1] < P[m][2]
             /\ \A k \in P[m][1] + 1 .. P[m][2] - 1 : k \notin Markers(lines)
  <2>1. PICK b \in O : P[m] = <<b, NextMarker(lines, b)>>
    BY <1>4
  <2>2. P[m][1] = b /\ P[m][2] = NextMarker(lines, b)
    BY <2>1
  <2> QED
    BY <1>3, <2>2
<1>7. ASSUME NEW m \in 1 .. N, NEW o \in 1 .. N, m < o PROVE P[m][2] < P[o][1]
  <2>1. P[m][1] < P[o][1]
    BY <1>1, <1>4, <1>7, NthGrows
  <2>2. PICK b, e, c : b = P[m][1] /\ e = P[m][2] /\ c = P[o][1]
    OBVIOUS
  <2>3. c \in O /\ b \in O /\ e \in Closes(lines)
        /\ \A k \in b + 1 .. e - 1 : k \notin Markers(lines)
    BY <1>6, <2>2
  <2>4. c \in Markers(lines) /\ c # e
    BY <2>3 DEF Markers, Opens, Closes, OPEN, CLOSE
  <2>5. b \in Nat /\ c \in Nat /\ e \in Nat
    BY <1>1, <2>3 DEF Closes, IsSeq
  <2>6. b < c
    BY <2>1, <2>2
  <2> QED
    BY <2>2, <2>3, <2>4, <2>5, <2>6
<1>8. ASSUME NEW k \in O PROVE \E m \in 1 .. N : k = P[m][1]
  <2>1. PICK m \in 1 .. N : m = Cardinality(UpTo(O, k))
    BY <1>1, Ranks
  <2>2. Nth(O, m) = k
    BY <1>1, <2>1, NthOfRank
  <2> QED
    BY <1>4, <2>2
<1> QED
  BY <1>0, <1>2, <1>5, <1>6, <1>7, <1>8 DEF Regions, Markers

\* The numbers of an increasing list, in order.
LEMMA Increasing ==
  ASSUME NEW n \in Nat, NEW g \in [1 .. n -> Nat],
         \A i, j \in 1 .. n : i < j => g[i] < g[j],
         NEW S, S = {g[i] : i \in 1 .. n}
  PROVE  /\ IsFiniteSet(S) /\ Cardinality(S) = n /\ S \subseteq Nat
         /\ \A m \in 1 .. n : Nth(S, m) = g[m]
<1>1. ASSUME NEW m \in 0 .. n
      PROVE  /\ IsFiniteSet({g[i] : i \in 1 .. m})
             /\ Cardinality({g[i] : i \in 1 .. m}) = m
  <2> DEFINE T == {g[i] : i \in 1 .. m}
             h == [i \in 1 .. m |-> g[i]]
  <2>1. m \in Nat /\ 1 .. m \subseteq 1 .. n
    OBVIOUS
  <2>2. h \in [1 .. m -> T]
    OBVIOUS
  <2>3. \A i, j \in 1 .. m : h[i] = h[j] => i = j
    <3> SUFFICES ASSUME NEW i \in 1 .. m, NEW j \in 1 .. m, h[i] = h[j] PROVE i = j
      OBVIOUS
    <3>1. i \in 1 .. n /\ j \in 1 .. n /\ g[i] = g[j]
      BY <2>1
    <3>2. g[i] \in Nat /\ g[j] \in Nat
      BY <3>1
    <3>3. ~(i < j) /\ ~(j < i)
      BY <3>1, <3>2
    <3> QED
      BY <3>1, <3>3
  <2>4. h \in Bijection(1 .. m, T)
    BY <2>2, <2>3 DEF Bijection, Injection, Surjection, IsInjective
  <2>5. IsFiniteSet(1 .. m) /\ Cardinality(1 .. m) = m
    <3>1. Cardinality(1 .. m) = IF 1 > m THEN 0 ELSE m - 1 + 1
      BY <2>1, FS_Interval
    <3> QED
      BY <2>1, <3>1, FS_Interval
  <2>6. ExistsBijection(1 .. m, T)
    BY <2>4 DEF ExistsBijection
  <2> QED
    BY <2>5, <2>6, FS_Bijection
<1>2. IsFiniteSet(S) /\ Cardinality(S) = n /\ S \subseteq Nat
  BY <1>1
<1>3. ASSUME NEW m \in 1 .. n PROVE Nth(S, m) = g[m]
  <2>1. UpTo(S, g[m]) = {g[i] : i \in 1 .. m}
    <3>1. ASSUME NEW i \in 1 .. n PROVE g[i] <= g[m] <=> i \in 1 .. m
      <4>1. g[i] \in Nat /\ g[m] \in Nat
        OBVIOUS
      <4>2. i < m => g[i] < g[m]
        OBVIOUS
      <4>3. m < i => g[m] < g[i]
        OBVIOUS
      <4> QED
        BY <4>1, <4>2, <4>3
    <3>2. 1 .. m \subseteq 1 .. n
      OBVIOUS
    <3>3. ASSUME NEW x \in UpTo(S, g[m]) PROVE x \in {g[i] : i \in 1 .. m}
      <4>1. PICK i \in 1 .. n : x = g[i]
        BY DEF UpTo
      <4>2. g[i] <= g[m]
        BY <4>1 DEF UpTo
      <4> QED
        BY <3>1, <4>1, <4>2
    <3>4. ASSUME NEW i \in 1 .. m PROVE g[i] \in UpTo(S, g[m])
      BY <3>1, <3>2 DEF UpTo
    <3>5. {g[i] : i \in 1 .. m} \subseteq UpTo(S, g[m])
      BY <3>4
    <3>6. UpTo(S, g[m]) \subseteq {g[i] : i \in 1 .. m}
      BY <3>3
    <3> QED
      BY <3>5, <3>6, Zenon
  <2>2. Cardinality(UpTo(S, g[m])) = m
    <3>1. m \in 0 .. n
      OBVIOUS
    <3>2. Cardinality({g[i] : i \in 1 .. m}) = m
      BY <1>1, <3>1, Zenon
    <3> QED
      BY <2>1, <3>2, Zenon
  <2>3. g[m] \in S
    OBVIOUS
  <2>4. Nth(S, Cardinality(UpTo(S, g[m]))) = g[m]
    BY <1>2, <2>3, NthOfRank
  <2> QED
    BY <2>2, <2>4
<1> QED
  BY <1>2, <1>3

\* A file with such regions is not refused, and they are what is found.
LEMMA RegionsAreFound ==
  ASSUME NEW lines, IsSeq(lines), NEW P, Regions(lines, P)
  PROVE  ~RaisesRuntimeError(lines) /\ find_tag_pairs(lines) = P
<1> DEFINE O == Opens(lines)
           N == Len(P)
           g == [m \in 1 .. N |-> P[m][1]]
<1>1. N \in Nat /\ DOMAIN P = 1 .. N /\ P = [m \in 1 .. N |-> P[m]]
  BY DEF Regions
<1>2. ASSUME NEW m \in 1 .. N
      PROVE  /\ P[m] = <<P[m][1], P[m][2]>>
             /\ P[m][1] \in Nat /\ P[m][2] \in Nat
             /\ P[m][1] \in O /\ P[m][2] \in Closes(lines) /\ P[m][1] < P[m][2]
             /\ \A k \in P[m][1] + 1 .. P[m][2] - 1 : k \notin Closes(lines)
  <2>1. P[m] \in Nat \X Nat
    BY <1>1 DEF Regions
  <2> QED
    BY <1>1, <2>1 DEF Regions
<1>3. ASSUME NEW m \in 1 .. N PROVE NextMarker(lines, P[m][1]) = P[m][2]
  <2>1. PICK b, e : b = P[m][1] /\ e = P[m][2]
    OBVIOUS
  <2>2. /\ b \in Nat /\ e \in Nat /\ b \in O /\ e \in Closes(lines) /\ b < e
        /\ \A k \in b + 1 .. e - 1 : k \notin Closes(lines)
    BY <1>2, <2>1
  <2>3. \A k \in b + 1 .. e - 1 : k \notin O
    <3> SUFFICES ASSUME NEW k \in b + 1 .. e - 1, k \in O PROVE FALSE
      OBVIOUS
    <3>1. PICK o \in 1 .. N : k = P[o][1]
      BY <1>1 DEF Regions
    <3>2. m < o => P[m][2] < P[o][1]
      BY <1>1 DEF Regions
    <3>3. o < m => P[o][2] < P[m][1]
      BY <1>1 DEF Regions
    <3>4. P[o][1] < P[o][2] /\ P[o][1] \in Nat /\ P[o][2] \in Nat
      BY <1>2
    <3> QED
      BY <2>1, <2>2, <3>1, <3>2, <3>3, <3>4
  <2>4. b \in DOMAIN lines /\ e \in 1 .. Len(lines) /\ Len(lines) \in Nat
    BY <2>2 DEF Opens, Closes, IsSeq
  <2>5. IsNextMarker(lines, b, e)
    BY <2>2, <2>3, <2>4 DEF IsNextMarker, Markers
  <2> QED
    BY <2>1, <2>4, <2>5, NextMarkerUnique
<1>4. O = {g[m] : m \in 1 .. N}
  <2>1. \A k \in O : \E m \in 1 .. N : k = P[m][1]
    BY <1>1 DEF Regions
  <2> QED
    BY <1>2, <2>1
<1>5. ~RaisesRuntimeError(lines)
  BY <1>2, <1>3, <1>4 DEF RaisesRuntimeError
<1>6. Cardinality(O) = N /\ \A m \in 1 .. N : Nth(O, m) = P[m][1]
  <2>1. g \in [1 .. N -> Nat]
    BY <1>2
  <2>2. \A i, j \in 1 .. N : i < j => g[i] < g[j]
    <3> SUFFICES ASSUME NEW i \in 1 .. N, NEW j \in 1 .. N, i < j PROVE g[i] < g[j]
      OBVIOUS
    <3>1. P[i][2] < P[j][1]
      BY <1>1 DEF Regions
    <3> QED
      BY <1>2, <3>1
  <2> HIDE DEF g
  <2>3. N \in Nat
    BY <1>1
  <2> HIDE DEF N, O
  <2>4. Cardinality(O) = N /\ \A m \in 1 .. N : Nth(O, m) = g[m]
    BY <1>4, <2>1, <2>2, <2>3, Increasing, Zenon
  <2> QED
    BY <2>4 DEF g
<1>7. find_tag_pairs(lines) = [m \in 1 .. N |-> <<Nth(O, m), NextMarker(lines, Nth(O, m))>>]
  BY <1>6 DEF find_tag_pairs
<1>8. \A m \in 1 .. N : <<Nth(O, m), NextMarker(lines, Nth(O, m))>> = P[m]
  <2> SUFFICES ASSUME NEW m \in 1 .. N
               PROVE  <<Nth(O, m), NextMarker(lines, Nth(O, m))>> = P[m]
    OBVIOUS
  <2>1. Nth(O, m) = P[m][1] /\ NextMarker(lines, P[m][1]) = P[m][2]
    BY <1>3, <1>6
  <2>2. P[m] = <<P[m][1], P[m][2]>>
    BY <1>2
  <2> QED
    BY <2>1, <2>2
<1>9. find_tag_pairs(lines) = [m \in 1 .. N |-> P[m]]
  BY <1>7, <1>8
<1> QED
  BY <1>1, <1>5, <1>9

-----------------------------------------------------------------------------
(* A splice.                                                                *)

\* The same text, c lines further down.
Shifted(s, a, z, t, c) == \A k \in a .. z : t[k + c] = s[k]

\* Two parts of files with the same lines are the same text.
LEMMA SameText ==
  ASSUME NEW S, NEW s \in Seq(S), NEW T, NEW t \in Seq(T),
         NEW a \in Nat \ {0}, NEW z \in Nat, z <= Len(s),
         NEW c \in Int, a + c >= 1, z + c <= Len(t), Shifted(s, a, z, t, c)
  PROVE  SubSeq(t, a + c, z + c) = SubSeq(s, a, z)
<1>0. \A k \in a .. z : t[k + c] = s[k]
  BY DEF Shifted
<1> DEFINE u == SubSeq(t, a + c, z + c)
           v == SubSeq(s, a, z)
<1>1. Len(s) \in Nat /\ Len(t) \in Nat
  OBVIOUS
<1>2. \A i \in a .. z : s[i] \in S \cup T
  BY <1>1
<1>3. \A i \in a + c .. z + c : t[i] \in S \cup T
  BY <1>1
<1>4. /\ v \in Seq(S \cup T) /\ Len(v) = IF a <= z THEN z - a + 1 ELSE 0
      /\ \A i \in 1 .. z - a + 1 : v[i] = s[a + i - 1]
  BY <1>2, SubSeqProperties
<1>5. /\ u \in Seq(S \cup T)
      /\ Len(u) = IF a + c <= z + c THEN (z + c) - (a + c) + 1 ELSE 0
      /\ \A i \in 1 .. (z + c) - (a + c) + 1 : u[i] = t[(a + c) + i - 1]
  <2>1. a + c \in Int /\ z + c \in Int
    OBVIOUS
  <2> QED
    BY <1>3, <2>1, SubSeqProperties
<1>6. Len(u) = Len(v) /\ (z + c) - (a + c) + 1 = z - a + 1
  BY <1>4, <1>5
<1>7. ASSUME NEW i \in 1 .. Len(u) PROVE u[i] = v[i]
  <2>1. i \in 1 .. z - a + 1
    BY <1>4, <1>6
  <2>2. u[i] = t[(a + c) + i - 1] /\ v[i] = s[a + i - 1]
    BY <1>4, <1>5, <1>6, <2>1
  <2>3. a + i - 1 \in a .. z /\ (a + c) + i - 1 = (a + i - 1) + c
    BY <2>1
  <2> QED
    BY <1>0, <2>2, <2>3
<1> HIDE DEF u, v
<1>8. u = v
  BY <1>4, <1>5, <1>6, <1>7, SeqEqual
<1> QED
  BY <1>8 DEF u, v

\* A sequence of lines none of which is a marker.
Plain(s) == IsSeq(s) /\ \A k \in DOMAIN s : s[k] \notin {OPEN, CLOSE}

\* What stands where after a splice: N has a body between lines b and e, and what
\* follows has moved by d lines.
Spliced(lines, b, e, body, N, d) ==
  /\ IsSeq(N) /\ Len(N) = Len(lines) + d /\ d \in Int
  /\ \A k \in 1 .. b : N[k] = lines[k]
  /\ \A k \in 1 .. Len(body) : N[b + k] = body[k]
  /\ \A k \in e .. Len(lines) : N[k + d] = lines[k]

\* What stands where after a splice (SubSeq and \o, line by line).
LEMMA SpliceIs ==
  ASSUME NEW lines, IsSeq(lines), NEW body, IsSeq(body), NEW b \in Nat \ {0}, NEW e \in Nat,
         b < e, e <= Len(lines)
  PROVE  Spliced(lines, b, e, body, Splice(lines, <<b, e>>, body), b + 1 + Len(body) - e)
<1> DEFINE S == ToSet(lines) \cup ToSet(body)
           L == Len(lines)
           B == Len(body)
<1>1. L \in Nat /\ B \in Nat /\ lines \in Seq(S) /\ body \in Seq(S)
  <2>1. lines \in Seq(ToSet(lines)) /\ body \in Seq(ToSet(body))
    BY DEF IsSeq
  <2>2. ToSet(lines) \subseteq S /\ ToSet(body) \subseteq S
    OBVIOUS
  <2> HIDE DEF S
  <2> QED
    BY <2>1, <2>2, SeqMonotonic
<1>2. PICK s : s = SubSeq(lines, 1, b)
  OBVIOUS
<1>3. PICK t : t = SubSeq(lines, e, L)
  OBVIOUS
<1>4. PICK N : N = (s \o body) \o t
  OBVIOUS
<1>5. N = Splice(lines, <<b, e>>, body)
  BY <1>2, <1>3, <1>4 DEF Splice
<1> HIDE DEF S
<1>6. s \in Seq(S) /\ Len(s) = b /\ \A k \in 1 .. b : s[k] = lines[k]
  BY <1>1, <1>2
<1>7. t \in Seq(S) /\ Len(t) = L - e + 1 /\ \A k \in 1 .. L - e + 1 : t[k] = lines[e + k - 1]
  <2>1. \A i \in e .. L : lines[i] \in S
    BY <1>1
  <2>2. e \in Int /\ L \in Int /\ e <= L
    BY <1>1
  <2> QED
    BY <1>3, <2>1, <2>2, SubSeqProperties
<1>8. PICK u : u = s \o body
  OBVIOUS
<1>9. /\ u \in Seq(S) /\ Len(u) = b + B
      /\ \A k \in 1 .. b + B : u[k] = IF k <= b THEN s[k] ELSE body[k - b]
  BY <1>1, <1>6, <1>8, ConcatProperties
<1>10. /\ N \in Seq(S) /\ Len(N) = b + B + (L - e + 1)
       /\ \A k \in 1 .. b + B + (L - e + 1) :
            N[k] = IF k <= b + B THEN u[k] ELSE t[k - (b + B)]
  <2>1. N = u \o t
    BY <1>4, <1>8
  <2>2. /\ u \o t \in Seq(S) /\ Len(u \o t) = Len(u) + Len(t)
        /\ \A k \in 1 .. Len(u) + Len(t) :
             (u \o t)[k] = IF k <= Len(u) THEN u[k] ELSE t[k - Len(u)]
    <3>1. u \in Seq(S) /\ t \in Seq(S)
      BY <1>7, <1>9
    <3> QED
      BY <3>1, ConcatProperties, Zenon
  <2>3. Len(u) = b + B /\ Len(t) = L - e + 1
    BY <1>7, <1>9
  <2> QED
    BY <2>1, <2>2, <2>3, Zenon
<1>11. IsSeq(N)
  BY <1>10 DEF IsSeq, ToSet
<1>12. ASSUME NEW k \in 1 .. b PROVE N[k] = lines[k]
  <2>1. k \in 1 .. b + B /\ k \in 1 .. b + B + (L - e + 1) /\ k <= b /\ k <= b + B
    BY <1>1
  <2>2. N[k] = u[k] /\ u[k] = s[k] /\ s[k] = lines[k]
    BY <1>6, <1>9, <1>10, <2>1
  <2> QED
    BY <2>2
<1>13. ASSUME NEW k \in 1 .. B PROVE N[b + k] = body[k]
  <2>1. b + k \in 1 .. b + B /\ b + k \in 1 .. b + B + (L - e + 1) /\ ~(b + k <= b)
        /\ (b + k) - b = k /\ b + k <= b + B
    BY <1>1
  <2> QED
    BY <1>9, <1>10, <2>1
<1>14. ASSUME NEW k \in e .. L PROVE N[k + (b + 1 + B - e)] = lines[k]
  <2>1. PICK x : x = k + (b + 1 + B - e)
    OBVIOUS
  <2>2. /\ x \in 1 .. b + B + (L - e + 1) /\ ~(x <= b + B) /\ x - (b + B) = k - e + 1
        /\ k - e + 1 \in 1 .. L - e + 1 /\ e + (k - e + 1) - 1 = k
    BY <1>1, <2>1
  <2>3. N[x] = t[k - e + 1]
    BY <1>10, <2>2
  <2>4. t[k - e + 1] = lines[e + (k - e + 1) - 1]
    BY <1>7, <2>2
  <2> QED
    BY <2>1, <2>2, <2>3, <2>4
<1>15. Len(N) = L + (b + 1 + B - e) /\ b + 1 + B - e \in Int
  BY <1>1, <1>10
<1> QED
  BY <1>5, <1>11, <1>12, <1>13, <1>14, <1>15 DEF Spliced

\* What is in region m, and the piece of text behind it (or before the first).
In(lines, P, m) == SubSeq(lines, P[m][1] + 1, P[m][2] - 1)
From(P, g) == IF g = 0 THEN 1 ELSE P[g][2]
Till(lines, P, g) == IF g = Len(P) THEN Len(lines) ELSE P[g + 1][1]
Piece(lines, P, g) == SubSeq(lines, From(P, g), Till(lines, P, g))

\* The bounds of a region, as numbers.
LEMMA RegionFacts ==
  ASSUME NEW lines, IsSeq(lines), NEW P, Regions(lines, P)
  PROVE  /\ Len(P) \in Nat /\ DOMAIN P = 1 .. Len(P) /\ P = [m \in 1 .. Len(P) |-> P[m]]
         /\ Len(lines) \in Nat /\ DOMAIN lines = 1 .. Len(lines)
         /\ \A m \in 1 .. Len(P) :
              /\ P[m] = <<P[m][1], P[m][2]>>
              /\ P[m][1] \in Nat /\ P[m][2] \in Nat
              /\ 1 <= P[m][1] /\ P[m][1] < P[m][2] /\ P[m][2] <= Len(lines)
              /\ lines[P[m][1]] = OPEN /\ lines[P[m][2]] = CLOSE
<1>1. Len(P) \in Nat /\ DOMAIN P = 1 .. Len(P) /\ P = [m \in 1 .. Len(P) |-> P[m]]
  BY DEF Regions
<1>2. Len(lines) \in Nat /\ DOMAIN lines = 1 .. Len(lines)
  BY DEF IsSeq
<1>3. ASSUME NEW m \in 1 .. Len(P)
      PROVE  /\ P[m] = <<P[m][1], P[m][2]>>
             /\ P[m][1] \in Nat /\ P[m][2] \in Nat
             /\ 1 <= P[m][1] /\ P[m][1] < P[m][2] /\ P[m][2] <= Len(lines)
             /\ lines[P[m][1]] = OPEN /\ lines[P[m][2]] = CLOSE
  <2>1. P[m] \in Nat \X Nat
    BY <1>1 DEF Regions
  <2>2. P[m][1] \in Opens(lines) /\ P[m][2] \in Closes(lines) /\ P[m][1] < P[m][2]
    BY <1>1 DEF Regions
  <2> QED
    BY <1>2, <2>1, <2>2 DEF Opens, Closes
<1> QED
  BY <1>1, <1>2, <1>3

\* A splice of plain lines into region n leaves a file with as many regions: those
\* before it where they were, each of the others with what it had, region n with
\* the new lines, and all pieces of text between them the same.
LEMMA SpliceKeeps ==
  ASSUME NEW lines, IsSeq(lines), NEW P, Regions(lines, P), NEW n \in 1 .. Len(P),
         NEW body, Plain(body), NEW N, N = Splice(lines, P[n], body)
  PROVE  /\ IsSeq(N)
         /\ \E R :
              /\ Regions(N, R) /\ Len(R) = Len(P)
              /\ \A m \in 1 .. n - 1 : R[m] = P[m]
              /\ \A m \in 1 .. Len(P) : m # n => In(N, R, m) = In(lines, P, m)
              /\ In(N, R, n) = body
              /\ \A g \in 0 .. Len(P) : Piece(N, R, g) = Piece(lines, P, g)
<1>1. PICK b, e, L, B, d, C :
        /\ b = P[n][1] /\ e = P[n][2] /\ L = Len(lines) /\ B = Len(body) /\ d = b + 1 + B - e
        /\ C = Len(P)
  OBVIOUS
<1>2. /\ P[n] = <<b, e>> /\ b \in Nat \ {0} /\ e \in Nat /\ b < e /\ e <= L /\ L \in Nat
      /\ B \in Nat /\ d \in Int /\ C \in Nat
  <2>1. B \in Nat
    BY <1>1 DEF Plain, IsSeq
  <2>2. L \in Nat /\ C \in Nat
    BY <1>1, RegionFacts
  <2>3. /\ P[n] = <<P[n][1], P[n][2]>> /\ P[n][1] \in Nat /\ P[n][2] \in Nat
        /\ 1 <= P[n][1] /\ P[n][1] < P[n][2] /\ P[n][2] <= Len(lines)
    BY RegionFacts
  <2> QED
    BY <1>1, <2>1, <2>2, <2>3
<1>3. /\ IsSeq(N) /\ Len(N) = L + d
      /\ \A k \in 1 .. b : N[k] = lines[k]
      /\ \A k \in 1 .. B : N[b + k] = body[k]
      /\ \A k \in e .. L : N[k + d] = lines[k]
  <2>1. IsSeq(body) /\ N = Splice(lines, <<b, e>>, body) /\ e <= Len(lines)
    BY <1>1, <1>2 DEF Plain
  <2>2. Spliced(lines, b, e, body, N, b + 1 + Len(body) - e)
    BY <1>2, <2>1, SpliceIs
  <2>3. Spliced(lines, b, e, body, N, d)
    BY <1>1, <2>2
  <2> QED
    BY <1>1, <2>3 DEF Spliced
<1>4. /\ b \in Nat \ {0} /\ e \in Nat /\ b < e /\ e <= L /\ L \in Nat /\ B \in Nat
      /\ d \in Int /\ d = b + 1 + B - e /\ Len(N) \in Nat /\ Len(N) = L + d
      /\ Len(lines) = L
  BY <1>1, <1>2, <1>3 DEF IsSeq
<1>5. b \in Nat /\ e \in Nat /\ b < e /\ e <= L /\ L \in Nat
  BY <1>4
<1> DEFINE mv(k) == IF k <= b THEN k ELSE k + d
           Kept == (1 .. b) \cup (e .. L)
           R == [m \in 1 .. C |-> <<mv(P[m][1]), mv(P[m][2])>>]
<1>6. ASSUME NEW m \in 1 .. C
      PROVE  /\ P[m][1] \in Nat /\ P[m][2] \in Nat
             /\ 1 <= P[m][1] /\ P[m][1] < P[m][2] /\ P[m][2] <= L
             /\ lines[P[m][1]] = OPEN /\ lines[P[m][2]] = CLOSE
             /\ m < n => P[m][2] < b
             /\ m > n => e < P[m][1]
             /\ m = n => P[m][1] = b /\ P[m][2] = e
             /\ P[m][1] \in Kept /\ P[m][2] \in Kept
  <2>1. /\ P[m][1] \in Nat /\ P[m][2] \in Nat
        /\ 1 <= P[m][1] /\ P[m][1] < P[m][2] /\ P[m][2] <= L
        /\ lines[P[m][1]] = OPEN /\ lines[P[m][2]] = CLOSE
    BY <1>1, RegionFacts
  <2>2. n \in 1 .. C
    BY <1>1
  <2>3. /\ m < n => P[m][2] < b
        /\ m > n => e < P[m][1]
        /\ m = n => P[m][1] = b /\ P[m][2] = e
    <3>1. DOMAIN P = 1 .. C
      BY <1>1, RegionFacts
    <3>2. \A i, j \in 1 .. C : i < j => P[i][2] < P[j][1]
      BY <3>1 DEF Regions
    <3>3. b = P[n][1] /\ e = P[n][2]
      BY <1>1
    <3>4. m > n => n < m
      BY <2>2
    <3> QED
      BY <2>2, <3>2, <3>3, <3>4
  <2>4. m < n \/ m > n \/ m = n
    BY <2>2
  <2> QED
    BY <1>2, <2>1, <2>3, <2>4
<1>7. ASSUME NEW k \in Kept
      PROVE  mv(k) \in 1 .. Len(N) /\ N[mv(k)] = lines[k] /\ k \in 1 .. L
  <2>1. CASE k \in 1 .. b
    <3>1. mv(k) = k /\ k \in 1 .. L /\ k \in 1 .. Len(N)
      BY <1>4, <2>1
    <3> QED
      BY <1>3, <2>1, <3>1
  <2>2. CASE k \in e .. L
    <3>1. mv(k) = k + d /\ k \in 1 .. L /\ k + d \in 1 .. Len(N)
      BY <1>4, <2>2
    <3> QED
      BY <1>3, <2>2, <3>1
  <2> QED
    BY <2>1, <2>2
<1>8. ASSUME NEW k \in Kept, NEW l \in Kept PROVE k < l <=> mv(k) < mv(l)
  <2>1. CASE k \in 1 .. b /\ l \in 1 .. b
    BY <2>1
  <2>2. CASE k \in e .. L /\ l \in e .. L
    BY <1>4, <2>2
  <2>3. CASE k \in 1 .. b /\ l \in e .. L
    BY <1>4, <2>3
  <2>4. CASE k \in e .. L /\ l \in 1 .. b
    BY <1>4, <2>4
  <2> QED
    BY <2>1, <2>2, <2>3, <2>4
<1>9. ASSUME NEW x \in 1 .. Len(N)
      PROVE  \/ N[x] \notin {OPEN, CLOSE}
             \/ \E k \in Kept : x = mv(k)
  <2>1. CASE x <= b
    <3>1. x \in Kept /\ x = mv(x)
      BY <2>1
    <3> QED
      BY <3>1
  <2>2. CASE b < x /\ x <= b + B
    <3>1. x - b \in 1 .. B /\ b + (x - b) = x
      BY <1>4, <2>2
    <3>2. N[x] = body[x - b]
      BY <1>3, <3>1
    <3>3. x - b \in DOMAIN body
      BY <1>1, <3>1 DEF Plain, IsSeq
    <3> QED
      BY <3>2, <3>3 DEF Plain
  <2>3. CASE b + B < x
    <3>2. x - d \in e .. L /\ x = (x - d) + d /\ ~(x - d <= b)
      BY <1>4, <2>3
    <3> QED
      BY <3>2
  <2> QED
    BY <1>4, <2>1, <2>2, <2>3
<1>10. /\ \A k \in Nat : k <= b => mv(k) = k
       /\ \A k \in Nat : e <= k => mv(k) = k + d
  BY <1>4
<1> HIDE DEF Kept, mv
<1>11. ASSUME NEW m \in 1 .. C
      PROVE  /\ R[m][1] = mv(P[m][1]) /\ R[m][2] = mv(P[m][2])
             /\ R[m] = <<R[m][1], R[m][2]>>
             /\ R[m][1] \in 1 .. Len(N) /\ R[m][2] \in 1 .. Len(N) /\ R[m][1] < R[m][2]
             /\ R[m][1] \in Nat /\ R[m][2] \in Nat
             /\ N[R[m][1]] = OPEN /\ N[R[m][2]] = CLOSE
  <2>1. /\ P[m][1] \in Kept /\ P[m][2] \in Kept /\ P[m][1] < P[m][2]
        /\ lines[P[m][1]] = OPEN /\ lines[P[m][2]] = CLOSE
    BY <1>6
  <2>2. /\ mv(P[m][1]) \in 1 .. Len(N) /\ mv(P[m][2]) \in 1 .. Len(N)
        /\ mv(P[m][1]) < mv(P[m][2])
        /\ N[mv(P[m][1])] = OPEN /\ N[mv(P[m][2])] = CLOSE
    BY <1>7, <1>8, <2>1
  <2>3. R[m][1] = mv(P[m][1]) /\ R[m][2] = mv(P[m][2]) /\ R[m] = <<R[m][1], R[m][2]>>
    OBVIOUS
  <2>4. mv(P[m][1]) \in Nat /\ mv(P[m][2]) \in Nat
    BY <1>4, <2>2
  <2> HIDE DEF R
  <2> QED
    BY <2>2, <2>3, <2>4
<1>12. /\ R = [m \in 1 .. C |-> R[m]] /\ DOMAIN R = 1 .. C /\ Len(R) = C
  BY <1>2
<1> HIDE DEF R
<1>13. DOMAIN N = 1 .. Len(N) /\ Len(N) \in Nat
  BY <1>3 DEF IsSeq
<1>14. Regions(N, R)
  <2>1. R \in Seq(Nat \X Nat)
    <3>1. \A m \in 1 .. C : R[m] \in Nat \X Nat
      <4> SUFFICES ASSUME NEW m \in 1 .. C PROVE R[m] \in Nat \X Nat
        OBVIOUS
      <4>1. R[m] = <<R[m][1], R[m][2]>> /\ R[m][1] \in Nat /\ R[m][2] \in Nat
        BY <1>11
      <4> QED
        BY <4>1
    <3>2. R \in [1 .. C -> Nat \X Nat]
      BY <1>12, <3>1
    <3> QED
      BY <1>2, <3>2
  <2>2. ASSUME NEW m \in 1 .. C
        PROVE  R[m][1] \in Opens(N) /\ R[m][2] \in Closes(N) /\ R[m][1] < R[m][2]
    BY <1>11, <1>13 DEF Opens, Closes
  <2>3. ASSUME NEW m \in 1 .. C, NEW x \in R[m][1] + 1 .. R[m][2] - 1, x \in Closes(N)
        PROVE  FALSE
    <3>1. x \in 1 .. Len(N) /\ N[x] = CLOSE
      BY <2>3, <1>13 DEF Closes
    <3>2. PICK k \in Kept : x = mv(k)
      BY <1>9, <3>1
    <3>3. mv(P[m][1]) < mv(k) /\ mv(k) < mv(P[m][2])
      <4>1. R[m][1] < x /\ x < R[m][2]
        <5>1. PICK y, z : y = R[m][1] /\ z = R[m][2]
          OBVIOUS
        <5>2. y \in Nat /\ z \in Nat /\ x \in y + 1 .. z - 1
          BY <1>11, <5>1
        <5>3. y < x /\ x < z
          BY <5>2
        <5> QED
          BY <5>1, <5>3
      <4> QED
        BY <1>11, <3>2, <4>1
    <3>4. P[m][1] < k /\ k < P[m][2]
      <4>1. P[m][1] \in Kept /\ P[m][2] \in Kept
        BY <1>6
      <4> QED
        BY <1>8, <3>2, <3>3, <4>1
    <3>5. lines[k] = CLOSE /\ k \in 1 .. L
      BY <1>7, <3>1, <3>2
    <3>6. k \in P[m][1] + 1 .. P[m][2] - 1 /\ k \in Closes(lines)
      BY <1>1, <1>6, <3>4, <3>5 DEF Closes, IsSeq
    <3>7. m \in DOMAIN P
      BY <1>1, RegionFacts
    <3> QED
      BY <3>6, <3>7 DEF Regions
  <2>4. ASSUME NEW m \in 1 .. C, NEW o \in 1 .. C, m < o PROVE R[m][2] < R[o][1]
    <3>1. P[m][2] < P[o][1]
      BY <1>1, <2>4, RegionFacts DEF Regions
    <3>2. P[m][2] \in Kept /\ P[o][1] \in Kept
      BY <1>6
    <3> QED
      BY <1>8, <1>11, <3>1, <3>2
  <2>5. ASSUME NEW x \in Opens(N) PROVE \E m \in 1 .. C : x = R[m][1]
    <3>1. x \in 1 .. Len(N) /\ N[x] = OPEN
      BY <1>13 DEF Opens
    <3>2. PICK k \in Kept : x = mv(k)
      BY <1>9, <3>1
    <3>3. k \in Opens(lines)
      BY <1>1, <1>7, <3>1, <3>2 DEF Opens, IsSeq
    <3>4. PICK m \in 1 .. C : k = P[m][1]
      BY <1>1, <3>3, RegionFacts DEF Regions
    <3> QED
      BY <1>11, <3>2, <3>4
  <2> QED
    BY <1>12, <2>1, <2>2, <2>3, <2>4, <2>5 DEF Regions
<1>15. ASSUME NEW m \in 1 .. n - 1 PROVE R[m] = P[m]
  <2>1. m \in 1 .. C /\ m < n /\ P[m] = <<P[m][1], P[m][2]>>
    BY <1>1, <1>2, RegionFacts
  <2>2. P[m][1] <= b /\ P[m][2] <= b
    BY <1>2, <1>6, <2>1
  <2>3. P[m][1] \in Nat /\ P[m][2] \in Nat
    BY <1>6, <2>1
  <2> QED
    BY <1>11, <1>10, <2>1, <2>2, <2>3
<1>16. ASSUME NEW a \in Nat \ {0}, NEW z \in Nat, z <= b
       PROVE  SubSeq(N, a, z) = SubSeq(lines, a, z)
  <2>1. lines \in Seq(ToSet(lines)) /\ N \in Seq(ToSet(N))
    BY <1>3 DEF IsSeq
  <2>2. z <= Len(lines) /\ a + 0 >= 1 /\ z + 0 <= Len(N) /\ 0 \in Int
    <3>1. z <= L /\ z <= L + d
      BY <1>4, <1>16
    <3> QED
      BY <1>4, <3>1
  <2>3. Shifted(lines, a, z, N, 0)
    <3> SUFFICES ASSUME NEW k \in a .. z PROVE N[k + 0] = lines[k]
      BY DEF Shifted
    <3>1. k \in 1 .. b /\ k + 0 = k
      BY <1>4, <1>16
    <3> QED
      BY <1>3, <3>1
  <2>4. SubSeq(N, a + 0, z + 0) = SubSeq(lines, a, z)
    BY <2>1, <2>2, <2>3, SameText
  <2> QED
    BY <2>4
<1>17. ASSUME NEW a \in Nat, NEW z \in Nat, e <= a, z <= L
       PROVE  SubSeq(N, a + d, z + d) = SubSeq(lines, a, z)
  <2>1. lines \in Seq(ToSet(lines)) /\ N \in Seq(ToSet(N))
    BY <1>3 DEF IsSeq
  <2>2. z <= Len(lines) /\ a + d >= 1 /\ z + d <= Len(N) /\ d \in Int /\ a \in Nat \ {0}
    <3>1. a + d >= 1 /\ z + d <= L + d /\ a # 0
      BY <1>4, <1>17
    <3> QED
      BY <1>4, <1>17, <3>1
  <2>3. Shifted(lines, a, z, N, d)
    <3> SUFFICES ASSUME NEW k \in a .. z PROVE N[k + d] = lines[k]
      BY DEF Shifted
    <3>1. k \in e .. L
      BY <1>4, <1>17
    <3> QED
      BY <1>3, <3>1
  <2> QED
    BY <2>1, <2>2, <2>3, SameText
<1>18. ASSUME NEW m \in 1 .. C, m # n PROVE In(N, R, m) = In(lines, P, m)
  <2>1. PICK p, q : p = P[m][1] /\ q = P[m][2]
    OBVIOUS
  <2>2. /\ p \in Nat /\ q \in Nat /\ 1 <= p /\ p < q /\ q <= L
        /\ m < n => q < b
        /\ m > n => e < p
    BY <1>6, <2>1
  <2>3. R[m][1] = mv(p) /\ R[m][2] = mv(q)
    BY <1>11, <2>1
  <2>4. CASE m < n
    <3>1. p + 1 \in Nat \ {0} /\ q - 1 \in Nat /\ q - 1 <= b /\ p <= b /\ q <= b
      BY <1>4, <2>2, <2>4
    <3>3. mv(p) = p /\ mv(q) = q
      BY <1>10, <2>2, <3>1
    <3>2. SubSeq(N, p + 1, q - 1) = SubSeq(lines, p + 1, q - 1)
      BY <1>16, <3>1
    <3> QED
      BY <2>1, <2>3, <3>2, <3>3 DEF In
  <2>5. CASE n < m
    <3>1. /\ p + 1 \in Nat /\ q - 1 \in Nat /\ e <= p + 1 /\ q - 1 <= L
          /\ e <= p /\ e <= q /\ p + d + 1 = (p + 1) + d /\ q + d - 1 = (q - 1) + d
      BY <1>4, <2>2, <2>5
    <3>3. mv(p) = p + d /\ mv(q) = q + d
      BY <1>10, <2>2, <3>1
    <3>2. SubSeq(N, (p + 1) + d, (q - 1) + d) = SubSeq(lines, p + 1, q - 1)
      BY <1>17, <3>1
    <3>4. R[m][1] + 1 = (p + 1) + d /\ R[m][2] - 1 = (q - 1) + d
      <4>1. PICK x, y : x = R[m][1] /\ y = R[m][2]
        OBVIOUS
      <4>2. x = p + d /\ y = q + d
        BY <2>3, <3>3, <4>1
      <4>3. x + 1 = (p + 1) + d /\ y - 1 = (q - 1) + d
        BY <2>2, <1>4, <4>2
      <4> QED
        BY <4>1, <4>3
    <3> QED
      BY <2>1, <3>2, <3>4 DEF In
  <2>6. m < n \/ n < m
    BY <1>18
  <2> QED
    BY <2>4, <2>5, <2>6
<1>19. In(N, R, n) = body
  <2>1. body \in Seq(ToSet(body)) /\ N \in Seq(ToSet(N)) /\ B = Len(body)
    BY <1>1, <1>3 DEF IsSeq, Plain
  <2>2. n \in 1 .. C /\ P[n][1] = b /\ P[n][2] = e
    BY <1>1
  <2>3. mv(b) + 1 = 1 + b /\ mv(e) - 1 = B + b
    <3>1. mv(b) = b /\ mv(e) = e + d
      BY <1>4, <1>10
    <3> QED
      BY <1>4, <3>1
  <2>4. Shifted(body, 1, B, N, b)
    <3> SUFFICES ASSUME NEW k \in 1 .. B PROVE N[k + b] = body[k]
      BY DEF Shifted
    <3>1. k + b = b + k
      BY <1>4
    <3> QED
      BY <1>3, <3>1
  <2>5. /\ 1 \in Nat \ {0} /\ B \in Nat /\ B <= Len(body) /\ b \in Int /\ 1 + b >= 1
        /\ B + b <= Len(N)
    BY <1>4, <2>1
  <2>6. SubSeq(N, 1 + b, B + b) = SubSeq(body, 1, B)
    <3>1. PICK o : o = 1
      OBVIOUS
    <3>2. o \in Nat \ {0} /\ o + b >= 1 /\ Shifted(body, o, B, N, b)
      BY <2>4, <2>5, <3>1
    <3>3. SubSeq(N, o + b, B + b) = SubSeq(body, o, B)
      <4>1. PICK S, T : body \in Seq(S) /\ N \in Seq(T)
        BY <2>1
      <4>2. B \in Nat /\ B <= Len(body) /\ b \in Int /\ B + b <= Len(N)
        BY <2>5
      <4> QED
        BY <3>2, <4>1, <4>2, SameText
    <3> QED
      BY <3>1, <3>3
  <2>7. SubSeq(body, 1, Len(body)) = body
    BY <2>1, SubSeqFull
  <2>8. R[n][1] = mv(b) /\ R[n][2] = mv(e)
    BY <1>11, <2>2
  <2> QED
    BY <2>1, <2>3, <2>6, <2>7, <2>8 DEF In
<1>20. ASSUME NEW g \in 0 .. C PROVE Piece(N, R, g) = Piece(lines, P, g)
  <2>1. PICK a, z : a = From(P, g) /\ z = Till(lines, P, g)
    OBVIOUS
  <2>2. (g # 0 => g \in 1 .. C) /\ (g # C => g + 1 \in 1 .. C) /\ C \in Nat /\ n \in 1 .. C
    BY <1>1, <1>2
  <2>3. a = (IF g = 0 THEN 1 ELSE P[g][2]) /\ z = (IF g = C THEN L ELSE P[g + 1][1])
    BY <1>1, <2>1 DEF From, Till
  <2>4. /\ From(R, g) = (IF g = 0 THEN 1 ELSE R[g][2])
        /\ Till(N, R, g) = (IF g = C THEN Len(N) ELSE R[g + 1][1])
    BY <1>12 DEF From, Till
  <2>5. CASE g < n
    <3>1. g # C
      BY <2>2, <2>5
    <3>2. z = P[g + 1][1] /\ z \in Nat /\ z <= b
      <4>1. g + 1 < n \/ g + 1 = n
        BY <2>2, <2>5
      <4>2. /\ P[g + 1][1] \in Nat /\ P[g + 1][2] \in Nat /\ P[g + 1][1] < P[g + 1][2]
            /\ g + 1 < n => P[g + 1][2] < b
            /\ g + 1 = n => P[g + 1][1] = b
        BY <1>6, <2>2, <3>1
      <4>3. P[g + 1][1] <= b
        <5>1. PICK x, y : x = P[g + 1][1] /\ y = P[g + 1][2]
          OBVIOUS
        <5>2. x < b \/ x = b
          BY <1>5, <4>1, <4>2, <5>1
        <5> QED
          BY <1>5, <4>2, <5>1, <5>2
      <4> QED
        BY <2>3, <3>1, <4>2, <4>3
    <3>3. Till(N, R, g) = z
      <4>1. mv(z) = z
        BY <1>10, <3>2
      <4> QED
        BY <1>11, <2>2, <2>4, <3>1, <3>2, <4>1
    <3>4. From(R, g) = a /\ a \in Nat \ {0}
      <4>1. CASE g = 0
        BY <2>3, <2>4, <4>1
      <4>2. CASE g # 0
        <5>1. a = P[g][2] /\ a \in Nat /\ a < b /\ a # 0
          <6>1. P[g][1] \in Nat /\ P[g][2] \in Nat /\ P[g][1] < P[g][2] /\ P[g][2] < b
            BY <1>6, <2>2, <2>5, <4>2
          <6> QED
            BY <2>3, <4>2, <6>1
        <5>2. mv(a) = a
          <6>1. a <= b
            BY <1>5, <5>1
          <6> QED
            BY <1>10, <5>1, <6>1
        <5> QED
          BY <1>11, <2>2, <2>4, <4>2, <5>1, <5>2
      <4> QED
        BY <4>1, <4>2
    <3>5. SubSeq(N, a, z) = SubSeq(lines, a, z)
      BY <1>16, <3>2, <3>4
    <3> QED
      BY <2>1, <3>3, <3>4, <3>5 DEF Piece
  <2>6. CASE n <= g
    <3>1. g # 0 /\ g \in 1 .. C
      BY <2>2, <2>6
    <3>2. a = P[g][2] /\ a \in Nat /\ e <= a
      <4>1. n < g \/ n = g
        BY <2>2, <2>6
      <4>2. n < g => e < P[g][1] /\ P[g][1] < P[g][2] /\ P[g][1] \in Nat
        BY <1>6, <3>1
      <4>3. n = g => P[g][2] = e
        BY <1>6, <3>1
      <4>4. P[g][2] \in Nat
        BY <1>6, <3>1
      <4> QED
        BY <1>4, <2>3, <3>1, <4>1, <4>2, <4>3, <4>4
    <3>3. From(R, g) = a + d
      <4>1. mv(a) = a + d
        BY <1>10, <3>2
      <4> QED
        BY <1>11, <2>4, <3>1, <3>2, <4>1
    <3>4. Till(N, R, g) = z + d /\ z \in Nat /\ z <= L
      <4>1. CASE g = C
        BY <1>4, <2>3, <2>4, <4>1
      <4>2. CASE g # C
        <5>1. z = P[g + 1][1] /\ Till(N, R, g) = R[g + 1][1] /\ g + 1 \in 1 .. C
          BY <2>2, <2>3, <2>4, <4>2
        <5>2. n < g + 1
          BY <2>2, <2>6
        <5>3. e < z /\ z \in Nat /\ z <= L
          <6>1. /\ P[g + 1][1] \in Nat /\ P[g + 1][2] \in Nat /\ P[g + 1][1] < P[g + 1][2]
                /\ P[g + 1][2] <= L /\ e < P[g + 1][1]
            BY <1>6, <5>1, <5>2
          <6> QED
            BY <1>4, <5>1, <6>1
        <5>4. mv(z) = z + d
          <6>1. e <= z
            BY <1>4, <5>3
          <6> QED
            BY <1>10, <5>3, <6>1
        <5> QED
          BY <1>11, <5>1, <5>3, <5>4
      <4> QED
        BY <4>1, <4>2
    <3>5. SubSeq(N, a + d, z + d) = SubSeq(lines, a, z)
      BY <1>17, <3>2, <3>4
    <3> QED
      BY <2>1, <3>3, <3>4, <3>5 DEF Piece
  <2>7. g < n \/ n <= g
    BY <2>2
  <2> QED
    BY <2>5, <2>6, <2>7
<1> QED
  BY <1>1, <1>3, <1>12, <1>14, <1>15, <1>18, <1>19, <1>20

\* The bits are declared between markers only.
Fenced(lines) == \A k \in DOMAIN lines : DeclaresBit(lines[k]) => Between(lines, k)

\* A splice leaves the bits between markers.
LEMMA SpliceFenced ==
  ASSUME NEW lines, IsSeq(lines), Fenced(lines), NEW P, Regions(lines, P),
         NEW n \in 1 .. Len(P), NEW body, Plain(body)
  PROVE  Fenced(Splice(lines, P[n], body))
<1>1. PICK b, e, L, B, d, N :
        /\ b = P[n][1] /\ e = P[n][2] /\ L = Len(lines) /\ B = Len(body) /\ d = b + 1 + B - e
        /\ N = Splice(lines, P[n], body)
  OBVIOUS
<1>2. /\ P[n] = <<b, e>> /\ b \in Nat \ {0} /\ e \in Nat /\ b < e /\ e <= L /\ L \in Nat
      /\ B \in Nat /\ d \in Int /\ lines[b] = OPEN /\ lines[e] = CLOSE
  <2>1. B \in Nat
    BY <1>1 DEF Plain, IsSeq
  <2>2. L \in Nat
    BY <1>1, RegionFacts
  <2>3. /\ P[n] = <<P[n][1], P[n][2]>> /\ P[n][1] \in Nat /\ P[n][2] \in Nat
        /\ 1 <= P[n][1] /\ P[n][1] < P[n][2] /\ P[n][2] <= Len(lines)
        /\ lines[P[n][1]] = OPEN /\ lines[P[n][2]] = CLOSE
    BY RegionFacts
  <2> QED
    BY <1>1, <2>1, <2>2, <2>3
<1>3. Spliced(lines, b, e, body, N, d)
  <2>1. IsSeq(body) /\ N = Splice(lines, <<b, e>>, body) /\ e <= Len(lines)
    BY <1>1, <1>2 DEF Plain
  <2>2. Spliced(lines, b, e, body, N, b + 1 + Len(body) - e)
    BY <1>2, <2>1, SpliceIs
  <2> QED
    BY <1>1, <2>2
<1>4. /\ DOMAIN N = 1 .. Len(N) /\ Len(N) \in Nat /\ Len(N) = L + d
      /\ \A k \in 1 .. b : N[k] = lines[k]
      /\ \A k \in 1 .. B : N[b + k] = body[k]
      /\ \A k \in e .. L : N[k + d] = lines[k]
  BY <1>1, <1>3 DEF Spliced, IsSeq
<1>5. /\ b \in Nat \ {0} /\ e \in Nat /\ b < e /\ e <= L /\ L \in Nat /\ B \in Nat
      /\ d \in Int /\ d = b + 1 + B - e /\ Len(N) \in Nat /\ Len(N) = L + d
  BY <1>1, <1>2, <1>4
<1>6. DOMAIN lines = 1 .. L /\ DOMAIN body = 1 .. B
  BY <1>1 DEF IsSeq, Plain
<1>7. ASSUME NEW x \in 1 .. Len(N), DeclaresBit(N[x]) PROVE Between(N, x)
  <2>1. CASE x <= b
    <3>1. x \in 1 .. b /\ x \in 1 .. L
      BY <1>5, <2>1
    <3>2. DeclaresBit(lines[x])
      BY <1>4, <1>7, <3>1
    <3>3. PICK o \in 1 .. x - 1 : lines[o] = OPEN /\ \A j \in o .. x : lines[j] # CLOSE
      BY <1>6, <3>1, <3>2 DEF Fenced, Between
    <3>4. o \in 1 .. b /\ \A j \in o .. x : j \in 1 .. b
      BY <1>5, <3>1
    <3>5. N[o] = OPEN /\ \A j \in o .. x : N[j] # CLOSE
      BY <1>4, <3>3, <3>4
    <3> QED
      BY <3>5 DEF Between
  <2>2. CASE b < x /\ x <= b + B
    <3>1. N[b] = OPEN /\ b \in 1 .. x - 1
      <4>1. b \in 1 .. b /\ b \in 1 .. x - 1
        BY <1>5, <2>2
      <4> QED
        BY <1>2, <1>4, <4>1
    <3>2. ASSUME NEW j \in b .. x PROVE N[j] # CLOSE
      <4>1. CASE j = b
        BY <3>1, <4>1 DEF OPEN, CLOSE
      <4>2. CASE j # b
        <5>1. j - b \in 1 .. B /\ b + (j - b) = j
          BY <1>5, <2>2, <4>2
        <5>2. N[j] = body[j - b] /\ body[j - b] \notin {OPEN, CLOSE}
          BY <1>4, <1>6, <5>1 DEF Plain
        <5> QED
          BY <5>2
      <4> QED
        BY <4>1, <4>2
    <3> QED
      BY <3>1, <3>2 DEF Between
  <2>3. CASE b + B < x
    <3>1. PICK k : k = x - d
      OBVIOUS
    <3>2. k \in e .. L /\ x = k + d /\ k \in 1 .. L
      BY <1>5, <2>3, <3>1
    <3>3. DeclaresBit(lines[k])
      BY <1>4, <1>7, <3>2
    <3>4. PICK o \in 1 .. k - 1 : lines[o] = OPEN /\ \A j \in o .. k : lines[j] # CLOSE
      BY <1>6, <3>2, <3>3 DEF Fenced, Between
    <3>5. e < o
      <4>1. e \notin o .. k
        BY <1>2, <3>4
      <4> QED
        BY <1>5, <3>2, <4>1
    <3>6. o \in e .. L /\ o + d \in 1 .. x - 1
      BY <1>5, <3>2, <3>5
    <3>7. N[o + d] = OPEN
      BY <1>4, <3>4, <3>6
    <3>8. ASSUME NEW j \in o + d .. x PROVE N[j] # CLOSE
      <4>1. j - d \in o .. k /\ j - d \in e .. L /\ (j - d) + d = j
        BY <1>5, <3>2, <3>5
      <4>2. N[j] = lines[j - d]
        BY <1>4, <4>1
      <4> QED
        BY <3>4, <4>1, <4>2
    <3> QED
      BY <3>6, <3>7, <3>8 DEF Between
  <2> QED
    BY <1>5, <2>1, <2>2, <2>3
<1> QED
  BY <1>1, <1>4, <1>7 DEF Fenced

\* A killed write leaves a prefix.
LEMMA PrefixFenced ==
  ASSUME NEW lines, IsSeq(lines), Fenced(lines), NEW n \in 0 .. Len(lines) - 1
  PROVE  IsSeq(SubSeq(lines, 1, n)) /\ Fenced(SubSeq(lines, 1, n))
<1>1. PICK u : u = SubSeq(lines, 1, n)
  OBVIOUS
<1>2. lines \in Seq(ToSet(lines)) /\ Len(lines) \in Nat /\ n \in Nat /\ n <= Len(lines)
  BY DEF IsSeq
<1>3. u \in Seq(ToSet(lines)) /\ DOMAIN u = 1 .. n /\ \A k \in 1 .. n : u[k] = lines[k]
  BY <1>1, <1>2
<1>4. IsSeq(u)
  <2>1. Len(u) = n /\ u \in [1 .. n -> ToSet(u)]
    BY <1>2, <1>3 DEF ToSet
  <2> QED
    BY <1>2, <2>1 DEF IsSeq
<1>5. ASSUME NEW k \in 1 .. n, DeclaresBit(u[k]) PROVE Between(u, k)
  <2>1. k \in DOMAIN lines
    BY <1>2
  <2>2. PICK o \in 1 .. k - 1 : lines[o] = OPEN /\ \A j \in o .. k : lines[j] # CLOSE
    BY <1>3, <1>5, <2>1 DEF Fenced, Between
  <2>3. o \in 1 .. n /\ \A j \in o .. k : j \in 1 .. n
    BY <1>2
  <2> QED
    BY <1>3, <2>2, <2>3 DEF Between
<1> QED
  BY <1>1, <1>3, <1>4, <1>5 DEF Fenced

-----------------------------------------------------------------------------
(* A patch.                                                                 *)

\* N is the file with the pairs from n on patched.
PartPatched(lines, P, bodies, n, N) ==
  /\ IsSeq(N)
  /\ Fenced(lines) => Fenced(N)
  /\ \E R :
       /\ Regions(N, R) /\ Len(R) = Len(P)
       /\ \A m \in 1 .. n - 1 : R[m] = P[m]
       /\ \A m \in n .. Len(P) : In(N, R, m) = bodies[m]
       /\ \A g \in 0 .. Len(P) : Piece(N, R, g) = Piece(lines, P, g)

\* One more pair: the last that is not patched yet.
LEMMA PatchStep ==
  ASSUME NEW lines, NEW P, Len(P) \in Nat, NEW bodies, NEW n \in 1 .. Len(P),
         Plain(bodies[n]), NEW N, PartPatched(lines, P, bodies, n + 1, N)
  PROVE  PartPatched(lines, P, bodies, n, Splice(N, P[n], bodies[n]))
<1>1. PICK R :
        /\ Regions(N, R) /\ Len(R) = Len(P)
        /\ \A m \in 1 .. (n + 1) - 1 : R[m] = P[m]
        /\ \A m \in n + 1 .. Len(P) : In(N, R, m) = bodies[m]
        /\ \A g \in 0 .. Len(P) : Piece(N, R, g) = Piece(lines, P, g)
  BY DEF PartPatched
<1>2. IsSeq(N) /\ n \in 1 .. Len(R) /\ P[n] = R[n] /\ (Fenced(lines) => Fenced(N))
  BY <1>1 DEF PartPatched
<1>3. PICK M : M = Splice(N, R[n], bodies[n])
  OBVIOUS
<1>4. /\ IsSeq(M)
      /\ \E Q :
           /\ Regions(M, Q) /\ Len(Q) = Len(R)
           /\ \A m \in 1 .. n - 1 : Q[m] = R[m]
           /\ \A m \in 1 .. Len(R) : m # n => In(M, Q, m) = In(N, R, m)
           /\ In(M, Q, n) = bodies[n]
           /\ \A g \in 0 .. Len(R) : Piece(M, Q, g) = Piece(N, R, g)
  BY <1>1, <1>2, <1>3, SpliceKeeps
<1>5. PICK Q :
        /\ Regions(M, Q) /\ Len(Q) = Len(R)
        /\ \A m \in 1 .. n - 1 : Q[m] = R[m]
        /\ \A m \in 1 .. Len(R) : m # n => In(M, Q, m) = In(N, R, m)
        /\ In(M, Q, n) = bodies[n]
        /\ \A g \in 0 .. Len(R) : Piece(M, Q, g) = Piece(N, R, g)
  BY <1>4
<1>6. Fenced(lines) => Fenced(M)
  BY <1>1, <1>2, <1>3, SpliceFenced
<1>7. ASSUME NEW m \in 1 .. n - 1 PROVE Q[m] = P[m]
  <2>1. m \in 1 .. (n + 1) - 1
    OBVIOUS
  <2> QED
    BY <1>1, <1>5, <2>1
<1>8. ASSUME NEW m \in n .. Len(P) PROVE In(M, Q, m) = bodies[m]
  <2>1. m # n => m \in n + 1 .. Len(P) /\ m \in 1 .. Len(P)
    OBVIOUS
  <2> QED
    BY <1>1, <1>5, <2>1
<1>9. ASSUME NEW g \in 0 .. Len(P) PROVE Piece(M, Q, g) = Piece(lines, P, g)
  BY <1>1, <1>5
<1>10. PartPatched(lines, P, bodies, n, M)
  BY <1>1, <1>4, <1>5, <1>6, <1>7, <1>8, <1>9 DEF PartPatched
<1> QED
  BY <1>2, <1>3, <1>10

IsPatch(f, lines, bodies) ==
  LET pairs == find_tag_pairs(lines)
  IN  f = [n \in 1 .. Len(pairs) + 1 |->
             IF n = Len(pairs) + 1 THEN lines ELSE Splice(f[n + 1], pairs[n], bodies[n])]

\* The recursive function in Patched exists.
LEMMA PatchExists ==
  ASSUME NEW lines, NEW bodies, Len(find_tag_pairs(lines)) \in Nat
  PROVE  \E f : IsPatch(f, lines, bodies) /\ Patched(lines, bodies) = f[1]
<1> DEFINE P == find_tag_pairs(lines)
           L == Len(find_tag_pairs(lines)) + 1
           Val(g, n) == IF n = L THEN lines ELSE Splice(g[n + 1], P[n], bodies[n])
           S == {m \in Nat : m < L => \E g : \A n \in L - m .. L : g[n] = Val(g, n)}
<1>1. L \in Nat /\ L >= 1
  OBVIOUS
<1> HIDE DEF L, P
<1>2. 0 \in S
  <2>1. L - 0 .. L = {L}
    BY <1>1
  <2>2. [n \in {L} |-> lines][L] = Val([n \in {L} |-> lines], L)
    OBVIOUS
  <2> QED
    BY <2>1, <2>2
<1>3. ASSUME NEW m \in Nat, m \in S PROVE m + 1 \in S
  <2> SUFFICES ASSUME m + 1 < L
               PROVE  \E g : \A n \in L - (m + 1) .. L : g[n] = Val(g, n)
    OBVIOUS
  <2>1. PICK g : \A n \in L - m .. L : g[n] = Val(g, n)
    <3>1. m < L
      BY <1>1
    <3> QED
      BY <1>3, <3>1
  <2> DEFINE o == L - (m + 1)
             h == [n \in o .. L |-> IF n = o THEN Splice(g[o + 1], P[o], bodies[o]) ELSE g[n]]
  <2>2. o \in Nat /\ o < L /\ o + 1 \in o .. L /\ o \in o .. L /\ o + 1 # o
    BY <1>1
  <2>3. h[o] = Val(h, o)
    BY <2>2
  <2>4. ASSUME NEW n \in o .. L, n # o PROVE h[n] = Val(h, n)
    <3>1. n \in L - m .. L /\ h[n] = g[n]
      BY <1>1, <2>2, <2>4
    <3>2. n # L => h[n + 1] = g[n + 1]
      <4> SUFFICES ASSUME n # L PROVE h[n + 1] = g[n + 1]
        OBVIOUS
      <4>1. n + 1 \in o .. L /\ n + 1 # o
        BY <1>1, <2>2, <3>1
      <4> QED
        BY <4>1
    <3> QED
      BY <2>1, <3>1, <3>2
  <2> QED
    BY <2>3, <2>4
<1>4. \A m \in Nat : m \in S
  <2> HIDE DEF S
  <2> QED
    BY <1>2, <1>3, SetInduction
<1>5. PICK g : \A n \in 1 .. L : g[n] = Val(g, n)
  <2>1. L - 1 \in S /\ L - 1 < L /\ L - (L - 1) = 1
    <3> HIDE DEF S
    <3>1. L - 1 \in Nat /\ L - 1 < L /\ L - (L - 1) = 1
      BY <1>1
    <3> QED
      BY <1>4, <3>1
  <2> QED
    BY <2>1
<1>6. IsPatch([n \in 1 .. L |-> g[n]], lines, bodies)
  <2> DEFINE f == [n \in 1 .. L |-> g[n]]
  <2>1. ASSUME NEW n \in 1 .. L PROVE f[n] = Val(f, n)
    <3>1. n # L => n + 1 \in 1 .. L
      BY <1>1
    <3> QED
      BY <1>5, <3>1
  <2>2. f = [n \in 1 .. L |-> Val(f, n)]
    BY <2>1
  <2> QED
    BY <1>1, <2>2 DEF IsPatch, L, P
<1>7. Patched(lines, bodies) = (CHOOSE f : IsPatch(f, lines, bodies))[1]
  BY DEF Patched, IsPatch
<1> QED
  BY <1>6, <1>7

\* A patched file has the bodies between its markers and the rest as it was.
LEMMA PatchedKeeps ==
  ASSUME NEW lines, IsSeq(lines), ~RaisesRuntimeError(lines), NEW bodies,
         \A n \in 1 .. Len(find_tag_pairs(lines)) : Plain(bodies[n])
  PROVE  PartPatched(lines, find_tag_pairs(lines), bodies, 1, Patched(lines, bodies))
<1>1. PICK P : P = find_tag_pairs(lines)
  OBVIOUS
<1>2. Regions(lines, P) /\ Len(P) \in Nat
  BY <1>1, FoundAreRegions DEF Regions
<1>3. PICK f : IsPatch(f, lines, bodies) /\ Patched(lines, bodies) = f[1]
  BY <1>1, <1>2, PatchExists
<1> DEFINE L == Len(P) + 1
<1>4. L \in Nat /\ L >= 1
  BY <1>2
<1>5. ASSUME NEW n \in 1 .. L
      PROVE  f[n] = IF n = L THEN lines ELSE Splice(f[n + 1], P[n], bodies[n])
  BY <1>1, <1>3 DEF IsPatch
<1> DEFINE S == {m \in Nat : m < L => PartPatched(lines, P, bodies, L - m, f[L - m])}
<1>6. 0 \in S
  <2>1. f[L] = lines /\ L - 0 = L /\ L \in 1 .. L
    BY <1>4, <1>5
  <2>2. PartPatched(lines, P, bodies, L, lines)
    <3>1. L .. Len(P) = {}
      BY <1>2
    <3> QED
      BY <1>2, <3>1 DEF PartPatched
  <2> QED
    BY <2>1, <2>2
<1>7. ASSUME NEW m \in Nat, m \in S PROVE m + 1 \in S
  <2> SUFFICES ASSUME m + 1 < L
               PROVE  PartPatched(lines, P, bodies, L - (m + 1), f[L - (m + 1)])
    OBVIOUS
  <2>1. PICK n : n = L - (m + 1)
    OBVIOUS
  <2>2. n \in 1 .. Len(P) /\ n + 1 = L - m /\ n \in 1 .. L /\ n # L /\ m < L
    BY <1>2, <1>4, <2>1
  <2>3. PartPatched(lines, P, bodies, n + 1, f[n + 1])
    BY <1>7, <2>2
  <2>4. f[n] = Splice(f[n + 1], P[n], bodies[n])
    BY <1>5, <2>2
  <2>5. Plain(bodies[n])
    BY <1>1, <2>2
  <2>6. PartPatched(lines, P, bodies, n, f[n])
    BY <1>2, <2>2, <2>3, <2>4, <2>5, PatchStep
  <2> QED
    BY <2>1, <2>6
<1>8. \A m \in Nat : m \in S
  <2> HIDE DEF S
  <2> QED
    BY <1>6, <1>7, SetInduction
<1>9. L - 1 \in S /\ L - 1 \in Nat /\ L - 1 < L /\ L - (L - 1) = 1
  <2> HIDE DEF S
  <2>1. L - 1 \in Nat /\ L - 1 < L /\ L - (L - 1) = 1
    BY <1>4
  <2> QED
    BY <1>8, <2>1
<1> QED
  BY <1>1, <1>3, <1>9

\* The same in the terms of the specification.
LEMMA PatchedIsInStep ==
  ASSUME NEW lines, IsSeq(lines), ~RaisesRuntimeError(lines), NEW bodies, IsSeq(bodies),
         Len(bodies) = Len(find_tag_pairs(lines)), \A n \in DOMAIN bodies : Plain(bodies[n]),
         NEW N, N = Patched(lines, bodies)
  PROVE  /\ IsSeq(N) /\ (Fenced(lines) => Fenced(N))
         /\ ~RaisesRuntimeError(N)
         /\ Bodies(N) = bodies
         /\ HandWritten(N) = HandWritten(lines)
<1>1. PICK P : P = find_tag_pairs(lines)
  OBVIOUS
<1>2. Regions(lines, P) /\ Len(P) \in Nat /\ DOMAIN bodies = 1 .. Len(P)
  <2>1. Regions(lines, P)
    BY <1>1, FoundAreRegions
  <2>2. Len(P) \in Nat
    BY <2>1 DEF Regions
  <2>3. DOMAIN bodies = 1 .. Len(bodies)
    BY DEF IsSeq
  <2> QED
    BY <1>1, <2>1, <2>2, <2>3
<1>3. PartPatched(lines, P, bodies, 1, N)
  BY <1>1, <1>2, PatchedKeeps
<1>4. PICK R :
        /\ Regions(N, R) /\ Len(R) = Len(P)
        /\ \A m \in 1 .. Len(P) : In(N, R, m) = bodies[m]
        /\ \A g \in 0 .. Len(P) : Piece(N, R, g) = Piece(lines, P, g)
  BY <1>3 DEF PartPatched
<1>5. IsSeq(N) /\ (Fenced(lines) => Fenced(N))
  BY <1>3 DEF PartPatched
<1>6. ~RaisesRuntimeError(N) /\ find_tag_pairs(N) = R
  BY <1>4, <1>5, RegionsAreFound
<1>7. DOMAIN R = 1 .. Len(P)
  BY <1>4 DEF Regions
<1>8. Bodies(N) = bodies
  <2>1. Bodies(N) = [m \in 1 .. Len(P) |-> In(N, R, m)]
    BY <1>6, <1>7 DEF Bodies, In
  <2>2. bodies = [m \in 1 .. Len(P) |-> bodies[m]]
    BY <1>2 DEF IsSeq
  <2> QED
    BY <1>4, <2>1, <2>2
<1>9. HandWritten(N) = HandWritten(lines)
  <2>1. HandWritten(N) = [g \in 0 .. Len(R) |-> Piece(N, R, g)]
    BY <1>6 DEF HandWritten, Piece, From, Till
  <2>2. HandWritten(lines) = [g \in 0 .. Len(P) |-> Piece(lines, P, g)]
    BY <1>1 DEF HandWritten, Piece, From, Till
  <2> QED
    BY <1>4, <2>1, <2>2
<1> QED
  BY <1>5, <1>6, <1>8, <1>9

-----------------------------------------------------------------------------
(* What is generated has no markers.                                        *)

\* Lines none of which is tagged as a marker.
LEMMA PlainLines ==
  ASSUME NEW n \in Nat, NEW s, DOMAIN s = 1 .. n, s = [i \in 1 .. n |-> s[i]],
         \A i \in 1 .. n : s[i][1] \notin {"open", "close"}
  PROVE  Plain(s)
<1>1. Len(s) = n /\ s \in [1 .. n -> ToSet(s)]
  BY DEF ToSet
<1>2. IsSeq(s)
  BY <1>1 DEF IsSeq
<1>3. \A i \in 1 .. n : s[i] \notin {OPEN, CLOSE}
  BY DEF OPEN, CLOSE
<1> QED
  BY <1>2, <1>3 DEF Plain

\* u is s with t behind it.
Joined(s, t, u) ==
  /\ Len(s) \in Nat /\ Len(t) \in Nat /\ Len(u) = Len(s) + Len(t)
  /\ \A i \in 1 .. Len(s) : u[i] = s[i]
  /\ \A i \in 1 .. Len(t) : u[Len(s) + i] = t[i]
  /\ \A i \in 1 .. Len(s) + Len(t) :
       \/ i \in 1 .. Len(s) /\ u[i] = s[i]
       \/ \E j \in 1 .. Len(t) : i = Len(s) + j /\ u[i] = t[j]

\* Plain lines behind plain lines.
LEMMA PlainConcat ==
  ASSUME NEW s, Plain(s), NEW t, Plain(t)
  PROVE  Plain(s \o t) /\ Joined(s, t, s \o t)
<1> DEFINE S == ToSet(s) \cup ToSet(t)
<1>1. s \in Seq(S) /\ t \in Seq(S)
  <2>1. s \in Seq(ToSet(s)) /\ t \in Seq(ToSet(t))
    BY DEF Plain, IsSeq
  <2>2. ToSet(s) \subseteq S /\ ToSet(t) \subseteq S
    OBVIOUS
  <2> HIDE DEF S
  <2> QED
    BY <2>1, <2>2, SeqMonotonic
<1> HIDE DEF S
<1>2. PICK u : u = s \o t
  OBVIOUS
<1>3. /\ u \in Seq(S) /\ Len(u) = Len(s) + Len(t)
      /\ \A i \in 1 .. Len(s) + Len(t) : u[i] = IF i <= Len(s) THEN s[i] ELSE t[i - Len(s)]
  BY <1>1, <1>2, ConcatProperties
<1>4. Len(s) \in Nat /\ Len(t) \in Nat /\ DOMAIN s = 1 .. Len(s) /\ DOMAIN t = 1 .. Len(t)
      /\ DOMAIN u = 1 .. Len(s) + Len(t)
  BY <1>1, <1>3
<1>5. ASSUME NEW i \in 1 .. Len(s) PROVE u[i] = s[i]
  BY <1>3, <1>4
<1>6. ASSUME NEW i \in 1 .. Len(t) PROVE u[Len(s) + i] = t[i]
  <2>1. PICK j : j = Len(s) + i
    OBVIOUS
  <2>2. j \in 1 .. Len(s) + Len(t) /\ ~(j <= Len(s)) /\ j - Len(s) = i
    BY <1>4, <2>1
  <2> QED
    BY <1>3, <2>1, <2>2
<1>7. ASSUME NEW i \in 1 .. Len(s) + Len(t)
      PROVE  \/ i \in 1 .. Len(s) /\ u[i] = s[i]
             \/ \E j \in 1 .. Len(t) : i = Len(s) + j /\ u[i] = t[j]
  <2>1. CASE i <= Len(s)
    BY <1>4, <1>5, <2>1
  <2>2. CASE ~(i <= Len(s))
    <3>1. i - Len(s) \in 1 .. Len(t) /\ i = Len(s) + (i - Len(s))
      BY <1>4, <2>2
    <3> QED
      BY <1>3, <2>2, <3>1
  <2> QED
    BY <2>1, <2>2
<1>8. IsSeq(u)
  BY <1>3 DEF IsSeq, ToSet
<1>9. ASSUME NEW i \in DOMAIN u PROVE u[i] \notin {OPEN, CLOSE}
  BY <1>4, <1>7 DEF Plain
<1> QED
  BY <1>2, <1>3, <1>4, <1>5, <1>6, <1>7, <1>8, <1>9 DEF Plain, Joined

\* At lists as many as there are places.
LEMMA Listed ==
  ASSUME NEW s, NEW places, IsFiniteSet(places)
  PROVE  Cardinality(places) \in Nat /\ DOMAIN At(s, places) = 1 .. Cardinality(places)
  BY FS_CardinalityType DEF At

\* What the generators list is a sequence.
LEMMA NamesAreListed ==
  ASSUME NEW evs, IsSeq(evs)
  PROVE  /\ \A key : \E n \in Nat : DOMAIN filter_events(evs, key) = 1 .. n
         /\ \E n \in Nat : DOMAIN rtl(evs) = 1 .. n
         /\ \E n \in Nat : DOMAIN rtl_unique(evs) = 1 .. n
<1>1. ASSUME NEW t, NEW n \in Nat, DOMAIN t = 1 .. n, NEW places \in SUBSET DOMAIN t
      PROVE  \E m \in Nat : DOMAIN At(t, places) = 1 .. m
  <2>1. IsFiniteSet(1 .. n)
    BY FS_Interval
  <2>2. IsFiniteSet(places)
    BY <1>1, <2>1, FS_Subset
  <2> QED
    BY <2>2, Listed
<1>2. ASSUME NEW key PROVE \E n \in Nat : DOMAIN filter_events(evs, key) = 1 .. n
  <2>1. PICK places : places = {i \in DOMAIN evs : key \in evs[i].keys}
    OBVIOUS
  <2>2. DOMAIN evs = 1 .. Len(evs) /\ Len(evs) \in Nat /\ places \in SUBSET DOMAIN evs
    BY <2>1 DEF IsSeq
  <2>3. PICK n \in Nat : DOMAIN At(evs, places) = 1 .. n
    BY <1>1, <2>2
  <2>4. DOMAIN filter_events(evs, key) = DOMAIN At(evs, places)
    BY <2>1 DEF filter_events
  <2> QED
    BY <2>3, <2>4
<1>3. PICK n \in Nat : DOMAIN rtl(evs) = 1 .. n
  BY <1>2 DEF rtl
<1>4. \E m \in Nat : DOMAIN rtl_unique(evs) = 1 .. m
  <2>1. PICK places : /\ rtl_unique(evs) = At(rtl(evs), places)
                      /\ places \in SUBSET DOMAIN rtl(evs)
    BY DEF rtl_unique
  <2> QED
    BY <1>1, <1>3, <2>1
<1> QED
  BY <1>2, <1>3, <1>4

\* A list of names, and lines made from it.
Tagged(r, what) == [i \in DOMAIN r |-> <<what, r[i]>>]
Numbered(r, what) == [i \in DOMAIN r |-> <<what, r[i], i - 1>>]
JsonLines(r) == [i \in DOMAIN r |-> <<"JSON", r[i], i - 1 # Len(r) - 1>>]
TestLines(r) == [i \in DOMAIN r |-> <<"TEST_CSR", r[i], (i - 1) % CNTRS>>]

\* Lines made from names are plain.
LEMMA NamesMakePlain ==
  ASSUME NEW r, NEW n \in Nat, DOMAIN r = 1 .. n
  PROVE  /\ \A what : what \notin {"open", "close"} =>
              Plain(Tagged(r, what))
         /\ \A what : what \notin {"open", "close"} =>
              Plain(Numbered(r, what))
         /\ Plain(JsonLines(r))
         /\ Plain(TestLines(r))
<1>1. ASSUME NEW what, what \notin {"open", "close"}
      PROVE  Plain(Tagged(r, what))
  <2>1. PICK s : s = [i \in 1 .. n |-> <<what, r[i]>>]
    OBVIOUS
  <2>2. DOMAIN s = 1 .. n /\ s = [i \in 1 .. n |-> s[i]]
        /\ \A i \in 1 .. n : s[i][1] \notin {"open", "close"}
    BY <1>1, <2>1
  <2>3. Plain(s)
    BY <2>2, PlainLines
  <2> QED
    BY <2>1, <2>3 DEF Tagged
<1>2. ASSUME NEW what, what \notin {"open", "close"}
      PROVE  Plain(Numbered(r, what))
  <2>1. PICK s : s = [i \in 1 .. n |-> <<what, r[i], i - 1>>]
    OBVIOUS
  <2>2. DOMAIN s = 1 .. n /\ s = [i \in 1 .. n |-> s[i]]
        /\ \A i \in 1 .. n : s[i][1] \notin {"open", "close"}
    BY <1>2, <2>1
  <2>3. Plain(s)
    BY <2>2, PlainLines
  <2> QED
    BY <2>1, <2>3 DEF Numbered
<1>3. Plain(JsonLines(r))
  <2>1. PICK s : s = [i \in 1 .. n |-> <<"JSON", r[i], i - 1 # Len(r) - 1>>]
    OBVIOUS
  <2>2. DOMAIN s = 1 .. n /\ s = [i \in 1 .. n |-> s[i]]
        /\ \A i \in 1 .. n : s[i][1] \notin {"open", "close"}
    BY <2>1
  <2>3. Plain(s)
    BY <2>2, PlainLines
  <2> QED
    BY <2>1, <2>3 DEF JsonLines
<1>4. Plain(TestLines(r))
  <2>1. PICK s : s = [i \in 1 .. n |-> <<"TEST_CSR", r[i], (i - 1) % CNTRS>>]
    OBVIOUS
  <2>2. DOMAIN s = 1 .. n /\ s = [i \in 1 .. n |-> s[i]]
        /\ \A i \in 1 .. n : s[i][1] \notin {"open", "close"}
    BY <2>1
  <2>3. Plain(s)
    BY <2>2, PlainLines
  <2> QED
    BY <2>1, <2>3 DEF TestLines
<1> QED
  BY <1>1, <1>2, <1>3, <1>4

\* So is a single line that is no marker,
LEMMA OneLine ==
  ASSUME NEW l, l[1] \notin {"open", "close"}
  PROVE  Plain(<<l>>)
<1>1. PICK s : s = <<l>>
  OBVIOUS
<1>2. DOMAIN s = 1 .. 1 /\ s = [i \in 1 .. 1 |-> s[i]]
      /\ \A i \in 1 .. 1 : s[i][1] \notin {"open", "close"}
  BY <1>1
<1> QED
  BY <1>1, <1>2, PlainLines

\* and nothing.
LEMMA NoLine == Plain(<< >>)
  BY DEF Plain, IsSeq

\* gen_types_svh writes plain lines.
LEMMA TypesSvh ==
  ASSUME NEW evs, IsSeq(evs)
  PROVE  Plain(gen_types_svh(evs))
<1>1. PICK r, n : r = rtl(evs) /\ n \in Nat /\ DOMAIN r = 1 .. n
  BY NamesAreListed
<1>2. PICK a : a = Tagged(r, "logic") /\ Plain(a)
  BY <1>1, NamesMakePlain
<1>3. PICK b : b = << <<"MHPMEVENTS", Len(r)>> >> /\ Plain(b)
  BY OneLine
<1>4. PICK c : c = Numbered(r, "MHPMEVENT") /\ Plain(c)
  BY <1>1, NamesMakePlain
<1>5. PICK d : d = Tagged(r, "get_event") /\ Plain(d)
  BY <1>1, NamesMakePlain
<1>6. Plain(a \o b) /\ Plain((a \o b) \o c) /\ Plain(((a \o b) \o c) \o d)
  BY <1>2, <1>3, <1>4, <1>5, PlainConcat
<1> QED
  BY <1>1, <1>2, <1>3, <1>4, <1>5, <1>6 DEF gen_types_svh, Each, Tagged, Numbered

\* gen_tb_types_svh writes plain lines.
LEMMA TbTypesSvh ==
  ASSUME NEW evs, IsSeq(evs)
  PROVE  Plain(gen_tb_types_svh(evs))
<1>1. PICK r, n : r = rtl(evs) /\ n \in Nat /\ DOMAIN r = 1 .. n
  BY NamesAreListed
<1>2. PICK a : a = << <<"byte", "ret_inst">> >> /\ Plain(a)
  BY OneLine
<1>3. PICK b : b = Tagged(r, "byte") /\ Plain(b)
  BY <1>1, NamesMakePlain
<1>4. Plain(a \o b)
  BY <1>2, <1>3, PlainConcat
<1> QED
  BY <1>1, <1>2, <1>3, <1>4 DEF gen_tb_types_svh, Each, Tagged

\* gen_tb_sv writes plain lines.
LEMMA TbSv ==
  ASSUME NEW evs, IsSeq(evs)
  PROVE  Plain(gen_tb_sv(evs))
<1>1. PICK r, n : r = rtl(evs) /\ n \in Nat /\ DOMAIN r = 1 .. n
  BY NamesAreListed
<1>2. PICK a : a = << <<"assign", "ret_inst">> >> /\ Plain(a)
  BY OneLine
<1>3. PICK b : b = Tagged(r, "assign") /\ Plain(b)
  BY <1>1, NamesMakePlain
<1>4. Plain(a \o b)
  BY <1>2, <1>3, PlainConcat
<1> QED
  BY <1>1, <1>2, <1>3, <1>4 DEF gen_tb_sv, Each, Tagged

\* gen_core_stats_json_macro writes plain lines.
LEMMA JsonMacro ==
  ASSUME NEW evs, IsSeq(evs)
  PROVE  Plain(gen_core_stats_json_macro(evs))
<1>1. PICK r, n : r = rtl(evs) /\ n \in Nat /\ DOMAIN r = 1 .. n
  BY NamesAreListed
<1>2. PICK a : a = << <<"define", "", TRUE>> >> /\ Plain(a)
  BY OneLine
<1>3. PICK b : b = JsonLines(r) /\ Plain(b)
  BY <1>1, NamesMakePlain
<1>4. PICK c : c = << <<"blank">> >> /\ Plain(c)
  BY OneLine
<1>5. Plain(a \o b) /\ Plain((a \o b) \o c)
  BY <1>2, <1>3, <1>4, PlainConcat
<1> QED
  BY <1>1, <1>2, <1>3, <1>4, <1>5 DEF gen_core_stats_json_macro, Each, JsonLines

\* gen_core_stats_fields writes plain lines.
LEMMA StatsFields ==
  ASSUME NEW evs, IsSeq(evs)
  PROVE  Plain(gen_core_stats_fields(evs))
<1>1. PICK r, n : r = rtl(evs) /\ n \in Nat /\ DOMAIN r = 1 .. n
  BY NamesAreListed
<1>2. PICK a : a = << <<"field", "ret_inst">> >> /\ Plain(a)
  BY OneLine
<1>3. PICK b : b = Tagged(r, "field") /\ Plain(b)
  BY <1>1, NamesMakePlain
<1>4. Plain(a \o b)
  BY <1>2, <1>3, PlainConcat
<1> QED
  BY <1>1, <1>2, <1>3, <1>4 DEF gen_core_stats_fields, Each, Tagged

\* gen_core_stats_acc writes plain lines.
LEMMA StatsAcc ==
  ASSUME NEW evs, IsSeq(evs)
  PROVE  Plain(gen_core_stats_acc(evs))
<1>1. PICK r, n : r = rtl(evs) /\ n \in Nat /\ DOMAIN r = 1 .. n
  BY NamesAreListed
<1>2. PICK a : a = << <<"acc", "ret_inst">> >> /\ Plain(a)
  BY OneLine
<1>3. PICK b : b = Tagged(r, "acc") /\ Plain(b)
  BY <1>1, NamesMakePlain
<1>4. Plain(a \o b)
  BY <1>2, <1>3, PlainConcat
<1> QED
  BY <1>1, <1>2, <1>3, <1>4 DEF gen_core_stats_acc, Each, Tagged

\* gen_cosim_cpp writes plain lines.
LEMMA CosimCpp ==
  ASSUME NEW evs, IsSeq(evs)
  PROVE  Plain(gen_cosim_cpp(evs))
<1>1. PICK r, n : r = rtl(evs) /\ n \in Nat /\ DOMAIN r = 1 .. n
  BY NamesAreListed
<1>2. PICK a : a = << <<"SET_FLAG", "ret_inst">> >> /\ Plain(a)
  BY OneLine
<1>3. PICK b : b = Tagged(r, "SET_FLAG") /\ Plain(b)
  BY <1>1, NamesMakePlain
<1>4. Plain(a \o b)
  BY <1>2, <1>3, PlainConcat
<1> QED
  BY <1>1, <1>2, <1>3, <1>4 DEF gen_cosim_cpp, Each, Tagged

\* gen_common_h writes plain lines.
LEMMA CommonH ==
  ASSUME NEW evs, IsSeq(evs)
  PROVE  Plain(gen_common_h(evs))
<1>1. PICK r, n : r = rtl(evs) /\ n \in Nat /\ DOMAIN r = 1 .. n
  BY NamesAreListed
<1>2. PICK a : a = Numbered(r, "mhpmevent") /\ Plain(a)
  BY <1>1, NamesMakePlain
<1> QED
  BY <1>1, <1>2 DEF gen_common_h, Each, Numbered

\* gen_zihpm_test writes plain lines.
LEMMA ZihpmTest ==
  ASSUME NEW evs, IsSeq(evs)
  PROVE  Plain(gen_zihpm_test(evs))
<1>1. PICK r, n : r = rtl(evs) /\ n \in Nat /\ DOMAIN r = 1 .. n
  BY NamesAreListed
<1>2. PICK a : a = TestLines(r) /\ Plain(a)
  BY <1>1, NamesMakePlain
<1> QED
  BY <1>1, <1>2 DEF gen_zihpm_test, Each, TestLines

\* The simulator's enum and tables.
LEMMA PassPlain ==
  ASSUME NEW evs, IsSeq(evs), NEW what, what \notin {"open", "close"}, NEW unique \in BOOLEAN
  PROVE  Plain(Pass(evs, what, unique))
<1>1. PICK a : a = << <<what, "ret_inst">> >> /\ Plain(a)
  BY OneLine
<1>2. PICK b : b = Tagged(filter_events(evs, "isa_sim"), what) /\ Plain(b)
  BY NamesAreListed, NamesMakePlain
<1>3. PICK c : c = << <<"if HW_MODELS_EN">> >> /\ Plain(c)
  BY OneLine
<1>4. PICK d : /\ d = Tagged(filter_events(evs, "isa_sim_hw_model"), what)
               /\ Plain(d)
  BY NamesAreListed, NamesMakePlain
<1>5. PICK e : e = << <<"endif">> >> /\ Plain(e)
  BY OneLine
<1>6. PICK f : f = << <<"if DPI">> >> /\ Plain(f)
  BY OneLine
<1>7. PICK g : g = Tagged(rtl_unique(evs), what) /\ Plain(g)
  BY NamesAreListed, NamesMakePlain
<1>8. PICK h : h = << <<what, "cycle">>, <<"endif">> >> /\ Plain(h)
  <2>1. PICK h : h = << <<what, "cycle">>, <<"endif">> >>
    OBVIOUS
  <2>2. DOMAIN h = 1 .. 2 /\ h = [i \in 1 .. 2 |-> h[i]]
        /\ \A i \in 1 .. 2 : h[i][1] \notin {"open", "close"}
    BY <2>1
  <2>3. Plain(h)
    BY <2>2, PlainLines
  <2> QED
    BY <2>1, <2>3
<1>9. PICK u : u = (IF unique THEN (f \o g) \o h ELSE << >>) /\ Plain(u)
  BY <1>6, <1>7, <1>8, NoLine, PlainConcat
<1>10. Plain(((((a \o b) \o c) \o d) \o e) \o u)
  BY <1>1, <1>2, <1>3, <1>4, <1>5, <1>9, PlainConcat
<1>11. Pass(evs, what, unique) = ((((a \o b) \o c) \o d) \o e) \o u
  BY <1>1, <1>2, <1>3, <1>4, <1>5, <1>6, <1>7, <1>8, <1>9 DEF Pass, Each, Tagged
<1> QED
  BY <1>10, <1>11

\* The bodies of every file.
LEMMA GeneratedPlain ==
  ASSUME NEW evs, IsSeq(evs), NEW f \in ToSet(FILES)
  PROVE  /\ IsSeq(TARGETS(evs)[f])
         /\ \A n \in DOMAIN TARGETS(evs)[f] : Plain(TARGETS(evs)[f][n])
<1>1. Plain(gen_types_h(evs)) /\ Plain(gen_main_cpp(evs))
  <2>1. Plain(Pass(evs, "enum", TRUE)) /\ Plain(Pass(evs, "name", TRUE))
        /\ Plain(Pass(evs, "map", FALSE))
    BY PassPlain
  <2> QED
    BY <2>1, PlainConcat DEF gen_types_h, gen_main_cpp
<1>2. ASSUME NEW s, Plain(s)
      PROVE  IsSeq(<<s>>) /\ \A n \in DOMAIN <<s>> : Plain(<<s>>[n])
  <2>1. <<s>> \in Seq(ToSet(<<s>>))
    BY DEF ToSet
  <2>2. DOMAIN <<s>> = {1} /\ <<s>>[1] = s
    OBVIOUS
  <2> QED
    BY <1>2, <2>1, <2>2 DEF IsSeq
<1>3. ASSUME NEW s, NEW t, NEW u, Plain(s), Plain(t), Plain(u)
      PROVE  IsSeq(<<s, t, u>>) /\ \A n \in DOMAIN <<s, t, u>> : Plain(<<s, t, u>>[n])
  <2>1. <<s, t, u>> \in Seq(ToSet(<<s, t, u>>))
    BY DEF ToSet
  <2>2. DOMAIN <<s, t, u>> = {1, 2, 3} /\ <<s, t, u>>[1] = s /\ <<s, t, u>>[2] = t
        /\ <<s, t, u>>[3] = u
    OBVIOUS
  <2> QED
    BY <1>3, <2>1, <2>2 DEF IsSeq
<1>4. f \in {"types.svh", "tb_types.svh", "tb.sv", "core_stats.h", "cosim.cpp", "types.h",
             "main.cpp", "common.h", "zihpm_test"}
  BY DEF FILES, ToSet
<1>5. CASE f = "core_stats.h"
  <2>1. TARGETS(evs)[f] = <<gen_core_stats_json_macro(evs), gen_core_stats_fields(evs),
                            gen_core_stats_acc(evs)>>
    BY <1>5 DEF TARGETS
  <2> QED
    BY <1>3, <2>1, JsonMacro, StatsFields, StatsAcc
<1>6. CASE f # "core_stats.h"
  <2>1. \E s : Plain(s) /\ TARGETS(evs)[f] = <<s>>
    <3>1. CASE f = "types.svh"
      <4>1. TARGETS(evs)[f] = <<gen_types_svh(evs)>>
        BY <3>1 DEF TARGETS
      <4> QED
        BY <4>1, TypesSvh
    <3>2. CASE f = "tb_types.svh"
      <4>1. TARGETS(evs)[f] = <<gen_tb_types_svh(evs)>>
        BY <3>2 DEF TARGETS
      <4> QED
        BY <4>1, TbTypesSvh
    <3>3. CASE f = "tb.sv"
      <4>1. TARGETS(evs)[f] = <<gen_tb_sv(evs)>>
        BY <3>3 DEF TARGETS
      <4> QED
        BY <4>1, TbSv
    <3>4. CASE f = "cosim.cpp"
      <4>1. TARGETS(evs)[f] = <<gen_cosim_cpp(evs)>>
        BY <3>4 DEF TARGETS
      <4> QED
        BY <4>1, CosimCpp
    <3>5. CASE f = "types.h"
      <4>1. TARGETS(evs)[f] = <<gen_types_h(evs)>>
        BY <3>5 DEF TARGETS
      <4> QED
        BY <4>1, <1>1
    <3>6. CASE f = "main.cpp"
      <4>1. TARGETS(evs)[f] = <<gen_main_cpp(evs)>>
        BY <3>6 DEF TARGETS
      <4> QED
        BY <4>1, <1>1
    <3>7. CASE f = "common.h"
      <4>1. TARGETS(evs)[f] = <<gen_common_h(evs)>>
        BY <3>7 DEF TARGETS
      <4> QED
        BY <4>1, CommonH
    <3>8. CASE f = "zihpm_test"
      <4>1. TARGETS(evs)[f] = <<gen_zihpm_test(evs)>>
        BY <3>8 DEF TARGETS
      <4> QED
        BY <4>1, ZihpmTest
    <3> QED
      BY <1>4, <1>6, <3>1, <3>2, <3>3, <3>4, <3>5, <3>6, <3>7, <3>8
  <2> QED
    BY <1>2, <2>1
<1> QED
  BY <1>5, <1>6

-----------------------------------------------------------------------------
(* The runs.                                                                *)

\* What every file is at all times, half written or not.
Whole(lines) == IsSeq(lines) /\ Fenced(lines)

\* A file has what the loaded events generate.
InStep(f) ==
  /\ f \in DOMAIN tree /\ ~RaisesRuntimeError(tree[f])
  /\ Bodies(tree[f]) = TARGETS(events)[f]

AutogenTypes ==
  /\ config \in Configs /\ events \in Configs \cup {<< >>}
  /\ auto \in {"idle", "patching", "writing", "exited"}
  /\ at \in Nat \ {0} /\ any_error \in BOOLEAN /\ code \in {0, 1}
  /\ \A f \in DOMAIN tree : Whole(tree[f])

\* While a file is empty on disk, the run holds its lines, and they can be patched.
WriteInFlight ==
  auto = "writing" =>
    /\ at <= Len(FILES) /\ Target \in DOMAIN tree
    /\ Whole(original) /\ ~RaisesRuntimeError(original)
    /\ Len(find_tag_pairs(original)) = Len(TARGETS(events)[Target])

\* A run that has met no error left all files behind it in step.
DoneAreInStep ==
  /\ auto \in {"patching", "writing"} /\ ~any_error =>
       \A i \in DOMAIN FILES : i < at => InStep(FILES[i])
  /\ Success => \A i \in DOMAIN FILES : InStep(FILES[i])

AutogenInductive == AutogenTypes /\ WriteInFlight /\ DoneAreInStep

\* There are nine files, no two the same.
LEMMA FilesDistinct ==
  /\ DOMAIN FILES = 1 .. 9 /\ Len(FILES) = 9
  /\ \A i \in DOMAIN FILES : FILES[i] \in ToSet(FILES)
  /\ \A f \in ToSet(FILES) : \E i \in DOMAIN FILES : f = FILES[i]
  /\ \A i, j \in DOMAIN FILES : FILES[i] = FILES[j] => i = j
<1>1. DOMAIN FILES = 1 .. 9 /\ Len(FILES) = 9
  BY DEF FILES
<1>2. \A i \in DOMAIN FILES : FILES[i] \in ToSet(FILES)
  BY DEF ToSet
<1>3. \A f \in ToSet(FILES) : \E i \in DOMAIN FILES : f = FILES[i]
  BY DEF ToSet
<1>4. ASSUME NEW i \in 1 .. 9, NEW j \in 1 .. 9, FILES[i] = FILES[j] PROVE i = j
  <2>1. i \in {1, 2, 3, 4, 5, 6, 7, 8, 9} /\ j \in {1, 2, 3, 4, 5, 6, 7, 8, 9}
    OBVIOUS
  <2> QED
    BY <1>4, <2>1 DEF FILES
<1> QED
  BY <1>1, <1>2, <1>3, <1>4

\* The events a run has loaded are a sequence.
LEMMA EventsAreSequences ==
  ASSUME AutogenTypes
  PROVE  IsSeq(events)
<1>1. IsSeq(<< >>)
  BY DEF IsSeq
<1> QED
  BY <1>1, AutogenAssumption DEF AutogenTypes, IsSeq

\* What a file has once it is patched.
LEMMA PatchOfFile ==
  ASSUME AutogenTypes, NEW f \in ToSet(FILES), NEW lines, Whole(lines),
         ~RaisesRuntimeError(lines),
         Len(find_tag_pairs(lines)) = Len(TARGETS(events)[f]),
         NEW N, N = Patched(lines, TARGETS(events)[f])
  PROVE  /\ Whole(N) /\ ~RaisesRuntimeError(N)
         /\ Bodies(N) = TARGETS(events)[f]
         /\ HandWritten(N) = HandWritten(lines)
<1>1. PICK bodies : bodies = TARGETS(events)[f]
  OBVIOUS
<1>2. IsSeq(bodies) /\ \A n \in DOMAIN bodies : Plain(bodies[n])
  BY <1>1, EventsAreSequences, GeneratedPlain
<1>3. Len(bodies) = Len(find_tag_pairs(lines)) /\ N = Patched(lines, bodies)
  BY <1>1
<1>4. IsSeq(lines) /\ Fenced(lines)
  BY DEF Whole
<1> QED
  BY <1>1, <1>2, <1>3, <1>4, PatchedIsInStep DEF Whole

\* The invariant holds at first,
LEMMA AutogenInvariantInit == AutogenInit => AutogenInductive
<1> SUFFICES ASSUME AutogenInit PROVE AutogenInductive
  OBVIOUS
<1>1. \A f \in DOMAIN tree : Whole(tree[f])
  BY AutogenAssumption DEF AutogenInit, Whole, IsSeq, Fenced
<1>2. AutogenTypes
  <2>1. any_error \in BOOLEAN
    BY Zenon DEF AutogenInit
  <2>2. /\ config \in Configs /\ events \in Configs \cup {<< >>}
        /\ auto \in {"idle", "patching", "writing", "exited"}
        /\ at \in Nat \ {0} /\ code \in {0, 1}
    BY DEF AutogenInit
  <2> QED
    BY <1>1, <2>1, <2>2 DEF AutogenTypes
<1> QED
  BY <1>2 DEF AutogenInit, AutogenInductive, WriteInFlight, DoneAreInStep, Success

\* The files keep their state where neither tree nor events change.
LEMMA TreeKept ==
  ASSUME UNCHANGED <<tree, events>>
  PROVE  /\ \A f : InStep(f)' <=> InStep(f)
         /\ (\A f \in DOMAIN tree : Whole(tree[f])) => \A f \in DOMAIN tree' : Whole(tree'[f])
  BY DEF InStep

\* and every step keeps it: a run loads the list of events,
LEMMA LoadKeeps == AutogenInductive /\ load_perf_events => AutogenInductive'
<1> SUFFICES ASSUME AutogenInductive, load_perf_events PROVE AutogenInductive'
  OBVIOUS
<1>1. AutogenTypes'
  <2>1. any_error' \in BOOLEAN
    BY Zenon DEF load_perf_events
  <2>2. /\ config' \in Configs /\ events' \in Configs \cup {<< >>}
        /\ auto' \in {"idle", "patching", "writing", "exited"}
        /\ at' \in Nat \ {0} /\ code' \in {0, 1} /\ tree' = tree
    BY DEF AutogenInductive, AutogenTypes, load_perf_events
  <2> QED
    BY <2>1, <2>2 DEF AutogenInductive, AutogenTypes
<1>2. WriteInFlight' /\ DoneAreInStep'
  BY FilesDistinct DEF load_perf_events, WriteInFlight, DoneAreInStep, Success
<1> QED
  BY <1>1, <1>2 DEF AutogenInductive

\* or refuses it;
LEMMA LoadFailsKeeps == AutogenInductive /\ LoadFails => AutogenInductive'
<1> SUFFICES ASSUME AutogenInductive, LoadFails PROVE AutogenInductive'
  OBVIOUS
<1>1. AutogenTypes'
  BY DEF AutogenInductive, AutogenTypes, LoadFails
<1>2. WriteInFlight' /\ DoneAreInStep'
  BY DEF LoadFails, WriteInFlight, DoneAreInStep, Success
<1> QED
  BY <1>1, <1>2 DEF AutogenInductive

\* a file that cannot be patched makes the run fail;
LEMMA SkipKeeps == AutogenInductive /\ SkipTarget => AutogenInductive'
<1> SUFFICES ASSUME AutogenInductive, SkipTarget PROVE AutogenInductive'
  OBVIOUS
<1>1. AutogenTypes'
  BY DEF AutogenInductive, AutogenTypes, SkipTarget, Patching
<1>2. WriteInFlight' /\ DoneAreInStep'
  BY DEF SkipTarget, Patching, WriteInFlight, DoneAreInStep, Success
<1> QED
  BY <1>1, <1>2 DEF AutogenInductive

\* A file at which the run is.
LEMMA TargetIsFile ==
  ASSUME AutogenTypes, at <= Len(FILES)
  PROVE  at \in DOMAIN FILES /\ Target = FILES[at] /\ Target \in ToSet(FILES)
<1>1. at \in 1 .. 9
  BY FilesDistinct DEF AutogenTypes
<1> QED
  BY <1>1, FilesDistinct DEF Target

\* a file that the patch does not change is in step already;
LEMMA LeaveKeeps == AutogenInductive /\ LeaveUnchanged => AutogenInductive'
<1> SUFFICES ASSUME AutogenInductive, LeaveUnchanged PROVE AutogenInductive'
  OBVIOUS
<1>1. /\ auto = "patching" /\ at <= Len(FILES) /\ Target \in DOMAIN tree /\ ~OutOfSync(Target)
      /\ NewLines = tree[Target] /\ at' = at + 1
      /\ UNCHANGED <<config, tree, auto, events, any_error, code>>
  BY DEF LeaveUnchanged, Patches, Patching
<1>2. AutogenTypes /\ DoneAreInStep
  BY DEF AutogenInductive
<1>3. AutogenTypes'
  BY <1>1, <1>2 DEF AutogenTypes
<1>4. WriteInFlight'
  BY <1>1 DEF WriteInFlight
<1>5. InStep(Target)
  <2>1. Whole(tree[Target]) /\ Target \in ToSet(FILES)
    BY <1>1, <1>2, TargetIsFile DEF AutogenTypes
  <2>2. Bodies(NewLines) = TARGETS(events)[Target]
    BY <1>1, <1>2, <2>1, PatchOfFile DEF OutOfSync, NewLines
  <2> QED
    BY <1>1, <2>2 DEF InStep, OutOfSync
<1>6. DoneAreInStep'
  <2>1. \A f : InStep(f)' <=> InStep(f)
    BY <1>1, TreeKept
  <2>2. ASSUME ~any_error, NEW i \in DOMAIN FILES, i < at + 1 PROVE InStep(FILES[i])
    <3>1. i < at \/ i = at
      BY <1>2, <2>2, FilesDistinct DEF AutogenTypes
    <3> QED
      BY <1>1, <1>2, <1>5, <2>2, <3>1 DEF DoneAreInStep, Target
  <2> QED
    BY <1>1, <2>1, <2>2 DEF DoneAreInStep, Success
<1> QED
  BY <1>3, <1>4, <1>6 DEF AutogenInductive

\* Writing one file leaves the others.
LEMMA OthersKept ==
  ASSUME UNCHANGED events, NEW f, NEW x, tree' = [tree EXCEPT ![f] = x], NEW g, g # f
  PROVE  InStep(g)' <=> InStep(g)
  BY DEF InStep

\* a file that is opened is not one behind the run;
LEMMA OpenKeeps == AutogenInductive /\ OpenForWriting => AutogenInductive'
<1> SUFFICES ASSUME AutogenInductive, OpenForWriting PROVE AutogenInductive'
  OBVIOUS
<1>1. /\ auto = "patching" /\ at <= Len(FILES) /\ Target \in DOMAIN tree /\ ~OutOfSync(Target)
      /\ auto' = "writing" /\ original' = tree[Target]
      /\ tree' = [tree EXCEPT ![Target] = << >>]
      /\ UNCHANGED <<config, events, at, any_error, code>>
  BY DEF OpenForWriting, Patches, Patching
<1>2. AutogenTypes /\ DoneAreInStep
  BY DEF AutogenInductive
<1>3. AutogenTypes'
  <2>1. Whole(<< >>)
    BY DEF Whole, IsSeq, Fenced
  <2>2. \A f \in DOMAIN tree' : Whole(tree'[f])
    BY <1>1, <1>2, <2>1 DEF AutogenTypes
  <2> QED
    BY <1>1, <1>2, <2>2 DEF AutogenTypes
<1>4. WriteInFlight'
  BY <1>1, <1>2 DEF WriteInFlight, AutogenTypes, OutOfSync, Target
<1>5. DoneAreInStep'
  <2>1. ASSUME ~any_error, NEW i \in DOMAIN FILES, i < at PROVE InStep(FILES[i])'
    <3>1. FILES[i] # Target
      BY <1>1, <1>2, <2>1, TargetIsFile, FilesDistinct DEF AutogenTypes
    <3>2. InStep(FILES[i])
      BY <1>1, <1>2, <2>1 DEF DoneAreInStep
    <3> QED
      BY <1>1, <3>1, <3>2, OthersKept
  <2> QED
    BY <1>1, <2>1 DEF DoneAreInStep, Success
<1> QED
  BY <1>3, <1>4, <1>5 DEF AutogenInductive

\* What is written.
LEMMA WrittenIsInStep ==
  ASSUME AutogenInductive, auto = "writing"
  PROVE  /\ Whole(Written) /\ ~RaisesRuntimeError(Written)
         /\ Bodies(Written) = TARGETS(events)[Target]
         /\ HandWritten(Written) = HandWritten(original)
         /\ Target \in DOMAIN tree /\ at \in DOMAIN FILES /\ Target = FILES[at]
<1>1. AutogenTypes /\ WriteInFlight
  BY DEF AutogenInductive
<1>2. at \in DOMAIN FILES /\ Target = FILES[at] /\ Target \in ToSet(FILES)
  BY <1>1, TargetIsFile DEF WriteInFlight
<1> QED
  BY <1>1, <1>2, PatchOfFile DEF WriteInFlight, Written

\* a file that is written is in step, the others as they were;
LEMMA WriteKeeps == AutogenInductive /\ Write => AutogenInductive'
<1> SUFFICES ASSUME AutogenInductive, Write PROVE AutogenInductive'
  OBVIOUS
<1>1. /\ auto = "writing" /\ auto' = "patching" /\ at' = at + 1
      /\ tree' = [tree EXCEPT ![Target] = Written]
      /\ UNCHANGED <<config, events, any_error, code>>
  BY DEF Write
<1>2. AutogenTypes /\ DoneAreInStep
  BY DEF AutogenInductive
<1>3. /\ Whole(Written) /\ ~RaisesRuntimeError(Written)
      /\ Bodies(Written) = TARGETS(events)[Target]
      /\ Target \in DOMAIN tree /\ at \in DOMAIN FILES /\ Target = FILES[at]
  BY <1>1, WrittenIsInStep
<1>4. AutogenTypes'
  <2>1. \A f \in DOMAIN tree' : Whole(tree'[f])
    BY <1>1, <1>2, <1>3 DEF AutogenTypes
  <2> QED
    BY <1>1, <1>2, <2>1 DEF AutogenTypes
<1>5. WriteInFlight'
  BY <1>1 DEF WriteInFlight
<1>6. DoneAreInStep'
  <2>1. ASSUME ~any_error, NEW i \in DOMAIN FILES, i < at + 1 PROVE InStep(FILES[i])'
    <3>1. CASE i = at
      <4>1. tree'[FILES[at]] = Written /\ FILES[at] \in DOMAIN tree'
        BY <1>1, <1>3
      <4> QED
        BY <1>1, <1>3, <3>1, <4>1 DEF InStep
    <3>2. CASE i < at
      <4>1. FILES[i] # Target
        BY <1>2, <1>3, <3>2, FilesDistinct DEF AutogenTypes
      <4>2. InStep(FILES[i])
        BY <1>1, <1>2, <2>1, <3>2 DEF DoneAreInStep
      <4> QED
        BY <1>1, <4>1, <4>2, OthersKept
    <3> QED
      BY <1>2, <2>1, <3>1, <3>2, FilesDistinct DEF AutogenTypes
  <2> QED
    BY <1>1, <2>1 DEF DoneAreInStep, Success
<1> QED
  BY <1>4, <1>5, <1>6 DEF AutogenInductive

\* at the end all nine have been behind the run;
LEMMA ExitKeeps == AutogenInductive /\ AutogenExit => AutogenInductive'
<1> SUFFICES ASSUME AutogenInductive, AutogenExit PROVE AutogenInductive'
  OBVIOUS
<1>1. /\ auto = "patching" /\ at > Len(FILES) /\ auto' = "exited"
      /\ code' = (IF any_error THEN 1 ELSE 0)
      /\ UNCHANGED <<config, tree, events, at, any_error>>
  BY DEF AutogenExit
<1>2. AutogenTypes /\ DoneAreInStep
  BY DEF AutogenInductive
<1>3. AutogenTypes'
  BY <1>1, <1>2 DEF AutogenTypes
<1>4. WriteInFlight'
  BY <1>1 DEF WriteInFlight
<1>5. DoneAreInStep'
  <2>1. ASSUME ~any_error, NEW i \in DOMAIN FILES PROVE InStep(FILES[i])'
    <3>1. i < at
      BY <1>1, <1>2, FilesDistinct DEF AutogenTypes
    <3>2. InStep(FILES[i])
      BY <1>1, <1>2, <2>1, <3>1 DEF DoneAreInStep
    <3> QED
      BY <1>1, <3>2, TreeKept
  <2>2. code' = 0 => ~any_error
    BY <1>1
  <2> QED
    BY <1>1, <2>1, <2>2 DEF DoneAreInStep, Success
<1> QED
  BY <1>3, <1>4, <1>5 DEF AutogenInductive

\* a run killed between two files promises nothing;
LEMMA KillBetweenKeeps == AutogenInductive /\ KillBetween => AutogenInductive'
<1> SUFFICES ASSUME AutogenInductive, KillBetween PROVE AutogenInductive'
  OBVIOUS
<1>1. AutogenTypes'
  <2>1. any_error' \in BOOLEAN
    BY Zenon DEF KillBetween, Killed
  <2>2. /\ config' \in Configs /\ events' \in Configs \cup {<< >>}
        /\ auto' \in {"idle", "patching", "writing", "exited"}
        /\ at' \in Nat \ {0} /\ code' \in {0, 1} /\ tree' = tree
    BY DEF AutogenInductive, AutogenTypes, KillBetween, Killed
  <2> QED
    BY <2>1, <2>2 DEF AutogenInductive, AutogenTypes
<1>2. WriteInFlight' /\ DoneAreInStep'
  BY DEF KillBetween, Killed, WriteInFlight, DoneAreInStep, Success
<1> QED
  BY <1>1, <1>2 DEF AutogenInductive

\* one killed in a file leaves a prefix, without bits outside of markers;
LEMMA KillWritingKeeps == AutogenInductive /\ KillWriting => AutogenInductive'
<1> SUFFICES ASSUME AutogenInductive, KillWriting PROVE AutogenInductive'
  OBVIOUS
<1>1. PICK n \in 0 .. Len(Written) - 1 :
        tree' = [tree EXCEPT ![Target] = SubSeq(Written, 1, n)]
  BY DEF KillWriting
<1>2. /\ auto = "writing" /\ auto' = "idle" /\ events' = << >> /\ at' = 1 /\ any_error' = FALSE
      /\ UNCHANGED <<config, code>>
  BY DEF KillWriting, Killed
<1>3. Whole(SubSeq(Written, 1, n))
  BY <1>2, WrittenIsInStep, PrefixFenced DEF Whole
<1>4. AutogenTypes'
  <2>1. \A f \in DOMAIN tree' : Whole(tree'[f])
    BY <1>1, <1>3 DEF AutogenInductive, AutogenTypes
  <2>2. any_error' \in BOOLEAN
    BY <1>2, Zenon
  <2>3. /\ config' \in Configs /\ events' \in Configs \cup {<< >>}
        /\ auto' \in {"idle", "patching", "writing", "exited"}
        /\ at' \in Nat \ {0} /\ code' \in {0, 1}
    BY <1>2 DEF AutogenInductive, AutogenTypes
  <2> QED
    BY <2>1, <2>2, <2>3 DEF AutogenTypes
<1>5. WriteInFlight' /\ DoneAreInStep'
  BY <1>2 DEF WriteInFlight, DoneAreInStep, Success
<1> QED
  BY <1>4, <1>5 DEF AutogenInductive

\* a new run has loaded nothing;
LEMMA StartAgainKeeps == AutogenInductive /\ StartAgain => AutogenInductive'
<1> SUFFICES ASSUME AutogenInductive, StartAgain PROVE AutogenInductive'
  OBVIOUS
<1>1. AutogenTypes'
  <2>1. any_error' \in BOOLEAN
    BY Zenon DEF StartAgain
  <2>2. /\ config' \in Configs /\ events' \in Configs \cup {<< >>}
        /\ auto' \in {"idle", "patching", "writing", "exited"}
        /\ at' \in Nat \ {0} /\ code' \in {0, 1} /\ tree' = tree
    BY DEF AutogenInductive, AutogenTypes, StartAgain
  <2> QED
    BY <2>1, <2>2 DEF AutogenInductive, AutogenTypes
<1>2. WriteInFlight' /\ DoneAreInStep'
  BY DEF StartAgain, WriteInFlight, DoneAreInStep, Success
<1> QED
  BY <1>1, <1>2 DEF AutogenInductive

\* an edit of the list does not touch what the run has loaded.
LEMMA EditKeeps == AutogenInductive /\ EditConfig => AutogenInductive'
<1> SUFFICES ASSUME AutogenInductive, EditConfig PROVE AutogenInductive'
  OBVIOUS
<1>1. UNCHANGED <<tree, auto, events, at, any_error, code, original>> /\ config' \in Configs
  BY DEF EditConfig
<1>2. AutogenTypes'
  BY <1>1 DEF AutogenInductive, AutogenTypes
<1>3. WriteInFlight'
  BY <1>1 DEF AutogenInductive, WriteInFlight, Target
<1>4. DoneAreInStep'
  BY <1>1, TreeKept DEF AutogenInductive, DoneAreInStep, Success
<1> QED
  BY <1>2, <1>3, <1>4 DEF AutogenInductive

\* A step of something else changes none of this.
LEMMA AutogenStutters == AutogenInductive /\ UNCHANGED avars => AutogenInductive'
<1> SUFFICES ASSUME AutogenInductive, UNCHANGED avars PROVE AutogenInductive'
  OBVIOUS
<1>1. UNCHANGED <<config, tree, auto, events, at, any_error, code, original>>
  BY DEF avars
<1>2. AutogenTypes'
  BY <1>1 DEF AutogenInductive, AutogenTypes
<1>3. WriteInFlight'
  BY <1>1 DEF AutogenInductive, WriteInFlight, Target
<1>4. DoneAreInStep'
  BY <1>1, TreeKept DEF AutogenInductive, DoneAreInStep, Success
<1> QED
  BY <1>2, <1>3, <1>4 DEF AutogenInductive

\* The invariant: every file is a sequence of lines with its bits between markers, a
\* run that writes a file holds its lines, a run without an error has left the files
\* behind it in step (main, patch_file).
THEOREM AutogenInvariant == AutogenSpec => []AutogenInductive
<1>1. AutogenInductive /\ [AutogenNext]_avars => AutogenInductive'
  BY LoadKeeps, LoadFailsKeeps, SkipKeeps, LeaveKeeps, OpenKeeps, WriteKeeps, ExitKeeps,
     KillBetweenKeeps, KillWritingKeeps, StartAgainKeeps, EditKeeps, AutogenStutters
     DEF AutogenNext
<1> QED
  BY <1>1, AutogenInvariantInit, PTL DEF AutogenSpec

\* A patch keeps the hand-written text and puts each body between its own markers, for
\* files with any number of markers and bodies of any length (patch_file).
THEOREM PatchKeepsHandWritten == AutogenSpec => HandWrittenKept
<1> DEFINE Kept == auto = "writing" /\ auto' = "patching" =>
                     /\ HandWritten(tree'[Target]) = HandWritten(original)
                     /\ Bodies(tree'[Target]) = TARGETS(events)[Target]
<1>1. AutogenInductive /\ [AutogenNext]_avars => [Kept]_avars
  <2> SUFFICES ASSUME AutogenInductive, [AutogenNext]_avars, auto = "writing",
                      auto' = "patching"
               PROVE  /\ HandWritten(tree'[Target]) = HandWritten(original)
                      /\ Bodies(tree'[Target]) = TARGETS(events)[Target]
    OBVIOUS
  <2>1. Write
    BY DEF AutogenNext, avars, load_perf_events, LoadFails, SkipTarget, LeaveUnchanged,
           OpenForWriting, Patches, Patching, AutogenExit, KillBetween, KillWriting, Killed,
           StartAgain, EditConfig
  <2>2. tree'[Target] = Written
    BY <2>1, WrittenIsInStep DEF Write
  <2> QED
    BY <2>2, WrittenIsInStep
<1> QED
  BY <1>1, AutogenInvariant, PTL DEF AutogenSpec, HandWrittenKept

\* Exit code 0 means that all nine files hold what the loaded events generate, whatever
\* runs were killed before (main).
THEOREM SuccessIsInStep == AutogenSpec => []SuccessMeansInStep
<1>1. AutogenInductive => SuccessMeansInStep
  BY FilesDistinct DEF AutogenInductive, DoneAreInStep, SuccessMeansInStep, InStep
<1> QED
  BY <1>1, AutogenInvariant, PTL

-----------------------------------------------------------------------------
(* The encodings.                                                           *)

\* The lines of two parts.
LEMMA ToSetOfConcat ==
  ASSUME NEW s, Plain(s), NEW t, Plain(t)
  PROVE  ToSet(s \o t) = ToSet(s) \cup ToSet(t)
<1>1. PICK u, m, n : u = s \o t /\ m = Len(s) /\ n = Len(t)
  OBVIOUS
<1>2. /\ Plain(u) /\ m \in Nat /\ n \in Nat /\ Len(u) = m + n
      /\ \A i \in 1 .. m : u[i] = s[i]
      /\ \A i \in 1 .. n : u[m + i] = t[i]
      /\ \A i \in 1 .. Len(u) : \/ i \in 1 .. m /\ u[i] = s[i]
                                \/ \E j \in 1 .. n : i = m + j /\ u[i] = t[j]
  <2>1. Plain(u) /\ Joined(s, t, u)
    BY <1>1, PlainConcat
  <2> QED
    BY <1>1, <2>1 DEF Joined
<1>3. DOMAIN u = 1 .. m + n /\ DOMAIN s = 1 .. m /\ DOMAIN t = 1 .. n
  BY <1>1, <1>2 DEF Plain, IsSeq
<1>4. ASSUME NEW x \in ToSet(u) PROVE x \in ToSet(s) \cup ToSet(t)
  BY <1>2, <1>3 DEF ToSet
<1>5. ASSUME NEW x \in ToSet(s) PROVE x \in ToSet(u)
  <2>1. PICK i \in 1 .. m : x = s[i]
    BY <1>3 DEF ToSet
  <2>2. i \in 1 .. m + n /\ u[i] = x
    BY <1>2, <2>1
  <2> QED
    BY <1>3, <2>2 DEF ToSet
<1>6. ASSUME NEW x \in ToSet(t) PROVE x \in ToSet(u)
  <2>1. PICK i \in 1 .. n : x = t[i]
    BY <1>3 DEF ToSet
  <2>2. m + i \in 1 .. m + n /\ u[m + i] = x
    BY <1>2, <2>1
  <2> QED
    BY <1>3, <2>2 DEF ToSet
<1> QED
  BY <1>1, <1>4, <1>5, <1>6

\* The bits of a file are those of its body.
LEMMA BitsOfBody ==
  ASSUME NEW lines, Whole(lines), ~RaisesRuntimeError(lines),
         NEW body, Bodies(lines) = <<body>>, NEW what \in {"MHPMEVENT", "mhpmevent"}
  PROVE  /\ {x \in ToSet(lines) : x[1] = what} = {x \in ToSet(body) : x[1] = what}
         /\ ToSet(body) \subseteq ToSet(lines)
<1>1. PICK P : P = find_tag_pairs(lines)
  OBVIOUS
<1>2. IsSeq(lines) /\ Fenced(lines) /\ Regions(lines, P)
  BY <1>1, FoundAreRegions DEF Whole
<1>3. DOMAIN P = {1} /\ body = SubSeq(lines, P[1][1] + 1, P[1][2] - 1)
  <2>1. DOMAIN Bodies(lines) = DOMAIN P
    BY <1>1 DEF Bodies
  <2>2. DOMAIN <<body>> = {1} /\ <<body>>[1] = body
    OBVIOUS
  <2>3. 1 \in DOMAIN P => Bodies(lines)[1] = SubSeq(lines, P[1][1] + 1, P[1][2] - 1)
    BY <1>1 DEF Bodies
  <2> QED
    BY <2>1, <2>2, <2>3
<1>4. PICK b, e, L : b = P[1][1] /\ e = P[1][2] /\ L = Len(lines)
  OBVIOUS
<1>5. /\ b \in Nat \ {0} /\ e \in Nat /\ b < e /\ e <= L /\ L \in Nat
      /\ lines[b] = OPEN /\ lines[e] = CLOSE
  <2>1. Len(P) \in Nat /\ DOMAIN P = 1 .. Len(P)
    BY <1>2 DEF Regions
  <2>2. 1 \in 1 .. Len(P)
    BY <1>3, <2>1
  <2> QED
    BY <1>2, <1>4, <2>2, RegionFacts
<1>6. \A k \in Opens(lines) : k = b
  BY <1>2, <1>3, <1>4 DEF Regions
<1>7. lines \in Seq(ToSet(lines)) /\ DOMAIN lines = 1 .. L
  BY <1>2, <1>4 DEF IsSeq
<1>8. /\ DOMAIN body = 1 .. e - 1 - b
      /\ \A i \in 1 .. e - 1 - b : body[i] = lines[b + i]
  <2>1. PICK p, q : p = b + 1 /\ q = e - 1
    OBVIOUS
  <2>2. p \in Int /\ q \in Int /\ p >= 1 /\ q <= L /\ body = SubSeq(lines, p, q)
    <3>1. body = SubSeq(lines, p, q)
      BY <1>3, <1>4, <2>1
    <3>2. p \in Int /\ q \in Int /\ p >= 1 /\ q <= L
      BY <1>5, <2>1
    <3> QED
      BY <3>1, <3>2
  <2>3. \A i \in p .. q : lines[i] \in ToSet(lines)
    BY <1>5, <1>7, <2>1, <2>2 DEF ToSet
  <2>4. /\ body \in Seq(ToSet(lines)) /\ Len(body) = (IF p <= q THEN q - p + 1 ELSE 0)
        /\ \A i \in 1 .. q - p + 1 : body[i] = lines[p + i - 1]
    BY <2>2, <2>3, SubSeqProperties
  <2>5. q - p + 1 = e - 1 - b /\ (~(p <= q) => e - 1 - b = 0)
    BY <1>5, <2>1
  <2>6. DOMAIN body = 1 .. e - 1 - b
    BY <1>5, <2>2, <2>4, <2>5
  <2>7. ASSUME NEW i \in 1 .. e - 1 - b PROVE body[i] = lines[b + i]
    <3>1. p + i - 1 = b + i /\ i \in 1 .. q - p + 1
      BY <1>5, <2>1
    <3> QED
      BY <2>4, <3>1
  <2> QED
    BY <2>6, <2>7
<1>9. ASSUME NEW x \in ToSet(body) PROVE x \in ToSet(lines)
  <2>1. PICK i \in 1 .. e - 1 - b : x = body[i]
    BY <1>8 DEF ToSet
  <2>2. b + i \in 1 .. L
    BY <1>5
  <2> QED
    BY <1>7, <1>8, <2>1, <2>2 DEF ToSet
<1>10. ASSUME NEW x \in ToSet(lines), x[1] = what PROVE x \in ToSet(body)
  <2>1. PICK k \in 1 .. L : x = lines[k]
    BY <1>7 DEF ToSet
  <2>2. DeclaresBit(lines[k])
    BY <1>10, <2>1 DEF DeclaresBit
  <2>3. PICK o \in 1 .. k - 1 : lines[o] = OPEN /\ \A j \in o .. k : lines[j] # CLOSE
    BY <1>2, <1>7, <2>1, <2>2 DEF Fenced, Between
  <2>4. o = b
    <3>1. o \in 1 .. L
      BY <1>5
    <3> QED
      BY <1>6, <1>7, <2>3, <3>1 DEF Opens
  <2>5. k < e
    <3>1. e \notin b .. k
      BY <1>5, <2>3, <2>4
    <3> QED
      BY <1>5, <3>1
  <2>6. k - b \in 1 .. e - 1 - b /\ b + (k - b) = k
    BY <1>5, <2>4, <2>5
  <2>7. body[k - b] = x
    BY <1>8, <2>1, <2>6
  <2> QED
    BY <1>8, <2>6, <2>7 DEF ToSet
<1> QED
  BY <1>9, <1>10

\* The bits in what is generated: those of the RTL events, in their order.
LEMMA BitsGenerated ==
  ASSUME NEW evs, IsSeq(evs)
  PROVE  \E n \in Nat : \E r :
           /\ {x \in ToSet(gen_types_svh(evs)) : x[1] = "MHPMEVENT"}
                = {<<"MHPMEVENT", r[i], i - 1>> : i \in 1 .. n}
           /\ {x \in ToSet(gen_common_h(evs)) : x[1] = "mhpmevent"}
                = {<<"mhpmevent", r[i], i - 1>> : i \in 1 .. n}
           /\ <<"MHPMEVENTS", n>> \in ToSet(gen_types_svh(evs))
<1>1. PICK r, n : r = rtl(evs) /\ n \in Nat /\ DOMAIN r = 1 .. n
  BY NamesAreListed
<1>2. PICK a : a = Tagged(r, "logic") /\ Plain(a)
  BY <1>1, NamesMakePlain
<1>3. PICK b : b = << <<"MHPMEVENTS", Len(r)>> >> /\ Plain(b)
  BY OneLine
<1>4. PICK c : c = Numbered(r, "MHPMEVENT") /\ Plain(c)
  BY <1>1, NamesMakePlain
<1>5. PICK d : d = Tagged(r, "get_event") /\ Plain(d)
  BY <1>1, NamesMakePlain
<1>6. ToSet(((a \o b) \o c) \o d) = ((ToSet(a) \cup ToSet(b)) \cup ToSet(c)) \cup ToSet(d)
  <2>1. Plain(a \o b) /\ Plain((a \o b) \o c)
    BY <1>2, <1>3, <1>4, PlainConcat
  <2> QED
    BY <1>2, <1>3, <1>4, <1>5, <2>1, ToSetOfConcat
<1>7. gen_types_svh(evs) = ((a \o b) \o c) \o d
  BY <1>1, <1>2, <1>3, <1>4, <1>5 DEF gen_types_svh, Each, Tagged, Numbered
<1>8. /\ \A x \in ToSet(a) : x[1] = "logic"
      /\ \A x \in ToSet(d) : x[1] = "get_event"
  BY <1>2, <1>5 DEF ToSet, Tagged
<1>9. ToSet(b) = {<<"MHPMEVENTS", n>>}
  <2>1. Len(r) = n
    BY <1>1
  <2> QED
    BY <1>3, <2>1 DEF ToSet
<1>10. /\ ToSet(c) = {<<"MHPMEVENT", r[i], i - 1>> : i \in 1 .. n}
       /\ \A x \in ToSet(c) : x[1] = "MHPMEVENT"
  BY <1>1, <1>4 DEF ToSet, Numbered
<1>11. PICK g : g = Numbered(r, "mhpmevent")
  OBVIOUS
<1>12. gen_common_h(evs) = g
  BY <1>1, <1>11 DEF gen_common_h, Each, Numbered
<1>13. /\ ToSet(g) = {<<"mhpmevent", r[i], i - 1>> : i \in 1 .. n}
       /\ \A x \in ToSet(g) : x[1] = "mhpmevent"
  BY <1>1, <1>11 DEF ToSet, Numbered
<1>14. {x \in ToSet(gen_types_svh(evs)) : x[1] = "MHPMEVENT"} = ToSet(c)
  BY <1>6, <1>7, <1>8, <1>9, <1>10
<1>15. {x \in ToSet(gen_common_h(evs)) : x[1] = "mhpmevent"} = ToSet(g)
  BY <1>12, <1>13
<1>16. <<"MHPMEVENTS", n>> \in ToSet(gen_types_svh(evs))
  BY <1>6, <1>7, <1>9
<1>17. /\ {x \in ToSet(gen_types_svh(evs)) : x[1] = "MHPMEVENT"}
            = {<<"MHPMEVENT", r[i], i - 1>> : i \in 1 .. n}
       /\ {x \in ToSet(gen_common_h(evs)) : x[1] = "mhpmevent"}
            = {<<"mhpmevent", r[i], i - 1>> : i \in 1 .. n}
  BY <1>10, <1>13, <1>14, <1>15, Zenon
<1>18. n \in Nat
  BY <1>1
<1> WITNESS n \in Nat
<1> WITNESS r
<1> QED
  BY <1>16, <1>17

\* After a run that succeeds the RTL and the software have the same bit for every
\* event, no two share one, and the enum has the width they need (gen_types_svh,
\* gen_common_h).
THEOREM EncodingsAlwaysAgree == AutogenSpec => []EncodingsAgree
<1>1. AutogenInductive => EncodingsAgree
  <2> SUFFICES ASSUME AutogenInductive, Success
               PROVE  LET hw == Bits("types.svh", "MHPMEVENT")
                      IN  /\ Bits("common.h", "mhpmevent") = hw
                          /\ \A x, y \in hw : x[2] = y[2] => x = y
                          /\ <<"MHPMEVENTS", Cardinality(hw)>> \in ToSet(tree["types.svh"])
                          /\ \A x \in hw : x[2] < Cardinality(hw)
    BY DEF EncodingsAgree
  <2>1. IsSeq(events) /\ \A f \in DOMAIN tree : Whole(tree[f])
    BY EventsAreSequences DEF AutogenInductive, AutogenTypes
  <2>2. InStep("types.svh") /\ InStep("common.h")
    <3>1. 1 \in DOMAIN FILES /\ 8 \in DOMAIN FILES /\ FILES[1] = "types.svh"
          /\ FILES[8] = "common.h"
      BY DEF FILES
    <3>2. InStep(FILES[1]) /\ InStep(FILES[8])
      BY <3>1 DEF AutogenInductive, DoneAreInStep
    <3> QED
      BY <3>1, <3>2
  <2>3. /\ TARGETS(events)["types.svh"] = <<gen_types_svh(events)>>
        /\ TARGETS(events)["common.h"] = <<gen_common_h(events)>>
    <3>1. "types.svh" \in ToSet(FILES) /\ "common.h" \in ToSet(FILES)
      <4>1. 1 \in DOMAIN FILES /\ 8 \in DOMAIN FILES /\ FILES[1] = "types.svh"
            /\ FILES[8] = "common.h"
        BY DEF FILES
      <4> QED
        BY <4>1 DEF ToSet
    <3> QED
      BY <3>1 DEF TARGETS
  <2>4. PICK n \in Nat : \E r :
           /\ {x \in ToSet(gen_types_svh(events)) : x[1] = "MHPMEVENT"}
                = {<<"MHPMEVENT", r[i], i - 1>> : i \in 1 .. n}
           /\ {x \in ToSet(gen_common_h(events)) : x[1] = "mhpmevent"}
                = {<<"mhpmevent", r[i], i - 1>> : i \in 1 .. n}
           /\ <<"MHPMEVENTS", n>> \in ToSet(gen_types_svh(events))
    BY <2>1, BitsGenerated
  <2>5. PICK r :
           /\ {x \in ToSet(gen_types_svh(events)) : x[1] = "MHPMEVENT"}
                = {<<"MHPMEVENT", r[i], i - 1>> : i \in 1 .. n}
           /\ {x \in ToSet(gen_common_h(events)) : x[1] = "mhpmevent"}
                = {<<"mhpmevent", r[i], i - 1>> : i \in 1 .. n}
           /\ <<"MHPMEVENTS", n>> \in ToSet(gen_types_svh(events))
    BY <2>4
  <2>6. /\ {x \in ToSet(tree["types.svh"]) : x[1] = "MHPMEVENT"}
             = {x \in ToSet(gen_types_svh(events)) : x[1] = "MHPMEVENT"}
        /\ ToSet(gen_types_svh(events)) \subseteq ToSet(tree["types.svh"])
    BY <2>1, <2>2, <2>3, BitsOfBody DEF InStep
  <2>7. {x \in ToSet(tree["common.h"]) : x[1] = "mhpmevent"}
          = {x \in ToSet(gen_common_h(events)) : x[1] = "mhpmevent"}
    BY <2>1, <2>2, <2>3, BitsOfBody DEF InStep
  <2> DEFINE bit(i) == <<r[i], i - 1>>
             hw == {bit(i) : i \in 1 .. n}
  <2>8. Bits("types.svh", "MHPMEVENT") = hw
    <3>1. Bits("types.svh", "MHPMEVENT")
            = {<<l[2], l[3]>> : l \in {<<"MHPMEVENT", r[i], i - 1>> : i \in 1 .. n}}
      BY <2>5, <2>6 DEF Bits
    <3>2. ASSUME NEW i \in 1 .. n
          PROVE  LET l == <<"MHPMEVENT", r[i], i - 1>> IN <<l[2], l[3]>> = bit(i)
      OBVIOUS
    <3>3. {<<l[2], l[3]>> : l \in {<<"MHPMEVENT", r[i], i - 1>> : i \in 1 .. n}} = hw
      <4> DEFINE line(i) == <<"MHPMEVENT", r[i], i - 1>>
      <4>1. \A i \in 1 .. n : <<line(i)[2], line(i)[3]>> = bit(i)
        BY <3>2
      <4> HIDE DEF line, bit
      <4>2. {<<l[2], l[3]>> : l \in {line(i) : i \in 1 .. n}} = hw
        BY <4>1
      <4> QED
        BY <4>2 DEF line
    <3> QED
      BY <3>1, <3>3
  <2>9. Bits("common.h", "mhpmevent") = hw
    <3>1. Bits("common.h", "mhpmevent")
            = {<<l[2], l[3]>> : l \in {<<"mhpmevent", r[i], i - 1>> : i \in 1 .. n}}
      BY <2>5, <2>7 DEF Bits
    <3>2. ASSUME NEW i \in 1 .. n
          PROVE  LET l == <<"mhpmevent", r[i], i - 1>> IN <<l[2], l[3]>> = bit(i)
      OBVIOUS
    <3>3. {<<l[2], l[3]>> : l \in {<<"mhpmevent", r[i], i - 1>> : i \in 1 .. n}} = hw
      <4> DEFINE line(i) == <<"mhpmevent", r[i], i - 1>>
      <4>1. \A i \in 1 .. n : <<line(i)[2], line(i)[3]>> = bit(i)
        BY <3>2
      <4> HIDE DEF line, bit
      <4>2. {<<l[2], l[3]>> : l \in {line(i) : i \in 1 .. n}} = hw
        BY <4>1
      <4> QED
        BY <4>2 DEF line
    <3> QED
      BY <3>1, <3>3
  <2>10. \A i, j \in 1 .. n : bit(i)[2] = bit(j)[2] => i = j
    OBVIOUS
  <2>11. Cardinality(hw) = n
    <3>1. IsFiniteSet(1 .. n) /\ Cardinality(1 .. n) = n
      <4>1. Cardinality(1 .. n) = IF 1 > n THEN 0 ELSE n - 1 + 1
        BY FS_Interval
      <4> QED
        BY <4>1, FS_Interval
    <3>2. [i \in 1 .. n |-> bit(i)] \in Bijection(1 .. n, hw)
      <4> DEFINE h == [i \in 1 .. n |-> bit(i)]
      <4>1. h \in [1 .. n -> hw]
        OBVIOUS
      <4>2. \A i, j \in 1 .. n : h[i] = h[j] => i = j
        BY <2>10
      <4>3. \A x \in hw : \E i \in 1 .. n : h[i] = x
        OBVIOUS
      <4> HIDE DEF h, hw
      <4>4. h \in Bijection(1 .. n, hw)
        BY <4>1, <4>2, <4>3 DEF Bijection, Injection, Surjection, IsInjective
      <4> QED
        BY <4>4 DEF h
    <3>3. ExistsBijection(1 .. n, hw)
      BY <3>2 DEF ExistsBijection
    <3> HIDE DEF hw
    <3> QED
      BY <3>1, <3>3, FS_Bijection
  <2>12. \A x \in hw : x[2] < n
    OBVIOUS
  <2>13. \A x, y \in hw : x[2] = y[2] => x = y
    BY <2>10
  <2>14. <<"MHPMEVENTS", n>> \in ToSet(tree["types.svh"])
    BY <2>5, <2>6
  <2> HIDE DEF hw
  <2> QED
    BY <2>8, <2>9, <2>11, <2>12, <2>13, <2>14
<1> QED
  BY <1>1, AutogenInvariant, PTL

=============================================================================
