-------------------------- MODULE NbdExportProofs --------------------------
(***************************************************************************)
(* Whatever the disc, its files, the cache and the number of connections:  *)
(* the disc below an export has one user at a time, and a reply carries    *)
(* what was asked for, as fresh as the request.                            *)
(***************************************************************************)
EXTENDS NbdExport, WellFoundedInduction, TLAPS

-----------------------------------------------------------------------------
(* The index of the files (file_readahead_source.c: find_containing_extent). *)

\* r is the first of the positions low .. high - 1 that is in a set, or high.
IsFirst(positions, low, high, r) ==
    /\ r \in low .. high
    /\ \A i \in low .. r - 1 : i \notin positions
    /\ r < high => r \in positions

\* A set of natural numbers has a least element.
LEMMA LeastOf ==
  ASSUME NEW S, S \subseteq Nat, S # {}
  PROVE  \E s \in S : \A t \in S : s <= t
  <1>2. \E s \in S : \A t \in S : ~(<<t, s>> \in OpToRel(<, Nat))
    BY NatLessThanWellFounded, WFMin
  <1>3. \A s, t \in Nat : ~(<<t, s>> \in OpToRel(<, Nat)) => s <= t
    BY DEF OpToRel
  <1> QED BY <1>2, <1>3

\* There is a first one, or there is none.
LEMMA SomeFirst ==
  ASSUME NEW positions, NEW low \in Nat, NEW high \in Nat, low <= high
  PROVE  \E r \in low .. high : IsFirst(positions, low, high, r)
  <1> DEFINE S == {i \in low .. high - 1 : i \in positions}
  <1>1. CASE S = {}
    <2>1. IsFirst(positions, low, high, high)
      BY <1>1 DEF IsFirst
    <2> QED BY <2>1
  <1>2. CASE S # {}
    <2>1. S \subseteq Nat
      OBVIOUS
    <2>2. PICK r \in S : \A i \in S : r <= i
      <3> HIDE DEF S
      <3> QED BY <1>2, <2>1, LeastOf
    <2>3. IsFirst(positions, low, high, r)
      <3>1. r \in low .. high - 1 /\ r \in positions
        OBVIOUS
      <3>2. ASSUME NEW i \in low .. r - 1, i \in positions PROVE FALSE
        <4>1. i \in S
          BY <3>1, <3>2
        <4> QED BY <2>2, <3>1, <4>1
      <3> QED BY <3>1, <3>2 DEF IsFirst
    <2> QED BY <2>3 DEF IsFirst
  <1> QED BY <1>1, <1>2

First(positions, low, high) == CHOOSE r : IsFirst(positions, low, high, r)

\* What First names is the first.
LEMMA FirstIsFirst ==
  ASSUME NEW positions, NEW low \in Nat, NEW high \in Nat, low <= high
  PROVE  IsFirst(positions, low, high, First(positions, low, high))
  <1>1. \E r : IsFirst(positions, low, high, r)
    BY SomeFirst
  <1> QED BY <1>1 DEF First

\* Half of a window lies in it.
LEMMA Halving ==
  ASSUME NEW l \in Nat, NEW h \in Nat, l < h
  PROVE  l + (h - l) \div 2 \in l .. h - 1
  BY SMTT(20)

\* The loop that halves its window finds the first position in the set, if every
\* position behind one that is in the set is in it too: the function that names
\* the first position of each window solves the recursion, so the search is a
\* solution of it, and a narrowest window it would answer wrongly cannot exist.
LEMMA SearchFindsFirst ==
  ASSUME NEW positions, NEW low \in Nat, NEW high \in Nat, low <= high,
         \A i \in low .. high - 1 : \A j \in i .. high - 1 : i \in positions => j \in positions
  PROVE  IsFirst(positions, low, high, FirstWhere(positions, low, high))
  <1> DEFINE half(l, h) == l + (h - l) \div 2
             Windows == (low .. high) \X (low .. high)
             Solves(f) == f = [w \in Windows |->
               IF w[1] >= w[2] THEN w[1]
               ELSE IF half(w[1], w[2]) \in positions THEN f[<<w[1], half(w[1], w[2])>>]
                    ELSE f[<<half(w[1], w[2]) + 1, w[2]>>]]
             first(l, h) == First(positions, l, h)
             g == [w \in Windows |-> IF w[1] >= w[2] THEN w[1] ELSE first(w[1], w[2])]
             found == CHOOSE f : Solves(f)
  <1>1. \A l, h \in low .. high : l < h => half(l, h) \in l .. h - 1
    BY Halving
  <1> HIDE DEF half
  <1>2. \A l, h \in low .. high : l <= h => IsFirst(positions, l, h, first(l, h))
    BY FirstIsFirst
  <1>3. ASSUME NEW l \in low .. high, NEW h \in low .. high, NEW r \in l .. h, NEW q \in l .. h,
               IsFirst(positions, l, h, r), IsFirst(positions, l, h, q)
        PROVE  r = q
    BY <1>3 DEF IsFirst
  <1> HIDE DEF first
  <1>4. Solves(g)
    <2>1. ASSUME NEW l \in low .. high, NEW h \in low .. high
          PROVE  g[<<l, h>>] = IF l >= h THEN l
               ELSE IF half(l, h) \in positions THEN g[<<l, half(l, h)>>] ELSE g[<<half(l, h) + 1, h>>]
      <3>1. CASE l >= h
        BY <3>1
      <3>2. CASE l < h /\ half(l, h) \in positions
        <4>1. half(l, h) \in l .. h - 1 /\ half(l, h) \in low .. high
          BY <1>1, <3>2
        <4>2. g[<<l, h>>] = first(l, h) /\ IsFirst(positions, l, h, first(l, h))
          BY <1>2, <3>2
        <4>3. IsFirst(positions, l, half(l, h), g[<<l, half(l, h)>>])
          <5>1. CASE l >= half(l, h)
            BY <3>2, <4>1, <5>1 DEF IsFirst
          <5>2. CASE l < half(l, h)
            BY <1>2, <4>1, <5>2
          <5> QED BY <4>1, <5>1, <5>2
        <4> HIDE DEF g
        <4>4. IsFirst(positions, l, h, g[<<l, half(l, h)>>])
          BY <3>2, <4>1, <4>3 DEF IsFirst
        <4>5. g[<<l, h>>] = g[<<l, half(l, h)>>]
          BY <1>3, <4>2, <4>4 DEF IsFirst
        <4> QED BY <3>2, <4>5
      <3>3. CASE l < h /\ half(l, h) \notin positions
        <4>1. half(l, h) \in l .. h - 1 /\ half(l, h) + 1 \in low .. high
          BY <1>1, <3>3
        <4>2. g[<<l, h>>] = first(l, h) /\ IsFirst(positions, l, h, first(l, h))
          BY <1>2, <3>3
        <4>3. IsFirst(positions, half(l, h) + 1, h, g[<<half(l, h) + 1, h>>])
          <5>1. CASE half(l, h) + 1 >= h
            BY <3>3, <4>1, <5>1 DEF IsFirst
          <5>2. CASE half(l, h) + 1 < h
            BY <1>2, <4>1, <5>2
          <5> QED BY <4>1, <5>1, <5>2
        <4> HIDE DEF g
        <4>4. \A i \in l .. half(l, h) : i \notin positions
          BY <3>3, <4>1
        <4>5. IsFirst(positions, l, h, g[<<half(l, h) + 1, h>>])
          BY <3>3, <4>1, <4>3, <4>4 DEF IsFirst
        <4>6. g[<<l, h>>] = g[<<half(l, h) + 1, h>>]
          BY <1>3, <4>2, <4>5 DEF IsFirst
        <4> QED BY <3>3, <4>6
      <3> QED BY <3>1, <3>2, <3>3
    <2>2. g = [w \in Windows |-> g[w]]
      OBVIOUS
    <2> HIDE DEF g
    <2>3. ASSUME NEW w \in Windows
          PROVE  g[w] = IF w[1] >= w[2] THEN w[1]
               ELSE IF half(w[1], w[2]) \in positions THEN g[<<w[1], half(w[1], w[2])>>]
                    ELSE g[<<half(w[1], w[2]) + 1, w[2]>>]
      <3>1. w[1] \in low .. high /\ w[2] \in low .. high /\ w = <<w[1], w[2]>>
        OBVIOUS
      <3> QED BY <2>1, <3>1
    <2> QED BY <2>2, <2>3
  <1>5. Solves(found)
    <2> HIDE DEF Solves, g
    <2> QED BY <1>4
  <1>6. FirstWhere(positions, low, high) = found[<<low, high>>]
    BY DEF FirstWhere, half
  <1> HIDE DEF found
  <1> DEFINE wrong == {d \in Nat : \E l, h \in low .. high :
                 l <= h /\ d = h - l /\ ~IsFirst(positions, l, h, found[<<l, h>>])}
  <1>7. wrong = {}
    <2> SUFFICES ASSUME wrong # {} PROVE FALSE
      OBVIOUS
    <2>1. PICK d \in wrong : \A e \in wrong : d <= e
      <3>1. wrong \subseteq Nat
        OBVIOUS
      <3> HIDE DEF wrong
      <3> QED BY <3>1, LeastOf
    <2>2. PICK l \in low .. high, h \in low .. high :
            l <= h /\ d = h - l /\ ~IsFirst(positions, l, h, found[<<l, h>>])
      OBVIOUS
    <2>3. ASSUME NEW m \in low .. high, NEW n \in low .. high, m <= n, n - m < d
          PROVE  IsFirst(positions, m, n, found[<<m, n>>])
      <3>1. n - m \notin wrong /\ n - m \in Nat
        <4> HIDE DEF wrong
        <4>1. d \in Nat
          BY <2>2
        <4> QED BY <2>1, <2>3, <4>1
      <3>2. ASSUME ~IsFirst(positions, m, n, found[<<m, n>>])
            PROVE  n - m \in wrong
        BY <2>3, <3>1, <3>2
      <3> QED BY <3>1, <3>2
    <2> HIDE DEF wrong
    <2>4. found[<<l, h>>] = IF l >= h THEN l
               ELSE IF half(l, h) \in positions THEN found[<<l, half(l, h)>>]
                                                ELSE found[<<half(l, h) + 1, h>>]
      BY <1>5
    <2>5. CASE l >= h
      BY <2>2, <2>4, <2>5 DEF IsFirst
    <2>6. CASE l < h /\ half(l, h) \in positions
      <3>1. half(l, h) \in l .. h - 1 /\ half(l, h) \in low .. high
        BY <1>1, <2>6
      <3>2. IsFirst(positions, l, half(l, h), found[<<l, half(l, h)>>])
        BY <2>2, <2>3, <3>1
      <3>3. IsFirst(positions, l, h, found[<<l, half(l, h)>>])
        BY <2>6, <3>1, <3>2 DEF IsFirst
      <3> QED BY <2>2, <2>4, <2>6, <3>3
    <2>7. CASE l < h /\ half(l, h) \notin positions
      <3>1. half(l, h) \in l .. h - 1 /\ half(l, h) + 1 \in low .. high
        BY <1>1, <2>7
      <3>2. IsFirst(positions, half(l, h) + 1, h, found[<<half(l, h) + 1, h>>])
        BY <2>2, <2>3, <3>1
      <3>3. \A i \in l .. half(l, h) : i \notin positions
        BY <2>7, <3>1
      <3>4. IsFirst(positions, l, h, found[<<half(l, h) + 1, h>>])
        BY <2>7, <3>1, <3>2, <3>3 DEF IsFirst
      <3> QED BY <2>2, <2>4, <2>7, <3>4
    <2> QED BY <2>5, <2>6, <2>7
  <1>8. low \in low .. high /\ high \in low .. high /\ high - low \in Nat
    OBVIOUS
  <1>9. IsFirst(positions, low, high, found[<<low, high>>])
    BY <1>7, <1>8
  <1> QED BY <1>6, <1>9

\* The longest reach of a prefix of the files is that of one of them.
LEMMA PrefixReach ==
  ASSUME NEW extents \in Seq(Extents), NEW i \in DOMAIN extents
  PROVE  /\ PrefixMaxEnd(extents, i) \in {ExtentEnd(extents[j]) : j \in 1 .. i}
         /\ \A j \in 1 .. i : ExtentEnd(extents[j]) <= PrefixMaxEnd(extents, i)
  <1> DEFINE ends(k) == {ExtentEnd(extents[j]) : j \in 1 .. k}
             Reach(k) == \E m \in ends(k) : \A j \in 1 .. k : ExtentEnd(extents[j]) <= m
             unreached == {k \in Nat : k \in DOMAIN extents /\ ~Reach(k)}
  <1>1. DOMAIN extents = 1 .. Len(extents) /\ Len(extents) \in Nat
    OBVIOUS
  <1>2. \A k \in DOMAIN extents : ExtentEnd(extents[k]) \in Nat
    <2>1. \A k \in DOMAIN extents : extents[k] \in Extents
      OBVIOUS
    <2> QED BY <2>1 DEF Extents, ExtentEnd
  <1>3. unreached = {}
    <2> SUFFICES ASSUME unreached # {} PROVE FALSE
      OBVIOUS
    <2>1. PICK k \in unreached : \A l \in unreached : k <= l
      <3>1. unreached \subseteq Nat
        OBVIOUS
      <3> HIDE DEF unreached
      <3> QED BY <3>1, LeastOf
    <2>2. k \in 1 .. Len(extents) /\ ~Reach(k)
      BY <1>1
    <2>3. CASE k = 1
      <3>1. 1 .. 1 = {1}
        OBVIOUS
      <3>2. ExtentEnd(extents[1]) \in Nat /\ ExtentEnd(extents[1]) \in ends(1)
        BY <1>1, <1>2, <2>2, <2>3
      <3>3. \A j \in 1 .. 1 : ExtentEnd(extents[j]) <= ExtentEnd(extents[1])
        BY <3>1, <3>2
      <3>4. \E m \in ends(1) : \A j \in 1 .. 1 : ExtentEnd(extents[j]) <= m
        <4> HIDE DEF ends
        <4> QED BY <3>2, <3>3
      <3> QED BY <2>2, <2>3, <3>4
    <2>4. CASE k # 1
      <3>1. k - 1 \in 1 .. Len(extents) /\ k - 1 \notin unreached
        <4>1. k - 1 \in 1 .. Len(extents) /\ ~(k <= k - 1)
          BY <2>2, <2>4
        <4> HIDE DEF unreached
        <4> QED BY <2>1, <4>1
      <3>2. PICK m \in ends(k - 1) : \A j \in 1 .. k - 1 : ExtentEnd(extents[j]) <= m
        BY <1>1, <3>1
      <3>3. m \in Nat /\ ExtentEnd(extents[k]) \in Nat
        BY <1>1, <1>2, <2>2, <3>1, <3>2
      <3>4. m \in ends(k) /\ ExtentEnd(extents[k]) \in ends(k)
        BY <2>2, <3>1, <3>2
      <3>5. \A j \in 1 .. k : j \in 1 .. k - 1 \/ j = k
        BY <2>2
      <3>6. \A j \in 1 .. k : ExtentEnd(extents[j]) \in Nat
        BY <1>1, <1>2, <2>2
      <3>7. CASE m <= ExtentEnd(extents[k])
        <4>1. \A j \in 1 .. k : ExtentEnd(extents[j]) <= ExtentEnd(extents[k])
          BY <3>2, <3>3, <3>5, <3>6, <3>7
        <4> QED BY <2>2, <3>4, <4>1
      <3>8. CASE ExtentEnd(extents[k]) < m
        <4>1. \A j \in 1 .. k : ExtentEnd(extents[j]) <= m
          BY <3>2, <3>3, <3>5, <3>6, <3>8
        <4> QED BY <2>2, <3>4, <4>1
      <3> QED BY <3>3, <3>7, <3>8
    <2> QED BY <2>3, <2>4
  <1>4. Reach(i)
    <2>1. i \in Nat /\ i \notin unreached
      BY <1>1, <1>3
    <2> QED BY <2>1
  <1> QED BY <1>4 DEF PrefixMaxEnd

\* The files are sorted, not only each behind the one before it.
LEMMA StartsAscend ==
  ASSUME NEW extents, ValidExtents(extents), NEW i \in DOMAIN extents, NEW j \in DOMAIN extents,
         i <= j
  PROVE  extents[i].start <= extents[j].start
  <1> DEFINE behind == {k \in Nat : k \in DOMAIN extents /\ i <= k
                                     /\ ~(extents[i].start <= extents[k].start)}
  <1>0. /\ extents \in Seq(Extents)
        /\ \A k \in DOMAIN extents : k > 1 => extents[k - 1].start <= extents[k].start
    BY DEF ValidExtents
  <1>1. DOMAIN extents = 1 .. Len(extents) /\ Len(extents) \in Nat
    BY <1>0
  <1>2. \A k \in DOMAIN extents : extents[k].start \in Nat
    <2>1. \A k \in DOMAIN extents : extents[k] \in Extents
      BY <1>0
    <2> QED BY <2>1 DEF Extents
  <1>3. behind = {}
    <2> SUFFICES ASSUME behind # {} PROVE FALSE
      OBVIOUS
    <2>1. PICK k \in behind : \A l \in behind : k <= l
      <3>1. behind \subseteq Nat
        OBVIOUS
      <3> HIDE DEF behind
      <3> QED BY <3>1, LeastOf
    <2>2. k \in 1 .. Len(extents) /\ i <= k /\ i \in 1 .. Len(extents)
      BY <1>1
    <2>3. i # k
      BY <1>2, <2>2
    <2>4. k - 1 \in 1 .. Len(extents) /\ i <= k - 1 /\ k > 1
      BY <2>2, <2>3
    <2>5. extents[i].start <= extents[k - 1].start
      BY <1>1, <2>1, <2>2, <2>4
    <2>6. extents[k - 1].start <= extents[k].start
      BY <1>0, <1>1, <2>2, <2>4
    <2> QED BY <1>1, <1>2, <2>1, <2>2, <2>4, <2>5, <2>6
  <1> QED BY <1>1, <1>3

\* The sectors lie in the file.
Within(extents, i, lba, blocks) ==
    extents[i].start <= lba /\ lba + blocks <= ExtentEnd(extents[i])

\* The index names a file exactly when some file holds the sectors, and then
\* one that does, also when files overlap.
LEMMA ContainingIsExact ==
  ASSUME NEW extents, ValidExtents(extents), NEW lba \in Nat, NEW blocks \in Nat
  PROVE  LET i == ContainingExtent(extents, lba, blocks)
         IN  /\ i # 0 => i \in DOMAIN extents /\ Within(extents, i, lba, blocks)
             /\ (\E j \in DOMAIN extents : Within(extents, j, lba, blocks)) => i # 0
  <1> DEFINE end == lba + blocks
             count == Len(extents)
             behind == StartBehind(extents, lba)
             after == FirstWhere(behind, 1, count + 1)
             reaching == Reaching(extents, end)
             found == FirstWhere(reaching, 1, after)
             i == ContainingExtent(extents, lba, blocks)
  <1>1. /\ extents \in Seq(Extents) /\ DOMAIN extents = 1 .. count /\ count \in Nat
        /\ \A k \in 1 .. count : extents[k] \in Extents
    <2>1. extents \in Seq(Extents)
      BY DEF ValidExtents
    <2> QED BY <2>1
  <1>2. /\ end \in Nat
        /\ \A k \in 1 .. count : extents[k].start \in Nat /\ ExtentEnd(extents[k]) \in Nat
    <2>1. \A k \in 1 .. count : extents[k].start \in Nat /\ extents[k].count \in Nat
      BY <1>1 DEF Extents
    <2> QED BY <2>1 DEF ExtentEnd
  <1>3. IsFirst(behind, 1, count + 1, after)
    <2>1. \A k \in 1 .. (count + 1) - 1 : \A l \in k .. (count + 1) - 1 :
            k \in behind => l \in behind
      <3> SUFFICES ASSUME NEW k \in 1 .. count, NEW l \in k .. count, k \in behind
                   PROVE  l \in behind
        BY <1>1
      <3>1. l \in 1 .. count /\ extents[k].start <= extents[l].start
        BY <1>1, StartsAscend
      <3>2. extents[k].start > lba
        BY DEF StartBehind
      <3> QED BY <1>1, <1>2, <3>1, <3>2 DEF StartBehind
    <2> HIDE DEF behind, count
    <2> QED BY <1>1, <2>1, SearchFindsFirst
  <1>4. /\ after \in 1 .. count + 1
        /\ \A k \in 1 .. count : k < after => extents[k].start <= lba
        /\ \A k \in 1 .. count : k >= after => extents[k].start > lba
    <2>1. after \in 1 .. count + 1
      BY <1>3 DEF IsFirst
    <2>2. ASSUME NEW k \in 1 .. count, k < after PROVE extents[k].start <= lba
      <3>1. k \notin behind
        BY <1>1, <1>3, <2>1, <2>2 DEF IsFirst
      <3> QED BY <1>1, <1>2, <3>1 DEF StartBehind
    <2>3. ASSUME NEW k \in 1 .. count, k >= after PROVE extents[k].start > lba
      <3>1. after \in behind
        BY <1>1, <1>3, <2>1, <2>3 DEF IsFirst
      <3>2. after \in 1 .. count /\ extents[after].start > lba
        BY <1>1, <3>1 DEF StartBehind
      <3>3. extents[after].start <= extents[k].start
        BY <1>1, <2>3, <3>2, StartsAscend
      <3> QED BY <1>2, <3>2, <3>3
    <2> QED BY <2>1, <2>2, <2>3
  <1> HIDE DEF after, behind
  <1>5. \A k, l \in 1 .. count : k <= l /\ k \in reaching => l \in reaching
    <2> SUFFICES ASSUME NEW k \in 1 .. count, NEW l \in 1 .. count, k <= l, k \in reaching
                 PROVE  l \in reaching
      OBVIOUS
    <2>1. PrefixMaxEnd(extents, k) >= end
      BY DEF Reaching
    <2>2. PICK m \in 1 .. k : PrefixMaxEnd(extents, k) = ExtentEnd(extents[m])
      BY <1>1, PrefixReach
    <2>3. m \in 1 .. l /\ m \in 1 .. count
      BY <1>1
    <2>4. ExtentEnd(extents[m]) <= PrefixMaxEnd(extents, l)
      BY <1>1, <2>3, PrefixReach
    <2>5. PrefixMaxEnd(extents, l) \in Nat
      <3>1. PICK n \in 1 .. l : PrefixMaxEnd(extents, l) = ExtentEnd(extents[n])
        BY <1>1, PrefixReach
      <3> QED BY <1>1, <1>2, <3>1
    <2>6. PrefixMaxEnd(extents, l) >= end
      BY <1>2, <2>1, <2>2, <2>3, <2>4, <2>5
    <2> QED BY <1>1, <2>6 DEF Reaching
  <1>6. IsFirst(reaching, 1, after, found)
    <2>1. \A k \in 1 .. after - 1 : \A l \in k .. after - 1 : k \in reaching => l \in reaching
      BY <1>1, <1>4, <1>5
    <2>2. after \in Nat /\ 1 <= after
      BY <1>1, <1>4
    <2> HIDE DEF reaching
    <2> QED BY <2>1, <2>2, SearchFindsFirst
  <1>7. i = IF /\ after > 1
               /\ after - 1 \in reaching
               /\ ExtentEnd(extents[found]) >= end
            THEN found ELSE 0
    BY DEF ContainingExtent, after, behind
  <1> HIDE DEF i, found
  <1>8. ASSUME after > 1, after - 1 \in reaching
        PROVE  found \in 1 .. count /\ found < after /\ found \in reaching
    <2>1. found \in 1 .. after
      BY <1>6 DEF IsFirst
    <2>2. found < after
      <3> SUFFICES ASSUME found = after PROVE FALSE
        BY <1>1, <1>4, <2>1
      <3>1. after - 1 \in 1 .. found - 1
        BY <1>1, <1>4, <1>8
      <3> QED BY <1>6, <1>8, <3>1 DEF IsFirst
    <2> QED BY <1>1, <1>4, <1>6, <2>1, <2>2 DEF IsFirst
  <1>9. ASSUME i # 0 PROVE i \in DOMAIN extents /\ Within(extents, i, lba, blocks)
    <2>1. /\ i = found /\ after > 1 /\ after - 1 \in reaching
          /\ ExtentEnd(extents[found]) >= end
      BY <1>7, <1>9
    <2>2. found \in 1 .. count /\ found < after
      BY <1>8, <2>1
    <2> QED BY <1>1, <1>2, <1>4, <2>1, <2>2 DEF Within
  <1>10. ASSUME NEW j \in DOMAIN extents, Within(extents, j, lba, blocks) PROVE i # 0
    <2>1. j \in 1 .. count /\ extents[j].start <= lba /\ end <= ExtentEnd(extents[j])
      BY <1>1, <1>10 DEF Within
    <2>2. j < after
      BY <1>1, <1>2, <1>4, <2>1
    <2>3. j \in reaching
      <3>1. ExtentEnd(extents[j]) <= PrefixMaxEnd(extents, j)
        BY <1>1, <2>1, PrefixReach
      <3>2. PICK n \in 1 .. j : PrefixMaxEnd(extents, j) = ExtentEnd(extents[n])
        BY <1>1, <2>1, PrefixReach
      <3>3. PrefixMaxEnd(extents, j) \in Nat
        BY <1>1, <1>2, <2>1, <3>2
      <3>4. PrefixMaxEnd(extents, j) >= end
        BY <1>2, <2>1, <3>1, <3>3
      <3> QED BY <1>1, <2>1, <3>4 DEF Reaching
    <2>4. after - 1 \in 1 .. count /\ j <= after - 1 /\ after > 1
      BY <1>1, <1>4, <2>1, <2>2
    <2>5. after - 1 \in reaching
      BY <1>5, <2>1, <2>3, <2>4
    <2>6. found \in 1 .. count /\ found \in reaching /\ found \in Nat /\ found # 0
      BY <1>8, <2>4, <2>5
    <2>7. PrefixMaxEnd(extents, found) >= end
      BY <2>6 DEF Reaching
    <2>8. PICK n \in 1 .. found : PrefixMaxEnd(extents, found) = ExtentEnd(extents[n])
      BY <1>1, <2>6, PrefixReach
    <2>9. n = found
      <3> SUFFICES ASSUME n < found PROVE FALSE
        BY <1>1, <2>6, <2>8
      <3>1. n \in 1 .. count /\ n \in 1 .. found - 1
        BY <1>1, <2>6, <2>8
      <3>2. n \notin reaching
        BY <1>6, <3>1 DEF IsFirst
      <3>3. ExtentEnd(extents[n]) <= PrefixMaxEnd(extents, n)
        BY <1>1, <3>1, PrefixReach
      <3>4. PICK p \in 1 .. n : PrefixMaxEnd(extents, n) = ExtentEnd(extents[p])
        BY <1>1, <3>1, PrefixReach
      <3>5. PrefixMaxEnd(extents, n) \in Nat
        BY <1>1, <1>2, <3>1, <3>4
      <3>6. PrefixMaxEnd(extents, n) >= end
        BY <1>2, <2>7, <2>8, <3>1, <3>3, <3>5
      <3> QED BY <1>1, <3>1, <3>2, <3>6 DEF Reaching
    <2>10. ExtentEnd(extents[found]) >= end
      BY <2>7, <2>8, <2>9
    <2> QED BY <1>7, <2>4, <2>5, <2>6, <2>10
  <1> QED BY <1>9, <1>10 DEF i

-----------------------------------------------------------------------------
(* One user of the disc.                                                   *)

\* The places of the closing worker, in their order.
Stopping  == {"abort", "shut", "wake", "join", "close", "retained", "freed"}
PastShut  == {"wake", "join", "close", "retained", "freed"}
PastJoin  == {"close", "retained", "freed"}

\* A client is active exactly while it is served, never beside an inspector,
\* and once the export is closed on a socket that was shut down only.
TurnsAreTaken ==
    /\ server \in ServerStates /\ worker \in WorkerStates
    /\ active \in BOOLEAN /\ stopping \in BOOLEAN
    /\ active <=> server \in Serving
    /\ worker = "inspecting" => server \notin Serving
    /\ worker \in Stopping => stopping
    /\ worker \in PastShut => (server \in Serving => sock = "shut")
    /\ worker \in PastJoin => server = "ended"


\* Every step of either thread, and of a client, keeps the turns.
LEMMA TurnsStayTaken ==
  ASSUME TurnsAreTaken, [Next]_vars
  PROVE  TurnsAreTaken'
  <1> USE DEF TurnsAreTaken, ServerStates, Serving, WorkerStates, Stopping, PastShut,
              PastJoin, vars, threads, export, client, ServerGoes, WorkerGoes, MutexFree
  <1>1. CASE Connect BY <1>1 DEF Connect
  <1>2. CASE Disconnect BY <1>2 DEF Disconnect
  <1>3. CASE Loop BY <1>3 DEF Loop
  <1>4. CASE Accept BY <1>4 DEF Accept
  <1>5. CASE AcceptFails BY <1>5 DEF AcceptFails
  <1>6. CASE SetActiveClient BY <1>6 DEF SetActiveClient
  <1>7. CASE Negotiate BY <1>7 DEF Negotiate
  <1>8. CASE NegotiationFails BY <1>8 DEF NegotiationFails
  <1>9. CASE ReceiveRead BY <1>9 DEF ReceiveRead
  <1>10. CASE RefuseOther BY <1>10 DEF RefuseOther
  <1>11. CASE ReceiveEnds BY <1>11 DEF ReceiveEnds
  <1>12. CASE Gate BY <1>12 DEF Gate
  <1>13. CASE JudgeCopy BY <1>13 DEF JudgeCopy
  <1>14. CASE StartRead BY <1>14 DEF StartRead
  <1>15. CASE ReadSucceeds BY <1>15 DEF ReadSucceeds
  <1>16. CASE ReadFails BY <1>16 DEF ReadFails
  <1>17. CASE JudgeFailure BY <1>17 DEF JudgeFailure
  <1>18. CASE Finish BY <1>18 DEF Finish
  <1>19. CASE Leave BY <1>19 DEF Leave
  <1>20. CASE ObserveMedia BY <1>20 DEF ObserveMedia
  <1>21. CASE ObserveInvalidates BY <1>21 DEF ObserveInvalidates
  <1>22. CASE InspectDisc BY <1>22 DEF InspectDisc
  <1>23. CASE InspectReturns BY <1>23 DEF InspectReturns
  <1>24. CASE Close BY <1>24 DEF Close
  <1>25. CASE AbortDisc BY <1>25 DEF AbortDisc
  <1>26. CASE ShutdownClient BY <1>26 DEF ShutdownClient
  <1>27. CASE WakeLoopback BY <1>27 DEF WakeLoopback
  <1>28. CASE Join BY <1>28 DEF Join
  <1>29. CASE PrepareCloseFails BY <1>29 DEF PrepareCloseFails
  <1>30. CASE CloseDisc BY <1>30 DEF CloseDisc
  <1>31. CASE Closed BY <1>31 DEF Closed
  <1>32. CASE UNCHANGED vars BY <1>32
  <1> QED BY <1>1, <1>2, <1>3, <1>4, <1>5, <1>6, <1>7, <1>8, <1>9, <1>10, <1>11,
         <1>12, <1>13, <1>14, <1>15, <1>16, <1>17, <1>18, <1>19, <1>20, <1>21, <1>22,
         <1>23, <1>24, <1>25, <1>26, <1>27, <1>28, <1>29, <1>30, <1>31, <1>32 DEF
         Next, Environment, Server, Worker

\* THEOREM.  An inspector never runs while a client is served, and after the
\* closing worker's shutdown no client is served on a socket it missed,
\* whatever the two threads and the clients do (nbd_tcp.c: the state mutex,
\* and the flag looked at again inside it).
THEOREM DiscServesOne == Spec => []DiscHasOneUser
  <1>1. Init => TurnsAreTaken
    BY DEF Init, TurnsAreTaken, ServerStates, Serving, WorkerStates, Stopping, PastShut,
           PastJoin
  <1>2. TurnsAreTaken /\ [Next]_vars => TurnsAreTaken'
    BY TurnsStayTaken
  <1>3. TurnsAreTaken => DiscHasOneUser
    BY DEF TurnsAreTaken, DiscHasOneUser, PastShut, PastJoin
  <1> QED BY <1>1, <1>2, <1>3, PTL DEF Spec

-----------------------------------------------------------------------------
(* What the cache delivers.                                                *)

SlotFields == {"valid", "start", "blocks", "extent", "epoch", "data"}
ContextFields == {"epoch", "aborted", "closing", "mediaInvalid", "generation",
                  "extents", "touched", "slots", "recent"}

\* A slot that counts holds what its window was read for, as old as it says.
SlotSound(r) ==
    /\ r = [f \in SlotFields |-> r[f]]
    /\ r.valid \in BOOLEAN /\ r.start \in Nat /\ r.epoch \in Nat
    /\ r.valid => r.data = [at |-> r.start, epoch |-> r.epoch]

\* A context with all its fields and only sound slots.
Sound(c) ==
    /\ c = [f \in ContextFields |-> c[f]]
    /\ c.epoch \in Nat
    /\ c.aborted \in BOOLEAN /\ c.closing \in BOOLEAN /\ c.mediaInvalid \in BOOLEAN
    /\ c.slots = [s \in Slots |-> c.slots[s]]
    /\ \A s \in Slots : SlotSound(c.slots[s])

\* d is c later on: no epoch comes back, and no session.
Follows(d, c) ==
    /\ Sound(d)
    /\ d.epoch >= c.epoch
    /\ RequestCancelled(c) => RequestCancelled(d)

\* Nothing but the slots and their order differs.
SameSession(d, c) ==
    /\ Sound(d)
    /\ d.epoch = c.epoch
    /\ RequestCancelled(d) = RequestCancelled(c)

\* The cache is left alone by whoever does not serve.
LEMMA InvalidatingFollows ==
  ASSUME NEW c, Sound(c)
  PROVE  LET d == InvalidateCache(c) IN Follows(d, c) /\ d.slots = c.slots
  BY DEF InvalidateCache, Follows, Sound, ContextFields, RequestCancelled

\* A verdict on the medium ends a session and begins none.
LEMMA JudgingFollows ==
  ASSUME NEW c, NEW ob, Sound(c)
  PROVE  LET d == JudgeObservation(c, ob)
         IN  Follows(d, c) /\ d.slots = c.slots
  <1> DEFINE d == JudgeObservation(c, ob)
             m == c.mediaInvalid \/ InvalidSession(ob) \/ OtherGeneration(c, ob)
  <1>1. d = [f \in ContextFields |-> d[f]]
    BY DEF JudgeObservation, Sound
  <1>2. /\ d.epoch = c.epoch /\ d.aborted = c.aborted /\ d.closing = c.closing
        /\ d.slots = c.slots
    BY DEF JudgeObservation, Sound, ContextFields
  <1>3. d.mediaInvalid = m
    BY DEF JudgeObservation, Sound, ContextFields
  <1>4. m \in BOOLEAN /\ (c.mediaInvalid => m)
    OBVIOUS
  <1> HIDE DEF d, m
  <1> QED BY <1>1, <1>2, <1>3, <1>4 DEF Follows, Sound, RequestCancelled, d

\* An observation, with the invalidation it may cause.
LEMMA ApplyingFollows ==
  ASSUME NEW c, NEW ob, Sound(c)
  PROVE  LET d == ApplyMediaObservation(c, ob)
         IN  Follows(d, c) /\ d.slots = c.slots
  <1> DEFINE j == JudgeObservation(c, ob)
  <1>1. Follows(j, c) /\ j.slots = c.slots
    BY JudgingFollows
  <1>2. LET d == InvalidateCache(j) IN Follows(d, j) /\ d.slots = j.slots
    BY <1>1, InvalidatingFollows DEF Follows
  <1>3. j.epoch \in Nat /\ c.epoch \in Nat /\ InvalidateCache(j).epoch \in Nat
    BY <1>1, <1>2 DEF Follows, Sound
  <1> HIDE DEF j
  <1> QED BY <1>1, <1>2, <1>3 DEF ApplyMediaObservation, Follows, j

\* The abort and the closing of the disc end the session for good.
LEMMA AbortingFollows ==
  ASSUME NEW c, Sound(c)
  PROVE  LET d == ReadaheadAbort(c) IN Follows(d, c) /\ d.slots = c.slots
  <1> DEFINE d == ReadaheadAbort(c)
  <1>1. d = [f \in ContextFields |-> d[f]]
    BY DEF ReadaheadAbort, InvalidateCache, Sound
  <1>2. /\ d.epoch = c.epoch + 1 /\ d.aborted = TRUE /\ d.closing = c.closing
        /\ d.mediaInvalid = c.mediaInvalid /\ d.slots = c.slots
    BY DEF ReadaheadAbort, InvalidateCache, Sound, ContextFields
  <1>3. Follows(d, c)
    <2> HIDE DEF d
    <2>1. c.epoch \in Nat /\ d.epoch \in Nat /\ d.epoch >= c.epoch
      BY <1>2 DEF Sound
    <2>2. Sound(d)
      BY <1>1, <1>2, <2>1 DEF Sound
    <2>3. RequestCancelled(d)
      BY <1>2 DEF RequestCancelled
    <2> QED BY <2>1, <2>2, <2>3 DEF Follows
  <1> QED BY <1>2, <1>3

LEMMA ClosingFollows ==
  ASSUME NEW c, Sound(c)
  PROVE  LET d == ReadaheadPrepareClose(c) IN Follows(d, c) /\ d.slots = c.slots
  <1> DEFINE d == ReadaheadPrepareClose(c)
  <1>1. d = [f \in ContextFields |-> d[f]]
    BY DEF ReadaheadPrepareClose, InvalidateCache, Sound
  <1>2. /\ d.epoch = c.epoch + 1 /\ d.aborted = c.aborted /\ d.closing = TRUE
        /\ d.mediaInvalid = c.mediaInvalid /\ d.slots = c.slots
    BY DEF ReadaheadPrepareClose, InvalidateCache, Sound, ContextFields
  <1>3. Follows(d, c)
    <2> HIDE DEF d
    <2>1. c.epoch \in Nat /\ d.epoch \in Nat /\ d.epoch >= c.epoch
      BY <1>2 DEF Sound
    <2>2. Sound(d)
      BY <1>1, <1>2, <2>1 DEF Sound
    <2>3. RequestCancelled(d)
      BY <1>2 DEF RequestCancelled
    <2> QED BY <2>1, <2>2, <2>3 DEF Follows
  <1> QED BY <1>2, <1>3

\* The order of use does not touch what the slots hold.
LEMMA UsingIsSame ==
  ASSUME NEW c, NEW s, Sound(c)
  PROVE  SameSession(Used(c, s), c)
  BY DEF Used, SameSession, Sound, ContextFields, RequestCancelled

\* A file that was touched leaves the choice of the victim as it was.
LEMMA TouchingIsSame ==
  ASSUME NEW c, NEW e, NEW epoch, Sound(c)
  PROVE  LET d == Touched(c, e)
         IN  /\ SameSession(d, c) /\ d.slots = c.slots
             /\ Victim(d, epoch) = Victim(c, epoch)
  <1>1. SameSession(Touched(c, e), c)
    BY DEF Touched, SameSession, Sound, ContextFields, RequestCancelled
  <1>2. Touched(c, e).slots = c.slots /\ Touched(c, e).recent = c.recent
    BY DEF Touched, Sound, ContextFields
  <1> QED BY <1>1, <1>2 DEF Victim


\* One slot replaced by another that is sound.
LEMMA ReplacingIsSame ==
  ASSUME NEW c, NEW s, NEW r, Sound(c), s \in Slots => SlotSound(r)
  PROVE  LET d == [c EXCEPT !.slots[s] = r]
         IN  SameSession(d, c) /\ (s \in Slots => d.slots[s] = r)
  <1> DEFINE d == [c EXCEPT !.slots[s] = r]
  <1>1. d = [f \in ContextFields |-> d[f]]
    BY DEF Sound
  <1>2. /\ d.epoch = c.epoch /\ d.aborted = c.aborted /\ d.closing = c.closing
        /\ d.mediaInvalid = c.mediaInvalid
    BY DEF Sound, ContextFields
  <1>3. d.slots = [t \in Slots |-> IF t = s THEN r ELSE c.slots[t]]
    BY DEF Sound, ContextFields
  <1> HIDE DEF d
  <1> QED BY <1>1, <1>2, <1>3 DEF SameSession, Sound, RequestCancelled, d

\* A slot that is reserved counts for nothing.
LEMMA ReservingIsSame ==
  ASSUME NEW c, NEW epoch, Sound(c)
  PROVE  LET d == ReserveCacheSlot(c, epoch)
         IN  /\ SameSession(d, c)
             /\ Victim(c, epoch) \in Slots => ~d.slots[Victim(c, epoch)].valid
  <1>1. SlotSound(EmptySlot) /\ ~EmptySlot.valid
    BY DEF SlotSound, EmptySlot, SlotFields
  <1> QED BY <1>1, ReplacingIsSame DEF ReserveCacheSlot

\* Filling a slot that does not count does no harm, and leaves its buffer
\* with what was read.
LEMMA FillingIsSame ==
  ASSUME NEW c, NEW s, NEW lba, NEW epoch, Sound(c),
         s \in Slots => ~c.slots[s].valid
  PROVE  LET d == FillSlot(c, s, lba, epoch)
         IN  /\ SameSession(d, c)
             /\ s \in Slots => d.slots[s].data = [at |-> lba, epoch |-> epoch]
  <1> DEFINE r == [c.slots[s] EXCEPT !.data = [at |-> lba, epoch |-> epoch]]
  <1>1. s \in Slots => SlotSound(r) /\ r.data = [at |-> lba, epoch |-> epoch]
    BY DEF Sound, SlotSound, SlotFields
  <1>2. FillSlot(c, s, lba, epoch) = [c EXCEPT !.slots[s] = r]
    BY DEF FillSlot
  <1> HIDE DEF r
  <1> QED BY <1>1, <1>2, ReplacingIsSame

\* A buffer filled for lba in an epoch may be published as just that.
LEMMA PublishingIsSame ==
  ASSUME NEW c, NEW s, NEW epoch \in Nat, NEW extent, NEW lba \in Nat, NEW blocks,
         Sound(c), s \in Slots => c.slots[s].data = [at |-> lba, epoch |-> epoch]
  PROVE  SameSession(PublishCacheSlot(c, s, epoch, extent, lba, blocks), c)
  <1> DEFINE r == [c.slots[s] EXCEPT !.valid = TRUE, !.start = lba, !.blocks = blocks,
                                     !.extent = extent, !.epoch = epoch]
             d == [c EXCEPT !.slots[s] = r]
  <1>1. s \in Slots => SlotSound(r)
    <2>1. SUFFICES ASSUME s \in Slots PROVE SlotSound(r)
      OBVIOUS
    <2>2. SlotSound(c.slots[s]) /\ c.slots[s].data = [at |-> lba, epoch |-> epoch]
      BY <2>1 DEF Sound
    <2>3. r = [f \in SlotFields |-> r[f]]
      BY <2>2 DEF SlotSound
    <2>4. /\ r.valid = TRUE /\ r.start = lba /\ r.epoch = epoch
          /\ r.data = [at |-> lba, epoch |-> epoch]
      BY <2>2 DEF SlotSound, SlotFields
    <2> HIDE DEF r
    <2> QED BY <2>3, <2>4 DEF SlotSound
  <1>2. SameSession(d, c)
    <2> HIDE DEF r
    <2> QED BY <1>1, ReplacingIsSame
  <1> HIDE DEF d
  <1>3. SameSession(Used(d, s), d)
    BY <1>2, UsingIsSame DEF SameSession
  <1>4. SameSession(Used(d, s), c) /\ SameSession(c, c)
    BY <1>2, <1>3 DEF SameSession
  <1> QED BY <1>4 DEF PublishCacheSlot, d

\* An exact read is kept like a window.
LEMMA RetainingIsSame ==
  ASSUME NEW c, NEW epoch \in Nat, NEW extent, NEW lba \in Nat, NEW blocks, Sound(c)
  PROVE  SameSession(RetainExactRead(c, epoch, extent, lba, blocks), c)
  <1> DEFINE s == Victim(c, epoch)
             r == ReserveCacheSlot(c, epoch)
             f == FillSlot(r, s, lba, epoch)
             p == PublishCacheSlot(f, s, epoch, extent, lba, blocks)
  <1>1. SameSession(r, c) /\ (s \in Slots => ~r.slots[s].valid)
    BY ReservingIsSame
  <1> HIDE DEF s, r
  <1>2. SameSession(f, r) /\ (s \in Slots => f.slots[s].data = [at |-> lba, epoch |->
         epoch])
    BY <1>1, FillingIsSame DEF SameSession
  <1> HIDE DEF f
  <1>3. SameSession(p, f)
    <2>1. Sound(f)
      BY <1>2 DEF SameSession
    <2> QED BY <1>2, <2>1, PublishingIsSame
  <1> HIDE DEF p
  <1>4. SameSession(p, c) /\ SameSession(c, c)
    BY <1>1, <1>2, <1>3 DEF SameSession
  <1> QED BY <1>4 DEF RetainExactRead, p, f, r, s

\* Some slot is the first of those that hold a request.
LEMMA FirstOfSlots ==
  ASSUME NEW S, S \subseteq Slots, S # {}
  PROVE  \E s \in S : \A t \in S : s <= t
  <1>1. S \subseteq Nat
    BY ReadaheadAssumption DEF Slots
  <1>2. \E s \in S : \A t \in S : ~(<<t, s>> \in OpToRel(<, Nat))
    BY <1>1, NatLessThanWellFounded, WFMin
  <1>3. \A s, t \in Nat : ~(<<t, s>> \in OpToRel(<, Nat)) => s <= t
    BY DEF OpToRel
  <1> QED BY <1>1, <1>2, <1>3

\* A hit delivers the sectors asked for, read in the epoch it was found in.
LEMMA HitIsFresh ==
  ASSUME NEW c, Sound(c), NEW lba \in Nat, NEW blocks \in Nat,
         CachedSlot(c, c.epoch, lba, blocks) # 0
  PROVE  CopyOf(c.slots[CachedSlot(c, c.epoch, lba, blocks)], lba)
             = [at |-> lba, epoch |-> c.epoch]
  <1> DEFINE hits == {s \in Slots : Live(c.slots[s], c.epoch)
                                    /\ Holds(c.slots[s], lba, blocks)}
             slot == CachedSlot(c, c.epoch, lba, blocks)
  <1>1. hits # {} /\ slot = CHOOSE s \in hits : \A t \in hits : s <= t
    BY DEF CachedSlot
  <1>2. \E s \in hits : \A t \in hits : s <= t
    <2>1. hits \subseteq Slots
      OBVIOUS
    <2> HIDE DEF hits
    <2> QED BY <1>1, <2>1, FirstOfSlots
  <1>3. slot \in hits
    <2> HIDE DEF hits, slot
    <2> QED BY <1>1, <1>2
  <1>4. slot \in Slots /\ Live(c.slots[slot], c.epoch) /\ Holds(c.slots[slot], lba,
         blocks)
    BY <1>3
  <1> HIDE DEF slot, hits
  <1>5. SlotSound(c.slots[slot]) /\ c.slots[slot].valid /\ c.slots[slot].epoch = c.epoch
    BY <1>4 DEF Sound, Live
  <1>6. c.slots[slot].data = [at |-> c.slots[slot].start, epoch |-> c.epoch]
        /\ c.slots[slot].start \in Nat
    BY <1>5 DEF SlotSound
  <1> QED BY <1>6 DEF CopyOf, slot

-----------------------------------------------------------------------------
(* The read under way.                                                     *)

PlanFields == {"kind", "blocks", "extent"}
RequestFields == {"lba", "blocks", "since", "dead", "plan", "epoch", "slot", "out"}

\* A request with all its fields, from the moment it arrived.
RequestSound(r) ==
    /\ r = [f \in RequestFields |-> r[f]]
    /\ r.plan = [f \in PlanFields |-> r.plan[f]]
    /\ r.lba \in Nat /\ r.blocks \in Nat /\ r.since \in Nat /\ r.epoch \in Nat

\* What was found for the request is what was asked for, and fresh.
Answered(r) == r.slot # 0 => r.out.at = r.lba /\ r.out.epoch >= r.since

\* No slot counts while its buffer is being filled.
BufferIsIdle(c, r) ==
    r.plan.kind = "window" /\ r.slot \in Slots => ~c.slots[r.slot].valid

\* A request is never ahead of the context, one that came too late stays too
\* late, and what is in hand at each place of the server answers it.
ReadIsSound ==
    /\ Sound(context) /\ RequestSound(request)
    /\ request.since <= context.epoch
    /\ request.dead => RequestCancelled(context)
    /\ server \in {"gate", "judge"} => request.slot = 0
    /\ server \in {"copied", "finish"} => Answered(request)
    /\ server = "reading" => request.epoch >= request.since
                             /\ BufferIsIdle(context, request)

\* Whatever the worker does to the context is no matter to the read.
LEMMA ContextMoves ==
  ASSUME ReadIsSound, Follows(context', context), context'.slots = context.slots,
         server' = server, request' = request
  PROVE  ReadIsSound'
  <1>1. /\ context.epoch \in Nat /\ context'.epoch \in Nat /\ request.since \in Nat
        /\ context'.epoch >= context.epoch
    BY DEF ReadIsSound, Follows, Sound, RequestSound
  <1>2. request'.since <= context'.epoch
    BY <1>1 DEF ReadIsSound
  <1>3. BufferIsIdle(context, request) => BufferIsIdle(context', request')
    BY DEF BufferIsIdle
  <1> QED BY <1>2, <1>3 DEF ReadIsSound, Follows

\* What the server does without the cache.
LEMMA ServerMoves ==
  ASSUME ReadIsSound, context' = context, request' = request,
         server' \notin {"gate", "judge", "copied", "finish", "reading"}
  PROVE  ReadIsSound'
  BY DEF ReadIsSound

\* A request arrives in the epoch of this moment.
LEMMA ReceivingIsSound ==
  ASSUME ReadIsSound, ReceiveRead
  PROVE  ReadIsSound'
  <1> DEFINE new(lba, blocks) ==
                 [NoRequest EXCEPT !.lba = lba, !.blocks = blocks, !.since =
                        context.epoch,
                                   !.dead = RequestCancelled(context)]
  <1>0. PICK lba \in 0 .. Sectors - 1 :
            \E blocks \in 1 .. Sectors - lba : request' = new(lba, blocks)
    BY DEF ReceiveRead
  <1>1. PICK blocks \in 1 .. Sectors - lba : request' = new(lba, blocks)
    BY <1>0
  <1>2. lba \in Nat /\ blocks \in Nat /\ context.epoch \in Nat
    BY ReadaheadAssumption DEF ReadIsSound, Sound
  <1> HIDE DEF NoRequest
  <1>3. NoRequest = [f \in RequestFields |-> NoRequest[f]]
        /\ NoRequest.plan = [f \in PlanFields |-> NoRequest.plan[f]]
        /\ NoRequest.epoch = 0 /\ NoRequest.slot = 0
    BY DEF NoRequest, RequestFields, PlanFields
  <1>4. request' = [f \in RequestFields |-> request'[f]]
    BY <1>1, <1>3
  <1>5. /\ request'.lba = lba /\ request'.blocks = blocks
        /\ request'.since = context.epoch /\ request'.epoch = 0
        /\ request'.slot = 0 /\ request'.plan = NoRequest.plan
    BY <1>1, <1>3 DEF RequestFields
  <1>6. request'.dead = RequestCancelled(context)
    BY <1>1, <1>3 DEF RequestFields
  <1>7. context' = context /\ server' = "gate"
    BY DEF ReceiveRead, ServerGoes
  <1>8. RequestSound(request')
    BY <1>2, <1>3, <1>4, <1>5 DEF RequestSound
  <1> QED BY <1>2, <1>5, <1>6, <1>7, <1>8 DEF ReadIsSound

\* A hit is copied in the epoch it was found in.
LEMMA GatingIsSound ==
  ASSUME ReadIsSound, Gate
  PROVE  ReadIsSound'
  <1> DEFINE slot == CachedSlot(context, context.epoch, request.lba, request.blocks)
             out == CopyOf(context.slots[slot], request.lba)
  <1>1. CASE RequestCancelled(context) \/ slot = 0
    BY <1>1 DEF Gate, ServerGoes, ReadIsSound, Answered
  <1>2. CASE ~RequestCancelled(context) /\ slot # 0
    <2>1. /\ request' = [request EXCEPT !.epoch = context.epoch, !.slot = slot, !.out
           = out]
          /\ context' = Used(context, slot) /\ server' = "copied"
      BY <1>2 DEF Gate, ServerGoes
    <2>2. out = [at |-> request.lba, epoch |-> context.epoch]
      BY <1>2, HitIsFresh DEF ReadIsSound, RequestSound
    <2> HIDE DEF slot, out
    <2>3. SameSession(context', context)
      BY <2>1, UsingIsSame DEF ReadIsSound
    <2>4. request' = [f \in RequestFields |-> request'[f]]
      BY <2>1 DEF ReadIsSound, RequestSound
    <2>5. /\ request'.lba = request.lba /\ request'.blocks = request.blocks
          /\ request'.since = request.since /\ request'.epoch = context.epoch
          /\ request'.plan = request.plan /\ request'.dead = request.dead
          /\ request'.out = out
      BY <2>1 DEF ReadIsSound, RequestSound, RequestFields
    <2>6. RequestSound(request')
      BY <2>4, <2>5 DEF ReadIsSound, RequestSound, Sound
    <2>7. Answered(request')
      BY <2>2, <2>5 DEF Answered, ReadIsSound, Sound, RequestSound
    <2> QED BY <2>1, <2>3, <2>5, <2>6, <2>7 DEF ReadIsSound, SameSession
  <1> QED BY <1>1, <1>2

\* A copy counts, or nothing of it is kept.
LEMMA JudgingCopyIsSound ==
  ASSUME ReadIsSound, JudgeCopy
  PROVE  ReadIsSound'
  <1>1. CASE request' = request /\ server' = "finish"
    BY <1>1 DEF JudgeCopy, ReadIsSound
  <1>2. CASE request' = [request EXCEPT !.slot = 0] /\ server' = "plan"
    <2>1. request' = [f \in RequestFields |-> request'[f]]
      BY <1>2 DEF ReadIsSound, RequestSound
    <2>2. /\ request'.lba = request.lba /\ request'.blocks = request.blocks
          /\ request'.since = request.since /\ request'.epoch = request.epoch
          /\ request'.plan = request.plan /\ request'.dead = request.dead
      BY <1>2 DEF ReadIsSound, RequestSound, RequestFields
    <2> QED BY <1>2, <2>1, <2>2 DEF JudgeCopy, ReadIsSound, RequestSound
  <1> QED BY <1>1, <1>2 DEF JudgeCopy, ServerGoes

\* A read begins in the epoch of this moment, into a slot that counts for nothing.
LEMMA StartingIsSound ==
  ASSUME ReadIsSound, StartRead
  PROVE  ReadIsSound'
  <1> DEFINE plan == ReadPlan(context, request.lba, request.blocks)
             touched == Touched(context, plan.extent)
             slot == IF plan.kind = "window" THEN Victim(context, context.epoch) ELSE 0
             reserved == ReserveCacheSlot(touched, context.epoch)
  <1>1. /\ request' = [request EXCEPT !.plan = plan, !.epoch = context.epoch, !.slot =
         slot]
        /\ context' = IF slot # 0 THEN reserved ELSE touched
        /\ server' = "reading"
    BY DEF StartRead, ServerGoes
  <1>2. plan = [f \in PlanFields |-> plan[f]]
    BY DEF ReadPlan, PlanFields
  <1> HIDE DEF plan
  <1>3. /\ SameSession(touched, context)
        /\ Victim(touched, context.epoch) = Victim(context, context.epoch)
    BY TouchingIsSame DEF ReadIsSound
  <1> HIDE DEF touched
  <1>4. /\ SameSession(reserved, touched)
        /\ Victim(context, context.epoch) \in Slots =>
               ~reserved.slots[Victim(context, context.epoch)].valid
    BY <1>3, ReservingIsSame DEF SameSession
  <1> HIDE DEF reserved
  <1>5. SameSession(context', context)
    BY <1>1, <1>3, <1>4 DEF SameSession
  <1>6. plan.kind = "window" /\ slot \in Slots => ~context'.slots[slot].valid
    BY <1>1, <1>4, ReadaheadAssumption DEF Slots
  <1> HIDE DEF slot
  <1>7. request' = [f \in RequestFields |-> request'[f]]
    BY <1>1 DEF ReadIsSound, RequestSound
  <1>8. /\ request'.lba = request.lba /\ request'.blocks = request.blocks
        /\ request'.since = request.since /\ request'.epoch = context.epoch
        /\ request'.plan = plan /\ request'.dead = request.dead /\ request'.slot = slot
    BY <1>1 DEF ReadIsSound, RequestSound, RequestFields
  <1>9. RequestSound(request')
    BY <1>2, <1>7, <1>8 DEF ReadIsSound, RequestSound, Sound
  <1>10. BufferIsIdle(context', request')
    BY <1>6, <1>8 DEF BufferIsIdle
  <1> QED BY <1>1, <1>5, <1>8, <1>9, <1>10 DEF ReadIsSound, SameSession, RequestSound,
         Sound

\* What was read is published as what it is, or not at all.
LEMMA SucceedingIsSound ==
  ASSUME ReadIsSound, ReadSucceeds
  PROVE  ReadIsSound'
  <1> DEFINE out == [at |-> request.lba, epoch |-> request.epoch]
             filled == FillSlot(context, request.slot, request.lba, request.epoch)
  <1>1. /\ request' = [request EXCEPT !.out = out, !.slot = 1]
        /\ server = "reading" /\ server' = "finish"
    BY DEF ReadSucceeds, ServerGoes
  <1>2. SameSession(context, context)
    BY DEF ReadIsSound, SameSession
  <1>3. request.epoch \in Nat /\ request.lba \in Nat
    BY DEF ReadIsSound, RequestSound
  <1>4. SameSession(context', context)
    <2>1. CASE request.plan.kind = "window"
      <3>1. /\ SameSession(filled, context)
            /\ request.slot \in Slots => filled.slots[request.slot].data = out
        BY <1>1, <2>1, FillingIsSame DEF ReadIsSound, BufferIsIdle
      <3>2. \/ context' = filled
            \/ context' = PublishCacheSlot(filled, request.slot, request.epoch,
                                           request.plan.extent, request.lba,
                                           request.plan.blocks)
        BY <2>1 DEF ReadSucceeds
      <3> HIDE DEF filled
      <3>3. Sound(filled)
        BY <3>1 DEF SameSession
      <3>4. SameSession(PublishCacheSlot(filled, request.slot, request.epoch,
                          request.plan.extent, request.lba, request.plan.blocks), filled)
        BY <1>3, <3>1, <3>3, PublishingIsSame
      <3> QED BY <3>1, <3>2, <3>4 DEF SameSession
    <2>2. CASE request.plan.kind # "window"
      <3>1. \/ context' = context
            \/ context' = RetainExactRead(context, request.epoch, request.plan.extent,
                                          request.lba, request.plan.blocks)
        BY <2>2 DEF ReadSucceeds
      <3> QED BY <1>2, <1>3, <3>1, RetainingIsSame DEF ReadIsSound
    <2> QED BY <2>1, <2>2
  <1>5. request' = [f \in RequestFields |-> request'[f]]
    BY <1>1 DEF ReadIsSound, RequestSound
  <1>6. /\ request'.lba = request.lba /\ request'.blocks = request.blocks
        /\ request'.since = request.since /\ request'.epoch = request.epoch
        /\ request'.plan = request.plan /\ request'.dead = request.dead
        /\ request'.out = out
    BY <1>1 DEF ReadIsSound, RequestSound, RequestFields
  <1>7. RequestSound(request')
    BY <1>5, <1>6 DEF ReadIsSound, RequestSound
  <1>8. Answered(request')
    BY <1>1, <1>6 DEF ReadIsSound, Answered
  <1> QED BY <1>1, <1>4, <1>6, <1>7, <1>8 DEF ReadIsSound, SameSession

\* A read that failed leaves nothing in hand.
LEMMA FailingIsSound ==
  ASSUME ReadIsSound, ReadFails
  PROVE  ReadIsSound'
  <1>1. /\ request' = [request EXCEPT !.slot = 0] /\ context' = context
        /\ server' \in {"finish", "judge"}
    BY DEF ReadFails, ServerGoes
  <1>2. request' = [f \in RequestFields |-> request'[f]]
    BY <1>1 DEF ReadIsSound, RequestSound
  <1>3. /\ request'.lba = request.lba /\ request'.blocks = request.blocks
        /\ request'.since = request.since /\ request'.epoch = request.epoch
        /\ request'.plan = request.plan /\ request'.dead = request.dead
        /\ request'.slot = 0
    BY <1>1 DEF ReadIsSound, RequestSound, RequestFields
  <1>4. RequestSound(request')
    BY <1>2, <1>3 DEF ReadIsSound, RequestSound
  <1> QED BY <1>1, <1>3, <1>4 DEF ReadIsSound, Answered

\* The second read begins in the epoch behind the look at the medium.
LEMMA JudgingFailureIsSound ==
  ASSUME ReadIsSound, JudgeFailure
  PROVE  ReadIsSound'
  <1>1. PICK ob \in Observations(Generations) :
           /\ context' = ApplyMediaObservation(context, ob)
           /\ \/ server' = "finish" /\ request' = request
              \/ /\ server' = "reading"
                 /\ request' = [request EXCEPT !.plan.kind = "exact",
                                    !.plan.blocks = request.blocks,
                                    !.epoch = context'.epoch]
    BY DEF JudgeFailure, ServerGoes
  <1>2. Follows(context', context)
    BY <1>1, ApplyingFollows DEF ReadIsSound
  <1>3. /\ context.epoch \in Nat /\ context'.epoch \in Nat /\ request.since \in Nat
        /\ request.since <= context.epoch /\ context'.epoch >= context.epoch
    BY <1>2 DEF ReadIsSound, Follows, Sound, RequestSound
  <1>4. request.since <= context'.epoch
    BY <1>3
  <1>5. server = "judge" /\ request.slot = 0
    BY DEF JudgeFailure, ReadIsSound
  <1>6. CASE server' = "finish" /\ request' = request
    BY <1>2, <1>4, <1>5, <1>6 DEF ReadIsSound, Follows, Answered
  <1>7. CASE /\ server' = "reading"
             /\ request' = [request EXCEPT !.plan.kind = "exact",
                                !.plan.blocks = request.blocks, !.epoch = context'.epoch]
    <2>1. request' = [f \in RequestFields |-> request'[f]]
      BY <1>7 DEF ReadIsSound, RequestSound
    <2>2. /\ request'.lba = request.lba /\ request'.blocks = request.blocks
          /\ request'.since = request.since /\ request'.epoch = context'.epoch
          /\ request'.dead = request.dead
          /\ request'.plan = [[request.plan EXCEPT !.kind = "exact"]
                                  EXCEPT !.blocks = request.blocks]
      BY <1>7 DEF ReadIsSound, RequestSound, RequestFields
    <2>3. /\ request'.plan = [f \in PlanFields |-> request'.plan[f]]
          /\ request'.plan.kind = "exact"
      BY <2>2 DEF ReadIsSound, RequestSound, PlanFields
    <2>4. RequestSound(request')
      BY <1>3, <2>1, <2>2, <2>3 DEF ReadIsSound, RequestSound
    <2>5. BufferIsIdle(context', request')
      BY <2>3 DEF BufferIsIdle
    <2> QED BY <1>2, <1>4, <1>7, <2>2, <2>4, <2>5 DEF ReadIsSound, Follows
  <1> QED BY <1>1, <1>6, <1>7

\* After the answer there is no request.
LEMMA FinishingIsSound ==
  ASSUME ReadIsSound, Finish
  PROVE  ReadIsSound'
  <1>1. /\ request' = NoRequest /\ context' = context
        /\ server' \in {"wait", "leave"}
    BY DEF Finish, ServerGoes
  <1>2. RequestSound(NoRequest) /\ NoRequest.dead = FALSE /\ NoRequest.since = 0
    BY DEF NoRequest, RequestSound, RequestFields, PlanFields
  <1> QED BY <1>1, <1>2 DEF ReadIsSound, Sound


\* A new export has an empty cache and no request.
LEMMA InitIsSound ==
  ASSUME Init
  PROVE  ReadIsSound
  <1>1. PICK extents \in ExtentLists, ob \in Observations(Generations) :
            context = NewContext(extents, ob)
    BY DEF Init
  <1> DEFINE b == EstablishMediaBaseline(ob)
             slots == [s \in Slots |-> EmptySlot]
             recent == [s \in Slots |-> s]
  <1>2. b.mediaInvalid \in BOOLEAN
    BY DEF EstablishMediaBaseline
  <1>3. \A s \in Slots : SlotSound(slots[s])
    BY DEF SlotSound, EmptySlot, SlotFields
  <1>4. slots = [s \in Slots |-> slots[s]]
    OBVIOUS
  <1>5. context = [epoch |-> 1, aborted |-> FALSE, closing |-> FALSE,
                   mediaInvalid |-> b.mediaInvalid, generation |-> b.generation,
                   extents |-> extents, touched |-> {}, slots |-> slots,
                   recent |-> recent]
    BY <1>1 DEF NewContext
  <1> HIDE DEF b, slots, recent
  <1>6. context = [f \in ContextFields |-> context[f]]
    BY <1>5 DEF ContextFields
  <1>7. Sound(context) /\ context.epoch = 1
    BY <1>2, <1>3, <1>4, <1>5, <1>6 DEF Sound
  <1>8. RequestSound(NoRequest) /\ NoRequest.dead = FALSE /\ NoRequest.since = 0
    BY DEF NoRequest, RequestSound, RequestFields, PlanFields
  <1> QED BY <1>7, <1>8 DEF Init, ReadIsSound

\* Every step keeps the read sound.
LEMMA ReadStaysSound ==
  ASSUME ReadIsSound, [Next]_vars
  PROVE  ReadIsSound'
  <1> USE DEF threads, export, client, ServerGoes, WorkerGoes
  <1>1. CASE ReceiveRead
    BY <1>1, ReceivingIsSound
  <1>2. CASE Gate
    BY <1>2, GatingIsSound
  <1>3. CASE JudgeCopy
    BY <1>3, JudgingCopyIsSound
  <1>4. CASE StartRead
    BY <1>4, StartingIsSound
  <1>5. CASE ReadSucceeds
    BY <1>5, SucceedingIsSound
  <1>6. CASE ReadFails
    BY <1>6, FailingIsSound
  <1>7. CASE JudgeFailure
    BY <1>7, JudgingFailureIsSound
  <1>8. CASE Finish
    BY <1>8, FinishingIsSound
  <1>9. CASE Loop
    BY <1>9, ServerMoves DEF Loop
  <1>10. CASE Accept
    BY <1>10, ServerMoves DEF Accept
  <1>11. CASE AcceptFails
    BY <1>11, ServerMoves DEF AcceptFails
  <1>12. CASE SetActiveClient
    BY <1>12, ServerMoves DEF SetActiveClient
  <1>13. CASE Negotiate
    BY <1>13, ServerMoves DEF Negotiate
  <1>14. CASE NegotiationFails
    BY <1>14, ServerMoves DEF NegotiationFails
  <1>15. CASE RefuseOther
    BY <1>15, ServerMoves DEF RefuseOther
  <1>16. CASE ReceiveEnds
    BY <1>16, ServerMoves DEF ReceiveEnds
  <1>17. CASE Leave
    BY <1>17, ServerMoves DEF Leave
  <1>18. CASE ObserveMedia
    BY <1>18, JudgingFollows, ContextMoves DEF ObserveMedia, ReadIsSound
  <1>19. CASE ObserveInvalidates
    BY <1>19, InvalidatingFollows, ContextMoves DEF ObserveInvalidates, ReadIsSound
  <1>20. CASE AbortDisc
    BY <1>20, AbortingFollows, ContextMoves DEF AbortDisc, ReadIsSound
  <1>21. CASE CloseDisc
    BY <1>21, ClosingFollows, ContextMoves DEF CloseDisc, ReadIsSound
  <1>22. CASE Connect \/ Disconnect \/ InspectDisc \/ InspectReturns \/ Close
             \/ ShutdownClient \/ WakeLoopback \/ Join \/ PrepareCloseFails \/ Closed
    BY <1>22 DEF ReadIsSound, vars, Connect, Disconnect, InspectDisc, InspectReturns,
           Close, ShutdownClient, WakeLoopback, Join, PrepareCloseFails, Closed
  <1>23. CASE UNCHANGED vars
    BY <1>23 DEF ReadIsSound, vars
  <1> QED BY <1>1, <1>2, <1>3, <1>4, <1>5, <1>6, <1>7, <1>8, <1>9, <1>10, <1>11,
         <1>12, <1>13, <1>14, <1>15, <1>16, <1>17, <1>18, <1>19, <1>20, <1>21, <1>22,
         <1>23 DEF Next, Environment, Server, Worker

\* A step that answers with data answers what was asked for.
LEMMA AnswersAreFresh ==
  ASSUME ReadIsSound, [Next]_vars, server = "finish", reply # "data", reply' = "data"
  PROVE  /\ request.out.at = request.lba
         /\ request.out.epoch >= request.since
         /\ ~request.dead
  <1>1. Finish
    BY DEF Next, Environment, Server, Worker, vars, Connect, Disconnect, Loop, Accept,
           AcceptFails, SetActiveClient, Negotiate, NegotiationFails, ReceiveRead,
           RefuseOther, ReceiveEnds, Gate, JudgeCopy, StartRead, ReadSucceeds,
           ReadFails, JudgeFailure, Leave, ObserveMedia, ObserveInvalidates,
           InspectDisc, InspectReturns, Close, AbortDisc, ShutdownClient,
           WakeLoopback, Join, PrepareCloseFails, CloseDisc, Closed
  <1>2. request.slot # 0 /\ ~RequestCancelled(context)
    BY <1>1 DEF Finish
  <1> QED BY <1>2 DEF ReadIsSound, Answered

\* THEOREM.  Whatever invalidates the cache while a window is read, published
\* or copied, and with any number of slots, a reply carries the sectors asked
\* for, no older than the request, and none for a session that had ended
\* (file_readahead_source.c: copy_cached_request and publish_cache_slot).
THEOREM RepliesAreFresh == Spec => FreshReplies
  <1>1. Init => ReadIsSound
    BY InitIsSound
  <1>2. ReadIsSound /\ [Next]_vars => ReadIsSound'
    BY ReadStaysSound
  <1>3. ReadIsSound /\ [Next]_vars
            => [server = "finish" /\ reply # "data" /\ reply' = "data" =>
                    /\ request.out.at = request.lba
                    /\ request.out.epoch >= request.since
                    /\ ~request.dead]_vars
    BY AnswersAreFresh
  <1> QED BY <1>1, <1>2, <1>3, PTL DEF Spec, FreshReplies
-----------------------------------------------------------------------------
(* The turns, the counters and the files together.                         *)

\* d has the files of c, and n invalidations more.
Keeps(d, c, n) ==
    d.extents = c.extents /\ d.touched = c.touched /\ d.epoch = c.epoch + n

\* The worker's operations on the context leave its files alone.
LEMMA WorkerKeepsFiles ==
  ASSUME NEW c, NEW ob, Sound(c)
  PROVE  /\ Keeps(InvalidateCache(c), c, 1)
         /\ Keeps(JudgeObservation(c, ob), c, 0)
         /\ Keeps(ApplyMediaObservation(c, ob), c, IF Invalidates(c, ob) THEN 1 ELSE 0)
         /\ Keeps(ReadaheadAbort(c), c, 1)
         /\ Keeps(ReadaheadPrepareClose(c), c, 1)
  <1>1. Keeps(InvalidateCache(c), c, 1)
    BY DEF Keeps, InvalidateCache, Sound, ContextFields
  <1>2. Keeps(JudgeObservation(c, ob), c, 0)
    BY DEF Keeps, JudgeObservation, Sound, ContextFields
  <1>3. Keeps(ReadaheadAbort(c), c, 1)
    BY DEF Keeps, ReadaheadAbort, InvalidateCache, Sound, ContextFields
  <1>4. Keeps(ReadaheadPrepareClose(c), c, 1)
    BY DEF Keeps, ReadaheadPrepareClose, InvalidateCache, Sound, ContextFields
  <1>5. Keeps(ApplyMediaObservation(c, ob), c, IF Invalidates(c, ob) THEN 1 ELSE 0)
    <2> DEFINE j == JudgeObservation(c, ob)
    <2>1. Sound(j)
      BY JudgingFollows DEF Follows
    <2> HIDE DEF j
    <2>2. Keeps(InvalidateCache(j), j, 1)
      BY <2>1 DEF Keeps, InvalidateCache, Sound, ContextFields
    <2>3. c.epoch \in Nat /\ j.epoch \in Nat
      BY <2>1 DEF Sound
    <2>4. Keeps(j, c, 0)
      BY <1>2 DEF j
    <2> QED BY <2>2, <2>3, <2>4 DEF ApplyMediaObservation, Keeps, j
  <1> QED BY <1>1, <1>2, <1>3, <1>4, <1>5

\* And so do the operations on its slots.
LEMMA SlotsKeepFiles ==
  ASSUME NEW c, NEW s, NEW epoch, NEW extent, NEW lba, NEW blocks, Sound(c)
  PROVE  /\ Keeps(Used(c, s), c, 0)
         /\ Keeps(ReserveCacheSlot(c, epoch), c, 0)
         /\ Keeps(FillSlot(c, s, lba, epoch), c, 0)
         /\ Keeps(PublishCacheSlot(c, s, epoch, extent, lba, blocks), c, 0)
  <1>1. ASSUME NEW r PROVE Keeps([c EXCEPT !.slots[s] = r], c, 0)
    BY DEF Keeps, Sound, ContextFields
  <1>2. Keeps(Used(c, s), c, 0)
    BY DEF Keeps, Used, Sound, ContextFields
  <1>3. Keeps(ReserveCacheSlot(c, epoch), c, 0)
    BY DEF Keeps, ReserveCacheSlot, Sound, ContextFields
  <1>4. Keeps(FillSlot(c, s, lba, epoch), c, 0)
    BY DEF Keeps, FillSlot, Sound, ContextFields
  <1>5. Keeps(PublishCacheSlot(c, s, epoch, extent, lba, blocks), c, 0)
    <2>1. Keeps(c, c, 0)
      BY DEF Keeps, Sound
    <2>2. ASSUME NEW r PROVE Keeps(Used([c EXCEPT !.slots[s] = r], s), c, 0)
      BY DEF Keeps, Used, Sound, ContextFields
    <2> QED BY <2>1, <2>2 DEF PublishCacheSlot
  <1> QED BY <1>2, <1>3, <1>4, <1>5

LEMMA RetainingKeepsFiles ==
  ASSUME NEW c, NEW epoch \in Nat, NEW extent, NEW lba \in Nat, NEW blocks, Sound(c)
  PROVE  Keeps(RetainExactRead(c, epoch, extent, lba, blocks), c, 0)
  <1> DEFINE s == Victim(c, epoch)
             r == ReserveCacheSlot(c, epoch)
             f == FillSlot(r, s, lba, epoch)
             p == PublishCacheSlot(f, s, epoch, extent, lba, blocks)
  <1>1. Sound(r) /\ Keeps(r, c, 0) /\ (s \in Slots => ~r.slots[s].valid)
    BY ReservingIsSame, SlotsKeepFiles DEF SameSession
  <1> HIDE DEF s, r
  <1>2. Sound(f) /\ Keeps(f, r, 0)
    BY <1>1, FillingIsSame, SlotsKeepFiles DEF SameSession
  <1> HIDE DEF f
  <1>3. Keeps(p, f, 0)
    BY <1>2, SlotsKeepFiles
  <1> HIDE DEF p
  <1>4. c.epoch \in Nat /\ r.epoch \in Nat /\ f.epoch \in Nat
    BY <1>1, <1>2 DEF Sound
  <1>5. Keeps(p, c, 0) /\ Keeps(c, c, 0)
    BY <1>1, <1>2, <1>3, <1>4 DEF Keeps
  <1> QED BY <1>5 DEF RetainExactRead, p, f, r, s
\* Nobody is at the listener who did not connect, except for the wake-up.
ClientsAreCounted ==
    /\ sock \in {"none", "open", "gone", "shut"}
    /\ error \in {"none", "expected", "unexpected"}
    /\ reply \in {"none", "data", "eio", "refused"}
    /\ failed \in BOOLEAN /\ worker \in WorkerStates
    /\ connections \in 0 .. MaxConnections
    /\ backlog \in Nat
    /\ backlog <= connections + 1
    /\ worker \notin {"join", "close", "retained", "freed"} => backlog <= connections

\* Every step of a client, the server and the worker keeps the count.
LEMMA ClientsStayCounted ==
  ASSUME ClientsAreCounted, [Next]_vars
  PROVE  ClientsAreCounted'
  <1> USE NbdAssumption DEF ClientsAreCounted, WorkerStates, vars, threads, export, client,
              ServerGoes, WorkerGoes
  <1>1. CASE Connect BY <1>1 DEF Connect
  <1>2. CASE Disconnect \/ Loop \/ Negotiate \/ NegotiationFails \/ ReceiveRead
             \/ RefuseOther \/ ReceiveEnds
    BY <1>2 DEF Disconnect, Loop, Negotiate, NegotiationFails, ReceiveRead, RefuseOther,
           ReceiveEnds
  <1>3. CASE Accept BY <1>3 DEF Accept
  <1>4. CASE AcceptFails BY <1>4 DEF AcceptFails
  <1>5. CASE SetActiveClient BY <1>5 DEF SetActiveClient
  <1>6. CASE Gate \/ JudgeCopy \/ StartRead \/ ReadSucceeds \/ ReadFails \/ JudgeFailure
    BY <1>6 DEF Gate, JudgeCopy, StartRead, ReadSucceeds, ReadFails, JudgeFailure
  <1>7. CASE Finish BY <1>7 DEF Finish
  <1>8. CASE Leave BY <1>8 DEF Leave
  <1>9. CASE ObserveMedia \/ ObserveInvalidates \/ InspectDisc \/ InspectReturns \/ Close
             \/ AbortDisc \/ ShutdownClient
    BY <1>9 DEF ObserveMedia, ObserveInvalidates, InspectDisc, InspectReturns, Close,
           AbortDisc, ShutdownClient
  <1>10. CASE WakeLoopback BY <1>10 DEF WakeLoopback
  <1>11. CASE Join \/ PrepareCloseFails \/ CloseDisc
    BY <1>11 DEF Join, PrepareCloseFails, CloseDisc
  <1>12. CASE Closed \/ UNCHANGED vars BY <1>12 DEF Closed
  <1> QED BY <1>1, <1>2, <1>3, <1>4, <1>5, <1>6, <1>7, <1>8, <1>9, <1>10, <1>11, <1>12
         DEF Next, Environment, Server, Worker

\* How many invalidations behind those of the observations a place of the
\* worker may have seen: the one it owes, the abort's and the close's.
Raised(w) == IF w = "observed" THEN 0
             ELSE IF w \in {"idle", "inspecting", "abort"} THEN 1
             ELSE IF w = "freed" THEN 3 ELSE 2

EpochsAreCounted ==
    /\ worker \in WorkerStates
    /\ context.epoch \in Nat /\ context.epoch >= 1
    /\ context.epoch <= MaxEpoch + Raised(worker)

\* The files of the disc are those it came with; a window that is read lies in one.
FilesAreKept ==
    /\ context.extents \in ExtentLists
    /\ context.touched \subseteq DOMAIN context.extents
    /\ server = "reading" /\ request.plan.kind = "window" =>
           /\ request.plan.extent # 0
           /\ Within(context.extents, request.plan.extent, request.lba,
                     request.plan.blocks)

\* A step that leaves the files and the read's window alone.
LEMMA FilesStay ==
  ASSUME FilesAreKept, context'.extents = context.extents,
         context'.touched = context.touched,
         server' = "reading" => \/ server = "reading" /\ request' = request
                                \/ request'.plan.kind = "exact"
  PROVE  FilesAreKept'
  BY DEF FilesAreKept, Within

\* The window that is chosen lies in the file that holds the request.
LEMMA PlanStaysInFile ==
  ASSUME NEW c, ValidExtents(c.extents), NEW lba \in Nat, NEW blocks \in Nat
  PROVE  LET plan == ReadPlan(c, lba, blocks)
         IN  /\ plan.extent = ContainingExtent(c.extents, lba, blocks)
             /\ plan.extent # 0 => plan.extent \in DOMAIN c.extents
             /\ plan.kind = "window" =>
                    plan.extent # 0 /\ Within(c.extents, plan.extent, lba, plan.blocks)
  <1> DEFINE extent == ContainingExtent(c.extents, lba, blocks)
             plan == ReadPlan(c, lba, blocks)
             window == WindowFrom(c.extents, extent, lba)
  <1>1. extent # 0 => extent \in DOMAIN c.extents /\ Within(c.extents, extent, lba, blocks)
    BY ContainingIsExact
  <1>2. ASSUME extent # 0
        PROVE  window \in Int /\ lba + window <= ExtentEnd(c.extents[extent])
    <2>1. c.extents[extent].start \in Nat /\ ExtentEnd(c.extents[extent]) \in Nat
      <3>1. c.extents \in Seq(Extents)
        BY DEF ValidExtents
      <3>2. c.extents[extent] \in Extents
        BY <1>1, <1>2, <3>1
      <3>3. c.extents[extent].start \in Nat /\ c.extents[extent].count \in Nat
        BY <3>2 DEF Extents
      <3> QED BY <3>3 DEF ExtentEnd
    <2> DEFINE file == ExtentEnd(c.extents[extent]) - lba
    <2>2. file \in Int /\ lba + file = ExtentEnd(c.extents[extent])
      BY <2>1
    <2>3. window = IF (IF file < Sectors - lba THEN file ELSE Sectors - lba) < WindowBlocks
                   THEN (IF file < Sectors - lba THEN file ELSE Sectors - lba)
                   ELSE WindowBlocks
      BY DEF WindowFrom
    <2> HIDE DEF file, window
    <2>4. window \in Int /\ window <= file
      BY <2>2, <2>3, ReadaheadAssumption
    <2> QED BY <2>1, <2>2, <2>4
  <1>3. plan.extent = extent
    BY DEF ReadPlan
  <1>4. ASSUME plan.kind = "window" PROVE extent # 0 /\ plan.blocks = window
    <2> HIDE DEF extent, window
    <2>1. blocks <= blocks
      OBVIOUS
    <2> QED BY <1>4, <2>1 DEF ReadPlan, extent, window
  <1> HIDE DEF plan, window, extent
  <1> QED BY <1>1, <1>2, <1>3, <1>4 DEF Within, plan, extent
\* What each step does to the context, as far as files and epochs go.
LEMMA ContextIsKept ==
  ASSUME ReadIsSound, [Next]_vars
  PROVE  \/ Keeps(context', context, 0) /\ Raised(worker') = Raised(worker)
         \/ StartRead
         \/ /\ Keeps(context', context, 1) /\ context.epoch < MaxEpoch
            /\ worker' = worker /\ JudgeFailure
         \/ /\ Keeps(context', context, 0) /\ context.epoch < MaxEpoch
            /\ worker = "idle" /\ worker' = "observed" /\ server' = server
            /\ request' = request
         \/ /\ Keeps(context', context, 1) /\ server' = server /\ request' = request
            /\ <<worker, worker'>> \in {<<"observed", "idle">>, <<"abort", "shut">>,
                                        <<"close", "freed">>}
  <1>0. Sound(context) /\ Keeps(context, context, 0)
    <2>1. Sound(context) /\ context.epoch \in Nat
      BY DEF ReadIsSound, Sound
    <2> QED BY <2>1 DEF Keeps
  <1> USE DEF ServerGoes, WorkerGoes, threads, export, client
  <1>1. CASE Connect \/ Disconnect \/ Loop \/ Accept \/ AcceptFails \/ SetActiveClient
             \/ Negotiate \/ NegotiationFails \/ ReceiveRead \/ RefuseOther \/ ReceiveEnds
             \/ JudgeCopy \/ ReadFails \/ Finish \/ Leave
    BY <1>0, <1>1 DEF Connect, Disconnect, Loop, Accept, AcceptFails, SetActiveClient,
           Negotiate, NegotiationFails, ReceiveRead, RefuseOther, ReceiveEnds, JudgeCopy,
           ReadFails, Finish, Leave
  <1>2. CASE InspectDisc \/ InspectReturns \/ Close \/ ShutdownClient \/ WakeLoopback
             \/ Join \/ PrepareCloseFails \/ Closed \/ UNCHANGED vars
    BY <1>0, <1>2 DEF InspectDisc, InspectReturns, Close, ShutdownClient, WakeLoopback,
           Join, PrepareCloseFails, Closed, vars, Raised
  <1>3. CASE Gate
    BY <1>0, <1>3, SlotsKeepFiles DEF Gate
  <1>4. CASE ReadSucceeds
    <2> DEFINE filled == FillSlot(context, request.slot, request.lba, request.epoch)
    <2>1. /\ request.epoch \in Nat /\ request.lba \in Nat /\ context.epoch \in Nat
          /\ server = "reading" /\ worker' = worker
      BY <1>4 DEF ReadSucceeds, ReadIsSound, RequestSound, Sound
    <2>2. CASE request.plan.kind = "window"
      <3>1. Sound(filled) /\ Keeps(filled, context, 0)
        BY <1>0, <2>1, <2>2, FillingIsSame, SlotsKeepFiles
           DEF ReadIsSound, BufferIsIdle, SameSession
      <3>2. \/ context' = filled
            \/ context' = PublishCacheSlot(filled, request.slot, request.epoch,
                                           request.plan.extent, request.lba,
                                           request.plan.blocks)
        BY <1>4, <2>2 DEF ReadSucceeds
      <3> HIDE DEF filled
      <3>3. Keeps(PublishCacheSlot(filled, request.slot, request.epoch,
                     request.plan.extent, request.lba, request.plan.blocks), filled, 0)
        BY <3>1, SlotsKeepFiles
      <3>4. Keeps(context', context, 0)
        BY <2>1, <3>1, <3>2, <3>3 DEF Keeps, Sound
      <3> QED BY <2>1, <3>4
    <2>3. CASE request.plan.kind # "window"
      <3>1. \/ context' = context
            \/ context' = RetainExactRead(context, request.epoch, request.plan.extent,
                                          request.lba, request.plan.blocks)
        BY <1>4, <2>3 DEF ReadSucceeds
      <3> QED BY <1>0, <2>1, <3>1, RetainingKeepsFiles
    <2> QED BY <2>2, <2>3
  <1>5. CASE JudgeFailure
    <2>1. PICK ob \in Observations(Generations) :
             /\ Invalidates(context, ob) => context.epoch < MaxEpoch
             /\ context' = ApplyMediaObservation(context, ob) /\ worker' = worker
      BY <1>5 DEF JudgeFailure
    <2>2. Keeps(context', context, IF Invalidates(context, ob) THEN 1 ELSE 0)
      BY <1>0, <2>1, WorkerKeepsFiles
    <2> QED BY <1>5, <2>1, <2>2
  <1>6. CASE ObserveMedia
    <2>1. PICK ob \in Observations(Generations) :
             /\ Invalidates(context, ob) => context.epoch < MaxEpoch
             /\ context' = JudgeObservation(context, ob)
             /\ worker' = IF Invalidates(context, ob) THEN "observed" ELSE "idle"
      BY <1>6 DEF ObserveMedia
    <2>2. Keeps(context', context, 0)
      BY <1>0, <2>1, WorkerKeepsFiles
    <2>3. worker = "idle" /\ server' = server /\ request' = request
      BY <1>6 DEF ObserveMedia
    <2> QED BY <2>1, <2>2, <2>3
  <1>7. CASE ObserveInvalidates
    BY <1>0, <1>7, WorkerKeepsFiles DEF ObserveInvalidates
  <1>8. CASE AbortDisc
    BY <1>0, <1>8, WorkerKeepsFiles DEF AbortDisc
  <1>9. CASE CloseDisc
    BY <1>0, <1>9, WorkerKeepsFiles DEF CloseDisc
  <1>10. CASE StartRead BY <1>10
  <1> QED BY <1>1, <1>2, <1>3, <1>4, <1>5, <1>6, <1>7, <1>8, <1>9, <1>10
         DEF Next, Environment, Server, Worker

\* A miss touches a file of the index and reads a window of it.
LEMMA StartingKeepsFiles ==
  ASSUME ReadIsSound, FilesAreKept, StartRead
  PROVE  FilesAreKept' /\ context'.epoch = context.epoch /\ worker' = worker
  <1> DEFINE plan == ReadPlan(context, request.lba, request.blocks)
             touched == Touched(context, plan.extent)
             slot == IF plan.kind = "window" THEN Victim(context, context.epoch) ELSE 0
  <1>1. /\ Sound(context) /\ RequestSound(request)
        /\ request.lba \in Nat /\ request.blocks \in Nat
    BY DEF ReadIsSound, RequestSound
  <1>2. /\ request' = [request EXCEPT !.plan = plan, !.epoch = context.epoch, !.slot = slot]
        /\ context' = IF slot # 0 THEN ReserveCacheSlot(touched, context.epoch) ELSE touched
        /\ server' = "reading" /\ worker' = worker
    BY DEF StartRead, ServerGoes
  <1>3. ValidExtents(context.extents)
    BY NbdAssumption DEF FilesAreKept
  <1>4. /\ plan.extent # 0 => plan.extent \in DOMAIN context.extents
        /\ plan.kind = "window" =>
               plan.extent # 0 /\ Within(context.extents, plan.extent, request.lba, plan.blocks)
    BY <1>1, <1>3, PlanStaysInFile
  <1> HIDE DEF plan, slot
  <1>5. /\ touched.extents = context.extents /\ touched.epoch = context.epoch
        /\ touched.touched \subseteq DOMAIN context.extents
    BY <1>1, <1>4 DEF Touched, Sound, ContextFields, FilesAreKept
  <1>6. Sound(touched)
    BY <1>1, TouchingIsSame DEF SameSession
  <1> HIDE DEF touched
  <1>7. /\ context'.extents = context.extents /\ context'.epoch = context.epoch
        /\ context'.touched \subseteq DOMAIN context'.extents
    <2>1. Keeps(ReserveCacheSlot(touched, context.epoch), touched, 0)
      BY <1>6, SlotsKeepFiles
    <2>2. context.epoch \in Nat
      BY <1>1 DEF Sound
    <2> QED BY <1>2, <1>5, <2>1, <2>2 DEF Keeps
  <1>8. request'.plan = plan /\ request'.lba = request.lba
    BY <1>1, <1>2 DEF RequestSound, RequestFields
  <1>9. context'.extents \in ExtentLists
    BY <1>7 DEF FilesAreKept
  <1> QED BY <1>2, <1>4, <1>7, <1>8, <1>9 DEF FilesAreKept, Within

\* Every step keeps the files and counts its invalidation.
LEMMA FilesStayKept ==
  ASSUME ReadIsSound, FilesAreKept, EpochsAreCounted, [Next]_vars, worker' \in WorkerStates
  PROVE  FilesAreKept' /\ EpochsAreCounted'
  <1>1. CASE StartRead
    BY <1>1, StartingKeepsFiles DEF EpochsAreCounted
  <1>2. ASSUME ~StartRead, server' = "reading"
        PROVE  \/ server = "reading" /\ request' = request
               \/ request'.plan.kind = "exact"
    <2>1. CASE JudgeFailure
      <3>1. PICK ob \in Observations(Generations) :
               \/ server' = "finish"
               \/ request' = [request EXCEPT !.plan.kind = "exact",
                                  !.plan.blocks = request.blocks, !.epoch = context'.epoch]
        BY <2>1 DEF JudgeFailure, ServerGoes
      <3>2. request'.plan = [[request.plan EXCEPT !.kind = "exact"]
                                  EXCEPT !.blocks = request.blocks]
        BY <1>2, <3>1 DEF ReadIsSound, RequestSound, RequestFields
      <3> QED BY <3>2 DEF ReadIsSound, RequestSound, PlanFields
    <2>2. CASE ~JudgeFailure
      BY <1>2, <2>2 DEF Next, Environment, Server, Worker, vars, threads, export, client,
             ServerGoes, WorkerGoes, Connect, Disconnect, Loop, Accept,
             AcceptFails, SetActiveClient, Negotiate, NegotiationFails, ReceiveRead,
             RefuseOther, ReceiveEnds, Gate, JudgeCopy, ReadSucceeds,
             ReadFails, Finish, Leave, ObserveMedia, ObserveInvalidates,
             InspectDisc, InspectReturns, Close, AbortDisc, ShutdownClient,
             WakeLoopback, Join, PrepareCloseFails, CloseDisc, Closed
    <2> QED BY <2>1, <2>2
  <1>3. CASE ~StartRead
    <2>1. context.epoch \in Nat /\ context.epoch >= 1 /\ MaxEpoch \in Nat
          /\ context.epoch <= MaxEpoch + Raised(worker)
      BY NbdAssumption DEF EpochsAreCounted
    <2>2. context'.extents = context.extents /\ context'.touched = context.touched
      BY <1>3, ContextIsKept DEF Keeps
    <2>3. FilesAreKept'
      BY <1>2, <1>3, <2>2, FilesStay
    <2>4. /\ context'.epoch \in Nat /\ context'.epoch >= 1
          /\ context'.epoch <= MaxEpoch + Raised(worker')
      <3>1. CASE Keeps(context', context, 0) /\ Raised(worker') = Raised(worker)
        BY <2>1, <3>1 DEF Keeps
      <3>2. CASE Keeps(context', context, 1) /\ context.epoch < MaxEpoch /\ worker' = worker
        BY <2>1, <3>2 DEF Keeps, Raised
      <3>3. CASE /\ Keeps(context', context, 0) /\ context.epoch < MaxEpoch
                 /\ worker' = "observed"
        BY <2>1, <3>3 DEF Keeps, Raised
      <3>4. CASE /\ Keeps(context', context, 1)
                 /\ <<worker, worker'>> \in {<<"observed", "idle">>, <<"abort", "shut">>,
                                             <<"close", "freed">>}
        BY <2>1, <3>4 DEF Keeps, Raised
      <3> QED BY <1>3, <3>1, <3>2, <3>3, <3>4, ContextIsKept
    <2> QED BY <2>3, <2>4 DEF EpochsAreCounted
  <1> QED BY <1>1, <1>3

\* Everything the use of the disc rests on.
UseIsInOrder ==
    TurnsAreTaken /\ ReadIsSound /\ ClientsAreCounted /\ EpochsAreCounted /\ FilesAreKept

\* A new export is in order.
LEMMA UseBeginsInOrder == Init => UseIsInOrder
  <1> SUFFICES ASSUME Init PROVE UseIsInOrder
    OBVIOUS
  <1>1. TurnsAreTaken
    BY DEF Init, TurnsAreTaken, ServerStates, Serving, WorkerStates, Stopping, PastShut,
           PastJoin
  <1>2. ClientsAreCounted
    <2>1. /\ worker = "idle" /\ failed = FALSE /\ sock = "none" /\ error = "none"
          /\ backlog = 0 /\ connections = 0 /\ reply = "none"
      BY DEF Init
    <2>2. 0 \in 0 .. MaxConnections
      BY NbdAssumption
    <2>3. failed \in BOOLEAN
      BY <2>1
    <2>4. connections \in 0 .. MaxConnections
      BY <2>1, <2>2
    <2>5. backlog \in Nat /\ backlog <= connections /\ backlog <= connections + 1
      BY <2>1
    <2>6. worker \in WorkerStates
      BY <2>1 DEF WorkerStates
    <2> QED BY <2>1, <2>3, <2>4, <2>5, <2>6 DEF ClientsAreCounted
  <1>3. PICK extents \in ExtentLists, ob \in Observations(Generations) :
            context = NewContext(extents, ob)
    BY DEF Init
  <1>4. context.epoch = 1 /\ context.extents = extents /\ context.touched = {}
    BY <1>3 DEF NewContext
  <1>5. EpochsAreCounted
    BY <1>4, NbdAssumption DEF Init, EpochsAreCounted, Raised, WorkerStates
  <1>6. FilesAreKept
    BY <1>4 DEF Init, FilesAreKept
  <1> QED BY <1>1, <1>2, <1>5, <1>6, InitIsSound DEF UseIsInOrder

\* And stays so.
LEMMA UseStaysInOrder == UseIsInOrder /\ [Next]_vars => UseIsInOrder'
  <1> SUFFICES ASSUME UseIsInOrder, [Next]_vars PROVE UseIsInOrder'
    OBVIOUS
  <1>1. /\ TurnsAreTaken /\ ReadIsSound /\ ClientsAreCounted /\ EpochsAreCounted
        /\ FilesAreKept
    BY DEF UseIsInOrder
  <1>2. TurnsAreTaken' /\ ReadIsSound' /\ ClientsAreCounted'
    BY <1>1, TurnsStayTaken, ReadStaysSound, ClientsStayCounted
  <1>3. worker' \in WorkerStates
    BY <1>2 DEF TurnsAreTaken
  <1>4. FilesAreKept' /\ EpochsAreCounted'
    BY <1>1, <1>3, FilesStayKept
  <1> QED BY <1>2, <1>4 DEF UseIsInOrder

\* Together they say that the disc is used in turn.
LEMMA OrderIsTurns ==
  ASSUME UseIsInOrder
  PROVE  DiscIsUsedInTurn
  <1>1. /\ TurnsAreTaken /\ ReadIsSound /\ ClientsAreCounted /\ EpochsAreCounted
        /\ FilesAreKept /\ MaxConnections \in Nat /\ MaxEpoch \in Nat
    BY NbdAssumption DEF UseIsInOrder
  <1>2. TypeOK
    <2>1. backlog \in 0 .. MaxConnections + 1
      BY <1>1 DEF ClientsAreCounted
    <2>2. context.epoch \in 1 .. MaxEpoch + 3
      BY <1>1 DEF EpochsAreCounted, Raised
    <2> QED BY <1>1, <2>1, <2>2 DEF TypeOK, TurnsAreTaken, ClientsAreCounted, FilesAreKept
  <1>3. DiscHasOneUser
    BY <1>1 DEF TurnsAreTaken, DiscHasOneUser, PastShut, PastJoin
  <1>4. WindowsStayInFiles
    <2>1. ValidExtents(context.extents) /\ request.lba \in Nat /\ request.blocks \in Nat
      BY <1>1, NbdAssumption DEF FilesAreKept, ReadIsSound, RequestSound
    <2>2. ContainingExtent(context.extents, request.lba, request.blocks) # 0 <=>
             \E i \in DOMAIN context.extents :
                 Within(context.extents, i, request.lba, request.blocks)
      BY <2>1, ContainingIsExact
    <2> QED BY <1>1, <2>2 DEF WindowsStayInFiles, FilesAreKept, Within
  <1> QED BY <1>2, <1>3, <1>4 DEF DiscIsUsedInTurn

\* THEOREM.  Whatever files a disc has, sorted and within it but overlapping at
\* will, and however connections, reads, inspections, observations and the close
\* meet: one user at a time is at the disc, the search finds a file for a request
\* exactly when one holds it, and no read-ahead window leaves the file it is for
\* (nbd_tcp.c, file_readahead_source.c: find_containing_extent, bounded_window_read).
THEOREM DiscStaysInTurn == Spec => []DiscIsUsedInTurn
  <1>1. Init => UseIsInOrder
    BY UseBeginsInOrder
  <1>2. UseIsInOrder /\ [Next]_vars => UseIsInOrder'
    BY UseStaysInOrder
  <1>3. UseIsInOrder => DiscIsUsedInTurn
    BY OrderIsTurns
  <1> QED BY <1>1, <1>2, <1>3, PTL DEF Spec
=============================================================================
