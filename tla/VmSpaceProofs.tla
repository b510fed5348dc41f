----------------------------- MODULE VmSpaceProofs -----------------------------
(***************************************************************************)
(* An address space is safe for every word and page size, every image,     *)
(* zones and requests: its list and its tree agree, no address is in two   *)
(* areas, and a request fails only when there is no room.                  *)
(***************************************************************************)
EXTENDS VmSpace, SequenceTheorems, WellFoundedInduction, TLAPS

\* No area has an address of the l ones from b on.
Clear(b, l) == \A g \in tree : base[g] + len[g] <= b \/ b + l <= base[g]

\* The list is sorted, and its areas follow one another.
Apart ==
  \A i, j \in 1 .. Len(list) : i < j => base[list[i]] + len[list[i]] <= base[list[j]]

\* An area lies in the space; only the end of the last one may wrap around, to addresses
\* before the space.
AreasInSpace ==
  \A a \in tree : /\ Offset <= base[a] /\ 0 < len[a]
                  /\ base[a] + len[a] <= Word + LastAvail + 1

\* Before there is a heap, there are only areas of the start.
StartFirst ==
  heap = None =>
    /\ dynamic = {}
    /\ \A a \in tree : \E x \in Fixed : base[a] = x[1] /\ len[a] <= x[2]

Inv ==
  /\ ListMatchesTree
  /\ Apart
  /\ AreasInSpace
  /\ StartFirst
  /\ heap \notin dynamic
  /\ NoGapMeansFull

-----------------------------------------------------------------------------
(* Numbers and sequences *)

LEMMA ModWord ==
  /\ \A x \in 0 .. Word - 1 : x % Word = x
  /\ \A x \in Word .. 2 * Word - 1 : x % Word = x - Word
  /\ \A x \in -Word .. -1 : x % Word = x + Word
<1>1. Word \in Nat \ {0}
  BY AddressAssumption
<1>2. \A x \in 0 .. Word - 1 : x % Word = x
  BY <1>1
<1>3. \A x \in Word .. 2 * Word - 1 : x % Word = x - Word
  BY <1>1
<1>4. \A x \in -Word .. -1 : x % Word = x + Word
  BY <1>1
<1>. QED
  BY <1>2, <1>3, <1>4

LEMMA Sizes ==
  /\ Word \in Nat \ {0} /\ Offset \in Nat /\ LastAvail \in Nat
  /\ Offset < Word /\ LastAvail + 2 <= Offset
  /\ Address = 0 .. Word - 1
BY AddressAssumption DEF Address

LEMMA SmallMod ==
  ASSUME NEW x \in Nat, x < Word
  PROVE  x % Word = x
BY ModWord, Sizes

LEMMA InnerGap ==
  ASSUME NEW e \in Nat, NEW f \in Nat, e <= f, f < Word
  PROVE  (f - e) % Word = f - e /\ f - e \in Nat /\ f - e < Word
BY SmallMod, Sizes

LEMMA LastGap ==
  ASSUME NEW e \in Nat, Offset <= e, e < Word
  PROVE  /\ (LastAvail - e + 1) % Word = Word + LastAvail + 1 - e
         /\ Word + LastAvail + 1 - e \in Nat
         /\ Word + LastAvail + 1 - e < Word
<1>1. LastAvail - e + 1 \in -Word .. -1
  BY Sizes
<1>2. (LastAvail - e + 1) % Word = LastAvail - e + 1 + Word
  BY <1>1, ModWord
<1>. QED
  BY <1>2, Sizes

LEMMA EndWraps ==
  ASSUME NEW e \in Nat, Word <= e, e <= Word + LastAvail + 1
  PROVE  e % Word = e - Word /\ e - Word \in Nat /\ e - Word < Offset /\ e - Word < Word
<1>1. e \in Word .. 2 * Word - 1
  BY Sizes
<1>. QED
  BY <1>1, ModWord, Sizes

LEMMA GreatestExists ==
  ASSUME NEW n \in Nat, NEW T, T \subseteq 0 .. n, T # {}
  PROVE  \E x \in T : \A y \in T : y <= x
<1>. DEFINE U == {m \in 0 .. n : n - m \in T}
<1>1. \A x \in T : n - x \in 0 .. n /\ n - (n - x) = x
  OBVIOUS
<1>2. U # {} /\ U \subseteq Nat
  <2>1. PICK x \in T : TRUE
    OBVIOUS
  <2>2. n - x \in 0 .. n /\ n - (n - x) \in T
    BY <1>1, <2>1
  <2>3. n - x \in U
    BY <2>2
  <2>4. U \subseteq Nat
    OBVIOUS
  <2>. HIDE DEF U
  <2>. QED
    BY <2>3, <2>4
<1>3. PICK m \in U : \A k \in U : <<k, m>> \notin OpToRel(<, Nat)
  BY <1>2, WFMin, NatLessThanWellFounded
<1>4. \A k \in U : ~(k < m)
  BY <1>2, <1>3 DEF OpToRel
<1>5. n - m \in T /\ m \in 0 .. n
  BY <1>3
<1>6. \A y \in T : y \in Int /\ n - y \in U
  BY <1>1
<1>7. ASSUME NEW y \in T
      PROVE  y <= n - m
  <2>1. y \in Int /\ ~(n - y < m)
    BY <1>4, <1>6
  <2>. QED
    BY <1>5, <2>1
<1>. QED
  BY <1>5, <1>7

LEMMA InsertAtProperties ==
  ASSUME NEW S, NEW s \in Seq(S), NEW i \in 1 .. Len(s) + 1, NEW e \in S
  PROVE  /\ InsertAt(s, i, e) \in Seq(S)
         /\ Len(InsertAt(s, i, e)) = Len(s) + 1
         /\ \A j \in 1 .. Len(s) + 1 :
              InsertAt(s, i, e)[j] = IF j < i THEN s[j] ELSE IF j = i THEN e ELSE s[j - 1]
<1>. DEFINE a == SubSeq(s, 1, i - 1)
            b == SubSeq(s, i, Len(s))
            c == a \o <<e>>
<1>1. Len(s) \in Nat /\ \A j \in 1 .. Len(s) : s[j] \in S
  BY ElementOfSeq, LenProperties
<1>2. a \in Seq(S) /\ Len(a) = i - 1 /\ \A j \in 1 .. i - 1 : a[j] = s[j]
  BY <1>1, SubSeqProperties
<1>3. /\ b \in Seq(S) /\ Len(b) = Len(s) - i + 1
      /\ \A j \in 1 .. Len(s) - i + 1 : b[j] = s[i + j - 1]
  BY <1>1, SubSeqProperties
<1>4. InsertAt(s, i, e) = c \o b
  BY DEF InsertAt
<1>. HIDE DEF a, b
<1>5. <<e>> \in Seq(S) /\ Len(<<e>>) = 1 /\ <<e>>[1] = e
  OBVIOUS
<1>6. /\ c \in Seq(S) /\ Len(c) = i
      /\ \A j \in 1 .. i : c[j] = IF j < i THEN a[j] ELSE e
  BY <1>1, <1>2, <1>5, ConcatProperties
<1>. HIDE DEF c
<1>7. /\ c \o b \in Seq(S) /\ Len(c \o b) = Len(s) + 1
      /\ \A j \in 1 .. Len(s) + 1 : (c \o b)[j] = IF j <= i THEN c[j] ELSE b[j - i]
  BY <1>1, <1>3, <1>6, ConcatProperties
<1>. QED
  BY <1>1, <1>2, <1>3, <1>4, <1>6, <1>7

LEMMA RemoveAtProperties ==
  ASSUME NEW S, NEW s \in Seq(S), NEW i \in 1 .. Len(s)
  PROVE  /\ RemoveAt(s, i) \in Seq(S)
         /\ Len(RemoveAt(s, i)) = Len(s) - 1
         /\ \A j \in 1 .. Len(s) - 1 : RemoveAt(s, i)[j] = IF j < i THEN s[j] ELSE s[j + 1]
<1>. DEFINE a == SubSeq(s, 1, i - 1)
            b == SubSeq(s, i + 1, Len(s))
<1>1. Len(s) \in Nat /\ \A j \in 1 .. Len(s) : s[j] \in S
  BY ElementOfSeq, LenProperties
<1>2. a \in Seq(S) /\ Len(a) = i - 1 /\ \A j \in 1 .. i - 1 : a[j] = s[j]
  BY <1>1, SubSeqProperties
<1>3. b \in Seq(S) /\ Len(b) = Len(s) - i /\ \A j \in 1 .. Len(s) - i : b[j] = s[i + j]
  BY <1>1, SubSeqProperties
<1>4. RemoveAt(s, i) = a \o b
  BY DEF RemoveAt
<1>. HIDE DEF a, b
<1>5. /\ a \o b \in Seq(S) /\ Len(a \o b) = Len(a) + Len(b)
      /\ \A j \in 1 .. Len(a) + Len(b) : (a \o b)[j] = IF j <= Len(a) THEN a[j] ELSE b[j - Len(a)]
  BY <1>2, <1>3, ConcatProperties
<1>. QED
  BY <1>1, <1>2, <1>3, <1>4, <1>5

-----------------------------------------------------------------------------
(* The areas of a state *)

LEMMA AreaTypes ==
  ASSUME Inv
  PROVE  /\ tree \subseteq Area /\ list \in Seq(Area) /\ Len(list) \in Nat
         /\ base \in [Area -> Address] /\ len \in [Area -> Address]
         /\ \A i \in 1 .. Len(list) : list[i] \in tree
         /\ \A a \in tree : \E i \in 1 .. Len(list) : list[i] = a
<1>1. /\ tree \subseteq Area /\ list \in Seq(Area) /\ ToSet(list) = tree
      /\ base \in [Area -> Address] /\ len \in [Area -> Address]
  BY DEF Inv, ListMatchesTree, TypeOK
<1>2. Len(list) \in Nat /\ DOMAIN list = 1 .. Len(list)
  BY <1>1, LenProperties
<1>3. \A i \in 1 .. Len(list) : list[i] \in tree
  BY <1>1, <1>2 DEF ToSet
<1>4. \A a \in tree : \E i \in 1 .. Len(list) : list[i] = a
  BY <1>1, <1>2 DEF ToSet
<1>. QED
  BY <1>1, <1>2, <1>3, <1>4

LEMMA AreaBounds ==
  ASSUME Inv, NEW a \in tree
  PROVE  /\ base[a] \in Nat /\ base[a] < Word /\ Offset <= base[a]
         /\ len[a] \in Nat /\ 0 < len[a] /\ len[a] < Word
         /\ base[a] + len[a] \in Nat
         /\ Offset < base[a] + len[a]
         /\ base[a] + len[a] <= Word + LastAvail + 1
<1>1. base[a] \in Address /\ len[a] \in Address
  BY AreaTypes
<1>2. base[a] \in 0 .. Word - 1 /\ len[a] \in 0 .. Word - 1
  BY <1>1, Sizes
<1>3. Offset <= base[a] /\ 0 < len[a] /\ base[a] + len[a] <= Word + LastAvail + 1
  BY DEF Inv, AreasInSpace
<1>. QED
  BY <1>2, <1>3, Sizes

\* Where the gap behind e ends.
GapEnd(i) == IF i = Len(list) THEN Word + LastAvail + 1 ELSE base[list[i + 1]]

\* The base and the length of gap i.
LEMMA GapValues ==
  ASSUME Inv, NEW i \in Gap
  PROVE  /\ i = 0 => GapBase(i) = Offset
         /\ i > 0 /\ base[list[i]] + len[list[i]] < Word =>
              GapBase(i) = base[list[i]] + len[list[i]]
         /\ i > 0 /\ base[list[i]] + len[list[i]] >= Word => i = Len(list) /\ GapBase(i) < Offset
         /\ GapBase(i) \in Nat
         /\ GapBase(i) < Word
         /\ GapBase(i) >= Offset =>
              /\ GapLength(i) = GapEnd(i) - GapBase(i)
              /\ GapLength(i) \in Nat /\ GapLength(i) < Word
<1>1. Len(list) \in Nat /\ i \in 0 .. Len(list)
  BY AreaTypes DEF Gap
<1>2. CASE i = 0
  <2>1. GapBase(i) = Offset
    BY <1>2 DEF GapBase
  <2>2. ASSUME i # Len(list)
        PROVE  /\ GapLength(i) = base[list[i + 1]] - Offset
               /\ GapLength(i) \in Nat /\ GapLength(i) < Word
    <3>1. list[i + 1] \in tree
      BY <1>1, <2>2, AreaTypes
    <3>. QED
      BY ZenonT(60), <2>1, <2>2, <3>1, AreaBounds, InnerGap, Sizes DEF GapLength
  <2>3. ASSUME i = Len(list)
        PROVE  /\ GapLength(i) = Word + LastAvail + 1 - Offset
               /\ GapLength(i) \in Nat /\ GapLength(i) < Word
    BY <2>1, <2>3, LastGap, Sizes DEF GapLength
  <2>. QED
    BY <1>2, <2>1, <2>2, <2>3, Sizes DEF GapEnd
<1>3. CASE i > 0
  <2>. DEFINE e == base[list[i]] + len[list[i]]
  <2>1. list[i] \in tree
    BY <1>1, <1>3, AreaTypes
  <2>2. e \in Nat /\ e <= Word + LastAvail + 1 /\ Offset < e
    BY <2>1, AreaBounds
  <2>3. GapBase(i) = e % Word
    BY <1>1, <1>3 DEF GapBase
  <2>4. i # Len(list) => /\ e <= base[list[i + 1]] /\ base[list[i + 1]] < Word
                         /\ base[list[i + 1]] \in Nat
    <3>. SUFFICES ASSUME i # Len(list)
                  PROVE  /\ e <= base[list[i + 1]] /\ base[list[i + 1]] < Word
                         /\ base[list[i + 1]] \in Nat
      OBVIOUS
    <3>1. i \in 1 .. Len(list) /\ i + 1 \in 1 .. Len(list) /\ i < i + 1
      BY <1>1, <1>3
    <3>2. list[i + 1] \in tree
      BY <3>1, AreaTypes
    <3>. QED
      BY <3>1, <3>2, AreaBounds DEF Inv, Apart
  <2>. HIDE DEF e
  <2>5. CASE e < Word
    <3>1. GapBase(i) = e
      BY <2>2, <2>3, <2>5, SmallMod
    <3>2. CASE i # Len(list)
      <4>1. /\ GapLength(i) = base[list[i + 1]] - e
            /\ GapLength(i) \in Nat /\ GapLength(i) < Word
        BY <2>2, <2>4, <3>1, <3>2, InnerGap DEF GapLength
      <4>2. GapEnd(i) = base[list[i + 1]]
        BY <3>2 DEF GapEnd
      <4>. QED
        BY <1>3, <2>2, <2>5, <3>1, <4>1, <4>2, Sizes DEF e
    <3>3. CASE i = Len(list)
      <4>1. /\ GapLength(i) = Word + LastAvail + 1 - e
            /\ GapLength(i) \in Nat /\ GapLength(i) < Word
        BY <2>2, <2>5, <3>1, <3>3, LastGap, Sizes DEF GapLength
      <4>2. GapEnd(i) = Word + LastAvail + 1
        BY <3>3 DEF GapEnd
      <4>. QED
        BY <1>3, <2>2, <2>5, <3>1, <4>1, <4>2, Sizes DEF e
    <3>. QED
      BY <3>2, <3>3
  <2>6. CASE e >= Word
    <3>1. GapBase(i) = e - Word /\ e - Word \in Nat /\ e - Word < Offset /\ e - Word < Word
      BY <2>2, <2>3, <2>6, EndWraps
    <3>2. i = Len(list)
      BY <2>2, <2>4, <2>6, Sizes
    <3>3. ~(GapBase(i) >= Offset) /\ GapBase(i) \in Nat /\ GapBase(i) < Word /\ GapBase(i) < Offset
      BY <3>1, Sizes
    <3>. QED
      BY <1>3, <2>2, <2>6, <3>2, <3>3, Sizes DEF e
  <2>. QED
    BY <2>2, <2>5, <2>6, Sizes
<1>. QED
  BY <1>1, <1>2, <1>3

\* What lies inside of a gap overlaps no area.
LEMMA GapIsClear ==
  ASSUME Inv, NEW i \in Gap, GapBase(i) >= Offset,
         NEW l \in Nat, l <= GapLength(i)
  PROVE  /\ Clear(GapBase(i), l)
         /\ GapBase(i) + l <= Word + LastAvail + 1
<1>. DEFINE b == GapBase(i)
            n == GapLength(i)
            Base(j) == base[list[j]]
            End(j) == base[list[j]] + len[list[j]]
<1>1. Len(list) \in Nat /\ i \in 0 .. Len(list)
  BY AreaTypes DEF Gap
<1>2. ASSUME NEW j \in 1 .. Len(list)
      PROVE  /\ Base(j) \in Nat /\ Base(j) < Word /\ Base(j) < End(j) /\ End(j) \in Nat
             /\ End(j) <= Word + LastAvail + 1
  BY AreaTypes, AreaBounds
<1>3. \A j, k \in 1 .. Len(list) : j < k => End(j) <= Base(k)
  BY DEF Inv, Apart
<1>4. b \in Nat /\ n \in Nat /\ n = GapEnd(i) - b
  BY GapValues
<1>5. i > 0 => End(i) = b
  <2>. SUFFICES ASSUME i > 0 PROVE End(i) = b
    OBVIOUS
  <2>1. i \in 1 .. Len(list)
    BY <1>1
  <2>2. End(i) \in Nat
    BY <1>2, <2>1
  <2>3. ~(GapBase(i) < Offset)
    BY <1>4, Sizes
  <2>4. ~(End(i) >= Word)
    BY <2>3, GapValues
  <2>5. End(i) < Word
    BY <2>2, <2>4, Sizes
  <2>. QED
    BY <2>5, GapValues
<1>6. i < Len(list) => GapEnd(i) = Base(i + 1)
  BY <1>1 DEF GapEnd
<1>. HIDE DEF b, n, Base, End
<1>8. ASSUME NEW j \in 1 .. Len(list), j <= i
      PROVE  End(j) <= b
  <2>1. i \in 1 .. Len(list) /\ End(i) = b
    BY <1>1, <1>5, <1>8
  <2>2. CASE j = i
    BY <2>1, <2>2, <1>4
  <2>3. CASE j < i
    BY <1>2, <1>3, <2>1, <2>3
  <2>. QED
    BY <1>1, <1>8, <2>2, <2>3
<1>9. ASSUME NEW j \in 1 .. Len(list), j > i
      PROVE  b + l <= Base(j)
  <2>1. i + 1 \in 1 .. Len(list) /\ i < Len(list)
    BY <1>1, <1>9
  <2>2. b + l <= Base(i + 1) /\ Base(i + 1) \in Nat
    BY <1>2, <1>4, <1>6, <2>1 DEF n
  <2>3. CASE j = i + 1
    BY <2>2, <2>3
  <2>4. CASE j > i + 1
    BY <1>2, <1>3, <1>4, <2>1, <2>2, <2>4
  <2>. QED
    BY <1>1, <1>9, <2>3, <2>4
<1>7. \A g \in tree : base[g] + len[g] <= b \/ b + l <= base[g]
  <2>. SUFFICES ASSUME NEW g \in tree PROVE base[g] + len[g] <= b \/ b + l <= base[g]
    OBVIOUS
  <2>1. PICK j \in 1 .. Len(list) : list[j] = g
    BY AreaTypes
  <2>2. j <= i \/ j > i
    BY <1>1
  <2>. QED
    BY <1>8, <1>9, <2>1, <2>2 DEF Base, End
<1>10. b + l <= Word + LastAvail + 1
  <2>1. CASE i = Len(list)
    BY <1>4, <2>1, Sizes DEF n, GapEnd
  <2>2. CASE i # Len(list)
    <3>1. i + 1 \in 1 .. Len(list) /\ i + 1 > i
      BY <1>1, <2>2
    <3>. QED
      BY <1>2, <1>4, <1>9, <3>1, Sizes
  <2>. QED
    BY <2>1, <2>2
<1>. QED
  BY <1>7, <1>10 DEF Clear, b

\* rbtree_search_max finds the place in the list at which a free run is.
LEMMA PlaceFound ==
  ASSUME Inv, NEW b \in Address, NEW l \in Nat, 0 < l, Clear(b, l)
  PROVE  /\ Neighbour(b) \in 0 .. Len(list)
         /\ \A j \in 1 .. Len(list) :
              /\ j <= Neighbour(b) => base[list[j]] + len[list[j]] <= b
              /\ j > Neighbour(b) => b + l <= base[list[j]]
<1>. DEFINE left == {i \in 1 .. Len(list) : list[i] \in tree /\ base[list[i]] <= b}
            Base(j) == base[list[j]]
            End(j) == base[list[j]] + len[list[j]]
<1>1. Len(list) \in Nat /\ b \in Nat
  BY AreaTypes, Sizes
<1>2. ASSUME NEW j \in 1 .. Len(list)
      PROVE  /\ Base(j) \in Nat /\ Base(j) < End(j) /\ End(j) \in Nat
             /\ End(j) <= b \/ b + l <= Base(j)
             /\ j \in left <=> Base(j) <= b
  BY AreaTypes, AreaBounds DEF Clear
<1>3. \A j, k \in 1 .. Len(list) : j < k => End(j) <= Base(k)
  BY DEF Inv, Apart
<1>4. left \subseteq 0 .. Len(list) /\ left \subseteq 1 .. Len(list)
  OBVIOUS
<1>5. Neighbour(b) = IF left = {} THEN 0 ELSE CHOOSE i \in left : \A j \in left : Base(j) <= Base(i)
  BY DEF Neighbour
<1>. HIDE DEF left, Base, End
<1>6. CASE left = {}
  <2>1. Neighbour(b) = 0
    BY <1>5, <1>6
  <2>2. ASSUME NEW j \in 1 .. Len(list)
        PROVE  b + l <= Base(j)
    BY <1>1, <1>2, <1>6
  <2>. QED
    BY <1>1, <2>1, <2>2 DEF Base
<1>7. CASE left # {}
  <2>1. PICK k \in left : \A j \in left : j <= k
    BY <1>1, <1>4, <1>7, GreatestExists
  <2>2. \A j \in left : Base(j) <= Base(k)
    BY <1>2, <1>3, <1>4, <2>1
  <2>3. Neighbour(b) \in left /\ \A j \in left : Base(j) <= Base(Neighbour(b))
    BY <1>5, <1>7, <2>2
  <2>. DEFINE i == Neighbour(b)
  <2>. HIDE DEF i
  <2>4. i \in 1 .. Len(list) /\ Base(i) <= b /\ i \in left
    BY <1>2, <1>4, <2>3 DEF i
  <2>5. End(i) <= b
    BY <1>1, <1>2, <2>4
  <2>6. ASSUME NEW j \in 1 .. Len(list), j <= i
        PROVE  End(j) <= b
    <3>1. CASE j = i
      BY <2>5, <3>1
    <3>2. CASE j < i
      BY <1>1, <1>2, <1>3, <2>4, <3>2
    <3>. QED
      BY <2>4, <2>6, <3>1, <3>2
  <2>7. ASSUME NEW j \in 1 .. Len(list), j > i
        PROVE  b + l <= Base(j)
    <3>1. Base(i) < Base(j)
      BY <1>2, <1>3, <2>4, <2>7
    <3>2. j \notin left
      BY <1>2, <2>3, <2>4, <3>1 DEF i
    <3>. QED
      BY <1>1, <1>2, <3>2
  <2>. QED
    BY <1>1, <2>4, <2>6, <2>7 DEF i, Base, End
<1>. QED
  BY <1>6, <1>7

-----------------------------------------------------------------------------
(* The addresses of an area *)

Arc(b, l) == {(b + n) % Word : n \in 0 .. l - 1}

LEMMA ArcAddresses ==
  ASSUME NEW b \in Nat, NEW l \in Nat, b < Word, b + l <= Word + LastAvail + 1
  PROVE  /\ Arc(b, l) \subseteq Address
         /\ \A x \in Arc(b, l) : (b <= x /\ x < b + l) \/ (x < Offset /\ Word < b + l)
         /\ \A x \in b .. b + l - 1 : x < Word => x \in Arc(b, l)
<1>1. ASSUME NEW n \in 0 .. l - 1
      PROVE  LET x == (b + n) % Word
             IN  /\ x \in Address
                 /\ (b <= x /\ x < b + l) \/ (x < Offset /\ Word < b + l)
  <2>1. CASE b + n < Word
    <3>1. (b + n) % Word = b + n
      BY <2>1, SmallMod
    <3>. QED
      BY <2>1, <3>1, Sizes
  <2>2. CASE b + n >= Word
    <3>1. /\ (b + n) % Word = b + n - Word
          /\ b + n - Word \in Nat /\ b + n - Word < Offset /\ b + n - Word < Word
      BY <2>2, EndWraps, Sizes
    <3>. QED
      BY <2>2, <3>1, Sizes
  <2>. QED
    BY <2>1, <2>2, Sizes
<1>2. ASSUME NEW x \in b .. b + l - 1, x < Word
      PROVE  x \in Arc(b, l)
  <2>1. x - b \in 0 .. l - 1 /\ b + (x - b) = x /\ x % Word = x
    BY <1>2, SmallMod
  <2>. QED
    BY <2>1 DEF Arc
<1>. QED
  BY <1>1, <1>2 DEF Arc

LEMMA ArcsDisjoint ==
  ASSUME NEW b \in Nat, NEW l \in Nat, NEW c \in Nat, NEW m \in Nat,
         Offset <= b, b + l <= c, c < Word, c + m <= Word + LastAvail + 1
  PROVE  Arc(b, l) \cap Arc(c, m) = {}
<1>1. b < Word /\ b + l <= Word + LastAvail + 1 /\ ~(Word < b + l)
  BY Sizes
<1>2. ASSUME NEW x \in Arc(b, l)
      PROVE  b <= x /\ x < c /\ x \in Int
  BY <1>1, ArcAddresses, Sizes
<1>3. ASSUME NEW x \in Arc(c, m)
      PROVE  (c <= x \/ x < b) /\ x \in Int
  BY ArcAddresses, Sizes
<1>. QED
  BY <1>2, <1>3

\* No address is in two areas.
LEMMA SpansDisjoint ==
  ASSUME Inv, NEW a \in tree, NEW g \in tree, a # g
  PROVE  Span(a) \cap Span(g) = {} /\ Span(a) # {}
<1>1. PICK i, j \in 1 .. Len(list) : list[i] = a /\ list[j] = g
  BY AreaTypes
<1>2. i < j \/ j < i
  BY <1>1
<1>3. base[a] + len[a] <= base[g] \/ base[g] + len[g] <= base[a]
  BY <1>1, <1>2 DEF Inv, Apart
<1>4. Arc(base[a], len[a]) \cap Arc(base[g], len[g]) = {}
  BY <1>3, AreaBounds, ArcsDisjoint
<1>5. base[a] \in Arc(base[a], len[a])
  BY AreaBounds, ArcAddresses
<1>. QED
  BY <1>4, <1>5 DEF Arc, Span

-----------------------------------------------------------------------------
(* vm_space_insert_area *)

\* The regions that Regions sees, and those after an area at b was added.
Spans == {Span(a) : a \in tree}

\* An insertion where nothing overlaps the l addresses from b on.
LEMMA InsertKeeps ==
  ASSUME Inv, NEW a \in Area, a \notin tree, fault = "none",
         NEW b \in Address, NEW l \in Nat, NEW keep \in Address,
         Offset <= b, 0 < keep, keep <= l, b + l <= Word + LastAvail + 1,
         Clear(b, l), Insert(a, b, l, keep)
  PROVE  /\ fault' \in {"none", "check_align"}
         /\ dynamic' \subseteq tree' /\ heap' \in tree' \cup {None} /\ refused' \in Address
              => ListMatchesTree'
         /\ Apart'
         /\ AreasInSpace'
         /\ fault' # "none" => UNCHANGED <<tree, list, base, len>>
         /\ fault' = "none" =>
              /\ tree' = tree \cup {a}
              /\ base'[a] = b /\ len'[a] = keep
              /\ \A g \in tree : base'[g] = base[g] /\ len'[g] = len[g]
         /\ [R!Add]_Spans
<1>1. b \in Nat /\ b < Word /\ keep \in Nat /\ 0 < l
  BY Sizes
<1>2. \A g \in tree : /\ base[g] \in Nat /\ len[g] \in Nat
                      /\ base[g] + len[g] <= b \/ b + l <= base[g]
  BY AreaBounds DEF Clear
<1>3. NoOverlap(b, l)
  <2>. SUFFICES ASSUME NEW g \in tree
                PROVE  /\ base[g] < b => (base[g] + len[g] - 1) % Word < b
                       /\ base[g] > b => (b + l - 1) % Word < base[g]
    BY DEF NoOverlap, EndsBefore
  <2>1. /\ base[g] \in Nat /\ len[g] \in Nat /\ 0 < len[g] /\ base[g] < Word
        /\ base[g] + len[g] <= b \/ b + l <= base[g]
    BY <1>2, AreaBounds
  <2>2. CASE base[g] + len[g] <= b
    <3>1. base[g] + len[g] - 1 \in Nat /\ base[g] + len[g] - 1 < b
      BY <1>1, <2>1, <2>2
    <3>. QED
      <4>1. base[g] + len[g] - 1 < Word
        BY <1>1, <3>1, Sizes
      <4>2. (base[g] + len[g] - 1) % Word = base[g] + len[g] - 1
        BY <3>1, <4>1, SmallMod
      <4>. QED
        BY <1>1, <2>1, <2>2, <3>1, <4>2
  <2>3. CASE b + l <= base[g]
    <3>1. b + l - 1 \in Nat /\ b + l - 1 < Word
      BY <1>1, <2>1, <2>3, Sizes
    <3>. QED
      BY <1>1, <2>1, <2>3, <3>1, SmallMod
  <2>. QED
    BY <2>1, <2>2, <2>3
<1>4. fault' \in {"none", "check_align"}
  <2>1. ~(b < Offset)
    BY <1>1, Sizes
  <2>. QED
    BY <1>3, <2>1 DEF Insert
<1>5. CASE fault' # "none"
  <2>1. UNCHANGED <<tree, list, base, len>>
    BY <1>5 DEF Insert
  <2>2. Apart' /\ AreasInSpace' /\ Spans' = Spans
    BY <2>1 DEF Inv, Apart, AreasInSpace, Spans, Span
  <2>3. dynamic' \subseteq tree' /\ heap' \in tree' \cup {None} /\ refused' \in Address
          => ListMatchesTree'
    BY <1>4, <2>1 DEF Inv, ListMatchesTree, TypeOK
  <2>. QED
    BY <1>4, <1>5, <2>1, <2>2, <2>3
<1>6. CASE fault' = "none"
  <2>. DEFINE i == Neighbour(b)
  <2>1. /\ tree' = tree \cup {a}
        /\ list' = InsertAt(list, i + 1, a)
        /\ base' = [base EXCEPT ![a] = b]
        /\ len' = [len EXCEPT ![a] = keep]
    BY <1>6 DEF Insert
  <2>2. /\ base' \in [Area -> Address] /\ len' \in [Area -> Address] /\ tree' \subseteq Area
        /\ base'[a] = b /\ len'[a] = keep
        /\ \A g \in tree : base'[g] = base[g] /\ len'[g] = len[g]
    BY <2>1, AreaTypes
  <2>3. /\ i \in 0 .. Len(list)
        /\ \A j \in 1 .. Len(list) :
             /\ j <= i => base[list[j]] + len[list[j]] <= b
             /\ j > i => b + l <= base[list[j]]
    BY <1>1, PlaceFound
  <2>. HIDE DEF i
  <2>4. Len(list) \in Nat /\ list \in Seq(Area) /\ i + 1 \in 1 .. Len(list) + 1
    BY <2>3, AreaTypes
  <2>5. /\ list' \in Seq(Area) /\ Len(list') = Len(list) + 1
        /\ \A j \in 1 .. Len(list) + 1 :
             list'[j] = IF j < i + 1 THEN list[j] ELSE IF j = i + 1 THEN a ELSE list[j - 1]
    <3>1. list' = InsertAt(list, i + 1, a)
      BY <2>1 DEF i
    <3>2. Len(list) + 1 \in Nat
      BY <2>4
    <3>. DEFINE k == i + 1
    <3>3. k \in 1 .. Len(list) + 1
      BY <2>4
    <3>. HIDE DEF k
    <3>4. /\ InsertAt(list, k, a) \in Seq(Area) /\ Len(InsertAt(list, k, a)) = Len(list) + 1
          /\ \A j \in 1 .. Len(list) + 1 : InsertAt(list, k, a)[j] =
               IF j < k THEN list[j] ELSE IF j = k THEN a ELSE list[j - 1]
      BY <2>4, <3>3, InsertAtProperties
    <3>5. list' = InsertAt(list, k, a)
      BY <3>1 DEF k
    <3>. QED
      BY <3>4, <3>5 DEF k
  <2>6. ToSet(list') = tree'
    <3>1. ToSet(list') = {list'[j] : j \in 1 .. Len(list) + 1}
      BY <2>4, <2>5 DEF ToSet
    <3>2. ASSUME NEW j \in 1 .. Len(list) + 1
          PROVE  list'[j] \in tree'
      <4>1. j < i + 1 => j \in 1 .. Len(list)
        BY <2>3, <2>4
      <4>2. j > i + 1 => j - 1 \in 1 .. Len(list)
        BY <2>3, <2>4
      <4>3. j < i + 1 \/ j = i + 1 \/ j > i + 1
        BY <2>4
      <4>4. CASE j < i + 1
        BY <2>1, <2>5, <4>1, <4>4, AreaTypes
      <4>5. CASE j = i + 1
        BY <2>1, <2>5, <4>5
      <4>6. CASE j > i + 1
        <5>1. list'[j] = list[j - 1]
          BY <2>3, <2>4, <2>5, <4>6
        <5>. QED
          BY <2>1, <4>2, <4>6, <5>1, AreaTypes
      <4>. QED
        BY <4>3, <4>4, <4>5, <4>6
    <3>3. ASSUME NEW g \in tree'
          PROVE  \E j \in 1 .. Len(list) + 1 : list'[j] = g
      <4>1. CASE g = a
        BY <2>4, <2>5, <4>1
      <4>2. CASE g # a
        <5>1. PICK j \in 1 .. Len(list) : list[j] = g
          BY <2>1, <4>2, AreaTypes
        <5>2. j <= i => list'[j] = g
          BY <2>3, <2>4, <2>5, <5>1
        <5>3. j > i => list'[j + 1] = g /\ j + 1 \in 1 .. Len(list) + 1
          BY <2>3, <2>4, <2>5, <5>1
        <5>. QED
          BY <2>3, <2>4, <5>1, <5>2, <5>3
      <4>. QED
        BY <4>1, <4>2
    <3>. QED
      BY <3>1, <3>2, <3>3
  <2>7. ASSUME NEW j \in 1 .. Len(list')
        PROVE  /\ j <= i => /\ j \in 1 .. Len(list)
                            /\ base'[list'[j]] = base[list[j]] /\ len'[list'[j]] = len[list[j]]
               /\ j = i + 1 => base'[list'[j]] = b /\ len'[list'[j]] = keep
               /\ j > i + 1 => /\ j - 1 \in 1 .. Len(list)
                               /\ base'[list'[j]] = base[list[j - 1]]
                               /\ len'[list'[j]] = len[list[j - 1]]
               /\ base'[list'[j]] \in Nat /\ len'[list'[j]] \in Nat /\ 0 < len'[list'[j]]
    <3>1. CASE j <= i
      <4>1. j \in 1 .. Len(list) /\ list'[j] = list[j] /\ list[j] \in tree
        BY <2>3, <2>4, <2>5, <3>1, AreaTypes
      <4>. QED
        BY <2>2, <2>3, <3>1, <4>1, AreaBounds
    <3>2. CASE j = i + 1
      BY <1>1, <2>2, <2>3, <2>4, <2>5, <3>2
    <3>3. CASE j > i + 1
      <4>1. j - 1 \in 1 .. Len(list) /\ list'[j] = list[j - 1] /\ list[j - 1] \in tree
        BY SMTT(30), <2>3, <2>4, <2>5, <3>3, AreaTypes
      <4>. QED
        BY <2>2, <2>3, <3>3, <4>1, AreaBounds
    <3>. QED
      BY <2>3, <2>4, <2>5, <3>1, <3>2, <3>3
  <2>8. Apart'
    <3>. SUFFICES ASSUME NEW j \in 1 .. Len(list'), NEW k \in 1 .. Len(list'), j < k
                  PROVE  base'[list'[j]] + len'[list'[j]] <= base'[list'[k]]
      BY DEF Apart
    <3>1. \A m, n \in 1 .. Len(list) : m < n => base[list[m]] + len[list[m]] <= base[list[n]]
      BY DEF Inv, Apart
    <3>2. CASE k <= i
      <4>1. j \in 1 .. Len(list) /\ k \in 1 .. Len(list) /\ j <= i
        BY <2>3, <2>4, <2>7, <3>2
      <4>. QED
        BY <2>7, <3>1, <3>2, <4>1
    <3>6. CASE j > i + 1
      <4>1. j - 1 \in 1 .. Len(list) /\ k - 1 \in 1 .. Len(list) /\ j - 1 < k - 1 /\ k > i + 1
        BY <2>3, <2>4, <2>7, <3>6
      <4>. QED
        BY <2>7, <3>1, <3>6, <4>1
    <3>3. CASE j <= i /\ k = i + 1
      BY <2>3, <2>7, <3>3
    <3>4. CASE j <= i /\ k > i + 1
      <4>1. /\ j \in 1 .. Len(list) /\ k - 1 \in 1 .. Len(list) /\ j < k - 1
        BY <2>3, <2>4, <2>7, <3>4
      <4>. QED
        BY <2>7, <3>1, <3>4, <4>1
    <3>5. CASE j = i + 1
      <4>1. k > i + 1 /\ k - 1 \in 1 .. Len(list) /\ k - 1 > i
        BY <2>3, <2>4, <2>7, <3>5
      <4>2. b + l <= base[list[k - 1]]
        BY <2>3, <4>1
      <4>3. list[k - 1] \in tree
        BY <4>1, AreaTypes
      <4>. QED
        BY SMTT(30), <1>1, <1>2, <2>7, <3>5, <4>1, <4>2, <4>3
    <3>. QED
      BY <2>3, <2>4, <2>5, <3>2, <3>3, <3>4, <3>5, <3>6
  <2>9. AreasInSpace'
    <3>1. b + keep <= Word + LastAvail + 1
      BY <1>1, Sizes
    <3>. QED
      BY <2>1, <2>2, <3>1 DEF AreasInSpace, Inv
  <2>10. dynamic' \subseteq tree' /\ heap' \in tree' \cup {None} /\ refused' \in Address
           => ListMatchesTree'
    <3>1. \A j, k \in 1 .. Len(list') : j < k => base'[list'[j]] < base'[list'[k]]
      BY <2>7, <2>8 DEF Apart
    <3>. QED
      BY <1>6, <2>2, <2>5, <2>6, <3>1 DEF ListMatchesTree, TypeOK
  <2>11. R!Add
    <3>1. \A g \in tree : Span(g)' = Span(g)
      BY <2>2 DEF Span
    <3>2. Span(a)' = Arc(b, keep)
      BY <2>2 DEF Span, Arc
    <3>3. Spans' = Spans \cup {Arc(b, keep)}
      BY <2>1, <3>1, <3>2 DEF Spans
    <3>4. b + keep <= Word + LastAvail + 1
      BY <1>1, Sizes
    <3>5. Arc(b, keep) \subseteq Address /\ Arc(b, keep) # {}
      <4>1. b \in Arc(b, keep)
        BY <1>1, <3>4, ArcAddresses
      <4>. QED
        BY <1>1, <3>4, <4>1, ArcAddresses
    <3>6. ASSUME NEW g \in tree
          PROVE  Span(g) \cap Arc(b, keep) = {}
      <4>1. base[g] + len[g] <= b \/ b + keep <= base[g]
        BY <1>1, <1>2
      <4>2. Arc(base[g], len[g]) \cap Arc(b, keep) = {}
        BY <1>1, <3>4, <4>1, AreaBounds, ArcsDisjoint
      <4>. QED
        BY <4>2 DEF Arc, Span
    <3>. QED
      BY <3>3, <3>5, <3>6 DEF R!Add, Spans
  <2>. QED
    BY <1>4, <1>6, <2>1, <2>2, <2>8, <2>9, <2>10, <2>11
<1>. QED
  BY <1>5, <1>6

-----------------------------------------------------------------------------
LEMMA InvInit == Init => Inv
<1>. SUFFICES ASSUME Init PROVE Inv
  OBVIOUS
<1>1. tree = {} /\ list = <<>> /\ Len(list) = 0 /\ dynamic = {} /\ heap = None /\ fault = "none"
  BY DEF Init
<1>2. ListMatchesTree
  <2>1. 0 \in Address
    BY Sizes
  <2>2. TypeOK
    BY <2>1 DEF Init, TypeOK
  <2>3. ToSet(list) = tree
    BY <1>1 DEF ToSet
  <2>. QED
    BY <1>1, <2>2, <2>3 DEF ListMatchesTree
<1>. QED
  BY <1>1, <1>2 DEF Inv, Apart, AreasInSpace, StartFirst, NoGapMeansFull

\* The areas of the start do not overlap those that are there.
LEMMA InsertFixedKeepsInv ==
  ASSUME Inv, NEW a \in Area, NEW x \in Fixed, NEW keep \in Address, 0 < keep, keep <= x[2],
         InsertFixed(a, x[1], x[2], keep)
  PROVE  Inv' /\ [R!Add]_Spans
<1>1. /\ a \notin tree /\ fault = "none" /\ heap = None /\ \A g \in tree : base[g] # x[1]
      /\ Insert(a, x[1], x[2], keep)
      /\ UNCHANGED <<dynamic, heap, refused>>
  BY DEF InsertFixed
<1>2. x[1] \in Address /\ x[2] \in Address
  BY FixedAssumption DEF Fixed
<1>3. /\ x[1] \in Nat /\ x[2] \in Nat /\ Offset <= x[1] /\ x[1] + x[2] < Word
      /\ x[1] + x[2] <= Word + LastAvail + 1
  BY <1>2, FixedAssumption, Sizes
<1>4. Clear(x[1], x[2])
  <2>. SUFFICES ASSUME NEW g \in tree
                PROVE  base[g] + len[g] <= x[1] \/ x[1] + x[2] <= base[g]
    BY DEF Clear
  <2>1. PICK y \in Fixed : base[g] = y[1] /\ len[g] <= y[2]
    BY <1>1 DEF Inv, StartFirst
  <2>2. y # x
    BY <1>1, <2>1
  <2>3. x[1] + x[2] <= y[1] \/ y[1] + y[2] <= x[1]
    BY <2>2, FixedAssumption
  <2>4. y[1] \in Address /\ y[2] \in Address
    BY FixedAssumption DEF Fixed
  <2>. QED
    BY SMTT(30), <1>3, <2>1, <2>3, <2>4, AreaBounds, Sizes
<1>5. /\ fault' \in {"none", "check_align"}
      /\ dynamic' \subseteq tree' /\ heap' \in tree' \cup {None} /\ refused' \in Address
           => ListMatchesTree'
      /\ Apart' /\ AreasInSpace'
      /\ fault' # "none" => UNCHANGED <<tree, list, base, len>>
      /\ fault' = "none" =>
           /\ tree' = tree \cup {a}
           /\ base'[a] = x[1] /\ len'[a] = keep
           /\ \A g \in tree : base'[g] = base[g] /\ len'[g] = len[g]
      /\ [R!Add]_Spans
  BY <1>1, <1>2, <1>3, <1>4, InsertKeeps
<1>6. dynamic' \subseteq tree' /\ heap' \in tree' \cup {None} /\ refused' \in Address
  BY <1>1, <1>5 DEF Inv, ListMatchesTree, TypeOK, StartFirst
<1>7. StartFirst'
  BY <1>1, <1>5 DEF Inv, StartFirst
<1>8. NoGapMeansFull'
  BY <1>5 DEF NoGapMeansFull
<1>. QED
  BY <1>1, <1>5, <1>6, <1>7, <1>8 DEF Inv

\* Before there is a heap, every gap is in the space.
LEMMA StartGaps ==
  ASSUME Inv, heap = None, NEW i \in Gap
  PROVE  GapBase(i) >= Offset
<1>1. Len(list) \in Nat /\ i \in 0 .. Len(list)
  BY AreaTypes DEF Gap
<1>2. CASE i = 0
  BY <1>2, GapValues, Sizes
<1>3. CASE i > 0
  <2>1. list[i] \in tree
    BY <1>1, <1>3, AreaTypes
  <2>2. PICK y \in Fixed : base[list[i]] = y[1] /\ len[list[i]] <= y[2]
    BY <2>1 DEF Inv, StartFirst
  <2>3. y[1] \in Address /\ y[2] \in Address /\ y[1] + y[2] < Word
    BY FixedAssumption DEF Fixed
  <2>4. base[list[i]] + len[list[i]] < Word /\ base[list[i]] + len[list[i]] > Offset
    BY <2>1, <2>2, <2>3, AreaBounds, Sizes
  <2>. QED
    BY <1>3, <2>1, <2>4, AreaBounds, GapValues, Sizes
<1>. QED
  BY <1>1, <1>2, <1>3

\* An insertion of at most max addresses at the start of gap i, which is in the space.
LEMMA InsertInGap ==
  ASSUME Inv, NEW a \in Area, a \notin tree, fault = "none",
         NEW i \in Gap, GapBase(i) >= Offset, 0 < GapLength(i),
         NEW max \in Address, 0 < max,
         Insert(a, GapBase(i), Smaller(GapLength(i), max), Smaller(GapLength(i), max))
  PROVE  /\ fault' \in {"none", "check_align"}
         /\ dynamic' \subseteq tree' /\ heap' \in tree' \cup {None} /\ refused' \in Address
              => ListMatchesTree'
         /\ Apart' /\ AreasInSpace'
         /\ fault' # "none" => UNCHANGED <<tree, list, base, len>>
         /\ fault' = "none" => tree' = tree \cup {a}
         /\ [R!Add]_Spans
<1>. DEFINE b == GapBase(i)
            l == Smaller(GapLength(i), max)
<1>1. /\ b \in Nat /\ b < Word /\ b \in Address
      /\ GapLength(i) \in Nat /\ GapLength(i) < Word
  BY GapValues, Sizes
<1>2. l \in Nat /\ l <= GapLength(i) /\ 0 < l /\ l \in Address
  BY <1>1, Sizes DEF Smaller
<1>3. Clear(b, l) /\ b + l <= Word + LastAvail + 1 /\ Offset <= b
  BY <1>1, <1>2, GapIsClear, Sizes
<1>4. Insert(a, b, l, l) /\ l <= l
  BY <1>2
<1>. HIDE DEF b, l
<1>. QED
  BY <1>1, <1>2, <1>3, <1>4, InsertKeeps

LEMMA InsertHeapKeepsInv ==
  ASSUME Inv, NEW a \in Area, InsertHeap(a)
  PROVE  Inv' /\ [R!Add]_Spans
<1>1. PICK i \in Gap :
        /\ Largest(i)
        /\ Insert(a, GapBase(i), Smaller(GapLength(i), HeapMax), Smaller(GapLength(i), HeapMax))
  BY DEF InsertHeap
<1>2. /\ fault = "none" /\ heap = None /\ a \notin tree
      /\ heap' = (IF fault' = "none" THEN a ELSE None)
      /\ UNCHANGED <<dynamic, refused>>
  BY DEF InsertHeap
<1>3. GapBase(i) >= Offset
  BY <1>2, StartGaps
<1>4. 0 < GapLength(i)
  <2>1. PICK k \in Gap : k = Len(list)
    BY AreaTypes DEF Gap
  <2>2. GapBase(k) >= Offset
    BY <1>2, StartGaps
  <2>3. /\ GapLength(k) = GapEnd(k) - GapBase(k)
        /\ GapBase(k) < Word /\ GapBase(k) \in Nat
    BY <2>2, GapValues
  <2>4. GapEnd(k) = Word + LastAvail + 1
    BY <2>1 DEF GapEnd
  <2>5. GapLength(k) <= GapLength(i)
    BY <1>1 DEF Largest
  <2>. QED
    BY <1>3, <2>3, <2>4, <2>5, GapValues, Sizes
<1>5. HeapMax \in Address /\ 0 < HeapMax
  BY RequestsAssumption, Sizes
<1>6. /\ fault' \in {"none", "check_align"}
      /\ dynamic' \subseteq tree' /\ heap' \in tree' \cup {None} /\ refused' \in Address
           => ListMatchesTree'
      /\ Apart' /\ AreasInSpace'
      /\ fault' # "none" => UNCHANGED <<tree, list, base, len>>
      /\ fault' = "none" => tree' = tree \cup {a}
      /\ [R!Add]_Spans
  BY <1>1, <1>2, <1>3, <1>4, <1>5, InsertInGap
<1>7. dynamic = {}
  BY <1>2 DEF Inv, StartFirst
<1>8. dynamic' \subseteq tree' /\ heap' \in tree' \cup {None} /\ refused' \in Address
  BY <1>2, <1>6, <1>7 DEF Inv, ListMatchesTree, TypeOK
<1>9. StartFirst'
  BY <1>2, <1>6, NoneAssumption DEF Inv, StartFirst
<1>10. NoGapMeansFull'
  BY <1>6 DEF NoGapMeansFull
<1>. QED
  BY <1>2, <1>6, <1>7, <1>8, <1>9, <1>10 DEF Inv

-----------------------------------------------------------------------------
(* vm_new_area_within_space and vm_free_area *)

LEMMA RequestSizes ==
  ASSUME NEW r \in Requests
  PROVE  /\ r[1] \in Nat /\ r[1] < Word /\ r[1] \in Address /\ 0 < r[1]
         /\ r[2] \in Address /\ 0 < r[2]
BY RequestsAssumption, Sizes

LEMMA NewAreaKeepsInv ==
  ASSUME Inv, NEW a \in Area, NEW r \in Requests, NewArea(a, r)
  PROVE  Inv' /\ [R!Add]_Spans
<1>1. PICK i \in Gap :
        /\ FirstFit(i, r[1])
        /\ Insert(a, GapBase(i), Smaller(GapLength(i), r[2]), Smaller(GapLength(i), r[2]))
  BY DEF NewArea
<1>2. /\ fault = "none" /\ heap # None /\ a \notin tree
      /\ dynamic' = (IF fault' = "none" THEN dynamic \cup {a} ELSE dynamic)
      /\ UNCHANGED <<heap, refused>>
  BY DEF NewArea
<1>3. GapBase(i) >= Offset /\ GapLength(i) >= r[1]
  BY <1>1 DEF FirstFit, Fits
<1>4. 0 < GapLength(i)
  BY <1>3, GapValues, RequestSizes
<1>5. /\ fault' \in {"none", "check_align"}
      /\ dynamic' \subseteq tree' /\ heap' \in tree' \cup {None} /\ refused' \in Address
           => ListMatchesTree'
      /\ Apart' /\ AreasInSpace'
      /\ fault' # "none" => UNCHANGED <<tree, list, base, len>>
      /\ fault' = "none" => tree' = tree \cup {a}
      /\ [R!Add]_Spans
  BY <1>1, <1>2, <1>3, <1>4, RequestSizes, InsertInGap
<1>6. /\ dynamic \subseteq tree /\ heap \in tree \cup {None} /\ refused \in Address
      /\ heap \notin dynamic
  BY DEF Inv, ListMatchesTree, TypeOK
<1>7. dynamic' \subseteq tree' /\ heap' \in tree' \cup {None} /\ refused' \in Address
  BY <1>2, <1>5, <1>6
<1>8. heap' \notin dynamic'
  BY <1>2, <1>6
<1>9. StartFirst'
  BY <1>2 DEF StartFirst
<1>10. NoGapMeansFull'
  BY <1>5 DEF NoGapMeansFull
<1>. QED
  BY <1>5, <1>7, <1>8, <1>9, <1>10 DEF Inv

\* vm_space_find_gap finds room wherever it is.
LEMMA FreeRunFits ==
  ASSUME Inv, NEW l \in Nat, 0 < l, FreeRun(l)
  PROVE  \E i \in Gap : Fits(i, l)
<1>1. PICK b \in Offset .. Word - l : \A g \in tree : (b .. b + l - 1) \cap Span(g) = {}
  BY DEF FreeRun
<1>2. b \in Nat /\ b < Word /\ Offset <= b /\ b + l <= Word /\ b \in Address
  BY Sizes
<1>3. Clear(b, l)
  <2>. SUFFICES ASSUME NEW g \in tree
                PROVE  base[g] + len[g] <= b \/ b + l <= base[g]
    BY DEF Clear
  <2>1. \A x \in base[g] .. base[g] + len[g] - 1 : x < Word => x \in Span(g)
    <3>1. \A x \in base[g] .. base[g] + len[g] - 1 : x < Word => x \in Arc(base[g], len[g])
      BY AreaBounds, ArcAddresses
    <3>. QED
      BY <3>1 DEF Arc, Span
  <2>2. ~(b <= base[g] /\ base[g] < b + l)
    <3>1. base[g] \in Span(g)
      BY <2>1, AreaBounds
    <3>. QED
      BY <1>1, <1>2, <3>1, AreaBounds
  <2>3. ~(base[g] < b /\ b < base[g] + len[g])
    <3>1. base[g] < b /\ b < base[g] + len[g] => b \in Span(g)
      BY <1>2, <2>1, AreaBounds
    <3>2. b \in b .. b + l - 1
      BY <1>2
    <3>. QED
      BY <1>1, <3>1, <3>2
  <2>. QED
    BY <1>2, <2>2, <2>3, AreaBounds
<1>4. PICK i \in 0 .. Len(list) :
        \A j \in 1 .. Len(list) :
          /\ j <= i => base[list[j]] + len[list[j]] <= b
          /\ j > i => b + l <= base[list[j]]
  BY <1>2, <1>3, PlaceFound
<1>5. i \in Gap /\ Len(list) \in Nat
  BY AreaTypes DEF Gap
<1>6. GapBase(i) >= Offset /\ GapBase(i) <= b
  <2>1. CASE i = 0
    BY <1>2, <1>5, <2>1, GapValues, Sizes
  <2>2. CASE i > 0
    <3>1. i \in 1 .. Len(list) /\ list[i] \in tree
      BY <1>5, <2>2, AreaTypes
    <3>2. base[list[i]] + len[list[i]] <= b
      BY <1>4, <1>5, <3>1
    <3>3. base[list[i]] + len[list[i]] \in Nat /\ Offset < base[list[i]] + len[list[i]]
      BY <3>1, AreaBounds
    <3>4. base[list[i]] + len[list[i]] < Word
      BY <1>2, <3>2, <3>3, Sizes
    <3>5. GapBase(i) = base[list[i]] + len[list[i]]
      BY <1>5, <2>2, <3>4, GapValues
    <3>. QED
      BY <3>2, <3>3, <3>5, Sizes
  <2>. QED
    BY <1>5, <2>1, <2>2
<1>7. b + l <= GapEnd(i) /\ GapEnd(i) \in Nat
  <2>1. CASE i = Len(list)
    BY <1>2, <2>1, Sizes DEF GapEnd
  <2>2. CASE i # Len(list)
    <3>1. i + 1 \in 1 .. Len(list) /\ i + 1 > i
      BY <1>5, <2>2
    <3>2. list[i + 1] \in tree /\ GapEnd(i) = base[list[i + 1]]
      BY <2>2, <3>1, AreaTypes DEF GapEnd
    <3>. QED
      BY <1>4, <3>1, <3>2, AreaBounds
  <2>. QED
    BY <2>1, <2>2
<1>8. GapLength(i) = GapEnd(i) - GapBase(i) /\ GapBase(i) \in Nat
  BY <1>5, <1>6, GapValues
<1>9. GapLength(i) >= l
  BY <1>2, <1>6, <1>7, <1>8
<1>. QED
  BY <1>5, <1>6, <1>9 DEF Fits

LEMMA NewAreaNoGapKeepsInv ==
  ASSUME Inv, NEW a \in Area, NEW r \in Requests, NewAreaNoGap(a, r)
  PROVE  Inv' /\ Spans' = Spans
<1>1. /\ \A i \in Gap : ~Fits(i, r[1])
      /\ Insert(a, 0, 0, 0)
      /\ refused' = r[1] /\ heap # None
      /\ UNCHANGED <<dynamic, heap>>
  BY DEF NewAreaNoGap
<1>2. fault' \in {"check_align", "offset <= base"}
  <2>1. 0 < Offset
    BY Sizes
  <2>. QED
    BY <1>1, <2>1 DEF Insert
<1>3. UNCHANGED <<tree, list, base, len>>
  BY <1>1, <1>2 DEF Insert
<1>4. ListMatchesTree'
  BY <1>1, <1>2, <1>3, RequestSizes DEF Inv, ListMatchesTree, TypeOK
<1>5. Apart' /\ AreasInSpace' /\ Spans' = Spans
  BY <1>3 DEF Inv, Apart, AreasInSpace, Spans, Span
<1>6. StartFirst' /\ heap' \notin dynamic'
  BY <1>1 DEF Inv, StartFirst
<1>7. NoGapMeansFull'
  <2>1. ~FreeRun(r[1])
    BY <1>1, FreeRunFits, RequestSizes
  <2>2. ~FreeRun(refused)'
    BY <1>1, <1>3, <2>1 DEF FreeRun, Span
  <2>. QED
    BY <1>2, <2>2 DEF NoGapMeansFull
<1>. QED
  BY <1>4, <1>5, <1>6, <1>7 DEF Inv

LEMMA FreeAreaKeepsInv ==
  ASSUME Inv, NEW a \in Area, FreeArea(a)
  PROVE  Inv' /\ R!Remove
<1>1. /\ fault = "none" /\ a \in dynamic
      /\ tree' = tree \ {a} /\ dynamic' = dynamic \ {a}
      /\ base' = [base EXCEPT ![a] = 0] /\ len' = [len EXCEPT ![a] = 0]
      /\ UNCHANGED <<heap, refused, fault>>
  BY DEF FreeArea, RemoveArea
<1>2. Len(list) \in Nat /\ DOMAIN list = 1 .. Len(list) /\ list \in Seq(Area)
  BY AreaTypes, LenProperties
<1>3. PICK i \in 1 .. Len(list) : list[i] = a /\ list' = RemoveAt(list, i)
  BY SMTT(40), <1>2 DEF FreeArea, RemoveArea
<1>4. /\ list' \in Seq(Area) /\ Len(list') = Len(list) - 1
      /\ \A j \in 1 .. Len(list) - 1 : list'[j] = IF j < i THEN list[j] ELSE list[j + 1]
  BY Zenon, <1>2, <1>3, RemoveAtProperties
<1>5. dynamic \subseteq tree /\ heap \in tree \cup {None} /\ heap # a /\ TypeOK
  BY <1>1 DEF Inv, ListMatchesTree, TypeOK
<1>6. /\ base' \in [Area -> Address] /\ len' \in [Area -> Address]
      /\ \A g \in tree' : base'[g] = base[g] /\ len'[g] = len[g]
  <2>1. 0 \in Address
    BY Sizes
  <2>. QED
    BY <1>1, <2>1, AreaTypes
<1>7. TypeOK'
  BY <1>1, <1>4, <1>5, <1>6, NoneAssumption DEF TypeOK
<1>8. ASSUME NEW j \in 1 .. Len(list')
      PROVE  \E k \in 1 .. Len(list) :
               k = (IF j < i THEN j ELSE j + 1) /\ list'[j] = list[k] /\ k # i /\ list'[j] # a
                 /\ list'[j] \in tree'
  <2>. DEFINE k == IF j < i THEN j ELSE j + 1
  <2>1. k \in 1 .. Len(list) /\ k # i /\ list'[j] = list[k]
    BY <1>2, <1>3, <1>4
  <2>. HIDE DEF k
  <2>2. base[list[k]] # base[list[i]]
    <3>1. list[k] \in tree /\ list[i] \in tree
      BY <1>3, <2>1, AreaTypes
    <3>2. k < i \/ i < k
      BY <1>3, <2>1
    <3>3. \A m, n \in 1 .. Len(list) : m < n => base[list[m]] < base[list[n]]
      BY DEF Inv, ListMatchesTree
    <3>. QED
      BY <1>3, <2>1, <3>1, <3>2, <3>3, AreaBounds
  <2>. QED
    BY <1>1, <1>3, <2>1, <2>2, AreaTypes DEF k
<1>9. ToSet(list') = tree'
  <2>1. DOMAIN list' = 1 .. Len(list')
    BY <1>4, LenProperties
  <2>2. \A j \in 1 .. Len(list') : list'[j] \in tree'
    BY <1>8
  <2>3. ASSUME NEW g \in tree'
        PROVE  \E j \in 1 .. Len(list') : list'[j] = g
    <3>1. PICK k \in 1 .. Len(list) : list[k] = g
      BY <1>1, AreaTypes
    <3>2. k # i
      BY <1>1, <1>3, <3>1
    <3>3. k < i => k \in 1 .. Len(list') /\ list'[k] = g
      BY <1>2, <1>3, <1>4, <3>1
    <3>4. k > i => k - 1 \in 1 .. Len(list') /\ list'[k - 1] = g
      BY <1>2, <1>3, <1>4, <3>1
    <3>. QED
      BY <1>2, <3>2, <3>3, <3>4
  <2>. QED
    BY <2>1, <2>2, <2>3 DEF ToSet
<1>10. ASSUME NEW j \in 1 .. Len(list'), NEW k \in 1 .. Len(list'), j < k
       PROVE  /\ base'[list'[j]] + len'[list'[j]] <= base'[list'[k]]
              /\ base'[list'[j]] < base'[list'[k]]
  <2>1. PICK m \in 1 .. Len(list) : /\ m = (IF j < i THEN j ELSE j + 1)
                                    /\ list'[j] = list[m] /\ list'[j] \in tree'
    BY <1>8
  <2>2. PICK n \in 1 .. Len(list) : /\ n = (IF k < i THEN k ELSE k + 1)
                                    /\ list'[k] = list[n] /\ list'[k] \in tree'
    BY <1>8
  <2>3. m < n
    BY <1>2, <1>4, <1>10, <2>1, <2>2
  <2>. QED
    BY SMTT(30), <1>6, <2>1, <2>2, <2>3 DEF Inv, Apart, ListMatchesTree
<1>11. ListMatchesTree' /\ Apart'
  BY <1>7, <1>9, <1>10 DEF ListMatchesTree, Apart
<1>12. AreasInSpace'
  BY <1>1, <1>6 DEF Inv, AreasInSpace
<1>13. StartFirst' /\ heap' \notin dynamic'
  BY <1>1 DEF Inv, StartFirst
<1>14. NoGapMeansFull'
  BY <1>1 DEF NoGapMeansFull
<1>15. R!Remove
  <2>1. \A g \in tree' : Span(g)' = Span(g)
    BY <1>6 DEF Span
  <2>2. a \in tree
    BY <1>1, <1>5
  <2>3. Spans' = {Span(g) : g \in tree \ {a}}
    BY <1>1, <2>1 DEF Spans
  <2>4. \A g \in tree \ {a} : Span(g) # Span(a)
    <3>. SUFFICES ASSUME NEW g \in tree \ {a} PROVE Span(g) # Span(a)
      OBVIOUS
    <3>1. Span(g) \cap Span(a) = {} /\ Span(g) # {}
      BY <2>2, SpansDisjoint
    <3>. QED
      BY <3>1
  <2>5. Spans' = Spans \ {Span(a)}
    BY <2>3, <2>4 DEF Spans
  <2>. QED
    BY <2>2, <2>5 DEF R!Remove, Spans
<1>. QED
  BY <1>11, <1>12, <1>13, <1>14, <1>15 DEF Inv

-----------------------------------------------------------------------------
LEMMA InvNext ==
  ASSUME Inv, [Next]_vars
  PROVE  Inv' /\ [R!Next]_Spans
<1>1. ASSUME NEW a \in Area, NEW s \in Segments, InsertSegment(a, s)
      PROVE  Inv' /\ [R!Add]_Spans
  <2>1. <<s[1], s[2]>> \in Fixed /\ s[2] \in Address
    BY FixedAssumption DEF Fixed
  <2>2. 0 < s[2] /\ s[2] <= s[2]
    BY <2>1, FixedAssumption, Sizes
  <2>3. InsertFixed(a, <<s[1], s[2]>>[1], <<s[1], s[2]>>[2], s[2])
    BY <1>1 DEF InsertSegment
  <2>. QED
    BY <2>1, <2>2, <2>3, InsertFixedKeepsInv
<1>2. ASSUME NEW a \in Area, NEW z \in Zones, ZoneCreate(a, z)
      PROVE  Inv' /\ [R!Add]_Spans
  <2>1. <<z[1], z[2]>> \in Fixed /\ z[3] \in Address
    BY FixedAssumption DEF Fixed
  <2>2. 0 < z[3] /\ z[3] <= <<z[1], z[2]>>[2]
    BY FixedAssumption, Sizes, <2>1
  <2>3. InsertFixed(a, <<z[1], z[2]>>[1], <<z[1], z[2]>>[2], z[3])
    BY <1>2 DEF ZoneCreate
  <2>. QED
    BY <2>1, <2>2, <2>3, InsertFixedKeepsInv
<1>3. ASSUME NEW a \in Area, InsertHeap(a)
      PROVE  Inv' /\ [R!Add]_Spans
  BY <1>3, InsertHeapKeepsInv
<1>4. ASSUME NEW a \in Area, NEW r \in Requests, NewArea(a, r)
      PROVE  Inv' /\ [R!Add]_Spans
  BY <1>4, NewAreaKeepsInv
<1>5. ASSUME NEW a \in Area, NEW r \in Requests, NewAreaNoGap(a, r)
      PROVE  Inv' /\ Spans' = Spans
  BY <1>5, NewAreaNoGapKeepsInv
<1>6. ASSUME NEW a \in Area, FreeArea(a)
      PROVE  Inv' /\ R!Remove
  BY <1>6, FreeAreaKeepsInv
<1>7. CASE UNCHANGED vars
  <2>1. Spans' = Spans
    BY <1>7 DEF vars, Spans, Span
  <2>2. ListMatchesTree'
    BY <1>7 DEF vars, Inv, ListMatchesTree, TypeOK
  <2>3. Apart' /\ AreasInSpace'
    BY <1>7 DEF vars, Inv, Apart, AreasInSpace
  <2>4. StartFirst' /\ heap' \notin dynamic'
    BY <1>7 DEF vars, Inv, StartFirst
  <2>5. \A a : Span(a)' = Span(a)
    BY <1>7 DEF vars, Span
  <2>6. FreeRun(refused)' <=> FreeRun(refused)
    BY <1>7, <2>5 DEF vars, FreeRun
  <2>7. NoGapMeansFull'
    BY <1>7, <2>6 DEF vars, Inv, NoGapMeansFull
  <2>. QED
    BY <2>1, <2>2, <2>3, <2>4, <2>7 DEF Inv
<1>. QED
  BY <1>1, <1>2, <1>3, <1>4, <1>5, <1>6, <1>7 DEF Next, R!Next

LEMMA InvHolds == Spec => []Inv
<1>1. Inv /\ [Next]_vars => Inv'
  BY InvNext
<1>. QED
  BY InvInit, <1>1, PTL DEF Spec

\* vm_space_insert_area and vm_space_remove_area keep the sorted list and the tree together.
THEOREM ListIsRight == Spec => []ListMatchesTree
<1>1. Inv => ListMatchesTree
  BY DEF Inv
<1>. QED
  BY InvHolds, <1>1, PTL

\* vm_space_find_gap: the assertion of vm_area_rbtcmpfn never fails, and the one on the offset,
\* which stops vm_new_area_within_space, fails only if the space has no room for the request.
THEOREM SearchFindsRoom == Spec => []NoGapMeansFull
<1>1. Inv => NoGapMeansFull
  BY DEF Inv
<1>. QED
  BY InvHolds, <1>1, PTL

\* An address space implements Regions, also where the length of the last gap wraps around.
THEOREM VmSpaceImplementsRegions == Spec => ImplementsRegions
<1>1. Init => R!Init
  BY DEF Init, R!Init
<1>2. Inv /\ [Next]_vars => [R!Next]_Spans
  BY InvNext
<1>3. Inv /\ [Next]_vars => [R!Next]_{Span(a) : a \in tree}
  BY <1>2 DEF Spans
<1>. QED
  BY <1>1, <1>3, InvHolds, PTL DEF Spec, ImplementsRegions, R!Spec

=============================================================================
