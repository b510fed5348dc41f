----------------------------- MODULE StartupProofs -----------------------------
(***************************************************************************)
(* Resources and device memory are safe for every memory map, set of       *)
(* buffers, area of pages and number of regions, and in whatever order     *)
(* the modules and drivers claim, map and unmap.                           *)
(***************************************************************************)
EXTENDS Startup, FiniteSetTheorems, SequenceTheorems, WellFoundedInduction, TLAPS

Record ==
  [name : Buffer \cup {"memory"}, type : {"memory", "buffer"},
   owner : {None, Kernel, "driver"}, base : Int, len : Int]

\* A resource is on the list that its owner says, once.
ResourceLists ==
  /\ storage \in Seq(Record) /\ free \in Seq(R!Resource) /\ claimed \in Seq(R!Resource)
  /\ \A i, j \in 1 .. Len(free) : free[i] = free[j] => i = j
  /\ \A r \in R!Resource :
       /\ (storage[r].owner = None) <=> r \in ToSet(free)
       /\ (storage[r].owner # None) <=> r \in ToSet(claimed)
  /\ Len(free) + Len(claimed) = Len(storage)
  /\ fault # "owner"

\* What the map and the platform have still to give.
Sources ==
  /\ mmap \in Seq([addr : Nat, len : Nat, avail : BOOLEAN]) /\ entry \in 0 .. Len(mmap)
  /\ parts \in Seq(Int \X Int)
  /\ devices \in Seq(Buffer)
  /\ \A i, j \in 1 .. Len(devices) : devices[i] = devices[j] => i = j
  /\ inactive \in Seq(STRING) /\ consoles \in Seq(STRING)

\* A device is registered once.
DevicesOnce ==
  /\ \A r, s \in R!Resource : storage[r].name = storage[s].name /\ storage[r].name # "memory" => r = s
  /\ \A r \in R!Resource : storage[r].name \in ToSet(devices) => storage[r].name = "memory"

\* Span j covers the c[j] numbers from a[j] on: each begins where the one before ends.
Spans(N, a, c) ==
  /\ N \in Nat /\ a \in [1 .. N -> Nat] /\ c \in [1 .. N -> Nat]
  /\ \A j, h \in 1 .. N : h = j + 1 => a[h] = a[j] + c[j]
  /\ \A j, h \in 1 .. N : j < h => a[j] + c[j] <= a[h]

Along(l, f) == [j \in 1 .. Len(l) |-> f[l[j]]]

\* The regions of l, which begin at v and have length n, tile the area in their order.
Tiled(l, v, n) ==
  /\ l \in Seq(Region) /\ Len(l) > 0
  /\ \A i, j \in 1 .. Len(l) : l[i] = l[j] => i = j
  /\ Spans(Len(l), Along(l, v), Along(l, n))
  /\ v[l[1]] = 0
  /\ v[l[Len(l)]] + n[l[Len(l)]] = AreaPages

\* The page table is right at region r of length n that belongs to x.
FramesAt(pt, first, n, x) ==
  \A p \in first .. first + n - 1 :
    pt[p] = IF x = Free THEN None ELSE D!Down(BufferBase[x]) + p - first

\* Area l, its regions at v with length n and owners rs, and the page table pt.
AreaState(l, v, n, rs, pt) ==
  /\ v \in [Region -> Nat] /\ n \in [Region -> Nat] /\ rs \in [Region -> Buffer \cup {Free}]
  /\ pt \in [D!Page -> Nat \cup {None}]
  /\ Tiled(l, v, n)
  /\ \A r \in ToSet(l) : FramesAt(pt, v[r], n[r], rs[r])
  /\ \A q, r \in ToSet(l) : rs[q] = rs[r] /\ rs[q] # Free => q = r

\* The pointers nx lead from hd along l, and there to the end.
Chain(l, hd, nx) ==
  /\ l \in Seq(Region) /\ Len(l) > 0
  /\ \A i, j \in 1 .. Len(l) : l[i] = l[j] => i = j
  /\ l[1] = hd /\ nx[l[Len(l)]] = None
  /\ \A i, j \in 1 .. Len(l) : j = i + 1 => nx[l[i]] = l[j]

DeviceTypes ==
  /\ head \in Region /\ next \in [Region -> Region \cup {None}]
  /\ vaddr \in [Region -> Nat] /\ len \in [Region -> Nat] /\ res \in [Region -> Buffer \cup {Free}]

\* The list is l, its regions tile the area, and no other region has a buffer.
AreaOf(l) ==
  /\ Chain(l, head, next)
  /\ AreaState(l, vaddr, len, res, pages)
  /\ \A q \in Region : q \notin ToSet(l) => res[q] = Free

DeviceArea == \E l : AreaOf(l)

\* No region that was on the list has been handed out, and no operation has stopped halfway.
Halfway == {"last is NULL", "vm_arch_pt_map", "vm_arch_pt_unmap"}
Intact == ~reused /\ fault \notin Halfway

Device == DeviceTypes /\ (Intact => DeviceArea)

\* The buffers that are mapped, and the pages of each.
Held == {res[q] : q \in Region} \ {Free}
Owners(l, rs) == {rs[q] : q \in ToSet(l)} \ {Free}
Block(first, n) == first .. first + n - 1
Blocks(l, v, n, rs) == {Block(v[q], n[q]) : q \in {r \in ToSet(l) : rs[r] # Free}} \ {{}}

\* Only claimed buffers are mapped, and before drivers run only the screen.
MappedWhenClaimed ==
  /\ \A b \in Held : \E r \in ToSet(claimed) : storage[r].name = b
  /\ stage = "video claimed" =>
       /\ inactive # <<>> /\ Head(inactive) = "video" /\ "video" \notin Held
       /\ \E r \in ToSet(claimed) : storage[r].name = "video"
  /\ stage # "running" => Held \subseteq {"video"}

\* The screen that console_write writes to has the first region, which is never given back:
\* nothing else is mapped before it.
ScreenFirst ==
  Intact =>
    /\ "video" \in ToSet(consoles) => res[head] = "video" /\ "video" \in Buffer
    /\ stage # "running" /\ Held = {} => next[head] = None

Inv ==
  /\ ResourceLists
  /\ Sources
  /\ DevicesOnce
  /\ Device
  /\ MappedWhenClaimed
  /\ ScreenFirst

-----------------------------------------------------------------------------
(* Numbers and sequences *)

LEMMA LeastExists ==
  ASSUME NEW n \in Nat, NEW T, T \subseteq 1 .. n, T # {}
  PROVE  Min(T) \in T /\ \A y \in T : Min(T) <= y
<1>1. T \subseteq Nat
  OBVIOUS
<1>2. PICK m \in T : \A k \in T : <<k, m>> \notin OpToRel(<, Nat)
  BY <1>1, WFMin, NatLessThanWellFounded
<1>3. ASSUME NEW k \in T
      PROVE  m <= k
  <2>1. m \in Nat /\ k \in Nat /\ ~(k < m)
    BY <1>1, <1>2 DEF OpToRel
  <2>. QED
    BY <2>1
<1>. QED
  BY <1>3 DEF Min

\* t is s with e put in at place k.
LongerAt(S, s, k, e, t) ==
  /\ t \in Seq(S) /\ Len(t) = Len(s) + 1
  /\ \A j \in 1 .. Len(s) + 1 : t[j] = IF j < k THEN s[j] ELSE IF j = k THEN e ELSE s[j - 1]

LEMMA InsertAtProperties ==
  ASSUME NEW S, NEW s \in Seq(S), NEW i \in 1 .. Len(s) + 1, NEW e \in S
  PROVE  LongerAt(S, s, i, e, InsertAt(s, i, e))
<1>. DEFINE a == SubSeq(s, 1, i - 1)
            b == SubSeq(s, i, Len(s))
            c == a \o <<e>>
<1>1. Len(s) \in Nat /\ \A j \in 1 .. Len(s) : s[j] \in S
  BY ElementOfSeq, LenProperties
<1>2. a \in Seq(S) /\ Len(a) = i - 1 /\ \A j \in 1 .. i - 1 : a[j] = s[j]
  BY <1>1, SubSeqProperties
<1>3. /\ b \in Seq(S) /\ Len(b) = Len(s) - i + 1
      /\ \A j \in 1 .. Len(s) - i + 1 : b[j] = s[i + j - 1]
  BY <1>1, SubSeqProperties
<1>4. InsertAt(s, i, e) = c \o b
  BY DEF InsertAt
<1>. HIDE DEF a, b
<1>5. <<e>> \in Seq(S) /\ Len(<<e>>) = 1 /\ <<e>>[1] = e
  OBVIOUS
<1>6. /\ c \in Seq(S) /\ Len(c) = i
      /\ \A j \in 1 .. i : c[j] = IF j < i THEN a[j] ELSE e
  BY <1>1, <1>2, <1>5, ConcatProperties
<1>. HIDE DEF c
<1>7. /\ c \o b \in Seq(S) /\ Len(c \o b) = Len(s) + 1
      /\ \A j \in 1 .. Len(s) + 1 : (c \o b)[j] = IF j <= i THEN c[j] ELSE b[j - i]
  <2>1. /\ c \o b \in Seq(S) /\ Len(c \o b) = Len(c) + Len(b)
        /\ \A j \in 1 .. Len(c) + Len(b) : (c \o b)[j] = IF j <= Len(c) THEN c[j] ELSE b[j - Len(c)]
    BY <1>3, <1>6, ConcatProperties
  <2>. QED
    BY <1>1, <1>3, <1>6, <2>1
<1>. QED
  BY <1>1, <1>2, <1>3, <1>4, <1>6, <1>7 DEF LongerAt

LEMMA RemoveAtProperties ==
  ASSUME NEW S, NEW s \in Seq(S), NEW i \in 1 .. Len(s)
  PROVE  /\ RemoveAt(s, i) \in Seq(S)
         /\ Len(RemoveAt(s, i)) = Len(s) - 1
         /\ \A j \in 1 .. Len(s) - 1 : RemoveAt(s, i)[j] = IF j < i THEN s[j] ELSE s[j + 1]
<1>. DEFINE a == SubSeq(s, 1, i - 1)
            b == SubSeq(s, i + 1, Len(s))
<1>1. Len(s) \in Nat /\ \A j \in 1 .. Len(s) : s[j] \in S
  BY ElementOfSeq, LenProperties
<1>2. a \in Seq(S) /\ Len(a) = i - 1 /\ \A j \in 1 .. i - 1 : a[j] = s[j]
  BY <1>1, SubSeqProperties
<1>3. b \in Seq(S) /\ Len(b) = Len(s) - i /\ \A j \in 1 .. Len(s) - i : b[j] = s[i + j]
  BY <1>1, SubSeqProperties
<1>4. RemoveAt(s, i) = a \o b
  BY DEF RemoveAt
<1>. HIDE DEF a, b
<1>5. /\ a \o b \in Seq(S) /\ Len(a \o b) = Len(a) + Len(b)
      /\ \A j \in 1 .. Len(a) + Len(b) : (a \o b)[j] = IF j <= Len(a) THEN a[j] ELSE b[j - Len(a)]
  BY <1>2, <1>3, ConcatProperties
<1>. QED
  BY <1>1, <1>2, <1>3, <1>4, <1>5


LEMMA ConsIs ==
  ASSUME NEW S, NEW s \in Seq(S), NEW e \in S
  PROVE  /\ <<e>> \o s \in Seq(S)
         /\ Len(<<e>> \o s) = Len(s) + 1
         /\ (<<e>> \o s)[1] = e
         /\ \A i \in 1 .. Len(s) : (<<e>> \o s)[i + 1] = s[i]
         /\ ToSet(<<e>> \o s) = {e} \cup ToSet(s)
<1>1. <<e>> \in Seq(S) /\ Len(<<e>>) = 1 /\ <<e>>[1] = e /\ Len(s) \in Nat
  BY LenProperties
<1>2. /\ <<e>> \o s \in Seq(S)
      /\ Len(<<e>> \o s) = Len(s) + 1
      /\ \A i \in 1 .. Len(s) + 1 : (<<e>> \o s)[i] = IF i <= 1 THEN e ELSE s[i - 1]
  BY <1>1, ConcatProperties
<1>3. /\ (<<e>> \o s)[1] = e
      /\ \A i \in 1 .. Len(s) : (<<e>> \o s)[i + 1] = s[i]
  BY <1>1, <1>2
<1>4. DOMAIN s = 1 .. Len(s) /\ DOMAIN (<<e>> \o s) = 1 .. Len(s) + 1
  BY <1>2, LenProperties
<1>5. ToSet(<<e>> \o s) = {e} \cup ToSet(s)
  <2>. DEFINE t == <<e>> \o s
  <2>1. ASSUME NEW x \in ToSet(t)
        PROVE  x \in {e} \cup ToSet(s)
    <3>1. PICK i \in 1 .. Len(s) + 1 : x = t[i]
      BY <1>4, <2>1 DEF ToSet
    <3>2. CASE i = 1
      BY <1>3, <3>1, <3>2
    <3>3. CASE i # 1
      <4>1. i - 1 \in 1 .. Len(s) /\ t[i] = s[i - 1]
        BY <1>1, <1>2, <3>1, <3>3
      <4>. QED
        BY <1>4, <3>1, <4>1 DEF ToSet
    <3>. QED
      BY <3>2, <3>3
  <2>2. ASSUME NEW x \in ToSet(s)
        PROVE  x \in ToSet(t)
    <3>1. PICK i \in 1 .. Len(s) : x = s[i]
      BY <1>4, <2>2 DEF ToSet
    <3>2. i + 1 \in 1 .. Len(s) + 1 /\ t[i + 1] = x
      BY <1>1, <1>3, <3>1
    <3>. QED
      BY <1>4, <3>2 DEF ToSet
  <2>3. e \in ToSet(t)
    <3>1. 1 \in 1 .. Len(s) + 1
      BY <1>1
    <3>. QED
      BY <1>3, <1>4, <3>1 DEF ToSet
  <2>. QED
    BY <2>1, <2>2, <2>3
<1>. QED
  BY <1>2, <1>3, <1>5

LEMMA RemoveOnce ==
  ASSUME NEW S, NEW s \in Seq(S), NEW k \in 1 .. Len(s),
         \A i, j \in 1 .. Len(s) : s[i] = s[j] => i = j
  PROVE  /\ ToSet(RemoveAt(s, k)) = ToSet(s) \ {s[k]}
         /\ \A i, j \in 1 .. Len(RemoveAt(s, k)) : RemoveAt(s, k)[i] = RemoveAt(s, k)[j] => i = j
<1>. DEFINE t == RemoveAt(s, k)
<1>1. /\ Len(s) \in Nat /\ t \in Seq(S) /\ Len(t) = Len(s) - 1
      /\ \A j \in 1 .. Len(s) - 1 : t[j] = IF j < k THEN s[j] ELSE s[j + 1]
  BY LenProperties, RemoveAtProperties
<1>2. DOMAIN s = 1 .. Len(s) /\ DOMAIN t = 1 .. Len(s) - 1
  BY <1>1, LenProperties
<1>. HIDE DEF t
<1>3. ASSUME NEW x \in ToSet(t)
      PROVE  x \in ToSet(s) /\ x # s[k]
  <2>1. PICK j \in 1 .. Len(s) - 1 : x = t[j]
    BY <1>2, <1>3 DEF ToSet
  <2>2. PICK i \in 1 .. Len(s) : i # k /\ x = s[i]
    BY <1>1, <2>1
  <2>. QED
    BY <1>2, <2>2 DEF ToSet
<1>4. ASSUME NEW x \in ToSet(s), x # s[k]
      PROVE  x \in ToSet(t)
  <2>1. PICK i \in 1 .. Len(s) : x = s[i] /\ i # k
    BY <1>2, <1>4 DEF ToSet
  <2>2. PICK j \in 1 .. Len(s) - 1 : t[j] = x
    <3>1. CASE i < k
      BY <1>1, <2>1, <3>1
    <3>2. CASE i > k
      <4>1. i - 1 \in 1 .. Len(s) - 1 /\ t[i - 1] = s[i - 1 + 1]
        BY <1>1, <2>1, <3>2
      <4>. QED
        BY <2>1, <4>1
    <3>. QED
      BY <1>1, <2>1, <3>1, <3>2
  <2>. QED
    BY <1>2, <2>2 DEF ToSet
<1>5. \A i, j \in 1 .. Len(t) : t[i] = t[j] => i = j
  BY <1>1
<1>. QED
  BY <1>3, <1>4, <1>5 DEF t

\* The page numbers of a buffer are numbers.
LEMMA DivGrows ==
  ASSUME NEW m \in Nat, NEW n \in Nat, m <= n
  PROVE  m \div PageSize \in Nat /\ m \div PageSize <= n \div PageSize
<1>. DEFINE p == m \div PageSize
            q == n \div PageSize
<1>1. PageSize \in Nat \ {0}
  BY BufferAssumption
<1>2. /\ p \in Nat /\ PageSize * p <= m
      /\ q \in Nat /\ n < PageSize * (q + 1)
  BY <1>1
<1>. HIDE DEF p, q
<1>3. ASSUME q < p
      PROVE  FALSE
  <2>1. PageSize * (q + 1) <= PageSize * p
    BY <1>1, <1>2, <1>3
  <2>2. PageSize * (q + 1) \in Nat /\ PageSize * p \in Nat
    BY <1>1, <1>2
  <2>. QED
    BY <1>2, <2>1, <2>2
<1>4. p <= q
  BY <1>2, <1>3
<1>. QED
  BY <1>2, <1>4 DEF p, q

LEMMA PagesAreNumbers ==
  ASSUME NEW b \in Buffer
  PROVE  D!Pages(b) \in Nat /\ D!Down(BufferBase[b]) \in Nat
<1>1. /\ BufferBase[b] \in Nat /\ BufferLen[b] \in Nat \ {0} /\ PageSize \in Nat \ {0}
  BY BufferAssumption
<1>2. BufferBase[b] <= BufferBase[b] + BufferLen[b] - 1 + PageSize - 1
  BY <1>1
<1>3. BufferBase[b] + BufferLen[b] - 1 + PageSize - 1 \in Nat
  BY <1>1
<1>4. /\ BufferBase[b] \div PageSize \in Nat
      /\ (BufferBase[b] + BufferLen[b] - 1 + PageSize - 1) \div PageSize \in Nat
      /\ BufferBase[b] \div PageSize <= (BufferBase[b] + BufferLen[b] - 1 + PageSize - 1) \div PageSize
  BY <1>1, <1>2, <1>3, DivGrows
<1>. QED
  BY <1>4 DEF D!Pages, D!Down, D!Up

-----------------------------------------------------------------------------
(* Regions that tile the area *)

\* Span i of a and c is cut after k pages.
SplitAt(N, a, c, i, k, w, m) ==
  /\ k <= c[i]
  /\ w \in [1 .. N + 1 -> Nat] /\ m \in [1 .. N + 1 -> Nat]
  /\ \A j \in 1 .. N + 1 : j < i => w[j] = a[j] /\ m[j] = c[j]
  /\ \A j \in 1 .. N + 1 : j = i => w[j] = a[i] /\ m[j] = k
  /\ \A j \in 1 .. N + 1 : j = i + 1 => w[j] = a[i] + k /\ m[j] = c[i] - k
  /\ \A j \in 1 .. N + 1, h \in 1 .. N : h > i /\ j = h + 1 => w[j] = a[h] /\ m[j] = c[h]

LEMMA Predecessor ==
  ASSUME NEW N \in Nat, NEW j \in 2 .. N + 1
  PROVE  \E h \in 1 .. N : j = h + 1
<1>1. j - 1 \in 1 .. N /\ j = (j - 1) + 1
  OBVIOUS
<1>. QED
  BY <1>1

LEMMA SplitSpans ==
  ASSUME NEW N \in Nat, NEW a, NEW c, Spans(N, a, c),
         NEW i \in 1 .. N, NEW k \in Nat, NEW w, NEW m, SplitAt(N, a, c, i, k, w, m)
  PROVE  Spans(N + 1, w, m)
<1>0. a[i] \in Nat /\ c[i] \in Nat /\ k <= c[i]
  BY DEF Spans, SplitAt
<1>1. ASSUME NEW j \in 1 .. N + 1, NEW h \in 1 .. N + 1, h = j + 1
      PROVE  w[h] = w[j] + m[j]
  <2>1. CASE j < i
    <3>1. j \in 1 .. N /\ h \in 1 .. N /\ h <= i
      BY <1>1, <2>1
    <3>2. w[h] = a[h] /\ w[j] = a[j] /\ m[j] = c[j]
      BY SMTT(30), <2>1, <3>1 DEF SplitAt
    <3>3. a[h] = a[j] + c[j]
      BY <1>1, <3>1 DEF Spans
    <3>. QED
      BY <3>2, <3>3
  <2>2. CASE j = i
    BY <1>0, <1>1, <2>2 DEF SplitAt
  <2>3. CASE j > i
    <3>1. PICK g \in 1 .. N : h = g + 1
      BY <1>1, Predecessor
    <3>2. j = g
      BY <1>1, <3>1
    <3>3. w[h] = a[g]
      BY <2>3, <3>1, <3>2 DEF SplitAt
    <3>4. CASE j = i + 1
      <4>1. w[j] = a[i] + k /\ m[j] = c[i] - k
        BY <3>4 DEF SplitAt
      <4>2. a[g] = a[i] + c[i]
        BY <3>2, <3>4 DEF Spans
      <4>. QED
        BY <1>0, <3>3, <4>1, <4>2
    <3>5. CASE j > i + 1
      <4>1. PICK f \in 1 .. N : j = f + 1
        BY <3>5, Predecessor
      <4>2. f > i /\ g = f + 1
        BY <3>2, <3>5, <4>1
      <4>3. w[j] = a[f] /\ m[j] = c[f]
        BY <4>1, <4>2 DEF SplitAt
      <4>4. a[g] = a[f] + c[f]
        BY <4>2 DEF Spans
      <4>. QED
        BY <3>3, <4>3, <4>4
    <3>. QED
      BY <2>3, <3>4, <3>5
  <2>. QED
    BY <2>1, <2>2, <2>3
<1>2. ASSUME NEW j \in 1 .. N + 1, NEW h \in 1 .. N + 1, j < h
      PROVE  w[j] + m[j] <= w[h]
  <2>1. CASE h <= i
    <3>1. j \in 1 .. N /\ h \in 1 .. N /\ j < i
      BY <1>2, <2>1
    <3>2. w[h] = a[h] /\ w[j] = a[j] /\ m[j] = c[j]
      BY SMTT(30), <2>1, <3>1 DEF SplitAt
    <3>3. a[j] + c[j] <= a[h]
      BY <1>2, <3>1 DEF Spans
    <3>. QED
      BY <3>2, <3>3
  <2>2. CASE h = i + 1
    <3>1. w[h] = a[i] + k
      BY <2>2 DEF SplitAt
    <3>2. CASE j = i
      BY <3>1, <3>2 DEF SplitAt
    <3>3. CASE j < i
      <4>1. j \in 1 .. N
        BY <3>3
      <4>2. w[j] = a[j] /\ m[j] = c[j]
        BY <3>3 DEF SplitAt
      <4>3. a[j] + c[j] <= a[i]
        BY <3>3, <4>1 DEF Spans
      <4>4. a[j] \in Nat /\ c[j] \in Nat
        BY <4>1 DEF Spans
      <4>. QED
        BY <1>0, <3>1, <4>2, <4>3, <4>4
    <3>. QED
      BY <1>2, <2>2, <3>2, <3>3
  <2>3. CASE h > i + 1
    <3>1. PICK g \in 1 .. N : h = g + 1
      BY <2>3, Predecessor
    <3>2. g > i
      BY <2>3, <3>1
    <3>3. w[h] = a[g]
      BY <3>1, <3>2 DEF SplitAt
    <3>4. a[i] + c[i] <= a[g] /\ a[g] \in Nat
      BY <3>2 DEF Spans
    <3>5. CASE j < i
      <4>1. j \in 1 .. N /\ j < g
        BY <3>2, <3>5
      <4>2. w[j] = a[j] /\ m[j] = c[j]
        BY <3>5 DEF SplitAt
      <4>3. a[j] + c[j] <= a[g]
        BY <4>1 DEF Spans
      <4>. QED
        BY <3>3, <4>2, <4>3
    <3>6. CASE j = i
      <4>1. w[j] = a[i] /\ m[j] = k
        BY <3>6 DEF SplitAt
      <4>. QED
        BY <1>0, <3>3, <3>4, <4>1
    <3>7. CASE j = i + 1
      <4>1. w[j] = a[i] + k /\ m[j] = c[i] - k
        BY <3>7 DEF SplitAt
      <4>2. w[j] + m[j] = a[i] + c[i]
        BY <1>0, <4>1
      <4>. QED
        BY <3>3, <3>4, <4>2
    <3>8. CASE j > i + 1
      <4>1. PICK f \in 1 .. N : j = f + 1
        BY <3>8, Predecessor
      <4>2. f > i /\ f < g
        BY <1>2, <3>1, <3>8, <4>1
      <4>3. w[j] = a[f] /\ m[j] = c[f]
        BY <4>1, <4>2 DEF SplitAt
      <4>4. a[f] + c[f] <= a[g]
        BY <4>2 DEF Spans
      <4>. QED
        BY <3>3, <4>3, <4>4
    <3>. QED
      BY <3>5, <3>6, <3>7, <3>8
  <2>. QED
    BY <2>1, <2>2, <2>3
<1>3. N + 1 \in Nat
  BY <1>0
<1>. DEFINE K == N + 1
<1>. HIDE DEF K
<1>4. K \in Nat /\ w \in [1 .. K -> Nat] /\ m \in [1 .. K -> Nat]
  BY <1>3 DEF K, SplitAt
<1>5. /\ \A j, h \in 1 .. K : h = j + 1 => w[h] = w[j] + m[j]
      /\ \A j, h \in 1 .. K : j < h => w[j] + m[j] <= w[h]
  BY <1>1, <1>2 DEF K
<1>6. Spans(K, w, m)
  BY <1>4, <1>5 DEF Spans
<1>. QED
  BY <1>6 DEF K

\* Span i takes in the nxt one.
JoinAt(N, a, c, i, w, m) ==
  /\ w \in [1 .. N -> Nat] /\ m \in [1 .. N -> Nat]
  /\ \A j \in 1 .. N : j <= i => w[j] = a[j]
  /\ \A j \in 1 .. N : j < i => m[j] = c[j]
  /\ \A h \in 1 .. N + 1 : h = i + 1 => m[i] = c[i] + c[h]
  /\ \A j \in 1 .. N, h \in 1 .. N + 1 : j > i /\ h = j + 1 => w[j] = a[h] /\ m[j] = c[h]

LEMMA JoinSpans ==
  ASSUME NEW N \in Nat, NEW a, NEW c, Spans(N + 1, a, c),
         NEW i \in 1 .. N, NEW w, NEW m, JoinAt(N, a, c, i, w, m)
  PROVE  Spans(N, w, m)
<1>1. ASSUME NEW j \in 1 .. N, NEW h \in 1 .. N, h = j + 1
      PROVE  w[h] = w[j] + m[j]
  <2>1. CASE j < i
    <3>1. j \in 1 .. N + 1 /\ h \in 1 .. N + 1 /\ h <= i
      BY <1>1, <2>1
    <3>2. w[h] = a[h] /\ w[j] = a[j] /\ m[j] = c[j]
      BY <2>1, <3>1 DEF JoinAt
    <3>3. a[h] = a[j] + c[j]
      BY <1>1, <3>1 DEF Spans
    <3>. QED
      BY <3>2, <3>3
  <2>2. CASE j >= i
    <3>1. h > i /\ h \in 1 .. N + 1 /\ j \in 1 .. N + 1
      BY <1>1, <2>2
    <3>2. PICK g \in 1 .. N + 1 : g = h + 1
      BY <1>1
    <3>3. w[h] = a[g]
      BY <3>1, <3>2 DEF JoinAt
    <3>4. a[g] = a[h] + c[h] /\ a[h] = a[j] + c[j]
      BY <1>1, <3>1, <3>2 DEF Spans
    <3>5. /\ a[j] \in Nat /\ a[h] \in Nat /\ a[g] \in Nat
          /\ c[j] \in Nat /\ c[h] \in Nat
      BY <3>1, <3>2 DEF Spans
    <3>6. CASE j = i
      <4>1. w[j] = a[j]
        BY <3>6 DEF JoinAt
      <4>2. m[j] = c[j] + c[h]
        BY <1>1, <3>1, <3>6 DEF JoinAt
      <4>. QED
        BY <3>3, <3>4, <3>5, <4>1, <4>2
    <3>7. CASE j > i
      <4>1. w[j] = a[h] /\ m[j] = c[h]
        BY <1>1, <3>1, <3>7 DEF JoinAt
      <4>. QED
        BY <3>3, <3>4, <4>1
    <3>. QED
      BY <2>2, <3>6, <3>7
  <2>. QED
    BY <2>1, <2>2
<1>2. ASSUME NEW j \in 1 .. N, NEW h \in 1 .. N, j < h
      PROVE  w[j] + m[j] <= w[h]
  <2>0. j \in 1 .. N + 1 /\ h \in 1 .. N + 1
    OBVIOUS
  <2>1. CASE h <= i
    <3>1. w[h] = a[h] /\ w[j] = a[j] /\ m[j] = c[j]
      BY <1>2, <2>1 DEF JoinAt
    <3>2. a[j] + c[j] <= a[h]
      BY <1>2, <2>0 DEF Spans
    <3>. QED
      BY <3>1, <3>2
  <2>2. CASE h > i
    <3>1. PICK g \in 1 .. N + 1 : g = h + 1
      OBVIOUS
    <3>2. w[h] = a[g]
      BY <2>2, <3>1 DEF JoinAt
    <3>3. CASE j < i
      <4>1. w[j] = a[j] /\ m[j] = c[j]
        BY <3>3 DEF JoinAt
      <4>2. a[j] + c[j] <= a[g]
        BY <1>2, <2>0, <3>1 DEF Spans
      <4>. QED
        BY <3>2, <4>1, <4>2
    <3>4. CASE j = i
      <4>1. PICK f \in 1 .. N + 1 : f = i + 1
        OBVIOUS
      <4>2. w[j] = a[i] /\ m[j] = c[i] + c[f]
        BY <3>4, <4>1 DEF JoinAt
      <4>3. f < g /\ i \in 1 .. N + 1
        BY <2>2, <3>1, <4>1
      <4>4. a[f] = a[i] + c[i] /\ a[f] + c[f] <= a[g]
        BY <4>1, <4>3 DEF Spans
      <4>5. a[i] \in Nat /\ c[i] \in Nat /\ a[f] \in Nat /\ c[f] \in Nat /\ a[g] \in Nat
        BY <4>3 DEF Spans
      <4>. QED
        BY <3>2, <4>2, <4>4, <4>5
    <3>5. CASE j > i
      <4>1. PICK f \in 1 .. N + 1 : f = j + 1
        OBVIOUS
      <4>2. w[j] = a[f] /\ m[j] = c[f]
        BY <3>5, <4>1 DEF JoinAt
      <4>3. f < g
        BY <1>2, <3>1, <4>1
      <4>4. a[f] + c[f] <= a[g]
        BY <4>3 DEF Spans
      <4>. QED
        BY <3>2, <4>2, <4>4
    <3>. QED
      BY <3>3, <3>4, <3>5
  <2>. QED
    BY <2>1, <2>2
<1>. QED
  BY <1>1, <1>2 DEF Spans, JoinAt

\* t is s with e put in behind place i.
Inserted(S, s, i, e, t) ==
  /\ t \in Seq(S) /\ Len(t) = Len(s) + 1
  /\ \A j \in 1 .. Len(s) + 1 : j <= i => j \in 1 .. Len(s) /\ t[j] = s[j]
  /\ \A j \in 1 .. Len(s) + 1 : j = i + 1 => t[j] = e
  /\ \A j \in 1 .. Len(s) + 1, h \in 1 .. Len(s) : h > i /\ j = h + 1 => t[j] = s[h]

LEMMA InsertPlaces ==
  ASSUME NEW S, NEW s \in Seq(S), NEW i \in 1 .. Len(s), NEW e \in S
  PROVE  Inserted(S, s, i, e, InsertAt(s, i + 1, e))
<1>1. Len(s) \in Nat
  BY LenProperties
<1>. DEFINE k == i + 1
            t == InsertAt(s, k, e)
<1>2. k = i + 1
  OBVIOUS
<1>7. k \in 1 .. Len(s) + 1 /\ Len(s) + 1 \in Nat
  BY <1>1
<1>. HIDE DEF k
<1>8. LongerAt(S, s, k, e, t)
  BY Zenon, <1>7, InsertAtProperties
<1>3. /\ t \in Seq(S) /\ Len(t) = Len(s) + 1
      /\ \A j \in 1 .. Len(s) + 1 : t[j] = IF j < k THEN s[j] ELSE IF j = k THEN e ELSE s[j - 1]
  BY <1>8 DEF LongerAt
<1>. HIDE DEF t
<1>4. ASSUME NEW j \in 1 .. Len(s) + 1, j <= i
      PROVE  j \in 1 .. Len(s) /\ t[j] = s[j]
  BY <1>1, <1>2, <1>3, <1>4
<1>5. ASSUME NEW j \in 1 .. Len(s) + 1, j = k
      PROVE  t[j] = e
  BY <1>1, <1>2, <1>3, <1>5
<1>6. ASSUME NEW j \in 1 .. Len(s) + 1, NEW h \in 1 .. Len(s), h > i, j = h + 1
      PROVE  t[j] = s[h]
  <2>1. ~(j < k) /\ j # k /\ j - 1 = h
    BY <1>1, <1>2, <1>6
  <2>2. t[j] = s[j - 1]
    BY <1>3, <2>1
  <2>. QED
    BY <2>1, <2>2
<1>9. Inserted(S, s, i, e, t)
  BY <1>1, <1>2, <1>3, <1>4, <1>5, <1>6 DEF Inserted
<1>. QED
  BY <1>2, <1>9 DEF t

\* t is s without the element behind place i.
Removed(S, s, i, t) ==
  /\ t \in Seq(S) /\ Len(s) = Len(t) + 1
  /\ \A j \in 1 .. Len(t) : j <= i => t[j] = s[j]
  /\ \A j \in 1 .. Len(t), h \in 1 .. Len(s) : j > i /\ h = j + 1 => t[j] = s[h]

LEMMA RemovePlaces ==
  ASSUME NEW S, NEW s \in Seq(S), NEW i \in 1 .. Len(s), i < Len(s)
  PROVE  Removed(S, s, i, RemoveAt(s, i + 1))
<1>. DEFINE k == i + 1
            t == RemoveAt(s, k)
<1>1. Len(s) \in Nat
  BY LenProperties
<1>2. k = i + 1
  OBVIOUS
<1>3. k \in 1 .. Len(s)
  BY <1>1
<1>. HIDE DEF k
<1>4. /\ t \in Seq(S) /\ Len(t) = Len(s) - 1
      /\ \A j \in 1 .. Len(s) - 1 : t[j] = IF j < k THEN s[j] ELSE s[j + 1]
  BY <1>3, RemoveAtProperties
<1>. HIDE DEF t
<1>5. Len(t) \in Nat /\ Len(s) = Len(t) + 1
  BY <1>1, <1>4, LenProperties
<1>6. ASSUME NEW j \in 1 .. Len(t), j <= i
      PROVE  t[j] = s[j]
  <2>1. j < k /\ j \in 1 .. Len(s) - 1
    BY <1>1, <1>2, <1>4, <1>5, <1>6
  <2>. QED
    BY <1>4, <2>1
<1>7. ASSUME NEW j \in 1 .. Len(t), NEW h \in 1 .. Len(s), j > i, h = j + 1
      PROVE  t[j] = s[h]
  <2>1. ~(j < k) /\ j \in 1 .. Len(s) - 1
    BY <1>1, <1>2, <1>4, <1>5, <1>7
  <2>2. t[j] = s[j + 1]
    BY <1>4, <2>1
  <2>. QED
    BY <1>7, <2>2
<1>8. Removed(S, s, i, t)
  BY <1>4, <1>5, <1>6, <1>7 DEF Removed
<1>. QED
  BY <1>2, <1>8 DEF t

\* a holds the value of f at each region of s.
ValuesAlong(s, f, a) ==
  /\ a \in [1 .. Len(s) -> Nat]
  /\ \A j \in 1 .. Len(s) : a[j] = f[s[j]]

LEMMA AlongIs ==
  ASSUME NEW s, s \in Seq(Region), NEW f, f \in [Region -> Nat]
  PROVE  ValuesAlong(s, f, Along(s, f))
<1>1. \A j \in 1 .. Len(s) : s[j] \in Region
  BY ElementOfSeq
<1>. QED
  BY <1>1 DEF Along, ValuesAlong

\* kdev_map_resource: the rest of region i becomes a region of its own.
LEMMA TileSplit ==
  ASSUME NEW l, NEW v \in [Region -> Nat], NEW n \in [Region -> Nat], Tiled(l, v, n),
         NEW i \in 1 .. Len(l), NEW new \in Region, new \notin ToSet(l),
         NEW k \in Nat, k <= n[l[i]],
         NEW w, w = [v EXCEPT ![new] = v[l[i]] + k],
         NEW m, m = [n EXCEPT ![l[i]] = k, ![new] = n[l[i]] - k]
  PROVE  Tiled(InsertAt(l, i + 1, new), w, m)
<1>. DEFINE N == Len(l)
            s == InsertAt(l, i + 1, new)
<1>1. /\ l \in Seq(Region) /\ N \in Nat /\ N > 0 /\ DOMAIN l = 1 .. N
      /\ \A j \in 1 .. N : l[j] \in Region
  BY ElementOfSeq, LenProperties DEF Tiled
<1>2. \A j \in 1 .. N : l[j] # new
  BY <1>1 DEF ToSet
<1>3. \A j, h \in 1 .. N : l[j] = l[h] => j = h
  BY DEF Tiled
<1>4. /\ s \in Seq(Region) /\ Len(s) = N + 1
      /\ \A j \in 1 .. N + 1 : j <= i => j \in 1 .. N /\ s[j] = l[j]
      /\ \A j \in 1 .. N + 1 : j = i + 1 => s[j] = new
      /\ \A j \in 1 .. N + 1, h \in 1 .. N : h > i /\ j = h + 1 => s[j] = l[h]
  <2>1. l \in Seq(Region)
    BY <1>1
  <2>2. Inserted(Region, l, i, new, InsertAt(l, i + 1, new))
    BY <2>1, InsertPlaces
  <2>. QED
    BY <2>2 DEF Inserted
<1>5. /\ w \in [Region -> Nat] /\ m \in [Region -> Nat]
      /\ w[new] = v[l[i]] + k /\ m[new] = n[l[i]] - k /\ m[l[i]] = k
      /\ \A q \in Region : q # new => w[q] = v[q]
      /\ \A q \in Region : q # new /\ q # l[i] => m[q] = n[q]
  <2>1. l[i] \in Region /\ l[i] # new /\ n[l[i]] \in Nat /\ v[l[i]] \in Nat
    BY <1>1, <1>2
  <2>2. v[l[i]] + k \in Nat /\ n[l[i]] - k \in Nat
    BY <2>1
  <2>. QED
    BY <2>1, <2>2
<1>. HIDE DEF N, s
<1>6. i \in 1 .. N
  BY DEF N
<1>7. \A j \in 1 .. N + 1 : s[j] \in Region
  BY <1>4, ElementOfSeq
<1>8. ASSUME NEW j \in 1 .. N + 1, NEW h \in 1 .. N + 1, s[j] = s[h], j < h
      PROVE  FALSE
  <2>1. CASE h <= i
    BY <1>1, <1>3, <1>4, <1>6, <1>8, <2>1
  <2>2. CASE h = i + 1
    <3>1. j <= i
      BY <1>1, <1>6, <1>8, <2>2
    <3>. QED
      BY <1>2, <1>4, <1>8, <2>2, <3>1
  <2>3. CASE h > i + 1
    <3>1. PICK g \in 1 .. N : h = g + 1
      BY <1>1, <1>6, <2>3, Predecessor
    <3>2. g > i /\ j <= g
      BY <1>1, <1>6, <1>8, <2>3, <3>1
    <3>3. s[h] = l[g]
      BY <1>4, <3>1, <3>2
    <3>4. CASE j <= i
      <4>1. j \in 1 .. N /\ s[j] = l[j]
        BY <1>4, <3>4
      <4>2. j = g
        BY <1>3, <1>8, <3>3, <4>1
      <4>. QED
        BY <1>6, <3>2, <3>4, <4>2
    <3>5. CASE j = i + 1
      BY <1>2, <1>4, <1>8, <3>3, <3>5
    <3>6. CASE j > i + 1
      <4>1. PICK f \in 1 .. N : j = f + 1
        BY <1>1, <1>6, <3>6, Predecessor
      <4>2. f > i /\ f < g
        BY <1>1, <1>6, <1>8, <3>1, <3>6, <4>1
      <4>3. s[j] = l[f]
        BY <1>4, <4>1, <4>2
      <4>4. f = g
        BY <1>3, <1>8, <3>3, <4>3
      <4>. QED
        BY <4>2, <4>4
    <3>. QED
      BY <1>1, <1>6, <3>4, <3>5, <3>6
  <2>. QED
    BY <1>1, <1>6, <2>1, <2>2, <2>3
<1>. DEFINE a == Along(l, v)
            c == Along(l, n)
            b == Along(s, w)
            d == Along(s, m)
<1>9. /\ \A j \in 1 .. N : a[j] = v[l[j]] /\ c[j] = n[l[j]]
      /\ \A j \in 1 .. N + 1 : b[j] = w[s[j]] /\ d[j] = m[s[j]]
      /\ b \in [1 .. N + 1 -> Nat] /\ d \in [1 .. N + 1 -> Nat]
  <2>1. s \in Seq(Region) /\ Len(s) = N + 1 /\ w \in [Region -> Nat] /\ m \in [Region -> Nat]
    BY <1>4, <1>5
  <2>2. l \in Seq(Region)
    BY <1>1
  <2>. HIDE DEF s, N
  <2>3. ValuesAlong(l, v, a) /\ ValuesAlong(l, n, c)
    BY Zenon, <2>2, AlongIs
  <2>4. ValuesAlong(s, w, b) /\ ValuesAlong(s, m, d)
    BY Zenon, <2>1, AlongIs
  <2>. HIDE DEF a, b, c, d
  <2>. QED
    BY Zenon, <2>1, <2>3, <2>4 DEF ValuesAlong, N
<1>10. Spans(N, a, c) /\ a[1] = 0 /\ a[N] + c[N] = AreaPages
  <2>1. 1 \in 1 .. N /\ N \in 1 .. N
    BY <1>1
  <2>2. v[l[1]] = 0 /\ v[l[N]] + n[l[N]] = AreaPages /\ Spans(N, a, c)
    BY DEF Tiled, N
  <2>. QED
    BY <1>9, <2>1, <2>2
<1>. HIDE DEF a, b, c, d
<1>11. SplitAt(N, a, c, i, k, b, d)
  <2>1. k <= c[i]
    BY <1>6, <1>9
  <2>2. ASSUME NEW j \in 1 .. N + 1, j < i
        PROVE  b[j] = a[j] /\ d[j] = c[j]
    <3>0. N \in Nat
      BY <1>1
    <3>4. j \in 1 .. N /\ j <= i
      BY <1>6, <2>2, <3>0
    <3>1. j \in 1 .. N /\ s[j] = l[j]
      BY <1>4, <3>4
    <3>2. j # i
      BY <1>1, <1>6, <2>2
    <3>3. l[j] # new /\ l[j] # l[i] /\ l[j] \in Region
      BY <1>1, <1>2, <1>3, <1>6, <3>1, <3>2
    <3>5. b[j] = w[l[j]] /\ d[j] = m[l[j]] /\ a[j] = v[l[j]] /\ c[j] = n[l[j]]
      BY Zenon, <1>9, <3>1
    <3>. QED
      BY Zenon, <1>5, <3>3, <3>5
  <2>3. ASSUME NEW j \in 1 .. N + 1, j = i
        PROVE  b[j] = a[i] /\ d[j] = k
    <3>0. N \in Nat
      BY <1>1
    <3>1. j <= i
      BY <1>6, <2>3, <3>0
    <3>2. s[j] = l[i] /\ l[i] # new /\ l[i] \in Region
      BY <1>1, <1>2, <1>4, <1>6, <2>3, <3>1
    <3>3. b[j] = w[l[i]] /\ d[j] = m[l[i]] /\ a[i] = v[l[i]]
      BY <1>6, <1>9, <3>2
    <3>. QED
      BY <1>5, <3>2, <3>3
  <2>4. ASSUME NEW j \in 1 .. N + 1, j = i + 1
        PROVE  b[j] = a[i] + k /\ d[j] = c[i] - k
    <3>1. s[j] = new
      BY <1>4, <2>4
    <3>2. b[j] = w[new] /\ d[j] = m[new]
      BY <1>9, <3>1
    <3>3. a[i] = v[l[i]] /\ c[i] = n[l[i]]
      BY <1>6, <1>9
    <3>. QED
      BY <1>5, <3>2, <3>3
  <2>5. ASSUME NEW j \in 1 .. N + 1, NEW h \in 1 .. N, h > i, j = h + 1
        PROVE  b[j] = a[h] /\ d[j] = c[h]
    <3>1. s[j] = l[h] /\ h # i
      BY <1>1, <1>4, <1>6, <2>5
    <3>2. l[h] # new /\ l[h] # l[i] /\ l[h] \in Region
      BY <1>1, <1>2, <1>3, <1>6, <3>1
    <3>3. b[j] = w[l[h]] /\ d[j] = m[l[h]]
      BY <1>9, <3>1
    <3>. QED
      BY <1>5, <1>9, <3>2, <3>3
  <2>. QED
    BY <1>9, <2>1, <2>2, <2>3, <2>4, <2>5 DEF SplitAt
<1>12. Spans(N + 1, b, d)
  BY <1>1, <1>6, <1>10, <1>11, SplitSpans
<1>13. b[1] = 0
  <2>1. 1 \in 1 .. N + 1 /\ (1 < i \/ 1 = i)
    BY <1>1, <1>6
  <2>. QED
    BY <1>10, <1>11, <2>1 DEF SplitAt
<1>14. b[N + 1] + d[N + 1] = AreaPages
  <2>0. a[i] \in Nat /\ c[i] \in Nat
    BY <1>6, <1>10 DEF Spans
  <2>. DEFINE K == N + 1
  <2>1. K \in 1 .. N + 1 /\ K = N + 1
    BY <1>1
  <2>. HIDE DEF K
  <2>2. CASE i = N
    <3>1. b[K] = a[i] + k /\ d[K] = c[i] - k
      BY <1>11, <2>1, <2>2 DEF SplitAt
    <3>2. b[K] + d[K] = a[i] + c[i]
      BY <2>0, <3>1
    <3>. QED
      BY <1>10, <2>2, <3>2 DEF K
  <2>3. CASE i # N
    <3>1. N > i /\ N \in 1 .. N
      BY <1>1, <1>6, <2>3
    <3>2. b[K] = a[N] /\ d[K] = c[N]
      BY <1>11, <2>1, <3>1 DEF SplitAt
    <3>. QED
      BY <1>10, <3>2 DEF K
  <2>. QED
    BY <2>2, <2>3
<1>15. Tiled(s, w, m)
  <2>0. N \in Nat /\ Len(s) = N + 1
    BY <1>1, <1>4
  <2>1. Len(s) > 0 /\ 1 \in 1 .. N + 1 /\ N + 1 \in 1 .. N + 1
    BY <2>0
  <2>2. \A j, h \in 1 .. Len(s) : s[j] = s[h] => j = h
    BY <1>1, <1>4, <1>8
  <2>3. w[s[1]] = 0 /\ w[s[Len(s)]] + m[s[Len(s)]] = AreaPages
    BY <1>4, <1>9, <1>13, <1>14, <2>1
  <2>. QED
    BY <1>4, <1>12, <2>1, <2>2, <2>3 DEF Tiled, b, d
<1>. QED
  BY <1>15 DEF s

\* free_region_for: region i takes in the nxt one.
LEMMA TileJoin ==
  ASSUME NEW l, NEW v \in [Region -> Nat], NEW n \in [Region -> Nat], Tiled(l, v, n),
         NEW i \in 1 .. Len(l), NEW nxt \in 1 .. Len(l), nxt = i + 1,
         NEW m, m = [n EXCEPT ![l[i]] = n[l[i]] + n[l[nxt]]]
  PROVE  Tiled(RemoveAt(l, i + 1), v, m)
<1>. DEFINE N == Len(l) - 1
            s == RemoveAt(l, i + 1)
<1>1. /\ l \in Seq(Region) /\ N \in Nat /\ Len(l) = N + 1 /\ i \in 1 .. N
      /\ \A j \in 1 .. N + 1 : l[j] \in Region
  <2>1. l \in Seq(Region) /\ Len(l) \in Nat /\ \A j \in 1 .. Len(l) : l[j] \in Region
    BY ElementOfSeq, LenProperties DEF Tiled
  <2>. QED
    BY <2>1
<1>. HIDE DEF N
<1>2. \A j, h \in 1 .. N + 1 : l[j] = l[h] => j = h
  BY <1>1 DEF Tiled
<1>3. /\ s \in Seq(Region) /\ Len(s) = N
      /\ \A j \in 1 .. N : j <= i => s[j] = l[j]
      /\ \A j \in 1 .. N, h \in 1 .. N + 1 : j > i /\ h = j + 1 => s[j] = l[h]
  <2>1. l \in Seq(Region) /\ N \in Nat /\ Len(l) = N + 1 /\ i \in 1 .. N
    BY <1>1
  <2>2. i < Len(l)
    BY <2>1
  <2>3. Removed(Region, l, i, RemoveAt(l, i + 1))
    BY <2>1, <2>2, RemovePlaces
  <2>4. /\ s \in Seq(Region) /\ Len(l) = Len(s) + 1 /\ Len(s) \in Nat
        /\ \A j \in 1 .. Len(s) : j <= i => s[j] = l[j]
        /\ \A j \in 1 .. Len(s), h \in 1 .. Len(l) : j > i /\ h = j + 1 => s[j] = l[h]
    BY <2>3, LenProperties DEF Removed
  <2>. HIDE DEF s
  <2>5. Len(s) = N
    BY <2>1, <2>4
  <2>. QED
    BY <2>1, <2>4, <2>5
<1>4. /\ m \in [Region -> Nat] /\ m[l[i]] = n[l[i]] + n[l[nxt]]
      /\ \A q \in Region : q # l[i] => m[q] = n[q]
  <2>1. l[i] \in Region /\ l[nxt] \in Region
    BY <1>1
  <2>2. n[l[i]] \in Nat /\ n[l[nxt]] \in Nat /\ n[l[i]] + n[l[nxt]] \in Nat
    BY <2>1
  <2>. QED
    BY <2>1, <2>2
<1>. HIDE DEF s
<1>5. \A j \in 1 .. N : s[j] \in Region
  BY <1>3, ElementOfSeq
<1>6. ASSUME NEW j \in 1 .. N
      PROVE  \E h \in 1 .. N + 1 : /\ s[j] = l[h]
                                   /\ (j <= i /\ h = j) \/ (j > i /\ h = j + 1)
  <2>1. CASE j <= i
    <3>1. j \in 1 .. N + 1
      BY <1>1
    <3>. QED
      BY <1>3, <2>1, <3>1
  <2>2. CASE j > i
    <3>1. PICK h \in 1 .. N + 1 : h = j + 1
      BY <1>1
    <3>. QED
      BY <1>3, <2>2, <3>1
  <2>. QED
    BY <1>1, <2>1, <2>2
<1>7. ASSUME NEW j \in 1 .. N, NEW h \in 1 .. N, s[j] = s[h]
      PROVE  j = h
  <2>1. PICK f \in 1 .. N + 1 : /\ s[j] = l[f]
                                /\ (j <= i /\ f = j) \/ (j > i /\ f = j + 1)
    BY <1>6
  <2>2. PICK g \in 1 .. N + 1 : /\ s[h] = l[g]
                                /\ (h <= i /\ g = h) \/ (h > i /\ g = h + 1)
    BY <1>6
  <2>3. f = g
    BY <1>2, <1>7, <2>1, <2>2
  <2>. QED
    <3>1. N \in Nat /\ i \in 1 .. N
      BY <1>1
    <3>. QED
      BY <2>1, <2>2, <2>3, <3>1
<1>. DEFINE a == Along(l, v)
            c == Along(l, n)
            b == Along(s, v)
            d == Along(s, m)
<1>8. /\ \A j \in 1 .. N + 1 : a[j] = v[l[j]] /\ c[j] = n[l[j]]
      /\ \A j \in 1 .. N : b[j] = v[s[j]] /\ d[j] = m[s[j]]
      /\ b \in [1 .. N -> Nat] /\ d \in [1 .. N -> Nat]
  <2>1. l \in Seq(Region) /\ Len(l) = N + 1 /\ s \in Seq(Region) /\ Len(s) = N
    BY <1>1, <1>3
  <2>2. m \in [Region -> Nat]
    BY <1>4
  <2>. HIDE DEF N
  <2>3. ValuesAlong(l, v, a) /\ ValuesAlong(l, n, c)
    BY Zenon, <2>1, AlongIs
  <2>4. ValuesAlong(s, v, b) /\ ValuesAlong(s, m, d)
    BY Zenon, <2>1, <2>2, AlongIs
  <2>. HIDE DEF a, b, c, d
  <2>. QED
    BY Zenon, <2>1, <2>3, <2>4 DEF ValuesAlong
<1>9. Spans(N + 1, a, c) /\ a[1] = 0 /\ a[N + 1] + c[N + 1] = AreaPages
  <2>1. 1 \in 1 .. N + 1 /\ N + 1 \in 1 .. N + 1
    BY <1>1
  <2>2. v[l[1]] = 0 /\ v[l[N + 1]] + n[l[N + 1]] = AreaPages /\ Spans(N + 1, a, c)
    BY <1>1 DEF Tiled
  <2>. QED
    BY <1>8, <2>1, <2>2
<1>. HIDE DEF a, b, c, d
<1>10. JoinAt(N, a, c, i, b, d)
  <2>1. ASSUME NEW j \in 1 .. N, j <= i
        PROVE  b[j] = a[j] /\ (j < i => d[j] = c[j])
    <3>1. j \in 1 .. N + 1 /\ s[j] = l[j]
      BY <1>1, <1>3, <2>1
    <3>2. j < i => l[j] # l[i]
      BY <1>1, <1>2, <3>1
    <3>3. b[j] = v[l[j]] /\ d[j] = m[l[j]] /\ a[j] = v[l[j]] /\ c[j] = n[l[j]]
      BY <1>8, <3>1
    <3>. QED
      BY <1>1, <1>4, <3>1, <3>2, <3>3
  <2>2. ASSUME NEW h \in 1 .. N + 1, h = i + 1
        PROVE  d[i] = c[i] + c[h]
    <3>1. s[i] = l[i] /\ i \in 1 .. N + 1 /\ h = nxt
      BY <1>1, <1>3, <2>2
    <3>2. d[i] = m[l[i]] /\ c[i] = n[l[i]] /\ c[h] = n[l[nxt]]
      BY <1>1, <1>8, <3>1
    <3>. QED
      BY <1>4, <3>2
  <2>3. ASSUME NEW j \in 1 .. N, NEW h \in 1 .. N + 1, j > i, h = j + 1
        PROVE  b[j] = a[h] /\ d[j] = c[h]
    <3>0. N \in Nat /\ i \in 1 .. N
      BY <1>1
    <3>1. h # i /\ i \in 1 .. N + 1
      BY <2>3, <3>0
    <3>4. s[j] = l[h]
      BY <1>3, <2>3
    <3>2. l[h] # l[i] /\ l[h] \in Region
      BY <1>1, <1>2, <3>1
    <3>3. b[j] = v[l[h]] /\ d[j] = m[l[h]]
      BY <1>8, <3>4
    <3>. QED
      BY <1>4, <1>8, <3>2, <3>3
  <2>4. /\ \A j \in 1 .. N : j <= i => b[j] = a[j]
        /\ \A j \in 1 .. N : j < i => d[j] = c[j]
    <3>1. \A j \in 1 .. N : j < i => j <= i
      BY <1>1
    <3>. QED
      BY Zenon, <2>1, <3>1
  <2>. QED
    BY <1>8, <2>2, <2>3, <2>4 DEF JoinAt
<1>11. Spans(N, b, d)
  BY <1>1, <1>9, <1>10, JoinSpans
<1>12. b[1] = 0
  <2>1. 1 \in 1 .. N /\ 1 <= i
    BY <1>1
  <2>. QED
    BY <1>9, <1>10, <2>1 DEF JoinAt
<1>13. b[N] + d[N] = AreaPages
  <2>1. PICK K \in 1 .. N + 1 : K = N + 1
    BY <1>1
  <2>2. a[N] \in Nat /\ c[N] \in Nat /\ a[K] \in Nat /\ c[K] \in Nat /\ a[K] = a[N] + c[N]
    <3>1. N \in 1 .. N + 1
      BY <1>1
    <3>. QED
      BY <1>9, <2>1, <3>1 DEF Spans
  <2>3. a[K] + c[K] = AreaPages
    BY <1>9, <2>1
  <2>4. CASE i = N
    <3>1. b[N] = a[N] /\ d[N] = c[N] + c[K]
      BY <1>1, <1>10, <2>1, <2>4 DEF JoinAt
    <3>. QED
      BY <2>2, <2>3, <3>1
  <2>5. CASE i # N
    <3>1. N > i /\ N \in 1 .. N
      BY <1>1, <2>5
    <3>2. b[N] = a[K] /\ d[N] = c[K]
      BY <1>10, <2>1, <3>1 DEF JoinAt
    <3>. QED
      BY <2>3, <3>2
  <2>. QED
    BY <2>4, <2>5
<1>14. Tiled(s, v, m)
  <2>1. Len(s) > 0 /\ 1 \in 1 .. N /\ N \in 1 .. N
    <3>1. N \in Nat /\ i \in 1 .. N /\ Len(s) = N
      BY Zenon, <1>1, <1>3
    <3>. QED
      BY <3>1
  <2>2. \A j, h \in 1 .. Len(s) : s[j] = s[h] => j = h
    BY <1>3, <1>7
  <2>3. v[s[1]] = 0 /\ v[s[Len(s)]] + m[s[Len(s)]] = AreaPages
    BY <1>3, <1>8, <1>12, <1>13, <2>1
  <2>. QED
    BY <1>3, <1>11, <2>1, <2>2, <2>3 DEF Tiled, b, d
<1>. QED
  BY <1>14 DEF s

LEMMA ElementsOf ==
  ASSUME NEW S, NEW s \in Seq(S)
  PROVE  /\ \A x : x \in ToSet(s) <=> \E j \in 1 .. Len(s) : x = s[j]
         /\ ToSet(s) \subseteq S
<1>1. DOMAIN s = 1 .. Len(s) /\ \A j \in 1 .. Len(s) : s[j] \in S
  BY LenProperties, ElementOfSeq
<1>. QED
  BY <1>1 DEF ToSet

LEMMA InsertedElements ==
  ASSUME NEW S, NEW s \in Seq(S), NEW i \in 1 .. Len(s), NEW e \in S,
         NEW t, Inserted(S, s, i, e, t)
  PROVE  ToSet(t) = ToSet(s) \cup {e} /\ t[1] = s[1]
<1>1. Len(s) \in Nat /\ Len(t) = Len(s) + 1 /\ t \in Seq(S)
  BY LenProperties DEF Inserted
<1>2. ASSUME NEW x \in ToSet(t)
      PROVE  x \in ToSet(s) \cup {e}
  <2>1. PICK j \in 1 .. Len(s) + 1 : x = t[j]
    BY <1>1, <1>2, ElementsOf
  <2>2. CASE j <= i
    <3>1. j \in 1 .. Len(s) /\ t[j] = s[j]
      BY <2>2 DEF Inserted
    <3>. QED
      BY <2>1, <3>1, ElementsOf
  <2>3. CASE j = i + 1
    BY <2>1, <2>3 DEF Inserted
  <2>4. CASE j > i + 1
    <3>1. PICK h \in 1 .. Len(s) : j = h + 1
      BY <1>1, <2>4, Predecessor
    <3>2. h > i
      BY <1>1, <2>4, <3>1
    <3>3. t[j] = s[h]
      BY <3>1, <3>2 DEF Inserted
    <3>. QED
      BY <2>1, <3>3, ElementsOf
  <2>. QED
    BY <1>1, <2>2, <2>3, <2>4
<1>3. ASSUME NEW x \in ToSet(s)
      PROVE  x \in ToSet(t)
  <2>1. PICK h \in 1 .. Len(s) : x = s[h]
    BY <1>3, ElementsOf
  <2>2. CASE h <= i
    <3>1. h \in 1 .. Len(s) + 1
      BY <1>1
    <3>2. t[h] = s[h]
      BY <2>2, <3>1 DEF Inserted
    <3>. QED
      BY <1>1, <2>1, <3>1, <3>2, ElementsOf
  <2>3. CASE h > i
    <3>1. PICK j \in 1 .. Len(s) + 1 : j = h + 1
      BY <1>1
    <3>2. t[j] = s[h]
      BY <2>3, <3>1 DEF Inserted
    <3>. QED
      BY <1>1, <2>1, <3>2, ElementsOf
  <2>. QED
    BY <1>1, <2>2, <2>3
<1>4. e \in ToSet(t)
  <2>1. PICK j \in 1 .. Len(s) + 1 : j = i + 1
    BY <1>1
  <2>2. t[j] = e
    BY <2>1 DEF Inserted
  <2>. QED
    BY <1>1, <2>2, ElementsOf
<1>5. t[1] = s[1]
  <2>1. 1 \in 1 .. Len(s) + 1 /\ 1 <= i
    BY <1>1
  <2>. QED
    BY <2>1 DEF Inserted
<1>. QED
  BY <1>2, <1>3, <1>4, <1>5

LEMMA RemovedElements ==
  ASSUME NEW S, NEW s \in Seq(S), NEW i \in 1 .. Len(s), NEW nxt \in 1 .. Len(s), nxt = i + 1,
         \A j, h \in 1 .. Len(s) : s[j] = s[h] => j = h
  PROVE  /\ ToSet(RemoveAt(s, i + 1)) = ToSet(s) \ {s[nxt]}
         /\ RemoveAt(s, i + 1)[1] = s[1]
         /\ RemoveAt(s, i + 1)[i] = s[i]
<1>1. Len(s) \in Nat /\ i < Len(s)
  BY LenProperties
<1>2. Removed(S, s, i, RemoveAt(s, i + 1))
  BY <1>1, RemovePlaces
<1>3. ToSet(RemoveAt(s, nxt)) = ToSet(s) \ {s[nxt]}
  BY RemoveOnce
<1>. DEFINE t == RemoveAt(s, i + 1)
<1>4. t \in Seq(S) /\ Len(s) = Len(t) + 1 /\ Len(t) \in Nat
  BY <1>2, LenProperties DEF Removed
<1>5. \A j \in 1 .. Len(t) : j <= i => t[j] = s[j]
  BY <1>2 DEF Removed
<1>. HIDE DEF t
<1>6. 1 \in 1 .. Len(t) /\ 1 <= i /\ i \in 1 .. Len(t) /\ i <= i
  BY <1>1, <1>4
<1>7. t[1] = s[1] /\ t[i] = s[i]
  BY <1>5, <1>6
<1>. QED
  BY <1>3, <1>7 DEF t

\* Regions that tile the area are apart and inside.
LEMMA RegionsApart ==
  ASSUME NEW l, NEW v \in [Region -> Nat], NEW n \in [Region -> Nat], Tiled(l, v, n),
         NEW q \in ToSet(l), NEW r \in ToSet(l)
  PROVE  /\ q \in Region
         /\ v[q] + n[q] <= AreaPages
         /\ q # r => v[q] + n[q] <= v[r] \/ v[r] + n[r] <= v[q]
<1>. DEFINE N == Len(l)
            a == Along(l, v)
            c == Along(l, n)
<1>1. l \in Seq(Region) /\ N \in Nat /\ N > 0
  BY LenProperties DEF Tiled
<1>2. PICK j \in 1 .. N : q = l[j]
  BY <1>1, ElementsOf
<1>3. PICK h \in 1 .. N : r = l[h]
  BY <1>1, ElementsOf
<1>4. Spans(N, a, c) /\ v[l[N]] + n[l[N]] = AreaPages
  BY DEF Tiled
<1>5. \A k \in 1 .. N : a[k] = v[l[k]] /\ c[k] = n[l[k]]
  BY DEF Along
<1>6. q \in Region
  BY <1>1, ElementsOf
<1>. HIDE DEF N, a, c
<1>7. N \in 1 .. N
  BY <1>1
<1>8. a[j] + c[j] <= AreaPages
  <2>1. /\ a[j] \in Nat /\ c[j] \in Nat /\ a[N] \in Nat /\ c[N] \in Nat
        /\ j < N => a[j] + c[j] <= a[N]
    BY <1>4, <1>7 DEF Spans
  <2>2. a[N] + c[N] = AreaPages
    BY <1>4, <1>5, <1>7
  <2>3. j = N \/ j < N
    BY <1>1
  <2>. QED
    BY <2>1, <2>2, <2>3
<1>9. j < h => a[j] + c[j] <= a[h]
  BY <1>4 DEF Spans
<1>10. h < j => a[h] + c[h] <= a[j]
  BY <1>4 DEF Spans
<1>11. j < h \/ h < j \/ j = h
  BY <1>1
<1>. QED
  BY <1>2, <1>3, <1>5, <1>6, <1>8, <1>9, <1>10, <1>11

-----------------------------------------------------------------------------
(* The four ways in which dev.c changes an area *)

\* register_resource: region r is given to b, and the pages of b are mapped.
Gives(l, v, n, rs, pt, r, b, ns, np) ==
  /\ AreaState(l, v, n, rs, pt)
  /\ r \in ToSet(l) /\ rs[r] = Free /\ b \in Buffer /\ b \notin Owners(l, rs)
  /\ ns = [rs EXCEPT ![r] = b]
  /\ np = [p \in D!Page |-> IF p \in Block(v[r], n[r]) THEN D!Down(BufferBase[b]) + p - v[r] ELSE pt[p]]

LEMMA GiveKeeps ==
  ASSUME NEW l, NEW v, NEW n, NEW rs, NEW pt, NEW r, NEW b, NEW ns, NEW np,
         Gives(l, v, n, rs, pt, r, b, ns, np)
  PROVE  /\ \A p \in Block(v[r], n[r]) : pt[p] = None
         /\ AreaState(l, v, n, ns, np)
         /\ Owners(l, ns) = Owners(l, rs) \cup {b}
         /\ Blocks(l, v, n, ns) = Blocks(l, v, n, rs) \cup ({Block(v[r], n[r])} \ {{}})
<1>. DEFINE at == Block(v[r], n[r])
            f == D!Down(BufferBase[b])
<1>0. /\ AreaState(l, v, n, rs, pt)
      /\ r \in ToSet(l) /\ rs[r] = Free /\ b \in Buffer /\ b \notin Owners(l, rs)
      /\ ns = [rs EXCEPT ![r] = b]
      /\ np = [p \in D!Page |-> IF p \in at THEN f + p - v[r] ELSE pt[p]]
  BY DEF Gives
<1>a. f \in Nat
  BY <1>0, PagesAreNumbers
<1>. HIDE DEF at, f
<1>b. at = Block(v[r], n[r]) /\ f = D!Down(BufferBase[b])
  BY DEF at, f
<1>. USE <1>0, <1>a, <1>b
<1>1. /\ v \in [Region -> Nat] /\ n \in [Region -> Nat] /\ rs \in [Region -> Buffer \cup {Free}]
      /\ pt \in [D!Page -> Nat \cup {None}] /\ Tiled(l, v, n)
  BY DEF AreaState
<1>2. ToSet(l) \subseteq Region
  BY <1>1, ElementsOf DEF Tiled
<1>3. \A p \in at : pt[p] = None
  BY DEF AreaState, FramesAt, Block
<1>4. /\ ns \in [Region -> Buffer \cup {Free}] /\ ns[r] = b /\ b # Free
      /\ \A q \in Region : q # r => ns[q] = rs[q]
  BY <1>1, <1>2, BufferAssumption
<1>5. v[r] \in Nat /\ n[r] \in Nat
  BY <1>1, <1>2
<1>6. np \in [D!Page -> Nat \cup {None}]
  <2>1. ASSUME NEW p \in D!Page, p \in at
        PROVE  f + p - v[r] \in Nat
    BY <1>5, <2>1 DEF Block, D!Page
  <2>. QED
    BY <1>1, <2>1
<1>7. ASSUME NEW q \in ToSet(l), NEW p \in Block(v[q], n[q])
      PROVE  /\ p \in D!Page /\ p \in Int /\ v[q] <= p
             /\ q # r => p \notin at
  <2>1. /\ v[q] + n[q] <= AreaPages /\ q \in Region
        /\ q # r => v[q] + n[q] <= v[r] \/ v[r] + n[r] <= v[q]
    BY <1>1, RegionsApart
  <2>2. /\ v[q] \in Nat /\ n[q] \in Nat
        /\ AreaPages \in Nat /\ MaxPages \in Nat /\ AreaPages <= MaxPages
    BY <1>1, <2>1, BufferAssumption
  <2>3. p \in Int /\ v[q] <= p /\ p < v[q] + n[q]
    BY <2>2 DEF Block
  <2>4. p \in D!Page
    BY <2>1, <2>2, <2>3 DEF D!Page
  <2>5. ASSUME q # r, p \in at
        PROVE  FALSE
    <3>1. v[r] <= p /\ p < v[r] + n[r]
      BY <1>5, <2>5 DEF Block
    <3>. QED
      BY <1>5, <2>1, <2>2, <2>3, <2>5, <3>1
  <2>. QED
    BY <2>3, <2>4, <2>5
<1>8. ASSUME NEW q \in ToSet(l)
      PROVE  FramesAt(np, v[q], n[q], ns[q])
  <2>1. CASE q = r
    <3>1. ASSUME NEW p \in v[r] .. v[r] + n[r] - 1
          PROVE  np[p] = D!Down(BufferBase[b]) + p - v[r]
      <4>1. p \in D!Page /\ p \in at
        BY <1>7, <3>1 DEF Block
      <4>. QED
        BY <4>1
    <3>. QED
      BY <1>4, <2>1, <3>1 DEF FramesAt
  <2>2. CASE q # r
    <3>1. ASSUME NEW p \in v[q] .. v[q] + n[q] - 1
          PROVE  np[p] = pt[p]
      <4>1. p \in D!Page /\ p \notin at
        BY <1>7, <2>2, <3>1 DEF Block
      <4>. QED
        BY <4>1
    <3>2. ns[q] = rs[q] /\ FramesAt(pt, v[q], n[q], rs[q])
      BY <1>2, <1>4, <2>2 DEF AreaState
    <3>. QED
      BY <3>1, <3>2 DEF FramesAt
  <2>. QED
    BY <2>1, <2>2
<1>9. ASSUME NEW q \in ToSet(l), NEW s \in ToSet(l), ns[q] = ns[s], ns[q] # Free
      PROVE  q = s
  <2>1. \A x \in ToSet(l) : rs[x] # b
    BY <1>4 DEF Owners
  <2>2. rs[q] = rs[s] /\ rs[q] # Free => q = s
    BY DEF AreaState
  <2>. QED
    BY <1>2, <1>4, <1>9, <2>1, <2>2
<1>10. AreaState(l, v, n, ns, np)
  BY <1>1, <1>4, <1>6, <1>8, <1>9 DEF AreaState
<1>11. Owners(l, ns) = Owners(l, rs) \cup {b}
  BY <1>2, <1>4 DEF Owners
<1>12. Blocks(l, v, n, ns) = Blocks(l, v, n, rs) \cup ({at} \ {{}})
  BY <1>2, <1>4 DEF Blocks
<1>. QED
  BY <1>3, <1>10, <1>11, <1>12

\* new_region: region i, which is free, is cut after k pages.
Splits(l, v, n, rs, pt, i, new, k, s, w, m, ns) ==
  /\ AreaState(l, v, n, rs, pt)
  /\ i \in 1 .. Len(l) /\ rs[l[i]] = Free
  /\ new \in Region /\ new \notin ToSet(l) /\ k \in Nat /\ k <= n[l[i]]
  /\ w = [v EXCEPT ![new] = v[l[i]] + k]
  /\ m = [n EXCEPT ![l[i]] = k, ![new] = n[l[i]] - k]
  /\ s = InsertAt(l, i + 1, new)
  /\ ns = [rs EXCEPT ![new] = Free]

LEMMA SplitKeeps ==
  ASSUME NEW l, NEW v, NEW n, NEW rs, NEW pt, NEW i, NEW new, NEW k, NEW s, NEW w, NEW m, NEW ns,
         Splits(l, v, n, rs, pt, i, new, k, s, w, m, ns)
  PROVE  /\ AreaState(s, w, m, ns, pt)
         /\ l[i] \in ToSet(s) /\ ns[l[i]] = Free /\ w[l[i]] = v[l[i]] /\ m[l[i]] = k
         /\ Owners(s, ns) = Owners(l, rs)
         /\ Blocks(s, w, m, ns) = Blocks(l, v, n, rs)
         /\ s[1] = l[1]
         /\ \A q \in ToSet(l) : ns[q] = rs[q]
<1>0. /\ AreaState(l, v, n, rs, pt)
      /\ i \in 1 .. Len(l) /\ rs[l[i]] = Free
      /\ new \in Region /\ new \notin ToSet(l) /\ k \in Nat /\ k <= n[l[i]]
      /\ w = [v EXCEPT ![new] = v[l[i]] + k]
      /\ m = [n EXCEPT ![l[i]] = k, ![new] = n[l[i]] - k]
      /\ s = InsertAt(l, i + 1, new)
      /\ ns = [rs EXCEPT ![new] = Free]
  BY DEF Splits
<1>. USE <1>0
<1>1. /\ v \in [Region -> Nat] /\ n \in [Region -> Nat] /\ rs \in [Region -> Buffer \cup {Free}]
      /\ pt \in [D!Page -> Nat \cup {None}] /\ Tiled(l, v, n) /\ l \in Seq(Region)
  BY DEF AreaState, Tiled
<1>2. /\ ToSet(l) \subseteq Region /\ l[i] \in ToSet(l) /\ l[i] \in Region /\ l[i] # new
  BY <1>1, ElementsOf
<1>3. Tiled(s, w, m)
  BY <1>1, TileSplit
<1>4. ToSet(s) = ToSet(l) \cup {new} /\ s[1] = l[1]
  <2>1. Inserted(Region, l, i, new, InsertAt(l, i + 1, new))
    BY <1>1, InsertPlaces
  <2>. QED
    BY <1>1, <2>1, InsertedElements
<1>5. v[l[i]] \in Nat /\ n[l[i]] \in Nat
  BY <1>1, <1>2
<1>6. v[l[i]] + k \in Nat /\ n[l[i]] - k \in Nat
  BY <1>5
<1>7. /\ w \in [Region -> Nat] /\ m \in [Region -> Nat] /\ ns \in [Region -> Buffer \cup {Free}]
      /\ w[new] = v[l[i]] + k /\ m[new] = n[l[i]] - k /\ m[l[i]] = k /\ ns[new] = Free
      /\ \A q \in Region : q # new => w[q] = v[q] /\ ns[q] = rs[q]
      /\ \A q \in Region : q # new /\ q # l[i] => m[q] = n[q]
  BY <1>1, <1>2, <1>6
<1>8. \A q \in ToSet(l) : q # new
  OBVIOUS
<1>9. ASSUME NEW q \in ToSet(s)
      PROVE  FramesAt(pt, w[q], m[q], ns[q])
  <2>1. FramesAt(pt, v[l[i]], n[l[i]], Free)
    BY <1>2 DEF AreaState
  <2>2. CASE q = new
    <3>1. \A p \in v[l[i]] + k .. v[l[i]] + k + (n[l[i]] - k) - 1 : p \in v[l[i]] .. v[l[i]] + n[l[i]] - 1
      BY SMTT(30), <1>5
    <3>2. \A p \in w[new] .. w[new] + m[new] - 1 : pt[p] = None
      BY <1>7, <2>1, <3>1 DEF FramesAt
    <3>. QED
      BY <1>7, <2>2, <3>2 DEF FramesAt
  <2>3. CASE q = l[i]
    <3>1. \A p \in v[l[i]] .. v[l[i]] + k - 1 : p \in v[l[i]] .. v[l[i]] + n[l[i]] - 1
      BY <1>5
    <3>2. \A p \in v[l[i]] .. v[l[i]] + k - 1 : pt[p] = None
      BY <2>1, <3>1 DEF FramesAt
    <3>3. w[q] = v[l[i]] /\ m[q] = k /\ ns[q] = Free
      BY <1>2, <1>7, <2>3
    <3>. QED
      BY <3>2, <3>3 DEF FramesAt
  <2>4. CASE q # new /\ q # l[i]
    <3>1. q \in ToSet(l) /\ q \in Region
      BY <1>2, <1>4, <2>4
    <3>2. w[q] = v[q] /\ m[q] = n[q] /\ ns[q] = rs[q]
      BY <1>7, <2>4, <3>1
    <3>3. FramesAt(pt, v[q], n[q], rs[q])
      BY <3>1 DEF AreaState
    <3>. QED
      BY <3>2, <3>3
  <2>. QED
    BY <2>2, <2>3, <2>4
<1>10. ASSUME NEW q \in ToSet(s), NEW r \in ToSet(s), ns[q] = ns[r], ns[q] # Free
       PROVE  q = r
  <2>1. q \in ToSet(l) /\ r \in ToSet(l) /\ rs[q] = rs[r] /\ rs[q] # Free
    BY <1>2, <1>4, <1>7, <1>10
  <2>. QED
    BY <2>1 DEF AreaState
<1>11. AreaState(s, w, m, ns, pt)
  BY <1>1, <1>3, <1>7, <1>9, <1>10 DEF AreaState
<1>12. {r \in ToSet(s) : ns[r] # Free} = {r \in ToSet(l) : rs[r] # Free}
  BY <1>2, <1>4, <1>7, <1>8
<1>13. Owners(s, ns) = Owners(l, rs)
  BY <1>2, <1>4, <1>7, <1>8 DEF Owners
<1>14. Blocks(s, w, m, ns) = Blocks(l, v, n, rs)
  <2>. DEFINE U == {r \in ToSet(l) : rs[r] # Free}
  <2>1. \A q \in U : w[q] = v[q] /\ m[q] = n[q]
    BY <1>2, <1>7, <1>8
  <2>. HIDE DEF U
  <2>2. {Block(w[q], m[q]) : q \in U} = {Block(v[q], n[q]) : q \in U}
    <3>1. \A q \in U : Block(w[q], m[q]) = Block(v[q], n[q])
      BY <2>1
    <3>. QED
      BY <3>1, Zenon
  <2>. QED
    BY <1>12, <2>2 DEF Blocks, U
<1>. QED
  BY <1>2, <1>4, <1>7, <1>8, <1>11, <1>13, <1>14

\* unregister_resource: the region of a buffer is free again, and its pages are unmapped.
Takes(l, v, n, rs, pt, r, ns, np) ==
  /\ AreaState(l, v, n, rs, pt) /\ r \in ToSet(l) /\ rs[r] # Free
  /\ ns = [rs EXCEPT ![r] = Free]
  /\ np = [p \in D!Page |-> IF p \in Block(v[r], n[r]) THEN None ELSE pt[p]]

LEMMA TakeKeeps ==
  ASSUME NEW l, NEW v, NEW n, NEW rs, NEW pt, NEW r, NEW ns, NEW np,
         Takes(l, v, n, rs, pt, r, ns, np)
  PROVE  /\ AreaState(l, v, n, ns, np)
         /\ ns[r] = Free /\ \A q \in ToSet(l) : q # r => ns[q] = rs[q]
         /\ Owners(l, ns) = Owners(l, rs) \ {rs[r]}
         /\ Blocks(l, v, n, ns) = Blocks(l, v, n, rs) \ {Block(v[r], n[r])}
         /\ Block(v[r], n[r]) # {} => Block(v[r], n[r]) \in Blocks(l, v, n, rs)
<1>. DEFINE at == Block(v[r], n[r])
<1>0. /\ AreaState(l, v, n, rs, pt) /\ r \in ToSet(l) /\ rs[r] # Free
      /\ ns = [rs EXCEPT ![r] = Free]
      /\ np = [p \in D!Page |-> IF p \in at THEN None ELSE pt[p]]
  BY DEF Takes
<1>. HIDE DEF at
<1>b. at = Block(v[r], n[r])
  BY DEF at
<1>. USE <1>0, <1>b
<1>1. /\ v \in [Region -> Nat] /\ n \in [Region -> Nat] /\ rs \in [Region -> Buffer \cup {Free}]
      /\ pt \in [D!Page -> Nat \cup {None}] /\ Tiled(l, v, n)
  BY DEF AreaState
<1>2. ToSet(l) \subseteq Region
  BY <1>1, ElementsOf DEF Tiled
<1>3. /\ ns \in [Region -> Buffer \cup {Free}] /\ ns[r] = Free
      /\ \A q \in Region : q # r => ns[q] = rs[q]
  BY <1>1, <1>2
<1>4. /\ np \in [D!Page -> Nat \cup {None}]
      /\ \A p \in D!Page : np[p] = IF p \in at THEN None ELSE pt[p]
  BY <1>1
<1>5. v[r] \in Nat /\ n[r] \in Nat
  BY <1>1, <1>2
<1>6. ASSUME NEW q \in ToSet(l), NEW p \in Block(v[q], n[q])
      PROVE  /\ p \in D!Page
             /\ q # r => p \notin at
  <2>1. /\ v[q] + n[q] <= AreaPages /\ q \in Region
        /\ q # r => v[q] + n[q] <= v[r] \/ v[r] + n[r] <= v[q]
    BY <1>1, RegionsApart
  <2>2. /\ v[q] \in Nat /\ n[q] \in Nat
        /\ AreaPages \in Nat /\ MaxPages \in Nat /\ AreaPages <= MaxPages
    BY <1>1, <2>1, BufferAssumption
  <2>3. p \in Int /\ v[q] <= p /\ p < v[q] + n[q]
    BY <2>2 DEF Block
  <2>4. p \in D!Page
    BY <2>1, <2>2, <2>3 DEF D!Page
  <2>5. ASSUME q # r, p \in at
        PROVE  FALSE
    <3>1. v[r] <= p /\ p < v[r] + n[r]
      BY <1>5, <2>5 DEF Block
    <3>. QED
      BY <1>5, <2>1, <2>2, <2>3, <2>5, <3>1
  <2>. QED
    BY <2>4, <2>5
<1>7. ASSUME NEW q \in ToSet(l)
      PROVE  FramesAt(np, v[q], n[q], ns[q])
  <2>1. CASE q = r
    <3>1. ASSUME NEW p \in v[r] .. v[r] + n[r] - 1
          PROVE  np[p] = None
      <4>1. p \in D!Page /\ p \in at
        BY <1>6, <3>1 DEF Block
      <4>. QED
        BY <1>4, <4>1
    <3>. QED
      BY <1>3, <2>1, <3>1 DEF FramesAt
  <2>2. CASE q # r
    <3>1. ASSUME NEW p \in v[q] .. v[q] + n[q] - 1
          PROVE  np[p] = pt[p]
      <4>1. p \in D!Page /\ p \notin at
        BY <1>6, <2>2, <3>1 DEF Block
      <4>. QED
        BY <1>4, <4>1
    <3>2. ns[q] = rs[q] /\ FramesAt(pt, v[q], n[q], rs[q])
      BY <1>2, <1>3, <2>2 DEF AreaState
    <3>. QED
      BY <3>1, <3>2 DEF FramesAt
  <2>. QED
    BY <2>1, <2>2
<1>8. \A q \in ToSet(l), s \in ToSet(l) : rs[q] = rs[s] /\ rs[q] # Free => q = s
  BY DEF AreaState
<1>9. ASSUME NEW q \in ToSet(l), NEW s \in ToSet(l), ns[q] = ns[s], ns[q] # Free
      PROVE  q = s
  BY <1>2, <1>3, <1>8, <1>9
<1>10. AreaState(l, v, n, ns, np)
  BY <1>1, <1>3, <1>4, <1>7, <1>9 DEF AreaState
<1>11. Owners(l, ns) = Owners(l, rs) \ {rs[r]}
  <2>1. ASSUME NEW x \in Owners(l, ns)
        PROVE  x \in Owners(l, rs) \ {rs[r]}
    <3>1. PICK q \in ToSet(l) : x = ns[q] /\ ns[q] # Free
      BY <2>1 DEF Owners
    <3>2. q # r /\ ns[q] = rs[q]
      BY <1>2, <1>3, <3>1
    <3>. QED
      BY <1>8, <3>1, <3>2 DEF Owners
  <2>2. ASSUME NEW x \in Owners(l, rs), x # rs[r]
        PROVE  x \in Owners(l, ns)
    BY <1>2, <1>3, <2>2 DEF Owners
  <2>. QED
    BY <2>1, <2>2
<1>12. ASSUME NEW q \in ToSet(l), q # r, Block(v[q], n[q]) # {}
       PROVE  Block(v[q], n[q]) # at
  <2>1. PICK p : p \in Block(v[q], n[q])
    BY <1>12
  <2>. QED
    BY <1>6, <1>12, <2>1
<1>13. Blocks(l, v, n, ns) = Blocks(l, v, n, rs) \ {at}
  <2>1. ASSUME NEW B \in Blocks(l, v, n, ns)
        PROVE  B \in Blocks(l, v, n, rs) /\ B # at
    <3>1. PICK q \in ToSet(l) : B = Block(v[q], n[q]) /\ ns[q] # Free /\ B # {}
      BY <2>1 DEF Blocks
    <3>2. q # r /\ rs[q] # Free
      BY <1>2, <1>3, <3>1
    <3>3. B # at
      BY <1>12, <3>1, <3>2
    <3>. QED
      BY <3>1, <3>2, <3>3 DEF Blocks
  <2>2. ASSUME NEW B \in Blocks(l, v, n, rs), B # at
        PROVE  B \in Blocks(l, v, n, ns)
    <3>1. PICK q \in ToSet(l) : B = Block(v[q], n[q]) /\ rs[q] # Free /\ B # {}
      BY <2>2 DEF Blocks
    <3>2. q # r /\ ns[q] # Free
      BY <1>2, <1>3, <2>2, <3>1
    <3>. QED
      BY <3>1, <3>2 DEF Blocks
  <2>. QED
    BY <2>1, <2>2
<1>14. at # {} => at \in Blocks(l, v, n, rs)
  BY DEF Blocks
<1>. QED
  BY <1>2, <1>3, <1>10, <1>11, <1>13, <1>14

\* free_region_for: region i, which is free, takes in the nxt one, which is free as well.
Joins(l, v, n, rs, pt, i, nxt, m, s) ==
  /\ AreaState(l, v, n, rs, pt)
  /\ i \in 1 .. Len(l) /\ nxt \in 1 .. Len(l) /\ nxt = i + 1
  /\ rs[l[i]] = Free /\ rs[l[nxt]] = Free
  /\ m = [n EXCEPT ![l[i]] = n[l[i]] + n[l[nxt]]]
  /\ s = RemoveAt(l, i + 1)

LEMMA JoinKeeps ==
  ASSUME NEW l, NEW v, NEW n, NEW rs, NEW pt, NEW i, NEW nxt, NEW m, NEW s,
         Joins(l, v, n, rs, pt, i, nxt, m, s)
  PROVE  /\ AreaState(s, v, m, rs, pt)
         /\ Owners(s, rs) = Owners(l, rs)
         /\ Blocks(s, v, m, rs) = Blocks(l, v, n, rs)
         /\ s[1] = l[1] /\ s[i] = l[i]
         /\ ToSet(s) = ToSet(l) \ {l[nxt]}
         /\ v[l[nxt]] = v[l[i]] + n[l[i]]
<1>0. /\ AreaState(l, v, n, rs, pt)
      /\ i \in 1 .. Len(l) /\ nxt \in 1 .. Len(l) /\ nxt = i + 1
      /\ rs[l[i]] = Free /\ rs[l[nxt]] = Free
      /\ m = [n EXCEPT ![l[i]] = n[l[i]] + n[l[nxt]]]
      /\ s = RemoveAt(l, i + 1)
  BY DEF Joins
<1>. USE <1>0
<1>1. /\ v \in [Region -> Nat] /\ n \in [Region -> Nat] /\ rs \in [Region -> Buffer \cup {Free}]
      /\ pt \in [D!Page -> Nat \cup {None}] /\ Tiled(l, v, n) /\ l \in Seq(Region)
      /\ \A j, h \in 1 .. Len(l) : l[j] = l[h] => j = h
  BY DEF AreaState, Tiled
<1>2. /\ ToSet(l) \subseteq Region /\ l[i] \in ToSet(l) /\ l[nxt] \in ToSet(l)
  BY <1>1, ElementsOf
<1>3. l[i] # l[nxt]
  BY <1>1
<1>4. ToSet(s) = ToSet(l) \ {l[nxt]} /\ s[1] = l[1] /\ s[i] = l[i]
  <2>1. l \in Seq(Region) /\ \A j, h \in 1 .. Len(l) : l[j] = l[h] => j = h
    BY <1>1
  <2>2. /\ ToSet(RemoveAt(l, i + 1)) = ToSet(l) \ {l[nxt]}
        /\ RemoveAt(l, i + 1)[1] = l[1] /\ RemoveAt(l, i + 1)[i] = l[i]
    BY <2>1, RemovedElements, SMTT(60)
  <2>. QED
    BY <2>2
<1>5. Tiled(s, v, m)
  BY <1>1, TileJoin
<1>6. v[l[i]] \in Nat /\ n[l[i]] \in Nat /\ v[l[nxt]] \in Nat /\ n[l[nxt]] \in Nat
  BY <1>1, <1>2
<1>7. v[l[nxt]] = v[l[i]] + n[l[i]]
  <2>1. Along(l, v)[nxt] = Along(l, v)[i] + Along(l, n)[i]
    BY <1>1 DEF Tiled, Spans
  <2>. QED
    BY <2>1 DEF Along
<1>8. /\ m \in [Region -> Nat] /\ m[l[i]] = n[l[i]] + n[l[nxt]]
      /\ \A q \in Region : q # l[i] => m[q] = n[q]
  BY SMTT(30), <1>1, <1>2, <1>6
<1>9. ASSUME NEW q \in ToSet(s)
      PROVE  FramesAt(pt, v[q], m[q], rs[q])
  <2>1. FramesAt(pt, v[l[i]], n[l[i]], Free) /\ FramesAt(pt, v[l[nxt]], n[l[nxt]], Free)
    BY <1>2 DEF AreaState
  <2>2. CASE q = l[i]
    <3>1. ASSUME NEW p \in v[l[i]] .. v[l[i]] + m[l[i]] - 1
          PROVE  pt[p] = None
      <4>1. p \in Int /\ v[l[i]] <= p /\ p < v[l[i]] + (n[l[i]] + n[l[nxt]])
        BY <1>6, <1>8, <3>1
      <4>2. CASE p < v[l[i]] + n[l[i]]
        <5>1. p \in v[l[i]] .. v[l[i]] + n[l[i]] - 1
          BY <1>6, <4>1, <4>2
        <5>. QED
          BY <2>1, <5>1 DEF FramesAt
      <4>3. CASE ~(p < v[l[i]] + n[l[i]])
        <5>. HIDE <1>0
        <5>1. p \in v[l[nxt]] .. v[l[nxt]] + n[l[nxt]] - 1
          BY <1>6, <1>7, <4>1, <4>3
        <5>. QED
          BY <2>1, <5>1 DEF FramesAt
      <4>. QED
        BY <4>2, <4>3
    <3>. QED
      BY <2>2, <3>1 DEF FramesAt
  <2>3. CASE q # l[i]
    <3>1. q \in ToSet(l) /\ m[q] = n[q]
      BY <1>2, <1>4, <1>8, <2>3
    <3>. QED
      BY <3>1 DEF AreaState
  <2>. QED
    BY <2>2, <2>3
<1>10. ASSUME NEW q \in ToSet(s), NEW r \in ToSet(s), rs[q] = rs[r], rs[q] # Free
       PROVE  q = r
  <2>1. q \in ToSet(l) /\ r \in ToSet(l)
    BY <1>4
  <2>. QED
    BY <1>10, <2>1 DEF AreaState
<1>11. AreaState(s, v, m, rs, pt)
  BY <1>1, <1>5, <1>8, <1>9, <1>10 DEF AreaState
<1>12. {r \in ToSet(s) : rs[r] # Free} = {r \in ToSet(l) : rs[r] # Free}
  BY <1>4
<1>13. Owners(s, rs) = Owners(l, rs)
  BY <1>4 DEF Owners
<1>14. Blocks(s, v, m, rs) = Blocks(l, v, n, rs)
  <2>. DEFINE U == {r \in ToSet(l) : rs[r] # Free}
  <2>1. \A q \in U : m[q] = n[q]
    BY <1>2, <1>8
  <2>2. {Block(v[q], m[q]) : q \in U} = {Block(v[q], n[q]) : q \in U}
    BY <2>1
  <2>. QED
    BY <1>12, <2>2 DEF Blocks
<1>. QED
  BY <1>4, <1>7, <1>11, <1>13, <1>14


\* The regions that SLIST_FOREACH comes to, as D!Visited, for any pointers.
VisitedFrom(hd, nx, T) ==
  {r \in Region : \A S \in SUBSET Region :
     hd \in S /\ (\A q \in S \ T : nx[q] \in S \cup {None}) => r \in S}

\* On a chain the loop comes to the elements up to the first in T, or to all of them.
LEMMA VisitedIs ==
  ASSUME NEW l, NEW hd, NEW nx, Chain(l, hd, nx), NEW T, NEW i \in 1 .. Len(l),
         \A j \in 1 .. Len(l) : j < i => l[j] \notin T,
         i = Len(l) \/ l[i] \in T
  PROVE  VisitedFrom(hd, nx, T) = {l[j] : j \in 1 .. i}
<1>. DEFINE P == {l[j] : j \in 1 .. i}
<1>1. Len(l) \in Nat /\ \A j \in 1 .. Len(l) : l[j] \in Region
  BY LenProperties, ElementOfSeq DEF Chain
<1>2. 1 \in 1 .. i /\ \A j \in 1 .. i : j \in 1 .. Len(l)
  BY <1>1
<1>3. ASSUME NEW r \in VisitedFrom(hd, nx, T)
      PROVE  r \in P
  <2>1. P \in SUBSET Region /\ hd \in P
    BY <1>1, <1>2 DEF Chain
  <2>2. ASSUME NEW q \in P \ T
        PROVE  nx[q] \in P \cup {None}
    <3>1. PICK j \in 1 .. i : q = l[j]
      BY <2>2
    <3>2. CASE j = i
      BY <2>2, <3>1, <3>2 DEF Chain
    <3>3. CASE j # i
      <4>1. j \in 1 .. Len(l) /\ j + 1 \in 1 .. i /\ j + 1 \in 1 .. Len(l)
        BY <1>1, <3>3
      <4>2. nx[l[j]] = l[j + 1]
        BY <4>1 DEF Chain
      <4>. QED
        BY <3>1, <4>1, <4>2
    <3>. QED
      BY <3>2, <3>3
  <2>. HIDE DEF P
  <2>. QED
    BY <1>3, <2>1, <2>2 DEF VisitedFrom
<1>4. ASSUME NEW S \in SUBSET Region, hd \in S, \A q \in S \ T : nx[q] \in S \cup {None}
      PROVE  \A j \in 1 .. i : l[j] \in S
  <2>. DEFINE U == {j \in 1 .. i : l[j] \notin S}
  <2>1. SUFFICES ASSUME U # {}
                 PROVE  FALSE
    OBVIOUS
  <2>2. i \in Nat /\ U \subseteq 1 .. i
    BY <1>1
  <2>. HIDE DEF U
  <2>3. Min(U) \in U /\ \A y \in U : Min(U) <= y
    BY <2>1, <2>2, LeastExists
  <2>. DEFINE m == Min(U)
              k == m - 1
  <2>. HIDE DEF m
  <2>4. m \in 1 .. i /\ l[m] \notin S /\ \A y \in U : m <= y
    BY <2>2, <2>3 DEF U, m
  <2>5. m # 1
    BY <1>4, <2>4 DEF Chain
  <2>6. k \in 1 .. i /\ k < i /\ k < m /\ m = k + 1 /\ k \in 1 .. Len(l) /\ m \in 1 .. Len(l)
    BY <1>1, <1>2, <2>4, <2>5
  <2>. HIDE DEF k
  <2>7. l[k] \in S
    <3>1. k \notin U
      BY <2>2, <2>4, <2>6
    <3>. QED
      BY <2>6, <3>1 DEF U
  <2>8. nx[l[k]] = l[m] /\ l[k] \notin T
    BY <2>6 DEF Chain
  <2>9. l[m] \in S \cup {None}
    BY <1>4, <2>7, <2>8
  <2>10. l[m] \in Region /\ None \notin Region
    BY <1>1, <2>6, NoneAssumption
  <2>. QED
    BY <2>4, <2>9, <2>10
<1>5. ASSUME NEW j \in 1 .. i
      PROVE  l[j] \in VisitedFrom(hd, nx, T)
  BY <1>1, <1>2, <1>4 DEF VisitedFrom
<1>. QED
  BY <1>3, <1>5

\* The search of the list for a region of T finds the first one and knows the one before it.
FoundAt(l, T, i) ==
  /\ l[i] \in T /\ D!Found(T) = {l[i]} /\ ~D!AtEnd(T)
  /\ \A q \in D!Before(T) : \E h \in 1 .. Len(l) : i = h + 1 /\ q = l[h]

LEMMA FoundIs ==
  ASSUME NEW l, Chain(l, head, next), NEW T
  PROVE  \/ D!Found(T) = {} /\ \A j \in 1 .. Len(l) : l[j] \notin T
         \/ \E i \in 1 .. Len(l) : FoundAt(l, T, i)
<1>. DEFINE U == {j \in 1 .. Len(l) : l[j] \in T}
            N == Len(l)
<1>1. N \in Nat /\ N > 0 /\ \A j \in 1 .. Len(l) : l[j] \in Region
  BY LenProperties, ElementOfSeq DEF Chain
<1>2. D!Visited(T) = VisitedFrom(head, next, T)
  BY DEF D!Visited, VisitedFrom
<1>3. CASE U = {}
  <2>1. N \in 1 .. Len(l) /\ \A j \in 1 .. Len(l) : l[j] \notin T
    BY <1>1, <1>3
  <2>. HIDE DEF U
  <2>2. VisitedFrom(head, next, T) = {l[j] : j \in 1 .. N}
    BY <2>1, VisitedIs
  <2>. QED
    BY <1>2, <2>1, <2>2 DEF D!Found
<1>4. CASE U # {}
  <2>. DEFINE i == Min(U)
  <2>1. U \subseteq 1 .. N
    OBVIOUS
  <2>2. i \in U /\ \A y \in U : i <= y
    <3>. HIDE DEF U, N
    <3>. QED
      BY <1>1, <1>4, <2>1, LeastExists
  <2>. HIDE DEF i
  <2>3. i \in 1 .. Len(l) /\ l[i] \in T
    BY <2>2
  <2>4. \A j \in 1 .. Len(l) : j < i => l[j] \notin T
    <3>1. ASSUME NEW j \in 1 .. Len(l), j < i, l[j] \in T
          PROVE  FALSE
      <4>1. i <= j
        BY <2>2, <3>1
      <4>. QED
        BY <1>1, <2>3, <3>1, <4>1
    <3>. QED
      BY <3>1
  <2>. HIDE DEF U
  <2>5. D!Visited(T) = {l[j] : j \in 1 .. i}
    <3>1. VisitedFrom(head, next, T) = {l[j] : j \in 1 .. i}
      BY <2>3, <2>4, VisitedIs
    <3>. QED
      BY <1>2, <3>1
  <2>6. ASSUME NEW q \in D!Visited(T) \ T
        PROVE  \E j \in 1 .. Len(l), k \in 1 .. Len(l) : k = j + 1 /\ k <= i /\ q = l[j] /\ next[q] = l[k]
    <3>1. PICK j \in 1 .. i : q = l[j]
      BY <2>5, <2>6
    <3>2. j # i
      BY <2>3, <2>6, <3>1
    <3>. DEFINE k == j + 1
    <3>3. j \in 1 .. Len(l) /\ k \in 1 .. Len(l) /\ k = j + 1 /\ k <= i
      BY <1>1, <2>3, <3>2
    <3>. HIDE DEF k
    <3>4. next[l[j]] = l[k]
      BY <3>3 DEF Chain
    <3>. QED
      BY <3>1, <3>3, <3>4
  <2>7. D!Found(T) = {l[i]}
    <3>1. l[i] \in D!Visited(T)
      BY <1>1, <2>3, <2>5
    <3>2. ASSUME NEW q \in D!Visited(T), q \in T
          PROVE  q = l[i]
      <4>1. PICK j \in 1 .. i : q = l[j]
        BY <2>5
      <4>2. ~(j < i) /\ j \in 1 .. Len(l)
        <5>1. j \in 1 .. Len(l)
          BY <1>1, <2>3
        <5>. QED
          BY <2>4, <3>2, <4>1, <5>1
      <4>3. j = i
        BY <1>1, <2>3, <4>2
      <4>. QED
        BY <4>1, <4>3
    <3>. QED
      BY <2>3, <3>1, <3>2 DEF D!Found
  <2>8. ~D!AtEnd(T)
    <3>1. ASSUME NEW q \in D!Visited(T) \ T
          PROVE  next[q] # None
      BY <1>1, <2>6, NoneAssumption
    <3>. QED
      BY <3>1 DEF D!AtEnd
  <2>9. ASSUME NEW q \in D!Before(T)
        PROVE  \E h \in 1 .. Len(l) : i = h + 1 /\ q = l[h]
    <3>1. q \in D!Visited(T) \ T /\ next[q] \in T
      BY <2>9 DEF D!Before
    <3>2. PICK j \in 1 .. Len(l), k \in 1 .. Len(l) :
            k = j + 1 /\ k <= i /\ q = l[j] /\ next[q] = l[k]
      BY <2>6, <3>1
    <3>3. ~(k < i)
      BY <2>4, <3>1, <3>2
    <3>4. k = i
      BY <1>1, <2>3, <3>2, <3>3
    <3>. QED
      BY <3>2, <3>4
  <2>. QED
    BY <2>3, <2>7, <2>8, <2>9 DEF FoundAt
<1>. QED
  BY <1>3, <1>4

\* Without anything to stop it the loop comes to every region of the list.
LEMMA ListedIs ==
  ASSUME NEW l, NEW hd, NEW nx, Chain(l, hd, nx)
  PROVE  VisitedFrom(hd, nx, {}) = ToSet(l)
<1>. DEFINE N == Len(l)
            T == {}
<1>1. N \in Nat /\ N > 0 /\ l \in Seq(Region)
  BY LenProperties DEF Chain
<1>2. N \in 1 .. Len(l) /\ \A j \in 1 .. Len(l) : j < N => l[j] \notin T
  BY <1>1
<1>. HIDE DEF T
<1>3. VisitedFrom(hd, nx, T) = {l[j] : j \in 1 .. N}
  BY <1>2, VisitedIs
<1>4. \A x : x \in ToSet(l) <=> \E j \in 1 .. Len(l) : x = l[j]
  BY <1>1, ElementsOf
<1>. QED
  BY <1>3, <1>4 DEF T

\* The operators of Resources on sequences are those of this module.
LEMMA SameOperators ==
  /\ \A s, i : R!RemoveAt(s, i) = RemoveAt(s, i)
  /\ \A s : R!ToSet(s) = ToSet(s)
BY DEF R!RemoveAt, RemoveAt, R!ToSet, ToSet

LEMMA BlocksApart ==
  ASSUME NEW l, NEW v, NEW n, NEW rs, NEW pt, AreaState(l, v, n, rs, pt),
         NEW r \in ToSet(l), rs[r] = Free
  PROVE  /\ Block(v[r], n[r]) \subseteq D!Page
         /\ \A B \in Blocks(l, v, n, rs) : B \cap Block(v[r], n[r]) = {}
<1>1. v \in [Region -> Nat] /\ n \in [Region -> Nat] /\ Tiled(l, v, n)
  BY DEF AreaState
<1>2. r \in Region /\ v[r] + n[r] <= AreaPages
  BY <1>1, RegionsApart
<1>3. /\ v[r] \in Nat /\ n[r] \in Nat
      /\ AreaPages \in Nat /\ MaxPages \in Nat /\ AreaPages <= MaxPages
  BY <1>1, <1>2, BufferAssumption
<1>4. Block(v[r], n[r]) \subseteq D!Page
  BY <1>2, <1>3 DEF Block, D!Page
<1>5. ASSUME NEW q \in ToSet(l), rs[q] # Free
      PROVE  Block(v[q], n[q]) \cap Block(v[r], n[r]) = {}
  <2>1. q # r
    BY <1>5
  <2>2. q \in Region /\ (v[q] + n[q] <= v[r] \/ v[r] + n[r] <= v[q])
    BY <1>1, <2>1, RegionsApart
  <2>3. v[q] \in Nat /\ n[q] \in Nat
    BY <1>1, <2>2
  <2>. QED
    BY <1>3, <2>2, <2>3 DEF Block
<1>. QED
  BY <1>4, <1>5 DEF Blocks

-----------------------------------------------------------------------------
(* The pointers when the list changes, and the pages of each buffer *)

LEMMA SplitChain ==
  ASSUME NEW l, NEW hd, NEW nx, Chain(l, hd, nx), nx \in [Region -> Region \cup {None}],
         NEW i \in 1 .. Len(l), NEW new \in Region, new \notin ToSet(l), NEW s, s = InsertAt(l, i + 1, new),
         \A j, h \in 1 .. Len(s) : s[j] = s[h] => j = h
  PROVE  Chain(s, hd, [nx EXCEPT ![new] = nx[l[i]], ![l[i]] = new])
<1>. DEFINE n2 == [nx EXCEPT ![new] = nx[l[i]], ![l[i]] = new]
            N == Len(l)
<1>1. /\ l \in Seq(Region) /\ N \in Nat /\ N > 0 /\ \A j \in 1 .. N : l[j] \in Region /\ l[j] # new
  BY LenProperties, ElementOfSeq, ElementsOf DEF Chain
<1>2. Inserted(Region, l, i, new, s)
  BY <1>1, InsertPlaces
<1>3. /\ s \in Seq(Region) /\ Len(s) = N + 1
      /\ \A j \in 1 .. N + 1 : j <= i => s[j] = l[j]
      /\ \A j \in 1 .. N + 1 : j = i + 1 => s[j] = new
      /\ \A j \in 1 .. N + 1, h \in 1 .. N : h > i /\ j = h + 1 => s[j] = l[h]
  BY <1>2 DEF Inserted
<1>4. /\ n2[new] = nx[l[i]] /\ n2[l[i]] = new
      /\ \A j \in 1 .. N : j # i => n2[l[j]] = nx[l[j]]
  <2>1. l[i] \in Region /\ l[i] # new
    BY <1>1
  <2>2. n2[new] = nx[l[i]] /\ n2[l[i]] = new
    BY <2>1
  <2>3. ASSUME NEW j \in 1 .. N, j # i
        PROVE  n2[l[j]] = nx[l[j]]
    <3>1. l[j] # l[i] /\ l[j] # new /\ l[j] \in Region
      BY <1>1, <2>3 DEF Chain
    <3>. QED
      BY <3>1
  <2>. QED
    BY <2>2, <2>3
<1>. HIDE DEF n2
<1>5. ASSUME NEW j \in 1 .. N + 1, NEW h \in 1 .. N + 1, h = j + 1
      PROVE  n2[s[j]] = s[h]
  <2>1. CASE j < i
    <3>1. j \in 1 .. N /\ h \in 1 .. N /\ j <= i /\ h <= i /\ j # i
      BY <1>1, <1>5, <2>1
    <3>2. nx[l[j]] = l[h]
      BY <1>5, <3>1 DEF Chain
    <3>. QED
      BY <1>3, <1>4, <3>1, <3>2
  <2>2. CASE j = i
    <3>1. s[j] = l[i] /\ s[h] = new
      BY <1>1, <1>3, <1>5, <2>2
    <3>. QED
      BY <1>4, <3>1
  <2>3. CASE j = i + 1
    <3>1. j \in 1 .. N /\ j > i
      BY <1>1, <1>5, <2>3
    <3>2. s[h] = l[j] /\ s[j] = new
      BY <1>3, <1>5, <2>3, <3>1
    <3>3. nx[l[i]] = l[j]
      BY <2>3, <3>1 DEF Chain
    <3>. QED
      BY <1>4, <3>2, <3>3
  <2>4. CASE j > i + 1
    <3>1. PICK g \in 1 .. N : j = g + 1 /\ g > i
      <4>1. j - 1 \in 1 .. N /\ j = (j - 1) + 1 /\ j - 1 > i
        BY <1>1, <2>4
      <4>. QED
        BY <4>1
    <3>2. j \in 1 .. N /\ j > i /\ g # i
      BY <1>1, <1>5, <3>1
    <3>3. s[j] = l[g] /\ s[h] = l[j]
      BY <1>3, <1>5, <3>1, <3>2
    <3>4. nx[l[g]] = l[j]
      BY <3>1, <3>2 DEF Chain
    <3>. QED
      BY <1>4, <3>2, <3>3, <3>4
  <2>. QED
    BY <1>1, <2>1, <2>2, <2>3, <2>4
<1>6. s[1] = hd
  <2>1. 1 \in 1 .. N + 1 /\ 1 <= i
    BY <1>1
  <2>. QED
    BY <1>3, <2>1 DEF Chain
<1>7. n2[s[N + 1]] = None
  <2>1. CASE i = N
    BY <1>1, <1>3, <1>4, <2>1 DEF Chain
  <2>2. CASE i # N
    <3>1. N \in 1 .. N /\ N > i /\ N + 1 \in 1 .. N + 1 /\ N # i
      BY <1>1, <2>2
    <3>2. s[N + 1] = l[N]
      BY <1>3, <3>1
    <3>. QED
      BY <1>4, <3>1, <3>2 DEF Chain
  <2>. QED
    BY <2>1, <2>2
<1>8. Chain(s, hd, n2)
  BY <1>1, <1>3, <1>5, <1>6, <1>7 DEF Chain
<1>. QED
  BY <1>8 DEF n2

LEMMA JoinChain ==
  ASSUME NEW l, NEW hd, NEW nx, Chain(l, hd, nx), nx \in [Region -> Region \cup {None}],
         NEW i \in 1 .. Len(l), i < Len(l), NEW s, s = RemoveAt(l, i + 1),
         \A j, h \in 1 .. Len(s) : s[j] = s[h] => j = h
  PROVE  Chain(s, hd, [nx EXCEPT ![l[i]] = nx[l[i + 1]]])
<1>. DEFINE n2 == [nx EXCEPT ![l[i]] = nx[l[i + 1]]]
            N == Len(s)
<1>1. l \in Seq(Region) /\ Len(l) \in Nat /\ \A j \in 1 .. Len(l) : l[j] \in Region
  BY LenProperties, ElementOfSeq DEF Chain
<1>2. Removed(Region, l, i, s)
  BY <1>1, RemovePlaces
<1>3. /\ s \in Seq(Region) /\ N \in Nat /\ Len(l) = N + 1
      /\ \A j \in 1 .. N : j <= i => s[j] = l[j]
      /\ \A j \in 1 .. N, h \in 1 .. Len(l) : j > i /\ h = j + 1 => s[j] = l[h]
  BY <1>2, LenProperties DEF Removed
<1>4. i \in 1 .. N /\ 1 \in 1 .. N /\ 1 <= i /\ \A j \in 1 .. N : j \in 1 .. Len(l) /\ j + 1 \in 1 .. Len(l)
  BY <1>1, <1>3
<1>5. /\ n2[l[i]] = nx[l[i + 1]]
      /\ \A j \in 1 .. Len(l) : j # i => n2[l[j]] = nx[l[j]]
  <2>1. l[i] \in Region
    BY <1>1
  <2>2. ASSUME NEW j \in 1 .. Len(l), j # i
        PROVE  n2[l[j]] = nx[l[j]]
    <3>1. l[j] # l[i] /\ l[j] \in Region
      BY <1>1, <2>2 DEF Chain
    <3>. QED
      BY <3>1
  <2>. QED
    BY <2>1, <2>2
<1>. HIDE DEF n2, N
<1>6. ASSUME NEW j \in 1 .. N, NEW h \in 1 .. N, h = j + 1
      PROVE  n2[s[j]] = s[h]
  <2>1. CASE j < i
    <3>1. j <= i /\ h <= i /\ j # i
      BY <1>3, <1>6, <2>1
    <3>2. nx[l[j]] = l[h]
      BY <1>4, <1>6 DEF Chain
    <3>. QED
      BY <1>3, <1>4, <1>5, <3>1, <3>2
  <2>2. CASE j >= i
    <3>. DEFINE g == h + 1
    <3>1. h > i /\ g = h + 1 /\ g \in 1 .. Len(l) /\ h \in 1 .. Len(l)
      BY <1>3, <1>4, <1>6, <2>2
    <3>. HIDE DEF g
    <3>2. s[h] = l[g] /\ nx[l[h]] = l[g]
      BY <1>3, <3>1 DEF Chain
    <3>3. CASE j = i
      <4>1. s[j] = l[i]
        BY <1>3, <1>4, <3>3
      <4>. QED
        BY <1>5, <1>6, <3>2, <3>3, <4>1
    <3>4. CASE j > i
      <4>1. s[j] = l[h] /\ h # i
        BY <1>3, <1>6, <3>1, <3>4
      <4>. QED
        BY <1>5, <3>1, <3>2, <4>1
    <3>. QED
      BY <1>3, <2>2, <3>3, <3>4
  <2>. QED
    BY <1>3, <2>1, <2>2
<1>7. s[1] = hd
  BY <1>3, <1>4 DEF Chain
<1>8. n2[s[N]] = None
  <2>1. CASE i = N
    <3>1. s[N] = l[i] /\ l[i + 1] = l[Len(l)]
      BY <1>3, <1>4, <2>1
    <3>. QED
      BY <1>5, <3>1 DEF Chain
  <2>2. CASE i # N
    <3>. DEFINE g == N + 1
    <3>1. N \in 1 .. N /\ N > i /\ g \in 1 .. Len(l) /\ g = Len(l) /\ g = N + 1 /\ g # i
      BY <1>3, <1>4, <2>2
    <3>. HIDE DEF g
    <3>2. s[N] = l[g]
      BY <1>3, <3>1
    <3>. QED
      BY <1>5, <3>1, <3>2 DEF Chain
  <2>. QED
    BY <2>1, <2>2
<1>9. Chain(s, hd, n2)
  BY <1>1, <1>3, <1>4, <1>6, <1>7, <1>8 DEF Chain, N
<1>. QED
  BY <1>9 DEF n2

\* The sets of pages that MappedRegions is made of are the blocks along the list.
PagesAlong(hd, nx, v, n, rs) ==
  {{v[r] + k : k \in 0 .. n[r] - 1} : r \in {q \in VisitedFrom(hd, nx, {}) : rs[q] # Free}} \ {{}}

LEMMA PagesAlongIs ==
  ASSUME NEW l, NEW hd, NEW nx, Chain(l, hd, nx), NEW v \in [Region -> Nat], NEW n \in [Region -> Nat], NEW rs
  PROVE  PagesAlong(hd, nx, v, n, rs) = Blocks(l, v, n, rs)
<1>. DEFINE Pages(r) == {v[r] + k : k \in 0 .. n[r] - 1}
            U == {r \in ToSet(l) : rs[r] # Free}
<1>1. VisitedFrom(hd, nx, {}) = ToSet(l)
  BY ListedIs
<1>2. PagesAlong(hd, nx, v, n, rs) = {Pages(r) : r \in U} \ {{}}
  BY <1>1 DEF PagesAlong
<1>3. ToSet(l) \subseteq Region
  BY ElementsOf DEF Chain
<1>4. ASSUME NEW r \in Region
      PROVE  Pages(r) = Block(v[r], n[r])
  <2>1. v[r] \in Nat /\ n[r] \in Nat
    OBVIOUS
  <2>2. ASSUME NEW p \in Block(v[r], n[r])
        PROVE  p \in Pages(r)
    <3>1. p - v[r] \in 0 .. n[r] - 1 /\ p = v[r] + (p - v[r])
      BY <2>1, <2>2 DEF Block
    <3>. QED
      BY <3>1
  <2>3. ASSUME NEW k \in 0 .. n[r] - 1
        PROVE  v[r] + k \in Block(v[r], n[r])
    BY <2>1, <2>3 DEF Block
  <2>. QED
    BY <2>2, <2>3
<1>. HIDE DEF Pages
<1>5. {Pages(r) : r \in U} = {Block(v[r], n[r]) : r \in U}
  BY <1>3, <1>4
<1>. QED
  BY <1>2, <1>5 DEF Blocks

LEMMA MappedRegionsAre ==
  /\ MappedRegions = PagesAlong(head, next, vaddr, len, res)
  /\ MappedRegions' = PagesAlong(head', next', vaddr', len', res')
BY DEF MappedRegions, PagesAlong, D!Listed, D!Visited, VisitedFrom

-----------------------------------------------------------------------------
(* The operations of dev.c *)

\* The buffer b is mapped beside the others.
AddsBuffer(b) ==
  /\ DeviceArea' /\ fault' = fault
  /\ \E B \in SUBSET D!Page :
       /\ \A S \in MappedRegions : S \cap B = {}
       /\ MappedRegions' = MappedRegions \cup ({B} \ {{}})
  /\ res[head] # Free => res'[head] = res[head]
  /\ next[head] = None => res'[head] = b

\* The loop of register_resource finds every page of a free region unmapped.
MapsAt(l, v, n, rs, r, b, ns) ==
  /\ AreaState(l, v, n, rs, pages)
  /\ r \in ToSet(l) /\ rs[r] = Free /\ b \in Buffer /\ b \notin Owners(l, rs)
  /\ ns = [rs EXCEPT ![r] = b] /\ n[r] = D!Pages(b)
  /\ D!MapPages(v[r], b)

LEMMA MapPagesIs ==
  ASSUME NEW l, NEW v, NEW n, NEW rs, NEW r, NEW b, NEW ns, MapsAt(l, v, n, rs, r, b, ns)
  PROVE  /\ fault' = fault
         /\ AreaState(l, v, n, ns, pages')
         /\ Owners(l, ns) = Owners(l, rs) \cup {b}
         /\ Blocks(l, v, n, ns) = Blocks(l, v, n, rs) \cup ({Block(v[r], n[r])} \ {{}})
<1>. DEFINE np == [p \in D!Page |-> IF p \in Block(v[r], n[r])
                                   THEN D!Down(BufferBase[b]) + p - v[r] ELSE pages[p]]
<1>1. Gives(l, v, n, rs, pages, r, b, ns, np)
  BY DEF MapsAt, Gives
<1>. HIDE DEF np
<1>2. /\ \A p \in Block(v[r], n[r]) : pages[p] = None
      /\ AreaState(l, v, n, ns, np)
      /\ Owners(l, ns) = Owners(l, rs) \cup {b}
      /\ Blocks(l, v, n, ns) = Blocks(l, v, n, rs) \cup ({Block(v[r], n[r])} \ {{}})
  BY <1>1, GiveKeeps
<1>3. Block(v[r], n[r]) = v[r] .. v[r] + D!Pages(b) - 1 /\ D!MapPages(v[r], b)
  BY DEF MapsAt, Block
<1>. DEFINE at == Block(v[r], n[r])
            done == {p \in at : \A q \in v[r] .. p : pages[q] = None}
<1>4. done = at
  <2>1. v[r] \in Nat /\ D!Pages(b) \in Nat
    BY PagesAreNumbers, ElementsOf DEF MapsAt, AreaState, Tiled
  <2>2. ASSUME NEW p \in at, NEW q \in v[r] .. p
        PROVE  q \in at
    BY <1>3, <2>1, <2>2
  <2>. QED
    BY <1>2, <2>2
<1>5. /\ pages' = [p \in D!Page |-> IF p \in done THEN D!Down(BufferBase[b]) + p - v[r] ELSE pages[p]]
      /\ fault' = IF done = at THEN fault ELSE "vm_arch_pt_map"
  BY <1>3 DEF D!MapPages
<1>6. pages' = np /\ fault' = fault
  BY <1>4, <1>5 DEF np
<1>. QED
  BY <1>2, <1>6

\* A region that nothing follows is the only one.
LEMMA OnlyRegion ==
  ASSUME NEW l, Chain(l, head, next), NEW i \in 1 .. Len(l), next[head] = None
  PROVE  i = 1
<1>. DEFINE N == Len(l)
<1>1. N \in Nat /\ head = l[1] /\ \A j \in 1 .. N : l[j] \in Region
  BY LenProperties, ElementOfSeq DEF Chain
<1>2. \A j, h \in 1 .. N : h = j + 1 => next[l[j]] = l[h]
  BY DEF Chain
<1>3. i \in 1 .. N
  OBVIOUS
<1>. HIDE DEF N
<1>4. SUFFICES ASSUME i # 1
               PROVE  FALSE
  OBVIOUS
<1>5. 1 \in 1 .. N /\ 2 \in 1 .. N /\ 2 = 1 + 1
  BY <1>1, <1>3, <1>4
<1>6. next[l[1]] = l[2] /\ l[2] \in Region
  BY <1>1, <1>2, <1>5
<1>. QED
  BY <1>1, <1>6, NoneAssumption

LEMMA Unmoved ==
  ASSUME DeviceTypes, UNCHANGED devVars
  PROVE  DeviceTypes' /\ Held' = Held /\ head' = head /\ next' = next /\ res' = res /\ reused' = reused
BY DEF DeviceTypes, Held, devVars

\* kdev_map_resource where the region found has the right length
LEMMA MapWholeIs ==
  ASSUME DeviceTypes, DeviceArea, NEW b \in Buffer, b \notin Held, D!MapWhole(b)
  PROVE  AddsBuffer(b)
<1>1. PICK l : AreaOf(l)
  BY DEF DeviceArea
<1>2. PICK r \in D!Found(D!Fits(D!Pages(b))) :
        /\ len[r] = D!Pages(b) /\ res' = [res EXCEPT ![r] = b] /\ D!MapPages(vaddr[r], b)
        /\ head' = head /\ next' = next /\ vaddr' = vaddr /\ len' = len
  BY DEF D!MapWhole
<1>3. PICK i \in 1 .. Len(l) : FoundAt(l, D!Fits(D!Pages(b)), i) /\ r = l[i]
  <2>1. Chain(l, head, next)
    BY <1>1 DEF AreaOf
  <2>. QED
    BY <1>2, <2>1, FoundIs DEF FoundAt
<1>4. /\ l \in Seq(Region) /\ AreaState(l, vaddr, len, res, pages) /\ Chain(l, head, next)
      /\ \A q \in Region : q \notin ToSet(l) => res[q] = Free
  BY <1>1 DEF AreaOf, Chain
<1>5. r \in ToSet(l) /\ r \in Region /\ res[r] = Free /\ head = l[1] /\ Len(l) \in Nat /\ Len(l) > 0
  BY <1>3, <1>4, ElementsOf, LenProperties DEF FoundAt, D!Fits, Chain
<1>6. b \notin Owners(l, res)
  BY <1>4, ElementsOf DEF Owners, Held
<1>7. /\ fault' = fault
      /\ AreaState(l, vaddr, len, res', pages')
      /\ Blocks(l, vaddr, len, res') = Blocks(l, vaddr, len, res) \cup ({Block(vaddr[r], len[r])} \ {{}})
  <2>1. MapsAt(l, vaddr, len, res, r, b, res')
    BY <1>2, <1>4, <1>5, <1>6 DEF MapsAt
  <2>. QED
    BY <2>1, MapPagesIs
<1>8. res'[r] = b /\ \A q \in Region : q # r => res'[q] = res[q]
  BY <1>2, <1>5 DEF DeviceTypes
<1>9. DeviceArea'
  <2>1. (AreaOf(l))'
    BY <1>2, <1>4, <1>5, <1>7, <1>8 DEF AreaOf
  <2>. QED
    BY <2>1 DEF DeviceArea
<1>10. /\ Block(vaddr[r], len[r]) \in SUBSET D!Page
       /\ \A S \in Blocks(l, vaddr, len, res) : S \cap Block(vaddr[r], len[r]) = {}
  BY <1>4, <1>5, BlocksApart
<1>11. MappedRegions = Blocks(l, vaddr, len, res) /\ MappedRegions' = Blocks(l, vaddr, len, res')
  <2>1. vaddr \in [Region -> Nat] /\ len \in [Region -> Nat] /\ Chain(l, head, next)
    BY <1>4 DEF DeviceTypes
  <2>2. PagesAlong(head, next, vaddr, len, res) = Blocks(l, vaddr, len, res)
    BY <2>1, PagesAlongIs
  <2>3. PagesAlong(head, next, vaddr, len, res') = Blocks(l, vaddr, len, res')
    BY <2>1, PagesAlongIs
  <2>. QED
    BY <1>2, <2>2, <2>3, MappedRegionsAre
<1>12. next[head] = None => i = 1
  BY <1>4, OnlyRegion
<1>13. head \in Region
  BY DEF DeviceTypes
<1>. QED
  BY <1>3, <1>5, <1>7, <1>8, <1>9, <1>10, <1>11, <1>12, <1>13 DEF AddsBuffer

\* kdev_map_resource where the rest of the region found goes to one that is not on the list
LEMMA MapSplitIs ==
  ASSUME DeviceTypes, DeviceArea, NEW b \in Buffer, b \notin Held,
         NEW new \in Region, D!MapSplit(b, new), ~reused'
  PROVE  AddsBuffer(b)
<1>. DEFINE k == D!Pages(b)
<1>1. PICK l : AreaOf(l)
  BY DEF DeviceArea
<1>2. PICK r \in D!Found(D!Fits(k)) :
        /\ len[r] > k /\ head' = head
        /\ next' = [next EXCEPT ![new] = next[r], ![r] = new]
        /\ vaddr' = [vaddr EXCEPT ![new] = vaddr[r] + k]
        /\ len' = [len EXCEPT ![new] = len[r] - k, ![r] = k]
        /\ res' = [res EXCEPT ![new] = Free, ![r] = b]
        /\ D!MapPages(vaddr'[r], b)
        /\ new \notin D!Listed
  BY DEF D!MapSplit
<1>3. PICK i \in 1 .. Len(l) : FoundAt(l, D!Fits(k), i) /\ r = l[i]
  <2>1. Chain(l, head, next)
    BY <1>1 DEF AreaOf
  <2>. QED
    BY <1>2, <2>1, FoundIs DEF FoundAt
<1>4. /\ l \in Seq(Region) /\ AreaState(l, vaddr, len, res, pages) /\ Chain(l, head, next)
      /\ \A q \in Region : q \notin ToSet(l) => res[q] = Free
  BY <1>1 DEF AreaOf, Chain
<1>5. r \in ToSet(l) /\ r \in Region /\ res[r] = Free /\ head = l[1] /\ head \in ToSet(l)
  <2>1. 1 \in 1 .. Len(l) /\ head = l[1]
    BY <1>4, LenProperties DEF Chain
  <2>. QED
    BY <1>3, <1>4, <2>1, ElementsOf DEF FoundAt, D!Fits
<1>6. new \notin ToSet(l)
  <2>1. D!Listed = VisitedFrom(head, next, {})
    BY DEF D!Listed, D!Visited, VisitedFrom
  <2>. QED
    BY <1>2, <1>4, <2>1, ListedIs
<1>7. r # new /\ head # new
  BY <1>5, <1>6
<1>8. /\ vaddr \in [Region -> Nat] /\ len \in [Region -> Nat] /\ res \in [Region -> Buffer \cup {Free}]
      /\ next \in [Region -> Region \cup {None}] /\ head \in Region
  BY DEF DeviceTypes
<1>9. k \in Nat /\ k <= len[r]
  <2>1. k \in Nat /\ len[r] \in Nat
    BY <1>5, <1>8, PagesAreNumbers
  <2>. QED
    BY <1>2, <2>1
<1>. HIDE DEF k
<1>. DEFINE ms == [len EXCEPT ![r] = k, ![new] = len[r] - k]
            ws == [vaddr EXCEPT ![new] = vaddr[r] + k]
            ns == [res EXCEPT ![new] = Free]
            ls == InsertAt(l, i + 1, new)
<1>10. len' = ms /\ vaddr' = ws /\ vaddr'[r] = vaddr[r] /\ res' = [ns EXCEPT ![r] = b]
  BY <1>2, <1>5, <1>7, <1>8
<1>11. Splits(l, vaddr, len, res, pages, i, new, k, ls, ws, ms, ns)
  BY <1>3, <1>4, <1>5, <1>6, <1>9 DEF Splits
<1>12. /\ ls \in Seq(Region) /\ ToSet(ls) = ToSet(l) \cup {new}
  <2>1. l \in Seq(Region)
    BY <1>4
  <2>2. Inserted(Region, l, i, new, ls)
    BY <2>1, InsertPlaces
  <2>. HIDE DEF ls
  <2>3. ls \in Seq(Region)
    BY <2>2 DEF Inserted
  <2>4. ToSet(ls) = ToSet(l) \cup {new}
    BY <2>1, <2>2, InsertedElements
  <2>. QED
    BY <2>3, <2>4
<1>. HIDE DEF ms, ws, ns, ls
<1>13. /\ AreaState(ls, ws, ms, ns, pages)
       /\ r \in ToSet(ls) /\ ns[r] = Free /\ ws[r] = vaddr[r] /\ ms[r] = k
       /\ Owners(ls, ns) = Owners(l, res)
       /\ Blocks(ls, ws, ms, ns) = Blocks(l, vaddr, len, res)
       /\ \A q \in ToSet(l) : ns[q] = res[q]
  BY <1>3, <1>11, SplitKeeps
<1>14. Chain(ls, head', next')
  <2>1. \A j, h \in 1 .. Len(ls) : ls[j] = ls[h] => j = h
    BY <1>13 DEF AreaState, Tiled
  <2>2. Chain(ls, head, [next EXCEPT ![new] = next[l[i]], ![l[i]] = new])
    BY <1>4, <1>6, <1>8, <2>1, SplitChain DEF ls
  <2>. QED
    BY <1>2, <1>3, <2>2
<1>15. b \notin Owners(ls, ns)
  <2>1. ToSet(l) \subseteq Region
    BY <1>4, ElementsOf
  <2>2. b \notin Owners(l, res)
    BY <2>1 DEF Owners, Held
  <2>. QED
    BY <1>13, <2>2
<1>16. /\ fault' = fault
       /\ AreaState(ls, ws, ms, res', pages')
       /\ Blocks(ls, ws, ms, res') = Blocks(ls, ws, ms, ns) \cup ({Block(ws[r], ms[r])} \ {{}})
  <2>1. MapsAt(ls, ws, ms, ns, r, b, res')
    BY <1>2, <1>10, <1>13, <1>15 DEF MapsAt, k
  <2>. QED
    BY <2>1, MapPagesIs
<1>17. ns \in [Region -> Buffer \cup {Free}] /\ ws \in [Region -> Nat] /\ ms \in [Region -> Nat]
  BY <1>13 DEF AreaState
<1>18. res'[r] = b /\ \A q \in Region : q # r => res'[q] = ns[q]
  BY <1>5, <1>10, <1>17
<1>19. DeviceArea'
  <2>1. \A q \in Region : q \notin ToSet(ls) => res'[q] = Free
    <3>1. \A q \in Region : q # new => ns[q] = res[q]
      BY <1>8 DEF ns
    <3>. QED
      BY <1>4, <1>5, <1>12, <1>18, <3>1
  <2>2. (AreaOf(ls))'
    BY <1>10, <1>14, <1>16, <2>1 DEF AreaOf
  <2>. QED
    BY <2>2 DEF DeviceArea
<1>20. /\ Block(ws[r], ms[r]) \in SUBSET D!Page
       /\ \A S \in Blocks(ls, ws, ms, ns) : S \cap Block(ws[r], ms[r]) = {}
  BY <1>13, BlocksApart
<1>21. MappedRegions = Blocks(l, vaddr, len, res) /\ MappedRegions' = Blocks(ls, ws, ms, res')
  <2>1. vaddr \in [Region -> Nat] /\ len \in [Region -> Nat] /\ Chain(l, head, next)
    BY <1>4, <1>8
  <2>2. PagesAlong(head, next, vaddr, len, res) = Blocks(l, vaddr, len, res)
    BY <2>1, PagesAlongIs
  <2>3. PagesAlong(head', next', ws, ms, res') = Blocks(ls, ws, ms, res')
    <3>1. ws \in [Region -> Nat] /\ ms \in [Region -> Nat]
      BY <1>17
    <3>2. \A hd, nx, rs : Chain(ls, hd, nx) => PagesAlong(hd, nx, ws, ms, rs) = Blocks(ls, ws, ms, rs)
      BY <3>1, PagesAlongIs
    <3>. QED
      BY <1>14, <3>2
  <2>. QED
    BY <1>10, <2>2, <2>3, MappedRegionsAre
<1>22. next[head] = None => i = 1
  BY <1>4, OnlyRegion
<1>23. res[head] # Free => res'[head] = res[head]
  BY <1>5, <1>8, <1>13, <1>18
<1>24. next[head] = None => res'[head] = b
  BY <1>3, <1>5, <1>18, <1>22
<1>. QED
  BY <1>13, <1>16, <1>19, <1>20, <1>21, <1>23, <1>24 DEF AddsBuffer

\* kdev_map_resource maps the buffer or stops the kernel.
LEMMA MapIs ==
  ASSUME DeviceTypes, NEW b \in Buffer, b \notin Held, fault = "none", D!Map(b)
  PROVE  /\ DeviceTypes' /\ Held' \subseteq Held \cup {b} /\ head' = head
         /\ fault' \in {"none", "region is NULL", "endless list", "vm_arch_pt_map"}
         /\ reused => reused'
         /\ DeviceArea /\ ~reused' =>
              \/ AddsBuffer(b)
              \/ fault' \in {"region is NULL", "endless list"} /\ UNCHANGED devVars
<1>1. /\ vaddr \in [Region -> Nat] /\ len \in [Region -> Nat] /\ res \in [Region -> Buffer \cup {Free}]
      /\ next \in [Region -> Region \cup {None}] /\ head \in Region
  BY DEF DeviceTypes
<1>2. CASE D!MapWhole(b)
  <2>1. PICK r \in D!Found(D!Fits(D!Pages(b))) :
          /\ res' = [res EXCEPT ![r] = b] /\ D!MapPages(vaddr[r], b)
          /\ head' = head /\ next' = next /\ vaddr' = vaddr /\ len' = len /\ reused' = reused
    BY <1>2 DEF D!MapWhole, D!cacheVars
  <2>2. r \in Region /\ fault' \in {"none", "vm_arch_pt_map"}
    BY <2>1 DEF D!Found, D!Visited, D!MapPages
  <2>3. DeviceTypes'
    BY <1>1, <2>1, <2>2 DEF DeviceTypes
  <2>4. Held' \subseteq Held \cup {b}
    BY <1>1, <2>1, <2>2 DEF Held
  <2>. QED
    BY <1>2, <2>1, <2>2, <2>3, <2>4, MapWholeIs
<1>3. CASE D!MapFails(b)
  <2>1. fault' = "region is NULL" /\ UNCHANGED devVars
    BY <1>3 DEF D!MapFails, D!devVars, D!cacheVars, devVars
  <2>2. DeviceTypes' /\ Held' = Held /\ head' = head /\ reused' = reused
    BY <2>1, Unmoved
  <2>. QED
    BY <2>1, <2>2
<1>4. CASE D!Endless(D!Fits(D!Pages(b)))
  <2>1. fault' = "endless list" /\ UNCHANGED devVars
    BY <1>4 DEF D!Endless, D!devVars, D!cacheVars, devVars
  <2>2. DeviceTypes' /\ Held' = Held /\ head' = head /\ reused' = reused
    BY <2>1, Unmoved
  <2>. QED
    BY <2>1, <2>2
<1>5. ASSUME NEW new \in Region, D!MapSplit(b, new)
      PROVE  /\ DeviceTypes' /\ Held' \subseteq Held \cup {b} /\ head' = head
             /\ fault' \in {"none", "vm_arch_pt_map"}
             /\ reused => reused'
  <2>. DEFINE k == D!Pages(b)
  <2>1. PICK r \in D!Found(D!Fits(k)) :
          /\ len[r] > k /\ head' = head
          /\ next' = [next EXCEPT ![new] = next[r], ![r] = new]
          /\ vaddr' = [vaddr EXCEPT ![new] = vaddr[r] + k]
          /\ len' = [len EXCEPT ![new] = len[r] - k, ![r] = k]
          /\ res' = [res EXCEPT ![new] = Free, ![r] = b]
          /\ D!MapPages(vaddr'[r], b)
          /\ reused' = (reused \/ new \in D!Listed)
    BY <1>5 DEF D!MapSplit
  <2>2. r \in Region /\ fault' \in {"none", "vm_arch_pt_map"}
    BY <2>1 DEF D!Found, D!Visited, D!MapPages
  <2>3. k \in Nat /\ len[r] \in Nat /\ vaddr[r] \in Nat /\ len[r] - k \in Nat /\ vaddr[r] + k \in Nat
    <3>1. k \in Nat /\ len[r] \in Nat /\ vaddr[r] \in Nat
      BY <1>1, <2>2, PagesAreNumbers
    <3>. HIDE DEF k
    <3>. QED
      BY <2>1, <3>1
  <2>. HIDE DEF k
  <2>4. DeviceTypes'
    <3>1. vaddr' \in [Region -> Nat] /\ len' \in [Region -> Nat]
      BY <1>1, <2>1, <2>2, <2>3
    <3>2. next' \in [Region -> Region \cup {None}] /\ res' \in [Region -> Buffer \cup {Free}] /\ head' \in Region
      BY <1>1, <2>1, <2>2
    <3>. QED
      BY <3>1, <3>2 DEF DeviceTypes
  <2>5. Held' \subseteq Held \cup {b}
    <3>1. \A q \in Region : res'[q] \in {Free, b, res[q]}
      BY <1>1, <2>1, <2>2
    <3>. QED
      BY <3>1 DEF Held
  <2>. QED
    BY <2>1, <2>2, <2>4, <2>5
<1>6. CASE \E new \in Region : D!MapSplit(b, new)
  BY <1>5, <1>6, MapSplitIs
<1>. QED
  BY <1>2, <1>3, <1>4, <1>6 DEF D!Map

\* The pages B of a buffer are unmapped and the others stay, unless the kernel stops halfway.
DropsBuffer ==
  /\ fault' \in {fault} \cup Halfway
  /\ fault' = fault => DeviceArea' /\ (res[head] # Free => res'[head] = res[head])
  /\ \E B : /\ B # {} => B \in MappedRegions
            /\ MappedRegions' = MappedRegions \ {B}

\* The end of free_region_for keeps the types of the fields, whatever the list is.
LEMMA FreeAtTypes ==
  ASSUME DeviceTypes, NEW r \in Region, NEW nx \in [Region -> Region \cup {None}],
         NEW ln \in [Region -> Nat], NEW given, res' \in [Region -> Buffer \cup {Free}],
         D!FreeAt(r, nx, ln, given)
  PROVE  /\ DeviceTypes' /\ head' = head /\ vaddr' = vaddr /\ reused' = reused
         /\ fault' \in {fault, "vm_arch_pt_unmap"}
<1>. DEFINE s == nx[r]
            joins == s # None /\ res'[s] = Free
<1>1. /\ next' = IF joins THEN [nx EXCEPT ![r] = nx[s]] ELSE nx
      /\ len' = IF joins THEN [ln EXCEPT ![r] = ln[r] + ln[s]] ELSE ln
      /\ head' = head /\ vaddr' = vaddr /\ reused' = reused
      /\ fault' \in {fault, "vm_arch_pt_unmap"}
  BY DEF D!FreeAt, D!UnmapPages
<1>2. joins => s \in Region
  OBVIOUS
<1>3. next' \in [Region -> Region \cup {None}]
  BY <1>1, <1>2
<1>4. len' \in [Region -> Nat]
  <2>1. joins => ln[r] + ln[s] \in Nat
    BY <1>2
  <2>. HIDE DEF joins, s
  <2>. QED
    BY <1>1, <2>1
<1>. QED
  BY <1>1, <1>3, <1>4 DEF DeviceTypes

\* The end of free_region_for: the free region i of list l takes in the next one or not.
LEMMA FreeAtIs ==
  ASSUME NEW l, NEW nx \in [Region -> Region \cup {None}], NEW ln, NEW pt, NEW given,
         NEW i \in 1 .. Len(l), Chain(l, head, nx), AreaState(l, vaddr, ln, res', pt),
         res'[l[i]] = Free, D!FreeAt(l[i], nx, ln, given)
  PROVE  \E l2 :
           /\ Chain(l2, head', next') /\ AreaState(l2, vaddr', len', res', pt)
           /\ Blocks(l2, vaddr', len', res') = Blocks(l, vaddr, ln, res')
           /\ \A q \in ToSet(l) : q \notin ToSet(l2) => res'[q] = Free
<1>. DEFINE s == nx[l[i]]
            joins == s # None /\ res'[s] = Free
<1>1. /\ next' = IF joins THEN [nx EXCEPT ![l[i]] = nx[s]] ELSE nx
      /\ len' = IF joins THEN [ln EXCEPT ![l[i]] = ln[l[i]] + ln[s]] ELSE ln
      /\ head' = head /\ vaddr' = vaddr
  BY DEF D!FreeAt
<1>2. CASE ~joins
  <2>1. next' = nx /\ len' = ln
    BY <1>1, <1>2
  <2>. QED
    BY <1>1, <2>1
<1>3. CASE joins
  <2>. DEFINE j == i + 1
              m == [ln EXCEPT ![l[i]] = ln[l[i]] + ln[l[j]]]
              l2 == RemoveAt(l, i + 1)
  <2>1. Len(l) \in Nat /\ nx[l[Len(l)]] = None /\ l \in Seq(Region)
    BY LenProperties DEF Chain
  <2>2. i # Len(l)
    BY <1>3, <2>1
  <2>3. i < Len(l) /\ j \in 1 .. Len(l) /\ j = i + 1
    BY <2>1, <2>2
  <2>4. s = l[j]
    BY <2>3 DEF Chain
  <2>5. Joins(l, vaddr, ln, res', pt, i, j, m, l2)
    BY <1>3, <2>3, <2>4 DEF Joins
  <2>6. len' = m /\ next' = [nx EXCEPT ![l[i]] = nx[l[i + 1]]]
    BY <1>1, <1>3, <2>3, <2>4
  <2>. HIDE DEF j, m
  <2>7. /\ AreaState(l2, vaddr, m, res', pt)
        /\ Blocks(l2, vaddr, m, res') = Blocks(l, vaddr, ln, res')
        /\ ToSet(l2) = ToSet(l) \ {l[j]}
    <3>. HIDE DEF l2
    <3>. QED
      BY <2>5, JoinKeeps
  <2>8. Chain(l2, head', next')
    <3>1. \A a, b \in 1 .. Len(l2) : l2[a] = l2[b] => a = b
      BY <2>7 DEF AreaState, Tiled
    <3>2. Chain(l2, head, [nx EXCEPT ![l[i]] = nx[l[i + 1]]])
      BY <2>3, <3>1, JoinChain
    <3>. QED
      BY <1>1, <2>6, <3>2
  <2>. HIDE DEF l2
  <2>. QED
    BY <1>1, <1>3, <2>4, <2>6, <2>7, <2>8
<1>. QED
  BY <1>2, <1>3

\* The loop of unregister_resource, where it does not stop.
LEMMA UnmapPagesIs ==
  ASSUME NEW first \in Nat, NEW n \in Nat, fault = "none", fault' = fault, D!UnmapPages(first, n)
  PROVE  pages' = [p \in D!Page |-> IF p \in Block(first, n) THEN None ELSE pages[p]]
<1>. DEFINE at == Block(first, n)
            done == {p \in at : \A q \in first .. p : pages[q] # None}
<1>1. /\ pages' = [p \in D!Page |-> IF p \in done THEN None ELSE pages[p]]
      /\ fault' = IF done = at THEN fault ELSE "vm_arch_pt_unmap"
  BY DEF D!UnmapPages, Block
<1>2. done = at
  BY <1>1
<1>. QED
  BY <1>1, <1>2

\* What remains of an area without the buffer of region r, when the list has become s,
\* with the pointers nx and the lengths m, and region i of it takes in the next one or not.
Unmaps(l, r, s, nx, m, i, np) ==
  /\ AreaOf(l) /\ r \in ToSet(l) /\ r # head
  /\ res' = [res EXCEPT ![r] = Free]
  /\ nx \in [Region -> Region \cup {None}] /\ i \in 1 .. Len(s)
  /\ Chain(s, head, nx) /\ AreaState(s, vaddr, m, res', np) /\ res'[s[i]] = Free
  /\ Blocks(s, vaddr, m, res') = MappedRegions \ {Block(vaddr[r], len[r])}
  /\ Block(vaddr[r], len[r]) # {} => Block(vaddr[r], len[r]) \in MappedRegions
  /\ \A q \in ToSet(l) : q \notin ToSet(s) => res'[q] = Free
  /\ fault' = fault => pages' = np

LEMMA UnmapsIs ==
  ASSUME DeviceTypes, NEW l, NEW r, NEW s, NEW nx, NEW m, NEW i, NEW np, NEW given,
         Unmaps(l, r, s, nx, m, i, np), D!FreeAt(s[i], nx, m, given)
  PROVE  DropsBuffer
<1>1. /\ AreaOf(l) /\ r \in ToSet(l) /\ r # head
      /\ res' = [res EXCEPT ![r] = Free]
      /\ nx \in [Region -> Region \cup {None}] /\ i \in 1 .. Len(s)
      /\ Chain(s, head, nx) /\ AreaState(s, vaddr, m, res', np) /\ res'[s[i]] = Free
  BY DEF Unmaps
<1>2. /\ Blocks(s, vaddr, m, res') = MappedRegions \ {Block(vaddr[r], len[r])}
      /\ Block(vaddr[r], len[r]) # {} => Block(vaddr[r], len[r]) \in MappedRegions
      /\ \A q \in ToSet(l) : q \notin ToSet(s) => res'[q] = Free
      /\ fault' = fault => pages' = np
  BY DEF Unmaps
<1>3. PICK l2 :
        /\ Chain(l2, head', next') /\ AreaState(l2, vaddr', len', res', np)
        /\ Blocks(l2, vaddr', len', res') = Blocks(s, vaddr, m, res')
        /\ \A q \in ToSet(s) : q \notin ToSet(l2) => res'[q] = Free
  <2>1. /\ nx \in [Region -> Region \cup {None}] /\ i \in 1 .. Len(s)
        /\ Chain(s, head, nx) /\ AreaState(s, vaddr, m, res', np) /\ res'[s[i]] = Free
        /\ D!FreeAt(s[i], nx, m, given)
    BY <1>1
  <2>. QED
    BY <2>1, FreeAtIs
<1>4. /\ res \in [Region -> Buffer \cup {Free}] /\ head \in Region
      /\ \A q \in Region : q \notin ToSet(l) => res[q] = Free
  BY <1>1 DEF DeviceTypes, AreaOf
<1>5. \A q \in Region : q # r => res'[q] = res[q]
  BY <1>1, <1>4
<1>6. fault' = fault => DeviceArea'
  <2>1. ASSUME NEW q \in Region, q \notin ToSet(l2)
        PROVE  res'[q] = Free
    <3>1. CASE q \in ToSet(l)
      BY <1>2, <1>3, <2>1, <3>1
    <3>2. CASE q \notin ToSet(l)
      BY <1>1, <1>4, <1>5, <3>2
    <3>. QED
      BY <3>1, <3>2
  <2>2. ASSUME fault' = fault
        PROVE  (AreaOf(l2))'
    BY <1>2, <1>3, <2>1, <2>2 DEF AreaOf
  <2>. QED
    BY <2>2 DEF DeviceArea
<1>7. MappedRegions' = Blocks(l2, vaddr', len', res')
  <2>1. vaddr' \in [Region -> Nat] /\ len' \in [Region -> Nat]
    BY <1>3 DEF AreaState
  <2>2. PagesAlong(head', next', vaddr', len', res') = Blocks(l2, vaddr', len', res')
    BY <1>3, <2>1, PagesAlongIs
  <2>. QED
    BY <2>2, MappedRegionsAre
<1>8. fault' \in {fault} \cup Halfway
  BY DEF D!FreeAt, D!UnmapPages, Halfway
<1>9. res'[head] = res[head]
  BY <1>1, <1>4, <1>5
<1>10. MappedRegions' = MappedRegions \ {Block(vaddr[r], len[r])}
  BY <1>2, <1>3, <1>7
<1>. QED
  BY <1>2, <1>6, <1>8, <1>9, <1>10 DEF DropsBuffer

\* Region r of a buffer is free, and np is the page table without its pages.
Taken(l, r, np) ==
  /\ AreaOf(l) /\ r \in ToSet(l) /\ res[r] \in Buffer
  /\ res' = [res EXCEPT ![r] = Free]
  /\ np = [p \in D!Page |-> IF p \in Block(vaddr[r], len[r]) THEN None ELSE pages[p]]

LEMMA TakenIs ==
  ASSUME DeviceTypes, NEW l, NEW r, NEW np, Taken(l, r, np)
  PROVE  /\ AreaState(l, vaddr, len, res', np)
         /\ res'[r] = Free /\ \A q \in ToSet(l) : q # r => res'[q] = res[q]
         /\ Blocks(l, vaddr, len, res') = MappedRegions \ {Block(vaddr[r], len[r])}
         /\ Block(vaddr[r], len[r]) # {} => Block(vaddr[r], len[r]) \in MappedRegions
<1>1. Chain(l, head, next) /\ AreaState(l, vaddr, len, res, pages)
  BY DEF Taken, AreaOf
<1>2. vaddr \in [Region -> Nat] /\ len \in [Region -> Nat]
  BY DEF DeviceTypes
<1>3. MappedRegions = Blocks(l, vaddr, len, res)
  <2>1. PagesAlong(head, next, vaddr, len, res) = Blocks(l, vaddr, len, res)
    BY <1>1, <1>2, PagesAlongIs
  <2>. QED
    BY <2>1, MappedRegionsAre
<1>4. Takes(l, vaddr, len, res, pages, r, res', np)
  BY <1>1, BufferAssumption DEF Taken, Takes
<1>5. /\ AreaState(l, vaddr, len, res', np)
      /\ res'[r] = Free /\ \A q \in ToSet(l) : q # r => res'[q] = res[q]
      /\ Blocks(l, vaddr, len, res') = Blocks(l, vaddr, len, res) \ {Block(vaddr[r], len[r])}
      /\ Block(vaddr[r], len[r]) # {} => Block(vaddr[r], len[r]) \in Blocks(l, vaddr, len, res)
  BY <1>4, TakeKeeps
<1>. QED
  BY <1>3, <1>5

\* The buffer is found, at place i of the list, not in the first region.
LEMMA AfterAnother ==
  ASSUME NEW l, AreaOf(l), NEW b \in Buffer,
         NEW r \in D!Found(D!Holds(b)), NEW q \in D!Before(D!Holds(b))
  PROVE  \E h, i \in 1 .. Len(l) : i = h + 1 /\ r = l[i] /\ q = l[h] /\ res[r] = b /\ r # head
<1>1. Chain(l, head, next)
  BY DEF AreaOf
<1>2. PICK i \in 1 .. Len(l) : FoundAt(l, D!Holds(b), i)
  BY <1>1, FoundIs
<1>3. r = l[i] /\ res[r] = b
  BY <1>2 DEF FoundAt, D!Found, D!Holds
<1>4. PICK h \in 1 .. Len(l) : i = h + 1 /\ q = l[h]
  BY <1>2 DEF FoundAt
<1>5. Len(l) \in Nat /\ 1 \in 1 .. Len(l) /\ i # 1
  BY <1>1, <1>4, LenProperties DEF Chain
<1>6. r # head
  BY <1>1, <1>3, <1>5 DEF Chain
<1>. QED
  BY <1>3, <1>4, <1>6

\* unregister_resource where the region before is in use
LEMMA UnregisterAloneIs ==
  ASSUME DeviceTypes, DeviceArea, fault = "none", NEW b \in Buffer, D!UnregisterAlone(b)
  PROVE  DropsBuffer
<1>1. PICK l : AreaOf(l)
  BY DEF DeviceArea
<1>2. PICK r \in D!Found(D!Holds(b)), q \in D!Before(D!Holds(b)) :
        res' = [res EXCEPT ![r] = Free] /\ D!FreeAt(r, next, len, {})
  BY DEF D!UnregisterAlone
<1>3. PICK i \in 1 .. Len(l) : r = l[i] /\ res[r] = b /\ r # head
  BY <1>1, <1>2, AfterAnother
<1>4. /\ Chain(l, head, next) /\ l \in Seq(Region)
      /\ next \in [Region -> Region \cup {None}] /\ vaddr \in [Region -> Nat] /\ len \in [Region -> Nat]
  BY <1>1 DEF AreaOf, Chain, DeviceTypes
<1>5. r \in ToSet(l) /\ r \in Region
  BY <1>3, <1>4, ElementsOf
<1>. DEFINE np == [p \in D!Page |-> IF p \in Block(vaddr[r], len[r]) THEN None ELSE pages[p]]
<1>6. fault' = fault => pages' = np
  <2>1. vaddr[r] \in Nat /\ len[r] \in Nat /\ D!UnmapPages(vaddr[r], len[r])
    BY <1>2, <1>4, <1>5 DEF D!FreeAt
  <2>. QED
    BY <2>1, UnmapPagesIs
<1>7. /\ AreaState(l, vaddr, len, res', np) /\ res'[r] = Free
      /\ Blocks(l, vaddr, len, res') = MappedRegions \ {Block(vaddr[r], len[r])}
      /\ Block(vaddr[r], len[r]) # {} => Block(vaddr[r], len[r]) \in MappedRegions
  <2>1. Taken(l, r, np)
    BY <1>1, <1>2, <1>3, <1>5 DEF Taken
  <2>. HIDE DEF np
  <2>. QED
    BY <2>1, TakenIs
<1>. HIDE DEF np
<1>8. Unmaps(l, r, l, next, len, i, np)
  BY <1>1, <1>2, <1>3, <1>4, <1>5, <1>6, <1>7 DEF Unmaps
<1>. QED
  BY <1>2, <1>3, <1>8, UnmapsIs

\* unregister_resource where the region before is free
LEMMA UnregisterJoinedIs ==
  ASSUME DeviceTypes, DeviceArea, fault = "none", NEW b \in Buffer, D!UnregisterJoined(b)
  PROVE  DropsBuffer
<1>1. PICK l : AreaOf(l)
  BY DEF DeviceArea
<1>2. PICK r \in D!Found(D!Holds(b)), q \in D!Before(D!Holds(b)) :
        /\ res[q] = Free /\ res' = [res EXCEPT ![r] = Free]
        /\ D!FreeAt(q, [next EXCEPT ![q] = next[r]], [len EXCEPT ![q] = len[q] + len[r]], {r})
  BY DEF D!UnregisterJoined
<1>3. PICK h, i \in 1 .. Len(l) : i = h + 1 /\ r = l[i] /\ q = l[h] /\ res[r] = b /\ r # head
  BY <1>1, <1>2, AfterAnother
<1>4. /\ Chain(l, head, next) /\ l \in Seq(Region) /\ Len(l) \in Nat
      /\ AreaState(l, vaddr, len, res, pages)
      /\ next \in [Region -> Region \cup {None}] /\ vaddr \in [Region -> Nat] /\ len \in [Region -> Nat]
  BY <1>1, LenProperties DEF AreaOf, Chain, DeviceTypes
<1>5. r \in ToSet(l) /\ r \in Region /\ q \in ToSet(l) /\ q \in Region /\ r # q /\ h < Len(l)
  <2>1. r \in ToSet(l) /\ r \in Region /\ q \in ToSet(l) /\ q \in Region
    BY <1>3, <1>4, ElementsOf
  <2>2. b # Free
    BY BufferAssumption
  <2>. QED
    BY <1>2, <1>3, <1>4, <2>1, <2>2
<1>. DEFINE np == [p \in D!Page |-> IF p \in Block(vaddr[r], len[r]) THEN None ELSE pages[p]]
            x == len[q] + len[r]
            nx == [next EXCEPT ![q] = next[r]]
            m == [len EXCEPT ![q] = x]
            s == RemoveAt(l, h + 1)
<1>6. /\ AreaState(l, vaddr, len, res', np)
      /\ res'[r] = Free /\ \A g \in ToSet(l) : g # r => res'[g] = res[g]
      /\ Blocks(l, vaddr, len, res') = MappedRegions \ {Block(vaddr[r], len[r])}
      /\ Block(vaddr[r], len[r]) # {} => Block(vaddr[r], len[r]) \in MappedRegions
  <2>1. Taken(l, r, np)
    BY <1>1, <1>2, <1>3, <1>5 DEF Taken
  <2>. HIDE DEF np
  <2>. QED
    BY <2>1, TakenIs
<1>7. res'[q] = Free
  BY <1>2, <1>5, <1>6
<1>8. Joins(l, vaddr, len, res', np, h, i, m, s)
  BY <1>3, <1>6, <1>7 DEF Joins
<1>9. /\ AreaState(s, vaddr, m, res', np)
      /\ Blocks(s, vaddr, m, res') = Blocks(l, vaddr, len, res')
      /\ s[h] = q /\ ToSet(s) = ToSet(l) \ {r}
      /\ vaddr[r] = vaddr[q] + len[q]
  <2>. HIDE DEF np, s, m
  <2>. QED
    BY <1>3, <1>8, JoinKeeps
<1>10. vaddr[q] \in Nat /\ len[q] \in Nat /\ len[r] \in Nat /\ x \in Nat /\ m[q] = x
  BY <1>4, <1>5
<1>11. fault' = fault => pages' = np
  <2>1. FramesAt(pages, vaddr[q], len[q], Free)
    BY <1>2, <1>4, <1>5 DEF AreaState
  <2>2. ASSUME NEW p \in D!Page
        PROVE  (IF p \in Block(vaddr[q], x) THEN None ELSE pages[p])
                 = (IF p \in Block(vaddr[r], len[r]) THEN None ELSE pages[p])
    <3>1. CASE p \in Block(vaddr[q], x)
      <4>1. p \in Int /\ vaddr[q] <= p /\ p < vaddr[q] + (len[q] + len[r])
        BY <1>10, <3>1 DEF Block
      <4>2. CASE p < vaddr[q] + len[q]
        <5>1. p \in vaddr[q] .. vaddr[q] + len[q] - 1
          BY <1>10, <4>1, <4>2
        <5>2. pages[p] = None
          BY <2>1, <5>1 DEF FramesAt
        <5>. QED
          BY <3>1, <5>2
      <4>3. CASE ~(p < vaddr[q] + len[q])
        <5>1. p \in Block(vaddr[r], len[r])
          BY <1>9, <1>10, <4>1, <4>3 DEF Block
        <5>. QED
          BY <3>1, <5>1
      <4>. QED
        BY <4>2, <4>3
    <3>2. CASE p \notin Block(vaddr[q], x)
      <4>1. \A g \in Block(vaddr[r], len[r]) : g \in Block(vaddr[q], x)
        <5>1. \A c, d, e \in Nat : \A g \in Block(c + d, e) : g \in Block(c, d + e)
          BY DEF Block
        <5>2. vaddr[r] = vaddr[q] + len[q]
          BY <1>9
        <5>. QED
          BY <1>10, <5>1, <5>2
      <4>. QED
        BY <3>2, <4>1
    <3>. QED
      BY <3>1, <3>2
  <2>3. D!UnmapPages(vaddr[q], x)
    BY <1>2, <1>10 DEF D!FreeAt
  <2>4. fault' = fault => pages' = [p \in D!Page |-> IF p \in Block(vaddr[q], x) THEN None ELSE pages[p]]
    <3>. HIDE DEF x
    <3>. QED
      BY <1>10, <2>3, UnmapPagesIs
  <2>. QED
    BY <2>2, <2>4
<1>12. nx \in [Region -> Region \cup {None}]
  BY <1>4, <1>5
<1>13. /\ s \in Seq(Region) /\ Len(s) = Len(l) - 1
       /\ \A j, k \in 1 .. Len(s) : s[j] = s[k] => j = k
  <2>1. h + 1 \in 1 .. Len(l)
    BY <1>3
  <2>2. s \in Seq(Region) /\ Len(s) = Len(l) - 1
    BY <1>4, <2>1, RemoveAtProperties
  <2>. QED
    BY <1>9, <2>2 DEF AreaState, Tiled
<1>14. h \in 1 .. Len(s)
  BY <1>4, <1>5, <1>13
<1>15. Chain(s, head, nx)
  <2>1. Chain(s, head, [next EXCEPT ![l[h]] = next[l[h + 1]]])
    BY <1>4, <1>5, <1>13, JoinChain
  <2>. QED
    BY <1>3, <2>1
<1>16. \A g \in ToSet(l) : g \notin ToSet(s) => res'[g] = Free
  BY <1>6, <1>9
<1>17. D!FreeAt(s[h], nx, m, {r})
  BY <1>2, <1>9
<1>. HIDE DEF np, nx, m, s, x
<1>18. Unmaps(l, r, s, nx, m, h, np)
  BY <1>1, <1>2, <1>3, <1>5, <1>6, <1>7, <1>9, <1>11, <1>12, <1>14, <1>15, <1>16 DEF Unmaps
<1>. QED
  BY <1>17, <1>18, UnmapsIs

\* unregister_resource of the buffer in the first region: the kernel stops, but the region is free.
LEMMA UnregisterFirstIs ==
  ASSUME DeviceTypes, DeviceArea, fault = "none", NEW b \in Buffer, D!UnregisterFirst(b)
  PROVE  DropsBuffer
<1>1. PICK l : AreaOf(l)
  BY DEF DeviceArea
<1>2. /\ res[head] = b /\ res' = [res EXCEPT ![head] = Free] /\ fault' = "last is NULL"
      /\ head' = head /\ next' = next /\ vaddr' = vaddr /\ len' = len
  BY DEF D!UnregisterFirst, D!Holds
<1>3. Chain(l, head, next) /\ l \in Seq(Region) /\ head \in ToSet(l)
  <2>1. Chain(l, head, next) /\ l \in Seq(Region) /\ 1 \in 1 .. Len(l) /\ head = l[1]
    BY <1>1, LenProperties DEF AreaOf, Chain
  <2>. QED
    BY <2>1, ElementsOf
<1>. DEFINE np == [p \in D!Page |-> IF p \in Block(vaddr[head], len[head]) THEN None ELSE pages[p]]
<1>4. /\ Blocks(l, vaddr, len, res') = MappedRegions \ {Block(vaddr[head], len[head])}
      /\ Block(vaddr[head], len[head]) # {} => Block(vaddr[head], len[head]) \in MappedRegions
  <2>1. Taken(l, head, np)
    BY <1>1, <1>2, <1>3 DEF Taken
  <2>. HIDE DEF np
  <2>. QED
    BY <2>1, TakenIs
<1>5. MappedRegions' = Blocks(l, vaddr, len, res')
  <2>1. vaddr \in [Region -> Nat] /\ len \in [Region -> Nat]
    BY DEF DeviceTypes
  <2>2. PagesAlong(head, next, vaddr, len, res') = Blocks(l, vaddr, len, res')
    BY <1>3, <2>1, PagesAlongIs
  <2>. QED
    BY <1>2, <2>2, MappedRegionsAre
<1>6. fault' \in Halfway /\ fault' # fault
  BY <1>2 DEF Halfway
<1>. QED
  BY <1>4, <1>5, <1>6 DEF DropsBuffer

\* unregister_resource unmaps the buffer or stops the kernel.
LEMMA UnregisterIs ==
  ASSUME DeviceTypes, fault = "none", NEW b \in Buffer, D!Unregister(b)
  PROVE  /\ DeviceTypes' /\ Held' \subseteq Held /\ head' = head /\ reused' = reused
         /\ fault' \in {"none", "last is NULL", "not mapped", "endless list", "vm_arch_pt_unmap"}
         /\ DeviceArea =>
              \/ DropsBuffer
              \/ fault' \in {"not mapped", "endless list"} /\ UNCHANGED devVars
<1>1. /\ vaddr \in [Region -> Nat] /\ len \in [Region -> Nat] /\ res \in [Region -> Buffer \cup {Free}]
      /\ next \in [Region -> Region \cup {None}] /\ head \in Region
  BY DEF DeviceTypes
<1>2. ASSUME NEW r \in Region, res' = [res EXCEPT ![r] = Free]
      PROVE  res' \in [Region -> Buffer \cup {Free}] /\ Held' \subseteq Held
  <2>1. res' \in [Region -> Buffer \cup {Free}] /\ \A q \in Region : res'[q] \in {Free, res[q]}
    BY <1>1, <1>2
  <2>. QED
    BY <2>1 DEF Held
<1>3. CASE D!UnregisterAlone(b)
  <2>1. PICK r \in D!Found(D!Holds(b)) : res' = [res EXCEPT ![r] = Free] /\ D!FreeAt(r, next, len, {})
    BY <1>3 DEF D!UnregisterAlone
  <2>2. r \in Region
    BY <2>1 DEF D!Found, D!Visited
  <2>3. res' \in [Region -> Buffer \cup {Free}] /\ Held' \subseteq Held
    BY <1>2, <2>1, <2>2
  <2>4. DeviceTypes' /\ head' = head /\ reused' = reused /\ fault' \in {fault, "vm_arch_pt_unmap"}
    BY <1>1, <2>1, <2>2, <2>3, FreeAtTypes
  <2>. QED
    BY <1>3, <2>3, <2>4, UnregisterAloneIs
<1>4. CASE D!UnregisterJoined(b)
  <2>1. PICK r \in D!Found(D!Holds(b)), q \in D!Before(D!Holds(b)) :
          /\ res' = [res EXCEPT ![r] = Free]
          /\ D!FreeAt(q, [next EXCEPT ![q] = next[r]], [len EXCEPT ![q] = len[q] + len[r]], {r})
    BY <1>4 DEF D!UnregisterJoined
  <2>2. r \in Region /\ q \in Region
    BY <2>1 DEF D!Found, D!Before, D!Visited
  <2>3. res' \in [Region -> Buffer \cup {Free}] /\ Held' \subseteq Held
    BY <1>2, <2>1, <2>2
  <2>4. /\ [next EXCEPT ![q] = next[r]] \in [Region -> Region \cup {None}]
        /\ [len EXCEPT ![q] = len[q] + len[r]] \in [Region -> Nat]
    BY <1>1, <2>2
  <2>5. DeviceTypes' /\ head' = head /\ reused' = reused /\ fault' \in {fault, "vm_arch_pt_unmap"}
    BY <2>1, <2>2, <2>3, <2>4, FreeAtTypes
  <2>. QED
    BY <1>4, <2>3, <2>5, UnregisterJoinedIs
<1>5. CASE D!UnregisterFirst(b)
  <2>1. /\ res' = [res EXCEPT ![head] = Free] /\ fault' = "last is NULL"
        /\ head' = head /\ next' = next /\ vaddr' = vaddr /\ len' = len /\ reused' = reused
    BY <1>5 DEF D!UnregisterFirst, D!cacheVars
  <2>2. res' \in [Region -> Buffer \cup {Free}] /\ Held' \subseteq Held
    BY <1>1, <1>2, <2>1
  <2>3. DeviceTypes'
    BY <1>1, <2>1, <2>2 DEF DeviceTypes
  <2>. QED
    BY <1>5, <2>1, <2>2, <2>3, UnregisterFirstIs
<1>6. CASE D!NotMapped(D!Holds(b)) \/ D!Endless(D!Holds(b))
  <2>1. fault' \in {"not mapped", "endless list"} /\ UNCHANGED devVars
    BY <1>6 DEF D!NotMapped, D!Endless, D!devVars, D!cacheVars, devVars
  <2>2. DeviceTypes' /\ Held' = Held /\ head' = head /\ reused' = reused
    BY <2>1, Unmoved
  <2>. QED
    BY <2>1, <2>2
<1>. QED
  BY <1>3, <1>4, <1>5, <1>6 DEF D!Unregister

-----------------------------------------------------------------------------
(* The operations of resources.c *)

\* resources_register
LEMMA RegisterIs ==
  ASSUME ResourceLists, NEW name \in Buffer \cup {"memory"}, NEW type \in {"memory", "buffer"},
         NEW base \in Int, NEW size \in Int, R!Register(name, type, base, size)
  PROVE  /\ ResourceLists' /\ claimed' = claimed
         /\ \A r \in R!Resource : r \in 1 .. Len(storage') /\ storage'[r] = storage[r]
         /\ \A r \in 1 .. Len(storage') :
              r \in R!Resource \/ (storage'[r].name = name /\ r = Len(storage) + 1)
<1>1. /\ storage \in Seq(Record) /\ free \in Seq(R!Resource) /\ claimed \in Seq(R!Resource)
      /\ Len(storage) \in Nat /\ Len(free) \in Nat /\ Len(claimed) \in Nat
      /\ Len(free) + Len(claimed) = Len(storage)
  BY LenProperties DEF ResourceLists
<1>2. CASE Len(storage) = MaxResources
  <2>1. fault' = "resources_get_new" /\ UNCHANGED <<storage, free, claimed>>
    BY <1>2 DEF R!Register
  <2>. QED
    <3>1. /\ ResourceLists' /\ claimed' = claimed
          /\ storage' = storage
      BY <2>1 DEF ResourceLists, R!Resource
    <3>. QED
      BY <3>1 DEF R!Resource
<1>3. CASE Len(storage) # MaxResources
  <2>. DEFINE new == [name |-> name, type |-> type, owner |-> None, base |-> base, len |-> size]
              N == Len(storage) + 1
  <2>1. /\ storage' = Append(storage, new) /\ free' = <<N>> \o free
        /\ claimed' = claimed /\ fault' = fault
    BY <1>3 DEF R!Register
  <2>2. new \in Record /\ new.name = name /\ new.owner = None
    BY DEF Record
  <2>. HIDE DEF new
  <2>3. /\ storage' \in Seq(Record) /\ Len(storage') = N
        /\ \A r \in 1 .. Len(storage) : storage'[r] = storage[r]
        /\ storage'[N] = new
    BY <1>1, <2>1, <2>2, AppendProperties
  <2>4. R!Resource \subseteq 1 .. N /\ N \in 1 .. N /\ N \notin R!Resource
    BY <1>1 DEF R!Resource
  <2>5. free \in Seq(1 .. N) /\ claimed \in Seq(1 .. N)
    BY <1>1, <2>4, SeqMonotonic
  <2>. HIDE DEF N
  <2>6. /\ free' \in Seq(1 .. N) /\ Len(free') = Len(free) + 1 /\ free'[1] = N
        /\ \A i \in 1 .. Len(free) : free'[i + 1] = free[i]
        /\ ToSet(free') = {N} \cup ToSet(free)
    <3>. DEFINE T == 1 .. N
    <3>1. N \in T /\ free \in Seq(T)
      BY <2>4, <2>5
    <3>. HIDE DEF T
    <3>2. /\ <<N>> \o free \in Seq(T) /\ Len(<<N>> \o free) = Len(free) + 1 /\ (<<N>> \o free)[1] = N
          /\ \A i \in 1 .. Len(free) : (<<N>> \o free)[i + 1] = free[i]
          /\ ToSet(<<N>> \o free) = {N} \cup ToSet(free)
      BY <3>1, ConsIs
    <3>. QED
      BY <2>1, <3>2 DEF T
  <2>7. ToSet(free) \subseteq R!Resource /\ ToSet(claimed) \subseteq R!Resource
    BY <1>1, ElementsOf
  <2>8. \A i, j \in 1 .. Len(free') : free'[i] = free'[j] => i = j
    <3>1. \A i \in 1 .. Len(free) : free[i] # N
      BY <1>1, <2>4, ElementOfSeq
    <3>2. ASSUME NEW i \in 1 .. Len(free')
          PROVE  i = 1 \/ \E k \in 1 .. Len(free) : i = k + 1
      <4>1. i - 1 \in 1 .. Len(free) \/ i = 1
        BY <1>1, <2>6
      <4>. QED
        BY <4>1
    <3>3. \A i, j \in 1 .. Len(free) : free[i] = free[j] => i = j
      BY DEF ResourceLists
    <3>4. ASSUME NEW i \in 1 .. Len(free'), NEW j \in 1 .. Len(free'), free'[i] = free'[j]
          PROVE  i = j
      <4>1. CASE i = 1 /\ j = 1
        BY <4>1
      <4>2. CASE i # 1 /\ j # 1
        <5>1. PICK k \in 1 .. Len(free) : i = k + 1
          BY <3>2, <4>2
        <5>2. PICK g \in 1 .. Len(free) : j = g + 1
          BY <3>2, <4>2
        <5>3. free[k] = free[g]
          BY <2>6, <3>4, <5>1, <5>2
        <5>. QED
          BY <3>3, <5>1, <5>2, <5>3
      <4>3. CASE i = 1 /\ j # 1
        BY <2>6, <3>1, <3>2, <3>4, <4>3
      <4>4. CASE i # 1 /\ j = 1
        BY <2>6, <3>1, <3>2, <3>4, <4>4
      <4>. QED
        BY <4>1, <4>2, <4>3, <4>4
    <3>. QED
      BY <3>4
  <2>9. \A r \in 1 .. N : r = N \/ r \in R!Resource
    BY <1>1 DEF R!Resource, N
  <2>10. \A r \in 1 .. N :
           /\ (storage'[r].owner = None) <=> r \in ToSet(free')
           /\ (storage'[r].owner # None) <=> r \in ToSet(claimed')
    <3>1. ASSUME NEW r \in R!Resource
          PROVE  /\ (storage'[r].owner = None) <=> r \in ToSet(free')
                 /\ (storage'[r].owner # None) <=> r \in ToSet(claimed')
      <4>1. storage'[r] = storage[r] /\ r # N
        BY <2>3, <2>4 DEF R!Resource
      <4>. QED
        BY <2>1, <2>6, <4>1 DEF ResourceLists
    <3>2. /\ (storage'[N].owner = None) <=> N \in ToSet(free')
          /\ (storage'[N].owner # None) <=> N \in ToSet(claimed')
      BY <2>1, <2>2, <2>3, <2>4, <2>6, <2>7
    <3>. QED
      BY <2>9, <3>1, <3>2
  <2>11. Len(free') + Len(claimed') = Len(storage')
    <3>1. /\ Len(free') = Len(free) + 1 /\ Len(storage') = Len(storage) + 1 /\ claimed' = claimed
          /\ Len(free) + Len(claimed) = Len(storage)
          /\ Len(storage) \in Nat /\ Len(free) \in Nat /\ Len(claimed) \in Nat
      BY <1>1, <2>1, <2>3, <2>6 DEF N
    <3>. QED
      BY <3>1
  <2>12. ResourceLists'
    <3>1. R!Resource' = 1 .. N
      BY <2>3 DEF R!Resource
    <3>. QED
      BY <2>1, <2>3, <2>5, <2>6, <2>8, <2>10, <2>11, <3>1 DEF ResourceLists
  <2>. QED
    <3>1. \A r \in R!Resource : r \in 1 .. Len(storage') /\ storage'[r] = storage[r]
      BY <2>3, <2>4 DEF R!Resource
    <3>2. \A r \in 1 .. Len(storage') : r = N \/ r \in R!Resource
      BY <2>3, <2>9
    <3>3. storage'[N].name = name /\ N = Len(storage) + 1
      BY <2>2, <2>3 DEF N
    <3>. QED
      BY <2>1, <2>12, <3>1, <3>2, <3>3
<1>. QED
  BY <1>2, <1>3

\* resources_claim_by_id and resources_claim_by_type
LEMMA ClaimIs ==
  ASSUME ResourceLists, NEW wanted, NEW owner \in {Kernel, "driver"}, NEW r \in R!Resource,
         R!Claim(wanted, owner, r)
  PROVE  /\ r \in wanted /\ storage[r].owner = None /\ R!ClaimFault(r) = "none"
         /\ fault' # "owner" => ResourceLists'
         /\ Len(storage') = Len(storage)
         /\ \A s \in R!Resource : storage'[s].name = storage[s].name
         /\ ToSet(claimed') = {r} \cup ToSet(claimed)
<1>1. /\ storage \in Seq(Record) /\ free \in Seq(R!Resource) /\ claimed \in Seq(R!Resource)
      /\ Len(storage) \in Nat /\ Len(free) \in Nat /\ Len(claimed) \in Nat
      /\ Len(free) + Len(claimed) = Len(storage)
      /\ \A i, j \in 1 .. Len(free) : free[i] = free[j] => i = j
      /\ \A s \in R!Resource : /\ (storage[s].owner = None) <=> s \in ToSet(free)
                               /\ (storage[s].owner # None) <=> s \in ToSet(claimed)
  BY LenProperties DEF ResourceLists
<1>2. PICK k \in 1 .. Len(free) :
        /\ r = free[k] /\ r \in wanted
        /\ free' = RemoveAt(free, k) /\ claimed' = <<r>> \o claimed
        /\ storage' = [storage EXCEPT ![r].owner = owner]
  BY <1>1, SameOperators, LenProperties DEF R!Claim
<1>3. r \in ToSet(free) /\ storage[r].owner = None
  BY <1>1, <1>2, ElementsOf
<1>4. R!ClaimFault(r) = "none"
  BY <1>3 DEF R!ClaimFault
<1>5. owner # None
  BY NoneAssumption DEF Kernel
<1>6. \A s \in R!Resource : storage[s] \in Record
  BY <1>1, ElementOfSeq DEF R!Resource
<1>7. /\ storage' \in Seq(Record) /\ Len(storage') = Len(storage)
      /\ storage'[r].owner = owner
      /\ \A s \in R!Resource : s # r => storage'[s] = storage[s]
      /\ \A s \in R!Resource : storage'[s].name = storage[s].name
  <2>. DEFINE e == [storage[r] EXCEPT !.owner = owner]
  <2>1. e \in Record /\ e.owner = owner /\ e.name = storage[r].name
    BY <1>6 DEF Record, Kernel
  <2>2. storage' = [storage EXCEPT ![r] = e]
    BY <1>2
  <2>. HIDE DEF e
  <2>3. storage' \in Seq(Record) /\ Len(storage') = Len(storage)
    BY <1>1, <2>1, <2>2, ExceptSeq DEF R!Resource
  <2>4. \A s \in 1 .. Len(storage) : storage'[s] = IF s = r THEN e ELSE storage[s]
    BY <1>1, <2>2, LenProperties
  <2>. QED
    BY <2>1, <2>3, <2>4 DEF R!Resource
<1>8. /\ free' \in Seq(R!Resource) /\ Len(free') = Len(free) - 1
      /\ ToSet(free') = ToSet(free) \ {r}
      /\ \A i, j \in 1 .. Len(free') : free'[i] = free'[j] => i = j
  <2>1. /\ RemoveAt(free, k) \in Seq(R!Resource) /\ Len(RemoveAt(free, k)) = Len(free) - 1
    BY Zenon, <1>1, RemoveAtProperties
  <2>2. /\ ToSet(RemoveAt(free, k)) = ToSet(free) \ {free[k]}
        /\ \A i, j \in 1 .. Len(RemoveAt(free, k)) :
             RemoveAt(free, k)[i] = RemoveAt(free, k)[j] => i = j
    BY Zenon, <1>1, RemoveOnce
  <2>. QED
    BY Zenon, <1>2, <2>1, <2>2
<1>9. /\ claimed' \in Seq(R!Resource) /\ Len(claimed') = Len(claimed) + 1
      /\ ToSet(claimed') = {r} \cup ToSet(claimed)
  BY <1>1, <1>2, ConsIs
<1>10. \A s \in R!Resource : /\ (storage'[s].owner = None) <=> s \in ToSet(free')
                             /\ (storage'[s].owner # None) <=> s \in ToSet(claimed')
  BY <1>1, <1>5, <1>7, <1>8, <1>9
<1>11. R!Resource' = R!Resource
  BY <1>7 DEF R!Resource
<1>12. Len(free') + Len(claimed') = Len(storage')
  <2>1. /\ Len(free') = Len(free) - 1 /\ Len(storage') = Len(storage)
        /\ Len(claimed') = Len(claimed) + 1 /\ Len(free) + Len(claimed) = Len(storage)
        /\ Len(storage) \in Nat /\ Len(free) \in Nat /\ Len(claimed) \in Nat
    BY <1>1, <1>7, <1>8, <1>9
  <2>. QED
    BY <2>1
<1>13. fault' # "owner" => ResourceLists'
  BY <1>7, <1>8, <1>9, <1>10, <1>11, <1>12 DEF ResourceLists
<1>. QED
  BY <1>2, <1>3, <1>4, <1>7, <1>9, <1>13

-----------------------------------------------------------------------------
(* The invariant *)

LEMMA BuffersInOrder ==
  /\ SetToSeq(Buffer) \in Seq(Buffer)
  /\ \A i, j \in 1 .. Len(SetToSeq(Buffer)) :
       SetToSeq(Buffer)[i] = SetToSeq(Buffer)[j] => i = j
<1>. DEFINE n == Cardinality(Buffer)
            ok(f) == f \in [1 .. n -> Buffer] /\ \A i, j \in 1 .. n : f[i] = f[j] => i = j
<1>1. n \in Nat /\ ExistsBijection(1 .. n, Buffer)
  BY BufferAssumption, FS_CardinalityType
<1>2. PICK f : ok(f)
  BY <1>1 DEF ExistsBijection, Bijection, Injection, IsInjective
<1>3. SetToSeq(Buffer) = CHOOSE g \in [1 .. n -> Buffer] : IsInjective(g)
  BY DEF SetToSeq
<1>4. f \in [1 .. n -> Buffer] /\ IsInjective(f)
  BY <1>2 DEF IsInjective
<1>5. SetToSeq(Buffer) \in [1 .. n -> Buffer] /\ IsInjective(SetToSeq(Buffer))
  BY <1>3, <1>4
<1>. HIDE DEF n
<1>. DEFINE s == SetToSeq(Buffer)
<1>6. s \in [1 .. n -> Buffer] /\ DOMAIN s = 1 .. n /\ \A i, j \in 1 .. n : s[i] = s[j] => i = j
  BY <1>5 DEF IsInjective
<1>. HIDE DEF s
<1>7. s \in Seq(Buffer) /\ Len(s) = n
  BY <1>1, <1>6
<1>. QED
  BY <1>6, <1>7 DEF s

LEMMA InitArea ==
  ASSUME D!Init
  PROVE  /\ DeviceTypes /\ DeviceArea /\ Held = {} /\ next[head] = None
         /\ MappedRegions = {}
<1>1. /\ head \in Region
      /\ next = [q \in Region |-> None]
      /\ vaddr = [q \in Region |-> 0]
      /\ len = [q \in Region |-> IF q = head THEN AreaPages ELSE 0]
      /\ res = [q \in Region |-> Free]
      /\ pages = [p \in D!Page |-> None]
  BY DEF D!Init
<1>2. AreaPages \in Nat /\ MaxPages \in Nat /\ AreaPages <= MaxPages
  BY BufferAssumption
<1>. DEFINE l == <<head>>
<1>3. l \in Seq(Region) /\ Len(l) = 1 /\ l[1] = head
  BY <1>1
<1>4. ToSet(l) = {head}
  <2>1. DOMAIN l = {1}
    OBVIOUS
  <2>. QED
    BY <1>3, <2>1 DEF ToSet
<1>. HIDE DEF l
<1>5. /\ next \in [Region -> Region \cup {None}]
      /\ vaddr \in [Region -> Nat] /\ len \in [Region -> Nat] /\ res \in [Region -> Buffer \cup {Free}]
      /\ pages \in [D!Page -> Nat \cup {None}]
      /\ vaddr[head] = 0 /\ len[head] = AreaPages /\ next[head] = None
      /\ \A q \in Region : res[q] = Free
      /\ \A p \in D!Page : pages[p] = None
  BY <1>1, <1>2
<1>6. Spans(1, Along(l, vaddr), Along(l, len))
  <2>1. /\ Along(l, vaddr) \in [1 .. 1 -> Nat] /\ Along(l, len) \in [1 .. 1 -> Nat]
    BY <1>1, <1>2, <1>3, <1>5 DEF Along
  <2>2. \A j, h \in 1 .. 1 : ~(h = j + 1) /\ ~(j < h)
    OBVIOUS
  <2>. QED
    BY <2>1, <2>2 DEF Spans
<1>7. Tiled(l, vaddr, len)
  BY <1>2, <1>3, <1>5, <1>6 DEF Tiled
<1>8. FramesAt(pages, vaddr[head], len[head], res[head])
  <2>1. \A p \in 0 .. 0 + AreaPages - 1 : p \in D!Page
    BY <1>2 DEF D!Page
  <2>. QED
    BY <1>1, <1>5, <2>1 DEF FramesAt
<1>9. AreaState(l, vaddr, len, res, pages)
  BY <1>4, <1>5, <1>7, <1>8 DEF AreaState
<1>10. Chain(l, head, next)
  <2>1. \A i, j \in 1 .. 1 : j # i + 1
    OBVIOUS
  <2>. QED
    BY <1>3, <1>5, <2>1 DEF Chain
<1>11. DeviceTypes /\ DeviceArea
  BY <1>1, <1>5, <1>9, <1>10 DEF DeviceTypes, DeviceArea, AreaOf
<1>12. Held = {}
  BY <1>5 DEF Held
<1>13. MappedRegions = {}
  <2>1. PagesAlong(head, next, vaddr, len, res) = {}
    <3>1. VisitedFrom(head, next, {}) \subseteq Region
      BY DEF VisitedFrom
    <3>. QED
      BY <1>5, <3>1 DEF PagesAlong
  <2>. QED
    BY <2>1, MappedRegionsAre
<1>. QED
  BY <1>5, <1>11, <1>12, <1>13

LEMMA InitInv == Init => Inv
<1>. SUFFICES ASSUME Init
              PROVE  Inv
  OBVIOUS
<1>1. /\ mmap \in Maps /\ entry = 0 /\ parts = <<>> /\ devices = SetToSeq(Buffer)
      /\ storage = <<>> /\ free = <<>> /\ claimed = <<>>
      /\ inactive = Reverse(Module) /\ consoles = <<>>
      /\ stage = "resources" /\ fault = "none"
  BY DEF Init, R!Init
<1>2. ResourceLists
  <2>1. R!Resource = {} /\ ToSet(claimed) = {} /\ ToSet(free) = {}
    BY <1>1 DEF R!Resource, ToSet
  <2>. QED
    BY <1>1, <2>1 DEF ResourceLists
<1>3. Sources
  <2>1. mmap \in Seq([addr : Nat, len : Nat, avail : BOOLEAN]) /\ Len(mmap) \in Nat
    BY <1>1, MapsAssumption, LenProperties
  <2>2. Reverse(Module) \in Seq(STRING)
    <3>1. Len(Module) \in Nat /\ \A i \in 1 .. Len(Module) : Module[i] \in STRING
      BY ModuleAssumption, LenProperties, ElementOfSeq
    <3>2. \A i \in 1 .. Len(Module) : (Len(Module) - i) + 1 \in 1 .. Len(Module)
      BY <3>1
    <3>. QED
      BY <3>1, <3>2 DEF Reverse
  <2>3. entry \in 0 .. Len(mmap) /\ parts \in Seq(Int \X Int) /\ consoles \in Seq(STRING)
    BY <1>1, <2>1
  <2>. QED
    BY <1>1, <2>1, <2>2, <2>3, BuffersInOrder DEF Sources
<1>4. DevicesOnce
  BY <1>1 DEF DevicesOnce, R!Resource
<1>5. DeviceTypes /\ DeviceArea /\ Held = {} /\ next[head] = None
  BY InitArea DEF Init
<1>6. Device /\ MappedWhenClaimed
  BY <1>1, <1>5 DEF Device, MappedWhenClaimed
<1>7. ScreenFirst
  BY <1>1, <1>5 DEF ScreenFirst, ToSet
<1>. QED
  BY <1>2, <1>3, <1>4, <1>6, <1>7 DEF Inv

\* A step that leaves device memory as it is
LEMMA DeviceStays ==
  ASSUME Inv, UNCHANGED devVars, fault = "none" \/ fault' = fault,
         "video" \in ToSet(consoles') => "video" \in ToSet(consoles),
         stage' # "running" => stage # "running"
  PROVE  Device' /\ ScreenFirst' /\ Held' = Held
<1>1. DeviceTypes /\ (Intact => DeviceArea)
  BY DEF Inv, Device
<1>2. DeviceTypes' /\ Held' = Held /\ head' = head /\ next' = next /\ res' = res /\ reused' = reused
  BY <1>1, Unmoved
<1>3. DeviceArea => DeviceArea'
  <2>1. ASSUME NEW l, AreaOf(l)
        PROVE  (AreaOf(l))'
    BY <2>1 DEF AreaOf, devVars
  <2>. QED
    BY <2>1 DEF DeviceArea
<1>4. Intact' => Intact
  BY <1>2 DEF Intact, Halfway
<1>5. Device'
  BY <1>1, <1>2, <1>3, <1>4 DEF Device
<1>6. ScreenFirst'
  BY <1>2, <1>4 DEF Inv, ScreenFirst
<1>. QED
  BY <1>2, <1>5, <1>6

LEMMA ResourcesStay ==
  ASSUME ResourceLists, UNCHANGED resVars, fault' # "owner"
  PROVE  ResourceLists' /\ storage' = storage /\ claimed' = claimed /\ R!Resource' = R!Resource
BY DEF ResourceLists, resVars, R!Resource

LEMMA RestOf ==
  ASSUME NEW S, NEW s \in Seq(S), s # <<>>
  PROVE  /\ Head(s) \in S /\ Head(s) = s[1] /\ Tail(s) \in Seq(S) /\ Len(s) \in Nat \ {0}
         /\ Len(Tail(s)) = Len(s) - 1
         /\ \A i \in 1 .. Len(Tail(s)) : i + 1 \in 1 .. Len(s) /\ Tail(s)[i] = s[i + 1]
         /\ ToSet(Tail(s)) \subseteq ToSet(s) /\ Head(s) \in ToSet(s)
<1>1. /\ Head(s) \in S /\ Tail(s) \in Seq(S) /\ Len(Tail(s)) = Len(s) - 1
      /\ \A i \in 1 .. Len(Tail(s)) : Tail(s)[i] = s[i + 1]
  BY HeadTailProperties
<1>2. Len(s) \in Nat /\ Len(s) # 0 /\ Head(s) = s[1]
  BY EmptySeq, LenProperties
<1>3. \A i \in 1 .. Len(Tail(s)) : i + 1 \in 1 .. Len(s)
  BY <1>1, <1>2
<1>4. 1 \in 1 .. Len(s)
  BY <1>2
<1>5. Head(s) \in ToSet(s)
  BY <1>2, <1>4, ElementsOf
<1>6. ToSet(Tail(s)) \subseteq ToSet(s)
  <2>1. ASSUME NEW x \in ToSet(Tail(s))
        PROVE  x \in ToSet(s)
    <3>1. PICK i \in 1 .. Len(Tail(s)) : x = Tail(s)[i]
      <4>1. Tail(s) \in Seq(S)
        BY <1>1
      <4>. QED
        BY <2>1, <4>1, ElementsOf
    <3>2. i + 1 \in 1 .. Len(s) /\ x = s[i + 1]
      BY Zenon, <1>1, <1>3, <3>1
    <3>. QED
      BY Zenon, <3>2, ElementsOf
  <2>. QED
    BY <2>1
<1>. QED
  BY <1>1, <1>2, <1>3, <1>5, <1>6

LEMMA NextEntryInv == Inv /\ NextEntry /\ fault = "none" => Inv'
<1>. SUFFICES ASSUME Inv, NextEntry, fault = "none"
              PROVE  Inv'
  OBVIOUS
<1>1. /\ entry < Len(mmap) /\ entry' = entry + 1 /\ parts' = M!Available(mmap[entry'])
      /\ mmap' = mmap /\ devices' = devices /\ zones' = zones /\ stage' = stage /\ fault' = fault
      /\ UNCHANGED resVars /\ UNCHANGED devVars /\ inactive' = inactive /\ consoles' = consoles
  BY DEF NextEntry, modVars
<1>2. ResourceLists' /\ storage' = storage /\ claimed' = claimed /\ R!Resource' = R!Resource
  BY <1>1, ResourcesStay DEF Inv, ResourceLists
<1>3. Sources'
  <2>1. Len(mmap) \in Nat /\ entry \in 0 .. Len(mmap) /\ mmap \in Seq([addr : Nat, len : Nat, avail : BOOLEAN])
    BY LenProperties DEF Inv, Sources
  <2>2. entry' \in 1 .. Len(mmap)
    BY <1>1, <2>1
  <2>. DEFINE e == mmap[entry']
  <2>3. e \in [addr : Nat, len : Nat, avail : BOOLEAN]
    BY <2>1, <2>2, ElementOfSeq
  <2>. HIDE DEF e
  <2>4. Word \in Nat \ {0} /\ KernelStart \in Nat /\ KernelEnd \in Nat
    BY KernelAssumption
  <2>5. M!Available(e) \in Seq(Int \X Int)
    <3>. DEFINE start == e.addr
                end == (start + e.len) % Word
    <3>1. start \in Int /\ end \in Int /\ KernelStart \in Int /\ KernelEnd \in Int
      BY <2>3, <2>4
    <3>5. \/ M!Available(e) = <<>>
          \/ M!Available(e) = << <<start, end>> >>
          \/ M!Available(e) = << <<KernelEnd, end>> >>
          \/ M!Available(e) = << <<end, KernelStart>> >>
          \/ M!Available(e) = << <<start, KernelStart>>, <<KernelEnd, end>> >>
      BY DEF M!Available
    <3>. HIDE DEF start, end
    <3>2. \A x, y \in Int : << <<x, y>> >> \in Seq(Int \X Int)
      OBVIOUS
    <3>3. \A w, x, y, z \in Int : << <<w, x>>, <<y, z>> >> \in Seq(Int \X Int)
      OBVIOUS
    <3>4. <<>> \in Seq(Int \X Int)
      OBVIOUS
    <3>. QED
      BY <3>1, <3>2, <3>3, <3>4, <3>5
  <2>6. entry' \in 0 .. Len(mmap)
    BY <2>1, <2>2
  <2>7. parts' \in Seq(Int \X Int)
    BY <1>1, <2>5 DEF e
  <2>. QED
    BY <1>1, <2>6, <2>7 DEF Inv, Sources
<1>4. DevicesOnce'
  BY <1>1, <1>2 DEF Inv, DevicesOnce
<1>5. Device' /\ ScreenFirst' /\ Held' = Held
  BY <1>1, DeviceStays
<1>6. MappedWhenClaimed'
  BY <1>1, <1>2, <1>5 DEF Inv, MappedWhenClaimed
<1>. QED
  BY <1>2, <1>3, <1>4, <1>5, <1>6 DEF Inv

\* A new resource changes nothing for the mapped buffers.
LEMMA RegisterKeepsMapped ==
  ASSUME Inv, NEW name \in Buffer \cup {"memory"}, NEW type \in {"memory", "buffer"},
         NEW base \in Int, NEW size \in Int, R!Register(name, type, base, size),
         UNCHANGED devVars, consoles' = consoles, stage # "running", stage # "video claimed",
         stage' # "video claimed", fault = "none"
  PROVE  ResourceLists' /\ Device' /\ ScreenFirst' /\ MappedWhenClaimed'
<1>1. /\ ResourceLists' /\ claimed' = claimed
      /\ \A r \in R!Resource : r \in 1 .. Len(storage') /\ storage'[r] = storage[r]
  BY RegisterIs DEF Inv
<1>2. Device' /\ ScreenFirst' /\ Held' = Held
  BY DeviceStays
<1>3. ToSet(claimed) \subseteq R!Resource
  BY ElementsOf DEF Inv, ResourceLists
<1>4. MappedWhenClaimed'
  BY ZenonT(40), <1>1, <1>2, <1>3 DEF Inv, MappedWhenClaimed
<1>. QED
  BY <1>1, <1>2, <1>4

LEMMA RegisterMemoryInv == Inv /\ RegisterMemory /\ fault = "none" => Inv'
<1>. SUFFICES ASSUME Inv, RegisterMemory, fault = "none"
              PROVE  Inv'
  OBVIOUS
<1>1. /\ stage = "resources" /\ parts # <<>> /\ parts' = Tail(parts)
      /\ mmap' = mmap /\ entry' = entry /\ devices' = devices /\ stage' = stage
      /\ UNCHANGED devVars /\ inactive' = inactive /\ consoles' = consoles
  BY DEF RegisterMemory, modVars
<1>2. parts \in Seq(Int \X Int) /\ Head(parts) \in Int \X Int /\ Tail(parts) \in Seq(Int \X Int)
  BY <1>1, RestOf DEF Inv, Sources
<1>3. Sources'
  BY <1>1, <1>2 DEF Inv, Sources
<1>4. CASE M!LongEnough(Head(parts))
  <2>. DEFINE base == Head(parts)[1]
              size == M!Cut(Head(parts))
  <2>1. base \in Int /\ size \in Int
    <3>1. Head(parts)[1] \in Int /\ Head(parts)[2] \in Int /\ Word \in Nat \ {0}
      BY <1>2, KernelAssumption
    <3>2. (Head(parts)[2] - Head(parts)[1]) % Word \in Int
      BY <3>1
    <3>. QED
      BY <3>1, <3>2 DEF M!Cut, M!Length, M!MaxAddr
  <2>2. R!Register("memory", "memory", base, size)
    BY <1>4 DEF RegisterMemory
  <2>. HIDE DEF base, size
  <2>3. /\ \A r \in R!Resource : r \in 1 .. Len(storage') /\ storage'[r] = storage[r]
        /\ \A r \in 1 .. Len(storage') :
             r \in R!Resource \/ (storage'[r].name = "memory" /\ r = Len(storage) + 1)
    BY <2>1, <2>2, RegisterIs DEF Inv
  <2>4. ResourceLists' /\ Device' /\ ScreenFirst' /\ MappedWhenClaimed'
    BY <1>1, <2>1, <2>2, RegisterKeepsMapped
  <2>5. DevicesOnce'
    BY <1>1, <2>3 DEF Inv, DevicesOnce, R!Resource
  <2>. QED
    BY <1>3, <2>4, <2>5 DEF Inv
<1>5. CASE ~M!LongEnough(Head(parts))
  <2>1. UNCHANGED resVars /\ fault' = fault
    BY <1>5 DEF RegisterMemory
  <2>2. ResourceLists' /\ storage' = storage /\ claimed' = claimed /\ R!Resource' = R!Resource
    BY <2>1, ResourcesStay DEF Inv, ResourceLists
  <2>3. DevicesOnce'
    BY <1>1, <2>2 DEF Inv, DevicesOnce
  <2>4. Device' /\ ScreenFirst' /\ Held' = Held
    BY <1>1, <2>1, DeviceStays
  <2>5. MappedWhenClaimed'
    BY <1>1, <2>2, <2>4 DEF Inv, MappedWhenClaimed
  <2>. QED
    BY <1>3, <2>2, <2>3, <2>4, <2>5 DEF Inv
<1>. QED
  BY <1>4, <1>5

LEMMA RegisterDeviceInv == Inv /\ RegisterDevice /\ fault = "none" => Inv'
<1>. SUFFICES ASSUME Inv, RegisterDevice, fault = "none"
              PROVE  Inv'
  OBVIOUS
<1>. DEFINE d == Head(devices)
<1>1. /\ stage = "resources" /\ devices # <<>> /\ devices' = Tail(devices)
      /\ R!Register(d, "buffer", BufferBase[d], BufferLen[d])
      /\ stage' = IF devices' = <<>> THEN "zones" ELSE stage
      /\ mmap' = mmap /\ entry' = entry /\ parts' = parts
      /\ UNCHANGED devVars /\ inactive' = inactive /\ consoles' = consoles
  BY DEF RegisterDevice, modVars
<1>2. /\ devices \in Seq(Buffer)
      /\ \A i, j \in 1 .. Len(devices) : devices[i] = devices[j] => i = j
  BY DEF Inv, Sources
<1>3. /\ d \in Buffer /\ d = devices[1] /\ Tail(devices) \in Seq(Buffer) /\ Len(devices) \in Nat \ {0}
      /\ Len(Tail(devices)) = Len(devices) - 1
      /\ \A i \in 1 .. Len(Tail(devices)) : i + 1 \in 1 .. Len(devices) /\ Tail(devices)[i] = devices[i + 1]
      /\ ToSet(Tail(devices)) \subseteq ToSet(devices) /\ d \in ToSet(devices)
  BY <1>1, <1>2, RestOf
<1>4. BufferBase[d] \in Int /\ BufferLen[d] \in Int
  BY <1>3, BufferAssumption
<1>. HIDE DEF d
<1>5. \A i, j \in 1 .. Len(devices') : devices'[i] = devices'[j] => i = j
  <2>1. ASSUME NEW i \in 1 .. Len(Tail(devices)), NEW j \in 1 .. Len(Tail(devices)),
               Tail(devices)[i] = Tail(devices)[j]
        PROVE  i = j
    <3>1. i + 1 = j + 1
      BY <1>2, <1>3, <2>1
    <3>. QED
      BY <1>3, <3>1
  <2>. QED
    BY <1>1, <2>1
<1>6. Sources'
  BY <1>1, <1>3, <1>5 DEF Inv, Sources
<1>7. d \notin ToSet(Tail(devices))
  <2>1. ASSUME NEW i \in 1 .. Len(Tail(devices)), d = Tail(devices)[i]
        PROVE  FALSE
    <3>1. 1 \in 1 .. Len(devices) /\ i + 1 \in 1 .. Len(devices) /\ devices[1] = devices[i + 1] /\ i + 1 # 1
      BY <1>3, <2>1
    <3>. QED
      BY <1>2, <3>1
  <2>. QED
    <3>. DEFINE t == Tail(devices)
    <3>1. t \in Seq(Buffer) /\ \A i \in 1 .. Len(t) : d # t[i]
      BY <1>3, <2>1
    <3>. HIDE DEF t
    <3>2. d \notin ToSet(t)
      BY <3>1, ElementsOf
    <3>. QED
      BY <3>2 DEF t
<1>8. /\ \A r \in R!Resource : r \in 1 .. Len(storage') /\ storage'[r] = storage[r]
      /\ \A r \in 1 .. Len(storage') :
           r \in R!Resource \/ (storage'[r].name = d /\ r = Len(storage) + 1)
  BY <1>1, <1>3, <1>4, RegisterIs DEF Inv
<1>9. ResourceLists' /\ Device' /\ ScreenFirst' /\ MappedWhenClaimed'
  BY <1>1, <1>3, <1>4, RegisterKeepsMapped
<1>10. DevicesOnce'
  <2>1. R!Resource' = 1 .. Len(storage')
    BY DEF R!Resource
  <2>2. \A r \in R!Resource : storage[r].name = d => storage[r].name = "memory"
    BY <1>3 DEF Inv, DevicesOnce
  <2>. QED
    BY SMTT(30), <1>1, <1>3, <1>7, <1>8, <2>1, <2>2 DEF Inv, DevicesOnce
<1>. QED
  BY <1>6, <1>9, <1>10 DEF Inv

\* What is owned stays owned.
StaysClaimed ==
  \A b : (\E r \in ToSet(claimed) : storage[r].name = b) => \E r \in ToSet(claimed') : storage'[r].name = b

LEMMA ClaimKeepsMapped ==
  ASSUME Inv, NEW wanted, NEW owner \in {Kernel, "driver"}, NEW r \in R!Resource,
         R!Claim(wanted, owner, r), fault = "none", fault' # "owner",
         UNCHANGED devVars, devices' = devices, consoles' = consoles,
         stage' # "running" => stage # "running"
  PROVE  /\ ResourceLists' /\ DevicesOnce' /\ Device' /\ ScreenFirst' /\ StaysClaimed
         /\ Held' = Held
         /\ \E s \in ToSet(claimed') : storage'[s].name = storage[r].name
<1>1. /\ ResourceLists' /\ Len(storage') = Len(storage)
      /\ \A s \in R!Resource : storage'[s].name = storage[s].name
      /\ ToSet(claimed') = {r} \cup ToSet(claimed)
  <2>1. ResourceLists
    BY DEF Inv
  <2>. QED
    BY ZenonT(40), <2>1, ClaimIs
<1>2. Device' /\ ScreenFirst' /\ Held' = Held
  BY DeviceStays
<1>3. R!Resource' = R!Resource
  BY <1>1 DEF R!Resource
<1>4. DevicesOnce'
  BY <1>1, <1>3 DEF Inv, DevicesOnce
<1>5. ToSet(claimed) \subseteq R!Resource
  BY ElementsOf DEF Inv, ResourceLists
<1>6. StaysClaimed
  BY <1>1, <1>5 DEF StaysClaimed
<1>. QED
  BY <1>1, <1>2, <1>4, <1>6

LEMMA RegisterZoneInv ==
  ASSUME Inv, fault = "none", NEW r \in R!Resource, RegisterZone(r)
  PROVE  Inv'
<1>1. /\ stage = "zones" /\ R!Claim(R!Named("memory"), Kernel, r)
      /\ fault' \in {"zone without a page", R!ClaimFault(r)}
      /\ mmap' = mmap /\ entry' = entry /\ parts' = parts /\ devices' = devices
      /\ UNCHANGED devVars /\ inactive' = inactive /\ consoles' = consoles /\ stage' = stage
  BY DEF RegisterZone, bootVars, modVars
<1>2. R!ClaimFault(r) = "none"
  BY <1>1, ClaimIs DEF Inv
<1>3. /\ ResourceLists' /\ DevicesOnce' /\ Device' /\ ScreenFirst' /\ StaysClaimed
      /\ Held' = Held
  BY <1>1, <1>2, ClaimKeepsMapped
<1>4. Sources'
  BY <1>1 DEF Inv, Sources
<1>5. MappedWhenClaimed'
  BY <1>1, <1>3 DEF Inv, MappedWhenClaimed, StaysClaimed
<1>. QED
  BY <1>3, <1>4, <1>5 DEF Inv

LEMMA ZonesDoneInv == Inv /\ ZonesDone /\ fault = "none" => Inv'
<1>. SUFFICES ASSUME Inv, ZonesDone, fault = "none"
              PROVE  Inv'
  OBVIOUS
<1>1. /\ stage = "zones" /\ stage' = "modules" /\ UNCHANGED resVars /\ fault' = fault
      /\ mmap' = mmap /\ entry' = entry /\ parts' = parts /\ devices' = devices
      /\ UNCHANGED devVars /\ inactive' = inactive /\ consoles' = consoles
  BY DEF ZonesDone, bootVars, modVars
<1>2. ResourceLists' /\ storage' = storage /\ claimed' = claimed /\ R!Resource' = R!Resource
  BY <1>1, ResourcesStay DEF Inv, ResourceLists
<1>3. Device' /\ ScreenFirst' /\ Held' = Held
  BY <1>1, DeviceStays
<1>4. Sources' /\ DevicesOnce'
  BY <1>1, <1>2 DEF Inv, Sources, DevicesOnce
<1>5. MappedWhenClaimed'
  BY <1>1, <1>2, <1>3 DEF Inv, MappedWhenClaimed
<1>. QED
  BY <1>2, <1>3, <1>4, <1>5 DEF Inv

LEMMA LoadModuleInv == Inv /\ LoadModule /\ fault = "none" => Inv'
<1>. SUFFICES ASSUME Inv, LoadModule, fault = "none"
              PROVE  Inv'
  OBVIOUS
<1>1. /\ stage = "modules" /\ stage' = stage /\ UNCHANGED resVars /\ fault' = fault
      /\ inactive # <<>> /\ Head(inactive) # "video"
      /\ consoles' = <<Head(inactive)>> \o consoles /\ inactive' = Tail(inactive)
      /\ mmap' = mmap /\ entry' = entry /\ parts' = parts /\ devices' = devices
      /\ UNCHANGED devVars
  BY DEF LoadModule, bootVars
<1>2. ResourceLists' /\ storage' = storage /\ claimed' = claimed /\ R!Resource' = R!Resource
  BY <1>1, ResourcesStay DEF Inv, ResourceLists
<1>4. inactive \in Seq(STRING) /\ consoles \in Seq(STRING)
  BY DEF Inv, Sources
<1>. DEFINE h == Head(inactive)
<1>5. h \in STRING /\ Tail(inactive) \in Seq(STRING) /\ h # "video"
  BY <1>1, <1>4, RestOf
<1>. HIDE DEF h
<1>6. <<h>> \o consoles \in Seq(STRING) /\ ToSet(<<h>> \o consoles) = {h} \cup ToSet(consoles)
  BY <1>4, <1>5, ConsIs
<1>7. consoles' = <<h>> \o consoles
  BY <1>1 DEF h
<1>8. Sources' /\ DevicesOnce'
  BY <1>1, <1>2, <1>5, <1>6, <1>7 DEF Inv, Sources, DevicesOnce
<1>9. "video" \in ToSet(consoles') => "video" \in ToSet(consoles)
  BY <1>5, <1>6, <1>7
<1>3. Device' /\ ScreenFirst' /\ Held' = Held
  BY <1>1, <1>9, DeviceStays
<1>10. MappedWhenClaimed'
  BY <1>1, <1>2, <1>3 DEF Inv, MappedWhenClaimed
<1>. QED
  BY <1>2, <1>3, <1>8, <1>10 DEF Inv

LEMMA LoadVideoInv ==
  ASSUME Inv, fault = "none", NEW r \in R!Resource, LoadVideo(r)
  PROVE  Inv'
<1>1. /\ stage = "modules" /\ stage' = "video claimed"
      /\ inactive # <<>> /\ Head(inactive) = "video"
      /\ R!Claim(R!Named("video"), Kernel, r) /\ fault' = R!ClaimFault(r)
      /\ mmap' = mmap /\ entry' = entry /\ parts' = parts /\ devices' = devices
      /\ UNCHANGED devVars /\ inactive' = inactive /\ consoles' = consoles
  BY DEF LoadVideo, bootVars, modVars
<1>2. r \in R!Named("video") /\ storage[r].owner = None /\ R!ClaimFault(r) = "none"
  BY <1>1, ClaimIs DEF Inv
<1>3. storage[r].name = "video"
  BY <1>2 DEF R!Named
<1>4. /\ ResourceLists' /\ DevicesOnce' /\ Device' /\ ScreenFirst' /\ StaysClaimed
      /\ Held' = Held
      /\ \E s \in ToSet(claimed') : storage'[s].name = "video"
  BY <1>1, <1>2, <1>3, ClaimKeepsMapped
<1>5. "video" \notin Held
  <2>1. SUFFICES ASSUME "video" \in Held
                 PROVE  FALSE
    OBVIOUS
  <2>2. PICK s \in ToSet(claimed) : storage[s].name = "video"
    BY <2>1 DEF Inv, MappedWhenClaimed
  <2>3. s \in R!Resource
    BY ElementsOf DEF Inv, ResourceLists
  <2>4. storage[s].owner # None
    BY <2>2, <2>3 DEF Inv, ResourceLists
  <2>5. s = r
    BY <1>3, <2>2, <2>3 DEF Inv, DevicesOnce
  <2>. QED
    BY <1>2, <2>4, <2>5
<1>6. Sources'
  BY <1>1 DEF Inv, Sources
<1>7. MappedWhenClaimed'
  BY <1>1, <1>4, <1>5 DEF Inv, MappedWhenClaimed, StaysClaimed
<1>. QED
  BY <1>4, <1>6, <1>7 DEF Inv

\* video_load has the screen mapped: nothing else is mapped yet.
LEMMA LoadVideoMapIs ==
  ASSUME Inv, LoadVideoMap, fault = "none"
  PROVE  /\ DeviceTypes' /\ Held = {} /\ Held' \subseteq {"video"} /\ head' = head
         /\ fault' \in {"none", "region is NULL", "endless list", "vm_arch_pt_map"}
         /\ reused => reused'
         /\ ~reused' => AddsBuffer("video")
                       \/ (fault' \in {"region is NULL", "endless list"} /\ UNCHANGED devVars)
         /\ "video" \in Buffer /\ \E r \in ToSet(claimed) : storage[r].name = "video"
<1>1. stage = "video claimed" /\ D!Map("video")
  BY DEF LoadVideoMap
<1>2. "video" \notin Held /\ \E r \in ToSet(claimed) : storage[r].name = "video"
  BY <1>1 DEF Inv, MappedWhenClaimed
<1>3. "video" \in Buffer
  <2>1. PICK r \in ToSet(claimed) : storage[r].name = "video"
    BY <1>2
  <2>2. r \in 1 .. Len(storage) /\ storage \in Seq(Record)
    BY ElementsOf DEF Inv, ResourceLists, R!Resource
  <2>3. storage[r] \in Record
    BY <2>2, ElementOfSeq
  <2>. QED
    BY <2>1, <2>3 DEF Record
<1>4. Held = {}
  BY <1>1, <1>2 DEF Inv, MappedWhenClaimed
<1>5. DeviceTypes /\ (~reused => DeviceArea)
  BY DEF Inv, Device, Intact, Halfway
<1>6. /\ DeviceTypes' /\ Held' \subseteq Held \cup {"video"} /\ head' = head
      /\ fault' \in {"none", "region is NULL", "endless list", "vm_arch_pt_map"}
      /\ reused => reused'
      /\ DeviceArea /\ ~reused' =>
           \/ AddsBuffer("video")
           \/ fault' \in {"region is NULL", "endless list"} /\ UNCHANGED devVars
  BY <1>1, <1>2, <1>3, <1>5, MapIs
<1>. QED
  BY <1>2, <1>3, <1>4, <1>5, <1>6

LEMMA LoadVideoMapInv == Inv /\ LoadVideoMap /\ fault = "none" => Inv'
<1>. SUFFICES ASSUME Inv, LoadVideoMap, fault = "none"
              PROVE  Inv'
  OBVIOUS
<1>1. /\ stage = "video claimed" /\ stage' = "modules"
      /\ consoles' = IF fault' = "none" THEN <<"video">> \o consoles ELSE consoles
      /\ inactive' = Tail(inactive)
      /\ mmap' = mmap /\ entry' = entry /\ parts' = parts /\ devices' = devices
      /\ UNCHANGED resVars
  BY DEF LoadVideoMap, bootVars
<1>2. "video" \in Buffer /\ \E r \in ToSet(claimed) : storage[r].name = "video"
  BY LoadVideoMapIs
<1>3. /\ DeviceTypes' /\ Held = {} /\ Held' \subseteq {"video"} /\ head' = head
      /\ fault' \in {"none", "region is NULL", "endless list", "vm_arch_pt_map"}
      /\ reused => reused'
  BY LoadVideoMapIs
<1>4. ~reused' => \/ AddsBuffer("video")
                  \/ fault' \in {"region is NULL", "endless list"} /\ UNCHANGED devVars
  BY LoadVideoMapIs
<1>6. ResourceLists' /\ storage' = storage /\ claimed' = claimed /\ R!Resource' = R!Resource
  BY <1>1, <1>3, ResourcesStay DEF Inv
<1>7. /\ inactive' \in Seq(STRING) /\ consoles' \in Seq(STRING)
  <2>1. inactive \in Seq(STRING) /\ consoles \in Seq(STRING)
    BY DEF Inv, Sources
  <2>2. inactive # <<>> /\ Head(inactive) = "video"
    BY <1>1 DEF Inv, MappedWhenClaimed
  <2>3. Tail(inactive) \in Seq(STRING)
    BY <2>1, <2>2, RestOf
  <2>4. <<"video">> \o consoles \in Seq(STRING)
    <3>. DEFINE h == "video"
    <3>1. h \in STRING
      BY <2>1, <2>2, RestOf
    <3>. HIDE DEF h
    <3>2. <<h>> \o consoles \in Seq(STRING)
      BY <2>1, <3>1, ConsIs
    <3>. QED
      BY <3>2 DEF h
  <2>. QED
    BY <1>1, <2>1, <2>3, <2>4
<1>8. Sources' /\ DevicesOnce'
  BY <1>1, <1>6, <1>7 DEF Inv, Sources, DevicesOnce
<1>9. MappedWhenClaimed'
  BY <1>1, <1>2, <1>3, <1>6 DEF MappedWhenClaimed
<1>10. (~reused' => next[head] = None) /\ head \in Region
  <2>1. ~reused' => Intact
    BY <1>3 DEF Intact, Halfway
  <2>. QED
    BY <1>1, <1>3, <2>1 DEF Inv, ScreenFirst, Device, DeviceTypes
<1>11. CASE reused'
  BY <1>3, <1>6, <1>8, <1>9, <1>11 DEF Inv, Device, ScreenFirst, Intact
<1>12. CASE ~reused' /\ AddsBuffer("video")
  <2>1. DeviceArea' /\ res'[head'] = "video" /\ fault' = "none"
    BY <1>3, <1>10, <1>12 DEF AddsBuffer
  <2>2. Held' # {}
    BY <1>2, <1>3, <1>10, <2>1, BufferAssumption DEF Held
  <2>. QED
    BY <1>2, <1>3, <1>6, <1>8, <1>9, <2>1, <2>2 DEF Inv, Device, ScreenFirst
<1>13. CASE ~reused' /\ fault' \in {"region is NULL", "endless list"} /\ UNCHANGED devVars
  <2>1. consoles' = consoles
    BY <1>1, <1>13
  <2>2. Device' /\ ScreenFirst'
    BY <1>1, <1>13, <2>1, DeviceStays
  <2>. QED
    BY <1>6, <1>8, <1>9, <2>2 DEF Inv
<1>. QED
  BY <1>4, <1>11, <1>12, <1>13

LEMMA ModulesLoadedInv == Inv /\ ModulesLoaded /\ fault = "none" => Inv'
<1>. SUFFICES ASSUME Inv, ModulesLoaded, fault = "none"
              PROVE  Inv'
  OBVIOUS
<1>1. /\ stage = "modules" /\ stage' = "running" /\ UNCHANGED resVars /\ fault' = fault
      /\ mmap' = mmap /\ entry' = entry /\ parts' = parts /\ devices' = devices
      /\ UNCHANGED devVars /\ inactive' = inactive /\ consoles' = consoles
  BY DEF ModulesLoaded, bootVars, modVars
<1>2. ResourceLists' /\ storage' = storage /\ claimed' = claimed /\ R!Resource' = R!Resource
  BY <1>1, ResourcesStay DEF Inv, ResourceLists
<1>3. Device' /\ ScreenFirst' /\ Held' = Held
  BY <1>1, DeviceStays
<1>4. Sources' /\ DevicesOnce'
  BY <1>1, <1>2 DEF Inv, Sources, DevicesOnce
<1>5. MappedWhenClaimed'
  BY <1>1, <1>2, <1>3 DEF Inv, MappedWhenClaimed
<1>. QED
  BY <1>2, <1>3, <1>4, <1>5 DEF Inv

LEMMA MappedIsOwner ==
  ASSUME NEW b \in Buffer
  PROVE  Mapped(b) <=> b \in Held
BY BufferAssumption DEF Mapped, Held

LEMMA DriverClaimInv ==
  ASSUME Inv, fault = "none", NEW r \in R!Resource, DriverClaim(r)
  PROVE  Inv'
<1>1. /\ stage = "running" /\ stage' = stage /\ fault' = R!ClaimFault(r)
      /\ mmap' = mmap /\ entry' = entry /\ parts' = parts /\ devices' = devices
      /\ UNCHANGED devVars /\ inactive' = inactive /\ consoles' = consoles
  BY DEF DriverClaim, bootVars, modVars
<1>2. PICK wanted : R!Claim(wanted, "driver", r)
  BY DEF DriverClaim
<1>3. R!ClaimFault(r) = "none"
  BY <1>2, ClaimIs DEF Inv
<1>4. /\ ResourceLists' /\ DevicesOnce' /\ Device' /\ ScreenFirst' /\ StaysClaimed
      /\ Held' = Held
  BY <1>1, <1>2, <1>3, ClaimKeepsMapped
<1>5. Sources'
  BY <1>1 DEF Inv, Sources
<1>6. MappedWhenClaimed'
  BY <1>1, <1>4 DEF Inv, MappedWhenClaimed, StaysClaimed
<1>. QED
  BY <1>4, <1>5, <1>6 DEF Inv

\* What a step of a driver that maps or unmaps leaves as it is
LEMMA DriverKeeps ==
  ASSUME Inv, UNCHANGED <<bootVars, resVars, modVars, zones, stage>>, fault' # "owner"
  PROVE  /\ ResourceLists' /\ Sources' /\ DevicesOnce'
         /\ storage' = storage /\ claimed' = claimed
         /\ consoles' = consoles /\ inactive' = inactive /\ stage' = stage
<1>1. /\ UNCHANGED resVars /\ mmap' = mmap /\ entry' = entry /\ parts' = parts /\ devices' = devices
      /\ inactive' = inactive /\ consoles' = consoles /\ stage' = stage
  BY DEF bootVars, modVars
<1>2. ResourceLists' /\ storage' = storage /\ claimed' = claimed /\ R!Resource' = R!Resource
  BY <1>1, ResourcesStay DEF Inv
<1>. QED
  BY <1>1, <1>2 DEF Inv, Sources, DevicesOnce

\* kdev_map_resource of a buffer that a driver has claimed
LEMMA DriverMapIs ==
  ASSUME Inv, fault = "none", NEW b \in Buffer, DriverMap(b)
  PROVE  /\ stage = "running" /\ \E r \in ToSet(claimed) : storage[r].name = b
         /\ DeviceTypes' /\ Held' \subseteq Held \cup {b} /\ head' = head
         /\ fault' \in {"none", "region is NULL", "endless list", "vm_arch_pt_map"}
         /\ reused => reused'
         /\ ~reused' => \/ AddsBuffer(b)
                        \/ fault' \in {"region is NULL", "endless list"} /\ UNCHANGED devVars
<1>1. stage = "running" /\ Claimed(b, "driver") /\ ~Mapped(b) /\ D!Map(b)
  BY DEF DriverMap
<1>2. PICK r \in R!Resource : storage[r].name = b /\ storage[r].owner = "driver"
  BY <1>1 DEF Claimed
<1>3. r \in ToSet(claimed)
  BY <1>2, NoneAssumption DEF Inv, ResourceLists
<1>4. b \notin Held
  BY <1>1, MappedIsOwner
<1>5. DeviceTypes /\ (~reused => DeviceArea)
  BY DEF Inv, Device, Intact, Halfway
<1>6. /\ DeviceTypes' /\ Held' \subseteq Held \cup {b} /\ head' = head
      /\ fault' \in {"none", "region is NULL", "endless list", "vm_arch_pt_map"}
      /\ reused => reused'
      /\ DeviceArea /\ ~reused' =>
           \/ AddsBuffer(b)
           \/ fault' \in {"region is NULL", "endless list"} /\ UNCHANGED devVars
  BY <1>1, <1>4, <1>5, MapIs
<1>. QED
  BY <1>1, <1>2, <1>3, <1>5, <1>6

\* A step of a driver that keeps the area and the first region
LEMMA AreaKept ==
  ASSUME Inv, DeviceTypes', head' = head, consoles' = consoles, stage' = "running",
         Intact' => /\ Intact /\ DeviceArea'
                    /\ res[head] # Free => res'[head] = res[head]
  PROVE  Device' /\ ScreenFirst'
<1>1. Device'
  BY DEF Device
<1>2. ScreenFirst'
  <2>1. SUFFICES ASSUME Intact', "video" \in ToSet(consoles)
                 PROVE  res'[head'] = "video" /\ "video" \in Buffer
    BY DEF ScreenFirst
  <2>2. res[head] = "video" /\ "video" \in Buffer
    BY <2>1 DEF Inv, ScreenFirst
  <2>. QED
    BY <2>1, <2>2, BufferAssumption
<1>. QED
  BY <1>1, <1>2

LEMMA DriverMapInv ==
  ASSUME Inv, fault = "none", NEW b \in Buffer, DriverMap(b)
  PROVE  Inv'
<1>1. /\ stage = "running" /\ \E r \in ToSet(claimed) : storage[r].name = b
      /\ DeviceTypes' /\ Held' \subseteq Held \cup {b} /\ head' = head
      /\ fault' \in {"none", "region is NULL", "endless list", "vm_arch_pt_map"}
      /\ reused => reused'
  BY DriverMapIs
<1>2. ~reused' => \/ AddsBuffer(b)
                  \/ fault' \in {"region is NULL", "endless list"} /\ UNCHANGED devVars
  BY DriverMapIs
<1>3. /\ ResourceLists' /\ Sources' /\ DevicesOnce'
      /\ storage' = storage /\ claimed' = claimed
      /\ consoles' = consoles /\ inactive' = inactive /\ stage' = stage
  BY <1>1, DriverKeeps DEF DriverMap
<1>4. MappedWhenClaimed'
  BY <1>1, <1>3 DEF Inv, MappedWhenClaimed
<1>5. Device' /\ ScreenFirst'
  <2>1. CASE UNCHANGED devVars
    BY <1>3, <2>1, DeviceStays
  <2>2. CASE ~UNCHANGED devVars
    <3>1. ASSUME Intact'
          PROVE  /\ Intact /\ DeviceArea'
                 /\ res[head] # Free => res'[head] = res[head]
      <4>1. ~reused' /\ Intact
        BY <1>1, <3>1 DEF Intact, Halfway
      <4>. QED
        BY <1>2, <2>2, <4>1 DEF AddsBuffer
    <3>. QED
      BY <1>1, <1>3, <3>1, AreaKept
  <2>. QED
    BY <2>1, <2>2
<1>. QED
  BY <1>3, <1>4, <1>5 DEF Inv

LEMMA DriverUnregisterIs ==
  ASSUME Inv, fault = "none", NEW b \in Buffer, DriverUnregister(b)
  PROVE  /\ stage = "running"
         /\ DeviceTypes' /\ Held' \subseteq Held /\ head' = head /\ reused' = reused
         /\ fault' \in {"none", "last is NULL", "not mapped", "endless list", "vm_arch_pt_unmap"}
         /\ ~reused' => \/ DropsBuffer
                        \/ fault' \in {"not mapped", "endless list"} /\ UNCHANGED devVars
<1>1. stage = "running" /\ D!Unregister(b)
  BY DEF DriverUnregister
<1>2. DeviceTypes /\ (~reused => DeviceArea)
  BY DEF Inv, Device, Intact, Halfway
<1>. QED
  BY <1>1, <1>2, UnregisterIs

LEMMA DriverUnregisterInv ==
  ASSUME Inv, fault = "none", NEW b \in Buffer, DriverUnregister(b)
  PROVE  Inv'
<1>1. /\ stage = "running"
      /\ DeviceTypes' /\ Held' \subseteq Held /\ head' = head /\ reused' = reused
      /\ fault' \in {"none", "last is NULL", "not mapped", "endless list", "vm_arch_pt_unmap"}
  BY DriverUnregisterIs
<1>2. ~reused' => \/ DropsBuffer
                  \/ fault' \in {"not mapped", "endless list"} /\ UNCHANGED devVars
  BY DriverUnregisterIs
<1>3. /\ ResourceLists' /\ Sources' /\ DevicesOnce'
      /\ storage' = storage /\ claimed' = claimed
      /\ consoles' = consoles /\ inactive' = inactive /\ stage' = stage
  BY <1>1, DriverKeeps DEF DriverUnregister
<1>4. MappedWhenClaimed'
  BY <1>1, <1>3 DEF Inv, MappedWhenClaimed
<1>5. Device' /\ ScreenFirst'
  <2>1. CASE UNCHANGED devVars
    BY <1>3, <2>1, DeviceStays
  <2>2. CASE ~UNCHANGED devVars
    <3>1. ASSUME Intact'
          PROVE  /\ Intact /\ DeviceArea'
                 /\ res[head] # Free => res'[head] = res[head]
      <4>1. ~reused' /\ fault' \notin Halfway
        BY <3>1 DEF Intact
      <4>2. DropsBuffer
        BY <1>2, <2>2, <4>1
      <4>3. fault' = fault
        BY <4>1, <4>2 DEF DropsBuffer
      <4>4. Intact
        BY <1>1, <4>1, <4>3 DEF Intact
      <4>. QED
        BY <4>2, <4>3, <4>4 DEF DropsBuffer
    <3>. QED
      BY <1>1, <1>3, <3>1, AreaKept
  <2>. QED
    BY <2>1, <2>2
<1>. QED
  BY <1>3, <1>4, <1>5 DEF Inv

LEMMA DriverUnmapInv ==
  ASSUME Inv, fault = "none", NEW b \in Buffer, DriverUnmap(b)
  PROVE  Inv'
<1>1. fault' \in {"not mapped", "endless list"} /\ UNCHANGED devVars
  BY DEF DriverUnmap, D!Unmap, D!NotMapped, D!Endless, D!devVars, D!cacheVars, devVars
<1>2. /\ ResourceLists' /\ Sources' /\ DevicesOnce'
      /\ storage' = storage /\ claimed' = claimed
      /\ consoles' = consoles /\ inactive' = inactive /\ stage' = stage
  BY <1>1, DriverKeeps DEF DriverUnmap
<1>3. Device' /\ ScreenFirst' /\ Held' = Held
  BY <1>1, <1>2, DeviceStays
<1>4. MappedWhenClaimed'
  BY <1>2, <1>3 DEF Inv, MappedWhenClaimed
<1>. QED
  BY <1>2, <1>3, <1>4 DEF Inv

LEMMA NextInv == Inv /\ [Next]_vars => Inv'
<1>. SUFFICES ASSUME Inv, [Next]_vars
              PROVE  Inv'
  OBVIOUS
<1>1. CASE UNCHANGED vars
  <2>1. /\ UNCHANGED <<mmap, entry, parts, devices, zones, stage, fault>>
        /\ storage' = storage /\ free' = free /\ claimed' = claimed
        /\ UNCHANGED devVars /\ UNCHANGED modVars
    BY Zenon, <1>1 DEF vars, bootVars, resVars
  <2>2. ResourceLists' /\ R!Resource' = R!Resource
    BY Zenon, <2>1 DEF Inv, ResourceLists, R!Resource
  <2>3. Sources'
    BY Zenon, <2>1 DEF Inv, Sources, modVars
  <2>4. DevicesOnce'
    BY Zenon, <2>1, <2>2 DEF Inv, DevicesOnce
  <2>5. Device' /\ ScreenFirst' /\ Held' = Held
    BY <2>1, DeviceStays DEF modVars
  <2>6. MappedWhenClaimed'
    BY Zenon, <2>1, <2>5 DEF Inv, MappedWhenClaimed, modVars
  <2>. QED
    BY <2>2, <2>3, <2>4, <2>5, <2>6 DEF Inv
<1>2. CASE Next
  <2>1. fault = "none"
    BY <1>2 DEF Next
  <2>2. CASE NextEntry
    BY <2>1, <2>2, NextEntryInv
  <2>3. CASE RegisterMemory
    BY <2>1, <2>3, RegisterMemoryInv
  <2>4. CASE RegisterDevice
    BY <2>1, <2>4, RegisterDeviceInv
  <2>5. CASE ZonesDone
    BY <2>1, <2>5, ZonesDoneInv
  <2>6. CASE LoadModule
    BY <2>1, <2>6, LoadModuleInv
  <2>7. CASE LoadVideoMap
    BY <2>1, <2>7, LoadVideoMapInv
  <2>8. CASE ModulesLoaded
    BY <2>1, <2>8, ModulesLoadedInv
  <2>9. ASSUME NEW r \in R!Resource, RegisterZone(r) \/ LoadVideo(r) \/ DriverClaim(r)
        PROVE  Inv'
    BY <2>1, <2>9, RegisterZoneInv, LoadVideoInv, DriverClaimInv
  <2>10. ASSUME NEW b \in Buffer, DriverMap(b) \/ DriverUnregister(b) \/ DriverUnmap(b)
         PROVE  Inv'
    BY <2>1, <2>10, DriverMapInv, DriverUnregisterInv, DriverUnmapInv
  <2>. QED
    BY <1>2, <2>2, <2>3, <2>4, <2>5, <2>6, <2>7, <2>8, <2>9, <2>10 DEF Next
<1>. QED
  BY <1>1, <1>2

LEMMA InvHolds == Spec => []Inv
BY InitInv, NextInv, PTL DEF Spec

-----------------------------------------------------------------------------
(* The theorems *)

\* Whatever is registered and claimed, each resource is on the list of its owner, no claim
\* meets a resource that is owned, and a buffer is mapped only while somebody owns it.
THEOREM ResourcesAreAccounted == Spec => []ResourcesAccounted
<1>1. Inv => ResourcesAccounted
  <2>. SUFFICES ASSUME Inv
                PROVE  ResourcesAccounted
    OBVIOUS
  <2>1. \A b \in Buffer : Mapped(b) => \E r \in ToSet(claimed) : storage[r].name = b
    BY MappedIsOwner DEF Inv, MappedWhenClaimed
  <2>. QED
    BY <2>1 DEF Inv, ResourceLists, ResourcesAccounted
<1>. QED
  BY <1>1, InvHolds, PTL

\* What the invariant says of the area while no region that was on the list has been handed
\* out again.
LEMMA AreaHolds ==
  ASSUME Inv, Intact
  PROVE  \E l : /\ AreaOf(l) /\ l \in Seq(Region) /\ Len(l) \in Nat /\ Len(l) > 0
                /\ D!Listed = ToSet(l) /\ head = l[1]
                /\ Chain(l, head, next) /\ AreaState(l, vaddr, len, res, pages) /\ Tiled(l, vaddr, len)
<1>1. PICK l : AreaOf(l)
  BY DEF Inv, Device, DeviceArea
<1>2. /\ Chain(l, head, next) /\ AreaState(l, vaddr, len, res, pages) /\ Tiled(l, vaddr, len)
      /\ l \in Seq(Region) /\ Len(l) \in Nat /\ Len(l) > 0 /\ head = l[1]
  BY <1>1, LenProperties DEF AreaOf, AreaState, Chain
<1>3. D!Listed = VisitedFrom(head, next, {})
  BY DEF D!Listed, D!Visited, VisitedFrom
<1>4. VisitedFrom(head, next, {}) = ToSet(l)
  BY <1>2, ListedIs
<1>. QED
  BY <1>1, <1>2, <1>3, <1>4

\* After any sequence of maps and unmaps, as long as the cache has not handed out a region
\* that is still on the list: the regions tile the device area, the page table has the frames
\* of each mapped buffer and nothing else, and the screen stays mapped.
THEOREM RegionsAreMapped == Spec => []RegionsMatchPages
<1>1. Inv => RegionsMatchPages
  <2>. SUFFICES ASSUME Inv, Intact
                PROVE  /\ vaddr[head] = 0
                       /\ \E r \in D!Listed : next[r] = None
                       /\ \A r \in D!Listed :
                            vaddr[r] + len[r] = IF next[r] = None THEN AreaPages ELSE vaddr[next[r]]
                       /\ \A r \in D!Listed : \A n \in 0 .. len[r] - 1 :
                            pages[vaddr[r] + n] =
                              IF res[r] = Free THEN None ELSE D!Down(BufferBase[res[r]]) + n
                       /\ "video" \in ToSet(consoles) => Mapped("video")
    BY DEF RegionsMatchPages, Intact, Halfway
  <2>2. PICK l : /\ AreaOf(l) /\ l \in Seq(Region) /\ Len(l) \in Nat /\ Len(l) > 0
                 /\ D!Listed = ToSet(l) /\ head = l[1]
                 /\ Chain(l, head, next) /\ AreaState(l, vaddr, len, res, pages) /\ Tiled(l, vaddr, len)
    BY AreaHolds
  <2>. DEFINE N == Len(l)
  <2>3. N \in 1 .. N /\ l[N] \in ToSet(l) /\ next[l[N]] = None
    <3>1. N \in 1 .. N
      BY <2>2
    <3>2. next[l[N]] = None
      BY <2>2 DEF Chain
    <3>. QED
      BY <2>2, <3>1, <3>2, ElementsOf
  <2>4. vaddr[head] = 0 /\ vaddr[l[N]] + len[l[N]] = AreaPages
    BY <2>2 DEF Tiled
  <2>5. ASSUME NEW r \in D!Listed
        PROVE  vaddr[r] + len[r] = IF next[r] = None THEN AreaPages ELSE vaddr[next[r]]
    <3>1. PICK i \in 1 .. N : r = l[i]
      BY <2>2, ElementsOf
    <3>2. CASE i = N
      BY <2>3, <2>4, <3>1, <3>2
    <3>3. CASE i # N
      <4>. DEFINE j == i + 1
      <4>1. j \in 1 .. N /\ i \in 1 .. N /\ j = i + 1
        <5>1. N \in Nat
          BY <2>2
        <5>. HIDE DEF N
        <5>. QED
          BY <3>3, <5>1
      <4>. HIDE DEF j
      <4>2. next[r] = l[j] /\ l[j] \in Region
        BY <2>2, <3>1, <4>1, ElementOfSeq DEF Chain
      <4>3. Spans(N, Along(l, vaddr), Along(l, len))
        BY <2>2 DEF Tiled
      <4>4. Along(l, vaddr)[j] = Along(l, vaddr)[i] + Along(l, len)[i]
        <5>. HIDE DEF N
        <5>. QED
          BY <4>1, <4>3 DEF Spans
      <4>5. vaddr[l[j]] = vaddr[l[i]] + len[l[i]]
        BY <4>1, <4>4 DEF Along
      <4>. QED
        BY <3>1, <4>2, <4>5, NoneAssumption
    <3>. QED
      BY <3>2, <3>3
  <2>6. ASSUME NEW r \in D!Listed, NEW k \in 0 .. len[r] - 1
        PROVE  pages[vaddr[r] + k] = IF res[r] = Free THEN None ELSE D!Down(BufferBase[res[r]]) + k
    <3>1. r \in ToSet(l) /\ r \in Region
      BY <2>2, ElementsOf
    <3>2. /\ vaddr[r] \in Nat /\ len[r] \in Nat /\ res[r] \in Buffer \cup {Free}
          /\ FramesAt(pages, vaddr[r], len[r], res[r])
      BY <2>2, <3>1 DEF AreaState
    <3>. DEFINE p == vaddr[r] + k
    <3>4. p \in vaddr[r] .. vaddr[r] + len[r] - 1 /\ p - vaddr[r] = k /\ k \in Int /\ p \in Int
      <4>1. \A v, n \in Nat : \A h \in 0 .. n - 1 :
              v + h \in v .. v + n - 1 /\ (v + h) - v = h /\ h \in Int /\ v + h \in Int
        OBVIOUS
      <4>2. k \in 0 .. len[r] - 1 /\ vaddr[r] \in Nat /\ len[r] \in Nat
        BY <2>6, <3>2
      <4>. QED
        BY <4>1, <4>2
    <3>. HIDE DEF p
    <3>5. pages[p] = IF res[r] = Free THEN None ELSE D!Down(BufferBase[res[r]]) + p - vaddr[r]
      BY <3>2, <3>4 DEF FramesAt
    <3>6. res[r] # Free => D!Down(BufferBase[res[r]]) \in Nat
      BY <3>2, PagesAreNumbers
    <3>7. res[r] # Free => D!Down(BufferBase[res[r]]) + p - vaddr[r] = D!Down(BufferBase[res[r]]) + k
      BY <3>2, <3>4, <3>6
    <3>. QED
      BY <3>5, <3>7 DEF p
  <2>7. "video" \in ToSet(consoles) => Mapped("video")
    BY DEF Inv, ScreenFirst, Device, DeviceTypes, Mapped
  <2>. QED
    BY <2>2, <2>3, <2>4, <2>5, <2>6, <2>7
<1>. QED
  BY <1>1, InvHolds, PTL

\* Until a region that is still on the list is handed out, mapping a buffer adds its pages,
\* which belonged to nobody, and unmapping one removes its pages; no step changes the pages
\* of another.
LEMMA StepOfRegions == Inv /\ [Next]_vars => [~reused' => DevRegions!Next]_MappedRegions
<1>. SUFFICES ASSUME Inv, [Next]_vars, ~reused'
              PROVE  [DevRegions!Next]_MappedRegions
  OBVIOUS
<1>1. ASSUME UNCHANGED devVars
      PROVE  MappedRegions' = MappedRegions
  <2>1. /\ head' = head /\ next' = next /\ vaddr' = vaddr /\ len' = len /\ res' = res
    BY <1>1 DEF devVars
  <2>. QED
    BY <2>1, MappedRegionsAre
<1>2. ASSUME NEW b, AddsBuffer(b)
      PROVE  [DevRegions!Next]_MappedRegions
  <2>1. PICK B \in SUBSET D!Page :
          /\ \A S \in MappedRegions : S \cap B = {}
          /\ MappedRegions' = MappedRegions \cup ({B} \ {{}})
    BY <1>2 DEF AddsBuffer
  <2>2. CASE B = {}
    BY <2>1, <2>2
  <2>3. CASE B # {}
    BY <2>1, <2>3 DEF DevRegions!Next, DevRegions!Add
  <2>. QED
    BY <2>2, <2>3
<1>3. ASSUME DropsBuffer
      PROVE  [DevRegions!Next]_MappedRegions
  <2>1. PICK B : (B # {} => B \in MappedRegions) /\ MappedRegions' = MappedRegions \ {B}
    BY <1>3 DEF DropsBuffer
  <2>2. {} \notin MappedRegions
    BY DEF MappedRegions
  <2>. QED
    BY <2>1, <2>2 DEF DevRegions!Next, DevRegions!Remove
<1>4. CASE UNCHANGED vars
  BY <1>1, <1>4 DEF vars
<1>5. CASE Next
  <2>1. fault = "none"
    BY <1>5 DEF Next
  <2>2. CASE NextEntry \/ RegisterMemory \/ RegisterDevice \/ ZonesDone \/ LoadModule \/ ModulesLoaded
    BY <1>1, <2>2 DEF NextEntry, RegisterMemory, RegisterDevice, ZonesDone, LoadModule, ModulesLoaded
  <2>3. CASE LoadVideoMap
    BY <1>1, <1>2, <2>1, <2>3, LoadVideoMapIs
  <2>4. ASSUME NEW r \in R!Resource, RegisterZone(r) \/ LoadVideo(r) \/ DriverClaim(r)
        PROVE  UNCHANGED devVars
    BY <2>4 DEF RegisterZone, LoadVideo, DriverClaim
  <2>5. ASSUME NEW b \in Buffer, DriverMap(b)
        PROVE  [DevRegions!Next]_MappedRegions
    BY <1>1, <1>2, <2>1, <2>5, DriverMapIs
  <2>6. ASSUME NEW b \in Buffer, DriverUnregister(b)
        PROVE  [DevRegions!Next]_MappedRegions
    BY <1>1, <1>3, <2>1, <2>6, DriverUnregisterIs
  <2>7. ASSUME NEW b \in Buffer, DriverUnmap(b)
        PROVE  UNCHANGED devVars
    BY <2>7 DEF DriverUnmap, D!Unmap, D!NotMapped, D!Endless, D!devVars, D!cacheVars, devVars
  <2>. QED
    BY <1>1, <1>5, <2>2, <2>3, <2>4, <2>5, <2>6, <2>7 DEF Next
<1>. QED
  BY <1>4, <1>5

\* Device memory implements Regions until a region that is still on the list is handed out.
THEOREM DevImplementsRegions == Spec => ImplementsRegions
<1>1. Init => DevRegions!Init
  BY InitArea DEF Init, DevRegions!Init
<1>. QED
  BY <1>1, InvHolds, StepOfRegions, PTL DEF Spec, ImplementsRegions

\* A buffer between two others in use is unmapped without a failed assertion, and no region
\* is given back to the cache.
THEOREM UnregisterIsSafe == Spec => UnregisterBetweenOthers
<1>1. ASSUME Inv, fault = "none", ~reused, NEW b \in Buffer, NEW r \in D!Listed, res[r] = b,
             DriverUnregister(b), r # head, \A q \in D!Listed : next[q] = r => res[q] # Free,
             next[r] # None, res[next[r]] # Free
      PROVE  fault' = "none" /\ live' = live
  <2>1. Intact
    BY <1>1 DEF Intact, Halfway
  <2>2. PICK l : /\ AreaOf(l) /\ l \in Seq(Region) /\ Len(l) \in Nat /\ Len(l) > 0
                 /\ D!Listed = ToSet(l) /\ head = l[1]
                 /\ Chain(l, head, next) /\ AreaState(l, vaddr, len, res, pages) /\ Tiled(l, vaddr, len)
    BY <1>1, <2>1, AreaHolds
  <2>3. r \in ToSet(l) /\ r \in Region /\ b # Free
    BY <1>1, <2>2, ElementsOf, BufferAssumption
  <2>4. D!Holds(b) = {r}
    <3>1. ASSUME NEW q \in Region, res[q] = b
          PROVE  q = r
      <4>1. q \in ToSet(l)
        BY <2>2, <2>3, <3>1 DEF AreaOf
      <4>. QED
        BY <1>1, <2>2, <2>3, <3>1, <4>1 DEF AreaState
    <3>. QED
      BY <1>1, <2>3, <3>1 DEF D!Holds
  <2>5. PICK i \in 1 .. Len(l) : FoundAt(l, {r}, i)
    <3>1. \E j \in 1 .. Len(l) : l[j] \in {r}
      BY <2>2, <2>3, ElementsOf
    <3>. QED
      BY <2>2, <3>1, FoundIs
  <2>6. r = l[i] /\ D!Found({r}) = {r} /\ ~D!AtEnd({r})
    BY <2>5 DEF FoundAt
  <2>7. \A q \in D!Before({r}) : q \in D!Listed /\ next[q] = r
    <3>1. \A q \in D!Before({r}) : \E h \in 1 .. Len(l) : q = l[h]
      BY <2>5 DEF FoundAt
    <3>2. \A q \in D!Before({r}) : next[q] = r
      BY DEF D!Before
    <3>. QED
      BY <2>2, <3>1, <3>2, ElementsOf
  <2>8. D!UnregisterAlone(b)
    <3>1. ~D!UnregisterFirst(b)
      BY <1>1, <2>4 DEF D!UnregisterFirst
    <3>2. ~D!UnregisterJoined(b)
      BY <1>1, <2>4, <2>7 DEF D!UnregisterJoined
    <3>3. ~D!NotMapped(D!Holds(b)) /\ ~D!Endless(D!Holds(b))
      BY <2>4, <2>6 DEF D!NotMapped, D!Endless
    <3>. QED
      BY <1>1, <3>1, <3>2, <3>3 DEF DriverUnregister, D!Unregister
  <2>9. res' = [res EXCEPT ![r] = Free] /\ D!FreeAt(r, next, len, {})
    BY <2>4, <2>6, <2>8 DEF D!UnregisterAlone
  <2>10. next[r] \in Region /\ next[r] # r
    <3>. DEFINE j == i + 1
    <3>1. i # Len(l)
      BY <1>1, <2>2, <2>6 DEF Chain
    <3>2. j \in 1 .. Len(l) /\ j # i /\ j = i + 1
      BY <2>2, <3>1
    <3>. HIDE DEF j
    <3>3. next[r] = l[j] /\ l[j] \in Region /\ l[j] # l[i]
      BY <2>2, <2>6, <3>2, ElementOfSeq DEF Chain
    <3>. QED
      BY <2>6, <3>3
  <2>11. res'[next[r]] # Free
    BY <1>1, <2>9, <2>10 DEF Inv, Device, DeviceTypes
  <2>12. live' = live /\ D!UnmapPages(vaddr[r], len[r])
    BY <2>9, <2>11 DEF D!FreeAt
  <2>13. \A p \in vaddr[r] .. vaddr[r] + len[r] - 1 : pages[p] # None
    <3>1. vaddr[r] \in Nat /\ len[r] \in Nat /\ FramesAt(pages, vaddr[r], len[r], b)
      BY <1>1, <2>2, <2>3 DEF AreaState
    <3>2. ASSUME NEW p \in vaddr[r] .. vaddr[r] + len[r] - 1
          PROVE  pages[p] # None
      <4>1. pages[p] = D!Down(BufferBase[b]) + p - vaddr[r]
        BY <2>3, <3>1 DEF FramesAt
      <4>2. D!Down(BufferBase[b]) + p - vaddr[r] \in Nat
        BY <3>1, PagesAreNumbers
      <4>. QED
        BY <4>1, <4>2, NoneAssumption
    <3>. QED
      BY <3>2
  <2>14. fault' = fault
    <3>. DEFINE at == vaddr[r] .. vaddr[r] + len[r] - 1
                done == {p \in at : \A q \in vaddr[r] .. p : pages[q] # None}
    <3>1. fault' = IF done = at THEN fault ELSE "vm_arch_pt_unmap"
      BY <2>12 DEF D!UnmapPages
    <3>2. vaddr[r] \in Nat /\ len[r] \in Nat
      BY <2>2, <2>3 DEF AreaState
    <3>3. \A p \in at : \A q \in vaddr[r] .. p : q \in at
      BY <3>2
    <3>4. done = at
      BY <2>13, <3>3
    <3>. QED
      BY <3>1, <3>4
  <2>. QED
    BY <1>1, <2>12, <2>14
<1>2. Inv /\ [Next]_vars =>
        [\A b \in Buffer, r \in D!Listed :
           /\ ~reused /\ res[r] = b /\ DriverUnregister(b)
           /\ r # head /\ \A q \in D!Listed : next[q] = r => res[q] # Free
           /\ next[r] # None /\ res[next[r]] # Free
           => fault' = "none" /\ live' = live]_vars
  BY <1>1 DEF Next
<1>. QED
  BY <1>2, InvHolds, PTL DEF Spec, UnregisterBetweenOthers

-----------------------------------------------------------------------------
(* The zones *)

\* Where the memory resource for a run ends: the last address is cut off.
End(run) == IF run[2] < Word THEN run[2] ELSE Word - 1

\* Resource s is for the memory of run.
IsFor(s, run) ==
  s.name = "memory" /\ s.type = "memory" /\ s.base = run[1] /\ s.len = End(run) - run[1]

\* The run that a part is.
RunOf(p) == <<p[1], p[1] + M!Length(p)>>

ZoneOf(s) == M!ZoneFor(s.base, s.len)

\* Every memory resource is for a run of an entry that was visited, and every run of these has
\* one, unless it is still among the parts.
MemoryRegistered ==
  /\ \A r \in R!Resource : storage[r].name = "memory" =>
       \E i \in 1 .. entry : \E run \in Runs(mmap[i]) : IsFor(storage[r], run)
  /\ \A p \in ToSet(parts) : M!LongEnough(p) => entry # 0 /\ RunOf(p) \in Runs(mmap[entry])
  /\ fault # "resources_get_new" \/ stage \notin {"resources", "zones"} =>
       \A i \in 1 .. entry : \A run \in Runs(mmap[i]) :
         \/ i = entry /\ \E p \in ToSet(parts) : M!LongEnough(p) /\ RunOf(p) = run
         \/ \E r \in R!Resource : IsFor(storage[r], run)
  /\ stage # "resources" => parts = <<>> /\ entry = Len(mmap)

\* The zones are those of the memory resources that were claimed, and these are all of them
\* when kernel_init goes on.
ZonesClaimed ==
  /\ \A z \in zones : \E r \in R!Resource : storage[r].name = "memory" /\ z = ZoneOf(storage[r])
  /\ \A r \in R!Resource : storage[r].name = "memory" /\ storage[r].owner # None => ZoneOf(storage[r]) \in zones
  /\ stage \notin {"resources", "zones"} => \A r \in R!Resource : storage[r].name = "memory" => storage[r].owner # None
  /\ fault = "zone without a page" => \E z \in zones : z[2] = 0

ZInv == AllWellPlaced /\ EntriesApart => MemoryRegistered /\ ZonesClaimed

LEMMA DivMod ==
  ASSUME NEW n \in Nat, NEW d \in Nat \ {0}
  PROVE  /\ n \div d \in Nat /\ (n \div d) * d <= n /\ n < (n \div d) * d + d
OBVIOUS

LEMMA MultipleBelow ==
  ASSUME NEW n \in Nat, NEW d \in Nat \ {0}, NEW q \in Nat
  PROVE  q * d <= n <=> q <= n \div d
<1>. DEFINE k == n \div d
<1>1. k \in Nat /\ k * d <= n /\ n < k * d + d
  BY DivMod
<1>. HIDE DEF k
<1>2. CASE q <= k
  <2>1. PICK j \in Nat : k = q + j
    <3>1. k - q \in Nat /\ k = q + (k - q)
      BY <1>1, <1>2
    <3>. QED
      BY <3>1
  <2>2. k * d = q * d + j * d /\ j * d \in Nat /\ q * d \in Nat
    BY <2>1
  <2>. QED
    BY <1>1, <1>2, <2>2
<1>3. CASE ~(q <= k)
  <2>1. PICK j \in Nat : q = k + 1 + j
    <3>1. q - k - 1 \in Nat /\ q = k + 1 + (q - k - 1)
      BY <1>1, <1>3
    <3>. QED
      BY <3>1
  <2>2. q * d = k * d + d + j * d /\ j * d \in Nat /\ k * d \in Nat
    BY <1>1, <2>1
  <2>. QED
    BY <1>1, <1>3, <2>2
<1>. QED
  BY <1>2, <1>3 DEF k

LEMMA RoundsDown ==
  ASSUME NEW n \in Nat
  PROVE  /\ M!RoundDown(n) \in Nat /\ M!RoundDown(n) <= n /\ n < M!RoundDown(n) + PageSize
         /\ M!RoundDown(n) = (n \div PageSize) * PageSize /\ n \div PageSize \in Nat
BY DivMod, BufferAssumption DEF M!RoundDown


LEMMA RoundsUp ==
  ASSUME NEW n \in Nat, n + PageSize - 1 < Word
  PROVE  /\ M!RoundUp(n) \in Nat /\ n <= M!RoundUp(n) /\ M!RoundUp(n) < n + PageSize
         /\ \E u \in Nat : M!RoundUp(n) = u * PageSize
<1>. DEFINE m == n + PageSize - 1
<1>1. PageSize \in Nat \ {0} /\ Word \in Nat
  BY BufferAssumption, KernelAssumption
<1>2. m % Word = m /\ m \in Nat
  BY <1>1
<1>3. M!RoundUp(n) = M!RoundDown(m)
  BY <1>2 DEF M!RoundUp, M!RoundDown
<1>. HIDE DEF m
<1>4. /\ M!RoundDown(m) \in Nat /\ M!RoundDown(m) <= m /\ m < M!RoundDown(m) + PageSize
      /\ \E u \in Nat : M!RoundDown(m) = u * PageSize
  BY <1>2, RoundsDown
<1>. QED
  BY <1>1, <1>3, <1>4 DEF m

LEMMA TimesOrdered ==
  ASSUME NEW d \in Nat \ {0}, NEW q \in Nat, NEW k \in Nat
  PROVE  /\ q * d \in Nat /\ (q + 1) * d = q * d + d
         /\ q <= k <=> q * d <= k * d
<1>1. q * d \in Nat /\ (q + 1) * d = q * d + d
  OBVIOUS
<1>2. \A x, y \in Nat : x <= y => x * d <= y * d
  <2>. SUFFICES ASSUME NEW x \in Nat, NEW y \in Nat, x <= y
                PROVE  x * d <= y * d
    OBVIOUS
  <2>1. y - x \in Nat /\ y = x + (y - x)
    OBVIOUS
  <2>2. PICK j \in Nat : y = x + j
    BY <2>1
  <2>3. y * d = x * d + j * d /\ j * d \in Nat /\ x * d \in Nat
    BY <2>2
  <2>. QED
    BY <2>3
<1>3. k + 1 <= q => (k + 1) * d <= q * d
  BY <1>2
<1>4. (k + 1) * d = k * d + d /\ k * d \in Nat
  OBVIOUS
<1>5. q * d <= k * d => q <= k
  BY <1>1, <1>3, <1>4
<1>. QED
  BY <1>1, <1>2, <1>5

LEMMA EndIs ==
  ASSUME NEW run \in (0 .. Word) \X (0 .. Word), run[1] < run[2], run[2] - run[1] > PageSize
  PROVE  /\ run[1] \in Nat /\ run[2] \in Nat /\ End(run) \in Nat
         /\ End(run) < Word /\ End(run) <= run[2] /\ run[1] + PageSize <= End(run)
         /\ \A x \in Nat : x <= run[2] /\ x < Word => x <= End(run)
BY BufferAssumption, KernelAssumption DEF End

\* The zone for a run is its whole pages.
LEMMA ZoneIsPages ==
  ASSUME NEW run \in (0 .. Word) \X (0 .. Word), run[1] < run[2], run[2] - run[1] > PageSize,
         NEW z, z = M!ZoneFor(run[1], End(run) - run[1])
  PROVE  /\ z[1] \in Nat /\ z[2] \in Nat
         /\ Span(z[1], z[2]) = PagesOf(run)
<1>. DEFINE b == run[1]
            m == End(run)
            up == M!RoundUp(b)
            down == M!RoundDown(m)
            k == m \div PageSize
<1>1. PageSize \in Nat \ {0} /\ Word \in Nat \ {0}
  BY BufferAssumption, KernelAssumption
<1>2. /\ b \in Nat /\ m \in Nat /\ m < Word /\ m <= run[2] /\ b + PageSize <= m /\ run[2] \in Nat
      /\ \A x \in Nat : x <= run[2] /\ x < Word => x <= m
  BY EndIs
<1>3. z = <<up, (M!RoundDown((b + (m - b)) % Word) - up) % Word>>
  BY DEF M!ZoneFor
<1>4. /\ PagesOf(run) =
          UNION {Span(PageSize * p, PageSize) : p \in
            {q \in 0 .. Word \div PageSize : /\ b <= PageSize * q
                                             /\ PageSize * q + PageSize <= run[2]
                                             /\ PageSize * q + PageSize < Word}}
  BY DEF PagesOf
<1>. HIDE DEF b, m
<1>5. (b + (m - b)) % Word = m
  BY <1>1, <1>2
<1>6. PICK u \in Nat : up \in Nat /\ b <= up /\ up < b + PageSize /\ up = u * PageSize
  <2>1. b + PageSize - 1 < Word
    BY <1>1, <1>2
  <2>. QED
    BY <1>2, <2>1, RoundsUp
<1>7. k \in Nat /\ down \in Nat /\ down <= m /\ down = k * PageSize
  BY <1>2, RoundsDown
<1>8. \A q \in Nat : /\ q * PageSize \in Nat /\ (q + 1) * PageSize = q * PageSize + PageSize
                     /\ PageSize * q = q * PageSize
                     /\ q * PageSize <= m => q <= k
                     /\ u <= q <=> up <= q * PageSize
                     /\ q <= k <=> q * PageSize <= down
  <2>1. ASSUME NEW q \in Nat
        PROVE  /\ q * PageSize \in Nat /\ (q + 1) * PageSize = q * PageSize + PageSize
               /\ PageSize * q = q * PageSize
               /\ q * PageSize <= m => q <= k
    BY <1>1, <1>2, MultipleBelow, TimesOrdered
  <2>2. ASSUME NEW q \in Nat
        PROVE  u <= q <=> up <= q * PageSize
    BY <1>1, <1>6, TimesOrdered
  <2>3. ASSUME NEW q \in Nat
        PROVE  q <= k <=> q * PageSize <= down
    BY <1>1, <1>7, TimesOrdered
  <2>. QED
    BY <2>1, <2>2, <2>3
<1>. HIDE DEF up, down, k
<1>9. up <= down
  BY <1>1, <1>2, <1>6, <1>7, <1>8
<1>10. z = <<up, down - up>>
  <2>1. (down - up) % Word = down - up
    BY <1>1, <1>2, <1>6, <1>7, <1>9
  <2>. QED
    BY <1>3, <1>5, <2>1 DEF down
<1>11. Span(z[1], z[2]) = up .. down - 1
  BY <1>6, <1>7, <1>10 DEF Span
<1>12. ASSUME NEW x \in up .. down - 1
       PROVE  x \in PagesOf(run)
  <2>. DEFINE q == x \div PageSize
  <2>1. x \in Nat /\ up <= x /\ x < down
    BY <1>6, <1>7
  <2>2. q \in Nat /\ q * PageSize <= x /\ x < q * PageSize + PageSize
    BY <1>1, <2>1, DivMod
  <2>3. \A p \in Nat : p * PageSize <= x => p <= q
    BY <1>1, <2>1, MultipleBelow
  <2>. HIDE DEF q
  <2>4. u <= q
    BY <1>6, <2>1, <2>3
  <2>5. b <= q * PageSize
    BY <1>2, <1>6, <1>8, <2>2, <2>4
  <2>6. (q + 1) * PageSize <= down
    <3>1. ~(k <= q)
      <4>1. k <= q => k * PageSize <= q * PageSize
        BY <1>1, <1>7, <2>2, TimesOrdered
      <4>. QED
        BY <1>7, <1>8, <2>1, <2>2, <4>1
    <3>2. q + 1 \in Nat /\ q + 1 <= k
      BY <1>7, <2>2, <3>1
    <3>. QED
      BY <1>8, <3>2
  <2>7. /\ q * PageSize + PageSize <= run[2] /\ q * PageSize + PageSize < Word
    BY <1>1, <1>2, <1>7, <1>8, <2>2, <2>6
  <2>8. q \in 0 .. Word \div PageSize
    <3>1. q * PageSize <= Word
      BY <1>1, <1>8, <2>2, <2>7
    <3>2. q <= Word \div PageSize /\ Word \div PageSize \in Nat
      BY <1>1, <2>2, <3>1, MultipleBelow, DivMod
    <3>. QED
      BY <2>2, <3>2
  <2>9. x \in Span(PageSize * q, PageSize)
    BY <1>1, <1>8, <2>1, <2>2 DEF Span
  <2>. QED
    BY <1>4, <1>8, <2>2, <2>5, <2>7, <2>8, <2>9
<1>13. ASSUME NEW x \in PagesOf(run)
       PROVE  x \in up .. down - 1
  <2>1. PICK q \in 0 .. Word \div PageSize :
          /\ b <= PageSize * q /\ PageSize * q + PageSize <= run[2]
          /\ PageSize * q + PageSize < Word /\ x \in Span(PageSize * q, PageSize)
    BY <1>4
  <2>2. q \in Nat
    BY <1>1, <2>1, DivMod
  <2>3. /\ b <= q * PageSize /\ q * PageSize + PageSize <= m /\ q * PageSize \in Nat
    BY <1>1, <1>2, <1>8, <2>1, <2>2
  <2>4. x \in Int /\ q * PageSize <= x /\ x < q * PageSize + PageSize
    BY <1>1, <1>8, <2>1, <2>2 DEF Span
  <2>5. q + 1 \in Nat /\ (q + 1) * PageSize <= down
    BY <1>8, <2>2, <2>3
  <2>6. up <= q * PageSize
    <3>1. ~(q + 1 <= u)
      <4>1. q + 1 <= u => (q + 1) * PageSize <= u * PageSize
        BY <1>1, <1>6, <2>2, TimesOrdered
      <4>2. (q + 1) * PageSize = q * PageSize + PageSize
        BY <1>8, <2>2
      <4>. QED
        BY <1>1, <1>2, <1>6, <2>3, <4>1, <4>2
    <3>. QED
      BY <1>6, <1>8, <2>2, <3>1
  <2>. QED
    BY <1>6, <1>7, <1>8, <2>2, <2>4, <2>5, <2>6
<1>. QED
  <2>1. z[1] \in Nat /\ z[2] \in Nat
    BY <1>6, <1>7, <1>9, <1>10
  <2>2. up .. down - 1 = PagesOf(run)
    BY Zenon, <1>12, <1>13
  <2>. QED
    BY Zenon, <1>11, <2>1, <2>2

\* The runs of two stretches of bytes with a gap between them; the second may be empty.
LEMMA RunsAre ==
  ASSUME NEW e, NEW a \in Nat, NEW c \in Nat, NEW x \in Nat, NEW y \in Nat,
         a <= c, c < x, x <= y, c <= Word, x < y => y <= Word,
         Usable(e) = (a .. c - 1) \cup (x .. y - 1)
  PROVE  \A run : run \in Runs(e) <=> \/ run = <<a, c>> /\ c - a > PageSize
                                      \/ run = <<x, y>> /\ y - x > PageSize
<1>. DEFINE U == Usable(e)
<1>1. PageSize \in Nat \ {0} /\ Word \in Nat
  BY BufferAssumption, KernelAssumption
<1>2. \A n \in Int : n \in U <=> (a <= n /\ n < c) \/ (x <= n /\ n < y)
  OBVIOUS
<1>3. \A run : run \in Runs(e) <=>
        /\ run \in (0 .. Word) \X (0 .. Word)
        /\ run[1] < run[2] /\ run[1] .. run[2] - 1 \subseteq U
        /\ run[1] - 1 \notin U /\ run[2] \notin U
        /\ run[2] - run[1] > PageSize
  BY DEF Runs
<1>. HIDE DEF U
<1>4. ASSUME NEW r \in 0 .. Word, NEW s \in 0 .. Word, r < s, r .. s - 1 \subseteq U, r - 1 \notin U, s \notin U
      PROVE  (r = a /\ s = c) \/ (r = x /\ s = y)
  <2>1. \A n \in Int : r <= n /\ n < s => n \in U
    BY <1>4
  <2>2. r \in U /\ r \in Int /\ r - 1 \in Int /\ s \in Int /\ s - 1 \in Int
    BY <2>1, <1>1, <1>4
  <2>3. c \in Int /\ c \notin U
    BY <1>2
  <2>4. CASE a <= r /\ r < c
    <3>1. r = a
      BY <1>2, <1>4, <2>2, <2>4
    <3>2. s <= c
      BY <2>1, <2>2, <2>3, <2>4
    <3>3. ~(s < c)
      BY <1>2, <1>4, <2>2, <2>4
    <3>. QED
      BY <2>2, <3>1, <3>2, <3>3
  <2>5. CASE x <= r /\ r < y
    <3>1. r = x
      BY <1>2, <1>4, <2>2, <2>5
    <3>2. s <= y
      <4>1. y \in Int /\ y \notin U
        BY <1>2
      <4>. QED
        BY <2>1, <2>2, <2>5, <4>1
    <3>3. ~(s < y)
      BY <1>2, <1>4, <2>2, <2>5
    <3>. QED
      BY <2>2, <3>1, <3>2, <3>3
  <2>. QED
    BY <1>2, <2>2, <2>4, <2>5
<1>5. ASSUME NEW run \in Runs(e)
      PROVE  \/ run = <<a, c>> /\ c - a > PageSize
             \/ run = <<x, y>> /\ y - x > PageSize
  <2>1. /\ run \in (0 .. Word) \X (0 .. Word)
        /\ run[1] < run[2] /\ run[1] .. run[2] - 1 \subseteq U
        /\ run[1] - 1 \notin U /\ run[2] \notin U
        /\ run[2] - run[1] > PageSize
    BY <1>3
  <2>2. run[1] \in 0 .. Word /\ run[2] \in 0 .. Word /\ run = <<run[1], run[2]>>
    BY <2>1
  <2>3. (run[1] = a /\ run[2] = c) \/ (run[1] = x /\ run[2] = y)
    BY <1>4, <2>1, <2>2
  <2>. QED
    BY <2>1, <2>2, <2>3
<1>6. c - a > PageSize => <<a, c>> \in Runs(e)
  <2>. SUFFICES ASSUME c - a > PageSize
                PROVE  <<a, c>> \in Runs(e)
    OBVIOUS
  <2>1. a < c /\ <<a, c>> \in (0 .. Word) \X (0 .. Word)
    BY <1>1
  <2>2. a .. c - 1 \subseteq U
    BY <1>2
  <2>3. a - 1 \notin U /\ c \notin U
    BY <1>2
  <2>. QED
    BY <1>3, <2>1, <2>2, <2>3
<1>7. y - x > PageSize => <<x, y>> \in Runs(e)
  <2>. SUFFICES ASSUME y - x > PageSize
                PROVE  <<x, y>> \in Runs(e)
    OBVIOUS
  <2>1. x < y /\ <<x, y>> \in (0 .. Word) \X (0 .. Word)
    BY <1>1
  <2>2. x .. y - 1 \subseteq U
    BY <1>2
  <2>3. x - 1 \notin U /\ y \notin U
    BY <1>2
  <2>. QED
    BY <1>3, <2>1, <2>2, <2>3
<1>. QED
  BY <1>5, <1>6, <1>7

LEMMA RunOfPart ==
  ASSUME NEW a \in Nat, NEW c \in Nat, a <= c, c <= Word, c = Word => a # 0, NEW d, d = c % Word
  PROVE  /\ M!Length(<<a, d>>) = c - a /\ RunOf(<<a, d>>) = <<a, c>>
         /\ M!LongEnough(<<a, d>>) <=> c - a > PageSize
<1>1. Word \in Nat \ {0} /\ PageSize \in Nat
  BY BufferAssumption, KernelAssumption
<1>2. (d - a) % Word = c - a
  <2>1. CASE c < Word
    <3>1. d = c /\ c - a \in 0 .. Word - 1
      BY <1>1, <2>1
    <3>. QED
      BY <1>1, <3>1
  <2>2. CASE c = Word
    <3>1. d = 0 /\ a \in 1 .. Word
      BY <1>1, <2>2
    <3>2. (0 - a) % Word = Word - a
      BY <1>1, <3>1
    <3>. QED
      BY <2>2, <3>1, <3>2
  <2>. QED
    BY <1>1, <2>1, <2>2
<1>3. M!Length(<<a, d>>) = c - a
  BY <1>2 DEF M!Length
<1>. QED
  BY <1>1, <1>3 DEF M!LongEnough, RunOf

\* The parts that are registered for an entry are its runs.
PartsAre(s, e) ==
  \A run : run \in Runs(e) <=> \E p \in ToSet(s) : M!LongEnough(p) /\ RunOf(p) = run

LEMMA PartsAreRuns ==
  ASSUME NEW e \in [addr : Nat, len : Nat, avail : BOOLEAN], WellPlaced(e)
  PROVE  PartsAre(M!Available(e), e)
<1>. DEFINE start == e.addr
            sum == start + e.len
            end == sum % Word
<1>1. /\ Word \in Nat \ {0} /\ KernelStart \in Nat /\ KernelEnd \in Nat
      /\ KernelStart < KernelEnd /\ KernelEnd < Word /\ PageSize \in Nat \ {0}
  BY BufferAssumption, KernelAssumption
<1>2. start \in Nat /\ sum \in Nat /\ start <= sum
  OBVIOUS
<1>3. \/ ~e.avail \/ start >= Word
      \/ KernelEnd <= start /\ sum <= Word
      \/ KernelStart >= sum
      \/ KernelEnd < sum /\ sum < Word
  BY DEF WellPlaced
<1>4. e.avail => Usable(e) = ((start .. sum - 1) \cap 0 .. Word - 1) \ (KernelStart .. KernelEnd - 1)
  BY DEF Usable, Span, Kernelspace
<1>5. M!Available(e) =
        IF ~e.avail \/ start > Word - 1 THEN <<>>
        ELSE IF KernelEnd <= start \/ KernelStart >= end THEN << <<start, end>> >>
        ELSE IF KernelStart <= start THEN << <<KernelEnd, end>> >>
        ELSE IF KernelEnd >= end THEN << <<end, KernelStart>> >>
        ELSE << <<start, KernelStart>>, <<KernelEnd, end>> >>
  BY DEF M!Available, M!MaxAddr
<1>6. ASSUME NEW p
      PROVE  ToSet(<<p>>) = {p}
  <2>1. DOMAIN <<p>> = {1} /\ <<p>>[1] = p
    OBVIOUS
  <2>. QED
    BY <2>1 DEF ToSet
<1>. HIDE DEF start, sum
<1>7. CASE ~e.avail \/ start >= Word
  <2>1. Usable(e) = {}
    <3>1. ~e.avail => Usable(e) = {}
      BY DEF Usable
    <3>2. start >= Word /\ e.avail => Usable(e) = {}
      BY <1>1, <1>2, <1>4
    <3>. QED
      BY <1>7, <3>1, <3>2
  <2>2. Runs(e) = {}
    BY <1>1, <2>1 DEF Runs
  <2>3. M!Available(e) = <<>>
    BY <1>1, <1>2, <1>5, <1>7
  <2>. QED
    BY <2>2, <2>3 DEF PartsAre, ToSet
<1>8. CASE e.avail /\ start < Word /\ ((KernelEnd <= start /\ sum <= Word) \/ KernelStart >= sum)
  <2>1. sum <= Word /\ (sum = Word => start # 0)
    BY <1>1, <1>2, <1>8
  <2>2. KernelEnd <= start \/ KernelStart >= end
    <3>1. KernelStart >= sum => end = sum
      BY <1>1, <1>2
    <3>. QED
      BY <1>8, <3>1
  <2>3. M!Available(e) = << <<start, end>> >>
    BY <1>1, <1>2, <1>5, <1>8, <2>2
  <2>4. Usable(e) = (start .. sum - 1) \cup (sum + 1 .. (sum + 1) - 1)
    <3>1. (start .. sum - 1) \cap 0 .. Word - 1 = start .. sum - 1
      BY <1>1, <1>2, <2>1
    <3>2. (start .. sum - 1) \ (KernelStart .. KernelEnd - 1) = start .. sum - 1
      BY <1>1, <1>2, <1>8
    <3>3. sum + 1 .. (sum + 1) - 1 = {}
      BY <1>2
    <3>. QED
      BY <1>4, <1>8, <3>1, <3>2, <3>3
  <2>. DEFINE p == <<start, end>>
  <2>5. RunOf(p) = <<start, sum>> /\ (M!LongEnough(p) <=> sum - start > PageSize)
    BY <1>2, <2>1, RunOfPart
  <2>6. \A run : run \in Runs(e) <=> run = <<start, sum>> /\ sum - start > PageSize
    <3>1. sum + 1 \in Nat /\ sum < sum + 1 /\ ~((sum + 1) - (sum + 1) > PageSize)
      BY <1>1, <1>2
    <3>2. \A run : run \in Runs(e) <=> \/ run = <<start, sum>> /\ sum - start > PageSize
                                       \/ run = <<sum + 1, sum + 1>> /\ (sum + 1) - (sum + 1) > PageSize
      <4>1. ~(sum + 1 < sum + 1) /\ start <= sum /\ sum + 1 <= sum + 1 /\ sum <= Word
        BY <1>2, <2>1
      <4>. QED
        BY <1>2, <2>4, <3>1, <4>1, RunsAre
    <3>. QED
      BY Zenon, <3>1, <3>2
  <2>7. ToSet(M!Available(e)) = {p}
    BY <1>6, <2>3
  <2>. HIDE DEF p
  <2>. QED
    BY <2>5, <2>6, <2>7 DEF PartsAre
<1>9. CASE e.avail /\ start < Word /\ ~(KernelEnd <= start) /\ KernelEnd < sum /\ sum < Word
  <2>1. end = sum
    BY <1>1, <1>2, <1>9
  <2>. DEFINE q == <<KernelEnd, end>>
  <2>2. RunOf(q) = <<KernelEnd, sum>> /\ (M!LongEnough(q) <=> sum - KernelEnd > PageSize)
    <3>1. KernelEnd <= sum /\ sum <= Word /\ sum # Word /\ end = sum % Word
      BY <1>1, <1>2, <1>9
    <3>. QED
      BY <1>1, <1>2, <3>1, RunOfPart
  <2>3. CASE KernelStart <= start
    <3>1. M!Available(e) = << <<KernelEnd, end>> >>
      BY <1>1, <1>2, <1>5, <1>9, <2>1, <2>3
    <3>2. Usable(e) = (KernelEnd .. sum - 1) \cup (sum + 1 .. (sum + 1) - 1)
      BY <1>1, <1>2, <1>4, <1>9, <2>3
    <3>3. \A run : run \in Runs(e) <=> run = <<KernelEnd, sum>> /\ sum - KernelEnd > PageSize
      <4>1. sum + 1 \in Nat /\ sum < sum + 1 /\ ~((sum + 1) - (sum + 1) > PageSize) /\ KernelEnd <= sum /\ sum <= Word
        BY <1>1, <1>2, <1>9
      <4>2. \A run : run \in Runs(e) <=> \/ run = <<KernelEnd, sum>> /\ sum - KernelEnd > PageSize
                                         \/ run = <<sum + 1, sum + 1>> /\ (sum + 1) - (sum + 1) > PageSize
        BY SMTT(30), <1>1, <1>2, <3>2, <4>1, RunsAre
      <4>. QED
        BY Zenon, <4>1, <4>2
    <3>4. ToSet(M!Available(e)) = {q}
      BY <1>6, <3>1
    <3>. HIDE DEF q
    <3>. QED
      BY <2>2, <3>3, <3>4 DEF PartsAre
  <2>4. CASE start < KernelStart
    <3>. DEFINE p == <<start, KernelStart>>
    <3>1. M!Available(e) = << p, q >>
      BY <1>1, <1>2, <1>5, <1>9, <2>1, <2>4
    <3>2. Usable(e) = (start .. KernelStart - 1) \cup (KernelEnd .. sum - 1)
      BY <1>1, <1>2, <1>4, <1>9, <2>4
    <3>3. \A run : run \in Runs(e) <=> \/ run = <<start, KernelStart>> /\ KernelStart - start > PageSize
                                       \/ run = <<KernelEnd, sum>> /\ sum - KernelEnd > PageSize
      <4>1. start <= KernelStart /\ KernelEnd <= sum /\ KernelStart <= Word /\ sum <= Word
        BY <1>1, <1>2, <1>9, <2>4
      <4>. QED
        BY <1>1, <1>2, <3>2, <4>1, RunsAre
    <3>4. RunOf(p) = <<start, KernelStart>> /\ (M!LongEnough(p) <=> KernelStart - start > PageSize)
      <4>1. KernelStart = KernelStart % Word /\ start <= KernelStart /\ KernelStart <= Word /\ KernelStart # Word
        BY <1>1, <1>2, <2>4
      <4>. QED
        BY <1>1, <1>2, <4>1, RunOfPart
    <3>. HIDE DEF p, q
    <3>5. ToSet(M!Available(e)) = {p, q}
      <4>1. DOMAIN <<p, q>> = {1, 2} /\ <<p, q>>[1] = p /\ <<p, q>>[2] = q
        OBVIOUS
      <4>. QED
        BY <3>1, <4>1 DEF ToSet
    <3>. QED
      BY <2>2, <3>3, <3>4, <3>5 DEF PartsAre
  <2>. QED
    BY <1>1, <1>2, <2>3, <2>4
<1>. QED
  BY <1>1, <1>2, <1>3, <1>7, <1>8, <1>9
\* Different runs of an entry have no byte in common.
LEMMA RunsDisjoint ==
  ASSUME NEW e, NEW r \in Runs(e), NEW s \in Runs(e), r # s
  PROVE  (r[1] .. r[2] - 1) \cap (s[1] .. s[2] - 1) = {}
<1>1. Word \in Nat
  BY KernelAssumption
<1>2. \A t \in Runs(e) :
        /\ t[1] \in 0 .. Word /\ t[2] \in 0 .. Word /\ t = <<t[1], t[2]>> /\ t[1] < t[2]
        /\ t[1] .. t[2] - 1 \subseteq Usable(e)
        /\ t[1] - 1 \notin Usable(e) /\ t[2] \notin Usable(e)
  BY DEF Runs
<1>3. \A t, u \in Runs(e), x \in Int :
        t[1] <= x /\ x < t[2] /\ u[1] <= x /\ x < u[2] => t[1] <= u[1] /\ u[2] <= t[2]
  <2>. SUFFICES ASSUME NEW t \in Runs(e), NEW u \in Runs(e), NEW x \in Int,
                       t[1] <= x, x < t[2], u[1] <= x, x < u[2]
                PROVE  t[1] <= u[1] /\ u[2] <= t[2]
    OBVIOUS
  <2>1. t[1] \in Int /\ t[2] \in Int /\ u[1] \in Int /\ u[2] \in Int
    BY <1>1, <1>2
  <2>2. u[1] < t[1] => t[1] - 1 \in u[1] .. u[2] - 1
    BY <2>1
  <2>3. t[2] < u[2] => t[2] \in u[1] .. u[2] - 1
    BY <2>1
  <2>4. t[1] - 1 \notin u[1] .. u[2] - 1 /\ t[2] \notin u[1] .. u[2] - 1
    BY <1>2
  <2>. QED
    BY <2>1, <2>2, <2>3, <2>4
<1>4. SUFFICES ASSUME NEW x \in (r[1] .. r[2] - 1) \cap (s[1] .. s[2] - 1)
               PROVE  FALSE
  OBVIOUS
<1>5. r[1] \in Int /\ r[2] \in Int /\ s[1] \in Int /\ s[2] \in Int
  BY <1>1, <1>2
<1>6. x \in Int /\ r[1] <= x /\ x < r[2] /\ s[1] <= x /\ x < s[2]
  BY <1>4, <1>5
<1>7. r[1] <= s[1] /\ s[2] <= r[2] /\ s[1] <= r[1] /\ r[2] <= s[2]
  BY <1>3, <1>6
<1>8. r[1] = s[1] /\ r[2] = s[2]
  BY <1>5, <1>7
<1>. QED
  BY <1>2, <1>8

LEMMA PagesInRun ==
  ASSUME NEW e, NEW run \in Runs(e)
  PROVE  PagesOf(run) \subseteq run[1] .. run[2] - 1 /\ PagesOf(run) \subseteq Usable(e)
<1>1. PageSize \in Nat \ {0} /\ Word \in Nat \ {0}
  BY BufferAssumption, KernelAssumption
<1>2. /\ run[1] \in 0 .. Word /\ run[2] \in 0 .. Word
      /\ run[1] .. run[2] - 1 \subseteq Usable(e)
  BY DEF Runs
<1>3. ASSUME NEW x \in PagesOf(run)
      PROVE  x \in run[1] .. run[2] - 1
  <2>1. PICK q \in 0 .. Word \div PageSize :
          /\ run[1] <= PageSize * q /\ PageSize * q + PageSize <= run[2]
          /\ x \in PageSize * q .. PageSize * q + PageSize - 1
    BY DEF PagesOf, Span
  <2>2. q \in Nat
    BY <1>1, <2>1, DivMod
  <2>. DEFINE n == PageSize * q
  <2>3. n \in Nat
    BY <1>1, <2>2
  <2>4. run[1] <= n /\ n + PageSize <= run[2] /\ x \in n .. n + PageSize - 1
    BY <2>1
  <2>. HIDE DEF n
  <2>. QED
    BY <1>1, <1>2, <2>3, <2>4
<1>. QED
  BY <1>2, <1>3

-----------------------------------------------------------------------------
(* What an operation on resources does to the records *)

LEMMA StorageGrows ==
  ASSUME storage \in Seq(Record), NEW name \in Buffer \cup {"memory"}, NEW type \in {"memory", "buffer"},
         NEW base \in Int, NEW size \in Int, R!Register(name, type, base, size)
  PROVE  \/ fault' = "resources_get_new" /\ storage' = storage
         \/ /\ Len(storage') = Len(storage) + 1 /\ fault' = fault
            /\ \A r \in 1 .. Len(storage) : storage'[r] = storage[r]
            /\ storage'[Len(storage) + 1] = [name |-> name, type |-> type, owner |-> None,
                                             base |-> base, len |-> size]
<1>. DEFINE e == [name |-> name, type |-> type, owner |-> None, base |-> base, len |-> size]
<1>1. CASE Len(storage) = MaxResources
  BY <1>1 DEF R!Register
<1>2. CASE Len(storage) # MaxResources
  <2>1. storage' = Append(storage, e) /\ fault' = fault
    BY <1>2 DEF R!Register
  <2>2. e \in Record
    BY DEF Record
  <2>. HIDE DEF e
  <2>3. /\ Len(Append(storage, e)) = Len(storage) + 1
        /\ \A r \in 1 .. Len(storage) : Append(storage, e)[r] = storage[r]
        /\ Append(storage, e)[Len(storage) + 1] = e
    BY <2>2, AppendProperties
  <2>. QED
    BY <2>1, <2>3 DEF e
<1>. QED
  BY <1>1, <1>2

\* The records of the resources are the same but for the owner of r.
OwnerSet(r, owner) ==
  /\ Len(storage') = Len(storage)
  /\ \A s \in R!Resource :
       /\ storage'[s].name = storage[s].name /\ storage'[s].type = storage[s].type
       /\ storage'[s].base = storage[s].base /\ storage'[s].len = storage[s].len
       /\ storage'[s].owner = IF s = r THEN owner ELSE storage[s].owner

LEMMA OwnerIsSet ==
  ASSUME storage \in Seq(Record), NEW wanted, NEW owner \in {Kernel, "driver"}, NEW r \in R!Resource,
         R!Claim(wanted, owner, r)
  PROVE  OwnerSet(r, owner)
<1>1. storage' = [storage EXCEPT ![r].owner = owner]
  BY DEF R!Claim
<1>2. \A s \in 1 .. Len(storage) : storage[s] \in Record
  BY ElementOfSeq
<1>3. Len(storage') = Len(storage)
  <2>1. [storage[r] EXCEPT !.owner = owner] \in Record
    BY <1>2 DEF Record, Kernel, R!Resource
  <2>. QED
    BY <1>1, <2>1, ExceptSeq DEF R!Resource
<1>4. \A s \in 1 .. Len(storage) :
        storage'[s] = IF s = r THEN [storage[r] EXCEPT !.owner = owner] ELSE storage[s]
  BY <1>1, LenProperties
<1>5. /\ storage[r] \in Record
  BY <1>2 DEF R!Resource
<1>. DEFINE e == [storage[r] EXCEPT !.owner = owner]
<1>6. /\ e.name = storage[r].name /\ e.type = storage[r].type
      /\ e.base = storage[r].base /\ e.len = storage[r].len /\ e.owner = owner
  BY <1>5 DEF Record
<1>7. \A s \in 1 .. Len(storage) : storage'[s] = IF s = r THEN e ELSE storage[s]
  BY <1>4
<1>. HIDE DEF e
<1>. QED
  BY <1>3, <1>6, <1>7 DEF R!Resource, OwnerSet

-----------------------------------------------------------------------------
(* The zones: every action keeps MemoryRegistered and ZonesClaimed *)

LEMMA InitZones == Init => MemoryRegistered /\ ZonesClaimed
<1>. SUFFICES ASSUME Init
              PROVE  MemoryRegistered /\ ZonesClaimed
  OBVIOUS
<1>1. /\ entry = 0 /\ parts = <<>> /\ storage = <<>> /\ zones = {}
      /\ stage = "resources" /\ fault = "none"
  BY DEF Init, R!Init
<1>2. R!Resource = {} /\ ToSet(parts) = {} /\ 1 .. entry = {}
  BY <1>1 DEF R!Resource, ToSet
<1>. QED
  BY <1>1, <1>2 DEF MemoryRegistered, ZonesClaimed

\* The facts on numbers and sequences that the steps use
LEMMA BootFacts ==
  ASSUME Inv
  PROVE  /\ Len(mmap) \in Nat /\ entry \in 0 .. Len(mmap) /\ Len(storage) \in Nat
         /\ storage \in Seq(Record) /\ parts \in Seq(Int \X Int)
         /\ \A i \in 1 .. Len(mmap) : mmap[i] \in [addr : Nat, len : Nat, avail : BOOLEAN]
         /\ DOMAIN mmap = 1 .. Len(mmap)
BY LenProperties, ElementOfSeq DEF Inv, Sources, ResourceLists

LEMMA NextEntryZones ==
  ASSUME Inv, AllWellPlaced, MemoryRegistered, ZonesClaimed, NextEntry, fault = "none"
  PROVE  MemoryRegistered' /\ ZonesClaimed'
<1>1. /\ stage = "resources" /\ parts = <<>> /\ entry < Len(mmap)
      /\ entry' = entry + 1 /\ parts' = M!Available(mmap[entry']) /\ mmap' = mmap
      /\ storage' = storage /\ zones' = zones /\ stage' = stage /\ fault' = fault
  BY DEF NextEntry, resVars
<1>2. entry \in Nat /\ entry' \in 1 .. Len(mmap) /\ Len(mmap) \in Nat
  BY <1>1, BootFacts
<1>3. PartsAre(parts', mmap[entry'])
  <2>. DEFINE e == mmap[entry']
  <2>1. e \in [addr : Nat, len : Nat, avail : BOOLEAN] /\ WellPlaced(e)
    BY <1>2, BootFacts DEF AllWellPlaced, Entries
  <2>. HIDE DEF e
  <2>2. PartsAre(M!Available(e), e)
    BY <2>1, PartsAreRuns
  <2>. QED
    BY <1>1, <2>2 DEF e
<1>4. 1 .. entry' = (1 .. entry) \cup {entry'} /\ entry' # 0 /\ entry' \notin 1 .. entry
  BY <1>1, <1>2
<1>5. ToSet(parts) = {}
  BY <1>1 DEF ToSet
<1>6. R!Resource' = R!Resource
  BY <1>1 DEF R!Resource
<1>7. \A r \in R!Resource : storage[r].name = "memory" =>
        \E i \in 1 .. entry' : \E run \in Runs(mmap[i]) : IsFor(storage[r], run)
  BY <1>4 DEF MemoryRegistered
<1>8. \A p \in ToSet(parts') : M!LongEnough(p) => entry' # 0 /\ RunOf(p) \in Runs(mmap[entry'])
  BY <1>3, <1>4 DEF PartsAre
<1>9. \A i \in 1 .. entry' : \A run \in Runs(mmap[i]) :
         \/ i = entry' /\ \E p \in ToSet(parts') : M!LongEnough(p) /\ RunOf(p) = run
         \/ \E r \in R!Resource : IsFor(storage[r], run)
  <2>1. fault # "resources_get_new"
    OBVIOUS
  <2>2. \A i \in 1 .. entry : \A run \in Runs(mmap[i]) : \E r \in R!Resource : IsFor(storage[r], run)
    BY <1>5, <2>1 DEF MemoryRegistered
  <2>. QED
    BY <1>3, <1>4, <2>2 DEF PartsAre
<1>10. MemoryRegistered'
  BY Zenon, <1>1, <1>6, <1>7, <1>8, <1>9 DEF MemoryRegistered
<1>11. ZonesClaimed'
  BY Zenon, <1>1, <1>6 DEF ZonesClaimed
<1>. QED
  BY <1>10, <1>11

\* register_mem_region registers the run that the part is.
LEMMA CutIsEnd ==
  ASSUME NEW p \in Int \X Int
  PROVE  M!Cut(p) = End(RunOf(p)) - RunOf(p)[1] /\ RunOf(p)[1] = p[1]
<1>1. p[1] \in Int /\ p[2] \in Int /\ Word \in Nat \ {0}
  BY KernelAssumption
<1>2. M!Length(p) \in Int
  BY <1>1 DEF M!Length
<1>. QED
  BY <1>1, <1>2 DEF M!Cut, RunOf, End, M!MaxAddr

LEMMA UpToMore ==
  ASSUME NEW a \in Nat, NEW b \in Nat, a <= b
  PROVE  \A r \in 1 .. a : r \in 1 .. b
OBVIOUS

\* What the steps of i686_register_resources say of the zones: none exists yet.
LEMMA ZonesStay ==
  ASSUME Inv, ZonesClaimed, zones' = zones, stage = "resources", stage' \in {"resources", "zones"},
         fault' # "zone without a page",
         Len(storage') \in Nat, Len(storage') >= Len(storage),
         \A r \in 1 .. Len(storage) : storage'[r] = storage[r],
         \A r \in 1 .. Len(storage') : r \in 1 .. Len(storage) \/ storage'[r].owner = None
  PROVE  ZonesClaimed'
<1>1. Len(storage) \in Nat
  BY BootFacts
<1>2. R!Resource = 1 .. Len(storage) /\ R!Resource' = 1 .. Len(storage')
  BY DEF R!Resource
<1>3. \A r \in R!Resource : r \in R!Resource' /\ storage'[r] = storage[r]
  <2>. DEFINE a == Len(storage)
              b == Len(storage')
  <2>1. a \in Nat /\ b \in Nat /\ a <= b
    BY <1>1
  <2>. HIDE DEF a, b
  <2>2. \A r \in 1 .. a : r \in 1 .. b
    BY Zenon, <2>1, UpToMore
  <2>. USE DEF a, b
  <2>. QED
    BY Zenon, <1>2, <2>2
<1>4. \A z \in zones : \E r \in R!Resource' : storage'[r].name = "memory" /\ z = ZoneOf(storage'[r])
  <2>1. ASSUME NEW z \in zones
        PROVE  \E r \in R!Resource' : storage'[r].name = "memory" /\ z = ZoneOf(storage'[r])
    <3>1. PICK r \in R!Resource : storage[r].name = "memory" /\ z = ZoneOf(storage[r])
      BY Zenon DEF ZonesClaimed
    <3>2. r \in R!Resource' /\ storage'[r] = storage[r]
      BY Zenon, <1>3
    <3>. QED
      BY Zenon, <3>1, <3>2
  <2>. QED
    BY Zenon, <2>1
<1>5. \A r \in R!Resource' : storage'[r].name = "memory" /\ storage'[r].owner # None => ZoneOf(storage'[r]) \in zones
  BY Zenon, <1>2, <1>3 DEF ZonesClaimed
<1>. QED
  BY Zenon, <1>4, <1>5 DEF ZonesClaimed

LEMMA RegisterMemoryZones ==
  ASSUME Inv, MemoryRegistered, ZonesClaimed, RegisterMemory, fault = "none"
  PROVE  MemoryRegistered' /\ ZonesClaimed'
<1>. DEFINE h == Head(parts)
<1>1. /\ stage = "resources" /\ parts # <<>> /\ parts' = Tail(parts)
      /\ mmap' = mmap /\ entry' = entry /\ zones' = zones /\ stage' = stage
      /\ IF M!LongEnough(h) THEN R!Register("memory", "memory", h[1], M!Cut(h))
                            ELSE UNCHANGED <<resVars, fault>>
  BY DEF RegisterMemory
<1>2. /\ h \in Int \X Int /\ h \in ToSet(parts) /\ ToSet(parts') \subseteq ToSet(parts)
      /\ Len(storage) \in Nat /\ storage \in Seq(Record) /\ entry \in Nat
  BY <1>1, BootFacts, RestOf
<1>3. ToSet(parts) \subseteq {h} \cup ToSet(parts')
  <2>1. parts \in Seq(Int \X Int) /\ parts' \in Seq(Int \X Int) /\ Len(parts') = Len(parts) - 1
        /\ h = parts[1] /\ Len(parts) \in Nat \ {0}
    BY <1>1, BootFacts, RestOf
  <2>2. \A i \in 1 .. Len(parts') : parts'[i] = parts[i + 1]
    BY <1>1, BootFacts, RestOf
  <2>3. ASSUME NEW p \in ToSet(parts), p # h
        PROVE  p \in ToSet(parts')
    <3>1. PICK i \in 1 .. Len(parts) : p = parts[i]
      BY <2>1, ElementsOf
    <3>2. i - 1 \in 1 .. Len(parts') /\ i = (i - 1) + 1
      BY <2>1, <2>3, <3>1
    <3>3. \E j \in 1 .. Len(parts') : p = parts'[j]
      BY <2>2, <3>1, <3>2
    <3>4. \A t \in Seq(Int \X Int) : p \in ToSet(t) <=> \E j \in 1 .. Len(t) : p = t[j]
      BY ElementsOf
    <3>. QED
      BY Zenon, <2>1, <3>3, <3>4
  <2>. QED
    BY <2>3
<1>. HIDE DEF h
<1>4. ASSUME storage' = storage, M!LongEnough(h) => fault' = "resources_get_new", fault' # "zone without a page"
      PROVE  MemoryRegistered' /\ ZonesClaimed'
  <2>1. R!Resource' = R!Resource
    BY <1>4 DEF R!Resource
  <2>2. \A p \in ToSet(parts') : M!LongEnough(p) => entry # 0 /\ RunOf(p) \in Runs(mmap[entry])
    BY <1>2 DEF MemoryRegistered
  <2>3. fault' # "resources_get_new" \/ stage' \notin {"resources", "zones"} =>
          \A i \in 1 .. entry : \A run \in Runs(mmap[i]) :
            \/ i = entry /\ \E p \in ToSet(parts') : M!LongEnough(p) /\ RunOf(p) = run
            \/ \E r \in R!Resource : IsFor(storage[r], run)
    BY <1>1, <1>3, <1>4 DEF MemoryRegistered
  <2>4. \A r \in R!Resource : storage[r].name = "memory" =>
          \E i \in 1 .. entry : \E run \in Runs(mmap[i]) : IsFor(storage[r], run)
    BY DEF MemoryRegistered
  <2>5. MemoryRegistered'
    BY Zenon, <1>1, <1>4, <2>1, <2>2, <2>3, <2>4 DEF MemoryRegistered
  <2>6. ZonesClaimed'
    BY Zenon, <1>1, <1>4, <2>1 DEF ZonesClaimed
  <2>. QED
    BY <2>5, <2>6
<1>5. CASE ~M!LongEnough(h)
  BY <1>1, <1>4, <1>5 DEF resVars
<1>6. CASE M!LongEnough(h)
  <2>. DEFINE N == Len(storage) + 1
              e == [name |-> "memory", type |-> "memory", owner |-> None, base |-> h[1], len |-> M!Cut(h)]
  <2>1. h[1] \in Int /\ M!Cut(h) \in Int
    <3>1. h[1] \in Int /\ h[2] \in Int /\ Word \in Nat \ {0}
      BY <1>2, KernelAssumption
    <3>2. (h[2] - h[1]) % Word \in Int
      BY <3>1
    <3>. QED
      BY <3>1, <3>2 DEF M!Cut, M!Length, M!MaxAddr
  <2>2. \/ fault' = "resources_get_new" /\ storage' = storage
        \/ /\ Len(storage') = N /\ fault' = fault
           /\ \A r \in 1 .. Len(storage) : storage'[r] = storage[r]
           /\ storage'[N] = e
    BY <1>1, <1>2, <1>6, <2>1, StorageGrows
  <2>3. IsFor(e, RunOf(h)) /\ e.owner = None
    BY <1>2, CutIsEnd DEF IsFor
  <2>4. entry \in 1 .. entry /\ RunOf(h) \in Runs(mmap[entry])
    BY <1>2, <1>6 DEF MemoryRegistered
  <2>. HIDE DEF e
  <2>5. CASE storage' = storage
    <3>1. fault' = "resources_get_new"
      BY <1>2, <2>2, <2>5
    <3>. QED
      BY <1>4, <2>5, <3>1
  <2>6. CASE storage' # storage
    <3>1. /\ Len(storage') = N /\ fault' = fault /\ N \in Nat /\ N = Len(storage) + 1
          /\ \A r \in 1 .. Len(storage) : storage'[r] = storage[r]
          /\ storage'[N] = e
      BY <1>2, <2>2, <2>6
    <3>2. /\ R!Resource = 1 .. Len(storage) /\ R!Resource' = 1 .. Len(storage) \cup {N}
      BY <1>2, <3>1 DEF R!Resource
    <3>. HIDE DEF N
    <3>3. \A r \in R!Resource' : storage'[r].name = "memory" =>
            \E i \in 1 .. entry : \E run \in Runs(mmap[i]) : IsFor(storage'[r], run)
      <4>1. ASSUME NEW r \in R!Resource', storage'[r].name = "memory"
            PROVE  \E i \in 1 .. entry : \E run \in Runs(mmap[i]) : IsFor(storage'[r], run)
        <5>1. CASE r = N
          BY Zenon, <2>3, <2>4, <3>1, <5>1
        <5>2. CASE r \in R!Resource
          BY Zenon, <3>1, <3>2, <4>1, <5>2 DEF MemoryRegistered
        <5>. QED
          BY Zenon, <3>2, <4>1, <5>1, <5>2
      <4>. QED
        BY Zenon, <4>1
    <3>4. \A p \in ToSet(parts') : M!LongEnough(p) => entry # 0 /\ RunOf(p) \in Runs(mmap[entry])
      BY Zenon, <1>2 DEF MemoryRegistered
    <3>5. \A i \in 1 .. entry : \A run \in Runs(mmap[i]) :
            \/ i = entry /\ \E p \in ToSet(parts') : M!LongEnough(p) /\ RunOf(p) = run
            \/ \E r \in R!Resource' : IsFor(storage'[r], run)
      <4>1. ASSUME NEW i \in 1 .. entry, NEW run \in Runs(mmap[i])
            PROVE  \/ i = entry /\ \E p \in ToSet(parts') : M!LongEnough(p) /\ RunOf(p) = run
                   \/ \E r \in R!Resource' : IsFor(storage'[r], run)
        <5>1. \/ i = entry /\ \E p \in ToSet(parts) : M!LongEnough(p) /\ RunOf(p) = run
              \/ \E r \in R!Resource : IsFor(storage[r], run)
          BY Zenon, <4>1, <1>1 DEF MemoryRegistered
        <5>2. CASE \E r \in R!Resource : IsFor(storage[r], run)
          BY Zenon, <3>1, <3>2, <5>2
        <5>3. CASE i = entry /\ \E p \in ToSet(parts) : M!LongEnough(p) /\ RunOf(p) = run
          <6>1. PICK p \in ToSet(parts) : M!LongEnough(p) /\ RunOf(p) = run
            BY <5>3
          <6>2. CASE p = h
            BY Zenon, <2>3, <3>1, <3>2, <6>1, <6>2
          <6>3. CASE p \in ToSet(parts')
            BY Zenon, <5>3, <6>1, <6>3
          <6>. QED
            BY Zenon, <1>3, <6>1, <6>2, <6>3
        <5>. QED
          BY <5>1, <5>2, <5>3
      <4>. QED
        BY Zenon, <4>1
    <3>6. MemoryRegistered'
      BY Zenon, <1>1, <3>3, <3>4, <3>5 DEF MemoryRegistered
    <3>7. ZonesClaimed'
      <4>1. Len(storage') >= Len(storage)
        BY <1>2, <3>1
      <4>2. \A r \in 1 .. Len(storage') : r \in 1 .. Len(storage) \/ storage'[r].owner = None
        BY <1>2, <2>3, <3>1
      <4>3. fault' # "zone without a page" /\ stage' \in {"resources", "zones"} /\ Len(storage') \in Nat
        BY <1>1, <3>1
      <4>. QED
        BY Zenon, <1>1, <3>1, <4>1, <4>2, <4>3, ZonesStay
    <3>. QED
      BY <3>6, <3>7
  <2>. QED
    BY <2>5, <2>6
<1>. QED
  BY <1>5, <1>6

LEMMA RegisterDeviceZones ==
  ASSUME Inv, MemoryRegistered, ZonesClaimed, RegisterDevice, fault = "none"
  PROVE  MemoryRegistered' /\ ZonesClaimed'
<1>. DEFINE d == Head(devices)
            N == Len(storage) + 1
            e == [name |-> d, type |-> "buffer", owner |-> None, base |-> BufferBase[d], len |-> BufferLen[d]]
<1>1. /\ stage = "resources" /\ devices # <<>> /\ parts = <<>> /\ parts' = parts /\ entry = Len(mmap)
      /\ R!Register(d, "buffer", BufferBase[d], BufferLen[d])
      /\ stage' \in {"resources", "zones"}
      /\ mmap' = mmap /\ entry' = entry /\ zones' = zones
  BY DEF RegisterDevice
<1>2. d \in Buffer /\ Len(storage) \in Nat /\ storage \in Seq(Record)
  BY <1>1, BootFacts, RestOf DEF Inv, Sources
<1>3. BufferBase[d] \in Int /\ BufferLen[d] \in Int /\ d # "memory"
  BY <1>2, BufferAssumption
<1>4. e.name = d /\ e.owner = None
  OBVIOUS
<1>5. \/ fault' = "resources_get_new" /\ storage' = storage
      \/ /\ Len(storage') = N /\ fault' = fault
         /\ \A r \in 1 .. Len(storage) : storage'[r] = storage[r]
         /\ storage'[N] = e
  BY <1>1, <1>2, <1>3, StorageGrows
<1>. HIDE DEF d, e
<1>6. CASE fault' = "resources_get_new" /\ storage' = storage
  <2>1. R!Resource' = R!Resource
    BY <1>6 DEF R!Resource
  <2>2. MemoryRegistered'
    BY Zenon, <1>1, <1>6, <2>1 DEF MemoryRegistered
  <2>3. ZonesClaimed'
    BY Zenon, <1>1, <1>6, <2>1 DEF ZonesClaimed
  <2>. QED
    BY <2>2, <2>3
<1>7. CASE /\ Len(storage') = N /\ fault' = fault
           /\ \A r \in 1 .. Len(storage) : storage'[r] = storage[r]
           /\ storage'[N] = e
  <2>1. N \in Nat /\ R!Resource = 1 .. Len(storage) /\ R!Resource' = 1 .. Len(storage) \cup {N}
    BY <1>2, <1>7 DEF R!Resource
  <2>2. \A r \in R!Resource' : storage'[r].name = "memory" => r \in R!Resource /\ storage'[r] = storage[r]
    BY <1>3, <1>4, <1>7, <2>1
  <2>3. \A r \in R!Resource : r \in R!Resource' /\ storage'[r] = storage[r]
    BY <1>7, <2>1
  <2>4. \A r \in R!Resource' : storage'[r].name = "memory" =>
          \E i \in 1 .. entry : \E run \in Runs(mmap[i]) : IsFor(storage'[r], run)
    BY Zenon, <2>2 DEF MemoryRegistered
  <2>5. \A i \in 1 .. entry : \A run \in Runs(mmap[i]) :
          \/ i = entry /\ \E p \in ToSet(parts) : M!LongEnough(p) /\ RunOf(p) = run
          \/ \E r \in R!Resource' : IsFor(storage'[r], run)
    <3>1. \A i \in 1 .. entry : \A run \in Runs(mmap[i]) :
            \/ i = entry /\ \E p \in ToSet(parts) : M!LongEnough(p) /\ RunOf(p) = run
            \/ \E r \in R!Resource : IsFor(storage[r], run)
      BY DEF MemoryRegistered
    <3>. QED
      BY Zenon, <2>3, <3>1
  <2>6. MemoryRegistered'
    BY Zenon, <1>1, <2>4, <2>5 DEF MemoryRegistered
  <2>7. ZonesClaimed'
    <3>1. /\ Len(storage') \in Nat /\ Len(storage') >= Len(storage)
          /\ fault' # "zone without a page"
      BY <1>2, <1>7
    <3>2. \A r \in 1 .. Len(storage') : r \in 1 .. Len(storage) \/ storage'[r].owner = None
      BY <1>2, <1>4, <1>7
    <3>. QED
      BY Zenon, <1>1, <1>7, <3>1, <3>2, ZonesStay
  <2>. QED
    BY <2>6, <2>7
<1>. QED
  BY <1>5, <1>6, <1>7

\* The records of the resources are the same but for their owners.
SameRecords ==
  /\ Len(storage') = Len(storage)
  /\ \A s \in R!Resource :
       /\ storage'[s].name = storage[s].name /\ storage'[s].type = storage[s].type
       /\ storage'[s].base = storage[s].base /\ storage'[s].len = storage[s].len

LEMMA RegisteredStays ==
  ASSUME MemoryRegistered, SameRecords, UNCHANGED <<mmap, entry, parts>>, stage # "resources",
         fault = "none"
  PROVE  MemoryRegistered'
<1>1. R!Resource' = R!Resource
  BY DEF SameRecords, R!Resource
<1>2. \A r \in R!Resource : storage'[r].name = storage[r].name
  BY DEF SameRecords
<1>3. \A r \in R!Resource : \A run : IsFor(storage'[r], run) <=> IsFor(storage[r], run)
  BY DEF SameRecords, IsFor
<1>4. parts = <<>> /\ entry = Len(mmap) /\ fault # "resources_get_new"
  BY DEF MemoryRegistered
<1>5. \A r \in R!Resource : storage'[r].name = "memory" =>
        \E i \in 1 .. entry : \E run \in Runs(mmap[i]) : IsFor(storage'[r], run)
  <2>1. \A r \in R!Resource : storage[r].name = "memory" =>
          \E i \in 1 .. entry : \E run \in Runs(mmap[i]) : IsFor(storage[r], run)
    BY DEF MemoryRegistered
  <2>. QED
    BY Zenon, <1>2, <1>3, <2>1
<1>6. \A i \in 1 .. entry : \A run \in Runs(mmap[i]) :
         \/ i = entry /\ \E p \in ToSet(parts) : M!LongEnough(p) /\ RunOf(p) = run
         \/ \E r \in R!Resource : IsFor(storage'[r], run)
  <2>1. \A i \in 1 .. entry : \A run \in Runs(mmap[i]) :
           \/ i = entry /\ \E p \in ToSet(parts) : M!LongEnough(p) /\ RunOf(p) = run
           \/ \E r \in R!Resource : IsFor(storage[r], run)
    BY <1>4 DEF MemoryRegistered
  <2>. QED
    BY Zenon, <1>3, <2>1
<1>7. \A p \in ToSet(parts) : M!LongEnough(p) => entry # 0 /\ RunOf(p) \in Runs(mmap[entry])
  BY DEF MemoryRegistered
<1>. QED
  BY Zenon, <1>1, <1>4, <1>5, <1>6, <1>7 DEF MemoryRegistered

LEMMA ZonesStayClaimed ==
  ASSUME ZonesClaimed, SameRecords, zones' = zones, fault' # "zone without a page",
         \A r \in R!Resource : storage[r].name = "memory" => storage'[r].owner = storage[r].owner,
         stage' \notin {"resources", "zones"} => stage \notin {"resources", "zones"}
  PROVE  ZonesClaimed'
<1>1. R!Resource' = R!Resource
  BY DEF SameRecords, R!Resource
<1>2. \A r \in R!Resource : storage'[r].name = storage[r].name /\ ZoneOf(storage'[r]) = ZoneOf(storage[r])
  <2>1. ASSUME NEW r \in R!Resource
        PROVE  storage'[r].base = storage[r].base /\ storage'[r].len = storage[r].len
    BY DEF SameRecords
  <2>2. \A s, t : s.base = t.base /\ s.len = t.len => ZoneOf(s) = ZoneOf(t)
    BY DEF ZoneOf
  <2>3. \A r \in R!Resource : storage'[r].name = storage[r].name
    BY Zenon DEF SameRecords
  <2>. QED
    BY Zenon, <2>1, <2>2, <2>3
<1>3. \A z \in zones : \E r \in R!Resource : storage'[r].name = "memory" /\ z = ZoneOf(storage'[r])
  <2>1. ASSUME NEW z \in zones
        PROVE  \E r \in R!Resource : storage'[r].name = "memory" /\ z = ZoneOf(storage'[r])
    <3>1. PICK r \in R!Resource : storage[r].name = "memory" /\ z = ZoneOf(storage[r])
      BY Zenon DEF ZonesClaimed
    <3>2. storage'[r].name = storage[r].name /\ ZoneOf(storage'[r]) = ZoneOf(storage[r])
      BY ZenonT(40), <1>2
    <3>. QED
      BY Zenon, <3>1, <3>2
  <2>. QED
    BY Zenon, <2>1
<1>4. \A r \in R!Resource : storage'[r].name = "memory" /\ storage'[r].owner # None => ZoneOf(storage'[r]) \in zones
  BY Zenon, <1>2 DEF ZonesClaimed
<1>5. stage' \notin {"resources", "zones"} =>
        \A r \in R!Resource : storage'[r].name = "memory" => storage'[r].owner # None
  BY Zenon, <1>2 DEF ZonesClaimed
<1>. QED
  BY Zenon, <1>1, <1>3, <1>4, <1>5 DEF ZonesClaimed

\* register_zone_for_mem adds the zone of the resource that it claims.
LEMMA RegisterZoneZones ==
  ASSUME Inv, MemoryRegistered, ZonesClaimed, fault = "none", NEW r \in R!Resource, RegisterZone(r)
  PROVE  MemoryRegistered' /\ ZonesClaimed'
<1>. DEFINE zone == ZoneOf(storage[r])
<1>1. /\ stage = "zones" /\ stage' = "zones" /\ R!Claim(R!Named("memory"), Kernel, r)
      /\ zones' = zones \cup {zone}
      /\ fault' = IF zone[2] = 0 THEN "zone without a page" ELSE R!ClaimFault(r)
      /\ UNCHANGED <<mmap, entry, parts>>
  BY DEF RegisterZone, bootVars, ZoneOf
<1>2. r \in R!Named("memory") /\ R!ClaimFault(r) = "none"
  BY <1>1, ClaimIs DEF Inv
<1>3. storage[r].name = "memory"
  BY <1>2 DEF R!Named
<1>4. /\ Len(storage') = Len(storage)
      /\ \A s \in R!Resource :
           /\ storage'[s].name = storage[s].name /\ storage'[s].type = storage[s].type
           /\ storage'[s].base = storage[s].base /\ storage'[s].len = storage[s].len
           /\ storage'[s].owner = IF s = r THEN Kernel ELSE storage[s].owner
  <2>1. storage \in Seq(Record)
    BY BootFacts
  <2>. QED
    <3>1. OwnerSet(r, Kernel)
      BY Zenon, <1>1, <2>1, OwnerIsSet
    <3>. QED
      BY Zenon, <3>1 DEF OwnerSet
<1>5. SameRecords
  BY <1>4 DEF SameRecords
<1>6. MemoryRegistered'
  BY <1>1, <1>5, RegisteredStays
<1>7. R!Resource' = R!Resource
  BY <1>4 DEF R!Resource
<1>8. \A s \in R!Resource : /\ storage'[s].name = storage[s].name /\ ZoneOf(storage'[s]) = ZoneOf(storage[s])
                            /\ s # r => storage'[s].owner = storage[s].owner
  BY Zenon, <1>4 DEF ZoneOf
<1>. HIDE DEF zone
<1>9. \A z \in zones' : \E s \in R!Resource : storage'[s].name = "memory" /\ z = ZoneOf(storage'[s])
  <2>1. ASSUME NEW z \in zones
        PROVE  \E s \in R!Resource : storage'[s].name = "memory" /\ z = ZoneOf(storage'[s])
    <3>1. PICK s \in R!Resource : storage[s].name = "memory" /\ z = ZoneOf(storage[s])
      BY Zenon DEF ZonesClaimed
    <3>2. storage'[s].name = storage[s].name /\ ZoneOf(storage'[s]) = ZoneOf(storage[s])
      BY Zenon, <1>8
    <3>. QED
      BY Zenon, <3>1, <3>2
  <2>2. storage'[r].name = "memory" /\ zone = ZoneOf(storage'[r])
    BY Zenon, <1>3, <1>8 DEF zone
  <2>3. \A z \in zones' : z \in zones \/ z = zone
    BY Zenon, <1>1
  <2>. QED
    BY Zenon, <2>1, <2>2, <2>3
<1>10. \A s \in R!Resource : storage'[s].name = "memory" /\ storage'[s].owner # None => ZoneOf(storage'[s]) \in zones'
  <2>1. zone \in zones' /\ zones \subseteq zones'
    BY Zenon, <1>1
  <2>. QED
    BY Zenon, <1>8, <2>1 DEF ZonesClaimed, zone
<1>11. fault' = "zone without a page" => \E z \in zones' : z[2] = 0
  <2>1. fault' = "zone without a page" => zone[2] = 0
    BY <1>1, <1>2
  <2>2. zone \in zones'
    BY Zenon, <1>1
  <2>. QED
    BY Zenon, <2>1, <2>2
<1>12. ZonesClaimed'
  BY Zenon, <1>1, <1>7, <1>9, <1>10, <1>11 DEF ZonesClaimed
<1>. QED
  BY <1>6, <1>12

\* No memory resource is free any more when register_mem_zones ends.
LEMMA ZonesDoneZones ==
  ASSUME Inv, MemoryRegistered, ZonesClaimed, fault = "none", ZonesDone
  PROVE  MemoryRegistered' /\ ZonesClaimed'
<1>1. /\ stage = "zones" /\ stage' = "modules" /\ R!NotFound(R!Named("memory"))
      /\ storage' = storage /\ zones' = zones /\ fault' = fault /\ UNCHANGED <<mmap, entry, parts>>
  BY DEF ZonesDone, bootVars, resVars
<1>2. SameRecords /\ R!Resource' = R!Resource
  BY <1>1 DEF SameRecords, R!Resource
<1>3. MemoryRegistered'
  BY <1>1, <1>2, RegisteredStays
<1>4. \A s \in R!Resource : storage[s].name = "memory" => storage[s].owner # None
  BY <1>1, SameOperators DEF R!NotFound, R!Named, Inv, ResourceLists
<1>5. ZonesClaimed'
  BY Zenon, <1>1, <1>2, <1>4 DEF ZonesClaimed
<1>. QED
  BY <1>3, <1>5

\* Nothing that modules and drivers do has to do with memory resources.
LEMMA LaterZones ==
  ASSUME Inv, MemoryRegistered, ZonesClaimed, fault = "none",
         stage \notin {"resources", "zones"},
         UNCHANGED <<mmap, entry, parts, storage, zones>>, fault' # "zone without a page"
  PROVE  MemoryRegistered' /\ ZonesClaimed'
<1>1. SameRecords
  BY DEF SameRecords
<1>2. MemoryRegistered'
  BY <1>1, RegisteredStays
<1>3. ZonesClaimed'
  BY <1>1, ZonesStayClaimed
<1>. QED
  BY <1>2, <1>3

LEMMA OtherClaimZones ==
  ASSUME Inv, MemoryRegistered, ZonesClaimed, fault = "none",
         stage \notin {"resources", "zones"}, UNCHANGED <<mmap, entry, parts, zones>>,
         NEW wanted, NEW owner \in {Kernel, "driver"}, NEW r \in R!Resource,
         R!Claim(wanted, owner, r), \A s \in R!Resource : s \in wanted => storage[s].name # "memory",
         fault' = R!ClaimFault(r)
  PROVE  MemoryRegistered' /\ ZonesClaimed'
<1>1. r \in wanted /\ R!ClaimFault(r) = "none"
  BY ClaimIs DEF Inv
<1>2. OwnerSet(r, owner)
  <2>1. storage \in Seq(Record)
    BY Zenon, BootFacts
  <2>. QED
    BY Zenon, <2>1, OwnerIsSet
<1>3. SameRecords
  BY Zenon, <1>2 DEF SameRecords, OwnerSet
<1>4. MemoryRegistered'
  BY Zenon, <1>3, RegisteredStays
<1>5. \A s \in R!Resource : storage[s].name = "memory" => storage'[s].owner = storage[s].owner
  BY Zenon, <1>1, <1>2 DEF OwnerSet
<1>6. fault' # "zone without a page"
  BY <1>1
<1>7. ZonesClaimed'
  BY Zenon, <1>3, <1>5, <1>6, ZonesStayClaimed
<1>. QED
  BY <1>4, <1>7

LEMMA NextZones ==
  ASSUME Inv, AllWellPlaced, MemoryRegistered, ZonesClaimed, [Next]_vars
  PROVE  MemoryRegistered' /\ ZonesClaimed'
<1>1. CASE UNCHANGED vars
  <2>1. /\ UNCHANGED <<mmap, entry, parts, zones, stage, fault>> /\ storage' = storage
    BY Zenon, <1>1 DEF vars, bootVars, resVars
  <2>2. R!Resource' = R!Resource
    BY Zenon, <2>1 DEF R!Resource
  <2>3. MemoryRegistered'
    BY Zenon, <2>1, <2>2 DEF MemoryRegistered
  <2>4. ZonesClaimed'
    BY Zenon, <2>1, <2>2 DEF ZonesClaimed
  <2>. QED
    BY <2>3, <2>4
<1>2. CASE Next
  <2>1. fault = "none"
    BY <1>2 DEF Next
  <2>2. CASE NextEntry
    BY <2>1, <2>2, NextEntryZones
  <2>3. CASE RegisterMemory
    BY <2>1, <2>3, RegisterMemoryZones
  <2>4. CASE RegisterDevice
    BY <2>1, <2>4, RegisterDeviceZones
  <2>5. CASE ZonesDone
    BY <2>1, <2>5, ZonesDoneZones
  <2>6. CASE LoadModule
    <3>1. /\ stage = "modules" /\ UNCHANGED <<mmap, entry, parts, storage, zones>> /\ fault' = fault
      BY <2>6 DEF LoadModule, bootVars, resVars
    <3>. QED
      BY <2>1, <3>1, LaterZones
  <2>7. CASE LoadVideoMap
    <3>1. /\ stage = "video claimed" /\ UNCHANGED <<mmap, entry, parts, storage, zones>>
      BY <2>7 DEF LoadVideoMap, bootVars, resVars
    <3>2. fault' \in {"none", "region is NULL", "endless list", "vm_arch_pt_map"}
      BY <2>1, <2>7, LoadVideoMapIs
    <3>. QED
      BY <2>1, <3>1, <3>2, LaterZones
  <2>8. CASE ModulesLoaded
    <3>1. /\ stage = "modules" /\ UNCHANGED <<mmap, entry, parts, storage, zones>> /\ fault' = fault
      BY <2>8 DEF ModulesLoaded, bootVars, resVars
    <3>. QED
      BY <2>1, <3>1, LaterZones
  <2>9. ASSUME NEW r \in R!Resource, RegisterZone(r)
        PROVE  MemoryRegistered' /\ ZonesClaimed'
    BY <2>1, <2>9, RegisterZoneZones
  <2>10. ASSUME NEW r \in R!Resource, LoadVideo(r)
         PROVE  MemoryRegistered' /\ ZonesClaimed'
    <3>1. /\ stage = "modules" /\ UNCHANGED <<mmap, entry, parts, zones>>
          /\ R!Claim(R!Named("video"), Kernel, r) /\ fault' = R!ClaimFault(r)
      BY <2>10 DEF LoadVideo, bootVars
    <3>2. \A s \in R!Resource : s \in R!Named("video") => storage[s].name # "memory"
      BY DEF R!Named
    <3>. QED
      BY <2>1, <3>1, <3>2, OtherClaimZones
  <2>11. ASSUME NEW r \in R!Resource, DriverClaim(r)
         PROVE  MemoryRegistered' /\ ZonesClaimed'
    <3>1. /\ stage = "running" /\ UNCHANGED <<mmap, entry, parts, zones>> /\ fault' = R!ClaimFault(r)
          /\ \/ \E b \in Buffer : R!Claim(R!Named(b), "driver", r)
             \/ R!Claim(R!Typed("buffer"), "driver", r)
      BY <2>11 DEF DriverClaim, bootVars
    <3>2. ASSUME NEW b \in Buffer, R!Claim(R!Named(b), "driver", r)
          PROVE  MemoryRegistered' /\ ZonesClaimed'
      <4>1. \A s \in R!Resource : s \in R!Named(b) => storage[s].name # "memory"
        BY BufferAssumption DEF R!Named
      <4>. QED
        BY <2>1, <3>1, <3>2, <4>1, OtherClaimZones
    <3>3. CASE R!Claim(R!Typed("buffer"), "driver", r)
      <4>1. \A s \in R!Resource : s \in R!Typed("buffer") => storage[s].name # "memory"
        BY DEF R!Typed, MemoryRegistered, IsFor
      <4>. QED
        BY <2>1, <3>1, <3>3, <4>1, OtherClaimZones
    <3>. QED
      BY <3>1, <3>2, <3>3
  <2>12. ASSUME NEW b \in Buffer, DriverMap(b) \/ DriverUnregister(b) \/ DriverUnmap(b)
         PROVE  MemoryRegistered' /\ ZonesClaimed'
    <3>1. stage = "running" /\ UNCHANGED <<mmap, entry, parts, storage, zones>>
      BY <2>12 DEF DriverMap, DriverUnregister, DriverUnmap, bootVars, resVars
    <3>2. DriverMap(b) => fault' # "zone without a page"
      BY <2>1, DriverMapIs
    <3>3. DriverUnregister(b) => fault' # "zone without a page"
      BY <2>1, DriverUnregisterIs
    <3>4. DriverUnmap(b) => fault' # "zone without a page"
      BY DEF DriverUnmap, D!Unmap, D!NotMapped, D!Endless
    <3>. QED
      BY <2>1, <2>12, <3>1, <3>2, <3>3, <3>4, LaterZones
  <2>. QED
    BY <1>2, <2>2, <2>3, <2>4, <2>5, <2>6, <2>7, <2>8, <2>9, <2>10, <2>11, <2>12 DEF Next
<1>. QED
  BY <1>1, <1>2

-----------------------------------------------------------------------------

\* The zones are disjoint and are the whole pages of all usable runs longer than a page, for
\* every memory map whose regions offer no byte twice, do not end inside of the kernel and do
\* not go over the last address.
THEOREM ZonesAreRight == Spec => []ZonesAreFreeMemory
<1>1. Init => ZInv
  BY InitZones DEF ZInv
<1>2. Inv /\ ZInv /\ [Next]_vars => ZInv'
  <2>. SUFFICES ASSUME Inv, ZInv, [Next]_vars
                PROVE  ZInv'
    OBVIOUS
  <2>1. mmap' = mmap
    <3>1. UNCHANGED vars => mmap' = mmap
      BY Zenon DEF vars, bootVars
    <3>2. Next => mmap' = mmap
      BY DEF Next, NextEntry, RegisterMemory, RegisterDevice, RegisterZone, ZonesDone, LoadModule,
             LoadVideo, LoadVideoMap, ModulesLoaded, DriverClaim, DriverMap, DriverUnregister,
             DriverUnmap, bootVars
    <3>. QED
      BY <3>1, <3>2
  <2>2. (AllWellPlaced /\ EntriesApart)' => AllWellPlaced /\ EntriesApart
    BY <2>1 DEF AllWellPlaced, EntriesApart, Entries
  <2>3. AllWellPlaced /\ EntriesApart => MemoryRegistered' /\ ZonesClaimed'
    BY NextZones DEF ZInv
  <2>. QED
    BY <2>2, <2>3 DEF ZInv
<1>3. Inv /\ ZInv => ZonesAreFreeMemory
  <2>. SUFFICES ASSUME Inv, AllWellPlaced, EntriesApart, MemoryRegistered, ZonesClaimed
                PROVE  ZonesAreFreeMemory
    BY DEF ZonesAreFreeMemory, ZInv
  <2>1. DOMAIN mmap = 1 .. Len(mmap) /\ Len(mmap) \in Nat /\ 1 .. entry \subseteq 1 .. Len(mmap)
    BY BootFacts
  <2>2. \A e : \A run \in Runs(e) :
          /\ run \in (0 .. Word) \X (0 .. Word) /\ run[1] < run[2] /\ run[2] - run[1] > PageSize
    BY DEF Runs
  \* The zone of a resource for a run
  <2>3. ASSUME NEW s, NEW e, NEW run \in Runs(e), IsFor(s, run)
        PROVE  /\ ZoneOf(s)[1] \in Nat
               /\ Span(ZoneOf(s)[1], ZoneOf(s)[2]) = PagesOf(run)
    <3>1. ZoneOf(s) = M!ZoneFor(run[1], End(run) - run[1])
      BY <2>3 DEF IsFor, ZoneOf
    <3>. QED
      BY <2>2, <3>1, ZoneIsPages
  <2>4. \A z \in zones : \E i \in DOMAIN mmap : \E run \in Runs(mmap[i]) :
          z[1] \in Nat /\ Span(z[1], z[2]) = PagesOf(run) /\ \E s : IsFor(s, run) /\ z = ZoneOf(s)
    <3>1. ASSUME NEW z \in zones
          PROVE  \E i \in DOMAIN mmap : \E run \in Runs(mmap[i]) :
                   z[1] \in Nat /\ Span(z[1], z[2]) = PagesOf(run) /\ \E s : IsFor(s, run) /\ z = ZoneOf(s)
      <4>1. PICK r \in R!Resource : storage[r].name = "memory" /\ z = ZoneOf(storage[r])
        BY Zenon DEF ZonesClaimed
      <4>2. PICK i \in 1 .. entry : \E run \in Runs(mmap[i]) : IsFor(storage[r], run)
        BY Zenon, <4>1 DEF MemoryRegistered
      <4>3. PICK run \in Runs(mmap[i]) : IsFor(storage[r], run)
        BY <4>2
      <4>4. i \in DOMAIN mmap
        BY <2>1
      <4>5. z[1] \in Nat /\ Span(z[1], z[2]) = PagesOf(run)
        BY <2>3, <4>1, <4>3
      <4>. QED
        BY Zenon, <4>1, <4>3, <4>4, <4>5
    <3>. QED
      BY Zenon, <3>1
  <2>5. ASSUME NEW y \in zones, NEW z \in zones, y # z
        PROVE  Span(y[1], y[2]) \cap Span(z[1], z[2]) = {}
    <3>i. PICK i \in DOMAIN mmap : \E run \in Runs(mmap[i]) :
            Span(y[1], y[2]) = PagesOf(run) /\ \E s : IsFor(s, run) /\ y = ZoneOf(s)
      BY Zenon, <2>4
    <3>1. PICK run \in Runs(mmap[i]) :
            Span(y[1], y[2]) = PagesOf(run) /\ \E s : IsFor(s, run) /\ y = ZoneOf(s)
      BY Zenon, <3>i
    <3>j. PICK j \in DOMAIN mmap : \E other \in Runs(mmap[j]) :
            Span(z[1], z[2]) = PagesOf(other) /\ \E s : IsFor(s, other) /\ z = ZoneOf(s)
      BY Zenon, <2>4
    <3>2. PICK other \in Runs(mmap[j]) :
            Span(z[1], z[2]) = PagesOf(other) /\ \E s : IsFor(s, other) /\ z = ZoneOf(s)
      BY Zenon, <3>j
    <3>3. run # other
      <4>1. \A s, t : IsFor(s, run) /\ IsFor(t, run) => ZoneOf(s) = ZoneOf(t)
        BY DEF IsFor, ZoneOf
      <4>. QED
        BY <2>5, <3>1, <3>2, <4>1
    <3>4. /\ PagesOf(run) \subseteq run[1] .. run[2] - 1 /\ PagesOf(run) \subseteq Usable(mmap[i])
          /\ PagesOf(other) \subseteq other[1] .. other[2] - 1 /\ PagesOf(other) \subseteq Usable(mmap[j])
      BY PagesInRun
    <3>5. CASE i = j
      <4>1. (run[1] .. run[2] - 1) \cap (other[1] .. other[2] - 1) = {}
        BY <3>3, <3>5, RunsDisjoint
      <4>. QED
        BY Zenon, <3>1, <3>2, <3>4, <4>1
    <3>6. CASE i # j
      <4>1. Usable(mmap[i]) \cap Usable(mmap[j]) = {}
        BY <3>6 DEF EntriesApart
      <4>. QED
        BY Zenon, <3>1, <3>2, <3>4, <4>1
    <3>. QED
      BY <3>5, <3>6
  <2>6. ASSUME stage = "modules"
        PROVE  UNION {Span(z[1], z[2]) : z \in zones} = UNION {PagesOf(r) : r \in UNION {Runs(e) : e \in Entries}}
    <3>1. entry = Len(mmap) /\ parts = <<>> /\ ToSet(parts) = {}
      <4>1. entry = Len(mmap) /\ parts = <<>>
        BY ZenonT(40), <2>6 DEF MemoryRegistered
      <4>. QED
        BY <4>1 DEF ToSet
    <3>2. \A i \in DOMAIN mmap : \A run \in Runs(mmap[i]) : \E r \in R!Resource : IsFor(storage[r], run)
      BY <2>1, <2>6, <3>1 DEF MemoryRegistered
    <3>3. ASSUME NEW i \in DOMAIN mmap, NEW run \in Runs(mmap[i])
          PROVE  \E z \in zones : Span(z[1], z[2]) = PagesOf(run)
      <4>1. PICK r \in R!Resource : IsFor(storage[r], run)
        BY <3>2
      <4>2. storage[r].name = "memory" /\ storage[r].owner # None
        BY <2>6, <4>1 DEF IsFor, ZonesClaimed
      <4>3. ZoneOf(storage[r]) \in zones
        BY Zenon, <4>2 DEF ZonesClaimed
      <4>4. Span(ZoneOf(storage[r])[1], ZoneOf(storage[r])[2]) = PagesOf(run)
        BY <2>3, <4>1
      <4>. QED
        BY Zenon, <4>3, <4>4
    <3>4. ASSUME NEW x, NEW i \in DOMAIN mmap, NEW run \in Runs(mmap[i]), x \in PagesOf(run)
          PROVE  \E z \in zones : x \in Span(z[1], z[2])
      BY Zenon, <3>3, <3>4
    <3>5. ASSUME NEW x, NEW z \in zones, x \in Span(z[1], z[2])
          PROVE  \E i \in DOMAIN mmap : \E run \in Runs(mmap[i]) : x \in PagesOf(run)
      BY Zenon, <2>4, <3>5
    <3>6. \A x : x \in UNION {Span(z[1], z[2]) : z \in zones} <=> \E z \in zones : x \in Span(z[1], z[2])
      BY Zenon
    <3>7. \A x : x \in UNION {PagesOf(r) : r \in UNION {Runs(e) : e \in Entries}}
                <=> \E i \in DOMAIN mmap : \E run \in Runs(mmap[i]) : x \in PagesOf(run)
      BY DEF Entries
    <3>. QED
      BY Zenon, <3>4, <3>5, <3>6, <3>7
  <2>7. ASSUME fault = "zone without a page"
        PROVE  \E e \in Entries : \E r \in Runs(e) : PagesOf(r) = {}
    <3>1. PICK z \in zones : z[2] = 0
      BY <2>7 DEF ZonesClaimed
    <3>i. PICK i \in DOMAIN mmap : \E run \in Runs(mmap[i]) : Span(z[1], z[2]) = PagesOf(run)
      BY Zenon, <2>4
    <3>2. PICK run \in Runs(mmap[i]) : Span(z[1], z[2]) = PagesOf(run)
      BY Zenon, <3>i
    <3>3. Span(z[1], z[2]) = {}
      <4>1. z[1] \in Nat
        BY <2>4
      <4>. QED
        BY <3>1, <4>1 DEF Span
    <3>4. mmap[i] \in Entries
      BY DEF Entries
    <3>. QED
      BY Zenon, <3>2, <3>3, <3>4
  <2>. QED
    BY <2>5, <2>6, <2>7 DEF ZonesAreFreeMemory
<1>. QED
  <2>1. []Inv /\ Init /\ [][Next]_vars => []ZInv
    BY <1>1, <1>2, PTL
  <2>. QED
    BY <1>3, <2>1, InvHolds, PTL DEF Spec
===============================================================================
