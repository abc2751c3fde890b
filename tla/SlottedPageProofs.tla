------------------------- MODULE SlottedPageProofs -------------------------
(***************************************************************************)
(* Theorems about SlottedPage, for every size of the page, of its parts    *)
(* and of the records: no two records overlap, each reads back what was    *)
(* written, compaction slides every record to its place unharmed, and a    *)
(* page with a deleted slot turns away only what does not fit.  The first  *)
(* two end where a length has wrapped in 16 bits ("wrapped"): from there   *)
(* on the code writes past the page, and the model stops.                  *)
(*                                                                         *)
(* Compaction is a loop: its turns are unfolded (SlidTurns), and each one  *)
(* copies only bytes no later turn reads (SlidLoop).  The closed form of   *)
(* its result is a sum over a set (BytesOf), whose laws come first.        *)
(***************************************************************************)
EXTENDS SlottedPage, FiniteSetTheorems, SequenceTheorems, TLAPS

-----------------------------------------------------------------------------
(* Numbers.                                                                 *)
NatLess == {ss \in Nat \X Nat : ss[1] < ss[2]}

LEMMA NatLessWellFounded == IsWellFoundedOn(NatLess, Nat)
  BY NatLessThanWellFounded DEF OpToRel, NatLess

LEMMA LeastOf ==
  ASSUME NEW S \in SUBSET Nat, S # {}
  PROVE  \E m \in S : \A i \in S : m <= i
<1>1. PICK m \in S : \A i \in S : ~ (<<i, m>> \in NatLess)
  BY NatLessWellFounded, WFMin, Zenon
<1>2. ASSUME NEW i \in S PROVE m <= i
  <2>1. <<i, m>> \in Nat \X Nat /\ <<i, m>>[1] = i /\ <<i, m>>[2] = m
    OBVIOUS
  <2>2. ~ (i < m)
    BY <1>1, <2>1 DEF NatLess
  <2> QED BY <2>2
<1> QED BY <1>2

LEMMA GreatestOf ==
  ASSUME NEW n \in Nat, NEW S \in SUBSET (1..n), S # {}
  PROVE  Max(S) \in S /\ \A i \in S : Max(S) >= i
<1> DEFINE T == {n - i : i \in S}
<1>1. T \in SUBSET Nat /\ T # {}
  <2>1. \A i \in S : n - i \in Nat
    OBVIOUS
  <2> QED BY <2>1
<1>2. PICK t \in T : \A i \in T : t <= i
  BY <1>1, LeastOf
<1>3. PICK m \in S : t = n - m
  OBVIOUS
<1>4. ASSUME NEW i \in S PROVE m >= i
  <2>1. n - i \in T
    OBVIOUS
  <2>2. n - m <= n - i
    BY <1>2, <1>3, <2>1
  <2> QED BY <2>2
<1> QED BY <1>3, <1>4 DEF Max

\* The greatest of the numbers from 1 to n, and what is left without it.
LEMMA Upto ==
  ASSUME NEW n \in Nat, n # 0
  PROVE  Max(1..n) = n /\ (1..n) \ {n} = 1..(n - 1) /\ 1..n # {}
<1>1. n \in 1..n /\ \A i \in 1..n : n >= i
  OBVIOUS
<1>2. Max(1..n) \in 1..n /\ \A i \in 1..n : Max(1..n) >= i
  BY <1>1, GreatestOf
<1> QED BY <1>1, <1>2

\* One induction for the loops: a set of numbers with 0 and each next one.
LEMMA Upward ==
  ASSUME NEW n \in Nat, NEW S, 0 \in S, \A i \in 1..n : i - 1 \in S => i \in S
  PROVE  n \in S
<1> DEFINE T == {i \in 0..n : i \notin S}
<1> SUFFICES ASSUME T # {} PROVE FALSE
  OBVIOUS
<1>1. PICK m \in T : \A i \in T : m <= i
  <2>1. T \in SUBSET Nat
    OBVIOUS
  <2> QED BY <2>1, LeastOf
<1>2. m # 0
  BY <1>1
<1>3. m \in 1..n /\ m - 1 \in 0..n /\ m - 1 < m
  BY <1>1, <1>2
<1>4. m - 1 \in S
  BY <1>1, <1>3
<1> QED BY <1>1, <1>3, <1>4

-----------------------------------------------------------------------------
(* The sum of the sizes of some slots, element by element.                  *)
SumSolves(g, pg, S) ==
  g = [t \in SUBSET S |->
        IF t = {} THEN 0
        ELSE pg.slots[CHOOSE x \in t : TRUE].size + g[t \ {CHOOSE x \in t : TRUE}]]

LEMMA SumAgree ==
  ASSUME NEW pg, NEW S, NEW T, NEW g, NEW h, SumSolves(g, pg, S), SumSolves(h, pg, T),
         NEW u, u \in SUBSET S, u \in SUBSET T, IsFiniteSet(u)
  PROVE  g[u] = h[u]
<1> DEFINE Bad(v) == v \in SUBSET S /\ v \in SUBSET T /\ IsFiniteSet(v) /\ g[v] # h[v]
           B == {n \in Nat : \E v : Bad(v) /\ Cardinality(v) = n}
<1> SUFFICES ASSUME g[u] # h[u] PROVE FALSE
  OBVIOUS
<1>1. Cardinality(u) \in B
  BY FS_CardinalityType
<1>2. PICK n \in B : \A i \in B : n <= i
  <2>1. B \in SUBSET Nat /\ B # {}
    BY <1>1
  <2> HIDE DEF B
  <2> QED BY <2>1, LeastOf
<1>3. PICK v : Bad(v) /\ Cardinality(v) = n
  BY <1>2
<1> DEFINE x == CHOOSE x \in v : TRUE
<1>4. CASE v = {}
  <2>1. g[{}] = 0 /\ h[{}] = 0
    BY DEF SumSolves
  <2> QED BY <1>3, <1>4, <2>1
<1>5. CASE v # {}
  <2>1. x \in v
    BY <1>5
  <2>2. g[v] = pg.slots[x].size + g[v \ {x}] /\ h[v] = pg.slots[x].size + h[v \ {x}]
    BY <1>3, <1>5 DEF SumSolves
  <2> HIDE DEF x
  <2>3. IsFiniteSet(v \ {x}) /\ Cardinality(v \ {x}) = n - 1 /\ Cardinality(v \ {x}) \in Nat
    BY <1>3, <2>1, FS_RemoveElement, FS_CardinalityType
  <2>4. Bad(v \ {x})
    BY <1>3, <2>2, <2>3
  <2>5. n - 1 \in B
    BY <2>3, <2>4
  <2>6. n \in Nat /\ n <= n - 1
    BY <1>2, <2>5
  <2> QED BY <2>6
<1> QED BY <1>4, <1>5

LEMMA SumExists ==
  ASSUME NEW pg, NEW S, IsFiniteSet(S)
  PROVE  \E g : SumSolves(g, pg, S)
<1> DEFINE Bad(v) == IsFiniteSet(v) /\ ~ \E g : SumSolves(g, pg, v)
           B == {n \in Nat : \E v : Bad(v) /\ Cardinality(v) = n}
<1> SUFFICES ASSUME Bad(S) PROVE FALSE
  OBVIOUS
<1>1. Cardinality(S) \in B
  BY FS_CardinalityType
<1>2. PICK n \in B : \A i \in B : n <= i
  <2>1. B \in SUBSET Nat /\ B # {}
    BY <1>1
  <2> HIDE DEF B
  <2> QED BY <2>1, LeastOf
<1>3. PICK v : Bad(v) /\ Cardinality(v) = n
  BY <1>2
<1> DEFINE one(t) == CHOOSE x \in t : TRUE
           sol(t) == CHOOSE g : SumSolves(g, pg, t)
           f == [t \in SUBSET v |-> IF t = {} THEN 0
                                    ELSE pg.slots[one(t)].size + sol(t \ {one(t)})[t \ {one(t)}]]
\* Smaller sets have a solution.
<1>4. ASSUME NEW t, t \in SUBSET v, t # v PROVE IsFiniteSet(t) /\ SumSolves(sol(t), pg, t)
  <2>1. IsFiniteSet(t) /\ Cardinality(t) <= n /\ Cardinality(t) # n /\ Cardinality(t) \in Nat
    BY <1>3, <1>4, FS_Subset, FS_CardinalityType
  <2>2. ~ (n <= Cardinality(t))
    BY <1>2, <2>1
  <2>3. Cardinality(t) \notin B
    BY <1>2, <2>2
  <2>4. \E g : SumSolves(g, pg, t)
    BY <2>1, <2>3
  <2> QED BY <2>1, <2>4
<1>5. ASSUME NEW t, t \in SUBSET v, t # {}
      PROVE  f[t] = pg.slots[one(t)].size + f[t \ {one(t)}]
  <2> DEFINE u == t \ {one(t)}
  <2>1. one(t) \in t
    BY <1>5
  <2>2. u \in SUBSET v /\ u # v
    BY <1>5, <2>1
  <2>3. f[t] = pg.slots[one(t)].size + sol(u)[u]
    BY <1>5
  <2>4. f[u] = sol(u)[u]
    <3>1. SumSolves(sol(u), pg, u) /\ u \in SUBSET u
      BY <1>4, <2>2
    <3>2. CASE u = {}
      <4>1. sol(u)[u] = 0
        <5> HIDE DEF sol, u
        <5> QED BY <3>1, <3>2 DEF SumSolves
      <4> HIDE DEF u, sol
      <4> QED BY <2>2, <3>2, <4>1
    <3>3. CASE u # {}
      <4> DEFINE w == u \ {one(u)}
      <4>1. one(u) \in u
        BY <3>3
      <4>2. w \in SUBSET v /\ w # v /\ w \in SUBSET u /\ w \in SUBSET w
        BY <2>2, <4>1
      <4>3. SumSolves(sol(w), pg, w) /\ IsFiniteSet(w)
        BY <1>4, <4>2
      <4>4. sol(u)[u] = pg.slots[one(u)].size + sol(u)[w]
        <5> HIDE DEF sol, u
        <5> QED BY <3>1, <3>3 DEF SumSolves
      <4>5. sol(u)[w] = sol(w)[w]
        <5> HIDE DEF sol, u, w
        <5> QED BY <3>1, <4>2, <4>3, SumAgree
      <4>6. f[u] = pg.slots[one(u)].size + sol(w)[w]
        <5> HIDE DEF u, one, sol
        <5> QED BY <2>2, <3>3
      <4> HIDE DEF f, u, w, sol
      <4> QED BY <4>4, <4>5, <4>6
    <3> QED BY <3>2, <3>3
  <2> HIDE DEF f, sol
  <2> QED BY <2>3, <2>4
<1>6. SumSolves(f, pg, v)
  <2>1. f = [t \in SUBSET v |-> IF t = {} THEN 0 ELSE pg.slots[one(t)].size + f[t \ {one(t)}]]
    <3>1. f[{}] = 0 /\ f = [t \in SUBSET v |-> f[t]]
      OBVIOUS
    <3> HIDE DEF f, one
    <3> QED BY <1>5, <3>1
  <2> HIDE DEF f
  <2> QED BY <2>1 DEF SumSolves
<1> QED BY <1>3, <1>6

LEMMA BytesIs ==
  ASSUME NEW pg, NEW S, NEW g, IsFiniteSet(S), SumSolves(g, pg, S)
  PROVE  BytesOf(pg, S) = g[S]
<1>1. ASSUME NEW h, SumSolves(h, pg, S) PROVE h[S] = g[S]
  BY <1>1, SumAgree
<1>2. \A h : h = [t \in SUBSET S |->
                  IF t = {} THEN 0
                  ELSE pg.slots[CHOOSE x \in t : TRUE].size + h[t \ {CHOOSE x \in t : TRUE}]]
             => h[S] = g[S]
  BY <1>1 DEF SumSolves
<1>3. \E h : h = [t \in SUBSET S |->
                  IF t = {} THEN 0
                  ELSE pg.slots[CHOOSE x \in t : TRUE].size + h[t \ {CHOOSE x \in t : TRUE}]]
  BY DEF SumSolves
<1> QED BY <1>2, <1>3 DEF BytesOf, MapThenSumSet, MapThenFoldSet

\* Of no slot, and one slot taken out: whichever slot that is.
LEMMA BytesEmpty ==
  ASSUME NEW pg
  PROVE  BytesOf(pg, {}) = 0
<1>1. PICK g : SumSolves(g, pg, {})
  BY SumExists, FS_EmptySet
<1>2. g[{}] = 0
  BY <1>1 DEF SumSolves
<1> QED BY <1>1, <1>2, BytesIs, FS_EmptySet

LEMMA BytesChosen ==
  ASSUME NEW pg, NEW S, IsFiniteSet(S), S # {}
  PROVE  LET x == CHOOSE x \in S : TRUE
         IN  x \in S /\ BytesOf(pg, S) = pg.slots[x].size + BytesOf(pg, S \ {x})
<1> DEFINE x == CHOOSE x \in S : TRUE
           u == S \ {x}
<1>1. PICK g : SumSolves(g, pg, S)
  BY SumExists
<1>2. g[S] = pg.slots[x].size + g[u] /\ x \in S
  BY <1>1 DEF SumSolves
<1> HIDE DEF x
<1>3. IsFiniteSet(u)
  BY FS_RemoveElement
<1>4. PICK h : SumSolves(h, pg, u)
  BY <1>3, SumExists
<1>5. g[u] = h[u]
  <2>1. u \in SUBSET S /\ u \in SUBSET u
    OBVIOUS
  <2> QED BY <1>1, <1>3, <1>4, <2>1, SumAgree
<1>6. BytesOf(pg, S) = g[S] /\ BytesOf(pg, u) = h[u]
  BY <1>1, <1>3, <1>4, BytesIs
<1> QED BY <1>2, <1>5, <1>6 DEF x

LEMMA BytesTake ==
  ASSUME NEW pg, NEW S, IsFiniteSet(S), \A i \in S : pg.slots[i].size \in Nat
  PROVE  /\ BytesOf(pg, S) \in Nat
         /\ \A x \in S : BytesOf(pg, S) = pg.slots[x].size + BytesOf(pg, S \ {x})
<1> DEFINE Good(v) == /\ BytesOf(pg, v) \in Nat
                      /\ \A x \in v : BytesOf(pg, v) = pg.slots[x].size + BytesOf(pg, v \ {x})
           Bad(v)  == IsFiniteSet(v) /\ v \in SUBSET S /\ ~ Good(v)
           B == {n \in Nat : \E v : Bad(v) /\ Cardinality(v) = n}
<1> SUFFICES ASSUME ~ Good(S) PROVE FALSE
  OBVIOUS
<1>1. Cardinality(S) \in B
  BY FS_CardinalityType
<1>2. PICK n \in B : \A i \in B : n <= i
  <2>1. B \in SUBSET Nat /\ B # {}
    BY <1>1
  <2> HIDE DEF B
  <2> QED BY <2>1, LeastOf
<1>3. PICK v : Bad(v) /\ Cardinality(v) = n
  BY <1>2
<1> HIDE DEF Good
<1>4. ASSUME NEW y, y \in v PROVE Good(v \ {y}) /\ IsFiniteSet(v \ {y})
  <2>1. IsFiniteSet(v \ {y}) /\ Cardinality(v \ {y}) = n - 1 /\ Cardinality(v \ {y}) \in Nat /\ n \in Nat
    BY <1>2, <1>3, <1>4, FS_RemoveElement, FS_CardinalityType
  <2>2. ~ (n <= n - 1)
    BY <2>1
  <2>3. n - 1 \notin B
    BY <1>2, <2>2
  <2> QED BY <1>3, <2>1, <2>3
<1>5. CASE v = {}
  <2>1. Good({})
    BY BytesEmpty DEF Good
  <2> QED BY <1>3, <1>5, <2>1
<1>6. CASE v # {}
  <2> DEFINE y == CHOOSE y \in v : TRUE
  <2>1. y \in v /\ BytesOf(pg, v) = pg.slots[y].size + BytesOf(pg, v \ {y})
    BY <1>3, <1>6, BytesChosen
  <2> HIDE DEF y
  <2>2. BytesOf(pg, v \ {y}) \in Nat /\ pg.slots[y].size \in Nat
    BY <1>3, <1>4, <2>1 DEF Good
  <2>3. BytesOf(pg, v) \in Nat
    BY <2>1, <2>2
  <2>4. ASSUME NEW x, x \in v PROVE BytesOf(pg, v) = pg.slots[x].size + BytesOf(pg, v \ {x})
    <3>1. CASE x = y
      BY <2>1, <3>1
    <3>2. CASE x # y
      <4> DEFINE w == v \ {x, y}
      <4>1. (v \ {y}) \ {x} = w /\ (v \ {x}) \ {y} = w /\ x \in v \ {y} /\ y \in v \ {x}
        BY <2>1, <2>4, <3>2
      <4> HIDE DEF w
      <4>2. BytesOf(pg, v \ {y}) = pg.slots[x].size + BytesOf(pg, w)
        <5>1. Good(v \ {y})
          BY <1>4, <2>1
        <5> QED BY <4>1, <5>1 DEF Good
      <4>3. BytesOf(pg, v \ {x}) = pg.slots[y].size + BytesOf(pg, w)
        <5>1. Good(v \ {x})
          BY <1>4, <2>4
        <5> QED BY <4>1, <5>1 DEF Good
      <4>4. BytesOf(pg, w) \in Nat /\ pg.slots[x].size \in Nat
        <5>1. w \in SUBSET v /\ IsFiniteSet(v \ {x}) /\ Good(v \ {x}) /\ y \in v \ {x}
          BY <1>4, <2>4, <4>1 DEF w
        <5>2. IsFiniteSet(w) /\ Cardinality(w) < n
          <6>1. IsFiniteSet(v) /\ n \in Nat /\ n = Cardinality(v) /\ x \in v
            BY <1>2, <1>3, <2>4
          <6>2. Cardinality(v \ {x}) = n - 1
            BY <6>1, FS_RemoveElement
          <6>3. IsFiniteSet(w) /\ Cardinality(w) = n - 1 - 1
            <7> DEFINE u == v \ {x}
            <7>1. IsFiniteSet(u) /\ y \in u /\ w = u \ {y} /\ Cardinality(u) = n - 1
              BY <4>1, <5>1, <6>2
            <7> HIDE DEF u
            <7>2. IsFiniteSet(w) /\ Cardinality(w) = Cardinality(u) - 1
              BY ONLY <7>1, FS_RemoveElement
            <7> QED BY ONLY <7>1, <7>2
          <6>4. n - 1 - 1 < n
            BY ONLY <6>1
          <6> QED BY ONLY <6>3, <6>4
        <5>3. Good(w)
          <6>1. Cardinality(w) \in Nat /\ n \in Nat
            BY <1>2, <5>2, FS_CardinalityType
          <6>2. Cardinality(w) \notin B
            BY <1>2, <5>2, <6>1
          <6> QED BY <1>3, <5>1, <5>2, <6>1, <6>2
        <5> QED BY <1>3, <2>4, <5>3 DEF Good
      <4> QED BY <2>1, <2>2, <4>2, <4>3, <4>4
    <3> QED BY <3>1, <3>2
  <2> QED BY <1>3, <2>3, <2>4 DEF Good
<1> QED BY <1>5, <1>6

-----------------------------------------------------------------------------
(* A page, and what it means that its records do not overlap, in numbers.   *)
Slots == [offset : Offsets, size : Sizes, used : BOOLEAN, rec : Recs]

Pages ==
  [kind : {"slotted"}, next : {NoPage}, prev : {NoPage}, lower : Nat, upper : Nat,
   slots : Seq(Slots)]

Bounded(pg) ==
  /\ pg.lower = HeaderSize + SlotSize * Len(pg.slots)
  /\ pg.lower <= pg.upper /\ pg.upper <= PageSize

Below(s, t) == s.offset + s.size <= t.offset

Clear(pg) ==
  \A i \in UsedSlots(pg) :
    /\ pg.upper <= pg.slots[i].offset /\ pg.slots[i].offset + pg.slots[i].size <= PageSize
    /\ \A j \in UsedSlots(pg) \ {i} :
         Below(pg.slots[i], pg.slots[j]) \/ Below(pg.slots[j], pg.slots[i])

Buffers == [Offsets -> (Recs \cup {Junk}) \X Nat]

Intact(pg, buf) ==
  \A i \in UsedSlots(pg) : \A j \in 0 .. pg.slots[i].size - 1 :
    buf[pg.slots[i].offset + j] = <<pg.slots[i].rec, j>>

LEMMA SlotFacts ==
  ASSUME NEW pg \in Pages
  PROVE  /\ Len(pg.slots) \in Nat /\ DOMAIN pg.slots = 1..Len(pg.slots)
         /\ \A i \in DOMAIN pg.slots : pg.slots[i] \in Slots
         /\ \A i \in DOMAIN pg.slots : /\ pg.slots[i].offset \in Nat /\ pg.slots[i].offset \in Offsets
                                       /\ pg.slots[i].size \in Nat /\ pg.slots[i].size >= 1
                                       /\ pg.slots[i].size \in Sizes
         /\ UsedSlots(pg) \in SUBSET DOMAIN pg.slots /\ IsFiniteSet(UsedSlots(pg))
         /\ UsedSlots(pg) \in SUBSET Nat
<1>1. pg.slots \in Seq(Slots)
  BY DEF Pages
<1>2. Len(pg.slots) \in Nat /\ DOMAIN pg.slots = 1..Len(pg.slots)
      /\ \A i \in DOMAIN pg.slots : pg.slots[i] \in Slots
  BY <1>1, LenProperties, ElementOfSeq
<1>3. \A s \in Slots : s.offset \in Nat /\ s.offset \in Offsets /\ s.size \in Nat /\ s.size >= 1 /\ s.size \in Sizes
  <2> TAKE s \in Slots
  <2>1. s.offset \in Offsets /\ s.size \in Sizes
    BY DEF Slots
  <2>2. s.offset \in Nat /\ s.size \in Nat /\ s.size # 0
    <3>1. Sizes \subseteq Nat \ {0} /\ PageSize \in Nat
      BY RecordAssumption, GeometryAssumption
    <3>2. \A b \in 0 .. PageSize - 1 : b \in Nat
      OBVIOUS
    <3> QED BY <2>1, <3>1, <3>2 DEF Offsets
  <2> QED BY <2>1, <2>2
<1>4. UsedSlots(pg) \in SUBSET DOMAIN pg.slots
  BY DEF UsedSlots
<1>5. IsFiniteSet(UsedSlots(pg))
  <2>1. 1 \in Int /\ Len(pg.slots) \in Int
    BY <1>2
  <2>2. IsFiniteSet(1..Len(pg.slots))
    BY <2>1, FS_Interval
  <2> QED BY <1>2, <1>4, <2>2, FS_Subset
<1> QED BY <1>2, <1>3, <1>4, <1>5

\* Two used slots have different offsets.
LEMMA OffsetsDiffer ==
  ASSUME NEW pg \in Pages, Clear(pg), NEW i \in UsedSlots(pg), NEW j \in UsedSlots(pg), i # j
  PROVE  /\ pg.slots[i].offset # pg.slots[j].offset
         /\ pg.slots[i].offset >= pg.slots[j].offset => Below(pg.slots[j], pg.slots[i])
<1> DEFINE s == pg.slots[i]
           t == pg.slots[j]
<1>1. /\ s.offset \in Nat /\ s.size \in Nat /\ s.size >= 1
      /\ t.offset \in Nat /\ t.size \in Nat /\ t.size >= 1
  BY SlotFacts
<1>2. s.offset + s.size <= t.offset \/ t.offset + t.size <= s.offset
  BY DEF Clear, Below
<1> HIDE DEF s, t
<1>3. s.offset # t.offset /\ (s.offset >= t.offset => t.offset + t.size <= s.offset)
  BY ONLY <1>1, <1>2
<1> QED BY <1>3 DEF s, t, Below

-----------------------------------------------------------------------------
(* The order of the loop: the n-th slot has n used slots at or above it.    *)
Sorted(pg, d) ==
  LET n == Cardinality(UsedSlots(pg))
  IN  /\ n \in Nat /\ d \in [1..n -> UsedSlots(pg)]
      /\ \A x \in UsedSlots(pg) : \E k \in 1..n : d[k] = x
      /\ \A k, m \in 1..n : k < m => d[k] # d[m] /\ pg.slots[d[k]].offset >= pg.slots[d[m]].offset

LEMMA SortedExists ==
  ASSUME NEW pg \in Pages, Clear(pg)
  PROVE  \E d : Sorted(pg, d)
<1> DEFINE U == UsedSlots(pg)
           n == Cardinality(U)
           off(i) == pg.slots[i].offset
           R == [i \in U |-> Cardinality(AtOrAbove(pg, i))]
<1>1. /\ IsFiniteSet(U) /\ n \in Nat /\ \A i \in U : off(i) \in Nat
      /\ \A i, j \in U : i # j => off(i) # off(j)
  BY SlotFacts, FS_CardinalityType, OffsetsDiffer
<1>2. \A i \in U : AtOrAbove(pg, i) = {j \in U : off(j) >= off(i)}
  BY DEF AtOrAbove
<1> HIDE DEF U, off
<1>3. ASSUME NEW i \in U PROVE IsFiniteSet(AtOrAbove(pg, i)) /\ R[i] \in 1..n
  <2> DEFINE A == AtOrAbove(pg, i)
  <2>1. A \in SUBSET U /\ i \in A
    BY <1>1, <1>2
  <2>2. IsFiniteSet(A) /\ Cardinality(A) <= n /\ Cardinality(A) \in Nat
    BY <1>1, <2>1, FS_Subset, FS_CardinalityType
  <2>3. Cardinality(A) # 0
    BY <2>1, <2>2, FS_EmptySet
  <2> QED BY <1>1, <2>2, <2>3
<1>4. ASSUME NEW i \in U, NEW j \in U, off(i) > off(j) PROVE R[i] < R[j]
  <2> DEFINE A == AtOrAbove(pg, i)
             B == AtOrAbove(pg, j)
  <2>1. A \in SUBSET B /\ j \in B /\ j \notin A
    BY <1>1, <1>2, <1>4
  <2>2. IsFiniteSet(A) /\ IsFiniteSet(B) /\ R[i] \in 1..n /\ R[j] \in 1..n
    BY <1>3
  <2>3. Cardinality(A) <= Cardinality(B) /\ Cardinality(A) # Cardinality(B)
    BY <2>1, <2>2, FS_Subset
  <2>4. R[i] = Cardinality(A) /\ R[j] = Cardinality(B)
    OBVIOUS
  <2> HIDE DEF R, A, B
  <2> QED BY <1>1, <2>2, <2>3, <2>4
<1>5. R \in Injection(U, 1..n)
  <2>1. R \in [U -> 1..n] /\ DOMAIN R = U
    BY <1>3
  <2>2. \A i, j \in U : i # j => R[i] # R[j]
    <3> SUFFICES ASSUME NEW i \in U, NEW j \in U, i # j PROVE R[i] # R[j]
      OBVIOUS
    <3>1. R[i] \in 1..n /\ R[j] \in 1..n /\ (off(i) > off(j) \/ off(j) > off(i))
      BY <1>1, <1>3
    <3>2. R[i] < R[j] \/ R[j] < R[i]
      BY <1>4, <3>1
    <3> HIDE DEF R
    <3> QED BY <1>1, <3>1, <3>2
  <2> HIDE DEF R
  <2> QED BY <2>1, <2>2 DEF Injection, IsInjective
<1>6. IsFiniteSet(1..n) /\ Cardinality(1..n) = n
  <2>1. 1 \in Int /\ n \in Int
    BY <1>1
  <2> HIDE DEF n
  <2>2. IsFiniteSet(1..n) /\ Cardinality(1..n) = (IF 1 > n THEN 0 ELSE n - 1 + 1)
    BY <2>1, FS_Interval
  <2> QED BY <1>1, <2>2
<1>7. R \in Surjection(U, 1..n)
  <2> HIDE DEF R
  <2> QED BY <1>5, <1>6, FS_Injection
<1> DEFINE d == [k \in 1..n |-> CHOOSE i \in U : R[i] = k]
<1>8. ASSUME NEW k \in 1..n PROVE d[k] \in U /\ R[d[k]] = k
  <2>1. \E i \in U : R[i] = k
    BY <1>7 DEF Surjection
  <2> HIDE DEF R
  <2> QED BY <2>1
<1>9. ASSUME NEW x \in U PROVE \E k \in 1..n : d[k] = x
  <2>1. R[x] \in 1..n
    BY <1>3
  <2>2. d[R[x]] \in U /\ R[d[R[x]]] = R[x]
    BY <1>8, <2>1
  <2>3. d[R[x]] = x
    <3> HIDE DEF R, d
    <3> QED BY <1>5, <2>2 DEF Injection, IsInjective
  <2> QED BY <2>1, <2>3
<1>10. ASSUME NEW k \in 1..n, NEW m \in 1..n, k < m PROVE d[k] # d[m] /\ off(d[k]) >= off(d[m])
  <2>1. d[k] \in U /\ d[m] \in U /\ R[d[k]] = k /\ R[d[m]] = m
    BY <1>8
  <2> HIDE DEF d, R
  <2>2. k \in Nat /\ m \in Nat /\ ~ (m < k)
    BY <1>1, <1>10
  <2>3. ~ (off(d[m]) > off(d[k]))
    <3>1. off(d[m]) > off(d[k]) => R[d[m]] < R[d[k]]
      BY <1>4, <2>1
    <3> QED BY <2>1, <2>2, <3>1
  <2> QED BY <1>1, <1>10, <2>1, <2>2, <2>3
<1>11. d \in [1..n -> U]
  BY <1>8
<1> HIDE DEF d
<1>12. Sorted(pg, d)
  BY <1>1, <1>9, <1>10, <1>11 DEF Sorted, U, off
<1> QED BY <1>12

LEMMA DescendingIs ==
  ASSUME NEW pg \in Pages, Clear(pg)
  PROVE  Sorted(pg, Descending(pg))
<1> DEFINE U == UsedSlots(pg)
           n == Cardinality(U)
           Down(d) == \A k, m \in DOMAIN d : k < m => pg.slots[d[k]].offset >= pg.slots[d[m]].offset
<1>1. IsFiniteSet(U) /\ n \in Nat
  BY SlotFacts, FS_CardinalityType
<1>2. \E d \in SetToSeqs(U) : Down(d)
  <2>1. PICK d : Sorted(pg, d)
    BY SortedExists
  <2>2. d \in [1..n -> U] /\ \A k, m \in 1..n : k # m => d[k] # d[m]
    <3>1. \A k, m \in 1..n : k # m => k < m \/ m < k
      BY <1>1
    <3> QED BY <2>1, <3>1 DEF Sorted
  <2>3. d \in SetToSeqs(U)
    BY <2>2 DEF SetToSeqs
  <2>4. Down(d)
    BY <2>1, <2>2 DEF Sorted
  <2> QED BY <2>3, <2>4
<1> DEFINE d == Descending(pg)
<1>3. d \in SetToSeqs(U) /\ Down(d)
  BY <1>2 DEF Descending
<1> HIDE DEF d
<1>4. d \in [1..n -> U] /\ \A k, m \in 1..n : k # m => d[k] # d[m]
  BY <1>3 DEF SetToSeqs
<1>5. \A x \in U : \E k \in 1..n : d[k] = x
  <2>1. IsFiniteSet(1..n) /\ Cardinality(1..n) = n
    <3>1. 1 \in Int /\ n \in Int
      BY <1>1
    <3> HIDE DEF n
    <3>2. IsFiniteSet(1..n) /\ Cardinality(1..n) = (IF 1 > n THEN 0 ELSE n - 1 + 1)
      BY <3>1, FS_Interval
    <3> QED BY <1>1, <3>2
  <2>2. d \in Injection(1..n, U)
    <3>1. DOMAIN d = 1..n
      BY <1>4
    <3> QED BY <1>4, <3>1 DEF Injection, IsInjective
  <2>3. d \in Surjection(1..n, U)
    <3> HIDE DEF U
    <3> QED BY <1>1, <2>1, <2>2, FS_Injection
  <2> QED BY <2>3 DEF Surjection
<1>6. \A k, m \in 1..n : k < m => d[k] # d[m] /\ pg.slots[d[k]].offset >= pg.slots[d[m]].offset
  <2>1. DOMAIN d = 1..n /\ \A k, m \in 1..n : k < m => k # m
    BY <1>1, <1>4
  <2> QED BY <1>3, <1>4, <2>1
<1> QED BY <1>1, <1>4, <1>5, <1>6 DEF Sorted, d

-----------------------------------------------------------------------------
(* The loop is a fold.  A function over the subsets of its turns, each      *)
(* obtained from the one without its last turn, exists: else there is a     *)
(* least number of turns for which it does not.                             *)
SlidSolves(g, st, n, seq) ==
  g = [t \in SUBSET (1..n) |->
        IF t = {} THEN st ELSE Slid(g[t \ {Max(t)}], seq[Max(t)])]

LEMMA SlidFold ==
  ASSUME NEW st, NEW seq
  PROVE  \A n \in Nat : \E g : SlidSolves(g, st, n, seq)
<1> DEFINE S == {n \in Nat : ~ \E g : SlidSolves(g, st, n, seq)}
<1> SUFFICES ASSUME S # {} PROVE FALSE
  OBVIOUS
<1>1. PICK n \in S : \A i \in S : n <= i
  <2>1. S \in SUBSET Nat
    OBVIOUS
  <2> QED BY <2>1, LeastOf
<1>2. CASE n = 0
  <2> DEFINE g == [t \in SUBSET (1..0) |-> st]
  <2>1. \A t \in SUBSET (1..0) : t = {}
    OBVIOUS
  <2>2. g = [t \in SUBSET (1..0) |->
              IF t = {} THEN st ELSE Slid(g[t \ {Max(t)}], seq[Max(t)])]
    BY <2>1
  <2> QED BY <1>1, <1>2, <2>2 DEF SlidSolves
<1>3. CASE n # 0
  <2>1. n \in Nat /\ n - 1 \in Nat /\ n - 1 \notin S
    BY <1>1, <1>3
  <2>2. PICK g : SlidSolves(g, st, n - 1, seq)
    BY <2>1
  <2> DEFINE h == [t \in SUBSET (1..n) |->
                    IF n \in t THEN Slid(g[t \ {n}], seq[n]) ELSE g[t]]
             Turn(f, t) == IF t = {} THEN st ELSE Slid(f[t \ {Max(t)}], seq[Max(t)])
  <2>3. \A t \in SUBSET (1..(n - 1)) : g[t] = Turn(g, t)
    BY <2>2 DEF SlidSolves
  <2>4. \A t \in SUBSET (1..n) : n \notin t => t \in SUBSET (1..(n - 1))
    BY <2>1
  <2>5. ASSUME NEW t \in SUBSET (1..n) PROVE h[t] = Turn(h, t)
    <3>1. CASE n \in t
      <4>1. Max(t) \in t /\ \A i \in t : Max(t) >= i
        BY <2>1, <3>1, GreatestOf
      <4>2. Max(t) = n
        <5>1. \A m : m \in t /\ (\A i \in t : m >= i) => m = n
          BY ONLY <2>1, <3>1, t \in SUBSET (1..n)
        <5> QED BY ONLY <4>1, <5>1
      <4>3. h[t] = Slid(g[t \ {n}], seq[n]) /\ h[t \ {n}] = g[t \ {n}]
        BY <3>1
      <4> QED BY <3>1, <4>2, <4>3
    <3>2. CASE t = {}
      BY <2>3, <2>4, <3>2
    <3>3. CASE n \notin t /\ t # {}
      <4>1. t \ {Max(t)} \in SUBSET (1..n) /\ n \notin t \ {Max(t)}
        BY <3>3
      <4>2. h[t] = g[t] /\ h[t \ {Max(t)}] = g[t \ {Max(t)}]
        BY <3>3, <4>1
      <4> QED BY <2>3, <2>4, <3>3, <4>2
    <3> QED BY <3>1, <3>2, <3>3
  <2>6. h = [t \in SUBSET (1..n) |-> Turn(h, t)]
    <3>1. h = [t \in SUBSET (1..n) |-> h[t]]
      OBVIOUS
    <3> HIDE DEF h, Turn
    <3> QED BY <2>5, <3>1
  <2> QED BY <1>1, <2>6 DEF SlidSolves
<1> QED BY <1>2, <1>3

\* The fold turn by turn: f[i] is the state after i turns.
SlidRun(f, st, n, seq) ==
  /\ f[0] = st
  /\ \A i \in 1..n : f[i] = Slid(f[i - 1], seq[i])
  /\ FoldLeft(Slid, st, seq) = f[n]

LEMMA SlidTurns ==
  ASSUME NEW st, NEW seq, NEW n \in Nat, DOMAIN seq = 1..n
  PROVE  \E f : SlidRun(f, st, n, seq)
<1>1. PICK g : SlidSolves(g, st, n, seq) /\ FoldLeft(Slid, st, seq) = g[1..n]
  <2>1. \E g : SlidSolves(g, st, n, seq)
    BY SlidFold
  <2> QED BY <2>1 DEF SlidSolves, FoldLeft, MapThenFoldSet
<1> DEFINE f == [i \in 0..n |-> g[1..i]]
<1>2. f[0] = st
  <2>1. 1..0 = {} /\ {} \in SUBSET (1..n)
    OBVIOUS
  <2>2. g[{}] = st
    BY <1>1, <2>1 DEF SlidSolves
  <2> QED BY <2>1, <2>2
<1>3. ASSUME NEW i \in 1..n PROVE f[i] = Slid(f[i - 1], seq[i])
  <2>1. Max(1..i) = i /\ (1..i) \ {i} = 1..(i - 1) /\ 1..i # {} /\ 1..i \in SUBSET (1..n)
    <3>1. i \in Nat /\ i # 0 /\ 1..i \in SUBSET (1..n)
      BY ONLY i \in 1..n, n \in Nat
    <3> QED BY ONLY <3>1, Upto
  <2>2. g[1..i] = Slid(g[(1..i) \ {Max(1..i)}], seq[Max(1..i)])
    BY <1>1, <2>1 DEF SlidSolves
  <2>3. f[i] = g[1..i] /\ f[i - 1] = g[1..(i - 1)]
    OBVIOUS
  <2> HIDE DEF f
  <2> QED BY <2>1, <2>2, <2>3
<1>4. f[n] = g[1..n]
  OBVIOUS
<1> QED BY <1>1, <1>2, <1>3, <1>4 DEF SlidRun

-----------------------------------------------------------------------------
(* The loop of compact().                                                   *)
Start(pg, buf) == [at |-> PageSize, slots |-> pg.slots, buf |-> buf]

\* After k turns: the slots d[1] to d[k] are packed from the end of the page
\* down to "at", each with its bytes, and nothing below "at" has changed.
SlidTo(pg, buf, d, f, k) ==
  /\ f[k].at \in 0..PageSize /\ f[k].slots \in Seq(Slots) /\ Len(f[k].slots) = Len(pg.slots)
  /\ k > 0 => f[k].at >= pg.slots[d[k]].offset
  /\ \A m \in 1..k : f[k].slots[d[m]] = [pg.slots[d[m]] EXCEPT !.offset = f[m].at]
  /\ \A i \in DOMAIN pg.slots : (\A m \in 1..k : d[m] # i) => f[k].slots[i] = pg.slots[i]
  /\ f[k].at = PageSize - BytesOf(pg, {d[m] : m \in 1..k})
  /\ \A m \in 1..k : /\ f[m].at \in Nat /\ f[m].at + pg.slots[d[m]].size = f[m - 1].at
                     /\ f[k].at <= f[m].at /\ f[m].at + pg.slots[d[m]].size <= PageSize
  /\ \A b \in Offsets : b < f[k].at => f[k].buf[b] = buf[b]
  /\ \A m \in 1..k : \A j \in 0 .. pg.slots[d[m]].size - 1 :
       f[k].buf[f[m].at + j] = buf[pg.slots[d[m]].offset + j]
  /\ f[k].buf \in Buffers

LEMMA SlotMoved ==
  ASSUME NEW slots \in Seq(Slots), NEW i \in 1..Len(slots), NEW at \in Offsets
  PROVE  LET new == [slots EXCEPT ![i].offset = at]
         IN  /\ new \in Seq(Slots) /\ Len(new) = Len(slots)
             /\ new[i] = [slots[i] EXCEPT !.offset = at]
             /\ \A j \in 1..Len(slots) : j # i => new[j] = slots[j]
<1> DEFINE c == [slots[i] EXCEPT !.offset = at]
           new == [slots EXCEPT ![i].offset = at]
<1>1. Len(slots) \in Nat /\ DOMAIN slots = 1..Len(slots) /\ slots[i] \in Slots
  BY LenProperties, ElementOfSeq
<1>2. c \in Slots
  <2> DEFINE s == slots[i]
  <2>1. s \in Slots
    BY <1>1
  <2> HIDE DEF s
  <2> QED BY ONLY <2>1, at \in Offsets DEF Slots, s
<1>3. new = [slots EXCEPT ![i] = c]
  BY <1>1
<1> HIDE DEF c, new
<1>4. [slots EXCEPT ![i] = c] \in Seq(Slots) /\ Len([slots EXCEPT ![i] = c]) = Len(slots)
  BY <1>1, <1>2
<1>5. [slots EXCEPT ![i] = c][i] = c /\ \A j \in 1..Len(slots) : j # i => [slots EXCEPT ![i] = c][j] = slots[j]
  BY <1>1
<1> QED BY <1>3, <1>4, <1>5 DEF c, new

\* One turn: the slot moves up, over bytes no later turn reads.
LEMMA SlidTurn ==
  ASSUME NEW pg \in Pages, Bounded(pg), Clear(pg), NEW buf \in Buffers, NEW d, Sorted(pg, d),
         NEW f, NEW k \in 1..Cardinality(UsedSlots(pg)), SlidTo(pg, buf, d, f, k - 1),
         f[k] = Slid(f[k - 1], d[k]), k = 1 => f[0].at = PageSize
  PROVE  SlidTo(pg, buf, d, f, k)
<1> DEFINE n == Cardinality(UsedSlots(pg))
           x == d[k]
           s == pg.slots[x].size
           o == pg.slots[x].offset
           h == f[k - 1].at
           at == h - s
           old == f[k - 1].buf
           new == [b \in Offsets |-> IF b \in at .. at + s - 1 THEN old[o + (b - at)] ELSE old[b]]
           slots == f[k - 1].slots
<1>1. /\ n \in Nat /\ k \in 1..n /\ k \in Nat /\ k - 1 \in 0..n /\ x \in UsedSlots(pg)
      /\ x \in DOMAIN pg.slots /\ DOMAIN pg.slots = 1..Len(pg.slots) /\ \A m \in 1..n : d[m] \in UsedSlots(pg)
      /\ \A m \in 1..(k - 1) : m \in 1..n /\ m < k /\ d[m] # x
      /\ \A m \in 1..k : m \in 1..n /\ (m = k \/ m \in 1..(k - 1))
  <2>1. n \in Nat
    BY SlotFacts, FS_CardinalityType
  <2>2. k \in 1..n
    OBVIOUS
  <2>3. \A m \in 1..n : d[m] \in UsedSlots(pg)
    BY DEF Sorted
  <2>4. \A m \in 1..n : m < k => d[m] # x
    BY <2>2 DEF Sorted
  <2> HIDE DEF n
  <2>5. k \in Nat /\ k - 1 \in 0..n
    BY ONLY <2>1, <2>2
  <2>6. \A m \in 1..(k - 1) : m \in 1..n /\ m < k
    BY ONLY <2>1, <2>2
  <2>7. \A m \in 1..k : m \in 1..n /\ (m = k \/ m \in 1..(k - 1))
    BY ONLY <2>1, <2>2
  <2>8. x \in UsedSlots(pg) /\ x \in DOMAIN pg.slots /\ DOMAIN pg.slots = 1..Len(pg.slots)
    BY <2>2, <2>3, SlotFacts
  <2> QED BY <2>1, <2>2, <2>3, <2>4, <2>5, <2>6, <2>7, <2>8
<1>2. /\ o \in Nat /\ s \in Nat /\ s >= 1 /\ PageSize \in Nat /\ o + s <= PageSize /\ o \in Offsets
  BY <1>1, SlotFacts, GeometryAssumption DEF Clear
<1>3. /\ h \in 0..PageSize /\ slots \in Seq(Slots) /\ Len(slots) = Len(pg.slots) /\ old \in Buffers
      /\ \A m \in 1..(k - 1) : slots[d[m]] = [pg.slots[d[m]] EXCEPT !.offset = f[m].at]
      /\ \A i \in DOMAIN pg.slots : (\A m \in 1..(k - 1) : d[m] # i) => slots[i] = pg.slots[i]
      /\ h = PageSize - BytesOf(pg, {d[m] : m \in 1..(k - 1)})
      /\ \A m \in 1..(k - 1) : /\ f[m].at \in Nat /\ f[m].at + pg.slots[d[m]].size = f[m - 1].at
                               /\ h <= f[m].at /\ f[m].at + pg.slots[d[m]].size <= PageSize
      /\ \A b \in Offsets : b < h => old[b] = buf[b]
      /\ \A m \in 1..(k - 1) : \A j \in 0 .. pg.slots[d[m]].size - 1 :
           old[f[m].at + j] = buf[pg.slots[d[m]].offset + j]
  BY DEF SlidTo
\* The slot lies below those that have been slid.
<1>4. o + s <= h
  <2>1. CASE k = 1
    BY <1>2, <2>1
  <2>2. CASE k # 1
    <3>1. k - 1 \in 1..n /\ k - 1 < k /\ k - 1 > 0
      BY <1>1, <2>2
    <3> DEFINE y == d[k - 1]
    <3>2. y \in UsedSlots(pg) /\ y # x /\ pg.slots[y].offset >= o /\ h >= pg.slots[y].offset
      BY <1>1, <3>1 DEF Sorted, SlidTo
    <3>3. Below(pg.slots[x], pg.slots[y]) /\ pg.slots[y].offset \in Nat
      BY <1>1, <3>2, OffsetsDiffer, SlotFacts
    <3> HIDE DEF y
    <3>4. o + s <= pg.slots[y].offset
      BY <3>3 DEF Below
    <3>5. h \in Nat /\ o \in Nat /\ s \in Nat
      <4> HIDE DEF h, o, s
      <4> QED BY ONLY <1>2, <1>3
    <3> HIDE DEF h, o, s
    <3> QED BY ONLY <3>2, <3>3, <3>4, <3>5
  <2> QED BY <2>1, <2>2
<1>0. /\ d[k] = x /\ pg.slots[x].size = s /\ pg.slots[x].offset = o /\ f[k - 1].at = h /\ at = h - s
      /\ n = Cardinality(UsedSlots(pg))
  OBVIOUS
<1>5. at \in Nat /\ at >= o /\ at \in Offsets /\ at + s = h /\ at \in 0..PageSize
  <2>1. h \in Nat /\ h <= PageSize /\ o \in Nat /\ s \in Nat /\ s >= 1 /\ PageSize \in Nat
    <3> HIDE DEF h, s, o
    <3> QED BY ONLY <1>2, <1>3
  <2> HIDE DEF h, s, o, at
  <2> QED BY ONLY <1>0, <1>4, <2>1 DEF Offsets
<1>6. slots[x] = pg.slots[x]
  BY <1>1, <1>3
<1>7. f[k].at = at /\ f[k].slots = [slots EXCEPT ![x].offset = at] /\ f[k].buf = new
  <2>1. slots[x].size = s /\ slots[x].offset = o
    BY <1>6
  <2> HIDE DEF x, o, s
  <2>2. Slid(f[k - 1], x) = [at |-> at, slots |-> [slots EXCEPT ![x].offset = at], buf |-> new]
    BY <2>1 DEF Slid
  <2> HIDE DEF at, new, slots
  <2> QED BY <2>2 DEF x
<1> HIDE DEF n, x, s, o, h, at, old, new, slots
<1>8. /\ f[k].slots \in Seq(Slots) /\ Len(f[k].slots) = Len(pg.slots)
      /\ f[k].slots[x] = [pg.slots[x] EXCEPT !.offset = f[k].at]
      /\ \A i \in DOMAIN pg.slots : i # x => f[k].slots[i] = slots[i]
  <2>1. x \in 1..Len(slots) /\ at \in Offsets /\ slots \in Seq(Slots)
    BY <1>1, <1>3, <1>5
  <2> DEFINE e == [slots EXCEPT ![x].offset = at]
  <2>2. /\ e \in Seq(Slots) /\ Len(e) = Len(slots) /\ e[x] = [slots[x] EXCEPT !.offset = at]
        /\ \A j \in 1..Len(slots) : j # x => e[j] = slots[j]
    BY <2>1, SlotMoved
  <2>3. f[k].slots = e
    BY <1>7
  <2> HIDE DEF e
  <2> QED BY <1>1, <1>3, <1>6, <1>7, <2>2, <2>3
<1>9. \A m \in 1..k : f[k].slots[d[m]] = [pg.slots[d[m]] EXCEPT !.offset = f[m].at]
  <2> SUFFICES ASSUME NEW m \in 1..k PROVE f[k].slots[d[m]] = [pg.slots[d[m]] EXCEPT !.offset = f[m].at]
    OBVIOUS
  <2>1. CASE m = k
    BY <1>0, <1>8, <2>1
  <2>2. CASE m \in 1..(k - 1)
    <3>1. d[m] \in DOMAIN pg.slots /\ d[m] # x
      BY <1>1, <2>2, SlotFacts
    <3> QED BY <1>3, <1>8, <2>2, <3>1
  <2> QED BY <1>1, <2>1, <2>2
<1>10. \A i \in DOMAIN pg.slots : (\A m \in 1..k : d[m] # i) => f[k].slots[i] = pg.slots[i]
  <2> SUFFICES ASSUME NEW i \in DOMAIN pg.slots, \A m \in 1..k : d[m] # i PROVE f[k].slots[i] = pg.slots[i]
    OBVIOUS
  <2>1. i # x /\ \A m \in 1..(k - 1) : d[m] # i
    BY <1>0, <1>1
  <2> QED BY <1>3, <1>8, <2>1
<1>11. f[k].at = PageSize - BytesOf(pg, {d[m] : m \in 1..k})
  <2> DEFINE D == {d[m] : m \in 1..(k - 1)}
             E == {d[m] : m \in 1..k}
  <2>1. E \ {x} = D /\ x \in E
    BY <1>0, <1>1
  <2>2. E \in SUBSET UsedSlots(pg)
    BY <1>0, <1>1
  <2>3. IsFiniteSet(E) /\ \A i \in E : pg.slots[i].size \in Nat
    BY <2>2, SlotFacts, FS_Subset
  <2> HIDE DEF D, E
  <2>4. BytesOf(pg, E) = s + BytesOf(pg, D) /\ BytesOf(pg, E) \in Nat
    BY <1>0, <2>1, <2>3, BytesTake
  <2>5. IsFiniteSet(D) /\ BytesOf(pg, D) \in Nat
    <3>1. D \in SUBSET E
      BY <2>1
    <3>2. IsFiniteSet(D) /\ \A i \in D : pg.slots[i].size \in Nat
      BY <2>3, <3>1, FS_Subset
    <3> QED BY <3>2, BytesTake
  <2>6. h = PageSize - BytesOf(pg, D)
    BY <1>3 DEF D
  <2>7. at = PageSize - BytesOf(pg, E)
    BY ONLY <1>0, <1>2, <2>4, <2>5, <2>6
  <2> QED BY <1>7, <2>7 DEF E
<1>12. \A m \in 1..k : /\ f[m].at \in Nat /\ f[m].at + pg.slots[d[m]].size = f[m - 1].at
                       /\ f[k].at <= f[m].at /\ f[m].at + pg.slots[d[m]].size <= PageSize
  <2> SUFFICES ASSUME NEW m \in 1..k
               PROVE  /\ f[m].at \in Nat /\ f[m].at + pg.slots[d[m]].size = f[m - 1].at
                      /\ f[k].at <= f[m].at /\ f[m].at + pg.slots[d[m]].size <= PageSize
    OBVIOUS
  <2>1. CASE m = k
    <3>1. at \in Nat /\ at + s = h /\ h <= PageSize /\ f[k].at = at
      BY <1>3, <1>5, <1>7
    <3>2. f[k].at \in Nat /\ f[k].at + s = f[k - 1].at /\ f[k].at <= f[k].at /\ f[k].at + s <= PageSize
      BY <1>0, <1>2, <3>1
    <3> QED BY <1>0, <2>1, <3>2
  <2>2. CASE m \in 1..(k - 1)
    <3>1. /\ f[m].at \in Nat /\ f[m].at + pg.slots[d[m]].size = f[m - 1].at
          /\ h <= f[m].at /\ f[m].at + pg.slots[d[m]].size <= PageSize
      BY <1>3, <2>2
    <3>2. at <= h /\ at \in Nat /\ h \in Nat
      BY <1>2, <1>3, <1>5
    <3> QED BY <1>7, <3>1, <3>2
  <2> QED BY <1>1, <2>1, <2>2
<1>13. ASSUME NEW b \in Offsets, b < at PROVE new[b] = buf[b]
  <2>1. b \notin at .. at + s - 1 /\ b < h
    BY <1>2, <1>3, <1>5, <1>13 DEF Offsets
  <2>2. new[b] = old[b]
    BY <2>1 DEF new
  <2> QED BY <1>3, <2>1, <2>2
<1>14. ASSUME NEW j \in 0 .. s - 1 PROVE new[at + j] = buf[o + j]
  <2>1. /\ at + j \in at .. at + s - 1 /\ at + j \in Offsets /\ o + (at + j - at) = o + j
        /\ o + j \in Offsets /\ o + j < h
    <3>1. j \in Nat /\ j < s /\ h \in Nat /\ h <= PageSize /\ s \in Nat
      BY <1>2, <1>3, <1>14
    <3>2. at \in Nat /\ at >= o /\ at + s = h /\ o \in Nat /\ PageSize \in Nat /\ o + s <= h
      BY <1>2, <1>4, <1>5
    <3> QED BY ONLY <3>1, <3>2 DEF Offsets
  <2>2. new[at + j] = old[o + j]
    <3> DEFINE b == at + j
    <3>1. b \in Offsets /\ b \in at .. at + s - 1 /\ b - at = j
      <4>1. b - at = j
        BY <1>5, <1>14
      <4> QED BY <2>1, <4>1
    <3> HIDE DEF b
    <3>2. new[b] = old[o + (b - at)]
      BY ONLY <3>1 DEF new
    <3> QED BY ONLY <3>1, <3>2 DEF b
  <2>3. old[o + j] = buf[o + j]
    BY <1>3, <2>1
  <2> QED BY <2>2, <2>3
<1>15. ASSUME NEW m \in 1..(k - 1), NEW j \in 0 .. pg.slots[d[m]].size - 1
       PROVE  new[f[m].at + j] = buf[pg.slots[d[m]].offset + j]
  <2> DEFINE a == f[m].at
             z == pg.slots[d[m]].size
  <2>1. a \in Nat /\ h <= a /\ a + z <= PageSize /\ z \in Nat
    BY <1>1, <1>3, SlotFacts
  <2>2. j \in 0 .. z - 1 /\ h \in Nat /\ at + s = h
    BY <1>3, <1>5
  <2>3. a + j \in Offsets /\ a + j \notin at .. at + s - 1
    <3> HIDE DEF a, z
    <3> QED BY <1>2, <1>5, <2>1, <2>2 DEF Offsets
  <2>4. new[a + j] = old[a + j]
    <3> HIDE DEF a
    <3> QED BY <2>3 DEF new
  <2>5. old[a + j] = buf[pg.slots[d[m]].offset + j]
    BY <1>3
  <2> QED BY <2>4, <2>5
<1>16. new \in Buffers
  <2>1. ASSUME NEW b \in Offsets, b \in at .. at + s - 1 PROVE o + (b - at) \in Offsets
    BY <1>2, <1>5, <2>1 DEF Offsets
  <2>2. old \in [Offsets -> (Recs \cup {Junk}) \X Nat]
    BY <1>3 DEF Buffers
  <2> QED BY <2>1, <2>2 DEF Buffers, new
<1>17. \A m \in 1..k : \A j \in 0 .. pg.slots[d[m]].size - 1 :
         f[k].buf[f[m].at + j] = buf[pg.slots[d[m]].offset + j]
  <2> SUFFICES ASSUME NEW m \in 1..k, NEW j \in 0 .. pg.slots[d[m]].size - 1
               PROVE  f[k].buf[f[m].at + j] = buf[pg.slots[d[m]].offset + j]
    OBVIOUS
  <2>1. CASE m = k
    BY <1>0, <1>7, <1>14, <2>1
  <2>2. CASE m \in 1..(k - 1)
    BY <1>7, <1>15, <2>2
  <2> QED BY <1>1, <2>1, <2>2
<1>18. f[k].at \in 0..PageSize /\ f[k].at >= pg.slots[d[k]].offset
  BY <1>0, <1>5, <1>7
<1>19. f[k].buf \in Buffers /\ \A b \in Offsets : b < f[k].at => f[k].buf[b] = buf[b]
  BY <1>7, <1>13, <1>16
<1> QED BY <1>8, <1>9, <1>10, <1>11, <1>12, <1>17, <1>18, <1>19 DEF SlidTo

\* All turns together.
LEMMA SlidLoop ==
  ASSUME NEW pg \in Pages, Bounded(pg), Clear(pg), NEW buf \in Buffers
  PROVE  \E f : /\ SlidAll(pg, buf) = f[Cardinality(UsedSlots(pg))]
                /\ \A k \in 0..Cardinality(UsedSlots(pg)) : SlidTo(pg, buf, Descending(pg), f, k)
<1> DEFINE n == Cardinality(UsedSlots(pg))
           d == Descending(pg)
<1>1. n \in Nat /\ Sorted(pg, d) /\ DOMAIN d = 1..n
  <2>1. Sorted(pg, d)
    BY DescendingIs
  <2>2. n \in Nat
    BY SlotFacts, FS_CardinalityType
  <2> QED BY <2>1, <2>2 DEF Sorted
<1> HIDE DEF d
<1>2. PICK f : SlidRun(f, Start(pg, buf), n, d)
  BY <1>1, SlidTurns
<1>3. f[0] = Start(pg, buf)
  BY <1>2 DEF SlidRun
<1>4. SlidTo(pg, buf, d, f, 0)
  <2>1. PageSize \in Nat /\ PageSize \in 0..PageSize
    BY GeometryAssumption
  <2>2. f[0].at = PageSize /\ f[0].slots = pg.slots /\ f[0].buf = buf
    BY <1>3 DEF Start
  <2>3. pg.slots \in Seq(Slots)
    BY DEF Pages
  <2>4. {d[m] : m \in 1..0} = {} /\ ~ (0 > 0) /\ 1..0 = {}
    OBVIOUS
  <2>5. f[0].at = PageSize - BytesOf(pg, {d[m] : m \in 1..0})
    <3> DEFINE E == {d[m] : m \in 1..0}
    <3>1. E = {}
      BY <2>4
    <3> HIDE DEF E
    <3>2. BytesOf(pg, E) = 0
      BY <3>1, BytesEmpty
    <3>3. f[0].at = PageSize - BytesOf(pg, E)
      BY <2>1, <2>2, <3>2
    <3> QED BY <3>3 DEF E
  <2> QED BY <2>1, <2>2, <2>3, <2>4, <2>5 DEF SlidTo
<1>5. ASSUME NEW k \in 1..n, SlidTo(pg, buf, d, f, k - 1) PROVE SlidTo(pg, buf, d, f, k)
  <2>1. f[k] = Slid(f[k - 1], d[k])
    BY <1>2 DEF SlidRun
  <2>2. f[0].at = PageSize
    BY <1>3 DEF Start
  <2> QED BY <1>1, <1>5, <2>1, <2>2, SlidTurn
<1>6. ASSUME NEW k \in 0..n PROVE SlidTo(pg, buf, d, f, k)
  <2> DEFINE S == {i \in 0..n : SlidTo(pg, buf, d, f, i)}
  <2>1. k \in Nat /\ \A i \in 1..k : i \in 1..n /\ i \in 0..n
    BY <1>1
  <2>2. 0 \in S
    BY <1>1, <1>4
  <2>3. \A i \in 1..k : i - 1 \in S => i \in S
    BY <1>5, <2>1
  <2> HIDE DEF S
  <2>4. k \in S
    BY <2>1, <2>2, <2>3, Upward
  <2> QED BY <2>4 DEF S
<1>7. SlidAll(pg, buf) = f[n]
  BY <1>2 DEF SlidAll, SlidRun, Start, d
<1> QED BY <1>6, <1>7 DEF d

\* What compact() does to a page and its bytes.
Compaction(pg, buf, new, newBuf) ==
  /\ new \in Pages /\ Bounded(new) /\ Clear(new) /\ newBuf \in Buffers
  /\ new.lower = pg.lower /\ new.upper >= pg.upper
  /\ new.upper = PageSize - BytesOf(pg, UsedSlots(pg))
  /\ Len(new.slots) = Len(pg.slots) /\ UsedSlots(new) = UsedSlots(pg)
  /\ \A i \in DOMAIN pg.slots : /\ new.slots[i].size = pg.slots[i].size
                                /\ new.slots[i].used = pg.slots[i].used
                                /\ new.slots[i].rec = pg.slots[i].rec
  /\ \A i \in UsedSlots(pg) : \A j \in 0 .. pg.slots[i].size - 1 :
       newBuf[new.slots[i].offset + j] = buf[pg.slots[i].offset + j]
  /\ new = Compacted(pg)

\* The slots at or above the m-th one are the first m.
LEMMA FirstAbove ==
  ASSUME NEW pg \in Pages, Clear(pg), NEW d, Sorted(pg, d),
         NEW m \in 1..Cardinality(UsedSlots(pg))
  PROVE  AtOrAbove(pg, d[m]) = {d[l] : l \in 1..m}
<1> DEFINE n == Cardinality(UsedSlots(pg))
           off(i) == pg.slots[i].offset
<1>1. n \in Nat /\ m \in 1..n
  BY SlotFacts, FS_CardinalityType
<1>2. /\ \A k \in 1..n : d[k] \in UsedSlots(pg)
      /\ \A x \in UsedSlots(pg) : \E k \in 1..n : d[k] = x
      /\ \A k, l \in 1..n : k < l => d[k] # d[l] /\ off(d[k]) >= off(d[l])
  BY DEF Sorted
<1>3. \A i \in UsedSlots(pg) : off(i) \in Nat
  BY SlotFacts
<1> HIDE DEF n
<1>4. ASSUME NEW x \in AtOrAbove(pg, d[m]) PROVE x \in {d[l] : l \in 1..m}
  <2>1. x \in UsedSlots(pg) /\ off(x) >= off(d[m])
    BY DEF AtOrAbove
  <2>2. PICK k \in 1..n : d[k] = x
    BY <1>2, <2>1
  <2>3. k <= m
    <3> SUFFICES ASSUME m < k PROVE FALSE
      BY <1>1
    <3>1. d[m] # d[k] /\ off(d[m]) >= off(d[k])
      BY <1>1, <1>2
    <3>2. d[m] \in UsedSlots(pg) /\ d[k] \in UsedSlots(pg)
      BY <1>1, <1>2
    <3>3. off(d[m]) # off(d[k])
      BY <3>1, <3>2, OffsetsDiffer
    <3> QED BY <1>3, <2>1, <2>2, <3>1, <3>2, <3>3
  <2> QED BY <1>1, <2>2, <2>3
<1>5. ASSUME NEW l \in 1..m PROVE d[l] \in AtOrAbove(pg, d[m])
  <2>1. l \in 1..n /\ (l = m \/ l < m)
    BY <1>1
  <2>2. d[l] \in UsedSlots(pg) /\ off(d[l]) >= off(d[m])
    <3>1. CASE l = m
      <4>1. d[m] \in UsedSlots(pg) /\ off(d[m]) \in Nat
        BY <1>1, <1>2, <1>3
      <4> QED BY <3>1, <4>1
    <3>2. CASE l < m
      BY <1>1, <1>2, <2>1, <3>2
    <3> QED BY <2>1, <3>1, <3>2
  <2> QED BY <2>2 DEF AtOrAbove
<1> QED BY <1>4, <1>5

LEMMA CompactionIs ==
  ASSUME NEW pg \in Pages, Bounded(pg), Clear(pg), NEW buf \in Buffers
  PROVE  Compaction(pg, buf, CompactedPage(pg, buf), CompactedBytes(pg, buf))
<1> DEFINE n == Cardinality(UsedSlots(pg))
           d == Descending(pg)
           U == UsedSlots(pg)
           size(i) == pg.slots[i].size
           new == CompactedPage(pg, buf)
<1>1. PICK f : SlidAll(pg, buf) = f[n] /\ \A k \in 0..n : SlidTo(pg, buf, d, f, k)
  BY SlidLoop
<1>2. new = [pg EXCEPT !.slots = f[n].slots, !.upper = f[n].at] /\ CompactedBytes(pg, buf) = f[n].buf
  BY <1>1 DEF CompactedPage, CompactedBytes
<1>3. /\ new.slots = f[n].slots /\ new.upper = f[n].at /\ new.lower = pg.lower
      /\ new.kind = pg.kind /\ new.next = pg.next /\ new.prev = pg.prev
  <2> HIDE DEF new
  <2> QED BY <1>2 DEF Pages
<1>4. Sorted(pg, d) /\ n \in Nat
  BY DescendingIs, SlotFacts, FS_CardinalityType
<1> HIDE DEF d, new
<1>5. /\ \A m \in 1..n : d[m] \in U
      /\ \A i \in U : \E m \in 1..n : d[m] = i
      /\ \A m, l \in 1..n : m < l => d[m] # d[l]
  BY <1>4 DEF Sorted
<1>6. /\ DOMAIN pg.slots = 1..Len(pg.slots) /\ Len(pg.slots) \in Nat /\ U \in SUBSET DOMAIN pg.slots
      /\ \A i \in DOMAIN pg.slots : pg.slots[i] \in Slots /\ size(i) \in Nat /\ size(i) >= 1
  BY SlotFacts
<1> HIDE DEF n
<1>7. SlidTo(pg, buf, d, f, n)
  BY <1>1, <1>4
<1>8. /\ f[n].at \in 0..PageSize /\ f[n].slots \in Seq(Slots) /\ Len(f[n].slots) = Len(pg.slots)
      /\ \A m \in 1..n : f[n].slots[d[m]] = [pg.slots[d[m]] EXCEPT !.offset = f[m].at]
      /\ \A i \in DOMAIN pg.slots : (\A m \in 1..n : d[m] # i) => f[n].slots[i] = pg.slots[i]
      /\ f[n].at = PageSize - BytesOf(pg, {d[m] : m \in 1..n})
      /\ \A m \in 1..n : f[m].at \in Nat /\ f[n].at <= f[m].at /\ f[m].at + size(d[m]) <= PageSize
      /\ \A m \in 1..n : \A j \in 0 .. size(d[m]) - 1 :
           f[n].buf[f[m].at + j] = buf[pg.slots[d[m]].offset + j]
      /\ f[n].buf \in Buffers
  BY <1>7 DEF SlidTo
\* Where the used slots and the others are.
<1>9. ASSUME NEW m \in 1..n
      PROVE  /\ new.slots[d[m]] = [pg.slots[d[m]] EXCEPT !.offset = f[m].at]
             /\ new.slots[d[m]].offset = f[m].at /\ new.slots[d[m]].size = size(d[m])
             /\ new.slots[d[m]].used = pg.slots[d[m]].used /\ new.slots[d[m]].rec = pg.slots[d[m]].rec
  <2>1. new.slots[d[m]] = [pg.slots[d[m]] EXCEPT !.offset = f[m].at]
    BY <1>3, <1>8
  <2>2. pg.slots[d[m]] \in Slots
    BY <1>5, <1>6
  <2> QED BY <2>1, <2>2 DEF Slots
<1>10. ASSUME NEW i \in DOMAIN pg.slots, i \notin U PROVE new.slots[i] = pg.slots[i]
  BY <1>3, <1>5, <1>8, <1>10
<1>11. \A i \in DOMAIN pg.slots : /\ new.slots[i].size = pg.slots[i].size
                                  /\ new.slots[i].used = pg.slots[i].used
                                  /\ new.slots[i].rec = pg.slots[i].rec
  <2> TAKE i \in DOMAIN pg.slots
  <2>1. CASE i \in U
    <3>1. PICK m \in 1..n : d[m] = i
      BY <1>5, <2>1
    <3> QED BY <1>9, <3>1
  <2>2. CASE i \notin U
    BY <1>10, <2>2
  <2> QED BY <2>1, <2>2
<1>12. new.slots \in Seq(Slots) /\ Len(new.slots) = Len(pg.slots) /\ DOMAIN new.slots = DOMAIN pg.slots
  <2>1. new.slots \in Seq(Slots) /\ Len(new.slots) = Len(pg.slots)
    BY <1>3, <1>8
  <2> QED BY <1>6, <2>1, LenProperties
<1>13. UsedSlots(new) = U
  BY <1>11, <1>12 DEF UsedSlots
\* The boundaries.
<1>14. pg.upper \in Nat /\ pg.lower \in Nat /\ PageSize \in Nat /\ pg.lower <= pg.upper /\ pg.upper <= PageSize
       /\ pg.lower = HeaderSize + SlotSize * Len(pg.slots)
  BY GeometryAssumption DEF Pages, Bounded
<1>15. new.upper >= pg.upper /\ new.upper \in Nat /\ new.upper <= PageSize
  <2>1. CASE n = 0
    <3> DEFINE E == {d[m] : m \in 1..n}
    <3>1. E = {}
      BY <2>1
    <3> HIDE DEF E
    <3>2. BytesOf(pg, E) = 0
      BY <3>1, BytesEmpty
    <3>3. f[n].at = PageSize - BytesOf(pg, E)
      BY <1>8 DEF E
    <3> QED BY <1>3, <1>14, <3>2, <3>3
  <2>2. CASE n # 0
    <3>1. n \in 1..n /\ n > 0
      BY <1>4, <2>2
    <3>2. f[n].at >= pg.slots[d[n]].offset
      BY <1>7, <3>1 DEF SlidTo
    <3>3. d[n] \in U /\ pg.slots[d[n]].offset \in Nat
      BY <1>5, <1>6, <3>1, SlotFacts
    <3>4. pg.upper <= pg.slots[d[n]].offset
      BY <3>3 DEF Clear
    <3> QED BY <1>3, <1>8, <1>14, <3>2, <3>3, <3>4
  <2> QED BY <2>1, <2>2
<1>16. new \in Pages
  <2>1. new = [kind |-> pg.kind, next |-> pg.next, prev |-> pg.prev, lower |-> pg.lower,
               upper |-> f[n].at, slots |-> f[n].slots]
    BY <1>2 DEF Pages
  <2> QED BY <1>3, <1>12, <1>15, <2>1 DEF Pages
<1>17. Bounded(new)
  BY <1>3, <1>12, <1>14, <1>15 DEF Bounded
\* A later turn ends below every earlier one.
<1>18. ASSUME NEW m \in 1..n, NEW l \in 1..n, m < l PROVE f[l].at + size(d[l]) <= f[m].at
  <2>1. l - 1 \in 0..n /\ m \in 1..(l - 1) /\ l \in 1..l /\ l \in 0..n
    BY <1>4, <1>18
  <2>2. SlidTo(pg, buf, d, f, l - 1) /\ SlidTo(pg, buf, d, f, l)
    BY <1>1, <2>1
  <2>3. f[l - 1].at <= f[m].at
    BY <2>1, <2>2 DEF SlidTo
  <2>4. f[l].at + size(d[l]) = f[l - 1].at
    BY <2>1, <2>2 DEF SlidTo
  <2> QED BY <2>3, <2>4
<1>19. Clear(new)
  <2>1. ASSUME NEW m \in 1..n, NEW l \in 1..n, d[m] # d[l]
        PROVE  Below(new.slots[d[m]], new.slots[d[l]]) \/ Below(new.slots[d[l]], new.slots[d[m]])
    <3>1. m < l \/ l < m
      <4>1. m # l
        BY <2>1
      <4> QED BY <1>4, <4>1
    <3>2. CASE m < l
      BY <1>9, <1>18, <3>2 DEF Below
    <3>3. CASE l < m
      BY <1>9, <1>18, <3>3 DEF Below
    <3> QED BY <3>1, <3>2, <3>3
  <2>2. ASSUME NEW m \in 1..n
        PROVE  new.upper <= new.slots[d[m]].offset /\ new.slots[d[m]].offset + new.slots[d[m]].size <= PageSize
    BY <1>3, <1>8, <1>9
  <2>3. \A i \in U : \E m \in 1..n : d[m] = i
    BY <1>5
  <2>4. ASSUME NEW i \in U
        PROVE  new.upper <= new.slots[i].offset /\ new.slots[i].offset + new.slots[i].size <= PageSize
    BY <2>2, <2>3
  <2>5. ASSUME NEW i \in U, NEW j \in U, i # j
        PROVE  Below(new.slots[i], new.slots[j]) \/ Below(new.slots[j], new.slots[i])
    <3>1. PICK m \in 1..n : d[m] = i
      BY <2>3
    <3>2. PICK l \in 1..n : d[l] = j
      BY <2>3
    <3> QED BY <2>1, <2>5, <3>1, <3>2
  <2> QED BY <1>13, <2>4, <2>5 DEF Clear
<1>20. new.upper = PageSize - BytesOf(pg, U)
  <2> DEFINE E == {d[m] : m \in 1..n}
  <2>1. E = U
    BY <1>5
  <2>2. f[n].at = PageSize - BytesOf(pg, E)
    BY <1>8
  <2> HIDE DEF E, U
  <2> QED BY <1>3, <2>1, <2>2
<1>21. \A i \in U : \A j \in 0 .. size(i) - 1 :
         CompactedBytes(pg, buf)[new.slots[i].offset + j] = buf[pg.slots[i].offset + j]
  <2> TAKE i \in U
  <2>1. PICK m \in 1..n : d[m] = i
    BY <1>5
  <2>2. new.slots[i].offset = f[m].at
    BY <1>9, <2>1
  <2>3. \A j \in 0 .. size(i) - 1 : f[n].buf[f[m].at + j] = buf[pg.slots[i].offset + j]
    BY <1>8, <2>1
  <2> QED BY <1>2, <2>2, <2>3
<1>22. new = Compacted(pg)
  <2> DEFINE c == [i \in DOMAIN pg.slots |->
                    IF pg.slots[i].used
                    THEN [pg.slots[i] EXCEPT !.offset = PageSize - BytesOf(pg, AtOrAbove(pg, i))]
                    ELSE pg.slots[i]]
  <2>1. ASSUME NEW i \in DOMAIN pg.slots PROVE new.slots[i] = c[i]
    <3>1. CASE i \in U
      <4>1. PICK m \in 1..n : d[m] = i
        BY <1>5, <3>1
      <4>2. AtOrAbove(pg, i) = {d[l] : l \in 1..m}
        <5>1. m \in 1..Cardinality(UsedSlots(pg)) /\ Sorted(pg, d)
          BY <1>4 DEF n
        <5>2. AtOrAbove(pg, d[m]) = {d[l] : l \in 1..m}
          BY ONLY <5>1, FirstAbove, pg \in Pages, Clear(pg)
        <5> QED BY <4>1, <5>2
      <4>3. f[m].at = PageSize - BytesOf(pg, {d[l] : l \in 1..m})
        <5>1. m \in 0..n
          BY <1>4
        <5>2. SlidTo(pg, buf, d, f, m)
          BY <1>1, <5>1
        <5> QED BY <5>2 DEF SlidTo
      <4>4. f[m].at = PageSize - BytesOf(pg, AtOrAbove(pg, i))
        BY <4>2, <4>3
      <4>5. pg.slots[i].used
        BY <3>1 DEF UsedSlots
      <4> QED BY <1>9, <4>1, <4>4, <4>5
    <3>2. CASE i \notin U
      <4>1. ~ pg.slots[i].used
        BY <3>2 DEF UsedSlots
      <4> QED BY <1>10, <3>2, <4>1
    <3> QED BY <3>1, <3>2
  <2>2. new.slots = c
    <3>1. new.slots = [i \in DOMAIN pg.slots |-> new.slots[i]]
      BY <1>12
    <3> QED BY <2>1, <3>1
  <2> HIDE DEF c
  <2>3. new = [pg EXCEPT !.slots = c, !.upper = PageSize - BytesOf(pg, U)]
    BY <1>2, <1>3, <1>20, <2>2
  <2> QED BY <2>3 DEF Compacted, c
<1> QED BY <1>2, <1>3, <1>8, <1>11, <1>12, <1>13, <1>15, <1>16, <1>17, <1>19, <1>20, <1>21, <1>22
        DEF Compaction, new

-----------------------------------------------------------------------------
(* What the other operations do to a page.                                  *)
LEMMA SlotSet ==
  ASSUME NEW pg \in Pages, NEW i \in DOMAIN pg.slots, NEW c \in Slots
  PROVE  LET new == [pg EXCEPT !.slots = [pg.slots EXCEPT ![i] = c]]
         IN  /\ new \in Pages /\ Len(new.slots) = Len(pg.slots) /\ DOMAIN new.slots = DOMAIN pg.slots
             /\ new.lower = pg.lower /\ new.upper = pg.upper
             /\ new.slots[i] = c /\ \A j \in DOMAIN pg.slots : j # i => new.slots[j] = pg.slots[j]
<1> DEFINE s == [pg.slots EXCEPT ![i] = c]
           new == [pg EXCEPT !.slots = s]
<1>1. pg.slots \in Seq(Slots)
  BY DEF Pages
<1>2. DOMAIN pg.slots = 1..Len(pg.slots) /\ Len(pg.slots) \in Nat
  BY SlotFacts
<1>3. s \in Seq(Slots) /\ Len(s) = Len(pg.slots)
  BY <1>1, <1>2
<1>4. DOMAIN s = DOMAIN pg.slots /\ s[i] = c /\ \A j \in DOMAIN pg.slots : j # i => s[j] = pg.slots[j]
  BY <1>1
<1> HIDE DEF s
<1>5. /\ new \in Pages /\ new.slots = s /\ new.lower = pg.lower /\ new.upper = pg.upper
  BY <1>3 DEF Pages
<1> HIDE DEF new
<1> QED BY <1>3, <1>4, <1>5 DEF new, s

\* One more slot at the end of the array.
LEMMA SlotAppended ==
  ASSUME NEW pg \in Pages, NEW c \in Slots
  PROVE  LET new == [pg EXCEPT !.slots = Append(pg.slots, c)]
             t   == Len(pg.slots) + 1
         IN  /\ new \in Pages /\ Len(new.slots) = t
             /\ DOMAIN new.slots = DOMAIN pg.slots \cup {t} /\ t \notin DOMAIN pg.slots
             /\ new.slots[t] = c /\ \A j \in DOMAIN pg.slots : new.slots[j] = pg.slots[j]
<1> DEFINE s == Append(pg.slots, c)
           t == Len(pg.slots) + 1
           new == [pg EXCEPT !.slots = s]
<1>1. pg.slots \in Seq(Slots)
  BY DEF Pages
<1>2. DOMAIN pg.slots = 1..Len(pg.slots) /\ Len(pg.slots) \in Nat
  BY SlotFacts
<1>3. s \in Seq(Slots) /\ Len(s) = t /\ s[t] = c /\ \A j \in 1..Len(pg.slots) : s[j] = pg.slots[j]
  BY <1>1, AppendProperties
<1>4. DOMAIN s = 1..t
  BY <1>3, LenProperties
<1> HIDE DEF s
<1>5. 1..t = (1..Len(pg.slots)) \cup {t} /\ t \notin 1..Len(pg.slots)
  BY ONLY <1>2
<1>6. new \in Pages /\ new.slots = s
  BY <1>3 DEF Pages
<1> HIDE DEF new, t
<1> QED BY <1>2, <1>3, <1>4, <1>5, <1>6 DEF new, t, s

\* The new slot takes what is just below "upper", and no used one is touched.
Entered(pg, new, t, slot) ==
  /\ new \in Pages /\ Bounded(new) /\ t \notin UsedSlots(pg)
  /\ UsedSlots(new) = UsedSlots(pg) \cup {t} /\ new.slots[t] = slot
  /\ \A i \in UsedSlots(pg) : new.slots[i] = pg.slots[i]
  /\ slot.offset = new.upper /\ slot.offset + slot.size = pg.upper

\* A number that fits into 16 bits is not changed by being kept in them.
LEMMA Unwrapped ==
  ASSUME NEW n \in Nat, NEW w \in Nat, n < w
  PROVE  n % w = n
  OBVIOUS

\* The space a record needs, unless the sum does not fit.
LEMMA NeededIs ==
  ASSUME NEW pg, NEW size \in Sizes, ~ Wraps(pg, size)
  PROVE  Needed(pg, size) = size + Entry(pg) /\ Entry(pg) \in Nat
<1> DEFINE n == size + Entry(pg)
<1>1. size \in Nat /\ Entry(pg) \in Nat /\ Word \in Nat
  BY GeometryAssumption, RecordAssumption DEF Entry
<1>2. n \in Nat /\ n < Word
  BY <1>1 DEF Wraps
<1>3. Needed(pg, size) = n % Word
  BY DEF Needed
<1> HIDE DEF n
<1>4. Needed(pg, size) = n
  BY <1>1, <1>2, <1>3, Unwrapped
<1> QED BY <1>1, <1>4 DEF n

LEMMA WriteIs ==
  ASSUME NEW pg \in Pages, Bounded(pg), NEW rec \in Recs, NEW size \in Sizes,
         FreeSpace(pg) >= Needed(pg, size), ~ Wraps(pg, size)
  PROVE  Entered(pg, Write(pg, rec, size), TargetSlot(pg),
                 [offset |-> pg.upper - size, size |-> size, used |-> TRUE, rec |-> rec])
         /\ pg.upper - size \in Offsets /\ WriteOffset(pg, size) = pg.upper - size
<1> DEFINE at == pg.upper - size
           c == [offset |-> at, size |-> size, used |-> TRUE, rec |-> rec]
           t == TargetSlot(pg)
           U == UsedSlots(pg)
           new == Write(pg, rec, size)
           len == Len(pg.slots)
<1>1. /\ PageSize \in Nat /\ HeaderSize \in Nat /\ SlotSize \in Nat /\ size \in Nat /\ size >= 1
      /\ pg.lower \in Nat /\ pg.upper \in Nat /\ pg.lower = HeaderSize + SlotSize * len
      /\ pg.lower <= pg.upper /\ pg.upper <= PageSize /\ len \in Nat
  BY SlotFacts, GeometryAssumption, RecordAssumption DEF Pages, Bounded
<1>2. /\ DeletedSlots(pg) = {} => pg.upper - pg.lower >= size + SlotSize
      /\ DeletedSlots(pg) # {} => pg.upper - pg.lower >= size
  <2>1. Needed(pg, size) = size + Entry(pg)
    BY <1>1, NeededIs
  <2> QED BY <1>1, <2>1 DEF FreeSpace, Entry
<1>3. at \in Nat /\ at \in Offsets /\ at + size = pg.upper /\ pg.lower <= at /\ at <= PageSize
      /\ (DeletedSlots(pg) = {} => pg.lower + SlotSize <= at)
  <2> DEFINE l == pg.lower
             u == pg.upper
  <2>1. u - l >= size /\ (DeletedSlots(pg) = {} => u - l >= size + SlotSize)
    BY <1>1, <1>2
  <2>2. l \in Nat /\ u \in Nat /\ u <= PageSize
    BY <1>1
  <2> HIDE DEF l, u
  <2>3. u - size \in Nat /\ u - size <= PageSize - 1 /\ l <= u - size /\ (u - size) + size = u
        /\ u - size <= PageSize /\ (DeletedSlots(pg) = {} => l + SlotSize <= u - size)
    BY ONLY <1>1, <2>1, <2>2
  <2>4. u - size \in Offsets
    BY <1>1, <2>3 DEF Offsets
  <2> QED BY <2>3, <2>4 DEF l, u
<1>4. c \in Slots /\ c.used /\ c.offset = at /\ c.size = size
  BY <1>3 DEF Slots
<1>0. WriteOffset(pg, size) = at
  <2>1. at \in Nat /\ at < Word
    BY <1>1, <1>3, GeometryAssumption
  <2>2. at % Word = at
    <3> HIDE DEF at
    <3> QED BY <2>1, GeometryAssumption, Unwrapped
  <2> QED BY <2>2 DEF WriteOffset
<1>5. DOMAIN pg.slots = 1..len /\ U = {i \in DOMAIN pg.slots : pg.slots[i].used}
      /\ DeletedSlots(pg) = {i \in DOMAIN pg.slots : ~ pg.slots[i].used}
  BY SlotFacts DEF UsedSlots, DeletedSlots
<1> HIDE DEF c, at
<1>6. CASE DeletedSlots(pg) = {}
  <2> DEFINE mid == [pg EXCEPT !.slots = Append(pg.slots, c)]
  <2>1. t = len + 1
    BY <1>6 DEF TargetSlot
  <2>2. /\ mid \in Pages /\ Len(mid.slots) = t
        /\ DOMAIN mid.slots = DOMAIN pg.slots \cup {t} /\ t \notin DOMAIN pg.slots
        /\ mid.slots[t] = c /\ \A j \in DOMAIN pg.slots : mid.slots[j] = pg.slots[j]
    BY <1>4, <2>1, SlotAppended
  <2>3. new = [mid EXCEPT !.upper = at, !.lower = pg.lower + SlotSize]
    BY <1>0, <1>6 DEF Write, Pages, c
  <2> HIDE DEF mid, new, t
  <2>4. new \in Pages /\ new.slots = mid.slots /\ new.upper = at /\ new.lower = pg.lower + SlotSize
    <3>1. pg.lower + SlotSize \in Nat
      BY <1>1
    <3> QED BY <1>3, <2>2, <2>3, <3>1 DEF Pages
  <2>5. Bounded(new)
    <3>1. SlotSize * (len + 1) = SlotSize * len + SlotSize
      BY ONLY <1>1
    <3>2. new.lower = HeaderSize + SlotSize * Len(new.slots)
      <4>1. SlotSize * len \in Nat
        BY ONLY <1>1
      <4>2. Len(new.slots) = len + 1
        BY <2>1, <2>2, <2>4
      <4> QED BY <1>1, <2>4, <3>1, <4>1, <4>2
    <3> QED BY <1>1, <1>3, <1>6, <2>4, <3>2 DEF Bounded
  <2>6. UsedSlots(new) = U \cup {t} /\ t \notin U /\ \A i \in U : new.slots[i] = pg.slots[i]
    BY <1>4, <1>5, <2>2, <2>4 DEF UsedSlots
  <2> QED BY <1>0, <1>3, <1>4, <2>2, <2>4, <2>5, <2>6 DEF Entered, c, at, t, new
<1>7. CASE DeletedSlots(pg) # {}
  <2> DEFINE mid == [pg EXCEPT !.slots = [pg.slots EXCEPT ![t] = c]]
  <2>1. t \in DeletedSlots(pg)
    <3>1. DeletedSlots(pg) \in SUBSET Nat
      BY <1>1, <1>5
    <3>2. \E m \in DeletedSlots(pg) : \A i \in DeletedSlots(pg) : m <= i
      BY <1>7, <3>1, LeastOf
    <3> QED BY <1>7, <3>2 DEF TargetSlot, Min
  <2>2. t \in DOMAIN pg.slots /\ t \notin U
    BY <1>5, <2>1
  <2>3. /\ mid \in Pages /\ Len(mid.slots) = len /\ DOMAIN mid.slots = DOMAIN pg.slots
        /\ mid.lower = pg.lower
        /\ mid.slots[t] = c /\ \A j \in DOMAIN pg.slots : j # t => mid.slots[j] = pg.slots[j]
    BY <1>4, <2>2, SlotSet
  <2>4. new = [mid EXCEPT !.upper = at]
    BY <1>0, <1>7 DEF Write, Pages, c
  <2> HIDE DEF mid, new, t
  <2>5. new \in Pages /\ new.slots = mid.slots /\ new.upper = at /\ new.lower = pg.lower
    BY <1>3, <2>3, <2>4 DEF Pages
  <2>6. Bounded(new)
    BY <1>1, <1>3, <2>3, <2>5 DEF Bounded
  <2>7. UsedSlots(new) = U \cup {t} /\ \A i \in U : new.slots[i] = pg.slots[i]
    BY <1>4, <1>5, <2>2, <2>3, <2>5 DEF UsedSlots
  <2> QED BY <1>0, <1>3, <1>4, <2>2, <2>3, <2>5, <2>6, <2>7 DEF Entered, c, at, t, new
<1> QED BY <1>6, <1>7

\* Bytes copied to a place.
LEMMA CopiedIs ==
  ASSUME NEW buf \in Buffers, NEW at \in Nat, NEW n \in Nat, at + n <= PageSize, NEW rec \in Recs
  PROVE  /\ Copied(buf, at, n, rec) \in Buffers
         /\ \A j \in 0 .. n - 1 : Copied(buf, at, n, rec)[at + j] = <<rec, j>>
         /\ \A b \in Offsets : b < at \/ b >= at + n => Copied(buf, at, n, rec)[b] = buf[b]
<1> DEFINE new == Copied(buf, at, n, rec)
<1>0. PageSize \in Nat
  BY GeometryAssumption
<1>1. /\ \A b \in Offsets : b \in at .. at + n - 1 => new[b] = <<rec, b - at>>
      /\ \A b \in Offsets : b \notin at .. at + n - 1 => new[b] = buf[b]
      /\ new = [b \in Offsets |-> new[b]]
  BY DEF Copied
<1> HIDE DEF new
<1>2. new \in Buffers
  <2>1. ASSUME NEW b \in Offsets PROVE new[b] \in (Recs \cup {Junk}) \X Nat
    <3>1. CASE b \in at .. at + n - 1
      <4>1. b - at \in Nat
        BY <3>1
      <4> QED BY <1>1, <3>1, <4>1
    <3>2. CASE b \notin at .. at + n - 1
      BY <1>1, <3>2 DEF Buffers
    <3> QED BY <3>1, <3>2
  <2> QED BY <1>1, <2>1 DEF Buffers
<1>3. ASSUME NEW j \in 0 .. n - 1 PROVE new[at + j] = <<rec, j>>
  <2> DEFINE b == at + j
  <2>1. b \in Offsets /\ b \in at .. at + n - 1 /\ b - at = j
    BY <1>0 DEF Offsets
  <2> HIDE DEF b
  <2>2. new[b] = <<rec, j>>
    BY <1>1, <2>1
  <2> QED BY <2>2 DEF b
<1>4. ASSUME NEW b \in Offsets, b < at \/ b >= at + n PROVE new[b] = buf[b]
  <2>1. b \notin at .. at + n - 1
    BY <1>0, <1>4 DEF Offsets
  <2> QED BY <1>1, <2>1
<1> QED BY <1>2, <1>3, <1>4 DEF new

\* insert()'s copy: the page stays clear of overlaps and every record intact.
LEMMA EnteredKeeps ==
  ASSUME NEW pg \in Pages, Bounded(pg), Clear(pg), NEW buf \in Buffers, NEW new, NEW t,
         NEW rec \in Recs, NEW size \in Sizes, NEW at \in Offsets,
         Entered(pg, new, t, [offset |-> at, size |-> size, used |-> TRUE, rec |-> rec])
  PROVE  /\ Clear(new) /\ Copied(buf, at, size, rec) \in Buffers
         /\ Intact(pg, buf) => Intact(new, Copied(buf, at, size, rec))
<1> DEFINE U == UsedSlots(pg)
           cp == Copied(buf, at, size, rec)
           off(i) == pg.slots[i].offset
           len(i) == pg.slots[i].size
<1>1. /\ new \in Pages /\ UsedSlots(new) = U \cup {t} /\ t \notin U
      /\ new.slots[t] = [offset |-> at, size |-> size, used |-> TRUE, rec |-> rec]
      /\ \A i \in U : new.slots[i] = pg.slots[i]
      /\ at = new.upper /\ at + size = pg.upper
  BY DEF Entered
<1>2. new.slots[t].offset = at /\ new.slots[t].size = size /\ new.slots[t].rec = rec
  BY <1>1
<1>3. at \in Nat /\ size \in Nat /\ PageSize \in Nat /\ pg.upper \in Nat /\ pg.upper <= PageSize
      /\ pg.upper >= at
  <2>1. at \in Nat /\ size \in Nat /\ PageSize \in Nat
    BY GeometryAssumption, RecordAssumption DEF Offsets
  <2>2. pg.upper \in Nat /\ pg.upper <= PageSize
    BY DEF Pages, Bounded
  <2> QED BY <1>1, <2>1, <2>2
<1>4. \A i \in U : off(i) \in Nat /\ len(i) \in Nat /\ pg.upper <= off(i) /\ off(i) + len(i) <= PageSize
  BY SlotFacts DEF Clear
<1>5. \A i \in U : Below(new.slots[t], new.slots[i])
  BY <1>1, <1>2, <1>4 DEF Below
<1>6. Clear(new)
  <2>1. ASSUME NEW i \in UsedSlots(new)
        PROVE  new.upper <= new.slots[i].offset /\ new.slots[i].offset + new.slots[i].size <= PageSize
    <3>1. CASE i = t
      BY <1>1, <1>2, <1>3, <3>1
    <3>2. CASE i \in U
      <4>1. off(i) \in Nat /\ len(i) \in Nat /\ pg.upper <= off(i) /\ off(i) + len(i) <= PageSize
        BY <1>4, <3>2
      <4>2. at <= off(i)
        BY <1>3, <4>1
      <4>3. new.slots[i] = pg.slots[i] /\ new.upper = at
        BY <1>1, <3>2
      <4> QED BY <4>1, <4>2, <4>3
    <3> QED BY <1>1, <3>1, <3>2
  <2>2. ASSUME NEW i \in UsedSlots(new), NEW j \in UsedSlots(new), i # j
        PROVE  Below(new.slots[i], new.slots[j]) \/ Below(new.slots[j], new.slots[i])
    <3>1. CASE i = t
      BY <1>1, <1>5, <2>2, <3>1
    <3>2. CASE j = t
      BY <1>1, <1>5, <2>2, <3>2
    <3>3. CASE i \in U /\ j \in U
      <4>1. Below(pg.slots[i], pg.slots[j]) \/ Below(pg.slots[j], pg.slots[i])
        BY <2>2, <3>3 DEF Clear
      <4> QED BY <1>1, <3>3, <4>1
    <3> QED BY <1>1, <3>1, <3>2, <3>3
  <2> QED BY <2>1, <2>2 DEF Clear
<1>7. /\ cp \in Buffers /\ \A j \in 0 .. size - 1 : cp[at + j] = <<rec, j>>
      /\ \A b \in Offsets : b < at \/ b >= at + size => cp[b] = buf[b]
  <2>1. at + size <= PageSize
    BY <1>1, <1>3
  <2> HIDE DEF cp
  <2> QED BY <1>3, <2>1, CopiedIs DEF cp
<1> HIDE DEF cp
<1>8. ASSUME Intact(pg, buf) PROVE Intact(new, cp)
  <2>1. ASSUME NEW i \in UsedSlots(new), NEW j \in 0 .. new.slots[i].size - 1
        PROVE  cp[new.slots[i].offset + j] = <<new.slots[i].rec, j>>
    <3>1. CASE i = t
      BY <1>2, <1>7, <2>1, <3>1
    <3>2. CASE i \in U
      <4>1. new.slots[i] = pg.slots[i] /\ j \in 0 .. len(i) - 1
        BY <1>1, <2>1, <3>2
      <4>2. off(i) + j \in Offsets /\ off(i) + j >= at + size
        BY <1>1, <1>3, <1>4, <3>2, <4>1 DEF Offsets
      <4>3. cp[off(i) + j] = buf[off(i) + j]
        BY <1>7, <4>2
      <4>4. buf[off(i) + j] = <<pg.slots[i].rec, j>>
        BY <1>8, <3>2, <4>1 DEF Intact
      <4> QED BY <4>1, <4>3, <4>4
    <3> QED BY <1>1, <3>1, <3>2
  <2> QED BY <2>1 DEF Intact
<1> QED BY <1>6, <1>7, <1>8 DEF cp

\* update() in place: the record stays within the bytes of the one it replaces.
LEMMA OverwrittenKeeps ==
  ASSUME NEW pg \in Pages, Bounded(pg), Clear(pg), NEW buf \in Buffers,
         NEW i \in UsedSlots(pg), NEW rec \in Recs, NEW size \in Sizes, FitsInPlace(pg, i, size)
  PROVE  LET new == Overwritten(pg, i, rec, size)
             cp  == Copied(buf, pg.slots[i].offset, size, rec)
         IN  /\ new \in Pages /\ Bounded(new) /\ Clear(new) /\ cp \in Buffers
             /\ Intact(pg, buf) => Intact(new, cp)
<1> DEFINE U == UsedSlots(pg)
           new == Overwritten(pg, i, rec, size)
           off(k) == pg.slots[k].offset
           len(k) == pg.slots[k].size
           c == [pg.slots[i] EXCEPT !.size = size, !.rec = rec]
           cp == Copied(buf, off(i), size, rec)
<1>1. /\ i \in DOMAIN pg.slots /\ pg.slots[i] \in Slots /\ pg.slots[i].used
      /\ \A k \in U : k \in DOMAIN pg.slots /\ off(k) \in Nat /\ len(k) \in Nat
                      /\ off(k) + len(k) <= PageSize /\ pg.upper <= off(k)
  BY SlotFacts DEF UsedSlots, Clear
<1>2. size <= len(i) /\ size \in Nat /\ PageSize \in Nat
  BY RecordAssumption, GeometryAssumption DEF FitsInPlace
<1>3. c \in Slots /\ c.offset = off(i) /\ c.size = size /\ c.used /\ c.rec = rec
  <2> DEFINE s == pg.slots[i]
  <2>1. s \in Slots /\ s.used
    BY <1>1
  <2> HIDE DEF s
  <2> QED BY <2>1 DEF Slots, s
<1>4. new = [pg EXCEPT !.slots = [pg.slots EXCEPT ![i] = c]]
  <2>1. new = [pg EXCEPT !.slots = [[pg.slots EXCEPT ![i].size = size] EXCEPT ![i].rec = rec]]
    BY DEF Overwritten, Pages
  <2>2. [[pg.slots EXCEPT ![i].size = size] EXCEPT ![i].rec = rec] = [pg.slots EXCEPT ![i] = c]
    <3> DEFINE s == pg.slots[i]
    <3>1. [s EXCEPT !.size = size, !.rec = rec] = [[s EXCEPT !.size = size] EXCEPT !.rec = rec]
      OBVIOUS
    <3> QED BY <1>1, <3>1
  <2> QED BY <2>1, <2>2
<1> HIDE DEF c, new
<1>5. /\ new \in Pages /\ Len(new.slots) = Len(pg.slots) /\ DOMAIN new.slots = DOMAIN pg.slots
      /\ new.lower = pg.lower /\ new.upper = pg.upper
      /\ new.slots[i] = c /\ \A k \in DOMAIN pg.slots : k # i => new.slots[k] = pg.slots[k]
  BY <1>1, <1>3, <1>4, SlotSet
<1>6. UsedSlots(new) = U
  BY <1>1, <1>3, <1>5 DEF UsedSlots
<1>7. Bounded(new)
  BY <1>5 DEF Bounded
<1>8. ASSUME NEW k \in U
      PROVE  new.slots[k].offset = off(k) /\ new.slots[k].size \in Nat /\ new.slots[k].size <= len(k)
  <2>1. CASE k = i
    BY <1>2, <1>3, <1>5, <2>1
  <2>2. CASE k # i
    BY <1>1, <1>5, <2>2
  <2> QED BY <2>1, <2>2
<1>9. Clear(new)
  <2>1. ASSUME NEW k \in U
        PROVE  new.upper <= new.slots[k].offset /\ new.slots[k].offset + new.slots[k].size <= PageSize
    <3> DEFINE a == new.slots[k].offset
               z == new.slots[k].size
               o == off(k)
               l == len(k)
    <3>1. a = o /\ z \in Nat /\ z <= l /\ o \in Nat /\ l \in Nat /\ o + l <= PageSize /\ pg.upper <= o
      BY <1>1, <1>8
    <3>2. PageSize \in Nat /\ new.upper = pg.upper
      BY <1>2, <1>5
    <3> HIDE DEF a, z, o, l
    <3>3. new.upper <= a /\ a + z <= PageSize
      BY ONLY <3>1, <3>2
    <3> QED BY <3>3 DEF a, z
  <2>2. ASSUME NEW k \in U, NEW j \in U, k # j
        PROVE  Below(new.slots[k], new.slots[j]) \/ Below(new.slots[j], new.slots[k])
    <3>1. Below(pg.slots[k], pg.slots[j]) \/ Below(pg.slots[j], pg.slots[k])
      BY <2>2 DEF Clear
    <3>2. ASSUME NEW x \in U, NEW y \in U, Below(pg.slots[x], pg.slots[y])
          PROVE  Below(new.slots[x], new.slots[y])
      <4> DEFINE z == new.slots[x].size
                 o == off(x)
                 l == len(x)
                 p == off(y)
      <4>1. z \in Nat /\ z <= l /\ o \in Nat /\ l \in Nat /\ p \in Nat /\ o + l <= p
        BY <1>1, <1>8, <3>2 DEF Below
      <4>2. new.slots[x].offset = o /\ new.slots[y].offset = p
        BY <1>8
      <4> HIDE DEF z, o, l, p
      <4>3. o + z <= p
        BY ONLY <4>1
      <4> QED BY <4>2, <4>3 DEF Below, z
    <3> QED BY <3>1, <3>2
  <2> QED BY <1>6, <2>1, <2>2 DEF Clear
<1>10. /\ cp \in Buffers /\ \A j \in 0 .. size - 1 : cp[off(i) + j] = <<rec, j>>
       /\ \A b \in Offsets : b < off(i) \/ b >= off(i) + size => cp[b] = buf[b]
  <2>1. off(i) \in Nat /\ off(i) + size <= PageSize
    BY <1>1, <1>2
  <2> DEFINE o == off(i)
             cq == Copied(buf, o, size, rec)
  <2>2. o \in Nat /\ size \in Nat /\ o + size <= PageSize
    BY <1>2, <2>1
  <2> HIDE DEF o
  <2>3. /\ cq \in Buffers /\ \A j \in 0 .. size - 1 : cq[o + j] = <<rec, j>>
        /\ \A b \in Offsets : b < o \/ b >= o + size => cq[b] = buf[b]
    <3> HIDE DEF cq
    <3> QED BY ONLY <2>2, CopiedIs, buf \in Buffers, rec \in Recs DEF cq
  <2> QED BY <2>3 DEF o
<1> HIDE DEF cp
<1>11. ASSUME Intact(pg, buf) PROVE Intact(new, cp)
  <2>1. ASSUME NEW k \in U, NEW j \in 0 .. new.slots[k].size - 1
        PROVE  cp[new.slots[k].offset + j] = <<new.slots[k].rec, j>>
    <3>1. CASE k = i
      BY <1>3, <1>5, <1>10, <2>1, <3>1
    <3>2. CASE k # i
      <4>1. new.slots[k] = pg.slots[k] /\ j \in 0 .. len(k) - 1
        BY <1>1, <1>5, <2>1, <3>2
      <4>2. Below(pg.slots[k], pg.slots[i]) \/ Below(pg.slots[i], pg.slots[k])
        BY <3>2 DEF Clear
      <4>3. off(k) + j \in Offsets /\ (off(k) + j < off(i) \/ off(k) + j >= off(i) + size)
        BY <1>1, <1>2, <4>1, <4>2 DEF Offsets, Below
      <4>4. cp[off(k) + j] = buf[off(k) + j]
        BY <1>10, <4>3
      <4>5. buf[off(k) + j] = <<pg.slots[k].rec, j>>
        BY <1>11, <4>1 DEF Intact
      <4> QED BY <4>1, <4>4, <4>5
    <3> QED BY <3>1, <3>2
  <2> QED BY <1>6, <2>1 DEF Intact
<1> QED BY <1>5, <1>7, <1>9, <1>10, <1>11 DEF new, cp

\* remove(): one slot fewer is in use, and nothing else changes.
LEMMA RemovedKeeps ==
  ASSUME NEW pg \in Pages, Bounded(pg), Clear(pg), NEW buf, NEW i \in UsedSlots(pg)
  PROVE  LET new == Removed(pg, i)
         IN  /\ new \in Pages /\ Bounded(new) /\ Clear(new)
             /\ Intact(pg, buf) => Intact(new, buf)
<1> DEFINE U == UsedSlots(pg)
           new == Removed(pg, i)
           c == [pg.slots[i] EXCEPT !.used = FALSE]
<1>1. i \in DOMAIN pg.slots /\ pg.slots[i] \in Slots
  BY SlotFacts
<1>2. c \in Slots /\ ~ c.used
  <2> DEFINE s == pg.slots[i]
  <2>1. s \in Slots
    BY <1>1
  <2> HIDE DEF s
  <2> QED BY <2>1 DEF Slots, s
<1>3. new = [pg EXCEPT !.slots = [pg.slots EXCEPT ![i] = c]]
  BY <1>1 DEF Removed, Pages
<1> HIDE DEF c, new
<1>4. /\ new \in Pages /\ Len(new.slots) = Len(pg.slots) /\ DOMAIN new.slots = DOMAIN pg.slots
      /\ new.lower = pg.lower /\ new.upper = pg.upper
      /\ new.slots[i] = c /\ \A k \in DOMAIN pg.slots : k # i => new.slots[k] = pg.slots[k]
  BY <1>1, <1>2, <1>3, SlotSet
<1>5. UsedSlots(new) = U \ {i} /\ \A k \in U \ {i} : new.slots[k] = pg.slots[k]
  BY <1>2, <1>4 DEF UsedSlots
<1>6. Bounded(new)
  BY <1>4 DEF Bounded
<1>7. Clear(new)
  BY <1>4, <1>5 DEF Clear
<1>8. Intact(pg, buf) => Intact(new, buf)
  BY <1>5 DEF Intact
<1> QED BY <1>4, <1>6, <1>7, <1>8 DEF new

-----------------------------------------------------------------------------
(* What holds until a needed space wraps: the page's boundaries hold, its   *)
(* records do not overlap, and each is intact unless the page was written   *)
(* when too full.                                                           *)
Typed == page \in Pages /\ bytes \in Buffers /\ squeezed \in BOOLEAN

Kept ==
  /\ Typed
  /\ Bounded(page)
  /\ Clear(page)
  /\ squeezed \/ Intact(page, bytes)

LEMMA InitKept == Init => Kept /\ ~ wrapped
<1> SUFFICES ASSUME Init PROVE Kept /\ ~ wrapped
  OBVIOUS
<1>1. PageSize \in Nat /\ HeaderSize \in Nat /\ SlotSize \in Nat /\ HeaderSize <= PageSize
  BY GeometryAssumption
<1>2. page = NewPage /\ bytes = [b \in Offsets |-> <<Junk, 0>>] /\ squeezed = FALSE
  BY DEF Init
<1>3. page.lower = HeaderSize /\ page.upper = PageSize /\ page.slots = <<>>
  BY <1>2 DEF NewPage
<1>4. <<>> \in Seq(Slots) /\ Len(<<>>) = 0 /\ DOMAIN <<>> = {}
  OBVIOUS
<1>5. page \in Pages
  <2>1. HeaderSize \in Nat /\ PageSize \in Nat /\ <<>> \in Seq(Slots)
    BY <1>1, <1>4
  <2> QED BY <1>2, <2>1 DEF NewPage, Pages
<1>6. bytes \in Buffers
  BY <1>2 DEF Buffers
<1>7. UsedSlots(page) = {}
  BY <1>3, <1>4 DEF UsedSlots
<1>8. Bounded(page)
  <2>1. SlotSize * 0 = 0
    BY <1>1
  <2>2. Len(page.slots) = 0
    BY <1>3, <1>4
  <2>3. HeaderSize + SlotSize * Len(page.slots) = HeaderSize
    BY <1>1, <2>1, <2>2
  <2> QED BY <1>1, <1>3, <2>3 DEF Bounded
<1>9. ~ wrapped
  BY DEF Init
<1> QED BY <1>2, <1>5, <1>6, <1>7, <1>8, <1>9 DEF Kept, Typed, Clear, Intact

\* The same of the next state, by its parts.
LEMMA NextState ==
  ASSUME NEW new \in Pages, NEW buf \in Buffers, Bounded(new), Clear(new),
         page' = new, bytes' = buf, squeezed' \in BOOLEAN, squeezed' \/ Intact(new, buf)
  PROVE  Kept'
<1>1. Typed'
  BY DEF Typed
<1>2. Bounded(page)' /\ Clear(page)'
  BY DEF Bounded, Clear, UsedSlots
<1>3. (squeezed \/ Intact(page, bytes))'
  <2>1. CASE squeezed'
    BY <2>1
  <2>2. CASE Intact(new, buf)
    BY <2>2 DEF Intact, UsedSlots
  <2> QED BY <2>1, <2>2
<1> QED BY <1>1, <1>2, <1>3 DEF Kept

\* insert(): compaction if it is short, and then the copy or the exception.
LEMMA InsertKept ==
  ASSUME Kept, NEW rec \in Recs, NEW size \in Sizes, Insert(rec, size), wrapped' = FALSE, wrapped = FALSE
  PROVE  Kept'
<1> DEFINE short == NeedsCompaction(page, size)
           pg    == IF short THEN CompactedPage(page, bytes) ELSE page
           buf   == IF short THEN CompactedBytes(page, bytes) ELSE bytes
           at    == WriteOffset(pg, size)
           slot  == [offset |-> at, size |-> size, used |-> TRUE, rec |-> rec]
           new   == Write(pg, rec, size)
           cp    == Copied(buf, at, size, rec)
<1>1. page \in Pages /\ bytes \in Buffers /\ squeezed \in BOOLEAN /\ Bounded(page) /\ Clear(page)
  BY DEF Kept, Typed
<1>2. /\ \/ FreeSpace(pg) >= Needed(page, size) /\ page' = new /\ bytes' = cp /\ ~ Wraps(page, size)
         \/ page' = pg /\ bytes' = buf
      /\ squeezed' = squeezed
  BY DEF Insert
<1>3. /\ pg \in Pages /\ Bounded(pg) /\ Clear(pg) /\ buf \in Buffers
      /\ DeletedSlots(pg) = DeletedSlots(page) /\ (Intact(page, bytes) => Intact(pg, buf))
  <2>1. CASE short
    <3>1. pg = CompactedPage(page, bytes) /\ buf = CompactedBytes(page, bytes)
      BY <2>1
    <3> HIDE DEF pg, buf
    <3>2. Compaction(page, bytes, pg, buf)
      BY <1>1, <3>1, CompactionIs
    <3>3. DOMAIN page.slots = 1..Len(page.slots) /\ DOMAIN pg.slots = 1..Len(page.slots)
          /\ \A i \in DOMAIN page.slots : pg.slots[i].used = page.slots[i].used
      BY <1>1, <3>2, SlotFacts DEF Compaction
    <3>4. DeletedSlots(pg) = DeletedSlots(page)
      BY <3>3 DEF DeletedSlots
    <3>5. /\ UsedSlots(pg) = UsedSlots(page) /\ UsedSlots(page) \in SUBSET DOMAIN page.slots
          /\ \A i \in UsedSlots(page) :
               /\ pg.slots[i].size = page.slots[i].size /\ pg.slots[i].rec = page.slots[i].rec
               /\ \A j \in 0 .. page.slots[i].size - 1 :
                    buf[pg.slots[i].offset + j] = bytes[page.slots[i].offset + j]
      BY <1>1, <3>2, SlotFacts DEF Compaction
    <3>6. Intact(page, bytes) => Intact(pg, buf)
      BY <3>5 DEF Intact
    <3> QED BY <3>2, <3>4, <3>6 DEF Compaction
  <2>2. CASE ~ short
    BY <1>1, <2>2
  <2> QED BY <2>1, <2>2
<1>4. squeezed \/ Intact(pg, buf)
  BY <1>3 DEF Kept
<1> HIDE DEF pg, buf
<1>5. CASE FreeSpace(pg) >= Needed(page, size) /\ page' = new /\ bytes' = cp /\ ~ Wraps(page, size)
  <2>1. FreeSpace(pg) >= Needed(pg, size) /\ ~ Wraps(pg, size)
    BY <1>3, <1>5 DEF Needed, Wraps, Entry
  <2>2. Entered(pg, new, TargetSlot(pg), slot) /\ at \in Offsets
    BY <1>3, <2>1, WriteIs
  <2> HIDE DEF at, new
  <2>3. Clear(new) /\ cp \in Buffers /\ (Intact(pg, buf) => Intact(new, cp))
    BY <1>3, <2>2, EnteredKeeps
  <2>4. new \in Pages /\ Bounded(new)
    BY <2>2 DEF Entered
  <2>5. squeezed' \in BOOLEAN /\ (squeezed' \/ Intact(new, cp))
    BY <1>1, <1>2, <1>4, <2>3
  <2> HIDE DEF cp
  <2> QED BY <1>5, <2>3, <2>4, <2>5, NextState
<1>6. CASE page' = pg /\ bytes' = buf
  BY <1>1, <1>2, <1>3, <1>4, <1>6, NextState
<1> QED BY <1>2, <1>5, <1>6

LEMMA UpdateKept ==
  ASSUME Kept, NEW i \in DOMAIN page.slots, NEW rec \in Recs, NEW size \in Sizes, Update(i, rec, size)
  PROVE  Kept'
<1> DEFINE new == Overwritten(page, i, rec, size)
           cp  == Copied(bytes, page.slots[i].offset, size, rec)
<1>1. page \in Pages /\ bytes \in Buffers /\ squeezed \in BOOLEAN /\ Bounded(page) /\ Clear(page)
  BY DEF Kept, Typed
<1>2. i \in UsedSlots(page) /\ FitsInPlace(page, i, size) /\ page' = new /\ bytes' = cp /\ squeezed' = squeezed
  BY DEF Update
<1>3. /\ new \in Pages /\ Bounded(new) /\ Clear(new) /\ cp \in Buffers
      /\ Intact(page, bytes) => Intact(new, cp)
  BY <1>1, <1>2, OverwrittenKeeps
<1>4. squeezed \/ Intact(page, bytes)
  BY DEF Kept
<1> HIDE DEF new, cp
<1> QED BY <1>1, <1>2, <1>3, <1>4, NextState

LEMMA DeleteKept ==
  ASSUME Kept, NEW i \in DOMAIN page.slots, Delete(i)
  PROVE  Kept'
<1> DEFINE new == Removed(page, i)
<1>1. page \in Pages /\ bytes \in Buffers /\ squeezed \in BOOLEAN /\ Bounded(page) /\ Clear(page)
  BY DEF Kept, Typed
<1>2. i \in UsedSlots(page) /\ page' = new /\ bytes' = bytes /\ squeezed' = squeezed
  BY DEF Delete
<1>3. new \in Pages /\ Bounded(new) /\ Clear(new) /\ (Intact(page, bytes) => Intact(new, bytes))
  BY <1>1, <1>2, RemovedKeeps
<1>4. squeezed \/ Intact(page, bytes)
  BY DEF Kept
<1> HIDE DEF new
<1> QED BY <1>1, <1>2, <1>3, <1>4, NextState

\* The write to the file covers MetaSize bytes past "lower": free ones.
LEMMA SaveKept ==
  ASSUME Kept, Save
  PROVE  Kept'
<1> DEFINE sv == SavedBytes(page, bytes)
<1>1. page \in Pages /\ bytes \in Buffers /\ squeezed \in BOOLEAN /\ Bounded(page) /\ Clear(page)
  BY DEF Kept, Typed
<1>2. bytes' = sv /\ squeezed' = (squeezed \/ FreeSpace(page) < MetaSize) /\ page' = page
  BY DEF Save
<1>3. /\ \A b \in Offsets : sv[b] = <<Junk, 0>> \/ sv[b] = bytes[b]
      /\ \A b \in Offsets : ~ (b < HeaderSize + MetaSize + SlotSize * Len(page.slots)) => sv[b] = bytes[b]
      /\ sv = [b \in Offsets |-> sv[b]]
  BY DEF SavedBytes
<1> HIDE DEF sv
<1>4. sv \in Buffers
  <2>1. \A b \in Offsets : bytes[b] \in (Recs \cup {Junk}) \X Nat
    BY <1>1 DEF Buffers
  <2>2. <<Junk, 0>> \in (Recs \cup {Junk}) \X Nat
    OBVIOUS
  <2> QED BY <1>3, <2>1, <2>2 DEF Buffers
<1>5. ASSUME ~ squeezed' PROVE Intact(page, sv)
  <2>1. Intact(page, bytes)
    BY <1>1, <1>2, <1>5 DEF Kept
  <2>2. page.upper \in Nat /\ page.lower \in Nat /\ page.lower = HeaderSize + SlotSize * Len(page.slots)
    BY <1>1 DEF Pages, Bounded
  <2>3. MetaSize \in Nat /\ HeaderSize \in Nat /\ SlotSize * Len(page.slots) \in Int /\ PageSize \in Nat
    <3>1. SlotSize \in Int /\ Len(page.slots) \in Int
      BY <1>1, SlotFacts, GeometryAssumption
    <3>2. SlotSize * Len(page.slots) \in Int
      BY ONLY <3>1
    <3> QED BY <3>2, RecordAssumption, GeometryAssumption
  <2>4. page.lower + MetaSize <= page.upper
    <3> DEFINE l == page.lower
               u == page.upper
    <3>1. ~ (FreeSpace(page) < MetaSize)
      BY <1>2, <1>5
    <3>2. ~ (u - l < MetaSize)
      BY <3>1 DEF FreeSpace
    <3>3. l \in Nat /\ u \in Nat
      BY <2>2
    <3> HIDE DEF l, u
    <3>4. l + MetaSize <= u
      BY ONLY <2>3, <3>2, <3>3
    <3> QED BY <3>4 DEF l, u
  <2>5. HeaderSize + MetaSize + SlotSize * Len(page.slots) <= page.upper
    <3> DEFINE w == SlotSize * Len(page.slots)
    <3>1. w \in Int /\ page.lower = HeaderSize + w
      BY <2>2, <2>3
    <3> HIDE DEF w
    <3>2. HeaderSize + MetaSize + w <= page.upper
      BY <2>2, <2>3, <2>4, <3>1
    <3> QED BY <3>2 DEF w
  <2>6. ASSUME NEW i \in UsedSlots(page), NEW j \in 0 .. page.slots[i].size - 1
        PROVE  sv[page.slots[i].offset + j] = <<page.slots[i].rec, j>>
    <3> DEFINE b == page.slots[i].offset + j
    <3>1. /\ page.slots[i].offset \in Nat /\ page.slots[i].size \in Nat
          /\ page.upper <= page.slots[i].offset
          /\ page.slots[i].offset + page.slots[i].size <= PageSize
      BY <1>1, SlotFacts DEF Clear
    <3>2. b \in Offsets /\ page.upper <= b /\ b \in Nat
      <4> DEFINE o == page.slots[i].offset
                 s == page.slots[i].size
                 u == page.upper
      <4>1. o \in Nat /\ s \in Nat /\ u <= o /\ o + s <= PageSize /\ u \in Nat /\ j \in 0 .. s - 1
        BY <2>2, <3>1
      <4> HIDE DEF o, s, u
      <4>2. o + j \in Nat /\ o + j <= PageSize - 1 /\ u <= o + j
        BY ONLY <2>3, <4>1
      <4> QED BY <2>3, <4>2 DEF Offsets, o, u
    <3>3. bytes[b] = <<page.slots[i].rec, j>>
      BY <2>1, <2>6 DEF Intact
    <3> HIDE DEF b
    <3>4. ~ (b < HeaderSize + MetaSize + SlotSize * Len(page.slots))
      <4> DEFINE w == HeaderSize + MetaSize + SlotSize * Len(page.slots)
      <4>1. w \in Int /\ w <= page.upper
        BY <2>3, <2>5
      <4> HIDE DEF w
      <4>2. ~ (b < w)
        BY <2>2, <3>2, <4>1
      <4> QED BY <4>2 DEF w
    <3>5. sv[b] = <<page.slots[i].rec, j>>
      BY <1>3, <3>2, <3>3, <3>4
    <3> QED BY <3>5 DEF b
  <2> QED BY <2>6 DEF Intact
<1>6. squeezed' \in BOOLEAN
  BY <1>1, <1>2
<1>7. squeezed' \/ Intact(page, sv)
  BY <1>5
<1> QED BY <1>1, <1>2, <1>4, <1>6, <1>7, NextState

\* What is left to say of a page once a needed space wrapped: its slot array is
\* what "lower" says, and nothing more.
LooseSlots == [offset : Nat, size : Sizes, used : BOOLEAN, rec : Recs]

Loose ==
  /\ page.slots \in Seq(LooseSlots) /\ page.upper \in Nat
  /\ page.lower = HeaderSize + SlotSize * Len(page.slots)
  /\ DeletedSlots(page) = {}
  /\ bytes \in Buffers /\ squeezed \in BOOLEAN

LEMMA LooserSlots ==
  ASSUME NEW s \in Seq(Slots)
  PROVE  s \in Seq(LooseSlots)
<1>1. \A x \in Slots : x \in LooseSlots
  BY GeometryAssumption DEF Slots, LooseSlots, Offsets
<1>2. \A i \in 1..Len(s) : s[i] \in LooseSlots
  BY <1>1, ElementOfSeq
<1>3. Len(s) \in Nat /\ s = [i \in 1..Len(s) |-> s[i]]
  BY LenProperties
<1> QED BY <1>2, <1>3, IsASeq

(* The inductive invariant.                                                 *)
IInv ==
  \/ wrapped = FALSE /\ Kept
  \/ wrapped = TRUE /\ Loose

\* A sum wraps only for a page without a deleted slot, which is not compacted.
LEMMA WrapIs ==
  ASSUME NEW size \in Sizes, Wraps(page, size)
  PROVE  DeletedSlots(page) = {} /\ ~ NeedsCompaction(page, size)
<1>1. size \in Nat /\ size < Word /\ Word \in Nat
  BY RecordAssumption, GeometryAssumption
<1>2. DeletedSlots(page) = {}
  <2> SUFFICES ASSUME DeletedSlots(page) # {} PROVE FALSE
    OBVIOUS
  <2>1. Entry(page) = 0
    BY DEF Entry
  <2> QED BY <1>1, <2>1 DEF Wraps
<1> QED BY <1>2 DEF NeedsCompaction

LEMMA InsertLoose ==
  ASSUME Kept, NEW rec \in Recs, NEW size \in Sizes, Insert(rec, size), wrapped' # FALSE, wrapped = FALSE
  PROVE  wrapped' = TRUE /\ Loose'
<1> DEFINE at  == WriteOffset(page, size)
           c   == [offset |-> at, size |-> size, used |-> TRUE, rec |-> rec]
           len == Len(page.slots)
<1>1. page \in Pages /\ bytes \in Buffers /\ squeezed \in BOOLEAN /\ Bounded(page)
  BY DEF Kept, Typed
<1>2. wrapped' = Wraps(page, size) /\ squeezed' = squeezed
  BY DEF Insert
<1>3. Wraps(page, size)
  <2>1. Wraps(page, size) \in BOOLEAN
    BY DEF Wraps
  <2> QED BY <1>2, <2>1
<1>4. DeletedSlots(page) = {} /\ ~ NeedsCompaction(page, size)
  BY <1>3, WrapIs
<1>5. page' = Write(page, rec, size) /\ bytes' = Copied(bytes, at, size, rec)
  BY <1>2, <1>3, <1>4 DEF Insert
<1>6. at \in Nat /\ size \in Nat
  <2>1. page.upper - size \in Int /\ Word \in Nat /\ Word > 0
    BY <1>1, GeometryAssumption, RecordAssumption DEF Pages
  <2> QED BY <2>1, RecordAssumption DEF WriteOffset
<1> HIDE DEF at
<1>7. c \in LooseSlots
  BY <1>6 DEF LooseSlots
<1> HIDE DEF c
<1>8. page.slots \in Seq(LooseSlots) /\ len \in Nat
  <2>1. page.slots \in Seq(Slots)
    BY <1>1 DEF Pages
  <2> QED BY <2>1, LooserSlots, LenProperties
<1>9. page'.slots = Append(page.slots, c) /\ page'.upper = at /\ page'.lower = page.lower + SlotSize
  BY <1>1, <1>4, <1>5 DEF Write, Pages, at, c
<1>10. page'.slots \in Seq(LooseSlots) /\ Len(page'.slots) = len + 1
  BY <1>7, <1>8, <1>9, AppendProperties
<1>11. page'.lower = HeaderSize + SlotSize * Len(page'.slots)
  <2>1. SlotSize \in Nat /\ HeaderSize \in Nat /\ page.lower = HeaderSize + SlotSize * len
    BY <1>1, GeometryAssumption DEF Bounded
  <2>2. SlotSize * (len + 1) = SlotSize * len + SlotSize /\ SlotSize * len \in Nat
    BY ONLY <1>8, <2>1
  <2>3. page'.lower = (HeaderSize + SlotSize * len) + SlotSize
    BY <1>9, <2>1
  <2>4. SlotSize * Len(page'.slots) = SlotSize * (len + 1)
    BY <1>10
  <2> DEFINE w == SlotSize * len
  <2> HIDE DEF w, len
  <2> QED BY <2>1, <2>2, <2>3, <2>4 DEF w
<1>12. bytes' \in Buffers
  <2>1. \A b \in Offsets : b \in Nat /\ bytes[b] \in (Recs \cup {Junk}) \X Nat
    BY <1>1, GeometryAssumption DEF Offsets, Buffers
  <2>2. ASSUME NEW b \in Offsets
        PROVE (IF b \in at .. at + size - 1 THEN <<rec, b - at>> ELSE bytes[b]) \in (Recs \cup {Junk}) \X Nat
    <3>1. CASE b \in at .. at + size - 1
      <4>1. b - at \in Nat
        BY <1>6, <2>1, <3>1
      <4> QED BY <3>1, <4>1
    <3>2. CASE b \notin at .. at + size - 1
      BY <2>1, <3>2
    <3> QED BY <3>1, <3>2
  <2> QED BY <1>5, <2>2 DEF Copied, Buffers
<1>13. (DeletedSlots(page) = {})'
  <2>1. \A i \in DOMAIN page.slots : page.slots[i].used
    BY <1>4 DEF DeletedSlots
  <2>2. DOMAIN page.slots = 1..len /\ DOMAIN page'.slots = 1..(len + 1)
    BY <1>8, <1>10, LenProperties
  <2>3. \A i \in 1..len : page'.slots[i] = page.slots[i]
    BY <1>7, <1>8, <1>9, AppendProperties
  <2>4. page'.slots[len + 1] = c /\ c.used
    BY <1>7, <1>8, <1>9, AppendProperties DEF c
  <2>5. 1..(len + 1) = (1..len) \cup {len + 1}
    BY <1>8
  <2>6. \A i \in DOMAIN page'.slots : page'.slots[i].used
    BY <2>1, <2>2, <2>3, <2>4, <2>5
  <2> QED BY <2>6 DEF DeletedSlots
<1> QED BY <1>1, <1>2, <1>3, <1>6, <1>9, <1>10, <1>11, <1>12, <1>13 DEF Loose, Wraps

LEMMA NextIInv ==
  ASSUME IInv, [Next]_vars
  PROVE  IInv'
<1>1. CASE UNCHANGED vars
  <2>1. page' = page /\ bytes' = bytes /\ squeezed' = squeezed /\ wrapped' = wrapped
    BY <1>1 DEF vars
  <2>2. ASSUME Kept PROVE Kept'
    <3>1. /\ page \in Pages /\ bytes \in Buffers /\ squeezed \in BOOLEAN /\ Bounded(page) /\ Clear(page)
          /\ squeezed \/ Intact(page, bytes)
      BY <2>2 DEF Kept, Typed
    <3> QED BY <2>1, <3>1, NextState
  <2>3. Loose => Loose'
    BY <2>1 DEF Loose
  <2> QED BY <2>1, <2>2, <2>3 DEF IInv
<1>2. CASE Next
  <2>1. wrapped = FALSE /\ Kept
    BY <1>2 DEF Next, IInv
  <2>2. CASE \E rec \in Recs, size \in Sizes : Insert(rec, size)
    <3>1. PICK rec \in Recs, size \in Sizes : Insert(rec, size)
      BY <2>2
    <3>2. CASE wrapped' = FALSE
      BY <2>1, <3>1, <3>2, InsertKept DEF IInv
    <3>3. CASE wrapped' # FALSE
      BY <2>1, <3>1, <3>3, InsertLoose DEF IInv
    <3> QED BY <3>2, <3>3
  <2>3. CASE \E i \in DOMAIN page.slots, rec \in Recs, size \in Sizes : Update(i, rec, size)
    <3>1. wrapped' = FALSE
      BY <2>1, <2>3 DEF Update
    <3> QED BY <2>1, <2>3, <3>1, UpdateKept DEF IInv
  <2>4. CASE \E i \in DOMAIN page.slots : Delete(i)
    <3>1. wrapped' = FALSE
      BY <2>1, <2>4 DEF Delete
    <3> QED BY <2>1, <2>4, <3>1, DeleteKept DEF IInv
  <2>5. CASE Save
    <3>1. wrapped' = FALSE
      BY <2>1, <2>5 DEF Save
    <3> QED BY <2>1, <2>5, <3>1, SaveKept DEF IInv
  <2> QED BY <1>2, <2>2, <2>3, <2>4, <2>5 DEF Next
<1> QED BY <1>1, <1>2

(* For every size of the page, the slot entry and the records, 16-bit sums  *)
(* included: until a needed space wraps the page keeps its geometry and its *)
(* records stay apart and, unless it was written to the file too full,      *)
(* intact; the wrap itself takes a record whose length and slot entry       *)
(* together exceed 16 bits.                                                 *)
THEOREM Invariance == Spec => []IInv
<1>1. Init => IInv
  BY InitKept DEF IInv
<1>2. IInv /\ [Next]_vars => IInv'
  BY NextIInv
<1> QED BY <1>1, <1>2, PTL DEF Spec

(* The slot array ends at "lower", and until a needed space wraps every     *)
(* payload begins in the page and "lower" never passes "upper", for every   *)
(* sequence of operations.                                                  *)
THEOREM TypeCorrect == Spec => []TypeOK
<1>1. IInv => TypeOK
  <2> SUFFICES ASSUME IInv PROVE TypeOK
    OBVIOUS
  <2>1. CASE wrapped = FALSE /\ Kept
    <3>1. page \in Pages /\ bytes \in Buffers /\ squeezed \in BOOLEAN /\ Bounded(page)
      BY <2>1 DEF Kept, Typed
    <3>2. page.slots \in Seq(Slots) /\ page.upper \in Nat
      BY <3>1 DEF Pages
    <3>3. page.slots \in Seq(LooseSlots)
      BY <3>2, LooserSlots
    <3>4. \A i \in DOMAIN page.slots : page.slots[i].offset \in Offsets
      BY <3>1, SlotFacts DEF Slots
    <3> QED BY <2>1, <3>1, <3>2, <3>3, <3>4 DEF TypeOK, Bounded, Buffers, LooseSlots
  <2>2. CASE wrapped = TRUE /\ Loose
    BY <2>2 DEF TypeOK, Loose, Buffers, LooseSlots
  <2> QED BY <2>1, <2>2 DEF IInv
<1> QED BY Invariance, <1>1, PTL

(* No two records of a page share a byte, and none reaches into the free    *)
(* space or past the end, until a needed space wraps.                       *)
THEOREM DisjointCorrect == Spec => []SlotsDisjoint
<1>1. IInv => SlotsDisjoint
  <2> SUFFICES ASSUME IInv, ~ wrapped PROVE SlotsDisjoint
    BY DEF SlotsDisjoint
  <2>0. Kept
    BY DEF IInv
  <2>1. page \in Pages /\ Clear(page) /\ PageSize \in Nat /\ page.upper \in Nat
    BY <2>0, GeometryAssumption DEF Kept, Typed, Pages
  <2>2. \A i \in UsedSlots(page) : page.slots[i].offset \in Nat /\ page.slots[i].size \in Nat
    BY <2>1, SlotFacts
  <2>3. ASSUME NEW i \in UsedSlots(page) PROVE Extent(page.slots[i]) \subseteq page.upper .. PageSize - 1
    <3> DEFINE o == page.slots[i].offset
               s == page.slots[i].size
    <3>1. o \in Nat /\ s \in Nat /\ page.upper <= o /\ o + s <= PageSize
      BY <2>1, <2>2 DEF Clear
    <3>2. Extent(page.slots[i]) = o .. o + s - 1
      BY DEF Extent
    <3> HIDE DEF o, s
    <3> QED BY <2>1, <3>1, <3>2
  <2>4. ASSUME NEW i \in UsedSlots(page), NEW j \in UsedSlots(page) \ {i}
        PROVE  Extent(page.slots[i]) \cap Extent(page.slots[j]) = {}
    <3> DEFINE o == page.slots[i].offset
               s == page.slots[i].size
               p == page.slots[j].offset
               t == page.slots[j].size
    <3>1. o + s <= p \/ p + t <= o
      BY <2>1 DEF Clear, Below
    <3>2. o \in Nat /\ s \in Nat /\ p \in Nat /\ t \in Nat
      BY <2>2
    <3>3. Extent(page.slots[i]) = o .. o + s - 1 /\ Extent(page.slots[j]) = p .. p + t - 1
      BY DEF Extent
    <3> HIDE DEF o, s, p, t
    <3> QED BY <3>1, <3>2, <3>3
  <2> QED BY <2>3, <2>4 DEF SlotsDisjoint
<1> QED BY Invariance, <1>1, PTL

(* Every used slot reads back what was last written to it, whatever was     *)
(* slid, reused and saved since, unless the page was saved too full.        *)
THEOREM IntactCorrect == Spec => []RecordsIntact
<1>1. IInv => RecordsIntact
  <2> SUFFICES ASSUME IInv, ~ squeezed, ~ wrapped PROVE \A i \in UsedSlots(page) : Read(i) = Written(i)
    BY DEF RecordsIntact
  <2>1. Intact(page, bytes)
    BY DEF IInv, Kept
  <2> QED BY <2>1 DEF Intact, Read, Written
<1> QED BY Invariance, <1>1, PTL

(* In every state, the record-by-record loop of compact() would leave the   *)
(* layout of the closed formula, with every record's bytes moved unharmed.  *)
THEOREM LoopCorrect == Spec => []LoopCompacts
<1>1. IInv => LoopCompacts
  <2> SUFFICES ASSUME IInv, ~ wrapped PROVE LoopCompacts
    BY DEF LoopCompacts
  <2>1. Compaction(page, bytes, CompactedPage(page, bytes), CompactedBytes(page, bytes))
    BY CompactionIs DEF IInv, Kept, Typed
  <2> QED BY <2>1 DEF LoopCompacts, Compaction
<1> QED BY Invariance, <1>1, PTL

(* A page with a deleted slot turns a record away only when its records and *)
(* its slot array really leave no room for it.                              *)
THEOREM RejectsCorrect == Spec => []RejectsOnlyWhenFull
<1>1. IInv => RejectsOnlyWhenFull
  <2> SUFFICES ASSUME IInv, NEW size \in Sizes, DeletedSlots(page) # {}, ~ Accepts(page, size)
               PROVE  page.lower + BytesOf(page, UsedSlots(page)) + size > PageSize
    BY DEF RejectsOnlyWhenFull
  <2>1. page \in Pages /\ bytes \in Buffers /\ Bounded(page) /\ Clear(page)
    BY DEF IInv, Kept, Typed, Loose
  <2>2. PageSize \in Nat /\ size \in Nat /\ page.lower \in Nat /\ page.upper \in Nat
    BY <2>1, GeometryAssumption, RecordAssumption DEF Pages
  <2>3. Needed(page, size) = size
    <3>1. Entry(page) = 0 /\ size < Word
      BY RecordAssumption DEF Entry
    <3> QED BY <2>2, <3>1, GeometryAssumption, Unwrapped DEF Needed
  <2>4. NeedsCompaction(page, size)
    <3> SUFFICES ASSUME ~ NeedsCompaction(page, size) PROVE FALSE
      OBVIOUS
    <3>1. ~ (FreeSpace(page) < size) /\ ~ (FreeSpace(page) >= size)
      BY <2>3 DEF NeedsCompaction, Accepts, Prepared
    <3>2. FreeSpace(page) \in Int
      BY <2>2 DEF FreeSpace
    <3> QED BY <2>2, <3>1, <3>2
  <2>5. ~ (FreeSpace(Compacted(page)) >= size)
    BY <2>3, <2>4 DEF Accepts, Prepared
  <2>6. Compacted(page).lower = page.lower
        /\ Compacted(page).upper = PageSize - BytesOf(page, UsedSlots(page))
    <3>1. Compaction(page, bytes, CompactedPage(page, bytes), CompactedBytes(page, bytes))
      BY <2>1, CompactionIs
    <3> QED BY <3>1 DEF Compaction
  <2>7. BytesOf(page, UsedSlots(page)) \in Nat
    BY <2>1, SlotFacts, BytesTake
  <2> DEFINE w == BytesOf(page, UsedSlots(page))
  <2>8. ~ ((PageSize - w) - page.lower >= size) /\ w \in Nat
    BY <2>5, <2>6, <2>7 DEF FreeSpace
  <2> HIDE DEF w
  <2>9. page.lower + w + size > PageSize
    BY ONLY <2>2, <2>8
  <2> QED BY <2>9 DEF w
<1> QED BY Invariance, <1>1, PTL

=============================================================================
