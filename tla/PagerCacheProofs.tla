-------------------------- MODULE PagerCacheProofs --------------------------
(* What the page cache guarantees for every set of pages and every size of  *)
(* at least two: its calls can always do their work, references stay valid, *)
(* and eviction is invisible.                                               *)
EXTENDS PagerCache, SequenceTheorems, FiniteSetTheorems, TLAPS

-----------------------------------------------------------------------------
(* A pager whose parts have their types, with the list exact and every page *)
(* that the file has not got waiting to be written.                         *)
PageType  == [dirty : BOOLEAN, pins : Nat, current : BOOLEAN]

Typed(s) ==
  /\ Cached(s) \subseteq Pages
  /\ s \in [cache  : [Cached(s) -> PageType],
            lru    : Seq(Pages),
            mapped : SUBSET Pages,
            file   : [Pages -> {"none", "stale", "current"}]]

Listed(s) ==
  /\ IsInjective(s.lru)
  /\ ToSet(s.lru) = Cached(s) /\ s.mapped = Cached(s)

Sound(s) ==
  /\ Typed(s)
  /\ IsFiniteSet(Cached(s)) /\ Cardinality(Cached(s)) <= CacheSize
  /\ Listed(s)
  /\ \A q \in Cached(s) : s.file[q] = "none" => s.cache[q].dirty

\* The pages that a getPage finds, in the cache or in the file.
Had(s) == {q \in Pages : q \in Cached(s) \/ s.file[q] # "none"}

\* Exactly the pages in P are pinned, each of them once.
PinnedAre(s, P) ==
  /\ P \subseteq Cached(s)
  /\ \A q \in Cached(s) : s.cache[q].pins = IF q \in P THEN 1 ELSE 0

-----------------------------------------------------------------------------
(* The grammar of the calls c that are still to be made, as rules on every  *)
(* call and its neighbours.  What the calls before c have left is in R (the *)
(* valid references), T (the pages accessed) and H (the pages there are).   *)
Through == {"use", "change", "slip"}

\* From call j on: page n is worked on while page p is pinned.
Inner(c, j, n, p) ==
  /\ j + 4 <= Len(c)
  /\ c[j] = Call("get", n) /\ c[j + 1] = Call("pin", n)
  /\ c[j + 2] = Call("change", n) /\ c[j + 3] = Call("unpin", n)
  /\ c[j + 4] = Call("unpin", p)

\* What follows the pin at k: work on the page, and its unpin.
Bracket(c, k) ==
  /\ k + 2 <= Len(c) /\ c[k + 1].do \in Through /\ c[k + 1].id = c[k].id
  /\ \/ c[k + 2] = Call("unpin", c[k].id)
     \/ \E n \in Pages \ {c[k].id} : Inner(c, k + 2, n, c[k].id)

\* A reference is used right after the call that yields or keeps it.
Anchored(c, k, R) ==
  c[k].do \in Through =>
    IF k = 1 THEN c[k].id \in R
    ELSE /\ c[k - 1].id = c[k].id
         /\ c[k - 1].do \in {"get", "pin"} \/ (c[k - 1].do = "unpin" /\ c[k].do = "use")

PinRule(c, k, R) ==
  c[k].do = "pin" =>
    /\ Bracket(c, k)
    /\ IF k = 1 THEN c[k].id \in R ELSE c[k - 1] = Call("get", c[k].id)

UnpinRule(c, k, R, T) ==
  c[k].do = "unpin" =>
    /\ c[k].id \in T \/ \E j \in 1 .. k - 1 : c[j].id = c[k].id
    /\ k < Len(c) /\ c[k + 1].do = "use" =>
         IF k = 1 THEN c[k].id \in R
         ELSE c[k - 1].id = c[k].id /\ c[k - 1].do = "use"

GetRule(c, k, H) ==
  c[k].do \in {"get", "free"} =>
    c[k].id \in H \/ \E j \in 1 .. k - 1 : c[j] = Call("alloc", c[k].id)

Orderly(c, R, T, H) ==
  \A k \in DOMAIN c :
    /\ c[k].id \in Pages <=> c[k].do # "flush"
    /\ Anchored(c, k, R) /\ PinRule(c, k, R) /\ UnpinRule(c, k, R, T) /\ GetRule(c, k, H)

(* How far the work on pinned pages has come, at each call of a bracket.    *)
Outside == PinnedAre(pager, {})

Working(p) ==
  /\ PinnedAre(pager, {p}) /\ Len(plan) >= 2
  /\ plan[1].do \in Through /\ plan[1].id = p /\ plan[2] = Call("unpin", p)

Leaving(p) == PinnedAre(pager, {p}) /\ plan # <<>> /\ plan[1] = Call("unpin", p)

WorkingAround(p, n) ==
  /\ PinnedAre(pager, {p}) /\ pager.lru[1] = p
  /\ plan[1].do \in Through /\ plan[1].id = p /\ Inner(plan, 2, n, p)

Entering(p, n) == PinnedAre(pager, {p}) /\ pager.lru[1] = p /\ Inner(plan, 1, n, p)

Inside(p, n) ==
  /\ PinnedAre(pager, {p}) /\ Len(plan) >= 4
  /\ plan[1] = Call("pin", n) /\ plan[2] = Call("change", n)
  /\ plan[3] = Call("unpin", n) /\ plan[4] = Call("unpin", p)

WorkingInside(p, n) ==
  /\ PinnedAre(pager, {p, n}) /\ Len(plan) >= 3
  /\ plan[1] = Call("change", n) /\ plan[2] = Call("unpin", n) /\ plan[3] = Call("unpin", p)

LeavingInside(p, n) ==
  /\ PinnedAre(pager, {p, n}) /\ Len(plan) >= 2
  /\ plan[1] = Call("unpin", n) /\ plan[2] = Call("unpin", p)

Pinning ==
  \/ Outside
  \/ \E p \in Pages : Working(p) \/ Leaving(p)
  \/ \E p \in Pages : \E n \in Pages \ {p} :
       \/ WorkingAround(p, n) \/ Entering(p, n) \/ Inside(p, n)
       \/ WorkingInside(p, n) \/ LeavingInside(p, n)

(* persistFreelist keeps its reference to the last freelist page, without a *)
(* pin, while it allocates and gets another one: at each call the page is   *)
(* among the two most recent.                                               *)
Adding(last, f) ==
  \/ /\ plan = <<Call("get", last), Call("alloc", f), Call("get", f), Call("change", f),
                 Call("change", last), Call("change", f), Call("flush", NoPage)>>
     /\ last \in Had(pager)
  \/ /\ plan = <<Call("alloc", f), Call("get", f), Call("change", f), Call("change", last),
                 Call("change", f), Call("flush", NoPage)>>
     /\ last \in refs /\ pager.lru[1] = last
  \/ /\ plan = <<Call("get", f), Call("change", f), Call("change", last),
                 Call("change", f), Call("flush", NoPage)>>
     /\ last \in refs /\ f \in Cached(pager)
  \/ /\ plan = <<Call("change", f), Call("change", last), Call("change", f),
                 Call("flush", NoPage)>>
     /\ {last, f} \subseteq refs
  \/ /\ plan = <<Call("change", last), Call("change", f), Call("flush", NoPage)>>
     /\ {last, f} \subseteq refs

Appendings == Outside /\ \E last \in Pages : \E f \in Pages \ {last} : Adding(last, f)

PlanInv == (Orderly(plan, refs, touched, Had(pager)) /\ Pinning) \/ Appendings

-----------------------------------------------------------------------------
(* With the references R and after the pages T have been accessed: these    *)
(* are the most recent ones, and are all there unless they are too many.    *)
FirstIn(s, T) == \A i, j \in DOMAIN s.lru : i < j /\ s.lru[j] \in T => s.lru[i] \in T

KeptIn(s, T) == Cardinality(T) <= CacheSize => T \subseteq Cached(s)

HistoryIn(s, R, T) ==
  /\ R \subseteq Cached(s) /\ R \subseteq T
  /\ \A q \in Cached(s) : s.cache[q].pins > 0 => q \in T
  /\ IsFiniteSet(T) /\ FirstIn(s, T) /\ KeptIn(s, T)

\* Transparent, for the pages U.
TransparentIn(s, U) ==
  \A id \in U :
    /\ id \in Cached(s) => s.cache[id].current
    /\ s.file[id] # "current" => id \in Cached(s) /\ s.cache[id].dirty

Basic ==
  /\ TypeOK /\ phase = "run"
  /\ Sound(pager) /\ used \subseteq Had(pager)
  /\ TransparentIn(pager, used \ unmarked)
  /\ HistoryIn(pager, refs, touched)

IInv == Basic /\ PlanInv

-----------------------------------------------------------------------------
(* The list, and the page that touch() moves to its front.                  *)
LEMMA RemoveOne ==
  ASSUME NEW s \in Seq(Pages), NEW e, NEW i \in 1 .. Len(s), s[i] = e, IsInjective(s)
  PROVE  RemoveFirst(s, e) = SubSeq(s, 1, i - 1) \o SubSeq(s, i + 1, Len(s))
<1>1. \A k \in 1 .. Len(s) : s[k] = e => k = i
  BY DEF IsInjective
<1>2. {k \in 1 .. Len(s) : s[k] = e} = {i}
  BY <1>1
<1>3. Min({i}) = i
  BY DEF Min
<1>4. SelectInSeq(s, LAMBDA v : v = e) = i
  BY <1>2, <1>3 DEF SelectInSeq
<1> QED
  BY <1>4 DEF RemoveFirst, RemoveAt

LEMMA RemoveNone ==
  ASSUME NEW s, NEW e, ~ \E i \in 1 .. Len(s) : s[i] = e
  PROVE  RemoveFirst(s, e) = s
  BY DEF RemoveFirst

(* The list without e: what is left keeps its order, and nothing is lost.   *)
LEMMA RemoveFacts ==
  ASSUME NEW s \in Seq(Pages), IsInjective(s), NEW e \in Pages
  PROVE  /\ RemoveFirst(s, e) \in Seq(Pages)
         /\ IsInjective(RemoveFirst(s, e))
         /\ ToSet(RemoveFirst(s, e)) = ToSet(s) \ {e}
         /\ \A i, j \in DOMAIN RemoveFirst(s, e) : i < j =>
              \E m, n \in DOMAIN s : /\ m < n
                                     /\ RemoveFirst(s, e)[i] = s[m]
                                     /\ RemoveFirst(s, e)[j] = s[n]
<1>1. CASE ~ \E i \in 1 .. Len(s) : s[i] = e
  <2>1. RemoveFirst(s, e) = s
    BY <1>1, RemoveNone
  <2>2. e \notin ToSet(s)
    BY <1>1 DEF ToSet
  <2> QED
    BY <2>1, <2>2
<1>2. CASE \E i \in 1 .. Len(s) : s[i] = e
  <2>1. PICK i \in 1 .. Len(s) : s[i] = e
    BY <1>2
  <2> DEFINE a == SubSeq(s, 1, i - 1)
             b == SubSeq(s, i + 1, Len(s))
             r == a \o b
  <2>2. RemoveFirst(s, e) = r
    BY <2>1, RemoveOne
  <2>3. /\ a \in Seq(Pages) /\ Len(a) = i - 1
        /\ \A k \in 1 .. i - 1 : a[k] = s[k]
    OBVIOUS
  <2>4. /\ b \in Seq(Pages) /\ Len(b) = Len(s) - i
        /\ \A k \in 1 .. Len(s) - i : b[k] = s[i + k]
    OBVIOUS
  <2> HIDE DEF a, b
  <2>5. /\ r \in Seq(Pages) /\ Len(r) = Len(s) - 1
        /\ \A k \in 1 .. Len(s) - 1 : r[k] = IF k < i THEN s[k] ELSE s[k + 1]
    <3>0. /\ r \in Seq(Pages) /\ Len(r) = Len(a) + Len(b)
          /\ \A k \in 1 .. Len(a) + Len(b) : r[k] = IF k <= Len(a) THEN a[k] ELSE b[k - Len(a)]
      BY <2>3, <2>4, ConcatProperties
    <3> HIDE DEF r
    <3>1. Len(a) + Len(b) = Len(s) - 1
      BY <2>3, <2>4
    <3>2. ASSUME NEW k \in 1 .. Len(s) - 1 PROVE r[k] = IF k < i THEN s[k] ELSE s[k + 1]
      <4>1. CASE k < i
        <5>1. k <= Len(a) /\ k \in 1 .. i - 1
          BY <4>1, <2>3
        <5> QED
          BY <5>1, <4>1, <3>0, <3>1, <2>3
      <4>2. CASE ~ (k < i)
        <5>1. ~ (k <= Len(a)) /\ k - Len(a) \in 1 .. Len(s) - i /\ i + (k - Len(a)) = k + 1
          BY <4>2, <2>3
        <5>2. r[k] = b[k - Len(a)]
          BY <5>1, <3>0, <3>1
        <5> QED
          BY <5>1, <5>2, <4>2, <2>4
      <4> QED
        BY <4>1, <4>2
    <3> QED
      BY <3>0, <3>1, <3>2
  <2> HIDE DEF r
  <2>6. DOMAIN r = 1 .. Len(s) - 1 /\ DOMAIN s = 1 .. Len(s)
    BY <2>5
  <2> DEFINE at(k) == IF k < i THEN k ELSE k + 1
  <2>7. \A k \in DOMAIN r : at(k) \in DOMAIN s /\ at(k) # i /\ r[k] = s[at(k)]
    BY <2>5, <2>6
  <2>8. \A k, l \in DOMAIN r : k < l => at(k) < at(l)
    BY <2>6
  <2>9. \A k \in DOMAIN s \ {i} : \E l \in DOMAIN r : at(l) = k
    <3> SUFFICES ASSUME NEW k \in DOMAIN s, k # i PROVE \E l \in DOMAIN r : at(l) = k
      OBVIOUS
    <3>1. CASE k < i
      BY <3>1, <2>6
    <3>2. CASE k > i
      <4>1. k - 1 \in DOMAIN r /\ at(k - 1) = k
        BY <3>2, <2>6
      <4> QED
        BY <4>1
    <3> QED
      BY <3>1, <3>2, <2>6
  <2> HIDE DEF at
  <2>10. \A k, l \in DOMAIN r : r[k] = r[l] => k = l
    <3> SUFFICES ASSUME NEW k \in DOMAIN r, NEW l \in DOMAIN r, r[k] = r[l] PROVE k = l
      OBVIOUS
    <3>1. at(k) = at(l)
      BY <2>7 DEF IsInjective
    <3> QED
      BY <3>1, <2>8, <2>6, <2>7
  <2>11. ToSet(r) = ToSet(s) \ {e}
    <3>1. ASSUME NEW x \in ToSet(r) PROVE x \in ToSet(s) \ {e}
      BY <2>7, <2>1, <2>6 DEF ToSet, IsInjective
    <3>2. ASSUME NEW x \in ToSet(s) \ {e} PROVE x \in ToSet(r)
      <4>1. PICK k \in DOMAIN s : s[k] = x
        BY DEF ToSet
      <4>2. PICK l \in DOMAIN r : at(l) = k
        BY <2>9, <4>1, <2>1
      <4> QED
        BY <4>1, <4>2, <2>7 DEF ToSet
    <3> QED
      BY <3>1, <3>2
  <2>12. \A k, l \in DOMAIN r : k < l =>
           \E m, n \in DOMAIN s : m < n /\ r[k] = s[m] /\ r[l] = s[n]
    BY <2>7, <2>8
  <2> QED
    BY <2>2, <2>5, <2>10, <2>11, <2>12 DEF IsInjective
<1> QED
  BY <1>1, <1>2

\* The list new has page id at its front and keeps the order old has.
Fronts(old, new, id) ==
  /\ new # <<>> /\ new[1] = id
  /\ \A i, j \in DOMAIN new : i < j =>
       /\ new[j] # id
       /\ new[i] = id \/ \E m, n \in DOMAIN old : m < n /\ new[i] = old[m] /\ new[j] = old[n]

LEMMA FrontFacts ==
  ASSUME NEW s \in Seq(Pages), IsInjective(s), NEW e \in Pages
  PROVE  LET t == <<e>> \o RemoveFirst(s, e)
         IN  /\ t \in Seq(Pages) /\ IsInjective(t)
             /\ ToSet(t) = ToSet(s) \cup {e}
             /\ Fronts(s, t, e)
<1> DEFINE r == RemoveFirst(s, e)
           t == <<e>> \o r
<1>1. /\ r \in Seq(Pages) /\ IsInjective(r) /\ ToSet(r) = ToSet(s) \ {e}
      /\ \A i, j \in DOMAIN r : i < j =>
           \E m, n \in DOMAIN s : m < n /\ r[i] = s[m] /\ r[j] = s[n]
  BY RemoveFacts
<1> HIDE DEF r
<1>2. <<e>> \in Seq(Pages) /\ Len(<<e>>) = 1 /\ <<e>>[1] = e
  OBVIOUS
<1>3. /\ t \in Seq(Pages) /\ Len(t) = 1 + Len(r)
      /\ \A k \in 1 .. 1 + Len(r) : t[k] = IF k <= 1 THEN <<e>>[k] ELSE r[k - 1]
  BY <1>1, <1>2, ConcatProperties
<1> HIDE DEF t
<1>4. DOMAIN t = 1 .. 1 + Len(r) /\ DOMAIN r = 1 .. Len(r) /\ Len(r) \in Nat
  BY <1>1, <1>3
<1>5. t[1] = e
  BY <1>2, <1>3, <1>4
<1>6. \A k \in DOMAIN t \ {1} : k - 1 \in DOMAIN r /\ t[k] = r[k - 1]
  BY <1>3, <1>4
<1>7. \A k \in DOMAIN r : k + 1 \in DOMAIN t \ {1} /\ t[k + 1] = r[k]
  BY <1>6, <1>4
<1>8. \A k \in DOMAIN r : r[k] # e /\ r[k] \in ToSet(s)
  BY <1>1 DEF ToSet
<1>9. IsInjective(t)
  <2> SUFFICES ASSUME NEW i \in DOMAIN t, NEW j \in DOMAIN t, t[i] = t[j] PROVE i = j
    BY DEF IsInjective
  <2>1. CASE i = 1 \/ j = 1
    BY <2>1, <1>5, <1>6, <1>8
  <2>2. CASE i # 1 /\ j # 1
    <3>1. i - 1 = j - 1
      BY <2>2, <1>6, <1>1 DEF IsInjective
    <3> QED
      BY <3>1, <1>4
  <2> QED
    BY <2>1, <2>2
<1>10. ToSet(t) = ToSet(s) \cup {e}
  <2>1. ToSet(t) = ToSet(r) \cup {e}
    <3>1. ASSUME NEW x \in ToSet(t) PROVE x \in ToSet(r) \cup {e}
      BY <1>5, <1>6 DEF ToSet
    <3>2. ASSUME NEW x \in ToSet(r) PROVE x \in ToSet(t)
      BY <1>7 DEF ToSet
    <3>3. e \in ToSet(t)
      BY <1>5, <1>4 DEF ToSet
    <3> QED
      BY <3>1, <3>2, <3>3
  <2> QED
    BY <2>1, <1>1
<1>11. Fronts(s, t, e)
  <2>1. t # <<>>
    BY <1>3, <1>4
  <2>2. ASSUME NEW i \in DOMAIN t, NEW j \in DOMAIN t, i < j
        PROVE  /\ t[j] # e
               /\ t[i] = e \/ \E m, n \in DOMAIN s : m < n /\ t[i] = s[m] /\ t[j] = s[n]
    <3>1. j # 1
      BY <2>2, <1>4
    <3>2. t[j] # e
      BY <3>1, <1>6, <1>8
    <3>3. CASE i = 1
      BY <3>2, <3>3, <1>5
    <3>4. CASE i # 1
      <4>1. i - 1 \in DOMAIN r /\ j - 1 \in DOMAIN r /\ t[i] = r[i - 1] /\ t[j] = r[j - 1]
        BY <3>1, <3>4, <1>6
      <4>2. i - 1 < j - 1
        BY <2>2, <1>4
      <4> QED
        BY <3>2, <4>1, <4>2, <1>1
    <3> QED
      BY <3>3, <3>4
  <2> QED
    BY <2>1, <2>2, <1>5 DEF Fronts
<1> QED
  BY <1>3, <1>9, <1>10, <1>11 DEF t, r

\* touch() of a page that is not pinned.
LEMMA TouchedFacts ==
  ASSUME NEW s, Typed(s), NEW id \in Cached(s), s.cache[id].pins = 0,
         IsInjective(s.lru), ToSet(s.lru) \cup {id} = Cached(s), s.mapped \cup {id} = Cached(s)
  PROVE  /\ Typed(Touched(s, id)) /\ Listed(Touched(s, id))
         /\ Touched(s, id).cache = s.cache /\ Touched(s, id).file = s.file
         /\ Fronts(s.lru, Touched(s, id).lru, id)
<1> DEFINE t == Touched(s, id)
           l == <<id>> \o RemoveFirst(s.lru, id)
<1>1. id \in Pages /\ s.lru \in Seq(Pages)
  BY DEF Typed
<1>2. l \in Seq(Pages) /\ IsInjective(l) /\ ToSet(l) = Cached(s) /\ Fronts(s.lru, l, id)
  BY <1>1, FrontFacts
<1>3. t = [s EXCEPT !.lru = l, !.mapped = s.mapped \cup {id}]
  BY DEF Touched
<1> HIDE DEF l
<1>4. /\ t.cache = s.cache /\ t.file = s.file /\ t.lru = l /\ t.mapped = Cached(s)
      /\ Typed(t)
  BY <1>2, <1>3 DEF Typed, Cached
<1> QED
  BY <1>2, <1>4 DEF Listed, Cached

-----------------------------------------------------------------------------
(* Eviction.  As long as no page but the first of the list is pinned, the   *)
(* victim is the last page of the list: no pinned page is popped before it. *)
Calm(s) == \A q \in Cached(s) : s.cache[q].pins > 0 => s.lru[1] = q

LEMMA FullList ==
  ASSUME NEW s, Sound(s), Full(s)
  PROVE  s.lru \in Seq(Pages) /\ Len(s.lru) >= 2
<1>1. s.lru \in Seq(Pages) /\ Len(s.lru) \in Nat /\ DOMAIN s.lru = 1 .. Len(s.lru)
  BY DEF Sound, Typed
<1>2. Cardinality(Cached(s)) >= 2 /\ Cardinality(Cached(s)) \in Nat
  BY CacheAssumption, FS_CardinalityType DEF Sound, Full
<1>3. ASSUME Len(s.lru) = 0 PROVE FALSE
  <2>1. Cached(s) = {}
    BY <1>1, <1>3 DEF Sound, Listed, ToSet
  <2> QED
    BY <2>1, <1>2, FS_EmptySet
<1>4. ASSUME Len(s.lru) = 1 PROVE FALSE
  <2>1. Cached(s) = {s.lru[1]}
    BY <1>1, <1>4 DEF Sound, Listed, ToSet
  <2>2. Cardinality({s.lru[1]}) = 1
    BY FS_Singleton
  <2> QED
    BY ONLY <2>1, <2>2, <1>2
<1>5. \A n \in Nat : n = 0 \/ n = 1 \/ n >= 2
  OBVIOUS
<1> QED
  BY <1>1, <1>3, <1>4, <1>5

LEMMA VictimIsLast ==
  ASSUME NEW s, Sound(s), Full(s), Calm(s)
  PROVE  /\ Evictable(s) # {} /\ Max(Evictable(s)) = Len(s.lru)
         /\ s.lru[Len(s.lru)] \in Cached(s)
         /\ s.cache[s.lru[Len(s.lru)]].pins = 0
<1> DEFINE n == Len(s.lru)
<1>1. /\ s.lru \in Seq(Pages) /\ n >= 2 /\ n \in Nat /\ DOMAIN s.lru = 1 .. n
      /\ n \in DOMAIN s.lru /\ 1 \in DOMAIN s.lru /\ n # 1
  BY FullList
<1>2. s.lru[n] \in Cached(s) /\ s.lru[n] # s.lru[1]
  BY <1>1 DEF Sound, Listed, ToSet, IsInjective
<1>3. s.cache[s.lru[n]].pins \in Nat
  BY <1>2 DEF Sound, Typed, PageType
<1>4. s.cache[s.lru[n]].pins = 0
  BY <1>2, <1>3 DEF Calm
<1>5. n \in Evictable(s) /\ Evictable(s) \subseteq 1 .. n
  BY <1>1, <1>2, <1>4 DEF Evictable
<1> HIDE DEF n
<1>6. \A x \in Evictable(s) : (\A y \in Evictable(s) : x >= y) => x = n
  BY <1>5, <1>1
<1>7. \A y \in Evictable(s) : n >= y
  BY <1>5, <1>1
<1>8. Max(Evictable(s)) = n
  BY <1>5, <1>6, <1>7 DEF Max
<1> QED
  BY <1>2, <1>4, <1>5, <1>8 DEF n

\* What writePageToDisk leaves in the file.
Saved(page) == IF page.current THEN "current" ELSE "stale"

LEMMA EvictedFacts ==
  ASSUME NEW s, Sound(s), Full(s), Calm(s), NEW v, v = s.lru[Len(s.lru)]
  PROVE  /\ Evicted(s).cache = Without(s.cache, v)
         /\ Evicted(s).lru = SubSeq(s.lru, 1, Len(s.lru) - 1)
         /\ Evicted(s).mapped = s.mapped \ {v}
         /\ Evicted(s).file =
              IF s.cache[v].dirty THEN [s.file EXCEPT ![v] = Saved(s.cache[v])] ELSE s.file
         /\ DOMAIN Evicted(s) = DOMAIN s
         /\ Evicted(s) = [cache |-> Evicted(s).cache, lru |-> Evicted(s).lru,
                          mapped |-> Evicted(s).mapped, file |-> Evicted(s).file]
<1> DEFINE n == Len(s.lru)
           g == IF s.cache[v].dirty THEN Written(s, v) ELSE s
<1>1. Max(Evictable(s)) = n /\ v \in Cached(s)
  BY VictimIsLast
<1>2. Evicted(s) = [g EXCEPT !.cache = Without(@, v), !.lru = SubSeq(@, 1, n - 1),
                             !.mapped = @ \ {v}]
  BY <1>1 DEF Evicted
<1>3. s = [cache |-> s.cache, lru |-> s.lru, mapped |-> s.mapped, file |-> s.file]
  BY DEF Sound, Typed
<1>4. /\ g = [cache |-> g.cache, lru |-> g.lru, mapped |-> g.mapped, file |-> g.file]
      /\ g.lru = s.lru /\ g.mapped = s.mapped
      /\ DOMAIN g.cache = DOMAIN s.cache
      /\ \A q \in Cached(s) \ {v} : g.cache[q] = s.cache[q]
      /\ g.file = IF s.cache[v].dirty THEN [s.file EXCEPT ![v] = Saved(s.cache[v])] ELSE s.file
  BY <1>1, <1>3 DEF Written, Saved, Cached
<1> HIDE DEF g
<1>5. Without(g.cache, v) = Without(s.cache, v)
  BY <1>4 DEF Without, Cached
<1> QED
  BY <1>2, <1>3, <1>4, <1>5

(* What a call for page id does to the other pages: at most the last page   *)
(* of a full list leaves the cache, and the file has it then.               *)
Leaves(s, g, q) ==
  /\ Cardinality(Cached(s)) >= CacheSize
  /\ q = s.lru[Len(s.lru)] /\ s.cache[q].pins = 0
  /\ g.file[q] = IF s.cache[q].dirty THEN Saved(s.cache[q]) ELSE s.file[q]

Keeps(s, g, id) ==
  /\ Cached(g) \subseteq Cached(s) \cup {id}
  /\ \A q \in Cached(g) \ {id} : g.cache[q] = s.cache[q]
  /\ \A q \in Pages \ {id} : q \in Cached(g) \/ q \notin Cached(s) => g.file[q] = s.file[q]
  /\ \A q \in Cached(s) \ Cached(g) : id \notin Cached(s) /\ Leaves(s, g, q)

\* The pager after the eviction, where there has to be one.
LEMMA RoomFacts ==
  ASSUME NEW s, Sound(s), Calm(s), NEW id, id \notin Cached(s)
  PROVE  /\ Sound(MadeRoom(s)) /\ Cardinality(Cached(MadeRoom(s))) < CacheSize
         /\ Cached(MadeRoom(s)) \subseteq Cached(s) /\ Keeps(s, MadeRoom(s), id)
         /\ MadeRoom(s).file \in [Pages -> {"none", "stale", "current"}]
         /\ \A q \in Pages \ Cached(s) : MadeRoom(s).file[q] = s.file[q]
         /\ \A i \in DOMAIN MadeRoom(s).lru :
              i \in DOMAIN s.lru /\ MadeRoom(s).lru[i] = s.lru[i]
<1>1. CASE ~ Full(s)
  <2>1. MadeRoom(s) = s
    BY <1>1 DEF MadeRoom
  <2>2. Cardinality(Cached(s)) \in Nat
    BY FS_CardinalityType DEF Sound
  <2>3. Cardinality(Cached(s)) < CacheSize
    BY <1>1, <2>2, CacheAssumption DEF Full
  <2> QED
    BY <2>1, <2>3 DEF Keeps, Sound, Typed
<1>2. CASE Full(s)
  <2> DEFINE n == Len(s.lru)
             v == s.lru[n]
             g == Evicted(s)
  <2>1. MadeRoom(s) = g
    BY <1>2 DEF MadeRoom
  <2>2. s.lru \in Seq(Pages) /\ n \in Nat /\ n >= 2 /\ DOMAIN s.lru = 1 .. n
    BY <1>2, FullList
  <2>3. v \in Cached(s) /\ s.cache[v].pins = 0
    BY <1>2, VictimIsLast
  <2>4. /\ g.cache = Without(s.cache, v)
        /\ g.lru = SubSeq(s.lru, 1, n - 1)
        /\ g.mapped = s.mapped \ {v}
        /\ g.file = IF s.cache[v].dirty THEN [s.file EXCEPT ![v] = Saved(s.cache[v])] ELSE s.file
        /\ g = [cache |-> g.cache, lru |-> g.lru, mapped |-> g.mapped, file |-> g.file]
    BY <1>2, EvictedFacts
  <2>5. /\ g.lru \in Seq(Pages) /\ Len(g.lru) = n - 1 /\ DOMAIN g.lru = 1 .. n - 1
        /\ \A i \in 1 .. n - 1 : g.lru[i] = s.lru[i]
    BY <2>2, <2>4
  <2> HIDE DEF n, v, g
  <2>6. Cached(g) = Cached(s) \ {v} /\ \A q \in Cached(g) : g.cache[q] = s.cache[q]
    BY <2>4 DEF Without, Cached
  <2>7. IsFiniteSet(Cached(s)) /\ Cardinality(Cached(s)) \in Nat
        /\ Cardinality(Cached(s)) <= CacheSize
    BY FS_CardinalityType DEF Sound
  <2>8. IsFiniteSet(Cached(g)) /\ Cardinality(Cached(g)) = Cardinality(Cached(s)) - 1
    BY <2>3, <2>6, <2>7, FS_RemoveElement
  <2>9. Cardinality(Cached(g)) < CacheSize /\ Cardinality(Cached(g)) <= CacheSize
    BY <2>7, <2>8, CacheAssumption
  <2>10. g.file \in [Pages -> {"none", "stale", "current"}]
    BY <2>4, <2>3 DEF Sound, Typed, Saved
  <2>11. v \in Pages
    BY <2>3 DEF Sound, Typed
  <2>12. \A q \in Pages : g.file[q] = IF q = v /\ s.cache[v].dirty THEN Saved(s.cache[v]) ELSE s.file[q]
    BY <2>4, <2>11 DEF Sound, Typed
  <2>13. Typed(g)
    <3>1. Cached(g) \subseteq Pages
      BY <2>6 DEF Sound, Typed
    <3>2. g.cache \in [Cached(g) -> PageType]
      BY <2>4, <2>6 DEF Sound, Typed, Without, Cached
    <3>3. g.mapped \in SUBSET Pages
      BY <2>4 DEF Sound, Typed
    <3> QED
      BY <2>4, <2>5, <2>10, <3>1, <3>2, <3>3 DEF Typed
  <2>14. Listed(g)
    <3>1. IsInjective(g.lru)
      <4> SUFFICES ASSUME NEW i \in 1 .. n - 1, NEW j \in 1 .. n - 1, g.lru[i] = g.lru[j]
                   PROVE i = j
        BY <2>5 DEF IsInjective
      <4>1. i \in DOMAIN s.lru /\ j \in DOMAIN s.lru /\ s.lru[i] = s.lru[j]
        BY <2>2, <2>5
      <4> QED
        BY <4>1 DEF Sound, Listed, IsInjective
    <3>2. ToSet(g.lru) = Cached(s) \ {v}
      <4>1. ASSUME NEW x \in ToSet(g.lru) PROVE x \in Cached(s) \ {v}
        <5>1. PICK i \in 1 .. n - 1 : g.lru[i] = x
          BY <2>5 DEF ToSet
        <5>2. i \in DOMAIN s.lru /\ s.lru[i] = x /\ n \in DOMAIN s.lru /\ i # n
          BY <2>2, <2>5, <5>1
        <5> QED
          BY <5>2 DEF Sound, Listed, ToSet, IsInjective, v
      <4>2. ASSUME NEW x \in Cached(s) \ {v} PROVE x \in ToSet(g.lru)
        <5>1. PICK i \in DOMAIN s.lru : s.lru[i] = x
          BY DEF Sound, Listed, ToSet
        <5>2. i \in 1 .. n - 1
          BY <2>2, <5>1 DEF v
        <5> QED
          BY <5>1, <5>2, <2>5 DEF ToSet
      <4> QED
        BY <4>1, <4>2
    <3> QED
      BY <3>1, <3>2, <2>4, <2>6 DEF Sound, Listed
  <2>15. \A q \in Cached(g) : g.file[q] = "none" => g.cache[q].dirty
    BY <2>6, <2>12 DEF Sound, Typed
  <2>16. Sound(g)
    BY <2>8, <2>9, <2>13, <2>14, <2>15 DEF Sound
  <2>17. Leaves(s, g, v)
    BY <1>2, <2>3, <2>11, <2>12 DEF Leaves, Full, v, n
  <2>18. Keeps(s, g, id)
    BY <2>3, <2>6, <2>12, <2>17 DEF Keeps
  <2>19. \A i \in DOMAIN g.lru : i \in DOMAIN s.lru /\ g.lru[i] = s.lru[i]
    BY <2>2, <2>5
  <2>20. \A q \in Pages \ Cached(s) : g.file[q] = s.file[q]
    BY <2>3, <2>12
  <2> QED
    BY <2>1, <2>6, <2>9, <2>10, <2>16, <2>18, <2>19, <2>20
<1> QED
  BY <1>1, <1>2

(* A new page object in the cache, in a place that is free or taken over.   *)
Entered(s, id, page, file) == [s EXCEPT !.cache = With(@, id, page), !.file = file]

LEMMA EnteredFacts ==
  ASSUME NEW s, NEW id \in Pages, NEW page \in PageType, page.pins = 0,
         NEW file \in [Pages -> {"none", "stale", "current"}],
         file[id] = "none" => page.dirty,
         Sound(s), id \in Cached(s) \/ Cardinality(Cached(s)) < CacheSize,
         \A q \in Pages \ {id} : file[q] = s.file[q],
         NEW g, g = Touched(Entered(s, id, page, file), id)
  PROVE  /\ Sound(g) /\ Cached(g) = Cached(s) \cup {id}
         /\ g.cache[id] = page /\ \A q \in Cached(s) \ {id} : g.cache[q] = s.cache[q]
         /\ g.file = file /\ Fronts(s.lru, g.lru, id)
<1> DEFINE r == Entered(s, id, page, file)
<1>0. g = Touched(r, id)
  OBVIOUS
<1>1. s = [cache |-> s.cache, lru |-> s.lru, mapped |-> s.mapped, file |-> s.file]
  BY DEF Sound, Typed
<1> DEFINE c == With(s.cache, id, page)
<1>a. r = [s EXCEPT !.cache = c, !.file = file]
  BY DEF Entered
<1> HIDE DEF c, r
<1>b. r = [cache |-> c, lru |-> s.lru, mapped |-> s.mapped, file |-> file]
  BY <1>a, <1>1
<1>2. /\ r = [cache |-> c, lru |-> s.lru, mapped |-> s.mapped, file |-> file]
      /\ r.cache = With(s.cache, id, page) /\ r.lru = s.lru /\ r.mapped = s.mapped
      /\ r.file = file
  BY <1>b DEF c
<1> HIDE DEF r
<1>3. /\ Cached(r) = Cached(s) \cup {id}
      /\ r.cache[id] = page
      /\ \A q \in Cached(s) \ {id} : r.cache[q] = s.cache[q]
  BY <1>2 DEF With, Cached
<1>4. Typed(r)
  <2>1. Cached(r) \subseteq Pages
    BY <1>3 DEF Sound, Typed
  <2>2. r.cache \in [Cached(r) -> PageType]
    BY <1>2, <1>3 DEF Sound, Typed, With, Cached
  <2>3. r \in [cache : {c}, lru : Seq(Pages), mapped : SUBSET Pages,
               file : [Pages -> {"none", "stale", "current"}]]
    BY <1>2 DEF Sound, Typed
  <2> QED
    BY <1>2, <2>1, <2>2, <2>3 DEF Typed
<1>5. /\ IsInjective(r.lru) /\ ToSet(r.lru) \cup {id} = Cached(r)
      /\ r.mapped \cup {id} = Cached(r)
  BY <1>2, <1>3 DEF Sound, Listed
<1>6. id \in Cached(r) /\ r.cache[id].pins = 0
  BY <1>3
<1>7. /\ Typed(g) /\ Listed(g)
      /\ g.cache = r.cache /\ g.file = r.file /\ Fronts(r.lru, g.lru, id)
  BY <1>0, <1>4, <1>5, <1>6, TouchedFacts
<1>8. Cached(g) = Cached(s) \cup {id}
  BY <1>3, <1>7 DEF Cached
<1>9. IsFiniteSet(Cached(s)) /\ Cardinality(Cached(s)) \in Nat
      /\ Cardinality(Cached(s)) <= CacheSize
  BY FS_CardinalityType DEF Sound
<1>10. /\ IsFiniteSet(Cached(g))
       /\ Cardinality(Cached(g)) =
            IF id \in Cached(s) THEN Cardinality(Cached(s)) ELSE Cardinality(Cached(s)) + 1
  BY <1>8, <1>9, FS_AddElement
<1>11. Cardinality(Cached(g)) <= CacheSize
  BY <1>9, <1>10, CacheAssumption
<1>12. \A q \in Cached(g) : g.file[q] = "none" => g.cache[q].dirty
  <2> SUFFICES ASSUME NEW q \in Cached(g), g.file[q] = "none" PROVE g.cache[q].dirty
    OBVIOUS
  <2>1. CASE q = id
    BY <2>1, <1>2, <1>3, <1>7
  <2>2. CASE q # id
    <3>1. q \in Cached(s) /\ q \in Pages
      BY <2>2, <1>8 DEF Sound, Typed
    <3>2. g.file = file /\ file[q] = s.file[q]
      BY <2>2, <3>1, <1>2, <1>7
    <3>3. g.cache[q] = s.cache[q]
      BY <2>2, <3>1, <1>3, <1>7
    <3> QED
      BY <3>1, <3>2, <3>3 DEF Sound
  <2> QED
    BY <2>1, <2>2
<1>13. Sound(g)
  BY <1>7, <1>10, <1>11, <1>12 DEF Sound
<1> QED
  BY <1>2, <1>3, <1>7, <1>8, <1>13

\* The order of the list after a call: kept, or page id has come to its front.
Reorders(s, g, id) ==
  \/ g.lru = s.lru
  \/ Fronts(s.lru, g.lru, id)

LEMMA FrontsPrefix ==
  ASSUME NEW old, NEW mid, NEW new, NEW id,
         \A i \in DOMAIN mid : i \in DOMAIN old /\ mid[i] = old[i],
         Fronts(mid, new, id)
  PROVE  Fronts(old, new, id)
  BY DEF Fronts

\* getPage() of a page there is.
LEMMA GotFacts ==
  ASSUME NEW s, Sound(s), NEW id \in Had(s), id \in Cached(s) \/ Calm(s)
  PROVE  /\ CanGet(s, id)
         /\ Sound(Got(s, id)) /\ Keeps(s, Got(s, id), id) /\ id \in Cached(Got(s, id))
         /\ Had(s) \subseteq Had(Got(s, id))
         /\ id \in Cached(s) => Got(s, id).cache = s.cache /\ Got(s, id).file = s.file
         /\ id \notin Cached(s) =>
              /\ Got(s, id).file[id] = s.file[id]
              /\ Got(s, id).cache[id] =
                   [dirty |-> FALSE, pins |-> 0, current |-> s.file[id] = "current"]
         /\ IF id \in Cached(s) /\ s.cache[id].pins > 0 THEN Got(s, id) = s
            ELSE Fronts(s.lru, Got(s, id).lru, id)
<1> DEFINE g == Got(s, id)
<1>0. id \in Pages
  BY DEF Had
<1>1. CASE id \in Cached(s) /\ s.cache[id].pins > 0
  <2>1. g = s
    BY <1>1 DEF Got, Touched
  <2> QED
    BY <1>1, <2>1 DEF Keeps, CanGet
<1>2. CASE id \in Cached(s) /\ ~ (s.cache[id].pins > 0)
  <2>1. g = Touched(s, id)
    BY <1>2 DEF Got
  <2>2. s.cache[id].pins = 0
    BY <1>2 DEF Sound, Typed, PageType
  <2>3. /\ IsInjective(s.lru) /\ ToSet(s.lru) \cup {id} = Cached(s)
        /\ s.mapped \cup {id} = Cached(s) /\ Typed(s)
    BY <1>2 DEF Sound, Listed
  <2>4. /\ Typed(g) /\ Listed(g) /\ g.cache = s.cache /\ g.file = s.file
        /\ Fronts(s.lru, g.lru, id)
    BY <1>2, <2>1, <2>2, <2>3, TouchedFacts
  <2> HIDE DEF g
  <2>5. Sound(g)
    BY <2>4 DEF Sound, Cached
  <2>6. Keeps(s, g, id) /\ Had(s) \subseteq Had(g) /\ id \in Cached(g)
    BY <1>2, <2>4 DEF Keeps, Had, Cached
  <2>7. CanGet(s, id)
    BY <1>2 DEF CanGet
  <2> QED
    BY <1>2, <2>4, <2>5, <2>6, <2>7 DEF g
<1>3. CASE id \notin Cached(s)
  <2> DEFINE r    == MadeRoom(s)
             page == [dirty |-> FALSE, pins |-> 0, current |-> s.file[id] = "current"]
  <2>1. Calm(s) /\ s.file[id] # "none"
    BY <1>3 DEF Had
  <2>2. /\ Sound(r) /\ Cardinality(Cached(r)) < CacheSize
        /\ Cached(r) \subseteq Cached(s) /\ Keeps(s, r, id)
        /\ r.file \in [Pages -> {"none", "stale", "current"}]
        /\ \A q \in Pages \ Cached(s) : r.file[q] = s.file[q]
        /\ \A i \in DOMAIN r.lru : i \in DOMAIN s.lru /\ r.lru[i] = s.lru[i]
    BY <1>3, <2>1, RoomFacts
  <2>3. g = Touched([r EXCEPT !.cache = With(@, id, page)], id)
    BY <1>3 DEF Got
  <2> HIDE DEF r
  <2>4. r = [cache |-> r.cache, lru |-> r.lru, mapped |-> r.mapped, file |-> r.file]
    BY <2>2 DEF Sound, Typed
  <2>5. [r EXCEPT !.cache = With(@, id, page)] = Entered(r, id, page, r.file)
    BY <2>4 DEF Entered
  <2>6. page \in PageType /\ page.pins = 0
    BY DEF PageType
  <2>7. r.file[id] = s.file[id]
    BY <1>0, <1>3, <2>2
  <2>x. r.file[id] = "none" => page.dirty
    BY <2>1, <2>7
  <2>z. g = Touched(Entered(r, id, page, r.file), id)
    BY <2>3, <2>5
  <2> HIDE DEF page, g
  <2>8. /\ Sound(g) /\ Cached(g) = Cached(r) \cup {id}
        /\ g.cache[id] = page /\ \A q \in Cached(r) \ {id} : g.cache[q] = r.cache[q]
        /\ g.file = r.file /\ Fronts(r.lru, g.lru, id)
    <3>1. id \in Pages /\ page \in PageType /\ page.pins = 0
      BY <1>0, <2>6
    <3>2. /\ r.file \in [Pages -> {"none", "stale", "current"}]
          /\ r.file[id] = "none" => page.dirty
      BY <2>2, <2>x
    <3>3. Sound(r) /\ (id \in Cached(r) \/ Cardinality(Cached(r)) < CacheSize)
      BY <2>2
    <3>4. \A q \in Pages \ {id} : r.file[q] = r.file[q]
      OBVIOUS
    <3>5. g = Touched(Entered(r, id, page, r.file), id)
      BY <2>z
    <3> DEFINE f == r.file
    <3> HIDE DEF f
    <3>6. /\ f \in [Pages -> {"none", "stale", "current"}]
          /\ f[id] = "none" => page.dirty
          /\ \A q \in Pages \ {id} : f[q] = r.file[q]
          /\ g = Touched(Entered(r, id, page, f), id)
      BY <3>2, <3>5 DEF f
    <3>7. /\ Sound(g) /\ Cached(g) = Cached(r) \cup {id}
          /\ g.cache[id] = page /\ \A q \in Cached(r) \ {id} : g.cache[q] = r.cache[q]
          /\ g.file = f /\ Fronts(r.lru, g.lru, id)
      BY ONLY <3>1, <3>3, <3>6, EnteredFacts
    <3> QED
      BY <3>7 DEF f
  <2>9. Fronts(s.lru, g.lru, id)
    BY <2>2, <2>8, FrontsPrefix
  <2>10. Keeps(s, g, id)
    BY <1>3, <2>2, <2>8 DEF Keeps, Leaves
  <2>11. Had(s) \subseteq Had(g)
    <3> SUFFICES ASSUME NEW q \in Pages, q \in Cached(s) \/ s.file[q] # "none",
                        q \notin Cached(g)
                 PROVE  g.file[q] # "none"
      BY DEF Had
    <3>1. CASE q \in Cached(s)
      BY <2>10, <3>1 DEF Keeps, Leaves, Saved, Sound
    <3>2. CASE q \notin Cached(s)
      BY <2>8, <2>10, <3>2 DEF Keeps
    <3> QED
      BY <3>1, <3>2
  <2>12. CanGet(s, id)
    BY <1>3, <2>1, VictimIsLast DEF CanGet, HasRoom
  <2> QED
    BY <1>3, <2>7, <2>8, <2>9, <2>10, <2>11, <2>12 DEF g, page
<1> QED
  BY <1>1, <1>2, <1>3

\* allocatePage() of any page, while no page has to stay behind the victim.
LEMMA AllocatedFacts ==
  ASSUME NEW s, Sound(s), NEW id \in Pages, Calm(s)
  PROVE  /\ HasRoom(s, id)
         /\ Sound(Allocated(s, id)) /\ Keeps(s, Allocated(s, id), id)
         /\ id \in Cached(Allocated(s, id))
         /\ Had(s) \subseteq Had(Allocated(s, id))
         /\ Allocated(s, id).cache[id] = [dirty |-> TRUE, pins |-> 0, current |-> TRUE]
         /\ Fronts(s.lru, Allocated(s, id).lru, id)
<1> DEFINE r    == IF id \in Cached(s) THEN s ELSE MadeRoom(s)
           page == [dirty |-> TRUE, pins |-> 0, current |-> TRUE]
           f    == [r.file EXCEPT ![id] = IF @ = "none" THEN @ ELSE "stale"]
           g    == Allocated(s, id)
<1>1. /\ Sound(r) /\ Keeps(s, r, id)
      /\ id \in Cached(r) \/ Cardinality(Cached(r)) < CacheSize
      /\ Cached(r) \subseteq Cached(s) /\ (id \in Cached(r) <=> id \in Cached(s))
      /\ \A i \in DOMAIN r.lru : i \in DOMAIN s.lru /\ r.lru[i] = s.lru[i]
  <2>1. CASE id \in Cached(s)
    BY <2>1 DEF Keeps
  <2>2. CASE id \notin Cached(s)
    <3>1. r = MadeRoom(s)
      BY <2>2
    <3> HIDE DEF r
    <3> QED
      BY <3>1, <2>2, RoomFacts
  <2> QED
    BY <2>1, <2>2
<1>2. g = Touched([r EXCEPT !.cache = With(@, id, page),
                            !.file[id] = IF @ = "none" THEN @ ELSE "stale"], id)
  BY DEF Allocated
<1> HIDE DEF r
<1>3. r = [cache |-> r.cache, lru |-> r.lru, mapped |-> r.mapped, file |-> r.file]
  BY <1>1 DEF Sound, Typed
<1>4. /\ f \in [Pages -> {"none", "stale", "current"}]
      /\ \A q \in Pages \ {id} : f[q] = r.file[q]
  BY <1>1 DEF Sound, Typed
<1>5. [r EXCEPT !.cache = With(@, id, page), !.file[id] = IF @ = "none" THEN @ ELSE "stale"]
        = Entered(r, id, page, f)
  BY <1>3 DEF Entered
<1>6. g = Touched(Entered(r, id, page, f), id)
  BY <1>2, <1>5
<1>7. page \in PageType /\ page.pins = 0 /\ page.dirty
  BY DEF PageType
<1> HIDE DEF g, f
<1>8. f[id] = "none" => page.dirty
  BY <1>7
<1> HIDE DEF page
<1>9. /\ Sound(g) /\ Cached(g) = Cached(r) \cup {id}
      /\ g.cache[id] = page /\ \A q \in Cached(r) \ {id} : g.cache[q] = r.cache[q]
      /\ g.file = f /\ Fronts(r.lru, g.lru, id)
  BY ONLY <1>1, <1>4, <1>6, <1>7, <1>8, id \in Pages, EnteredFacts
<1>10. Fronts(s.lru, g.lru, id)
  BY <1>1, <1>9, FrontsPrefix
<1>11. \A q \in Pages \ {id} : g.file[q] = r.file[q]
  BY <1>4, <1>9
<1>12. Keeps(s, g, id)
  <2>1. Cached(g) \subseteq Cached(s) \cup {id}
    BY <1>1, <1>9
  <2>2. \A q \in Cached(g) \ {id} : g.cache[q] = s.cache[q]
    BY <1>1, <1>9 DEF Keeps
  <2>3. \A q \in Pages \ {id} : q \in Cached(g) \/ q \notin Cached(s) => g.file[q] = s.file[q]
    BY <1>1, <1>9, <1>11 DEF Keeps
  <2>4. ASSUME NEW q \in Cached(s) \ Cached(g) PROVE id \notin Cached(s) /\ Leaves(s, g, q)
    <3>1. q \in Cached(s) \ Cached(r) /\ q # id /\ q \in Pages
      BY <1>9 DEF Sound, Typed
    <3>2. id \notin Cached(s) /\ Leaves(s, r, q)
      BY <3>1, <1>1 DEF Keeps
    <3> QED
      BY <3>1, <3>2, <1>11 DEF Leaves
  <2> QED
    BY <2>1, <2>2, <2>3, <2>4 DEF Keeps
<1>13. Had(s) \subseteq Had(g)
  <2> SUFFICES ASSUME NEW q \in Pages, q \in Cached(s) \/ s.file[q] # "none",
                      q \notin Cached(g)
               PROVE  g.file[q] # "none"
    BY DEF Had
  <2>0. q # id
    BY <1>9
  <2>1. CASE q \in Cached(s)
    BY <1>12, <2>1 DEF Keeps, Leaves, Saved, Sound
  <2>2. CASE q \notin Cached(s)
    BY <1>12, <2>0, <2>2 DEF Keeps
  <2> QED
    BY <2>1, <2>2
<1>14. HasRoom(s, id)
  BY VictimIsLast DEF HasRoom
<1> QED
  BY <1>9, <1>10, <1>12, <1>13, <1>14 DEF g, page

-----------------------------------------------------------------------------
(* The calls that change one cached page where it is.                       *)
Rewritten(s, id, page, file) == [s EXCEPT !.cache[id] = page, !.file = file]

LEMMA RewrittenFacts ==
  ASSUME NEW s, NEW id \in Cached(s), NEW page \in PageType, Sound(s),
         NEW file \in [Pages -> {"none", "stale", "current"}],
         file[id] = "none" => page.dirty,
         \A q \in Pages \ {id} : file[q] = s.file[q],
         NEW g, g = Rewritten(s, id, page, file)
  PROVE  /\ Sound(g) /\ Cached(g) = Cached(s) /\ g.lru = s.lru
         /\ g.cache[id] = page /\ \A q \in Cached(s) \ {id} : g.cache[q] = s.cache[q]
         /\ g.file = file /\ Keeps(s, g, id)
<1> DEFINE c == [s.cache EXCEPT ![id] = page]
<1>1. s = [cache |-> s.cache, lru |-> s.lru, mapped |-> s.mapped, file |-> s.file]
  BY DEF Sound, Typed
<1>2. g = [s EXCEPT !.cache = c, !.file = file]
  BY <1>1 DEF Rewritten
<1>3. c \in [Cached(s) -> PageType] /\ c[id] = page /\ \A q \in Cached(s) \ {id} : c[q] = s.cache[q]
  BY DEF Sound, Typed
<1> HIDE DEF c
<1>4. g = [cache |-> c, lru |-> s.lru, mapped |-> s.mapped, file |-> file]
  BY <1>1, <1>2
<1>5. g.cache = c /\ g.lru = s.lru /\ g.mapped = s.mapped /\ g.file = file
  BY <1>4
<1>6. Cached(g) = Cached(s)
  BY <1>3, <1>5 DEF Cached
<1>7. Typed(g)
  BY <1>3, <1>4, <1>5, <1>6 DEF Sound, Typed
<1>8. \A q \in Cached(g) : g.file[q] = "none" => g.cache[q].dirty
  <2> SUFFICES ASSUME NEW q \in Cached(g), g.file[q] = "none" PROVE g.cache[q].dirty
    OBVIOUS
  <2>1. CASE q = id
    BY <2>1, <1>3, <1>5
  <2>2. CASE q # id
    <3>1. q \in Cached(s) /\ q \in Pages
      BY <1>6 DEF Sound, Typed
    <3>2. s.file[q] = "none" /\ g.cache[q] = s.cache[q]
      BY <2>2, <3>1, <1>3, <1>5
    <3> QED
      BY <3>1, <3>2 DEF Sound
  <2> QED
    BY <2>1, <2>2
<1>9. Sound(g)
  BY <1>5, <1>6, <1>7, <1>8 DEF Sound, Listed
<1>10. Keeps(s, g, id)
  BY <1>3, <1>5, <1>6 DEF Keeps
<1> QED
  BY <1>3, <1>5, <1>6, <1>9, <1>10

LEMMA PinnedFacts ==
  ASSUME NEW s, NEW id \in Cached(s), Sound(s)
  PROVE  /\ CanGet(s, id) /\ Sound(Pinned(s, id)) /\ Cached(Pinned(s, id)) = Cached(s)
         /\ Pinned(s, id).file = s.file
         /\ Pinned(s, id).cache[id] = [s.cache[id] EXCEPT !.pins = @ + 1]
         /\ \A q \in Cached(s) \ {id} : Pinned(s, id).cache[q] = s.cache[q]
         /\ IF s.cache[id].pins > 0 THEN Pinned(s, id).lru = s.lru
            ELSE Fronts(s.lru, Pinned(s, id).lru, id)
<1> DEFINE t    == Got(s, id)
           page == [s.cache[id] EXCEPT !.pins = @ + 1]
           g    == Pinned(s, id)
<1>1. id \in Pages /\ id \in Had(s)
  BY DEF Sound, Typed, Had
<1>2. /\ CanGet(s, id) /\ Sound(t) /\ t.cache = s.cache /\ t.file = s.file
      /\ IF s.cache[id].pins > 0 THEN t = s ELSE Fronts(s.lru, t.lru, id)
  BY <1>1, GotFacts
<1>3. g = [t EXCEPT !.cache[id].pins = @ + 1]
  BY DEF Pinned
<1> HIDE DEF t
<1>4. t = [cache |-> t.cache, lru |-> t.lru, mapped |-> t.mapped, file |-> t.file]
  BY <1>2 DEF Sound, Typed
<1>5. t.cache[id] = s.cache[id] /\ page \in PageType /\ Cached(t) = Cached(s)
  <2>1. s.cache[id] \in PageType
    BY DEF Sound, Typed
  <2> QED BY <1>2, <2>1 DEF PageType, Cached
<1>6. g = Rewritten(t, id, page, t.file)
  BY <1>3, <1>4, <1>5 DEF Rewritten
<1>7. t.file \in [Pages -> {"none", "stale", "current"}]
  BY <1>2 DEF Sound, Typed
<1>8. t.file[id] = "none" => page.dirty
  BY <1>2, <1>5 DEF Sound, PageType, Typed
<1> DEFINE f == t.file
<1> HIDE DEF g, page, f
<1>9. /\ f \in [Pages -> {"none", "stale", "current"}]
      /\ f[id] = "none" => page.dirty
      /\ \A q \in Pages \ {id} : f[q] = t.file[q]
      /\ g = Rewritten(t, id, page, f) /\ id \in Cached(t) /\ page \in PageType
  BY <1>5, <1>6, <1>7, <1>8 DEF f
<1>10. /\ Sound(g) /\ Cached(g) = Cached(t) /\ g.lru = t.lru
       /\ g.cache[id] = page /\ \A q \in Cached(t) \ {id} : g.cache[q] = t.cache[q]
       /\ g.file = f
  BY ONLY <1>2, <1>9, RewrittenFacts
<1> QED
  BY <1>2, <1>5, <1>10 DEF f, page, g

LEMMA UnpinnedFacts ==
  ASSUME NEW s, NEW id \in Cached(s), Sound(s)
  PROVE  /\ Sound(Unpinned(s, id)) /\ Cached(Unpinned(s, id)) = Cached(s)
         /\ Unpinned(s, id).file = s.file /\ Unpinned(s, id).lru = s.lru
         /\ Unpinned(s, id).cache[id] =
              [s.cache[id] EXCEPT !.pins = IF @ > 0 THEN @ - 1 ELSE @]
         /\ \A q \in Cached(s) \ {id} : Unpinned(s, id).cache[q] = s.cache[q]
<1> DEFINE page == [s.cache[id] EXCEPT !.pins = IF @ > 0 THEN @ - 1 ELSE @]
           f    == s.file
           g    == Unpinned(s, id)
<1>1. s = [cache |-> s.cache, lru |-> s.lru, mapped |-> s.mapped, file |-> s.file]
      /\ s.cache \in [Cached(s) -> PageType]
  BY DEF Sound, Typed
<1>2. /\ s.cache[id] \in PageType /\ page \in PageType
      /\ s.cache[id].pins \in Nat
      /\ page = IF s.cache[id].pins > 0 THEN [s.cache[id] EXCEPT !.pins = @ - 1] ELSE s.cache[id]
  BY <1>1 DEF PageType
<1>3. CASE s.cache[id].pins > 0
  <2>1. g = [s EXCEPT !.cache[id].pins = @ - 1] /\ page = [s.cache[id] EXCEPT !.pins = @ - 1]
    BY <1>2, <1>3 DEF Unpinned
  <2>2. g = Rewritten(s, id, page, f)
    BY <1>1, <2>1 DEF Rewritten
  <2>3. /\ f \in [Pages -> {"none", "stale", "current"}]
        /\ f[id] = "none" => page.dirty
        /\ \A q \in Pages \ {id} : f[q] = s.file[q]
        /\ page \in PageType
    BY <1>2 DEF Sound, PageType, Typed
  <2> HIDE DEF g, page, f
  <2>4. /\ Sound(g) /\ Cached(g) = Cached(s) /\ g.lru = s.lru
        /\ g.cache[id] = page /\ \A q \in Cached(s) \ {id} : g.cache[q] = s.cache[q]
        /\ g.file = f
    BY ONLY Sound(s), id \in Cached(s), <2>2, <2>3, RewrittenFacts
  <2> QED
    BY <2>4 DEF f, page, g
<1>4. CASE ~ (s.cache[id].pins > 0)
  <2>1. g = s /\ page = s.cache[id]
    BY <1>2, <1>4 DEF Unpinned
  <2> QED
    BY <2>1
<1> QED
  BY <1>3, <1>4

\* A page changed in memory: the file, if it has the page, is behind.
Behind(file, id) == [file EXCEPT ![id] = IF @ = "none" THEN @ ELSE "stale"]

LEMMA ChangedFacts ==
  ASSUME NEW s, NEW id \in Cached(s), Sound(s), NEW flag \in BOOLEAN
  PROVE  /\ Sound(Changed(s, id, flag)) /\ Cached(Changed(s, id, flag)) = Cached(s)
         /\ Changed(s, id, flag).file = Behind(s.file, id) /\ Changed(s, id, flag).lru = s.lru
         /\ Changed(s, id, flag).cache[id] = [s.cache[id] EXCEPT !.dirty = @ \/ flag]
         /\ \A q \in Cached(s) \ {id} : Changed(s, id, flag).cache[q] = s.cache[q]
<1> DEFINE page == [s.cache[id] EXCEPT !.dirty = @ \/ flag]
           f    == Behind(s.file, id)
           g    == Changed(s, id, flag)
<1>1. /\ s = [cache |-> s.cache, lru |-> s.lru, mapped |-> s.mapped, file |-> s.file]
      /\ s.cache[id] \in PageType /\ s.file \in [Pages -> {"none", "stale", "current"}]
      /\ id \in Pages
  BY DEF Sound, Typed
<1>2. page \in PageType /\ (s.cache[id].dirty => page.dirty)
  BY <1>1 DEF PageType
<1>3. g = Rewritten(s, id, page, f)
  BY <1>1 DEF Changed, Rewritten, Behind
<1>4. /\ f \in [Pages -> {"none", "stale", "current"}]
      /\ \A q \in Pages \ {id} : f[q] = s.file[q]
      /\ f[id] = "none" => s.file[id] = "none"
  BY <1>1 DEF Behind
<1> HIDE DEF g, page, f
<1>5. f[id] = "none" => page.dirty
  BY <1>2, <1>4 DEF Sound
<1>6. /\ Sound(g) /\ Cached(g) = Cached(s) /\ g.lru = s.lru
      /\ g.cache[id] = page /\ \A q \in Cached(s) \ {id} : g.cache[q] = s.cache[q]
      /\ g.file = f
  BY ONLY Sound(s), id \in Cached(s), <1>2, <1>3, <1>4, <1>5, RewrittenFacts
<1> QED
  BY <1>6 DEF f, page, g

\* freePage() of a page that is not pinned.
LEMMA FreedFacts ==
  ASSUME NEW s, Sound(s), NEW id \in Had(s), Calm(s),
         id \in Cached(s) => s.cache[id].pins = 0
  PROVE  /\ CanFree(s, id)
         /\ Sound(Freed(s, id)) /\ Keeps(s, Freed(s, id), id) /\ id \in Cached(Freed(s, id))
         /\ Had(s) \subseteq Had(Freed(s, id))
         /\ Freed(s, id).cache[id].pins = 0
         /\ Fronts(s.lru, Freed(s, id).lru, id)
<1> DEFINE t    == Got(s, id)
           page == [t.cache[id] EXCEPT !.dirty = TRUE, !.current = TRUE]
           f    == Behind(t.file, id)
           g    == Rewritten(t, id, page, f)
<1>0. id \in Pages
  BY DEF Had
<1>1. /\ CanGet(s, id) /\ Sound(t) /\ Keeps(s, t, id) /\ id \in Cached(t)
      /\ Had(s) \subseteq Had(t) /\ Fronts(s.lru, t.lru, id)
  <2>1. ~ (id \in Cached(s) /\ s.cache[id].pins > 0)
    OBVIOUS
  <2> QED
    BY <2>1, GotFacts
<1>2. t.cache[id].pins = 0
  <2>1. CASE id \in Cached(s)
    BY <2>1, GotFacts
  <2>2. CASE id \notin Cached(s)
    <3>1. t.cache[id] = [dirty |-> FALSE, pins |-> 0, current |-> s.file[id] = "current"]
      BY <2>2, GotFacts
    <3> QED
      BY <3>1
  <2> QED
    BY <2>1, <2>2
<1>3. Freed(s, id) =
        Unpinned([t EXCEPT !.cache[id] = [@ EXCEPT !.dirty = TRUE, !.current = TRUE],
                           !.file[id] = IF @ = "none" THEN @ ELSE "stale"], id)
  BY DEF Freed
<1>4. CanFree(s, id)
  BY <1>1, <1>2 DEF CanFree
<1> HIDE DEF t
<1>5. /\ t = [cache |-> t.cache, lru |-> t.lru, mapped |-> t.mapped, file |-> t.file]
      /\ t.cache[id] \in PageType /\ t.file \in [Pages -> {"none", "stale", "current"}]
  BY <1>1 DEF Sound, Typed
<1>6. Freed(s, id) = Unpinned(g, id)
  BY <1>3, <1>5 DEF Rewritten, Behind
<1>7. page \in PageType /\ page.dirty /\ page.pins = 0
  BY <1>2, <1>5 DEF PageType
<1>8. /\ f \in [Pages -> {"none", "stale", "current"}]
      /\ \A q \in Pages \ {id} : f[q] = t.file[q]
  BY <1>5 DEF Behind
<1> HIDE DEF g, page, f
<1>9. f[id] = "none" => page.dirty
  BY <1>7
<1>10. g = Rewritten(t, id, page, f)
  BY DEF g
<1>11. /\ Sound(g) /\ Cached(g) = Cached(t) /\ g.lru = t.lru
       /\ g.cache[id] = page /\ \A q \in Cached(t) \ {id} : g.cache[q] = t.cache[q]
       /\ g.file = f
  BY ONLY <1>1, <1>7, <1>8, <1>9, <1>10, RewrittenFacts
<1>12. Unpinned(g, id) = g
  BY <1>7, <1>11 DEF Unpinned
<1>13. \A q \in Pages \ {id} : g.file[q] = t.file[q]
  BY <1>8, <1>11
<1>14. Keeps(s, g, id)
  <2>1. Cached(g) \subseteq Cached(s) \cup {id}
    BY <1>1, <1>11 DEF Keeps
  <2>2. \A q \in Cached(g) \ {id} : g.cache[q] = s.cache[q]
    BY <1>1, <1>11 DEF Keeps
  <2>3. \A q \in Pages \ {id} : q \in Cached(g) \/ q \notin Cached(s) => g.file[q] = s.file[q]
    BY <1>1, <1>11, <1>13 DEF Keeps
  <2>4. ASSUME NEW q \in Cached(s) \ Cached(g) PROVE id \notin Cached(s) /\ Leaves(s, g, q)
    <3>1. q \in Cached(s) \ Cached(t) /\ q # id /\ q \in Pages
      BY <1>1, <1>11 DEF Sound, Typed
    <3>2. id \notin Cached(s) /\ Leaves(s, t, q)
      BY <3>1, <1>1 DEF Keeps
    <3> QED
      BY <3>1, <3>2, <1>13 DEF Leaves
  <2> QED
    BY <2>1, <2>2, <2>3, <2>4 DEF Keeps
<1>15. Had(s) \subseteq Had(g)
  <2>1. Had(t) \subseteq Had(g)
    BY <1>1, <1>11, <1>13 DEF Had
  <2> QED
    BY <2>1, <1>1
<1> QED
  BY <1>1, <1>4, <1>6, <1>7, <1>11, <1>12, <1>14, <1>15

\* flush(): what was dirty is in the file.
LEMMA FlushedFacts ==
  ASSUME NEW s, Sound(s)
  PROVE  /\ Sound(Flushed(s)) /\ Cached(Flushed(s)) = Cached(s) /\ Flushed(s).lru = s.lru
         /\ \A q \in Cached(s) : Flushed(s).cache[q] = [s.cache[q] EXCEPT !.dirty = FALSE]
         /\ \A q \in Pages : Flushed(s).file[q] =
              IF q \in Cached(s) /\ s.cache[q].dirty THEN Saved(s.cache[q]) ELSE s.file[q]
<1> DEFINE c == [id \in DOMAIN s.cache |-> [s.cache[id] EXCEPT !.dirty = FALSE]]
           f == [id \in Pages |-> IF id \in Cached(s) /\ s.cache[id].dirty
                                  THEN Written(s, id).file[id] ELSE s.file[id]]
           g == Flushed(s)
<1>1. /\ s = [cache |-> s.cache, lru |-> s.lru, mapped |-> s.mapped, file |-> s.file]
      /\ s.cache \in [Cached(s) -> PageType] /\ Cached(s) \subseteq Pages
      /\ s.file \in [Pages -> {"none", "stale", "current"}]
  BY DEF Sound, Typed
<1>2. \A q \in Cached(s) : Written(s, q).file[q] = Saved(s.cache[q])
  BY <1>1 DEF Written, Saved
<1>3. g = [s EXCEPT !.cache = c, !.file = f]
  BY <1>1 DEF Flushed
<1>4. /\ f \in [Pages -> {"none", "stale", "current"}]
      /\ \A q \in Pages :
           f[q] = IF q \in Cached(s) /\ s.cache[q].dirty THEN Saved(s.cache[q]) ELSE s.file[q]
  BY <1>1, <1>2 DEF Saved
<1>5. /\ c \in [Cached(s) -> PageType]
      /\ \A q \in Cached(s) : c[q] = [s.cache[q] EXCEPT !.dirty = FALSE]
  BY <1>1 DEF Cached, PageType
<1> HIDE DEF c, f, g
<1>6. g = [cache |-> c, lru |-> s.lru, mapped |-> s.mapped, file |-> f]
  BY <1>1, <1>3
<1>7. g.cache = c /\ g.lru = s.lru /\ g.mapped = s.mapped /\ g.file = f /\ Cached(g) = Cached(s)
  BY <1>5, <1>6 DEF Cached
<1>8. Typed(g)
  BY <1>1, <1>4, <1>5, <1>6, <1>7 DEF Sound, Typed
<1>9. \A q \in Cached(g) : g.file[q] # "none"
  BY <1>1, <1>4, <1>7 DEF Sound, Saved
<1>10. Sound(g)
  BY <1>7, <1>8, <1>9 DEF Sound, Listed
<1> QED
  BY <1>4, <1>5, <1>7, <1>10 DEF g

-----------------------------------------------------------------------------
(* What every call for page id does to the pages that have been accessed.   *)
LEMMA HistoryStep ==
  ASSUME NEW s, NEW g, NEW id \in Cached(g), NEW R, NEW T, NEW new \in SUBSET {id},
         Sound(s), Sound(g), Keeps(s, g, id), HistoryIn(s, R, T),
         (g.lru = s.lru /\ id \in T) \/ Fronts(s.lru, g.lru, id)
  PROVE  HistoryIn(g, (R \cap Cached(g)) \cup new, T \cup {id})
<1> DEFINE U == T \cup {id}
<1>1. /\ IsFiniteSet(T) /\ FirstIn(s, T) /\ KeptIn(s, T)
      /\ IsFiniteSet(U) /\ Cardinality(T) \in Nat
      /\ Cardinality(U) = IF id \in T THEN Cardinality(T) ELSE Cardinality(T) + 1
  BY FS_AddElement, FS_CardinalityType DEF HistoryIn
<1>2. FirstIn(g, U)
  <2> SUFFICES ASSUME NEW i \in DOMAIN g.lru, NEW j \in DOMAIN g.lru, i < j, g.lru[j] \in U
               PROVE  g.lru[i] \in U
    BY DEF FirstIn
  <2>1. CASE g.lru = s.lru /\ id \in T
    BY <2>1, <1>1 DEF FirstIn
  <2>2. CASE Fronts(s.lru, g.lru, id) /\ g.lru[i] # id
    <3>1. /\ g.lru[j] # id
          /\ \E m, n \in DOMAIN s.lru : m < n /\ g.lru[i] = s.lru[m] /\ g.lru[j] = s.lru[n]
      BY <2>2 DEF Fronts
    <3> QED
      BY <3>1, <1>1 DEF FirstIn
  <2> QED
    BY <2>1, <2>2
<1>3. KeptIn(g, U)
  <2> SUFFICES ASSUME Cardinality(U) <= CacheSize, NEW q \in U, q \notin Cached(g) PROVE FALSE
    BY DEF KeptIn
  <2>1. q \in T /\ q # id
    OBVIOUS
  <2>2. T \subseteq Cached(s)
    BY <1>1, CacheAssumption DEF KeptIn
  <2>3. q \in Cached(s) \ Cached(g)
    BY <2>1, <2>2
  <2>4. id \notin Cached(s) /\ Cardinality(Cached(s)) >= CacheSize /\ q = s.lru[Len(s.lru)]
    BY <2>3 DEF Keeps, Leaves
  <2>5. /\ s.lru \in Seq(Pages) /\ Len(s.lru) >= 2 /\ DOMAIN s.lru = 1 .. Len(s.lru)
        /\ Len(s.lru) \in Nat
    BY <2>4, FullList DEF Full
  <2>6. \A i \in DOMAIN s.lru : s.lru[i] \in T
    <3> SUFFICES ASSUME NEW i \in 1 .. Len(s.lru) PROVE s.lru[i] \in T
      BY <2>5
    <3>1. CASE i = Len(s.lru)
      BY <3>1, <2>1, <2>4
    <3>2. CASE i # Len(s.lru)
      <4>1. i \in DOMAIN s.lru /\ Len(s.lru) \in DOMAIN s.lru /\ i < Len(s.lru)
        BY <3>2, <2>5
      <4> QED
        BY <4>1, <2>1, <2>4, <1>1 DEF FirstIn
    <3> QED
      BY <3>1, <3>2
  <2>7. Cached(s) \subseteq T
    BY <2>6 DEF Sound, Listed, ToSet
  <2>8. Cardinality(Cached(s)) <= Cardinality(T) /\ Cardinality(Cached(s)) \in Nat
    BY <2>7, <1>1, FS_Subset, FS_CardinalityType DEF Sound
  <2>9. id \notin T
    BY <2>2, <2>4
  <2> QED
    BY <1>1, <2>4, <2>8, <2>9, CacheAssumption
<1>4. \A q \in Cached(g) : g.cache[q].pins > 0 => q \in U
  <2> SUFFICES ASSUME NEW q \in Cached(g), g.cache[q].pins > 0, q # id PROVE q \in T
    OBVIOUS
  <2>1. q \in Cached(s) /\ g.cache[q] = s.cache[q]
    BY DEF Keeps
  <2> QED
    BY <2>1 DEF HistoryIn
<1> QED
  BY <1>1, <1>2, <1>3, <1>4 DEF HistoryIn

LEMMA TransparentStep ==
  ASSUME NEW s, NEW g, NEW id \in Cached(g), NEW U \in SUBSET Pages, NEW W \in SUBSET Pages,
         Sound(s), Sound(g), Keeps(s, g, id), TransparentIn(s, U), W \ {id} \subseteq U,
         id \in W => g.cache[id].current /\ (g.file[id] # "current" => g.cache[id].dirty)
  PROVE  TransparentIn(g, W)
<1> SUFFICES ASSUME NEW q \in W
             PROVE  /\ q \in Cached(g) => g.cache[q].current
                    /\ g.file[q] # "current" => q \in Cached(g) /\ g.cache[q].dirty
  BY DEF TransparentIn
<1>1. CASE q = id
  BY <1>1
<1>2. CASE q # id /\ q \in Cached(g)
  <2>1. q \in U /\ q \in Cached(s) /\ g.cache[q] = s.cache[q] /\ g.file[q] = s.file[q]
    BY <1>2 DEF Keeps
  <2> QED
    BY <1>2, <2>1 DEF TransparentIn
<1>3. CASE q # id /\ q \notin Cached(g) /\ q \in Cached(s)
  <2>1. q \in U /\ g.file[q] = IF s.cache[q].dirty THEN Saved(s.cache[q]) ELSE s.file[q]
    BY <1>3 DEF Keeps, Leaves
  <2> QED
    BY <1>3, <2>1 DEF TransparentIn, Saved
<1>4. CASE q # id /\ q \notin Cached(g) /\ q \notin Cached(s)
  <2>1. q \in U /\ g.file[q] = s.file[q]
    BY <1>4 DEF Keeps
  <2> QED
    BY <1>4, <2>1 DEF TransparentIn
<1> QED
  BY <1>1, <1>2, <1>3, <1>4

LEMMA PinnedStep ==
  ASSUME NEW s, NEW g, NEW id \in Cached(g), NEW P, NEW Q,
         Keeps(s, g, id), PinnedAre(s, P), Q \ {id} = P \ {id},
         g.cache[id].pins = IF id \in Q THEN 1 ELSE 0
  PROVE  PinnedAre(g, Q)
<1>1. \A q \in P \ {id} : q \in Cached(g)
  BY DEF Keeps, Leaves, PinnedAre
<1>2. \A q \in Cached(g) \ {id} : q \in Cached(s) /\ g.cache[q] = s.cache[q]
  BY DEF Keeps
<1> QED
  BY <1>1, <1>2 DEF PinnedAre

\* Only the first page of the list, if any, is pinned where a page may be evicted.
LEMMA CalmFacts ==
  ASSUME NEW s, PinnedAre(s, {}) \/ PinnedAre(s, {s.lru[1]})
  PROVE  Calm(s)
  BY DEF PinnedAre, Calm

-----------------------------------------------------------------------------
(* The remaining calls: the grammar holds of what is left when one is made. *)
CallType ==
  [do : {"get", "pin", "unpin", "use", "alloc", "free", "change", "slip", "flush"},
   id : Pages \cup {NoPage}]

\* What the call h, made with the references R, adds to R, T and H.
Yields(h, R, T, H, R2, T2, H2) ==
  /\ T \subseteq T2 /\ H \subseteq H2
  /\ h.do = "get" \/ (h.id \in R /\ h.do \in {"pin", "unpin", "use"}) => h.id \in R2
  /\ h.id \in Pages => h.id \in T2
  /\ h.do = "alloc" => h.id \in H2

LEMMA TailFacts ==
  ASSUME NEW c \in Seq(CallType), c # <<>>
  PROVE  /\ Tail(c) \in Seq(CallType) /\ Len(Tail(c)) = Len(c) - 1 /\ Len(c) \in Nat \ {0}
         /\ DOMAIN Tail(c) = 1 .. Len(c) - 1 /\ DOMAIN c = 1 .. Len(c)
         /\ \A k \in DOMAIN Tail(c) : k + 1 \in DOMAIN c /\ Tail(c)[k] = c[k + 1]
         /\ Head(c) = c[1] /\ c[1] \in CallType /\ 1 \in DOMAIN c
  OBVIOUS

LEMMA OrderlyTail ==
  ASSUME NEW c \in Seq(CallType), c # <<>>, NEW R, NEW T \in SUBSET Pages, NEW H,
         NEW R2, NEW T2, NEW H2,
         Orderly(c, R, T, H), Yields(c[1], R, T, H, R2, T2, H2)
  PROVE  Orderly(Tail(c), R2, T2, H2)
<1> DEFINE d == Tail(c)
<1>1. /\ d \in Seq(CallType) /\ Len(d) = Len(c) - 1 /\ Len(c) \in Nat \ {0}
      /\ DOMAIN d = 1 .. Len(c) - 1 /\ DOMAIN c = 1 .. Len(c)
      /\ \A k \in DOMAIN d : k + 1 \in DOMAIN c /\ d[k] = c[k + 1]
      /\ c[1] \in CallType /\ 1 \in DOMAIN c
  BY TailFacts
<1> HIDE DEF d
<1> SUFFICES ASSUME NEW k \in DOMAIN d
             PROVE  /\ d[k].id \in Pages <=> d[k].do # "flush"
                    /\ Anchored(d, k, R2) /\ PinRule(d, k, R2) /\ UnpinRule(d, k, R2, T2)
                    /\ GetRule(d, k, H2)
  BY DEF Orderly, d
<1>2. k \in Nat \ {0} /\ k + 1 \in DOMAIN c /\ d[k] = c[k + 1] /\ k + 1 # 1
  BY <1>1
<1>3. /\ Anchored(c, k + 1, R) /\ PinRule(c, k + 1, R) /\ UnpinRule(c, k + 1, R, T)
      /\ GetRule(c, k + 1, H)
      /\ c[k + 1].id \in Pages <=> c[k + 1].do # "flush"
      /\ Anchored(c, 1, R) /\ PinRule(c, 1, R) /\ UnpinRule(c, 1, R, T)
  BY <1>1, <1>2 DEF Orderly
<1>4. (k + 1) - 1 = k /\ (k # 1 => k - 1 \in DOMAIN d /\ d[k - 1] = c[k])
  BY <1>1
<1>5. k = 1 => c[1] = c[k]
  OBVIOUS
<1>6. Anchored(d, k, R2)
  <2> SUFFICES ASSUME d[k].do \in Through
               PROVE  IF k = 1 THEN d[k].id \in R2
                      ELSE /\ d[k - 1].id = d[k].id
                           /\ \/ d[k - 1].do \in {"get", "pin"}
                              \/ d[k - 1].do = "unpin" /\ d[k].do = "use"
    BY DEF Anchored
  <2>1. /\ c[k].id = c[k + 1].id
        /\ c[k].do \in {"get", "pin"} \/ (c[k].do = "unpin" /\ c[k + 1].do = "use")
    BY <1>2, <1>3, <1>4 DEF Anchored
  <2>2. CASE k = 1
    <3>1. CASE c[1].do = "get"
      BY <2>1, <2>2, <3>1, <1>2 DEF Yields
    <3>2. CASE c[1].do = "pin"
      <4>1. c[1].id \in R
        BY <3>2, <1>3 DEF PinRule
      <4> QED
        BY <2>1, <2>2, <3>2, <4>1, <1>2 DEF Yields
    <3>3. CASE c[1].do = "unpin" /\ c[2].do = "use"
      <4>1. c[1].id \in R
        BY <3>3, <1>1, <1>2, <1>3, <2>2 DEF UnpinRule
      <4> QED
        BY <2>1, <2>2, <3>3, <4>1, <1>2 DEF Yields
    <3> QED
      BY <2>1, <2>2, <3>1, <3>2, <3>3
  <2>3. CASE k # 1
    BY <2>1, <2>3, <1>2, <1>4
  <2> QED
    BY <2>2, <2>3
<1>7. PinRule(d, k, R2)
  <2> SUFFICES ASSUME d[k].do = "pin"
               PROVE  /\ Bracket(d, k)
                      /\ IF k = 1 THEN d[k].id \in R2 ELSE d[k - 1] = Call("get", d[k].id)
    BY DEF PinRule
  <2>1. Bracket(c, k + 1) /\ c[k] = Call("get", c[k + 1].id)
    BY <1>2, <1>3, <1>4 DEF PinRule
  <2>2. Bracket(d, k)
    <3>1. (k + 1) + 2 <= Len(c) /\ c[(k + 1) + 1].do \in Through /\ c[(k + 1) + 1].id = c[k + 1].id
      BY <2>1 DEF Bracket
    <3>2. k + 2 <= Len(d) /\ k + 1 \in DOMAIN d /\ k + 2 \in DOMAIN d
      BY <3>1, <1>1
    <3>3. d[k + 1] = c[(k + 1) + 1] /\ d[k + 2] = c[(k + 1) + 2]
      BY <3>2, <1>1
    <3>4. CASE c[(k + 1) + 2] = Call("unpin", c[k + 1].id)
      BY <3>1, <3>2, <3>3, <3>4, <1>2 DEF Bracket
    <3>5. ASSUME NEW n \in Pages \ {c[k + 1].id}, Inner(c, (k + 1) + 2, n, c[k + 1].id)
          PROVE  Inner(d, k + 2, n, c[k + 1].id)
      <4>1. ((k + 1) + 2) + 4 <= Len(c)
        BY <3>5 DEF Inner
      <4>0. /\ (k + 2) + 4 <= Len(d)
            /\ \A i \in 1 .. 4 : /\ (k + 2) + i \in DOMAIN d
                                /\ ((k + 2) + i) + 1 = ((k + 1) + 2) + i
        <5>1. k \in Nat /\ Len(c) \in Nat /\ Len(d) = Len(c) - 1 /\ DOMAIN d = 1 .. Len(c) - 1
          BY <1>1, <1>2
        <5>2. (k + 2) + 4 <= Len(c) - 1
          BY ONLY <4>1, <5>1
        <5>3. \A i \in 1 .. 4 : (k + 2) + i \in 1 .. Len(c) - 1
          BY ONLY <5>1, <5>2
        <5>4. \A i \in 1 .. 4 : ((k + 2) + i) + 1 = ((k + 1) + 2) + i
          BY ONLY <5>1
        <5> QED
          BY ONLY <5>1, <5>2, <5>3, <5>4
      <4>a. \A i \in 1 .. 4 : d[(k + 2) + i] = c[((k + 1) + 2) + i]
        BY <4>0, <1>1
      <4>2. /\ (k + 2) + 4 <= Len(d) /\ d[(k + 2) + 1] = c[((k + 1) + 2) + 1]
            /\ d[(k + 2) + 2] = c[((k + 1) + 2) + 2] /\ d[(k + 2) + 3] = c[((k + 1) + 2) + 3]
            /\ d[(k + 2) + 4] = c[((k + 1) + 2) + 4]
        BY <4>0, <4>a
      <4> QED
        BY <3>3, <3>5, <4>2 DEF Inner
    <3> QED
      BY <2>1, <3>1, <3>2, <3>3, <3>4, <3>5, <1>2 DEF Bracket
  <2>3. CASE k = 1
    BY <2>1, <2>2, <2>3, <1>2 DEF Yields, Call
  <2>4. CASE k # 1
    BY <2>1, <2>2, <2>4, <1>2, <1>4
  <2> QED
    BY <2>3, <2>4
<1>8. UnpinRule(d, k, R2, T2)
  <2> SUFFICES ASSUME d[k].do = "unpin"
               PROVE  /\ d[k].id \in T2 \/ \E j \in 1 .. k - 1 : d[j].id = d[k].id
                      /\ k < Len(d) /\ d[k + 1].do = "use" =>
                           IF k = 1 THEN d[k].id \in R2
                           ELSE d[k - 1].id = d[k].id /\ d[k - 1].do = "use"
    BY DEF UnpinRule
  <2>1. /\ c[k + 1].id \in T \/ \E j \in 1 .. (k + 1) - 1 : c[j].id = c[k + 1].id
        /\ k + 1 < Len(c) /\ c[(k + 1) + 1].do = "use" =>
             c[k].id = c[k + 1].id /\ c[k].do = "use"
    BY <1>2, <1>3, <1>4 DEF UnpinRule
  <2>2. d[k].id \in T2 \/ \E j \in 1 .. k - 1 : d[j].id = d[k].id
    <3>1. CASE c[k + 1].id \in T
      BY <3>1, <1>2 DEF Yields
    <3>2. ASSUME NEW j \in 1 .. k, c[j].id = c[k + 1].id
          PROVE  d[k].id \in T2 \/ \E i \in 1 .. k - 1 : d[i].id = d[k].id
      <4>1. CASE j = 1
        <5>1. c[1].id = d[k].id
          BY <3>2, <4>1, <1>2
        <5>2. c[1].id \in Pages
          BY <5>1, <1>2, <1>3
        <5> QED
          BY <5>1, <5>2 DEF Yields
      <4>2. CASE j # 1
        <5>0. j \in Nat /\ k \in Nat /\ k \in 1 .. Len(c) - 1 /\ Len(c) \in Nat /\ 1 <= j /\ j <= k
          BY <3>2, <1>1, <1>2
        <5>a. j - 1 \in 1 .. k - 1 /\ j - 1 \in 1 .. Len(c) - 1 /\ (j - 1) + 1 = j
          BY ONLY <4>2, <5>0
        <5>1. j - 1 \in 1 .. k - 1 /\ j - 1 \in DOMAIN d /\ d[j - 1] = c[j]
          BY ONLY <5>a, <1>1
        <5> QED
          BY <5>1, <3>2, <1>2
      <4> QED
        BY <4>1, <4>2
    <3> QED
      BY <2>1, <3>1, <3>2, <1>4
  <2>3. ASSUME k < Len(d), d[k + 1].do = "use"
        PROVE  IF k = 1 THEN d[k].id \in R2 ELSE d[k - 1].id = d[k].id /\ d[k - 1].do = "use"
    <3>1. k + 1 < Len(c) /\ d[k + 1] = c[(k + 1) + 1]
      BY <2>3, <1>1
    <3>2. c[k].id = c[k + 1].id /\ c[k].do = "use"
      BY <2>1, <2>3, <3>1
    <3>3. CASE k = 1
      <4>1. c[1].id \in R
        BY <3>2, <3>3, <1>3 DEF Anchored, Through
      <4> QED
        BY <3>2, <3>3, <4>1, <1>2 DEF Yields
    <3>4. CASE k # 1
      BY <3>2, <3>4, <1>2, <1>4
    <3> QED
      BY <3>3, <3>4
  <2> QED
    BY <2>2, <2>3
<1>9. GetRule(d, k, H2)
  <2> SUFFICES ASSUME d[k].do \in {"get", "free"}
               PROVE  d[k].id \in H2 \/ \E j \in 1 .. k - 1 : d[j] = Call("alloc", d[k].id)
    BY DEF GetRule
  <2>1. c[k + 1].id \in H \/ \E j \in 1 .. (k + 1) - 1 : c[j] = Call("alloc", c[k + 1].id)
    BY <1>2, <1>3 DEF GetRule
  <2>2. CASE c[k + 1].id \in H
    BY <2>2, <1>2 DEF Yields
  <2>3. ASSUME NEW j \in 1 .. k, c[j] = Call("alloc", c[k + 1].id)
        PROVE  d[k].id \in H2 \/ \E i \in 1 .. k - 1 : d[i] = Call("alloc", d[k].id)
    <3>1. CASE j = 1
      BY <2>3, <3>1, <1>2 DEF Yields, Call
    <3>2. CASE j # 1
      <4>0. j - 1 \in 1 .. k - 1 /\ j - 1 \in DOMAIN d /\ (j - 1) + 1 = j
        BY <3>2, <2>3, <1>1, <1>2
      <4>1. j - 1 \in 1 .. k - 1 /\ j - 1 \in DOMAIN d /\ d[j - 1] = c[j]
        BY <4>0, <1>1
      <4> QED
        BY <4>1, <2>3, <1>2
    <3> QED
      BY <3>1, <3>2
  <2> QED
    BY <2>1, <2>2, <2>3, <1>4
<1> QED
  BY <1>2, <1>3, <1>6, <1>7, <1>8, <1>9

-----------------------------------------------------------------------------
(* A call that returns, in the state it finds.                              *)
LEMMA PlanFacts ==
  ASSUME TypeOK, plan # <<>>
  PROVE  /\ plan \in Seq(CallType) /\ Head(plan) = plan[1] /\ Head(plan) \in CallType
         /\ Id = plan[1].id /\ 1 \in DOMAIN plan /\ DOMAIN plan = 1 .. Len(plan)
         /\ Tail(plan) \in Seq(CallType) /\ Len(Tail(plan)) = Len(plan) - 1
         /\ Len(plan) \in Nat \ {0} /\ \A k \in 1 .. Len(plan) - 1 : Tail(plan)[k] = plan[k + 1]
<1>1. plan \in Seq(CallType)
  BY DEF TypeOK, CallType
<1> QED
  BY <1>1, TailFacts DEF Id

LEMMA BasicStep ==
  ASSUME Basic, plan # <<>>, Id \in Pages, NEW s, NEW new \in SUBSET {Id},
         Returns(s, new), Sound(s), Keeps(pager, s, Id), Id \in Cached(s),
         Had(pager) \subseteq Had(s),
         (s.lru = pager.lru /\ Id \in touched) \/ Fronts(pager.lru, s.lru, Id),
         used' \in SUBSET Pages, used' \subseteq used \cup {Id}, unmarked' \in SUBSET Pages,
         (used' \ unmarked') \ {Id} \subseteq used \ unmarked,
         Id \in used' \ unmarked' =>
           s.cache[Id].current /\ (s.file[Id] # "current" => s.cache[Id].dirty)
  PROVE  Basic'
<1>1. TypeOK /\ phase = "run" /\ Sound(pager) /\ HistoryIn(pager, refs, touched)
  BY DEF Basic
<1>2. /\ pager' = s /\ plan' = Tail(plan) /\ phase' = phase
      /\ refs' = (refs \cap Cached(s)) \cup new /\ touched' = touched \cup {Id}
  BY DEF Returns
<1>3. TypeOK'
  <2>1. plan' \in Seq(CallType)
    BY <1>1, <1>2, PlanFacts
  <2>2. refs' \in SUBSET Pages /\ touched' \in SUBSET Pages
    BY <1>1, <1>2 DEF TypeOK
  <2>3. /\ Cached(s) \subseteq Pages /\ Cardinality(Cached(s)) <= CacheSize
        /\ \A id \in Cached(s) : s.cache[id] \in PageType
        /\ s.lru \in Seq(Pages) /\ s.mapped \in SUBSET Pages
        /\ s.file \in [Pages -> {"none", "stale", "current"}]
    BY DEF Sound, Typed
  <2> QED
    BY <1>1, <1>2, <2>1, <2>2, <2>3 DEF TypeOK, PageType, CallType, Cached
<1>4. HistoryIn(s, (refs \cap Cached(s)) \cup new, touched \cup {Id})
  BY <1>1, HistoryStep
<1>5. used' \subseteq Had(s)
  BY <1>1 DEF Basic, Had
<1>6. TransparentIn(s, used' \ unmarked')
  <2>1. used \ unmarked \in SUBSET Pages /\ used' \ unmarked' \in SUBSET Pages
    BY <1>1 DEF TypeOK
  <2>2. TransparentIn(pager, used \ unmarked)
    BY DEF Basic
  <2> QED
    BY <1>1, <2>1, <2>2, TransparentStep
<1>7. HistoryIn(pager', refs', touched')
  BY <1>2, <1>4
<1>8. used' \subseteq Had(pager') /\ TransparentIn(pager', used' \ unmarked') /\ Sound(pager')
  BY <1>2, <1>5, <1>6
<1>9. phase' = "run"
  BY <1>1, <1>2
<1> QED
  BY <1>3, <1>7, <1>8, <1>9 DEF Basic

LEMMA OrderlyStep ==
  ASSUME Basic, plan # <<>>, NEW s, NEW new,
         Orderly(plan, refs, touched, Had(pager)), Returns(s, new),
         Had(pager) \subseteq Had(s),
         Head(plan).do = "get" => Id \in new,
         Id \in refs /\ Head(plan).do \in {"pin", "unpin", "use"} => Id \in Cached(s),
         Head(plan).do = "alloc" => Id \in Had(s)
  PROVE  Orderly(plan', refs', touched', Had(pager'))
<1>1. /\ pager' = s /\ plan' = Tail(plan)
      /\ refs' = (refs \cap Cached(s)) \cup new /\ touched' = touched \cup ({Id} \cap Pages)
  BY DEF Returns
<1>2. plan \in Seq(CallType) /\ Head(plan) = plan[1] /\ Id = plan[1].id
  BY PlanFacts DEF Basic
<1>3. touched \in SUBSET Pages
  BY DEF Basic, TypeOK
<1>4. Yields(plan[1], refs, touched, Had(pager), refs', touched', Had(s))
  BY <1>1, <1>2 DEF Yields
<1>5. Orderly(Tail(plan), refs', touched', Had(s))
  BY <1>2, <1>3, <1>4, OrderlyTail
<1> QED
  BY <1>1, <1>5

\* Where in a bracket the next call can be.
LEMMA PinningCases ==
  ASSUME TypeOK, plan # <<>>, Pinning
  PROVE  /\ Head(plan).do \in {"alloc", "free", "flush"} => Outside
         /\ Head(plan).do = "get" =>
              Outside \/ \E p \in Pages : \E n \in Pages \ {p} : Entering(p, n)
         /\ Head(plan).do = "pin" =>
              Outside \/ \E p \in Pages : \E n \in Pages \ {p} : Inside(p, n)
         /\ Head(plan).do = "unpin" =>
              \/ Outside \/ \E p \in Pages : Leaving(p)
              \/ \E p \in Pages : \E n \in Pages \ {p} : LeavingInside(p, n)
         /\ Head(plan).do \in Through =>
              \/ Outside \/ \E p \in Pages : Working(p)
              \/ \E p \in Pages : \E n \in Pages \ {p} :
                   WorkingAround(p, n) \/ WorkingInside(p, n)
<1>1. Head(plan) = plan[1]
  BY PlanFacts
<1>2. \A p \in Pages : /\ Working(p) => plan[1].do \in Through
                       /\ Leaving(p) => plan[1].do = "unpin"
  BY DEF Working, Leaving, Call
<1>3. \A p, n \in Pages :
        /\ WorkingAround(p, n) => plan[1].do \in Through
        /\ Entering(p, n) => plan[1].do = "get"
        /\ Inside(p, n) => plan[1].do = "pin"
        /\ WorkingInside(p, n) => plan[1].do = "change"
        /\ LeavingInside(p, n) => plan[1].do = "unpin"
  BY DEF WorkingAround, Entering, Inside, WorkingInside, LeavingInside, Inner, Call
<1>4. "get" \notin Through /\ "pin" \notin Through /\ "unpin" \notin Through
      /\ "alloc" \notin Through /\ "free" \notin Through /\ "flush" \notin Through
      /\ "change" \in Through
  BY DEF Through
<1>5. CASE Outside
  BY <1>5
<1>6. ASSUME NEW p \in Pages, Working(p) \/ Leaving(p) PROVE
         /\ Head(plan).do \notin {"alloc", "free", "flush", "get", "pin"}
         /\ Head(plan).do = "unpin" => Leaving(p)
         /\ Head(plan).do \in Through => Working(p)
  BY <1>1, <1>2, <1>4, <1>6 DEF Through
<1>7. ASSUME NEW p \in Pages, NEW n \in Pages \ {p},
             \/ WorkingAround(p, n) \/ Entering(p, n) \/ Inside(p, n)
             \/ WorkingInside(p, n) \/ LeavingInside(p, n)
      PROVE  /\ Head(plan).do \notin {"alloc", "free", "flush"}
             /\ Head(plan).do = "get" => Entering(p, n)
             /\ Head(plan).do = "pin" => Inside(p, n)
             /\ Head(plan).do = "unpin" => LeavingInside(p, n)
             /\ Head(plan).do \in Through => WorkingAround(p, n) \/ WorkingInside(p, n)
  BY <1>1, <1>3, <1>4, <1>7 DEF Through
<1>8. CASE \E p \in Pages : Working(p) \/ Leaving(p)
  BY <1>8, <1>6
<1>9. CASE \E p \in Pages : \E n \in Pages \ {p} :
             \/ WorkingAround(p, n) \/ Entering(p, n) \/ Inside(p, n)
             \/ WorkingInside(p, n) \/ LeavingInside(p, n)
  BY <1>9, <1>7
<1> QED
  BY <1>5, <1>8, <1>9 DEF Pinning

LEMMA AddingTails ==
  ASSUME NEW last \in Pages, NEW f \in Pages
  PROVE  /\ Tail(<<Call("get", last), Call("alloc", f), Call("get", f), Call("change", f),
                   Call("change", last), Call("change", f), Call("flush", NoPage)>>) =
              <<Call("alloc", f), Call("get", f), Call("change", f), Call("change", last),
                Call("change", f), Call("flush", NoPage)>>
         /\ Tail(<<Call("alloc", f), Call("get", f), Call("change", f), Call("change", last),
                   Call("change", f), Call("flush", NoPage)>>) =
              <<Call("get", f), Call("change", f), Call("change", last), Call("change", f),
                Call("flush", NoPage)>>
         /\ Tail(<<Call("get", f), Call("change", f), Call("change", last), Call("change", f),
                   Call("flush", NoPage)>>) =
              <<Call("change", f), Call("change", last), Call("change", f), Call("flush", NoPage)>>
         /\ Tail(<<Call("change", f), Call("change", last), Call("change", f),
                   Call("flush", NoPage)>>) =
              <<Call("change", last), Call("change", f), Call("flush", NoPage)>>
         /\ Tail(<<Call("change", last), Call("change", f), Call("flush", NoPage)>>) =
              <<Call("change", f), Call("flush", NoPage)>>
<1> DEFINE a == Call("get", last)
           b == Call("alloc", f)
           c == Call("get", f)
           d == Call("change", f)
           e == Call("change", last)
           g == Call("flush", NoPage)
<1> HIDE DEF a, b, c, d, e, g
<1>1. /\ Tail(<<a, b, c, d, e, d, g>>) = <<b, c, d, e, d, g>>
      /\ Tail(<<b, c, d, e, d, g>>) = <<c, d, e, d, g>>
      /\ Tail(<<c, d, e, d, g>>) = <<d, e, d, g>>
      /\ Tail(<<d, e, d, g>>) = <<e, d, g>>
      /\ Tail(<<e, d, g>>) = <<d, g>>
  OBVIOUS
<1> QED
  BY <1>1 DEF a, b, c, d, e, g

LEMMA GetStep == ASSUME IInv, Get PROVE IInv'
<1>1. Basic /\ TypeOK /\ Sound(pager) /\ PlanInv /\ plan # <<>> /\ Head(plan).do = "get"
  BY DEF IInv, Basic, Get, Doing
<1>2. /\ plan \in Seq(CallType) /\ Head(plan) = plan[1] /\ Id = plan[1].id
      /\ 1 \in DOMAIN plan /\ plan[1].do = "get" /\ Len(plan) \in Nat \ {0}
      /\ Len(Tail(plan)) = Len(plan) - 1
      /\ \A k \in 1 .. Len(plan) - 1 : Tail(plan)[k] = plan[k + 1]
  BY <1>1, PlanFacts
<1> DEFINE g == Got(pager, Id)
\* What holds in both parts of PlanInv, given that the page is there.
<1>3. ASSUME Id \in Had(pager), Id \in Cached(pager) \/ Calm(pager)
      PROVE  /\ Returns(g, {Id}) /\ Sound(g) /\ Keeps(pager, g, Id) /\ Id \in Cached(g)
             /\ Had(pager) \subseteq Had(g) /\ Basic' /\ Id \in Pages
             /\ refs' = (refs \cap Cached(g)) \cup {Id} /\ pager' = g /\ plan' = Tail(plan)
             /\ \A P : PinnedAre(pager, P) /\ Id \notin P => PinnedAre(g, P)
  <2>1. Id \in Pages
    BY <1>3 DEF Had
  <2>2. /\ CanGet(pager, Id) /\ Sound(g) /\ Keeps(pager, g, Id) /\ Id \in Cached(g)
        /\ Had(pager) \subseteq Had(g)
    BY <1>1, <1>3, GotFacts
  <2>3. Returns(g, {Id}) /\ UNCHANGED <<used, unmarked>>
    BY <2>2 DEF Get
  <2>4. Id \in Cached(pager) => g.cache = pager.cache /\ g.file = pager.file
    BY <1>1, <1>3, GotFacts
  <2>5. Id \notin Cached(pager) =>
          /\ g.file[Id] = pager.file[Id]
          /\ g.cache[Id] = [dirty |-> FALSE, pins |-> 0, current |-> pager.file[Id] = "current"]
    BY <1>1, <1>3, GotFacts
  <2>6. IF Id \in Cached(pager) /\ pager.cache[Id].pins > 0 THEN g = pager
        ELSE Fronts(pager.lru, g.lru, Id)
    BY <1>1, <1>3, GotFacts
  <2> HIDE DEF g
  <2>7. (g.lru = pager.lru /\ Id \in touched) \/ Fronts(pager.lru, g.lru, Id)
    BY <2>6, <1>1 DEF Basic, HistoryIn
  <2>8. Id \in used \ unmarked =>
          g.cache[Id].current /\ (g.file[Id] # "current" => g.cache[Id].dirty)
    <3>1. CASE Id \in Cached(pager)
      BY <3>1, <2>4, <1>1 DEF Basic, TransparentIn
    <3>2. CASE Id \notin Cached(pager)
      <4>1. Id \in used \ unmarked => pager.file[Id] = "current"
        BY <3>2, <1>1 DEF Basic, TransparentIn
      <4>2. g.cache[Id].current = (pager.file[Id] = "current")
        BY <3>2, <2>5
      <4>3. g.file[Id] = pager.file[Id]
        BY <3>2, <2>5
      <4> QED
        BY <4>1, <4>2, <4>3
    <3> QED
      BY <3>1, <3>2
  <2>9. used \in SUBSET Pages /\ unmarked \in SUBSET Pages
    BY <1>1 DEF TypeOK
  <2>10. Basic'
    BY <1>1, <2>1, <2>2, <2>3, <2>7, <2>8, <2>9, BasicStep
  <2>11. \A P : PinnedAre(pager, P) /\ Id \notin P => PinnedAre(g, P)
    <3> SUFFICES ASSUME NEW P, PinnedAre(pager, P), Id \notin P PROVE PinnedAre(g, P)
      OBVIOUS
    <3>1. g.cache[Id].pins = 0
      <4>1. CASE Id \in Cached(pager)
        BY <4>1, <2>4 DEF PinnedAre
      <4>2. CASE Id \notin Cached(pager)
        BY <4>2, <2>5
      <4> QED
        BY <4>1, <4>2
    <3> QED
      BY <3>1, <2>2, PinnedStep
  <2> QED
    BY <2>1, <2>2, <2>3, <2>10, <2>11 DEF Returns
<1> HIDE DEF g
<1>4. CASE Orderly(plan, refs, touched, Had(pager)) /\ Pinning
  <2>1. Id \in Had(pager)
    <3>1. GetRule(plan, 1, Had(pager))
      BY <1>2, <1>4 DEF Orderly
    <3> QED
      BY <3>1, <1>2 DEF GetRule
  <2>2. Calm(pager)
    <3>1. CASE Outside
      BY <3>1, CalmFacts DEF Outside
    <3>2. CASE \E p \in Pages : \E n \in Pages \ {p} : Entering(p, n)
      BY <3>2, CalmFacts DEF Entering
    <3> QED
      BY <3>1, <3>2, <1>1, <1>4, PinningCases
  <2>3. /\ Returns(g, {Id}) /\ Had(pager) \subseteq Had(g) /\ Basic' /\ Id \in Cached(g)
        /\ pager' = g /\ plan' = Tail(plan)
        /\ \A P : PinnedAre(pager, P) /\ Id \notin P => PinnedAre(g, P)
    BY <1>3, <2>1, <2>2
  <2>4. Orderly(plan', refs', touched', Had(pager'))
    BY <1>1, <1>4, <2>3, OrderlyStep
  <2>5. Pinning'
    <3>1. CASE Outside
      BY <3>1, <2>3 DEF Outside, Pinning
    <3>2. ASSUME NEW p \in Pages, NEW n \in Pages \ {p}, Entering(p, n) PROVE Pinning'
      <4>1. plan[1] = Call("get", n) /\ PinnedAre(pager, {p}) /\ 1 + 4 <= Len(plan)
            /\ plan[1 + 1] = Call("pin", n) /\ plan[1 + 2] = Call("change", n)
            /\ plan[1 + 3] = Call("unpin", n) /\ plan[1 + 4] = Call("unpin", p)
        BY <3>2 DEF Entering, Inner
      <4>2. Id = n /\ PinnedAre(g, {p})
        BY <4>1, <1>2, <2>3 DEF Call
      <4>3. /\ Len(plan') >= 4 /\ plan'[1] = Call("pin", n) /\ plan'[2] = Call("change", n)
            /\ plan'[3] = Call("unpin", n) /\ plan'[4] = Call("unpin", p)
        BY <4>1, <1>2, <2>3
      <4>4. Inside(p, n)'
        BY <4>2, <4>3, <2>3 DEF Inside
      <4> QED
        BY <4>4 DEF Pinning
    <3> QED
      BY <3>1, <3>2, <1>1, <1>4, PinningCases
  <2> QED
    BY <2>3, <2>4, <2>5 DEF IInv, PlanInv
<1>5. CASE Appendings
  <2>1. Outside /\ Calm(pager)
    BY <1>5, CalmFacts DEF Appendings, Outside
  <2>0. PICK last \in Pages : \E f \in Pages \ {last} : Adding(last, f)
    BY <1>5 DEF Appendings
  <2>2. PICK f \in Pages \ {last} : Adding(last, f)
    BY <2>0
  <2>3. CASE /\ plan = <<Call("get", last), Call("alloc", f), Call("get", f), Call("change", f),
                         Call("change", last), Call("change", f), Call("flush", NoPage)>>
             /\ last \in Had(pager)
    <3>1. Id = last
      <4>1. plan[1] = Call("get", last)
        BY <2>3
      <4> QED
        BY <4>1, <1>2 DEF Call
    <3>2. /\ Basic' /\ pager' = g /\ plan' = Tail(plan) /\ PinnedAre(g, {})
          /\ last \in refs'
      BY <1>3, <2>1, <2>3, <3>1 DEF Outside
    <3>3. g.lru[1] = last
      <4>1. Fronts(pager.lru, g.lru, Id)
        <5>1. ~ (Id \in Cached(pager) /\ pager.cache[Id].pins > 0)
          BY <2>1 DEF Outside, PinnedAre
        <5> QED
          BY <5>1, <1>1, <2>1, <2>3, <3>1, GotFacts DEF g
      <4> QED
        BY <4>1, <3>1 DEF Fronts
    <3>4. plan' = <<Call("alloc", f), Call("get", f), Call("change", f), Call("change", last),
                    Call("change", f), Call("flush", NoPage)>>
      BY <2>3, <3>2, AddingTails
    <3>5. Adding(last, f)' /\ Outside'
      BY <3>2, <3>3, <3>4 DEF Adding, Outside
    <3> QED
      BY <3>2, <3>5 DEF IInv, PlanInv, Appendings
  <2>4. CASE /\ plan = <<Call("get", f), Call("change", f), Call("change", last),
                         Call("change", f), Call("flush", NoPage)>>
             /\ last \in refs /\ f \in Cached(pager)
    <3>1. Id = f
      BY <1>2, <2>4 DEF Call
    <3>2. f \in Had(pager)
      BY <2>4 DEF Had
    <3>3. /\ Basic' /\ pager' = g /\ plan' = Tail(plan) /\ PinnedAre(g, {})
          /\ refs' = (refs \cap Cached(g)) \cup {f}
      BY <1>3, <2>1, <3>2, <3>1 DEF Outside
    <3>4. Cached(g) = Cached(pager)
      BY <1>1, <2>4, <3>1, <3>2, GotFacts DEF g, Cached
    <3>5. {last, f} \subseteq refs'
      BY <1>1, <2>4, <3>3, <3>4 DEF Basic, HistoryIn
    <3>6. plan' = <<Call("change", f), Call("change", last), Call("change", f),
                    Call("flush", NoPage)>>
      BY <2>4, <3>3, AddingTails
    <3>7. Adding(last, f)' /\ Outside'
      BY <3>3, <3>5, <3>6 DEF Adding, Outside
    <3> QED
      BY <3>3, <3>7 DEF IInv, PlanInv, Appendings
  <2>5. plan[1].do = "get" => \/ /\ plan = <<Call("get", last), Call("alloc", f), Call("get", f),
                                             Call("change", f), Call("change", last),
                                             Call("change", f), Call("flush", NoPage)>>
                                 /\ last \in Had(pager)
                              \/ /\ plan = <<Call("get", f), Call("change", f), Call("change", last),
                                             Call("change", f), Call("flush", NoPage)>>
                                 /\ last \in refs /\ f \in Cached(pager)
    BY <2>2 DEF Adding, Call
  <2> QED
    BY <1>2, <2>3, <2>4, <2>5
<1> QED
  BY <1>1, <1>4, <1>5 DEF PlanInv

\* The calls that persistFreelist can be at, between the two references it keeps.
LEMMA AddingHeads ==
  ASSUME TypeOK, plan # <<>>, Appendings
  PROVE  Head(plan).do \in {"get", "alloc", "change"}
<1>1. PICK last \in Pages : \E f \in Pages \ {last} : Adding(last, f)
  BY DEF Appendings
<1>2. PICK f \in Pages \ {last} : Adding(last, f)
  BY <1>1
<1>3. \/ plan[1] = Call("get", last) \/ plan[1] = Call("alloc", f) \/ plan[1] = Call("get", f)
      \/ plan[1] = Call("change", f) \/ plan[1] = Call("change", last)
  BY <1>2 DEF Adding
<1> QED
  BY <1>3, PlanFacts DEF Call

LEMMA InnerTail ==
  ASSUME NEW c \in Seq(CallType), c # <<>>, NEW j \in Nat \ {0}, NEW n, NEW p,
         Inner(c, j + 1, n, p)
  PROVE  Inner(Tail(c), j, n, p)
<1>1. Len(Tail(c)) = Len(c) - 1 /\ Len(c) \in Nat
      /\ \A k \in 1 .. Len(c) - 1 : Tail(c)[k] = c[k + 1]
  BY TailFacts
<1>2. /\ (j + 1) + 4 <= Len(c)
      /\ c[j + 1] = Call("get", n) /\ c[(j + 1) + 1] = Call("pin", n)
      /\ c[(j + 1) + 2] = Call("change", n) /\ c[(j + 1) + 3] = Call("unpin", n)
      /\ c[(j + 1) + 4] = Call("unpin", p)
  BY DEF Inner
<1>3. /\ j + 4 <= Len(c) - 1
      /\ j \in 1 .. Len(c) - 1 /\ j + 1 \in 1 .. Len(c) - 1 /\ j + 2 \in 1 .. Len(c) - 1
      /\ j + 3 \in 1 .. Len(c) - 1 /\ j + 4 \in 1 .. Len(c) - 1
      /\ (j + 1) + 1 = j + 2 /\ (j + 1) + 2 = j + 3 /\ (j + 1) + 3 = j + 4
      /\ (j + 2) + 1 = j + 3 /\ (j + 3) + 1 = j + 4 /\ (j + 4) + 1 = (j + 1) + 4
  BY <1>1, <1>2
<1> QED
  BY <1>1, <1>2, <1>3 DEF Inner

LEMMA PinStep == ASSUME IInv, Pin PROVE IInv'
<1>1. Basic /\ TypeOK /\ Sound(pager) /\ PlanInv /\ plan # <<>> /\ Head(plan).do = "pin"
  BY DEF IInv, Basic, Pin, Doing
<1>2. /\ plan \in Seq(CallType) /\ Head(plan) = plan[1] /\ Id = plan[1].id
      /\ 1 \in DOMAIN plan /\ plan[1].do = "pin" /\ Len(plan) \in Nat \ {0}
      /\ Len(Tail(plan)) = Len(plan) - 1
      /\ \A k \in 1 .. Len(plan) - 1 : Tail(plan)[k] = plan[k + 1]
  BY <1>1, PlanFacts
<1>3. Orderly(plan, refs, touched, Had(pager)) /\ Pinning
  BY <1>1, AddingHeads DEF PlanInv
<1>4. Bracket(plan, 1) /\ Id \in refs /\ Id \in Pages
  <2>1. PinRule(plan, 1, refs) /\ (plan[1].id \in Pages <=> plan[1].do # "flush")
    BY <1>2, <1>3 DEF Orderly
  <2> QED
    BY <2>1, <1>2 DEF PinRule
<1>5. Id \in Cached(pager) /\ Id \in touched
  BY <1>4, <1>1 DEF Basic, HistoryIn
<1> DEFINE g == Pinned(pager, Id)
<1>6. /\ CanGet(pager, Id) /\ Sound(g) /\ Cached(g) = Cached(pager) /\ g.file = pager.file
      /\ g.cache[Id] = [pager.cache[Id] EXCEPT !.pins = @ + 1]
      /\ \A q \in Cached(pager) \ {Id} : g.cache[q] = pager.cache[q]
      /\ IF pager.cache[Id].pins > 0 THEN g.lru = pager.lru ELSE Fronts(pager.lru, g.lru, Id)
  BY <1>1, <1>5, PinnedFacts
<1>7. Returns(g, {}) /\ UNCHANGED <<used, unmarked>>
  BY <1>6 DEF Pin
<1> HIDE DEF g
<1>8. Keeps(pager, g, Id) /\ Had(pager) \subseteq Had(g)
  BY <1>5, <1>6 DEF Keeps, Had
<1>9. pager.cache[Id] \in PageType
  BY <1>1, <1>5 DEF Sound, Typed
<1>10. g.cache[Id].pins = pager.cache[Id].pins + 1 /\ g.cache[Id].dirty = pager.cache[Id].dirty
       /\ g.cache[Id].current = pager.cache[Id].current
  BY <1>6, <1>9 DEF PageType
<1>11. Basic'
  <2>1. (g.lru = pager.lru /\ Id \in touched) \/ Fronts(pager.lru, g.lru, Id)
    BY <1>5, <1>6
  <2>2. used \in SUBSET Pages /\ unmarked \in SUBSET Pages
    BY <1>1 DEF TypeOK
  <2>3. Id \in used \ unmarked =>
          g.cache[Id].current /\ (g.file[Id] # "current" => g.cache[Id].dirty)
    BY <1>1, <1>5, <1>6, <1>10 DEF Basic, TransparentIn
  <2> QED
    BY <1>1, <1>4, <1>5, <1>6, <1>7, <1>8, <2>1, <2>2, <2>3, BasicStep
<1>12. Orderly(plan', refs', touched', Had(pager'))
  BY <1>1, <1>3, <1>5, <1>6, <1>7, <1>8, OrderlyStep
<1>13. pager' = g /\ plan' = Tail(plan)
  BY <1>7 DEF Returns
<1>14. Pinning'
  <2>1. CASE Outside
    <3>1. pager.cache[Id].pins = 0
      BY <2>1, <1>5 DEF Outside, PinnedAre
    <3>2. PinnedAre(g, {Id})
      <4>1. g.cache[Id].pins = IF Id \in {Id} THEN 1 ELSE 0
        BY <3>1, <1>10
      <4> QED
        BY <4>1, <2>1, <1>5, <1>6, <1>8, PinnedStep DEF Outside
    <3>3. g.lru[1] = Id
      BY <3>1, <1>6 DEF Fronts
    <3>4. /\ 1 + 2 <= Len(plan) /\ plan[1 + 1].do \in Through /\ plan[1 + 1].id = plan[1].id
          /\ \/ plan[1 + 2] = Call("unpin", plan[1].id)
             \/ \E n \in Pages \ {plan[1].id} : Inner(plan, 1 + 2, n, plan[1].id)
      BY <1>4 DEF Bracket
    <3>5. /\ Len(plan') >= 2 /\ plan'[1] = plan[2] /\ plan'[2] = plan[3]
          /\ plan'[1].do \in Through /\ plan'[1].id = Id
      BY <3>4, <1>2, <1>13
    <3>6. CASE plan[1 + 2] = Call("unpin", plan[1].id)
      <4>1. PICK p \in Pages : p = Id
        BY <1>4
      <4>2. plan'[1].id = p /\ plan'[2] = Call("unpin", p) /\ PinnedAre(g, {p})
        BY <3>2, <3>5, <3>6, <4>1, <1>2
      <4>3. Working(p)'
        BY <4>2, <3>5, <1>13 DEF Working
      <4> QED
        BY <4>3 DEF Pinning
    <3>7. ASSUME NEW n \in Pages \ {Id}, Inner(plan, 3, n, Id) PROVE Pinning'
      <4>1. Inner(plan', 2, n, Id)
        <5>1. Inner(plan, 2 + 1, n, Id)
          BY <3>7
        <5>2. Inner(Tail(plan), 2, n, Id)
          BY <5>1, <1>1, <1>2, InnerTail
        <5> QED
          BY <5>2, <1>13
      <4>4. PICK p \in Pages : p = Id
        BY <1>4
      <4>2. PinnedAre(g, {p}) /\ g.lru[1] = p /\ plan'[1].id = p
            /\ Inner(plan', 2, n, p) /\ n \in Pages \ {p}
        BY <4>1, <4>4, <3>2, <3>3, <3>5, <3>7
      <4>3. WorkingAround(p, n)'
        BY <4>2, <3>5, <1>13 DEF WorkingAround
      <4> QED
        BY <4>2, <4>3 DEF Pinning
    <3> QED
      BY <3>4, <3>6, <3>7, <1>2
  <2>2. ASSUME NEW p \in Pages, NEW n \in Pages \ {p}, Inside(p, n) PROVE Pinning'
    <3>1. /\ PinnedAre(pager, {p}) /\ Len(plan) >= 4 /\ plan[1] = Call("pin", n)
          /\ plan[2] = Call("change", n) /\ plan[3] = Call("unpin", n)
          /\ plan[4] = Call("unpin", p)
      BY <2>2 DEF Inside
    <3>2. Id = n
      BY <3>1, <1>2 DEF Call
    <3>3. pager.cache[Id].pins = 0
      BY <3>1, <3>2, <1>5 DEF PinnedAre
    <3>4. PinnedAre(g, {p, n})
      <4>1. g.cache[Id].pins = IF Id \in {p, n} THEN 1 ELSE 0
        BY <3>2, <3>3, <1>10
      <4>2. {p, n} \ {Id} = {p} \ {Id}
        BY <3>2
      <4>3. Id \in Cached(g)
        BY <1>5, <1>6
      <4> QED
        BY <4>1, <4>2, <4>3, <3>1, <1>8, PinnedStep
    <3>5. /\ Len(plan') >= 3 /\ plan'[1] = Call("change", n)
          /\ plan'[2] = Call("unpin", n) /\ plan'[3] = Call("unpin", p)
      BY <3>1, <1>2, <1>13
    <3>6. WorkingInside(p, n)'
      BY <3>4, <3>5, <1>13 DEF WorkingInside
    <3> QED
      BY <3>6 DEF Pinning
  <2> QED
    BY <2>1, <2>2, <1>1, <1>3, PinningCases
<1> QED
  BY <1>11, <1>12, <1>14 DEF IInv, PlanInv

LEMMA UnpinStep == ASSUME IInv, Unpin PROVE IInv'
<1>1. Basic /\ TypeOK /\ Sound(pager) /\ PlanInv /\ plan # <<>> /\ Head(plan).do = "unpin"
  BY DEF IInv, Basic, Unpin, Doing
<1>2. /\ plan \in Seq(CallType) /\ Head(plan) = plan[1] /\ Id = plan[1].id
      /\ 1 \in DOMAIN plan /\ plan[1].do = "unpin" /\ Len(plan) \in Nat \ {0}
      /\ Len(Tail(plan)) = Len(plan) - 1
      /\ \A k \in 1 .. Len(plan) - 1 : Tail(plan)[k] = plan[k + 1]
  BY <1>1, PlanFacts
<1>3. Orderly(plan, refs, touched, Had(pager)) /\ Pinning
  BY <1>1, AddingHeads DEF PlanInv
<1>4. Id \in touched /\ Id \in Pages
  <2>1. UnpinRule(plan, 1, refs, touched) /\ (plan[1].id \in Pages <=> plan[1].do # "flush")
    BY <1>2, <1>3 DEF Orderly
  <2> QED
    BY <2>1, <1>2 DEF UnpinRule
<1> DEFINE g == Unpinned(pager, Id)
<1>5. Returns(g, {}) /\ UNCHANGED <<used, unmarked>>
  BY DEF Unpin
<1>6. /\ pager' = g /\ plan' = Tail(plan) /\ phase' = phase
      /\ refs' = refs \cap Cached(g) /\ touched' = touched
  BY <1>4, <1>5 DEF Returns
<1>7. used \in SUBSET Pages /\ unmarked \in SUBSET Pages
  BY <1>1 DEF TypeOK
<1>8. CASE Id \in Cached(pager)
  <2>1. /\ Sound(g) /\ Cached(g) = Cached(pager) /\ g.file = pager.file /\ g.lru = pager.lru
        /\ g.cache[Id] = [pager.cache[Id] EXCEPT !.pins = IF @ > 0 THEN @ - 1 ELSE @]
        /\ \A q \in Cached(pager) \ {Id} : g.cache[q] = pager.cache[q]
    BY <1>1, <1>8, UnpinnedFacts
  <2> HIDE DEF g
  <2>2. Keeps(pager, g, Id) /\ Had(pager) \subseteq Had(g)
    BY <1>8, <2>1 DEF Keeps, Had
  <2>3. pager.cache[Id] \in PageType
    BY <1>1, <1>8 DEF Sound, Typed
  <2>4. /\ g.cache[Id].dirty = pager.cache[Id].dirty
        /\ g.cache[Id].current = pager.cache[Id].current
        /\ pager.cache[Id].pins \in Nat
        /\ g.cache[Id].pins =
             IF pager.cache[Id].pins > 0 THEN pager.cache[Id].pins - 1 ELSE pager.cache[Id].pins
    BY <2>1, <2>3 DEF PageType
  <2>5. Basic'
    <3>1. Id \in used \ unmarked =>
            g.cache[Id].current /\ (g.file[Id] # "current" => g.cache[Id].dirty)
      BY <1>1, <1>8, <2>1, <2>4 DEF Basic, TransparentIn
    <3> QED
      BY <1>1, <1>4, <1>5, <1>7, <1>8, <2>1, <2>2, <3>1, BasicStep
  <2>6. Orderly(plan', refs', touched', Had(pager'))
    BY <1>1, <1>3, <1>5, <1>8, <2>1, <2>2, OrderlyStep
  <2>7. ASSUME NEW P, NEW Q, PinnedAre(pager, P), Q = P \ {Id}
        PROVE  PinnedAre(g, Q)
    <3>1. pager.cache[Id].pins = IF Id \in P THEN 1 ELSE 0
      BY <1>8, <2>7 DEF PinnedAre
    <3>2. g.cache[Id].pins = IF Id \in Q THEN 1 ELSE 0
      BY <2>4, <2>7, <3>1
    <3>3. Id \in Cached(g) /\ Q \ {Id} = P \ {Id}
      BY <1>8, <2>1, <2>7
    <3> QED
      BY <3>2, <3>3, <2>2, <2>7, PinnedStep
  <2>8. Pinning'
    <3>1. CASE Outside
      BY <3>1, <2>7, <1>6 DEF Outside, Pinning
    <3>2. ASSUME NEW p \in Pages, Leaving(p) PROVE Pinning'
      <4>1. PinnedAre(pager, {p}) /\ Id = p
        BY <3>2, <1>2 DEF Leaving, Call
      <4>2. PinnedAre(g, {})
        BY <4>1, <2>7
      <4> QED
        BY <4>2, <1>6 DEF Pinning, Outside
    <3>3. ASSUME NEW p \in Pages, NEW n \in Pages \ {p}, LeavingInside(p, n) PROVE Pinning'
      <4>1. /\ PinnedAre(pager, {p, n}) /\ Len(plan) >= 2
            /\ plan[1] = Call("unpin", n) /\ plan[2] = Call("unpin", p)
        BY <3>3 DEF LeavingInside
      <4>2. Id = n
        BY <4>1, <1>2 DEF Call
      <4>3. PinnedAre(g, {p})
        <5>1. {p} = {p, n} \ {Id}
          BY <4>2
        <5> QED
          BY <5>1, <4>1, <2>7
      <4>4. Len(plan') >= 1 /\ plan'[1] = Call("unpin", p)
        BY <4>1, <1>2, <1>6
      <4>5. plan' # <<>>
        BY <4>4
      <4>6. Leaving(p)'
        BY <4>3, <4>4, <4>5, <1>6 DEF Leaving
      <4> QED
        BY <4>6 DEF Pinning
    <3> QED
      BY <3>1, <3>2, <3>3, <1>1, <1>3, PinningCases
  <2> QED
    BY <2>5, <2>6, <2>8 DEF IInv, PlanInv
<1>9. CASE Id \notin Cached(pager)
  <2>1. g = pager
    BY <1>9 DEF Unpinned
  <2>2. pager' = pager /\ refs' = refs
    BY <1>1, <1>6, <2>1 DEF Basic, HistoryIn
  <2>3. plan' \in Seq(CallType)
    BY <1>1, <1>6, PlanFacts
  <2>4. Basic'
    <3>1. TypeOK'
      BY <1>1, <1>5, <1>6, <2>2, <2>3 DEF TypeOK, CallType, Cached
    <3>2. phase' = "run" /\ Sound(pager') /\ used' \subseteq Had(pager')
          /\ TransparentIn(pager', used' \ unmarked') /\ HistoryIn(pager', refs', touched')
      BY <1>1, <1>5, <1>6, <2>2 DEF Basic
    <3> QED
      BY <3>1, <3>2 DEF Basic
  <2>5. Orderly(plan', refs', touched', Had(pager'))
    <3>1. Id \notin refs
      BY <1>1, <1>9 DEF Basic, HistoryIn
    <3> QED
      BY <1>1, <1>3, <1>5, <2>1, <3>1, OrderlyStep
  <2>6. Outside
    <3>1. ASSUME NEW p \in Pages, Leaving(p) PROVE FALSE
      BY <3>1, <1>2, <1>9 DEF Leaving, PinnedAre, Call
    <3>2. ASSUME NEW p \in Pages, NEW n \in Pages \ {p}, LeavingInside(p, n) PROVE FALSE
      BY <3>2, <1>2, <1>9 DEF LeavingInside, PinnedAre, Call
    <3> QED
      BY <3>1, <3>2, <1>1, <1>3, PinningCases
  <2>7. Pinning'
    BY <2>2, <2>6 DEF Outside, Pinning
  <2> QED
    BY <2>4, <2>5, <2>7 DEF IInv, PlanInv
<1> QED
  BY <1>8, <1>9

\* A call through a reference changes neither the pins nor the list.
LEMMA ThroughPinning ==
  ASSUME TypeOK, plan # <<>>, Pinning, Head(plan).do \in Through,
         NEW s, pager' = s, plan' = Tail(plan), s.lru = pager.lru,
         \A P : PinnedAre(pager, P) => PinnedAre(s, P)
  PROVE  Pinning'
<1>1. /\ plan \in Seq(CallType) /\ Len(plan) \in Nat \ {0} /\ Len(plan') = Len(plan) - 1
      /\ \A k \in 1 .. Len(plan) - 1 : plan'[k] = plan[k + 1]
  BY PlanFacts
<1>2. CASE Outside
  BY <1>2 DEF Outside, Pinning
<1>3. ASSUME NEW p \in Pages, Working(p) PROVE Pinning'
  <2>1. PinnedAre(pager, {p}) /\ Len(plan) >= 2 /\ plan[2] = Call("unpin", p)
    BY <1>3 DEF Working
  <2>0. Len(plan') >= 1 /\ plan'[1] = Call("unpin", p)
    BY <2>1, <1>1
  <2>2. plan' # <<>> /\ plan'[1] = Call("unpin", p)
    BY <2>0
  <2>3. Leaving(p)'
    BY <2>1, <2>2 DEF Leaving
  <2> QED
    BY <2>3 DEF Pinning
<1>4. ASSUME NEW p \in Pages, NEW n \in Pages \ {p}, WorkingAround(p, n) PROVE Pinning'
  <2>1. PinnedAre(pager, {p}) /\ pager.lru[1] = p /\ Inner(plan, 1 + 1, n, p)
    BY <1>4 DEF WorkingAround
  <2>2. Inner(Tail(plan), 1, n, p)
    BY <2>1, <1>1, InnerTail
  <2>3. Entering(p, n)'
    BY <2>1, <2>2 DEF Entering
  <2> QED
    BY <2>3 DEF Pinning
<1>5. ASSUME NEW p \in Pages, NEW n \in Pages \ {p}, WorkingInside(p, n) PROVE Pinning'
  <2>1. /\ PinnedAre(pager, {p, n}) /\ Len(plan) >= 3
        /\ plan[2] = Call("unpin", n) /\ plan[3] = Call("unpin", p)
    BY <1>5 DEF WorkingInside
  <2>2. Len(plan') >= 2 /\ plan'[1] = Call("unpin", n) /\ plan'[2] = Call("unpin", p)
    BY <2>1, <1>1
  <2>3. LeavingInside(p, n)'
    BY <2>1, <2>2 DEF LeavingInside
  <2> QED
    BY <2>3 DEF Pinning
<1> QED
  BY <1>2, <1>3, <1>4, <1>5, PinningCases

\* What use, change and slip have in common.
LEMMA ThroughStep ==
  ASSUME IInv, plan # <<>>, Head(plan).do \in Through, Id \in refs,
         NEW s, Returns(s, {}), Sound(s), Cached(s) = Cached(pager), s.lru = pager.lru,
         Keeps(pager, s, Id), s.cache[Id].pins = pager.cache[Id].pins,
         Had(pager) \subseteq Had(s),
         used' = used, unmarked' \in SUBSET Pages, unmarked \ {Id} \subseteq unmarked',
         Id \in used \ unmarked' =>
           s.cache[Id].current /\ (s.file[Id] # "current" => s.cache[Id].dirty)
  PROVE  /\ Basic' /\ pager' = s /\ plan' = Tail(plan) /\ refs' = refs
         /\ \A P : PinnedAre(pager, P) => PinnedAre(s, P)
         /\ Orderly(plan, refs, touched, Had(pager)) /\ Pinning => IInv'
<1>1. Basic /\ TypeOK /\ Sound(pager) /\ PlanInv
  BY DEF IInv, Basic
<1>2. Id \in Cached(pager) /\ Id \in touched /\ Id \in Pages
  BY <1>1 DEF Basic, HistoryIn, TypeOK
<1>3. pager' = s /\ plan' = Tail(plan) /\ refs' = refs
  BY <1>1 DEF Returns, Basic, HistoryIn
<1>4. Basic'
  <2>1. used' \in SUBSET Pages /\ used' \subseteq used \cup {Id}
        /\ (used' \ unmarked') \ {Id} \subseteq used \ unmarked
    BY <1>1 DEF TypeOK
  <2>2. Id \in Cached(s) /\ {} \in SUBSET {Id}
        /\ Id \in used' \ unmarked' =>
             s.cache[Id].current /\ (s.file[Id] # "current" => s.cache[Id].dirty)
    BY <1>2
  <2> QED
    BY <1>1, <1>2, <2>1, <2>2, BasicStep
<1>5. ASSUME NEW P, PinnedAre(pager, P) PROVE PinnedAre(s, P)
  <2>1. s.cache[Id].pins = IF Id \in P THEN 1 ELSE 0
    BY <1>2, <1>5 DEF PinnedAre
  <2> QED
    BY <2>1, <1>2, <1>5, PinnedStep
<1>6. ASSUME Orderly(plan, refs, touched, Had(pager)), Pinning PROVE IInv'
  <2>1. Head(plan).do # "get" /\ Head(plan).do # "alloc"
    BY DEF Through
  <2>2. Orderly(plan', refs', touched', Had(pager'))
    BY <1>1, <1>2, <1>6, <2>1, OrderlyStep
  <2>3. Pinning'
    BY <1>1, <1>3, <1>5, <1>6, ThroughPinning
  <2> QED
    BY <1>4, <2>2, <2>3 DEF IInv, PlanInv
<1> QED
  BY <1>3, <1>4, <1>5, <1>6

LEMMA KeepsItself ==
  ASSUME NEW s, NEW id
  PROVE  Keeps(s, s, id) /\ Had(s) \subseteq Had(s)
  BY DEF Keeps

LEMMA UseStep == ASSUME IInv, Use PROVE IInv'
<1>1. Basic /\ TypeOK /\ Sound(pager) /\ PlanInv /\ plan # <<>> /\ Head(plan).do = "use"
  BY DEF IInv, Basic, Use, Doing
<1>2. Orderly(plan, refs, touched, Had(pager)) /\ Pinning
  BY <1>1, AddingHeads DEF PlanInv
<1>3. Id \in refs /\ Head(plan).do \in Through
  <2>1. Anchored(plan, 1, refs) /\ Id = plan[1].id /\ Head(plan) = plan[1]
    BY <1>1, <1>2, PlanFacts DEF Orderly
  <2> QED
    BY <2>1, <1>1 DEF Anchored, Through
<1>4. Returns(pager, {}) /\ UNCHANGED <<used, unmarked>>
  BY DEF Use
<1>5. Id \in Cached(pager)
  BY <1>1, <1>3 DEF Basic, HistoryIn
<1>6. unmarked' \in SUBSET Pages /\ unmarked \ {Id} \subseteq unmarked'
      /\ (Id \in used \ unmarked' =>
            pager.cache[Id].current /\ (pager.file[Id] # "current" => pager.cache[Id].dirty))
  BY <1>1, <1>4, <1>5 DEF Basic, TypeOK, TransparentIn
<1> QED
  BY <1>1, <1>2, <1>3, <1>4, <1>6, KeepsItself, ThroughStep

\* A change, with the dirty flag or without it.
LEMMA ChangedStep ==
  ASSUME IInv, plan # <<>>, Head(plan).do \in {"change", "slip"}, Id \in refs,
         NEW flag \in BOOLEAN, Returns(Changed(pager, Id, flag), {}), used' = used,
         unmarked' \in SUBSET Pages, unmarked \ {Id} \subseteq unmarked',
         Id \notin unmarked' =>
           /\ flag \/ pager.cache[Id].dirty
           /\ Id \notin unmarked \/ pager.cache[Id].current
  PROVE  /\ Basic' /\ pager' = Changed(pager, Id, flag) /\ plan' = Tail(plan) /\ refs' = refs
         /\ \A P : PinnedAre(pager, P) => PinnedAre(Changed(pager, Id, flag), P)
         /\ Orderly(plan, refs, touched, Had(pager)) /\ Pinning => IInv'
<1>1. Basic /\ Sound(pager)
  BY DEF IInv, Basic
<1>2. Id \in Cached(pager)
  BY <1>1 DEF Basic, HistoryIn
<1> DEFINE g == Changed(pager, Id, flag)
<1>3. /\ Sound(g) /\ Cached(g) = Cached(pager)
      /\ g.file = Behind(pager.file, Id) /\ g.lru = pager.lru
      /\ g.cache[Id] = [pager.cache[Id] EXCEPT !.dirty = @ \/ flag]
      /\ \A q \in Cached(pager) \ {Id} : g.cache[q] = pager.cache[q]
  BY <1>1, <1>2, ChangedFacts
<1>4. Returns(g, {})
  OBVIOUS
<1> HIDE DEF g
<1>5. pager.cache[Id] \in PageType /\ pager.file \in [Pages -> {"none", "stale", "current"}]
  BY <1>1, <1>2 DEF Sound, Typed
<1>6. /\ g.cache[Id].pins = pager.cache[Id].pins
      /\ g.cache[Id].current = pager.cache[Id].current
      /\ (flag \/ pager.cache[Id].dirty) => g.cache[Id].dirty
  BY <1>3, <1>5 DEF PageType
<1>7. Keeps(pager, g, Id) /\ Had(pager) \subseteq Had(g)
  <2>1. \A q \in Pages \ {Id} : g.file[q] = pager.file[q]
    BY <1>3, <1>5 DEF Behind
  <2> QED
    BY <1>2, <1>3, <2>1 DEF Keeps, Had
<1>8. Id \in used \ unmarked' =>
        g.cache[Id].current /\ (g.file[Id] # "current" => g.cache[Id].dirty)
  BY <1>1, <1>2, <1>6 DEF Basic, TransparentIn
<1>9. Head(plan).do \in Through
  BY DEF Through
<1>10. /\ Basic' /\ pager' = g /\ plan' = Tail(plan) /\ refs' = refs
       /\ \A P : PinnedAre(pager, P) => PinnedAre(g, P)
       /\ Orderly(plan, refs, touched, Had(pager)) /\ Pinning => IInv'
  BY <1>3, <1>4, <1>6, <1>7, <1>8, <1>9, ThroughStep
<1> QED
  BY <1>10 DEF g

LEMMA SlipStep == ASSUME IInv, Slip PROVE IInv'
<1>1. Basic /\ TypeOK /\ PlanInv /\ plan # <<>> /\ Head(plan).do = "slip"
  BY DEF IInv, Basic, Slip, Doing
<1>2. Orderly(plan, refs, touched, Had(pager)) /\ Pinning
  BY <1>1, AddingHeads DEF PlanInv
<1>3. /\ Id \in refs /\ Returns(Changed(pager, Id, FALSE), {}) /\ used' = used
      /\ unmarked' = IF pager.cache[Id].dirty THEN unmarked ELSE unmarked \cup {Id}
  BY DEF Slip
<1>4. unmarked' \in SUBSET Pages /\ unmarked \ {Id} \subseteq unmarked'
  BY <1>1, <1>3 DEF TypeOK
<1>5. Id \notin unmarked' => pager.cache[Id].dirty /\ Id \notin unmarked
  BY <1>3
<1> QED
  BY <1>1, <1>2, <1>3, <1>4, <1>5, ChangedStep

LEMMA ChangeStep == ASSUME IInv, Change PROVE IInv'
<1>1. Basic /\ TypeOK /\ PlanInv /\ plan # <<>> /\ Head(plan).do = "change"
  BY DEF IInv, Basic, Change, Doing
<1>2. /\ Id \in refs /\ Returns(Changed(pager, Id, TRUE), {}) /\ used' = used
      /\ unmarked' = IF pager.cache[Id].current THEN unmarked \ {Id} ELSE unmarked
  BY DEF Change
<1> DEFINE g == Changed(pager, Id, TRUE)
<1>3. /\ Basic' /\ pager' = g /\ plan' = Tail(plan) /\ refs' = refs
      /\ \A P : PinnedAre(pager, P) => PinnedAre(g, P)
      /\ Orderly(plan, refs, touched, Had(pager)) /\ Pinning => IInv'
  <2>1. unmarked' \in SUBSET Pages /\ unmarked \ {Id} \subseteq unmarked'
    BY <1>1, <1>2 DEF TypeOK
  <2>2. Id \notin unmarked' => Id \notin unmarked \/ pager.cache[Id].current
    BY <1>2
  <2> QED
    BY <1>1, <1>2, <2>1, <2>2, ChangedStep
<1> HIDE DEF g
<1>4. CASE Appendings
  <2>1. PICK last \in Pages : \E f \in Pages \ {last} : Adding(last, f)
    BY <1>4 DEF Appendings
  <2>2. PICK f \in Pages \ {last} : Adding(last, f)
    BY <2>1
  <2>3. Outside'
    BY <1>3, <1>4 DEF Appendings, Outside
  <2>4. Head(plan) = plan[1] /\ plan[1].do = "change"
    BY <1>1, PlanFacts
  <2>5. CASE /\ plan = <<Call("change", f), Call("change", last), Call("change", f),
                         Call("flush", NoPage)>>
             /\ {last, f} \subseteq refs
    <3>1. plan' = <<Call("change", last), Call("change", f), Call("flush", NoPage)>>
      BY <1>3, <2>5, AddingTails
    <3>2. Adding(last, f)'
      BY <1>3, <2>5, <3>1 DEF Adding
    <3> QED
      BY <1>3, <2>3, <3>2 DEF IInv, PlanInv, Appendings
  <2>6. CASE /\ plan = <<Call("change", last), Call("change", f), Call("flush", NoPage)>>
             /\ {last, f} \subseteq refs
    <3>1. plan' = <<Call("change", f), Call("flush", NoPage)>>
      BY <1>3, <2>6, AddingTails
    <3>2. Orderly(plan', refs', touched', Had(pager'))
      <4>1. DOMAIN plan' = {1, 2} /\ plan'[1] = Call("change", f)
            /\ plan'[2] = Call("flush", NoPage)
        BY <3>1
      <4>2. f \in refs' /\ f \in Pages /\ NoPage \notin Pages
        BY <1>3, <2>6, CacheAssumption
      <4>3. ASSUME NEW k \in DOMAIN plan'
            PROVE  /\ plan'[k].id \in Pages <=> plan'[k].do # "flush"
                   /\ Anchored(plan', k, refs') /\ PinRule(plan', k, refs')
                   /\ UnpinRule(plan', k, refs', touched') /\ GetRule(plan', k, Had(pager'))
        <5>1. CASE k = 1
          BY <5>1, <4>1, <4>2 DEF Anchored, PinRule, UnpinRule, GetRule, Through, Call
        <5>2. CASE k = 2
          BY <5>2, <4>1, <4>2 DEF Anchored, PinRule, UnpinRule, GetRule, Through, Call
        <5> QED
          BY <5>1, <5>2, <4>1
      <4> QED
        BY <4>3 DEF Orderly
    <3> QED
      BY <1>3, <2>3, <3>2 DEF IInv, PlanInv, Pinning
  <2>7. \/ /\ plan = <<Call("change", f), Call("change", last), Call("change", f),
                       Call("flush", NoPage)>>
           /\ {last, f} \subseteq refs
        \/ /\ plan = <<Call("change", last), Call("change", f), Call("flush", NoPage)>>
           /\ {last, f} \subseteq refs
    BY <2>2, <2>4 DEF Adding, Call
  <2> QED
    BY <2>5, <2>6, <2>7
<1> QED
  BY <1>1, <1>3, <1>4 DEF PlanInv

\* The first page of the list is not the one that is evicted.
LEMMA FirstStays ==
  ASSUME NEW s, NEW g, NEW id, NEW q \in Cached(s), Sound(s), Keeps(s, g, id), s.lru[1] = q
  PROVE  q \in Cached(g)
<1> SUFFICES ASSUME q \notin Cached(g) PROVE FALSE
  OBVIOUS
<1>1. Cardinality(Cached(s)) >= CacheSize /\ q = s.lru[Len(s.lru)]
  BY DEF Keeps, Leaves
<1>2. s.lru \in Seq(Pages) /\ Len(s.lru) >= 2
  BY <1>1, FullList DEF Full
<1>3. 1 \in DOMAIN s.lru /\ Len(s.lru) \in DOMAIN s.lru /\ 1 # Len(s.lru)
  BY <1>2
<1> QED
  BY <1>1, <1>3 DEF Sound, Listed, IsInjective

LEMMA AllocStep == ASSUME IInv, Alloc PROVE IInv'
<1>1. Basic /\ TypeOK /\ Sound(pager) /\ PlanInv /\ plan # <<>> /\ Head(plan).do = "alloc"
  BY DEF IInv, Basic, Alloc, Doing
<1>2. Head(plan) = plan[1] /\ Id = plan[1].id /\ 1 \in DOMAIN plan
  BY <1>1, PlanFacts
<1>3. PlanInv => Outside
  BY <1>1, PinningCases DEF PlanInv, Appendings
<1>4. Outside /\ Calm(pager)
  BY <1>1, <1>3, CalmFacts DEF Outside
<1> DEFINE g == Allocated(pager, Id)
<1>5. ASSUME Id \in Pages
      PROVE  /\ Returns(g, {}) /\ Basic' /\ pager' = g /\ plan' = Tail(plan)
             /\ Had(pager) \subseteq Had(g) /\ Id \in Had(g) /\ Id \in Cached(g)
             /\ Keeps(pager, g, Id) /\ refs' = refs \cap Cached(g) /\ Outside'
  <2>1. /\ HasRoom(pager, Id) /\ Sound(g) /\ Keeps(pager, g, Id) /\ Id \in Cached(g)
        /\ Had(pager) \subseteq Had(g)
        /\ g.cache[Id] = [dirty |-> TRUE, pins |-> 0, current |-> TRUE]
        /\ Fronts(pager.lru, g.lru, Id)
    BY <1>1, <1>4, <1>5, AllocatedFacts
  <2>2. Returns(g, {}) /\ used' = used \cup {Id} /\ unmarked' = unmarked \ {Id}
    BY <2>1 DEF Alloc
  <2> HIDE DEF g
  <2>3. used' \in SUBSET Pages /\ used' \subseteq used \cup {Id} /\ unmarked' \in SUBSET Pages
        /\ (used' \ unmarked') \ {Id} \subseteq used \ unmarked
    BY <1>1, <1>5, <2>2 DEF TypeOK
  <2>4. Basic'
    BY <1>1, <1>5, <2>1, <2>2, <2>3, BasicStep
  <2>5. PinnedAre(g, {})
    BY <1>4, <2>1, PinnedStep DEF Outside
  <2>6. pager' = g /\ plan' = Tail(plan) /\ refs' = refs \cap Cached(g)
    BY <2>2 DEF Returns
  <2>7. Outside'
    BY <2>5, <2>6 DEF Outside
  <2>8. Id \in Had(g)
    BY <1>5, <2>1 DEF Had
  <2> QED
    BY <2>1, <2>2, <2>4, <2>6, <2>7, <2>8
<1> HIDE DEF g
<1>6. CASE Orderly(plan, refs, touched, Had(pager)) /\ Pinning
  <2>1. Id \in Pages
    BY <1>1, <1>2, <1>6 DEF Orderly
  <2>2. Orderly(plan', refs', touched', Had(pager'))
    BY <1>1, <1>5, <1>6, <2>1, OrderlyStep
  <2> QED
    BY <1>5, <2>1, <2>2 DEF IInv, PlanInv, Pinning
<1>7. CASE Appendings
  <2>1. PICK last \in Pages : \E f \in Pages \ {last} : Adding(last, f)
    BY <1>7 DEF Appendings
  <2>2. PICK f \in Pages \ {last} : Adding(last, f)
    BY <2>1
  <2>3. plan[1].do = "alloc"
    BY <1>1, <1>2
  <2>4. /\ plan = <<Call("alloc", f), Call("get", f), Call("change", f), Call("change", last),
                    Call("change", f), Call("flush", NoPage)>>
        /\ last \in refs /\ pager.lru[1] = last
    BY <2>2, <2>3 DEF Adding, Call
  <2>5. Id = f
    BY <1>2, <2>4 DEF Call
  <2>6. /\ Basic' /\ pager' = g /\ plan' = Tail(plan) /\ f \in Cached(g)
        /\ Keeps(pager, g, Id) /\ refs' = refs \cap Cached(g) /\ Outside'
    BY <1>5, <2>5
  <2>7. last \in Cached(g)
    <3>1. last \in Cached(pager)
      BY <1>1, <2>4 DEF Basic, HistoryIn
    <3> QED
      BY <1>1, <2>4, <2>6, <3>1, FirstStays
  <2>8. plan' = <<Call("get", f), Call("change", f), Call("change", last),
                  Call("change", f), Call("flush", NoPage)>>
    BY <2>4, <2>6, AddingTails
  <2>9. last \in refs' /\ f \in Cached(pager)'
    BY <2>4, <2>6, <2>7 DEF Cached
  <2>10. Adding(last, f)'
    BY <2>8, <2>9 DEF Adding
  <2> QED
    BY <2>6, <2>10 DEF IInv, PlanInv, Appendings
<1> QED
  BY <1>1, <1>6, <1>7 DEF PlanInv

LEMMA FreeStep == ASSUME IInv, Free PROVE IInv'
<1>1. Basic /\ TypeOK /\ Sound(pager) /\ PlanInv /\ plan # <<>> /\ Head(plan).do = "free"
  BY DEF IInv, Basic, Free, Doing
<1>2. Head(plan) = plan[1] /\ Id = plan[1].id /\ 1 \in DOMAIN plan
  BY <1>1, PlanFacts
<1>3. Orderly(plan, refs, touched, Had(pager)) /\ Pinning
  BY <1>1, AddingHeads DEF PlanInv
<1>4. Outside /\ Calm(pager)
  BY <1>1, <1>3, PinningCases, CalmFacts DEF Outside
<1>5. Id \in Had(pager) /\ Id \in Pages
  <2>1. GetRule(plan, 1, Had(pager))
    BY <1>2, <1>3 DEF Orderly
  <2> QED
    BY <2>1, <1>1, <1>2 DEF GetRule, Had
<1> DEFINE g == Freed(pager, Id)
<1>6. /\ CanFree(pager, Id) /\ Sound(g) /\ Keeps(pager, g, Id) /\ Id \in Cached(g)
      /\ Had(pager) \subseteq Had(g) /\ g.cache[Id].pins = 0
      /\ Fronts(pager.lru, g.lru, Id)
  <2>1. Id \in Cached(pager) => pager.cache[Id].pins = 0
    BY <1>4 DEF Outside, PinnedAre
  <2> QED
    BY <1>1, <1>4, <1>5, <2>1, FreedFacts
<1>7. Returns(g, {}) /\ used' = used \ {Id} /\ unmarked' = unmarked \ {Id}
  BY <1>6 DEF Free
<1> HIDE DEF g
<1>8. used' \in SUBSET Pages /\ used' \subseteq used \cup {Id} /\ unmarked' \in SUBSET Pages
      /\ (used' \ unmarked') \ {Id} \subseteq used \ unmarked /\ Id \notin used' \ unmarked'
  BY <1>1, <1>7 DEF TypeOK
<1>9. Basic'
  BY <1>1, <1>5, <1>6, <1>7, <1>8, BasicStep
<1>10. PinnedAre(g, {})
  BY <1>4, <1>6, PinnedStep DEF Outside
<1>11. Outside'
  BY <1>7, <1>10 DEF Outside, Returns
<1>12. Orderly(plan', refs', touched', Had(pager'))
  BY <1>1, <1>3, <1>6, <1>7, OrderlyStep
<1> QED
  BY <1>9, <1>11, <1>12 DEF IInv, PlanInv, Pinning

LEMMA FlushStep == ASSUME IInv, Flush PROVE IInv'
<1>1. Basic /\ TypeOK /\ Sound(pager) /\ PlanInv /\ plan # <<>> /\ Head(plan).do = "flush"
  BY DEF IInv, Basic, Flush, Doing
<1>2. Head(plan) = plan[1] /\ Id = plan[1].id /\ 1 \in DOMAIN plan /\ Tail(plan) \in Seq(CallType)
  BY <1>1, PlanFacts
<1>3. Orderly(plan, refs, touched, Had(pager)) /\ Pinning /\ Outside
  BY <1>1, AddingHeads, PinningCases DEF PlanInv
<1>4. Id \notin Pages
  BY <1>1, <1>2, <1>3 DEF Orderly
<1> DEFINE g == Flushed(pager)
<1>5. Returns(g, {}) /\ used' = used /\ unmarked' = unmarked
  BY DEF Flush
<1>6. /\ Sound(g) /\ Cached(g) = Cached(pager) /\ g.lru = pager.lru
      /\ \A q \in Cached(pager) : g.cache[q] = [pager.cache[q] EXCEPT !.dirty = FALSE]
      /\ \A q \in Pages : g.file[q] = IF q \in Cached(pager) /\ pager.cache[q].dirty
                                      THEN Saved(pager.cache[q]) ELSE pager.file[q]
  BY <1>1, FlushedFacts
<1> HIDE DEF g
<1>7. \A q \in Cached(pager) : /\ g.cache[q].pins = pager.cache[q].pins
                               /\ g.cache[q].current = pager.cache[q].current
  <2>1. ASSUME NEW q \in Cached(pager)
        PROVE g.cache[q].pins = pager.cache[q].pins /\ g.cache[q].current = pager.cache[q].current
    <3>1. pager.cache[q] \in PageType
      BY <1>1 DEF Sound, Typed
    <3> QED
      BY <3>1, <1>6 DEF PageType
  <2> QED
    BY <2>1
<1>8. /\ pager' = g /\ plan' = Tail(plan) /\ phase' = phase
      /\ refs' = refs /\ touched' = touched
  BY <1>1, <1>4, <1>5, <1>6 DEF Returns, Basic, HistoryIn
<1>9. Had(pager) \subseteq Had(g)
  BY <1>6 DEF Had, Saved
<1>10. TransparentIn(g, used \ unmarked)
  <2> SUFFICES ASSUME NEW id \in used \ unmarked
               PROVE  /\ id \in Cached(g) => g.cache[id].current
                      /\ g.file[id] # "current" => id \in Cached(g) /\ g.cache[id].dirty
    BY DEF TransparentIn
  <2>1. /\ id \in Cached(pager) => pager.cache[id].current
        /\ pager.file[id] # "current" => id \in Cached(pager) /\ pager.cache[id].dirty
    BY <1>1 DEF Basic, TransparentIn
  <2>2. id \in Pages
    BY <1>1 DEF TypeOK
  <2>3. g.file[id] = "current"
    BY <1>6, <2>1, <2>2 DEF Saved
  <2> QED
    BY <1>6, <1>7, <2>1, <2>3
<1>11. HistoryIn(g, refs, touched)
  BY <1>1, <1>6, <1>7 DEF Basic, HistoryIn, FirstIn, KeptIn
<1>12. Basic'
  <2>1. TypeOK'
    <3>1. /\ Cached(g) \subseteq Pages /\ Cardinality(Cached(g)) <= CacheSize
          /\ \A id \in Cached(g) : g.cache[id] \in PageType
          /\ g.lru \in Seq(Pages) /\ g.mapped \in SUBSET Pages
          /\ g.file \in [Pages -> {"none", "stale", "current"}]
      BY <1>6 DEF Sound, Typed
    <3> QED
      BY <1>1, <1>2, <1>5, <1>8, <3>1 DEF TypeOK, PageType, CallType, Cached
  <2>2. /\ phase' = "run" /\ Sound(pager') /\ used' \subseteq Had(pager')
        /\ TransparentIn(pager', used' \ unmarked') /\ HistoryIn(pager', refs', touched')
    BY <1>1, <1>5, <1>6, <1>8, <1>9, <1>10, <1>11 DEF Basic
  <2> QED
    BY <2>1, <2>2 DEF Basic
<1>13. Orderly(plan', refs', touched', Had(pager'))
  BY <1>1, <1>3, <1>5, <1>9, OrderlyStep
<1>14. Outside'
  BY <1>3, <1>6, <1>7, <1>8 DEF Outside, PinnedAre
<1> QED
  BY <1>12, <1>13, <1>14 DEF IInv, PlanInv, Pinning

-----------------------------------------------------------------------------
(* The operations.  A sequence of calls is closed when it is orderly from   *)
(* where no reference is held, given the pages H; operations are made of    *)
(* closed sequences one after the other.                                    *)
Closed(c, H) == c \in Seq(CallType) /\ Orderly(c, {}, {}, H)

Makes(c, n) == \E j \in DOMAIN c : c[j] = Call("alloc", n)

LEMMA OrderlyConcat ==
  ASSUME NEW a, NEW b, NEW H, NEW H2, Closed(a, H), Closed(b, H2),
         \A p \in H2 : p \in H \/ Makes(a, p)
  PROVE  Closed(a \o b, H)
<1> DEFINE c == a \o b
           m == Len(a)
<1>1. /\ a \in Seq(CallType) /\ b \in Seq(CallType)
      /\ Orderly(a, {}, {}, H) /\ Orderly(b, {}, {}, H2)
  BY DEF Closed
<1>2. /\ c \in Seq(CallType) /\ Len(c) = m + Len(b) /\ m \in Nat /\ Len(b) \in Nat
      /\ \A k \in 1 .. m + Len(b) : c[k] = IF k <= m THEN a[k] ELSE b[k - m]
  BY <1>1, ConcatProperties
<1>3. DOMAIN a = 1 .. m /\ DOMAIN b = 1 .. Len(b) /\ DOMAIN c = 1 .. m + Len(b)
  BY <1>1, <1>2
<1> HIDE DEF c, m
<1>4. \A k \in 1 .. m : k \in DOMAIN c /\ c[k] = a[k]
  BY <1>2, <1>3
<1>5. \A k \in 1 .. Len(b) : k + m \in DOMAIN c /\ c[k + m] = b[k]
  <2> SUFFICES ASSUME NEW k \in 1 .. Len(b) PROVE k + m \in DOMAIN c /\ c[k + m] = b[k]
    OBVIOUS
  <2>1. k + m \in 1 .. m + Len(b) /\ ~ (k + m <= m) /\ (k + m) - m = k
    BY <1>2
  <2> QED
    BY <2>1, <1>2, <1>3
<1>6. Len(b) >= 1 => b[1].do \notin Through
  BY <1>1, <1>3, <1>2 DEF Orderly, Anchored
\* The calls of a, with their neighbours in a.
<1>7. ASSUME NEW k \in 1 .. m
      PROVE  /\ c[k].id \in Pages <=> c[k].do # "flush"
             /\ Anchored(c, k, {}) /\ PinRule(c, k, {}) /\ UnpinRule(c, k, {}, {})
             /\ GetRule(c, k, H)
  <2>1. /\ a[k].id \in Pages <=> a[k].do # "flush"
        /\ Anchored(a, k, {}) /\ PinRule(a, k, {}) /\ UnpinRule(a, k, {}, {})
        /\ GetRule(a, k, H)
    BY <1>1, <1>3, <1>7 DEF Orderly
  <2>2. c[k] = a[k]
    BY <1>4
  <2>3. k # 1 => c[k - 1] = a[k - 1]
    <3>1. k # 1 => k - 1 \in 1 .. m
      BY <1>2
    <3> QED
      BY <3>1, <1>4
  <2>4. Anchored(c, k, {})
    BY <2>1, <2>2, <2>3 DEF Anchored
  <2>5. Bracket(a, k) => Bracket(c, k)
    <3> SUFFICES ASSUME Bracket(a, k) PROVE Bracket(c, k)
      OBVIOUS
    <3>1. /\ k + 2 <= m /\ a[k + 1].do \in Through /\ a[k + 1].id = a[k].id
          /\ \/ a[k + 2] = Call("unpin", a[k].id)
             \/ \E n \in Pages \ {a[k].id} : Inner(a, k + 2, n, a[k].id)
      BY DEF Bracket, m
    <3>2. c[k + 1] = a[k + 1] /\ c[k + 2] = a[k + 2] /\ k + 2 <= Len(c)
      <4>1. k + 1 \in 1 .. m /\ k + 2 \in 1 .. m /\ k + 2 <= Len(c)
        BY <1>2, <3>1
      <4> QED
        BY <4>1, <1>4
    <3>3. ASSUME NEW n, NEW p, Inner(a, k + 2, n, p) PROVE Inner(c, k + 2, n, p)
      <4>1. (k + 2) + 4 <= m
        BY <3>3 DEF Inner, m
      <4>2. /\ k + 2 \in 1 .. m /\ (k + 2) + 1 \in 1 .. m /\ (k + 2) + 2 \in 1 .. m
            /\ (k + 2) + 3 \in 1 .. m /\ (k + 2) + 4 \in 1 .. m /\ (k + 2) + 4 <= Len(c)
        BY <1>2, <4>1
      <4>3. /\ c[k + 2] = a[k + 2] /\ c[(k + 2) + 1] = a[(k + 2) + 1]
            /\ c[(k + 2) + 2] = a[(k + 2) + 2] /\ c[(k + 2) + 3] = a[(k + 2) + 3]
            /\ c[(k + 2) + 4] = a[(k + 2) + 4]
        BY <4>2, <1>4
      <4> QED
        BY <3>3, <4>2, <4>3 DEF Inner
    <3> QED
      BY <2>2, <3>1, <3>2, <3>3 DEF Bracket
  <2>6. PinRule(c, k, {})
    BY <2>1, <2>2, <2>3, <2>5 DEF PinRule
  <2>7. UnpinRule(c, k, {}, {})
    <3> SUFFICES ASSUME c[k].do = "unpin"
                 PROVE  /\ \E j \in 1 .. k - 1 : c[j].id = c[k].id
                        /\ k < Len(c) /\ c[k + 1].do = "use" =>
                             k # 1 /\ c[k - 1].id = c[k].id /\ c[k - 1].do = "use"
      BY DEF UnpinRule
    <3>1. /\ \E j \in 1 .. k - 1 : a[j].id = a[k].id
          /\ k < m /\ a[k + 1].do = "use" =>
               k # 1 /\ a[k - 1].id = a[k].id /\ a[k - 1].do = "use"
      BY <2>1, <2>2 DEF UnpinRule, m
    <3>2. \A j \in 1 .. k - 1 : j \in 1 .. m
      BY <1>2
    <3>3. CASE k < m
      <4>1. k + 1 \in 1 .. m
        BY <1>2, <3>3
      <4> QED
        BY <4>1, <3>1, <3>2, <3>3, <2>2, <2>3, <1>4
    <3>4. CASE k = m
      <4>1. k < Len(c) => 1 \in 1 .. Len(b) /\ k + 1 = 1 + m
        BY <1>2, <3>4
      <4>2. k < Len(c) => c[k + 1].do # "use"
        BY <4>1, <1>5, <1>6 DEF Through
      <4> QED
        BY <4>2, <3>1, <3>2, <2>2, <1>4
    <3> QED
      BY <3>3, <3>4, <1>2
  <2>8. GetRule(c, k, H)
    <3>1. \A j \in 1 .. k - 1 : j \in 1 .. m
      BY <1>2
    <3> QED
      BY <3>1, <2>1, <2>2, <1>4 DEF GetRule
  <2> QED
    BY <2>1, <2>2, <2>4, <2>6, <2>7, <2>8
\* The calls of b, as many places further on.
<1>8. ASSUME NEW k \in 1 .. Len(b)
      PROVE  /\ c[k + m].id \in Pages <=> c[k + m].do # "flush"
             /\ Anchored(c, k + m, {}) /\ PinRule(c, k + m, {}) /\ UnpinRule(c, k + m, {}, {})
             /\ GetRule(c, k + m, H)
  <2>1. /\ b[k].id \in Pages <=> b[k].do # "flush"
        /\ Anchored(b, k, {}) /\ PinRule(b, k, {}) /\ UnpinRule(b, k, {}, {})
        /\ GetRule(b, k, H2)
    BY <1>1, <1>3, <1>8 DEF Orderly
  <2>2. c[k + m] = b[k]
    BY <1>5
  <2>3. k # 1 => c[(k + m) - 1] = b[k - 1] /\ k + m # 1
    <3>1. k # 1 => k - 1 \in 1 .. Len(b) /\ (k + m) - 1 = (k - 1) + m /\ k + m # 1
      BY <1>2
    <3> QED
      BY <3>1, <1>5
  <2>4. Anchored(c, k + m, {})
    BY <2>1, <2>2, <2>3 DEF Anchored
  <2>5. Bracket(b, k) => Bracket(c, k + m)
    <3> SUFFICES ASSUME Bracket(b, k) PROVE Bracket(c, k + m)
      OBVIOUS
    <3>1. /\ k + 2 <= Len(b) /\ b[k + 1].do \in Through /\ b[k + 1].id = b[k].id
          /\ \/ b[k + 2] = Call("unpin", b[k].id)
             \/ \E n \in Pages \ {b[k].id} : Inner(b, k + 2, n, b[k].id)
      BY DEF Bracket
    <3>2. c[(k + m) + 1] = b[k + 1] /\ c[(k + m) + 2] = b[k + 2] /\ (k + m) + 2 <= Len(c)
      <4>1. /\ k + 1 \in 1 .. Len(b) /\ k + 2 \in 1 .. Len(b) /\ (k + m) + 2 <= Len(c)
            /\ (k + m) + 1 = (k + 1) + m /\ (k + m) + 2 = (k + 2) + m
        BY <1>2, <3>1
      <4> QED
        BY <4>1, <1>5
    <3>3. ASSUME NEW n, NEW p, Inner(b, k + 2, n, p) PROVE Inner(c, (k + m) + 2, n, p)
      <4>1. (k + 2) + 4 <= Len(b)
        BY <3>3 DEF Inner
      <4>2. /\ k + 2 \in 1 .. Len(b) /\ (k + 2) + 1 \in 1 .. Len(b) /\ (k + 2) + 2 \in 1 .. Len(b)
            /\ (k + 2) + 3 \in 1 .. Len(b) /\ (k + 2) + 4 \in 1 .. Len(b)
            /\ ((k + m) + 2) + 4 <= Len(c) /\ (k + m) + 2 = (k + 2) + m
            /\ ((k + m) + 2) + 1 = ((k + 2) + 1) + m /\ ((k + m) + 2) + 2 = ((k + 2) + 2) + m
            /\ ((k + m) + 2) + 3 = ((k + 2) + 3) + m /\ ((k + m) + 2) + 4 = ((k + 2) + 4) + m
        BY <1>2, <4>1
      <4>3. /\ c[(k + m) + 2] = b[k + 2] /\ c[((k + m) + 2) + 1] = b[(k + 2) + 1]
            /\ c[((k + m) + 2) + 2] = b[(k + 2) + 2] /\ c[((k + m) + 2) + 3] = b[(k + 2) + 3]
            /\ c[((k + m) + 2) + 4] = b[(k + 2) + 4]
        <5>1. c[(k + 2) + m] = b[k + 2] /\ c[((k + 2) + 1) + m] = b[(k + 2) + 1]
          BY <4>2, <1>5
        <5>2. c[((k + 2) + 2) + m] = b[(k + 2) + 2]
          BY <4>2, <1>5
        <5>3. c[((k + 2) + 3) + m] = b[(k + 2) + 3] /\ c[((k + 2) + 4) + m] = b[(k + 2) + 4]
          BY <4>2, <1>5
        <5> QED
          BY ONLY <5>1, <5>2, <5>3, <4>2
      <4> QED
        BY <3>3, <4>2, <4>3 DEF Inner
    <3> QED
      BY <2>2, <3>1, <3>2, <3>3 DEF Bracket
  <2>6. PinRule(c, k + m, {})
    BY <2>1, <2>2, <2>3, <2>5 DEF PinRule
  <2>7. UnpinRule(c, k + m, {}, {})
    <3> SUFFICES ASSUME c[k + m].do = "unpin"
                 PROVE  /\ \E j \in 1 .. (k + m) - 1 : c[j].id = c[k + m].id
                        /\ k + m < Len(c) /\ c[(k + m) + 1].do = "use" =>
                             /\ k + m # 1 /\ c[(k + m) - 1].id = c[k + m].id
                             /\ c[(k + m) - 1].do = "use"
      BY DEF UnpinRule
    <3>1. /\ \E j \in 1 .. k - 1 : b[j].id = b[k].id
          /\ k < Len(b) /\ b[k + 1].do = "use" =>
               k # 1 /\ b[k - 1].id = b[k].id /\ b[k - 1].do = "use"
      BY <2>1, <2>2 DEF UnpinRule
    <3>2. \A j \in 1 .. k - 1 : j + m \in 1 .. (k + m) - 1 /\ c[j + m] = b[j]
      <4>1. \A j \in 1 .. k - 1 : j + m \in 1 .. (k + m) - 1 /\ j \in 1 .. Len(b)
        BY <1>2
      <4> QED
        BY <4>1, <1>5
    <3>3. k + m < Len(c) => k < Len(b) /\ c[(k + m) + 1] = b[k + 1]
      <4>1. k + m < Len(c) =>
              k < Len(b) /\ k + 1 \in 1 .. Len(b) /\ (k + m) + 1 = (k + 1) + m
        BY <1>2
      <4> QED
        BY <4>1, <1>5
    <3> QED
      BY <3>1, <3>2, <3>3, <2>2, <2>3
  <2>8. GetRule(c, k + m, H)
    <3> SUFFICES ASSUME c[k + m].do \in {"get", "free"}
                 PROVE  c[k + m].id \in H
                          \/ \E j \in 1 .. (k + m) - 1 : c[j] = Call("alloc", c[k + m].id)
      BY DEF GetRule
    <3>1. b[k].id \in H2 \/ \E j \in 1 .. k - 1 : b[j] = Call("alloc", b[k].id)
      BY <2>1, <2>2 DEF GetRule
    <3>2. CASE \E j \in 1 .. k - 1 : b[j] = Call("alloc", b[k].id)
      <4>1. \A j \in 1 .. k - 1 : j + m \in 1 .. (k + m) - 1 /\ j \in 1 .. Len(b)
        BY <1>2
      <4> QED
        BY <4>1, <3>2, <2>2, <1>5
    <3>3. CASE b[k].id \in H2 /\ Makes(a, b[k].id)
      <4>1. PICK j \in 1 .. m : a[j] = Call("alloc", b[k].id)
        BY <3>3, <1>3 DEF Makes
      <4>2. j \in 1 .. (k + m) - 1 /\ c[j] = a[j]
        BY <1>2, <1>4
      <4> QED
        BY <4>1, <4>2, <2>2
    <3> QED
      BY <3>1, <3>2, <3>3, <2>2
  <2> QED
    BY <2>1, <2>2, <2>4, <2>6, <2>7, <2>8
<1>9. \A k \in DOMAIN c : k \in 1 .. m \/ \E j \in 1 .. Len(b) : k = j + m
  <2> SUFFICES ASSUME NEW k \in DOMAIN c, k > m PROVE \E j \in 1 .. Len(b) : k = j + m
    BY <1>2, <1>3
  <2>1. k - m \in 1 .. Len(b) /\ k = (k - m) + m
    BY <1>2, <1>3
  <2> QED
    BY <2>1
<1>10. Orderly(c, {}, {}, H)
  BY <1>7, <1>8, <1>9 DEF Orderly
<1> QED
  BY <1>2, <1>10 DEF Closed, c

LEMMA ClosedBoth ==
  ASSUME NEW a, NEW b, NEW H, Closed(a, H), Closed(b, H)
  PROVE  Closed(a \o b, H)
  BY OrderlyConcat

\* Page n, allocated in a, is there in b.
LEMMA ClosedMade ==
  ASSUME NEW a, NEW b, NEW H, NEW n, Closed(a, H), Makes(a, n), Closed(b, H \cup {n})
  PROVE  Closed(a \o b, H) /\ Makes(a \o b, n)
<1>1. Closed(a \o b, H)
  BY OrderlyConcat
<1>2. a \in Seq(CallType) /\ b \in Seq(CallType)
  BY DEF Closed
<1>3. PICK j \in DOMAIN a : a[j] = Call("alloc", n)
  BY DEF Makes
<1>4. /\ Len(a \o b) = Len(a) + Len(b)
      /\ \A k \in 1 .. Len(a) + Len(b) : (a \o b)[k] = IF k <= Len(a) THEN a[k] ELSE b[k - Len(a)]
      /\ a \o b \in Seq(CallType)
  BY <1>2, ConcatProperties
<1>5. j \in 1 .. Len(a) + Len(b) /\ j <= Len(a)
  BY <1>2
<1>6. (a \o b)[j] = Call("alloc", n) /\ j \in DOMAIN (a \o b)
  BY <1>3, <1>4, <1>5
<1> QED
  BY <1>1, <1>6 DEF Makes

\* The rules for one call.
Ruled(c, k, H) ==
  /\ c[k].id \in Pages <=> c[k].do # "flush"
  /\ Anchored(c, k, {}) /\ PinRule(c, k, {}) /\ UnpinRule(c, k, {}, {}) /\ GetRule(c, k, H)

LEMMA ClosedOne ==
  ASSUME NEW H, NEW h \in CallType, h.id \in Pages <=> h.do # "flush",
         h.do \notin Through \cup {"pin", "unpin"}, h.do \in {"get", "free"} => h.id \in H
  PROVE  Closed(<<h>>, H)
<1> DEFINE c == <<h>>
<1>1. c \in Seq(CallType) /\ DOMAIN c = {1} /\ c[1] = h
  OBVIOUS
<1> HIDE DEF c
<1>2. Ruled(c, 1, H)
  BY <1>1 DEF Ruled, Anchored, PinRule, UnpinRule, GetRule
<1>3. Orderly(c, {}, {}, H)
  BY <1>1, <1>2 DEF Orderly, Ruled
<1> QED
  BY <1>1, <1>3 DEF Closed, c

\* A page is got and pinned, worked on, and unpinned.
LEMMA ClosedWork ==
  ASSUME NEW H \in SUBSET Pages, NEW p \in H, NEW do \in Through
  PROVE  Closed(<<Call("get", p), Call("pin", p), Call(do, p), Call("unpin", p)>>, H)
<1> DEFINE c == <<Call("get", p), Call("pin", p), Call(do, p), Call("unpin", p)>>
<1>1. /\ c[1] = Call("get", p) /\ c[2] = Call("pin", p) /\ c[3] = Call(do, p)
      /\ c[4] = Call("unpin", p) /\ Len(c) = 4 /\ DOMAIN c = {1, 2, 3, 4}
  OBVIOUS
<1>2. c \in Seq(CallType)
  BY DEF CallType, Call, Through
<1> HIDE DEF c
<1>3. do \in {"use", "change", "slip"} /\ p \in Pages
  BY DEF Through
<1>4. Ruled(c, 1, H)
  BY <1>1, <1>3 DEF Ruled, Anchored, PinRule, UnpinRule, GetRule, Through, Call
<1>5. Ruled(c, 2, H)
  <2>1. Bracket(c, 2)
    BY <1>1, <1>3 DEF Bracket, Through, Call
  <2> QED
    BY <2>1, <1>1, <1>3 DEF Ruled, Anchored, PinRule, UnpinRule, GetRule, Through, Call
<1>6. Ruled(c, 3, H)
  BY <1>1, <1>3 DEF Ruled, Anchored, PinRule, UnpinRule, GetRule, Through, Call
<1>7. Ruled(c, 4, H)
  <2>1. c[1].id = c[4].id /\ 1 \in 1 .. 4 - 1
    BY <1>1 DEF Call
  <2> QED
    BY <2>1, <1>1, <1>3 DEF Ruled, Anchored, PinRule, UnpinRule, GetRule, Through, Call
<1>8. Orderly(c, {}, {}, H)
  BY <1>1, <1>4, <1>5, <1>6, <1>7 DEF Orderly, Ruled
<1> QED
  BY <1>2, <1>8 DEF Closed, c

\* A page is got and worked on.
LEMMA ClosedSet ==
  ASSUME NEW H \in SUBSET Pages, NEW p \in H, NEW do \in Through
  PROVE  Closed(<<Call("get", p), Call(do, p)>>, H)
<1> DEFINE c == <<Call("get", p), Call(do, p)>>
<1>1. c[1] = Call("get", p) /\ c[2] = Call(do, p) /\ Len(c) = 2 /\ DOMAIN c = {1, 2}
  OBVIOUS
<1>2. c \in Seq(CallType)
  BY DEF CallType, Call, Through
<1> HIDE DEF c
<1>3. do \in {"use", "change", "slip"} /\ p \in Pages
  BY DEF Through
<1>4. Ruled(c, 1, H)
  BY <1>1, <1>3 DEF Ruled, Anchored, PinRule, UnpinRule, GetRule, Through, Call
<1>5. Ruled(c, 2, H)
  BY <1>1, <1>3 DEF Ruled, Anchored, PinRule, UnpinRule, GetRule, Through, Call
<1>6. Orderly(c, {}, {}, H)
  BY <1>1, <1>4, <1>5 DEF Orderly, Ruled
<1> QED
  BY <1>2, <1>6 DEF Closed, c

\* A page is read on after its unpin: loadFreeSpaceMap, and the other loaders.
LEMMA ClosedLoads ==
  ASSUME NEW H \in SUBSET Pages, NEW p \in H
  PROVE  /\ Closed(Append(Reading(p), Call("use", p)), H)
         /\ Closed(<<Call("get", p), Call("use", p), Call("unpin", p), Call("use", p)>>, H)
<1>1. Closed(Append(Reading(p), Call("use", p)), H)
  <2> DEFINE r == Reading(p)
             c == Append(r, Call("use", p))
  <2>1. /\ r[1] = Call("get", p) /\ r[2] = Call("pin", p) /\ r[3] = Call("use", p)
        /\ r[4] = Call("unpin", p) /\ Len(r) = 4
    BY DEF Reading
  <2>2. r \in Seq(CallType) /\ Call("use", p) \in CallType
    BY DEF Reading, CallType, Call
  <2> HIDE DEF r
  <2>3. /\ c \in Seq(CallType) /\ Len(c) = 5 /\ c[5] = Call("use", p)
        /\ \A k \in 1 .. 4 : c[k] = r[k]
    <3>1. /\ c \in Seq(CallType) /\ Len(c) = Len(r) + 1 /\ c[Len(r) + 1] = Call("use", p)
          /\ \A k \in 1 .. Len(r) : c[k] = r[k]
      BY <2>2, AppendProperties
    <3> QED
      BY ONLY <2>1, <3>1
  <2> HIDE DEF c
  <2>4. /\ c[1] = Call("get", p) /\ c[2] = Call("pin", p) /\ c[3] = Call("use", p)
        /\ c[4] = Call("unpin", p) /\ DOMAIN c = {1, 2, 3, 4, 5} /\ p \in Pages
    BY <2>1, <2>3
  <2>5. Ruled(c, 1, H) /\ Ruled(c, 3, H) /\ Ruled(c, 5, H)
    BY <2>3, <2>4 DEF Ruled, Anchored, PinRule, UnpinRule, GetRule, Through, Call
  <2>6. Ruled(c, 2, H)
    <3>1. Bracket(c, 2)
      BY <2>3, <2>4 DEF Bracket, Through, Call
    <3> QED
      BY <3>1, <2>4 DEF Ruled, Anchored, PinRule, UnpinRule, GetRule, Through, Call
  <2>7. Ruled(c, 4, H)
    <3>1. c[1].id = c[4].id /\ 1 \in 1 .. 4 - 1
      BY <2>4 DEF Call
    <3> QED
      BY <3>1, <2>3, <2>4 DEF Ruled, Anchored, PinRule, UnpinRule, GetRule, Through, Call
  <2>8. Orderly(c, {}, {}, H)
    BY <2>4, <2>5, <2>6, <2>7 DEF Orderly, Ruled
  <2> QED
    BY <2>3, <2>8 DEF Closed, c, r
<1>2. Closed(<<Call("get", p), Call("use", p), Call("unpin", p), Call("use", p)>>, H)
  <2> DEFINE c == <<Call("get", p), Call("use", p), Call("unpin", p), Call("use", p)>>
  <2>1. /\ c[1] = Call("get", p) /\ c[2] = Call("use", p) /\ c[3] = Call("unpin", p)
        /\ c[4] = Call("use", p) /\ Len(c) = 4 /\ DOMAIN c = {1, 2, 3, 4}
    OBVIOUS
  <2>2. c \in Seq(CallType)
    BY DEF CallType, Call
  <2> HIDE DEF c
  <2>3. p \in Pages
    OBVIOUS
  <2>4. Ruled(c, 1, H) /\ Ruled(c, 2, H) /\ Ruled(c, 4, H)
    BY <2>1, <2>3 DEF Ruled, Anchored, PinRule, UnpinRule, GetRule, Through, Call
  <2>5. Ruled(c, 3, H)
    <3>1. c[1].id = c[3].id /\ 1 \in 1 .. 3 - 1
      BY <2>1 DEF Call
    <3> QED
      BY <3>1, <2>1, <2>3 DEF Ruled, Anchored, PinRule, UnpinRule, GetRule, Through, Call
  <2>6. Orderly(c, {}, {}, H)
    BY <2>1, <2>4, <2>5 DEF Orderly, Ruled
  <2> QED
    BY <2>2, <2>6 DEF Closed, c
<1> QED
  BY <1>1, <1>2

LEMMA ClosedLinking ==
  ASSUME NEW H \in SUBSET Pages, NEW n \in H, NEW p \in H, n # p
  PROVE  Closed(Linking(n, p), H)
<1> DEFINE c == Linking(n, p)
<1>1. /\ c[1] = Call("get", p) /\ c[2] = Call("pin", p) /\ c[3] = Call("change", p)
      /\ c[4] = Call("get", n) /\ c[5] = Call("pin", n) /\ c[6] = Call("change", n)
      /\ c[7] = Call("unpin", n) /\ c[8] = Call("unpin", p)
      /\ Len(c) = 8 /\ DOMAIN c = {1, 2, 3, 4, 5, 6, 7, 8}
  BY DEF Linking
<1>2. c \in Seq(CallType)
  BY DEF Linking, CallType, Call
<1> HIDE DEF c
<1>3. p \in Pages /\ n \in Pages \ {p}
  OBVIOUS
<1>4. Ruled(c, 1, H) /\ Ruled(c, 3, H) /\ Ruled(c, 4, H) /\ Ruled(c, 6, H)
  BY <1>1, <1>3 DEF Ruled, Anchored, PinRule, UnpinRule, GetRule, Through, Call
<1>5. Ruled(c, 2, H)
  <2>1. Inner(c, 4, n, p)
    BY <1>1 DEF Inner
  <2>2. Bracket(c, 2)
    BY <1>1, <1>3, <2>1 DEF Bracket, Through, Call
  <2> QED
    BY <2>2, <1>1, <1>3 DEF Ruled, Anchored, PinRule, UnpinRule, GetRule, Through, Call
<1>6. Ruled(c, 5, H)
  <2>1. Bracket(c, 5)
    BY <1>1 DEF Bracket, Through, Call
  <2> QED
    BY <2>1, <1>1, <1>3 DEF Ruled, Anchored, PinRule, UnpinRule, GetRule, Through, Call
<1>7. Ruled(c, 7, H)
  <2>1. c[4].id = c[7].id /\ 4 \in 1 .. 7 - 1
    BY <1>1 DEF Call
  <2> QED
    BY <2>1, <1>1, <1>3 DEF Ruled, Anchored, PinRule, UnpinRule, GetRule, Through, Call
<1>8. Ruled(c, 8, H)
  <2>1. c[1].id = c[8].id /\ 1 \in 1 .. 8 - 1
    BY <1>1 DEF Call
  <2> QED
    BY <2>1, <1>1, <1>3 DEF Ruled, Anchored, PinRule, UnpinRule, GetRule, Through, Call
<1>9. Orderly(c, {}, {}, H)
  BY <1>1, <1>4, <1>5, <1>6, <1>7, <1>8 DEF Orderly, Ruled
<1> QED
  BY <1>2, <1>9 DEF Closed, c

LEMMA ClosedNone == \A H : Closed(<<>>, H)
<1> SUFFICES ASSUME NEW H PROVE Closed(<<>>, H)
  OBVIOUS
<1>1. <<>> \in Seq(CallType) /\ DOMAIN <<>> = {}
  OBVIOUS
<1> QED
  BY <1>1 DEF Closed, Orderly

LEMMA ClosedCalls ==
  ASSUME NEW H \in SUBSET Pages
  PROVE  /\ \A p \in H : /\ Closed(<<Call("get", p)>>, H) /\ Closed(<<Call("free", p)>>, H)
                         /\ Closed(Reading(p), H) /\ Closed(Writing(p), H)
                         /\ Closed(Emptying(p), H) /\ Closed(Setting(p), H)
                         /\ Closed(Appending(p), H)
         /\ \A p \in Pages : /\ Closed(<<Call("alloc", p)>>, H)
                             /\ Makes(<<Call("alloc", p)>>, p)
         /\ Closed(<<Call("flush", NoPage)>>, H)
<1>1. ASSUME NEW p \in H
      PROVE  /\ Closed(<<Call("get", p)>>, H) /\ Closed(<<Call("free", p)>>, H)
             /\ Closed(Reading(p), H) /\ Closed(Writing(p), H)
             /\ Closed(Emptying(p), H) /\ Closed(Setting(p), H) /\ Closed(Appending(p), H)
  <2>1. ASSUME NEW do \in {"get", "free"} PROVE Closed(<<Call(do, p)>>, H)
    <3> DEFINE h == Call(do, p)
    <3>1. /\ h \in CallType /\ (h.id \in Pages <=> h.do # "flush")
          /\ h.do \notin Through \cup {"pin", "unpin"} /\ (h.do \in {"get", "free"} => h.id \in H)
      BY DEF CallType, Call, Through
    <3> HIDE DEF h
    <3>2. Closed(<<h>>, H)
      BY <3>1, ClosedOne
    <3> QED
      BY <3>2 DEF h
  <2>2. "use" \in Through /\ "change" \in Through /\ "slip" \in Through
    BY DEF Through
  <2>3. Closed(Reading(p), H) /\ Closed(Writing(p), H) /\ Closed(Emptying(p), H)
    BY <2>2, ClosedWork DEF Reading, Writing, Emptying
  <2>4. Closed(Setting(p), H) /\ Closed(Appending(p), H)
    BY <2>2, ClosedSet DEF Setting, Appending
  <2> QED
    BY <2>1, <2>3, <2>4
<1>2. ASSUME NEW p \in Pages
      PROVE  Closed(<<Call("alloc", p)>>, H) /\ Makes(<<Call("alloc", p)>>, p)
  <2> DEFINE h == Call("alloc", p)
  <2>1. /\ h \in CallType /\ (h.id \in Pages <=> h.do # "flush")
        /\ h.do \notin Through \cup {"pin", "unpin"} /\ (h.do \in {"get", "free"} => h.id \in H)
    BY DEF CallType, Call, Through
  <2> HIDE DEF h
  <2>2. Closed(<<h>>, H)
    BY <2>1, ClosedOne
  <2>3. 1 \in DOMAIN <<h>> /\ <<h>>[1] = h
    OBVIOUS
  <2> QED
    BY <2>2, <2>3 DEF h, Makes
<1>3. Closed(<<Call("flush", NoPage)>>, H)
  <2> DEFINE h == Call("flush", NoPage)
  <2>1. /\ h \in CallType /\ (h.id \in Pages <=> h.do # "flush")
        /\ h.do \notin Through \cup {"pin", "unpin"} /\ (h.do \in {"get", "free"} => h.id \in H)
    BY CacheAssumption DEF CallType, Call, Through
  <2> HIDE DEF h
  <2>2. Closed(<<h>>, H)
    BY <2>1, ClosedOne
  <2> QED
    BY <2>2 DEF h
<1> QED
  BY <1>1, <1>2, <1>3

LEMMA DeleteClosed ==
  ASSUME NEW H \in SUBSET Pages, used \subseteq H, NEW p \in used, NEW d \in DeletePlans(p)
  PROVE  Closed(d, H)
<1>1. ASSUME NEW prev \in H, NEW nextSet, Closed(nextSet, H)
      PROVE  Closed(Releasing(p, prev, nextSet), H)
  <2>1. /\ Closed(Emptying(p), H) /\ Closed(<<Call("get", p)>>, H) /\ Closed(Setting(prev), H)
        /\ Closed(<<Call("free", p)>>, H)
    BY ClosedCalls
  <2>2. Closed(Emptying(p) \o <<Call("get", p)>>, H)
    BY <2>1, ClosedBoth
  <2>3. Closed(Emptying(p) \o <<Call("get", p)>> \o Setting(prev), H)
    BY <2>1, <2>2, ClosedBoth
  <2>4. Closed(Emptying(p) \o <<Call("get", p)>> \o Setting(prev) \o nextSet, H)
    BY <1>1, <2>3, ClosedBoth
  <2> QED
    BY <2>1, <2>4, ClosedBoth DEF Releasing
<1>2. \/ d = Writing(p) \/ d = Emptying(p)
      \/ \E prev \in used : d = Releasing(p, prev, <<>>)
      \/ \E prev, next \in used : d = Releasing(p, prev, Setting(next))
  BY DEF DeletePlans
<1>3. CASE d = Writing(p) \/ d = Emptying(p)
  BY <1>3, ClosedCalls
<1>4. CASE \E prev \in used : d = Releasing(p, prev, <<>>)
  BY <1>1, <1>4, ClosedNone
<1>5. CASE \E prev, next \in used : d = Releasing(p, prev, Setting(next))
  <2>1. PICK prev \in used, next \in used : d = Releasing(p, prev, Setting(next))
    BY <1>5
  <2>2. Closed(Setting(next), H)
    BY ClosedCalls
  <2> QED
    BY <1>1, <2>1, <2>2
<1> QED
  BY <1>2, <1>3, <1>4, <1>5

LEMMA InsertClosed ==
  ASSUME NEW H \in SUBSET Pages, used \subseteq H, NEW R \in SUBSET Pages,
         NEW c \in InsertPlans(R)
  PROVE  Closed(c, H)
<1>1. CASE \E q \in used : c = Writing(q)
  BY <1>1, ClosedCalls
<1>2. ASSUME NEW n \in (Pages \ used) \cup R, NEW tail \in used \ R,
             c = Growing(n, tail) \o Writing(n)
      PROVE  Closed(c, H)
  <2>1. n \in Pages /\ n # tail /\ tail \in Pages
    BY <1>2
  <2> DEFINE G == H \cup {n}
             a == <<Call("alloc", n)>>
  <2>2. G \in SUBSET Pages /\ n \in G /\ tail \in G
    BY <2>1
  <2>3. Closed(a, H) /\ Makes(a, n)
    BY <2>1, ClosedCalls
  <2>4. Closed(Writing(n), G)
    BY <2>2, ClosedCalls
  <2>5. Closed(Linking(n, tail), G)
    BY <2>1, <2>2, ClosedLinking
  <2> HIDE DEF a
  <2>6. Closed(a \o Writing(n), H) /\ Makes(a \o Writing(n), n)
    BY <2>3, <2>4, ClosedMade
  <2> DEFINE w == a \o Writing(n)
  <2> HIDE DEF w
  <2>7. Closed(w, H) /\ Makes(w, n)
    BY <2>6 DEF w
  <2>8. Closed(w \o Linking(n, tail), H) /\ Makes(w \o Linking(n, tail), n)
    BY <2>5, <2>7, ClosedMade
  <2> DEFINE l == w \o Linking(n, tail)
  <2> HIDE DEF l
  <2>9. Closed(l, H) /\ Makes(l, n)
    BY <2>8 DEF l
  <2>10. Closed(l \o Writing(n), H)
    BY <2>4, <2>9, ClosedMade
  <2> QED
    BY <1>2, <2>10 DEF l, w, a, Growing
<1> QED
  BY <1>1, <1>2 DEF InsertPlans

LEMMA UpdateClosed ==
  ASSUME NEW H \in SUBSET Pages, used \subseteq H, NEW c \in UpdatePlans
  PROVE  Closed(c, H)
<1>1. PICK p \in used : \E d \in DeletePlans(p) : \E i \in InsertPlans(Frees(d)) :
                          c = Reading(p) \o d \o i
  BY DEF UpdatePlans
<1>2. PICK d \in DeletePlans(p) : \E i \in InsertPlans(Frees(d)) : c = Reading(p) \o d \o i
  BY <1>1
<1>3. PICK i \in InsertPlans(Frees(d)) : c = Reading(p) \o d \o i
  BY <1>2
<1>4. Closed(d, H)
  BY DeleteClosed
<1>5. Frees(d) \in SUBSET Pages
  BY <1>4 DEF Closed, Orderly, Frees
<1>6. Closed(i, H)
  BY <1>5, InsertClosed
<1>7. Closed(Reading(p), H)
  BY ClosedCalls
<1>8. Closed(Reading(p) \o d, H)
  BY <1>4, <1>7, ClosedBoth
<1> QED
  BY <1>3, <1>6, <1>8, ClosedBoth

LEMMA LoadClosed ==
  ASSUME NEW H \in SUBSET Pages, used \subseteq H, NEW c \in LoadPlans
  PROVE  Closed(c, H)
<1>1. PICK p \in used :
        \/ c = Reading(p) \/ c = Append(Reading(p), Call("use", p))
        \/ c = <<Call("get", p), Call("use", p), Call("unpin", p), Call("use", p)>>
  BY DEF LoadPlans
<1>2. p \in H
  OBVIOUS
<1> QED
  BY <1>1, <1>2, ClosedCalls, ClosedLoads

LEMMA TwoCalls == \A x, y : <<x>> \o <<y>> = <<x, y>>
<1> SUFFICES ASSUME NEW x, NEW y PROVE <<x>> \o <<y>> = <<x, y>>
  OBVIOUS
<1>1. <<x>> \in Seq({x, y}) /\ y \in {x, y}
  OBVIOUS
<1>2. Append(<<x>>, y) = <<x>> \o <<y>>
  BY <1>1, AppendIsConcat
<1>3. /\ Append(<<x>>, y) \in Seq({x, y}) /\ Len(Append(<<x>>, y)) = 2
      /\ Append(<<x>>, y)[1] = x /\ Append(<<x>>, y)[2] = y
  <2>1. Len(<<x>>) = 1 /\ <<x>>[1] = x
    OBVIOUS
  <2>2. /\ Append(<<x>>, y) \in Seq({x, y}) /\ Len(Append(<<x>>, y)) = 1 + 1
        /\ \A i \in 1 .. 1 : Append(<<x>>, y)[i] = <<x>>[i]
        /\ Append(<<x>>, y)[1 + 1] = y
    BY <1>1, <2>1, AppendProperties
  <2> QED
    BY ONLY <2>1, <2>2
<1>4. <<x, y>> \in Seq({x, y}) /\ Len(<<x, y>>) = 2 /\ <<x, y>>[1] = x /\ <<x, y>>[2] = y
  OBVIOUS
<1> DEFINE s == Append(<<x>>, y)
           t == <<x, y>>
<1> HIDE DEF s, t
<1>5. s = t
  <2>1. \A i \in 1 .. Len(s) : s[i] = t[i]
    BY <1>3, <1>4 DEF s, t
  <2> QED
    BY <2>1, <1>3, <1>4, SeqEqual DEF s, t
<1> QED
  BY <1>2, <1>5 DEF s, t

LEMMA FlushClosed ==
  ASSUME NEW H \in SUBSET Pages, used \subseteq H, NEW c \in FlushPlans
  PROVE  \/ Closed(c, H)
         \/ \E last \in used : \E f \in Pages \ used :
              c = AppendingPage(last, f) \o <<Call("flush", NoPage)>>
<1> DEFINE e == <<Call("flush", NoPage)>>
           lists == used \ Roots
           new == Pages \ used
<1>1. Closed(e, H)
  BY ClosedCalls
<1>2. ASSUME NEW a, Closed(a, H) PROVE Closed(a \o e, H)
  BY <1>1, <1>2, ClosedBoth
<1>3. PICK a : /\ c = a \o e
               /\ \/ a = <<>>
                  \/ \E f \in lists : a = Relisting(f, <<>>)
                  \/ \E f, prev \in lists : a = Relisting(f, Setting(prev))
                  \/ \E f \in new : a = <<Call("alloc", f)>> \o Relisting(f, <<>>)
                  \/ \E f \in new : \E prev \in lists :
                       a = <<Call("alloc", f)>> \o Relisting(f, Setting(prev))
                  \/ \E f \in lists : a = <<Call("get", f), Call("free", f)>>
                  \/ \E last \in lists : a = Appending(last)
                  \/ \E last \in lists : \E f \in new : a = AppendingPage(last, f)
  <2>1. PICK a \in PersistPlans : c = a \o e
    BY DEF FlushPlans
  <2> DEFINE c2 == {Relisting(f, <<>>) : f \in lists}
             c3 == {Relisting(r[1], Setting(r[2])) : r \in {r \in lists \X lists : r[1] # r[2]}}
             c4 == {<<Call("alloc", f)>> \o Relisting(f, <<>>) : f \in new}
             c5 == {<<Call("alloc", f)>> \o Relisting(f, Setting(prev)) : f \in new, prev \in lists}
             c6 == {<<Call("get", f), Call("free", f)>> : f \in lists}
             c7 == {Appending(last) : last \in lists}
             c8 == {AppendingPage(last, f) : last \in lists, f \in new}
  <2>2. PersistPlans = {<<>>} \cup c2 \cup c3 \cup c4 \cup c5 \cup c6 \cup c7 \cup c8
    BY DEF PersistPlans
  <2> HIDE DEF e, lists, new
  <2>3. /\ a \in c2 => \E f \in lists : a = Relisting(f, <<>>)
        /\ a \in c3 => \E f, prev \in lists : a = Relisting(f, Setting(prev))
        /\ a \in c4 => \E f \in new : a = <<Call("alloc", f)>> \o Relisting(f, <<>>)
    OBVIOUS
  <2>4. /\ a \in c5 => \E f \in new : \E prev \in lists :
             a = <<Call("alloc", f)>> \o Relisting(f, Setting(prev))
        /\ a \in c6 => \E f \in lists : a = <<Call("get", f), Call("free", f)>>
    OBVIOUS
  <2>5. /\ a \in c7 => \E last \in lists : a = Appending(last)
        /\ a \in c8 => \E last \in lists : \E f \in new : a = AppendingPage(last, f)
    OBVIOUS
  <2> HIDE DEF c2, c3, c4, c5, c6, c7, c8
  <2>6. a = <<>> \/ a \in c2 \/ a \in c3 \/ a \in c4 \/ a \in c5 \/ a \in c6 \/ a \in c7
          \/ a \in c8
    BY <2>2
  <2> QED
    BY ONLY <2>1, <2>3, <2>4, <2>5, <2>6
<1>4. ASSUME NEW G \in SUBSET Pages, NEW f \in G, NEW prevSet, Closed(prevSet, G)
      PROVE  Closed(Relisting(f, prevSet), G)
  <2>1. Closed(Setting(f), G)
    BY ClosedCalls
  <2> QED
    BY <2>1, <1>4, ClosedBoth DEF Relisting
<1>5. ASSUME NEW f \in new, NEW prevSet, Closed(prevSet, H \cup {f})
      PROVE  Closed(<<Call("alloc", f)>> \o Relisting(f, prevSet), H)
  <2>1. H \cup {f} \in SUBSET Pages /\ f \in H \cup {f} /\ f \in Pages
    OBVIOUS
  <2>2. Closed(Relisting(f, prevSet), H \cup {f})
    BY <1>4, <1>5, <2>1
  <2>3. Closed(<<Call("alloc", f)>>, H) /\ Makes(<<Call("alloc", f)>>, f)
    BY <2>1, ClosedCalls
  <2> QED
    BY <2>2, <2>3, ClosedMade
<1> HIDE DEF e
<1>6. CASE a = <<>>
  BY <1>2, <1>3, <1>6, ClosedNone
<1>7. CASE \E f \in lists : a = Relisting(f, <<>>)
  BY <1>2, <1>3, <1>4, <1>7, ClosedNone
<1>8. CASE \E f, prev \in lists : a = Relisting(f, Setting(prev))
  <2>1. PICK f \in lists, prev \in lists : a = Relisting(f, Setting(prev))
    BY <1>8
  <2>2. Closed(Setting(prev), H)
    BY ClosedCalls
  <2> QED
    BY <1>2, <1>3, <1>4, <2>1, <2>2
<1>9. CASE \E f \in new : a = <<Call("alloc", f)>> \o Relisting(f, <<>>)
  BY <1>2, <1>3, <1>5, <1>9, ClosedNone
<1>10. CASE \E f \in new : \E prev \in lists :
              a = <<Call("alloc", f)>> \o Relisting(f, Setting(prev))
  <2>1. PICK f \in new, prev \in lists :
               a = <<Call("alloc", f)>> \o Relisting(f, Setting(prev))
    BY <1>10
  <2>2. Closed(Setting(prev), H \cup {f})
    <3>1. H \cup {f} \in SUBSET Pages /\ prev \in H \cup {f}
      OBVIOUS
    <3> QED
      BY <3>1, ClosedCalls
  <2> QED
    BY <1>2, <1>3, <1>5, <2>1, <2>2
<1>11. CASE \E f \in lists : a = <<Call("get", f), Call("free", f)>>
  <2>1. PICK f \in lists : a = <<Call("get", f), Call("free", f)>>
    BY <1>11
  <2>2. Closed(<<Call("get", f)>>, H) /\ Closed(<<Call("free", f)>>, H)
    BY ClosedCalls
  <2>3. <<Call("get", f)>> \o <<Call("free", f)>> = <<Call("get", f), Call("free", f)>>
    BY TwoCalls
  <2>4. Closed(a, H)
    BY <2>1, <2>2, <2>3, ClosedBoth
  <2> QED
    BY <1>2, <1>3, <2>4
<1>12. CASE \E last \in lists : a = Appending(last)
  <2>1. Closed(a, H)
    BY <1>12, ClosedCalls
  <2> QED
    BY <1>2, <1>3, <2>1
<1>13. CASE \E last \in lists : \E f \in new : a = AppendingPage(last, f)
  BY <1>3, <1>13 DEF e
<1> QED
  BY <1>3, <1>6, <1>7, <1>8, <1>9, <1>10, <1>11, <1>12, <1>13

LEMMA AddingCalls ==
  ASSUME NEW last \in Pages, NEW f \in Pages
  PROVE  /\ AppendingPage(last, f) \o <<Call("flush", NoPage)>> =
              <<Call("get", last), Call("alloc", f), Call("get", f), Call("change", f),
                Call("change", last), Call("change", f), Call("flush", NoPage)>>
         /\ AppendingPage(last, f) \o <<Call("flush", NoPage)>> \in Seq(CallType)
<1> DEFINE a == Call("get", last)
           b == Call("alloc", f)
           c == Call("get", f)
           d == Call("change", f)
           e == Call("change", last)
           g == Call("flush", NoPage)
           x == <<a, b, c, d, e, d>>
           y == <<g>>
           s == x \o y
           t == <<a, b, c, d, e, d, g>>
<1>1. {a, b, c, d, e, g} \subseteq CallType
  BY DEF Call, CallType
<1>2. AppendingPage(last, f) = x
  BY DEF AppendingPage
<1> HIDE DEF a, b, c, d, e, g
<1>3. /\ x \in Seq(CallType) /\ Len(x) = 6 /\ x[1] = a /\ x[2] = b /\ x[3] = c /\ x[4] = d
      /\ x[5] = e /\ x[6] = d
  BY <1>1
<1>4. y \in Seq(CallType) /\ Len(y) = 1 /\ y[1] = g
  BY <1>1
<1>5. /\ t \in Seq(CallType) /\ Len(t) = 7 /\ t[1] = a /\ t[2] = b /\ t[3] = c /\ t[4] = d
      /\ t[5] = e /\ t[6] = d /\ t[7] = g
  BY <1>1
<1> HIDE DEF x, y, t
<1>6. /\ s \in Seq(CallType) /\ Len(s) = Len(x) + Len(y)
      /\ \A k \in 1 .. Len(x) + Len(y) : s[k] = IF k <= Len(x) THEN x[k] ELSE y[k - Len(x)]
  BY <1>3, <1>4, ConcatProperties
<1> HIDE DEF s
<1>7. Len(s) = 7 /\ \A k \in 1 .. 7 : s[k] = IF k <= 6 THEN x[k] ELSE y[k - 6]
  BY ONLY <1>3, <1>4, <1>6
<1>8. s[7] = g
  BY ONLY <1>4, <1>7
<1>9. \A k \in 1 .. 6 : s[k] = x[k]
  BY ONLY <1>7
<1>10. \A k \in 1 .. 7 : k \in 1 .. 6 \/ k = 7
  OBVIOUS
<1>11. \A k \in 1 .. 6 : x[k] = t[k]
  BY ONLY <1>3, <1>5
<1>12. \A k \in 1 .. 7 : s[k] = t[k]
  BY ONLY <1>5, <1>8, <1>9, <1>10, <1>11
<1>13. s = t
  BY <1>5, <1>6, <1>7, <1>12, SeqEqual
<1> QED
  BY <1>2, <1>6, <1>13 DEF s, x, y, t, a, b, c, d, e, g

LEMMA IdleOutside == ASSUME IInv, plan = <<>> PROVE Outside
<1>1. Len(plan) = 0
  OBVIOUS
<1>2. ASSUME NEW p \in Pages PROVE ~ Working(p) /\ ~ Leaving(p)
  BY <1>1 DEF Working, Leaving
<1>3. ASSUME NEW p \in Pages, NEW n \in Pages
      PROVE  /\ ~ WorkingAround(p, n) /\ ~ Entering(p, n) /\ ~ Inside(p, n)
             /\ ~ WorkingInside(p, n) /\ ~ LeavingInside(p, n)
  BY <1>1 DEF WorkingAround, Entering, Inside, WorkingInside, LeavingInside, Inner
<1> QED
  BY <1>2, <1>3 DEF IInv, PlanInv, Pinning, Appendings

LEMMA StartStep == ASSUME IInv, Start PROVE IInv'
<1>1. Basic /\ TypeOK /\ Outside
  BY IdleOutside DEF IInv, Basic, Start
<1>2. /\ plan' \in Plans /\ refs' = {} /\ touched' = {}
      /\ pager' = pager /\ used' = used /\ unmarked' = unmarked /\ phase' = phase
  BY DEF Start
<1> DEFINE H == Had(pager)
           e == <<Call("flush", NoPage)>>
<1>3. H \in SUBSET Pages /\ used \subseteq H
  BY <1>1 DEF Basic, Had
<1>4. \/ Closed(plan', H)
      \/ \E last \in used : \E f \in Pages \ used : plan' = AppendingPage(last, f) \o e
  <2> HIDE DEF H
  <2>1. CASE plan' \in LoadPlans
    BY <2>1, <1>3, LoadClosed
  <2>2. CASE plan' \in InsertPlans({})
    BY <2>2, <1>3, InsertClosed
  <2>3. CASE plan' \in UNION {DeletePlans(p) : p \in used}
    BY <2>3, <1>3, DeleteClosed
  <2>4. CASE plan' \in UpdatePlans
    BY <2>4, <1>3, UpdateClosed
  <2>5. CASE plan' \in FlushPlans
    BY <2>5, <1>3, FlushClosed
  <2> QED
    BY <1>2, <2>1, <2>2, <2>3, <2>4, <2>5 DEF Plans
<1>5. HistoryIn(pager, {}, {})
  <2>1. \A q \in Cached(pager) : ~ (pager.cache[q].pins > 0)
    BY <1>1 DEF Outside, PinnedAre
  <2>2. IsFiniteSet({})
    BY FS_EmptySet
  <2> QED
    BY <2>1, <2>2 DEF HistoryIn, FirstIn, KeptIn
<1>6. plan' \in Seq(CallType) => Basic'
  <2> SUFFICES ASSUME plan' \in Seq(CallType) PROVE Basic'
    OBVIOUS
  <2>1. TypeOK'
    BY <1>1, <1>2 DEF TypeOK, CallType, Cached
  <2>2. /\ phase' = "run" /\ Sound(pager') /\ used' \subseteq Had(pager')
        /\ TransparentIn(pager', used' \ unmarked') /\ HistoryIn(pager', refs', touched')
    BY <1>1, <1>2, <1>5 DEF Basic
  <2> QED
    BY <2>1, <2>2 DEF Basic
<1>7. Outside'
  BY <1>1, <1>2 DEF Outside
<1>8. CASE Closed(plan', H)
  <2>1. plan' \in Seq(CallType) /\ Orderly(plan', refs', touched', Had(pager'))
    BY <1>2, <1>8 DEF Closed
  <2> QED
    BY <2>1, <1>6, <1>7 DEF IInv, PlanInv, Pinning
<1>9. ASSUME NEW last \in used, NEW f \in Pages \ used, plan' = AppendingPage(last, f) \o e
      PROVE  IInv'
  <2>1. last \in Pages /\ f \in Pages \ {last} /\ last \in Had(pager)
    BY <1>3, <1>9
  <2>2. /\ plan' = <<Call("get", last), Call("alloc", f), Call("get", f), Call("change", f),
                     Call("change", last), Call("change", f), Call("flush", NoPage)>>
        /\ plan' \in Seq(CallType)
    BY <2>1, <1>9, AddingCalls
  <2>3. Adding(last, f)'
    BY <1>2, <2>1, <2>2 DEF Adding
  <2> QED
    BY <2>1, <2>2, <2>3, <1>6, <1>7 DEF IInv, PlanInv, Appendings
<1> QED
  BY <1>4, <1>8, <1>9

\* A pager with an empty cache and every page that is used in the file.
Emptied(file) == [cache |-> [q \in {} |-> q], lru |-> <<>>, mapped |-> {}, file |-> file]

LEMMA EmptyFacts ==
  ASSUME NEW file \in [Pages -> {"none", "stale", "current"}], NEW U \in SUBSET Pages,
         \A q \in U : file[q] = "current",
         NEW s, s = Emptied(file)
  PROVE  /\ Sound(s) /\ Cached(s) = {} /\ PinnedAre(s, {})
         /\ HistoryIn(s, {}, {}) /\ TransparentIn(s, U) /\ s.lru = <<>> /\ s.mapped = {}
         /\ \A q \in Pages : file[q] # "none" => q \in Had(s)
<1>1. Cached(s) = {} /\ s.lru = <<>> /\ s.mapped = {} /\ s.file = file
  BY DEF Cached, Emptied
<1>2. Typed(s)
  <2>1. [q \in {} |-> q] \in [{} -> PageType] /\ <<>> \in Seq(Pages)
    OBVIOUS
  <2> QED
    BY <1>1, <2>1 DEF Typed, Emptied
<1>3. IsFiniteSet({}) /\ Cardinality({}) = 0 /\ 0 <= CacheSize
  BY FS_EmptySet, CacheAssumption
<1>4. Listed(s)
  <2>1. DOMAIN <<>> = {}
    OBVIOUS
  <2>2. ToSet(<<>>) = {} /\ IsInjective(<<>>)
    BY <2>1 DEF ToSet, IsInjective
  <2> QED
    BY <1>1, <2>2 DEF Listed
<1>5. Sound(s)
  BY <1>1, <1>2, <1>3, <1>4 DEF Sound
<1>6. PinnedAre(s, {}) /\ TransparentIn(s, U)
  BY <1>1 DEF PinnedAre, TransparentIn
<1>7. HistoryIn(s, {}, {})
  BY <1>1, <1>3 DEF HistoryIn, FirstIn, KeptIn
<1> QED
  BY <1>1, <1>5, <1>6, <1>7 DEF Had

\* The invariant where no operation is running.
LEMMA IdleInv ==
  ASSUME TypeOK, phase = "run", plan = <<>>, refs = {}, touched = {},
         Sound(pager), used \subseteq Had(pager), TransparentIn(pager, used \ unmarked),
         HistoryIn(pager, {}, {}), PinnedAre(pager, {})
  PROVE  IInv
<1>1. DOMAIN plan = {}
  OBVIOUS
<1>2. Orderly(plan, refs, touched, Had(pager))
  BY <1>1 DEF Orderly
<1> QED
  BY <1>2 DEF IInv, Basic, PlanInv, Pinning, Outside

LEMMA ReopenStep == ASSUME IInv, Reopen PROVE IInv'
<1>1. Basic /\ TypeOK /\ Sound(pager)
  BY DEF IInv, Basic
<1>2. /\ phase = "run" /\ plan = <<>> /\ \A id \in Cached(pager) : ~ pager.cache[id].dirty
      /\ pager' = [pager EXCEPT !.cache = [q \in {} |-> q], !.lru = <<>>, !.mapped = {}]
      /\ refs' = {} /\ touched' = {}
      /\ used' = used /\ plan' = plan /\ unmarked' = unmarked /\ phase' = phase
  BY DEF Reopen
<1> DEFINE file == pager.file
<1>3. /\ file \in [Pages -> {"none", "stale", "current"}]
      /\ pager' = Emptied(file)
  BY <1>1, <1>2 DEF Sound, Typed, Emptied
<1> HIDE DEF file
<1>4. \A q \in used \ unmarked : file[q] = "current"
  BY <1>1, <1>2 DEF Basic, TransparentIn, file
<1>5. \A q \in used : file[q] # "none"
  BY <1>1, <1>2 DEF Basic, Had, Sound, file
<1>6. used \ unmarked \in SUBSET Pages
  BY <1>1 DEF TypeOK
<1>7. /\ Sound(pager') /\ Cached(pager') = {} /\ PinnedAre(pager', {})
      /\ HistoryIn(pager', {}, {}) /\ TransparentIn(pager', used \ unmarked)
      /\ pager'.lru = <<>> /\ pager'.mapped = {}
      /\ \A q \in Pages : file[q] # "none" => q \in Had(pager')
  BY <1>3, <1>4, <1>6, EmptyFacts
<1>8. used \subseteq Had(pager')
  BY <1>1, <1>5, <1>7 DEF TypeOK
<1>9. TypeOK'
  <2>1. /\ Cardinality(Cached(pager')) <= CacheSize
        /\ pager'.file \in [Pages -> {"none", "stale", "current"}]
        /\ pager'.lru \in Seq(Pages)
    BY <1>7 DEF Sound, Typed
  <2> QED
    BY <1>1, <1>2, <1>7, <2>1 DEF TypeOK, Cached
<1>10. plan' = <<>> /\ phase' = "run" /\ TransparentIn(pager', used' \ unmarked')
       /\ used' \subseteq Had(pager')
  BY <1>2, <1>7, <1>8
<1>11. DOMAIN plan' = {}
  BY <1>10
<1>12. Orderly(plan', refs', touched', Had(pager'))
  BY <1>11 DEF Orderly
<1>13. Basic'
  BY <1>2, <1>7, <1>9, <1>10 DEF Basic
<1> QED
  BY <1>7, <1>12, <1>13 DEF IInv, PlanInv, Pinning, Outside

LEMMA InitInv == ASSUME Init PROVE IInv
<1> DEFINE file == [q \in Pages |-> IF q \in Roots THEN "current" ELSE "none"]
<1>1. /\ pager = Emptied(file)
      /\ file \in [Pages -> {"none", "stale", "current"}]
      /\ used = Roots /\ plan = <<>> /\ refs = {} /\ touched = {} /\ unmarked = {}
      /\ phase = "run" /\ Roots \in SUBSET Pages
  BY CacheAssumption DEF Init, Emptied
<1>2. \A q \in Roots : file[q] = "current"
  BY <1>1
<1> HIDE DEF file
<1>3. /\ Sound(pager) /\ Cached(pager) = {} /\ PinnedAre(pager, {})
      /\ HistoryIn(pager, {}, {}) /\ TransparentIn(pager, Roots)
      /\ pager.lru = <<>> /\ pager.mapped = {}
      /\ \A q \in Pages : file[q] # "none" => q \in Had(pager)
  BY <1>1, <1>2, EmptyFacts
<1>4. used \subseteq Had(pager) /\ used \ unmarked = Roots
  BY <1>1, <1>2, <1>3
<1>5. TypeOK
  <2>1. /\ Cardinality(Cached(pager)) <= CacheSize
        /\ pager.file \in [Pages -> {"none", "stale", "current"}] /\ pager.lru \in Seq(Pages)
    BY <1>3 DEF Sound, Typed
  <2>2. plan \in Seq(CallType)
    BY <1>1
  <2> QED
    BY <1>1, <1>3, <2>1, <2>2 DEF TypeOK, CallType
<1> QED
  BY <1>1, <1>3, <1>4, <1>5, IdleInv

LEMMA StepInv == ASSUME IInv, [Next]_vars PROVE IInv'
<1>1. CASE UNCHANGED vars
  <2>1. /\ pager' = pager /\ used' = used /\ plan' = plan /\ refs' = refs
        /\ touched' = touched /\ unmarked' = unmarked /\ phase' = phase
    BY <1>1 DEF vars
  <2>2. Basic'
    BY <2>1 DEF IInv, Basic, TypeOK, Cached
  <2>3. Outside' <=> Outside
    BY <2>1 DEF Outside
  <2>4. \A p \in Pages : (Working(p) => Working(p)') /\ (Leaving(p) => Leaving(p)')
    BY <2>1 DEF Working, Leaving
  <2>5. \A p, n \in Pages :
          /\ WorkingAround(p, n) => WorkingAround(p, n)'
          /\ Entering(p, n) => Entering(p, n)'
          /\ Inside(p, n) => Inside(p, n)'
          /\ WorkingInside(p, n) => WorkingInside(p, n)'
          /\ LeavingInside(p, n) => LeavingInside(p, n)'
    BY <2>1 DEF WorkingAround, Entering, Inside, WorkingInside, LeavingInside
  <2>6. Pinning => Pinning'
    BY <2>3, <2>4, <2>5 DEF Pinning
  <2>7. \A last, f \in Pages : Adding(last, f) => Adding(last, f)'
    BY <2>1 DEF Adding, Cached
  <2>8. Appendings => Appendings'
    BY <2>3, <2>7 DEF Appendings
  <2> QED
    BY <2>1, <2>2, <2>6, <2>8 DEF IInv, PlanInv
<1> QED
  BY <1>1, StartStep, GetStep, PinStep, UnpinStep, UseStep, AllocStep, FreeStep, ChangeStep,
     SlipStep, FlushStep, ReopenStep DEF Next

-----------------------------------------------------------------------------
(* In every state of every run the remaining calls are orderly, the pins    *)
(* are those of the call that is next, and the cache and the list are sound.*)
THEOREM Invariance == Spec => []IInv
<1>1. Init => IInv
  BY InitInv
<1>2. IInv /\ [Next]_vars => IInv'
  BY StepInv
<1> QED
  BY <1>1, <1>2, PTL DEF Spec

(* The cache never holds more than MAX_PAGE_CACHE_SIZE pages, and every     *)
(* variable keeps its type, after any calls of any operations.              *)
THEOREM TypeCorrect == Spec => []TypeOK
<1>1. IInv => TypeOK
  BY DEF IInv, Basic
<1> QED
  BY <1>1, Invariance, PTL

(* Whatever the operations and the size of the cache, evictOne() and        *)
(* loadPage() lose nothing: a page in use that was not changed without the  *)
(* dirty flag is current in the cache, or in the file when it is not there. *)
THEOREM TransparentCorrect == Spec => []Transparent
<1>1. IInv => Transparent
  BY DEF IInv, Basic, TransparentIn, Transparent
<1> QED
  BY <1>1, Invariance, PTL

(* No manager, loader or persistFreelist ever uses a reference to a page    *)
(* that has been evicted since: the pins and, where persistFreelist sets    *)
(* none, the recency of the page keep it in a cache of two pages or more.   *)
THEOREM ReferencesCorrect == Spec => []ReferencesValid
<1>1. ASSUME IInv PROVE ReferencesValid
  <2> SUFFICES ASSUME plan # <<>>, Head(plan).do \in {"use", "change", "slip"}
               PROVE  Id \in refs
    BY DEF ReferencesValid
  <2>1. TypeOK /\ PlanInv
    BY <1>1 DEF IInv, Basic
  <2>2. Head(plan) = plan[1] /\ Id = plan[1].id /\ 1 \in DOMAIN plan
    BY <2>1, PlanFacts
  <2>3. CASE Orderly(plan, refs, touched, Had(pager))
    <3>1. Anchored(plan, 1, refs)
      BY <2>2, <2>3 DEF Orderly
    <3> QED
      BY <3>1, <2>2 DEF Anchored, Through
  <2>4. CASE Appendings
    <3>1. PICK last \in Pages : \E f \in Pages \ {last} : Adding(last, f)
      BY <2>4 DEF Appendings
    <3>2. PICK f \in Pages \ {last} : Adding(last, f)
      BY <3>1
    <3>3. plan[1].do \in {"use", "change", "slip"}
      BY <2>2
    <3>4. {last, f} \subseteq refs /\ (plan[1] = Call("change", f) \/ plan[1] = Call("change", last))
      BY <3>2, <3>3 DEF Adding, Call
    <3> QED
      BY <3>4, <2>2 DEF Call
  <2> QED
    BY <2>1, <2>3, <2>4 DEF PlanInv
<1> QED
  BY <1>1, Invariance, PTL

(* lruList, lruMap and the cache always hold the same pages, each once, no  *)
(* operation leaves a page pinned, and no call of any of them throws "no    *)
(* evictable pages", "page not found on disk" or "page pinned".              *)
THEOREM EvictionCorrect == Spec => []EvictionSound
<1>1. ASSUME IInv PROVE EvictionSound
  <2>1. ListExact
    BY <1>1 DEF IInv, Basic, Sound, Listed, ListExact
  <2>2. phase # "threw"
    BY <1>1 DEF IInv, Basic
  <2>3. plan = <<>> => \A id \in Cached(pager) : pager.cache[id].pins = 0
    BY <1>1, IdleOutside DEF Outside, PinnedAre
  <2> QED
    BY <2>1, <2>2, <2>3 DEF EvictionSound, PinsReleased
<1> QED
  BY <1>1, Invariance, PTL

(* What one operation has accessed is not evicted before it ends, unless it *)
(* is more than the whole cache: the recency of the pages takes care of it. *)
THEOREM OperationCorrect == Spec => []OperationKeepsPages
<1>1. IInv => OperationKeepsPages
  BY DEF IInv, Basic, HistoryIn, KeptIn, OperationKeepsPages
<1> QED
  BY <1>1, Invariance, PTL

=============================================================================
