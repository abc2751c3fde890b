------------------------- MODULE RecordStoreProofs -------------------------
(* What RecordStore guarantees for every set of pages, keys and lengths and *)
(* every page geometry: the types, the chain of pages with its free-space   *)
(* map, the references of the index, and of a vault that is opened again:   *)
(* no slot is left behind without a reference, so the scan of the pages     *)
(* finds the records the index had.                                         *)
EXTENDS RecordStore, SequenceTheorems, WellFoundedInduction, TLAPS

-----------------------------------------------------------------------------
(* A heap whose pages and tables have their types.                          *)
FsType == UNION {[S -> 0..PageSize] : S \in SUBSET Pages}

\* The heap of a running manager: typed, chained, and its map exact.
HeapInv(h) == h \in HeapType /\ Chained(h) /\ SpaceExact(h)

LEMMA NewPageType == NewPage \in PageType
  BY GeometryAssumption DEF NewPage, PageType

LEMMA FreedPageType == FreedPage \in PageType
  BY GeometryAssumption DEF FreedPage, PageType

LEMMA LinkType ==
  ASSUME NEW pg \in PageType, NEW q \in Pages \cup {NoPage}
  PROVE  [pg EXCEPT !.next = q] \in PageType /\ [pg EXCEPT !.prev = q] \in PageType
  BY DEF PageType

\* The walk from a page visits that page, and the successors of what it visits.
LEMMA ReachClosed ==
  ASSUME NEW pgs, NEW p \in Pages
  PROVE  /\ Reach(pgs, p) \subseteq Pages
         /\ p \in Reach(pgs, p)
         /\ \A q \in Reach(pgs, p) : pgs[q].next \in Pages => pgs[q].next \in Reach(pgs, p)
  BY StoreAssumption DEF Reach

\* Every set with the page and the successors of its members holds the walk.
LEMMA ReachLeast ==
  ASSUME NEW pgs, NEW p \in Pages, NEW S \in SUBSET Pages,
         p \in S, \A r \in S : pgs[r].next # NoPage => pgs[r].next \in S
  PROVE  Reach(pgs, p) \subseteq S
  BY DEF Reach

\* The walk depends on the next pointers only.
LEMMA ReachSame ==
  ASSUME NEW pgs, NEW qgs, NEW p \in Pages,
         \A q \in Pages : pgs[q].next = qgs[q].next
  PROVE  Reach(pgs, p) = Reach(qgs, p)
  BY DEF Reach

-----------------------------------------------------------------------------
(* Every page of the chain but the root has exactly one predecessor in it,  *)
(* the page its prev pointer names.                                         *)
LEMMA Predecessor ==
  ASSUME NEW h, HeapInv(h), NEW p \in Registered(h), p # Root
  PROVE  /\ h.mem[p].prev \in Registered(h) /\ h.mem[p].prev # p
         /\ h.mem[h.mem[p].prev].next = p
         /\ h.mem[p].next # p
<1> DEFINE S == Registered(h) \ {p}
<1>1. Registered(h) = Reach(h.mem, Root) /\ Root \in S /\ S \subseteq Pages
  BY StoreAssumption, ReachClosed DEF HeapInv, SpaceExact, Chained
<1>2. PICK r \in S : h.mem[r].next = p
  <2> SUFFICES ASSUME \A r \in S : h.mem[r].next # p PROVE FALSE
    OBVIOUS
  <2>1. \A r \in S : h.mem[r].next # NoPage => h.mem[r].next \in S
    BY DEF HeapInv, Chained
  <2>2. Reach(h.mem, Root) \subseteq S
    <3> HIDE DEF S
    <3> QED BY <1>1, <2>1, ReachLeast, StoreAssumption
  <2> QED BY <1>1, <2>2
<1>3. p # NoPage
  BY <1>1, StoreAssumption, ReachClosed
<1>4. h.mem[p].prev = r
  BY <1>2, <1>3 DEF HeapInv, Chained
<1>5. h.mem[p].next # p
  BY <1>2, <1>3, <1>4 DEF HeapInv, Chained
<1> QED BY <1>2, <1>4, <1>5

(* A page of the chain gets new contents and keeps its place: the map is    *)
(* told of the space the page has now.                                      *)
LEMMA ContentsChanged ==
  ASSUME NEW h, HeapInv(h), NEW p \in Registered(h), NEW pg \in PageType,
         pg.next = h.mem[p].next, pg.prev = h.mem[p].prev, pg.kind = h.mem[p].kind,
         FreeSpace(pg) \in 0..PageSize, NEW g \in HeapType,
         g.mem = [h.mem EXCEPT ![p] = pg], g.fs = Record(h.fs, p, FreeSpace(pg)),
         g.tail = h.tail, g.free = h.free
  PROVE  HeapInv(g)
<1>1. h \in HeapType /\ Chained(h) /\ SpaceExact(h)
  BY DEF HeapInv
<1>2. Registered(g) = Registered(h) /\ p \in Pages
  BY <1>1 DEF Registered, Record, HeapType
<1>3. \A q \in Pages : /\ g.mem[q].next = h.mem[q].next
                       /\ g.mem[q].prev = h.mem[q].prev
                       /\ g.mem[q].kind = h.mem[q].kind
  BY <1>1, <1>2 DEF HeapType
<1>4. Registered(h) \subseteq Pages
  BY <1>1 DEF HeapType, Registered
<1>5. Chained(g)
  <2> \A q \in Registered(h) : h.mem[q].next # NoPage => h.mem[q].next \in Pages
    BY <1>1, <1>4 DEF Chained
  <2> QED BY <1>1, <1>2, <1>3, <1>4, StoreAssumption DEF Chained
<1>6. SpaceExact(g)
  <2>1. Registered(g) = Reach(g.mem, Root)
    <3>1. Reach(g.mem, Root) = Reach(h.mem, Root)
      <4>1. \A q \in Pages : g.mem[q].next = h.mem[q].next
        BY <1>3
      <4> QED BY ONLY <4>1, ReachSame, StoreAssumption
    <3> QED BY <1>1, <1>2, <3>1 DEF SpaceExact
  <2>2. ASSUME NEW q \in Registered(g) PROVE g.fs[q] = FreeSpace(g.mem[q])
    BY <1>1, <1>2, <1>4 DEF SpaceExact, Record, HeapType, Registered
  <2> QED BY <2>1, <2>2 DEF SpaceExact
<1> QED BY <1>5, <1>6 DEF HeapInv

-----------------------------------------------------------------------------
\* A new page joins the chain behind its tail.
LEMMA GrownHeap ==
  ASSUME NEW h, HeapInv(h), NEW n \in h.free
  PROVE  HeapInv(Grown(h, n)) /\ Registered(Grown(h, n)) = Registered(h) \cup {n}
<1> DEFINE g == Grown(h, n)
           Reg == Registered(h)
<1>1. /\ h \in HeapType /\ n \in Pages /\ n \notin Reg /\ h.tail \in Reg
      /\ Reg \subseteq Pages /\ Root \in Reg /\ Reg = Reach(h.mem, Root)
      /\ h.mem[h.tail].next = NoPage
  BY DEF HeapInv, Chained, SpaceExact, HeapType, Registered
<1>2. /\ g.mem[n] = [NewPage EXCEPT !.prev = h.tail]
      /\ g.mem[h.tail] = [h.mem[h.tail] EXCEPT !.next = n]
      /\ \A q \in Pages \ {n, h.tail} : g.mem[q] = h.mem[q]
      /\ DOMAIN g.mem = Pages
  BY <1>1 DEF Grown, Linked, HeapType
<1>3. /\ g.mem[n].next = NoPage /\ g.mem[n].prev = h.tail
      /\ g.mem[n].kind = "slotted" /\ g.mem[n].lower = HeaderSize
      /\ g.mem[n].upper = PageSize
  BY <1>2 DEF NewPage
<1>4. h.mem[h.tail] \in PageType
  BY <1>1 DEF HeapType
<1>5. /\ g.mem[h.tail].next = n /\ g.mem[h.tail].prev = h.mem[h.tail].prev
      /\ g.mem[h.tail].kind = h.mem[h.tail].kind
      /\ g.mem[h.tail].upper = h.mem[h.tail].upper
      /\ g.mem[h.tail].lower = h.mem[h.tail].lower
  BY <1>2, <1>4 DEF PageType
<1>6. Registered(g) = Reg \cup {n}
  BY DEF Grown, Record, Registered
<1>7. g \in HeapType
  <2>1. g.mem[n] \in PageType
    BY <1>1, <1>2, NewPageType DEF PageType
  <2>2. g.mem[h.tail] \in PageType
    BY <1>1, <1>2, <1>4 DEF PageType
  <2>3. g.mem \in [Pages -> PageType]
    <3>1. \A q \in Pages : g.mem[q] \in PageType
      BY <1>1, <1>2, <2>1, <2>2 DEF HeapType
    <3> QED BY <1>1, <1>2, <3>1 DEF Grown, Linked, HeapType
  <2>4. g.fs \in FsType
    <3>1. FreeSpace(NewPage) \in 0..PageSize
      BY GeometryAssumption DEF FreeSpace, NewPage
    <3>2. h.fs \in [Reg -> 0..PageSize]
      BY <1>1 DEF HeapType, Registered
    <3>3. g.fs \in [Reg \cup {n} -> 0..PageSize]
      BY <3>1, <3>2 DEF Grown, Record, Registered
    <3> QED BY <1>1, <3>3 DEF FsType
  <2> QED BY <1>1, <2>3, <2>4 DEF HeapType, FsType, Grown
<1>8. Chained(g)
  <2>1. /\ g.tail = n /\ Registered(g) \cap g.free = {}
    BY <1>1, <1>6 DEF Grown, HeapInv, Chained
  <2>2. g.mem[Root].prev = NoPage
    BY <1>1, <1>2, <1>5 DEF HeapInv, Chained
  <2>3. ASSUME NEW p \in Reg
        PROVE  /\ g.mem[p].kind = "slotted" /\ g.mem[p].next # NoPage
               /\ g.mem[p].next \in Registered(g) /\ g.mem[g.mem[p].next].prev = p
    <3>1. CASE p = h.tail
      BY <1>1, <1>3, <1>5, <1>6, <3>1, StoreAssumption DEF HeapInv, Chained
    <3>2. CASE p # h.tail
      <4>1. /\ g.mem[p] = h.mem[p] /\ h.mem[p].next \in Reg
            /\ h.mem[h.mem[p].next].prev = p /\ h.mem[p].kind = "slotted"
            /\ h.mem[p].next # NoPage
        BY <1>1, <1>2, <3>2 DEF HeapInv, Chained
      <4>2. g.mem[h.mem[p].next].prev = h.mem[h.mem[p].next].prev
        BY <1>1, <1>2, <1>5, <4>1
      <4> QED BY <1>6, <4>1, <4>2
    <3> QED BY <3>1, <3>2
  <2> QED BY <1>1, <1>3, <1>6, <2>1, <2>2, <2>3 DEF Chained
<1>9. SpaceExact(g)
  <2> DEFINE R == Reach(g.mem, Root)
  <2>1. R \subseteq Reg \cup {n}
    <3>1. \A r \in Reg \cup {n} : g.mem[r].next # NoPage => g.mem[r].next \in Reg \cup {n}
      BY <1>3, <1>6, <1>8 DEF Chained
    <3>2. Root \in Reg \cup {n} /\ Reg \cup {n} \subseteq Pages
      BY <1>1
    <3> HIDE DEF g, Reg
    <3> QED BY <3>1, <3>2, ReachLeast, StoreAssumption
  <2>2. Root \in R /\ \A q \in R : g.mem[q].next \in Pages => g.mem[q].next \in R
    BY ReachClosed, StoreAssumption
  <2>3. Reg \subseteq R
    <3> DEFINE T == R \cap Reg
    <3>1. \A r \in T : h.mem[r].next # NoPage => h.mem[r].next \in T
      BY <1>1, <1>2, <2>2 DEF HeapInv, Chained
    <3>2. Root \in T /\ T \subseteq Pages
      BY <1>1, <2>2
    <3>3. Reach(h.mem, Root) \subseteq T
      <4> HIDE DEF T
      <4> QED BY <3>1, <3>2, ReachLeast, StoreAssumption
    <3> QED BY <1>1, <3>3
  <2>4. n \in R
    BY <1>1, <1>5, <2>2, <2>3
  <2>5. \A p \in Registered(g) : g.fs[p] = FreeSpace(g.mem[p])
    <3>1. \A p \in Reg : g.fs[p] = h.fs[p] /\ h.fs[p] = FreeSpace(h.mem[p])
      BY <1>1 DEF Grown, Record, Registered, HeapInv, SpaceExact
    <3>2. g.fs[n] = FreeSpace(g.mem[n])
      BY <1>1, <1>3 DEF Grown, Record, FreeSpace, NewPage, Registered
    <3>3. \A p \in Reg : FreeSpace(g.mem[p]) = FreeSpace(h.mem[p])
      BY <1>1, <1>2, <1>5 DEF FreeSpace
    <3> QED BY <1>6, <3>1, <3>2, <3>3
  <2> QED BY <1>6, <2>1, <2>3, <2>4, <2>5 DEF SpaceExact
<1> QED BY <1>6, <1>7, <1>8, <1>9 DEF HeapInv

-----------------------------------------------------------------------------
\* A page cannot stand both before and after another: the root reaches neither.
LEMMA NoTwoCycle ==
  ASSUME NEW h, HeapInv(h), NEW p \in Registered(h), p # Root
  PROVE  h.mem[p].next # h.mem[p].prev
<1> SUFFICES ASSUME h.mem[p].next = h.mem[p].prev PROVE FALSE
  OBVIOUS
<1> DEFINE P == h.mem[p].prev
           S == Registered(h) \ {p, P}
<1>1. /\ P \in Registered(h) /\ h.mem[P].next = p /\ h.mem[p].next = P
      /\ p # NoPage /\ P # NoPage /\ Registered(h) \subseteq Pages
      /\ Registered(h) = Reach(h.mem, Root)
  BY Predecessor, ReachClosed, StoreAssumption DEF HeapInv, SpaceExact
<1>2. h.mem[P].prev = p /\ h.mem[p].prev = P
  BY <1>1 DEF HeapInv, Chained
<1>3. Root \in S
  BY <1>1, <1>2 DEF HeapInv, Chained
<1>4. \A r \in S : h.mem[r].next # NoPage => h.mem[r].next \in S
  BY <1>1, <1>2 DEF HeapInv, Chained
<1>5. Reach(h.mem, Root) \subseteq S
  <2> HIDE DEF S
  <2>1. S \subseteq Pages
    BY <1>1 DEF S
  <2> QED BY <1>3, <1>4, <2>1, ReachLeast, StoreAssumption
<1> QED BY <1>1, <1>5

\* A page other than the root leaves the chain, and only that page.
LEMMA UnlinkedHeap ==
  ASSUME NEW h, HeapInv(h), NEW p \in Registered(h), p # Root
  PROVE  HeapInv(Unlinked(h, p)) /\ Registered(Unlinked(h, p)) = Registered(h) \ {p}
<1> DEFINE g   == Unlinked(h, p)
           Reg == Registered(h)
           P   == h.mem[p].prev
           N   == h.mem[p].next
<1>1. /\ h \in HeapType /\ Reg \subseteq Pages /\ p \in Pages /\ Root \in Reg
      /\ P \in Reg /\ P # p /\ h.mem[P].next = p /\ N # p /\ N # P
      /\ Reg = Reach(h.mem, Root) /\ NoPage \notin Reg
  BY Predecessor, NoTwoCycle, StoreAssumption
     DEF HeapInv, Chained, SpaceExact, HeapType, Registered
<1>2. N # NoPage => N \in Reg /\ h.mem[N].prev = p
  BY <1>1 DEF HeapInv, Chained
<1>3. /\ g.mem[p] = FreedPage
      /\ g.mem[P] = [h.mem[P] EXCEPT !.next = N]
      /\ N # NoPage => g.mem[N] = [h.mem[N] EXCEPT !.prev = P]
      /\ \A q \in Pages \ {p, P, N} : g.mem[q] = h.mem[q]
  BY <1>1, <1>2 DEF Unlinked, Bypassed
<1>4. h.mem[P] \in PageType /\ (N # NoPage => h.mem[N] \in PageType)
  BY <1>1, <1>2 DEF HeapType
<1>5. /\ g.mem[P].next = N
      /\ \A q \in Pages \ {p, P} : g.mem[q].next = h.mem[q].next
      /\ N # NoPage => g.mem[N].prev = P
      /\ \A q \in Pages \ {p, N} : g.mem[q].prev = h.mem[q].prev
      /\ \A q \in Pages \ {p} : /\ g.mem[q].kind = h.mem[q].kind
                                /\ g.mem[q].lower = h.mem[q].lower
                                /\ g.mem[q].upper = h.mem[q].upper
  <2>1. /\ g.mem[P].next = N /\ g.mem[P].prev = h.mem[P].prev
        /\ g.mem[P].kind = h.mem[P].kind /\ g.mem[P].lower = h.mem[P].lower
        /\ g.mem[P].upper = h.mem[P].upper
    BY <1>1, <1>3, <1>4 DEF PageType
  <2>2. N # NoPage =>
          /\ g.mem[N].prev = P /\ g.mem[N].next = h.mem[N].next
          /\ g.mem[N].kind = h.mem[N].kind /\ g.mem[N].lower = h.mem[N].lower
          /\ g.mem[N].upper = h.mem[N].upper
    BY <1>1, <1>3, <1>4 DEF PageType
  <2>3. ASSUME NEW q \in Pages \ {p}
        PROVE  /\ q # P => g.mem[q].next = h.mem[q].next
               /\ q # N => g.mem[q].prev = h.mem[q].prev
               /\ g.mem[q].kind = h.mem[q].kind
               /\ g.mem[q].lower = h.mem[q].lower
               /\ g.mem[q].upper = h.mem[q].upper
    <3>1. CASE q = P
      BY <2>1, <3>1
    <3>2. CASE q = N
      BY <2>2, <3>2, StoreAssumption
    <3>3. CASE q \notin {P, N}
      <4>1. g.mem[q] = h.mem[q]
        BY <1>3, <3>3
      <4> QED BY <3>3, <4>1
    <3> QED BY <3>1, <3>2, <3>3
  <2> QED BY <2>1, <2>2, <2>3
<1>6. Registered(g) = Reg \ {p}
  BY DEF Unlinked, Forget, Registered
<1>7. g \in HeapType
  <2>1. \A q \in Pages : g.mem[q] \in PageType
    <3>1. N \in Pages \cup {NoPage}
      BY <1>1, <1>2
    <3>2. [h.mem[P] EXCEPT !.next = N] \in PageType
      BY <1>4, <3>1, LinkType
    <3>3. N # NoPage => [h.mem[N] EXCEPT !.prev = P] \in PageType
      <4>1. P \in Pages \cup {NoPage}
        BY <1>1
      <4> QED BY <1>4, <4>1, LinkType
    <3>4. ASSUME NEW q \in Pages PROVE g.mem[q] \in PageType
      <4>1. CASE q = p
        BY <1>3, <4>1, FreedPageType
      <4>2. CASE q = P
        BY <1>3, <3>2, <4>2
      <4>3. CASE q = N
        BY <1>3, <3>3, <4>3, StoreAssumption
      <4>4. CASE q \notin {p, P, N}
        <5>1. g.mem[q] = h.mem[q]
          BY <1>3, <4>4
        <5> QED BY <1>1, <5>1 DEF HeapType
      <4> QED BY <4>1, <4>2, <4>3, <4>4
    <3> QED BY <3>4
  <2>2. g.mem \in [Pages -> PageType]
    BY <2>1 DEF Unlinked, Bypassed
  <2>3. g.fs \in FsType
    <3>1. h.fs \in [Reg -> 0..PageSize]
      BY <1>1 DEF HeapType, Registered
    <3>2. g.fs \in [Reg \ {p} -> 0..PageSize]
      BY <3>1 DEF Unlinked, Forget, Registered
    <3> QED BY <1>1, <3>2 DEF FsType
  <2>4. g.tail \in Pages /\ g.dirty \subseteq Pages /\ g.free \subseteq Pages
    BY <1>1, <1>2 DEF Unlinked, TailWithout, HeapType
  <2> QED BY <2>2, <2>3, <2>4 DEF HeapType, FsType, Unlinked
<1>8. Chained(g)
  <2>1. Root \in Registered(g) /\ g.mem[Root].prev = NoPage
    BY <1>1, <1>2, <1>5, <1>6 DEF HeapInv, Chained
  <2>2. g.tail \in Registered(g) /\ g.mem[g.tail].next = NoPage
    <3>1. CASE h.tail = p
      <4>1. g.tail = P /\ N = NoPage
        BY <3>1 DEF Unlinked, TailWithout, HeapInv, Chained
      <4> QED BY <1>1, <1>5, <1>6, <4>1
    <3>2. CASE h.tail # p
      <4>1. g.tail = h.tail /\ h.tail \in Reg /\ h.mem[h.tail].next = NoPage /\ h.tail # P
        BY <1>1, <3>2 DEF Unlinked, TailWithout, HeapInv, Chained
      <4> QED BY <1>1, <1>5, <1>6, <3>2, <4>1
    <3> QED BY <3>1, <3>2
  <2>3. Registered(g) \cap g.free = {}
    BY <1>6 DEF Unlinked, HeapInv, Chained
  <2>4. ASSUME NEW r \in Reg \ {p}
        PROVE  /\ g.mem[r].kind = "slotted"
               /\ g.mem[r].next = NoPage => r = g.tail
               /\ g.mem[r].next # NoPage =>
                    g.mem[r].next \in Registered(g) /\ g.mem[g.mem[r].next].prev = r
    <3>1. g.mem[r].kind = "slotted"
      BY <1>1, <1>5 DEF HeapInv, Chained
    <3>2. CASE r = P
      <4>1. N = NoPage => g.tail = P
        BY <1>1 DEF Unlinked, TailWithout, HeapInv, Chained
      <4> QED BY <1>1, <1>2, <1>5, <1>6, <3>1, <3>2, <4>1
    <3>3. CASE r # P
      <4> DEFINE x == h.mem[r].next
      <4>1. g.mem[r].next = x /\ x # p
        BY <1>1, <1>5, <3>3 DEF HeapInv, Chained
      <4>2. x = NoPage => r = g.tail
        BY <3>3 DEF Unlinked, TailWithout, HeapInv, Chained
      <4>3. x # NoPage => x \in Reg /\ h.mem[x].prev = r
        BY DEF HeapInv, Chained
      <4>4. x # NoPage => x # N
        BY <1>2, <4>3
      <4> QED BY <1>1, <1>5, <1>6, <3>1, <4>1, <4>2, <4>3, <4>4
    <3> QED BY <3>2, <3>3
  <2> QED BY <1>6, <2>1, <2>2, <2>3, <2>4 DEF Chained
<1>9. SpaceExact(g)
  <2> DEFINE R == Reach(g.mem, Root)
  <2>1. R \subseteq Reg \ {p}
    <3>1. \A r \in Reg \ {p} : g.mem[r].next # NoPage => g.mem[r].next \in Reg \ {p}
      BY <1>6, <1>8 DEF Chained
    <3>2. Root \in Reg \ {p} /\ Reg \ {p} \subseteq Pages
      BY <1>1
    <3> HIDE DEF g, Reg
    <3> QED BY <3>1, <3>2, ReachLeast, StoreAssumption
  <2>2. Root \in R /\ \A q \in R : g.mem[q].next \in Pages => g.mem[q].next \in R
    BY ReachClosed, StoreAssumption
  <2>3. \A r \in R \ {P} : h.mem[r].next # NoPage => h.mem[r].next \in R \ {p}
    BY <1>1, <1>5, <2>1, <2>2 DEF HeapInv, Chained
  <2>4. P \in R
    <3> SUFFICES ASSUME P \notin R PROVE FALSE
      OBVIOUS
    <3>1. Reach(h.mem, Root) \subseteq R
      BY <1>1, <2>1, <2>2, <2>3, ReachLeast, StoreAssumption
    <3> QED BY <1>1, <2>1, <3>1
  <2>5. Reg \subseteq R \cup {p}
    <3> DEFINE T == R \cup {p}
    <3>1. N # NoPage => N \in R
      BY <1>1, <1>2, <1>5, <2>2, <2>4
    <3>2. \A r \in T : h.mem[r].next # NoPage => h.mem[r].next \in T
      BY <1>1, <2>3, <3>1
    <3>3. Root \in T /\ T \subseteq Pages
      BY <1>1, <2>1, <2>2
    <3>4. Reach(h.mem, Root) \subseteq T
      <4> HIDE DEF T
      <4> QED BY <3>2, <3>3, ReachLeast, StoreAssumption
    <3> QED BY <1>1, <3>4
  <2>6. \A q \in Registered(g) : g.fs[q] = FreeSpace(g.mem[q])
    BY <1>1, <1>5, <1>6 DEF Unlinked, Forget, Registered, FreeSpace, HeapInv, SpaceExact
  <2> QED BY <1>6, <2>1, <2>5, <2>6 DEF SpaceExact
<1> QED BY <1>6, <1>7, <1>8, <1>9 DEF HeapInv

-----------------------------------------------------------------------------
\* The order of the naturals as a relation, for the theorems on well-foundedness.
NatLess == {ss \in Nat \X Nat : ss[1] < ss[2]}

LEMMA NatLessWellFounded == IsWellFoundedOn(NatLess, Nat)
  BY NatLessThanWellFounded DEF OpToRel, NatLess

\* Min of a nonempty set of naturals is its least element.
LEMMA MinOfNats ==
  ASSUME NEW S \in SUBSET Nat, S # {}
  PROVE  Min(S) \in S
<1>1. PICK x \in S : \A y \in S : ~ (<<y, x>> \in NatLess)
  BY NatLessWellFounded, WFMin, Zenon
<1>2. \A y \in S : x <= y
  <2> TAKE y \in S
  <2>1. ~ (y < x)
    BY <1>1, <<y, x>> \in Nat \X Nat, <<y, x>>[1] = y, <<y, x>>[2] = x DEF NatLess
  <2> QED BY <2>1
<1> QED BY <1>2 DEF Min

\* A page of the chain: typed, with its boundaries in order.
PageInv(pg) == pg \in PageType /\ pg.lower <= pg.upper

LEMMA ChainPages ==
  ASSUME NEW h, HeapInv(h), NEW p \in Registered(h)
  PROVE  p \in Pages /\ PageInv(h.mem[p]) /\ h.fs[p] = FreeSpace(h.mem[p])
  BY DEF HeapInv, HeapType, SpaceExact, PageInv, Registered, FreeSpace, PageType

\* The slot chosen for a record is free: a deleted one, or the next new one.
LEMMA TargetIsFree ==
  ASSUME NEW pg \in PageType
  PROVE  /\ TargetSlot(pg) \in Nat \ {0}
         /\ TargetSlot(pg) \notin UsedSlots(pg)
         /\ DeletedSlots(pg) # {} => TargetSlot(pg) \in 1..Len(pg.slots)
<1>1. pg.slots \in Seq(Slot) /\ Len(pg.slots) \in Nat /\ DOMAIN pg.slots = 1..Len(pg.slots)
  BY LenProperties DEF PageType
<1>2. CASE DeletedSlots(pg) = {}
  BY <1>1, <1>2 DEF TargetSlot, UsedSlots
<1>3. CASE DeletedSlots(pg) # {}
  <2>1. DeletedSlots(pg) \in SUBSET Nat
    BY <1>1 DEF DeletedSlots
  <2>2. TargetSlot(pg) \in DeletedSlots(pg)
    BY <1>3, <2>1, MinOfNats DEF TargetSlot
  <2> QED BY <1>1, <2>2 DEF DeletedSlots, UsedSlots
<1> QED BY <1>2, <1>3

\* A number that fits into 16 bits is not changed by being kept in them.
LEMMA Unwrapped ==
  ASSUME NEW n \in Nat, NEW w \in Nat, n < w
  PROVE  n % w = n
  OBVIOUS

\* The space a record needs, unless the sum does not fit.
LEMMA NeededIs ==
  ASSUME NEW pg, NEW size \in Nat, ~ Wraps(pg, size)
  PROVE  Needed(pg, size) = size + Entry(pg) /\ Entry(pg) \in Nat
<1> DEFINE n == size + Entry(pg)
<1>1. Entry(pg) \in Nat /\ Word \in Nat
  BY GeometryAssumption DEF Entry
<1>2. n \in Nat /\ n < Word /\ Needed(pg, size) = n % Word
  BY <1>1 DEF Wraps, Needed
<1> HIDE DEF n
<1>3. Needed(pg, size) = n
  BY <1>1, <1>2, Unwrapped
<1> QED BY <1>1, <1>3 DEF n

\* Where a record goes that fits the free space.
LEMMA OffsetIs ==
  ASSUME NEW pg, NEW size \in Nat, pg.lower \in Nat, pg.upper \in 0..PageSize,
         size <= pg.upper - pg.lower
  PROVE  WriteOffset(pg, size) = pg.upper - size
<1> DEFINE u == pg.upper
           l == pg.lower
<1>1. PageSize \in Nat /\ Word \in Nat /\ PageSize < Word /\ u \in 0..PageSize /\ l \in Nat
      /\ size <= u - l
  BY GeometryAssumption
<1>2. WriteOffset(pg, size) = (u - size) % Word
  BY DEF WriteOffset
<1> HIDE DEF u, l
<1>3. u - size \in Nat /\ u - size < Word
  BY ONLY <1>1, size \in Nat
<1>4. (u - size) % Word = u - size
  BY <1>1, <1>3, Unwrapped
<1> QED BY <1>2, <1>4 DEF u

(* A page that has the space is never compacted; the record lands in its    *)
(* target slot and no other slot changes.                                   *)
LEMMA PageInserted ==
  ASSUME NEW pg, PageInv(pg), NEW k \in Keys, NEW size \in Nat \ {0},
         size <= FreeSpace(pg), Accepts(pg, size), ~ Wraps(pg, size)
  PROVE  LET new == Inserted(pg, k, size)
             t   == TargetSlot(pg)
         IN  /\ PageInv(new) /\ FreeSpace(new) \in 0..PageSize
             /\ new.next = pg.next /\ new.prev = pg.prev /\ new.kind = pg.kind
             /\ UsedSlots(new) = UsedSlots(pg) \cup {t}
             /\ new.slots[t].rec = k /\ new.slots[t].size = size
             /\ \A i \in UsedSlots(pg) : new.slots[i] = pg.slots[i]
<1> DEFINE t    == TargetSlot(pg)
           slot == [offset |-> pg.upper - size, size |-> size, used |-> TRUE, rec |-> k]
           new  == Inserted(pg, k, size)
<1>1. /\ pg \in PageType /\ pg.lower \in 0..PageSize /\ pg.upper \in 0..PageSize
      /\ pg.slots \in Seq(Slot) /\ pg.lower <= pg.upper
      /\ PageSize \in Nat /\ SlotSize \in Nat
  BY GeometryAssumption DEF PageInv, PageType
<1>0. /\ Needed(pg, size) = size + Entry(pg) /\ Entry(pg) \in Nat
      /\ WriteOffset(pg, size) = pg.upper - size
  BY <1>1, NeededIs, OffsetIs DEF FreeSpace
<1>2. Prepared(pg, size) = pg
  BY <1>0, <1>1 DEF Prepared, NeedsCompaction, Entry, FreeSpace
<1>3. new = Write(pg, k, size) /\ FreeSpace(pg) >= Needed(pg, size)
  BY <1>2 DEF Inserted, Accepts
<1>4. slot \in Slot
  BY <1>1 DEF Slot, FreeSpace
<1>5. /\ t \in Nat \ {0} /\ t \notin UsedSlots(pg)
      /\ DeletedSlots(pg) # {} => t \in 1..Len(pg.slots)
      /\ Len(pg.slots) \in Nat /\ DOMAIN pg.slots = 1..Len(pg.slots)
  BY <1>1, TargetIsFree, LenProperties
<1>6. CASE DeletedSlots(pg) = {}
  <2>1. new = [pg EXCEPT !.upper = @ - size, !.lower = @ + SlotSize,
                         !.slots = Append(@, slot)]
    BY <1>0, <1>3, <1>6 DEF Write
  <2>2. t = Len(pg.slots) + 1
    BY <1>6 DEF TargetSlot
  <2>3. /\ Append(pg.slots, slot) \in Seq(Slot)
        /\ DOMAIN Append(pg.slots, slot) = 1..t
        /\ Append(pg.slots, slot)[t] = slot
        /\ \A i \in 1..Len(pg.slots) : Append(pg.slots, slot)[i] = pg.slots[i]
    BY <1>1, <1>4, <1>5, <2>2
  <2>4. /\ new.slots = Append(pg.slots, slot) /\ new.upper = pg.upper - size
        /\ new.lower = pg.lower + SlotSize /\ new.next = pg.next
        /\ new.prev = pg.prev /\ new.kind = pg.kind
    BY <1>1, <2>1 DEF PageType
  <2>5. /\ new.lower \in 0..PageSize /\ new.upper \in 0..PageSize
        /\ new.lower <= new.upper
    <3>1. pg.upper - pg.lower >= size + SlotSize
      BY <1>0, <1>1, <1>3, <1>6 DEF Entry, FreeSpace
    <3>2. new.upper = pg.upper - size /\ new.lower = pg.lower + SlotSize
      BY <2>4
    <3>3. /\ pg.lower \in 0..PageSize /\ pg.upper \in 0..PageSize
          /\ PageSize \in Nat /\ SlotSize \in Nat /\ size \in Nat
      BY <1>1
    <3> HIDE DEF new
    <3> QED BY ONLY <3>1, <3>2, <3>3
  <2>6. PageInv(new)
    BY <1>1, <2>1, <2>3, <2>4, <2>5 DEF PageInv, PageType
  <2>7. UsedSlots(new) = UsedSlots(pg) \cup {t}
    BY <1>5, <2>2, <2>3, <2>4 DEF UsedSlots
  <2>8. new.slots[t].rec = k /\ new.slots[t].size = size
    <3>1. new.slots[t] = slot
      <4> HIDE DEF new, slot, t
      <4> QED BY <2>3, <2>4
    <3>2. slot.rec = k /\ slot.size = size
      OBVIOUS
    <3> HIDE DEF new, slot, t
    <3> QED BY <3>1, <3>2
  <2>9. \A i \in UsedSlots(pg) : new.slots[i] = pg.slots[i]
    BY <1>5, <2>3, <2>4 DEF UsedSlots
  <2>10. FreeSpace(new) \in 0..PageSize
    BY <1>1, <2>5 DEF FreeSpace
  <2> QED BY <2>4, <2>6, <2>7, <2>8, <2>9, <2>10
<1>7. CASE DeletedSlots(pg) # {}
  <2>1. new = [pg EXCEPT !.upper = @ - size, !.slots = [@ EXCEPT ![t] = slot]]
    BY <1>0, <1>1, <1>3, <1>7 DEF Write, PageType
  <2>2. t \in 1..Len(pg.slots)
    BY <1>5, <1>7
  <2>3. /\ [pg.slots EXCEPT ![t] = slot] \in Seq(Slot)
        /\ DOMAIN [pg.slots EXCEPT ![t] = slot] = 1..Len(pg.slots)
        /\ \A i \in 1..Len(pg.slots) :
             [pg.slots EXCEPT ![t] = slot][i] = IF i = t THEN slot ELSE pg.slots[i]
    BY <1>1, <1>4, <1>5, <2>2, ExceptSeq
  <2>4. /\ new.slots = [pg.slots EXCEPT ![t] = slot] /\ new.upper = pg.upper - size
        /\ new.lower = pg.lower /\ new.next = pg.next
        /\ new.prev = pg.prev /\ new.kind = pg.kind
    BY <1>1, <2>1 DEF PageType
  <2>5. new.upper \in 0..PageSize /\ new.lower <= new.upper
    BY <1>1, <1>3, <1>7, <2>4 DEF Needed, FreeSpace
  <2>6. PageInv(new)
    BY <1>1, <2>1, <2>3, <2>4, <2>5 DEF PageInv, PageType
  <2>7. UsedSlots(new) = UsedSlots(pg) \cup {t}
    BY <1>5, <2>2, <2>3, <2>4 DEF UsedSlots
  <2>8. new.slots[t] = slot
    BY <2>2, <2>3, <2>4
  <2>9. new.slots[t].rec = k /\ new.slots[t].size = size
    BY <2>8
  <2>10. \A i \in UsedSlots(pg) : new.slots[i] = pg.slots[i]
    BY <1>5, <2>3, <2>4 DEF UsedSlots
  <2>11. FreeSpace(new) \in 0..PageSize
    BY <1>1, <2>4, <2>5 DEF FreeSpace
  <2> QED BY <2>4, <2>6, <2>7, <2>9, <2>10, <2>11
<1> QED BY <1>6, <1>7

\* Marking one slot deleted moves no boundary and touches no other slot.
LEMMA PageRemoved ==
  ASSUME NEW pg, PageInv(pg), NEW i \in UsedSlots(pg)
  PROVE  LET new == Removed(pg, i)
         IN  /\ PageInv(new) /\ FreeSpace(new) = FreeSpace(pg)
             /\ new.next = pg.next /\ new.prev = pg.prev /\ new.kind = pg.kind
             /\ new.lower = pg.lower /\ new.upper = pg.upper
             /\ UsedSlots(new) = UsedSlots(pg) \ {i}
             /\ \A j \in UsedSlots(pg) \ {i} : new.slots[j] = pg.slots[j]
<1> DEFINE new  == Removed(pg, i)
           slot == [pg.slots[i] EXCEPT !.used = FALSE]
<1>1. pg \in PageType /\ pg.slots \in Seq(Slot) /\ i \in 1..Len(pg.slots)
  BY LenProperties DEF PageInv, PageType, UsedSlots
<1>2. slot \in Slot /\ slot.used = FALSE
  <2>1. pg.slots[i] \in Slot
    BY <1>1, ElementOfSeq
  <2> QED BY <2>1 DEF Slot
<1>3. new = [pg EXCEPT !.slots = [pg.slots EXCEPT ![i] = slot]]
  BY <1>1 DEF Removed, PageType
<1>4. /\ [pg.slots EXCEPT ![i] = slot] \in Seq(Slot)
      /\ DOMAIN [pg.slots EXCEPT ![i] = slot] = DOMAIN pg.slots
      /\ \A j \in DOMAIN pg.slots :
           [pg.slots EXCEPT ![i] = slot][j] = IF j = i THEN slot ELSE pg.slots[j]
  <2> HIDE DEF slot
  <2> QED BY <1>1, <1>2, ExceptSeq, LenProperties
<1>5. /\ new.slots = [pg.slots EXCEPT ![i] = slot] /\ new.upper = pg.upper
      /\ new.lower = pg.lower /\ new.next = pg.next
      /\ new.prev = pg.prev /\ new.kind = pg.kind
  BY <1>1, <1>3 DEF PageType
<1>6. PageInv(new)
  BY <1>1, <1>3, <1>4, <1>5 DEF PageInv, PageType
<1>7. UsedSlots(new) = UsedSlots(pg) \ {i}
  <2> HIDE DEF slot, new
  <2> QED BY <1>2, <1>4, <1>5 DEF UsedSlots
<1>8. \A j \in UsedSlots(pg) \ {i} : new.slots[j] = pg.slots[j]
  <2> HIDE DEF slot, new
  <2> QED BY <1>4, <1>5 DEF UsedSlots
<1> QED BY <1>5, <1>6, <1>7, <1>8 DEF FreeSpace

\* Overwriting one record in its slot touches no other slot.
LEMMA PageOverwritten ==
  ASSUME NEW pg, PageInv(pg), NEW i \in UsedSlots(pg), NEW k \in Keys, NEW size \in Nat
  PROVE  LET new == Overwritten(pg, i, k, size)
         IN  /\ PageInv(new) /\ FreeSpace(new) = FreeSpace(pg)
             /\ new.next = pg.next /\ new.prev = pg.prev /\ new.kind = pg.kind
             /\ UsedSlots(new) = UsedSlots(pg)
             /\ new.slots[i].rec = k /\ new.slots[i].size = size
             /\ \A j \in UsedSlots(pg) \ {i} : new.slots[j] = pg.slots[j]
<1> DEFINE new  == Overwritten(pg, i, k, size)
           slot == [pg.slots[i] EXCEPT !.size = size, !.rec = k]
<1>1. pg \in PageType /\ pg.slots \in Seq(Slot) /\ i \in 1..Len(pg.slots) /\ pg.slots[i].used
  BY LenProperties DEF PageInv, PageType, UsedSlots
<1>2. slot \in Slot /\ slot.used /\ slot.rec = k /\ slot.size = size
  <2>1. pg.slots[i] \in Slot
    BY <1>1, ElementOfSeq
  <2> QED BY <1>1, <2>1 DEF Slot
<1>3. new = [pg EXCEPT !.slots = [pg.slots EXCEPT ![i] = slot]]
  <2>1. pg.slots[i] \in Slot
    BY <1>1, ElementOfSeq
  <2>2. slot = [[pg.slots[i] EXCEPT !.size = size] EXCEPT !.rec = k]
    OBVIOUS
  <2>3. [[pg.slots EXCEPT ![i].size = size] EXCEPT ![i].rec = k] = [pg.slots EXCEPT ![i] = slot]
    BY <1>1, <2>2
  <2> QED BY <1>1, <2>3 DEF Overwritten, PageType
<1>4. /\ [pg.slots EXCEPT ![i] = slot] \in Seq(Slot)
      /\ DOMAIN [pg.slots EXCEPT ![i] = slot] = DOMAIN pg.slots
      /\ \A j \in DOMAIN pg.slots :
           [pg.slots EXCEPT ![i] = slot][j] = IF j = i THEN slot ELSE pg.slots[j]
  <2> HIDE DEF slot
  <2> QED BY <1>1, <1>2, ExceptSeq, LenProperties
<1>5. /\ new.slots = [pg.slots EXCEPT ![i] = slot] /\ new.upper = pg.upper
      /\ new.lower = pg.lower /\ new.next = pg.next
      /\ new.prev = pg.prev /\ new.kind = pg.kind
  BY <1>1, <1>3 DEF PageType
<1>6. PageInv(new)
  BY <1>1, <1>3, <1>4, <1>5 DEF PageInv, PageType
<1>7. UsedSlots(new) = UsedSlots(pg) /\ new.slots[i] = slot
  <2> HIDE DEF slot, new
  <2> QED BY <1>1, <1>2, <1>4, <1>5 DEF UsedSlots
<1>8. \A j \in UsedSlots(pg) \ {i} : new.slots[j] = pg.slots[j]
  <2> HIDE DEF slot, new
  <2> QED BY <1>4, <1>5 DEF UsedSlots
<1>9. new.slots[i].rec = k /\ new.slots[i].size = size
  <2> HIDE DEF slot, new
  <2> QED BY <1>2, <1>7
<1> QED BY <1>5, <1>6, <1>7, <1>8, <1>9 DEF FreeSpace

-----------------------------------------------------------------------------
(* References survive what the manager does to other slots.                 *)

\* Reference s leads to the same record in heap g as in heap h.
Keeps(g, h, s) == \A j \in Keys, n \in Nat : Resolves(h, s, j, n) => Resolves(g, s, j, n)

\* A reference survives when its page stays and its slot is used and unchanged.
LEMMA KeepsSlot ==
  ASSUME NEW g, NEW h, NEW s,
         s[1] \in Registered(h) => s[1] \in Registered(g),
         s[1] \in Registered(h) /\ s[2] \in UsedSlots(h.mem[s[1]]) =>
           /\ s[2] \in UsedSlots(g.mem[s[1]])
           /\ g.mem[s[1]].slots[s[2]] = h.mem[s[1]].slots[s[2]]
  PROVE  Keeps(g, h, s)
  BY DEF Keeps, Resolves, SlotOf

\* The page the manager chose for a record, in the heap that has it linked.
LEMMA ChosenPage ==
  ASSUME NEW h, HeapInv(h), NEW size \in Nat \ {0}, NEW p \in Candidates(h, size),
         CanPlace(h, p, size), ~ Overruns(h, p, size)
  PROVE  LET f == WithPage(h, p)
         IN  /\ HeapInv(f) /\ p \in Registered(f)
             /\ size <= FreeSpace(f.mem[p]) /\ Accepts(f.mem[p], size)
             /\ ~ Wraps(f.mem[p], size)
             /\ h.dirty \subseteq f.dirty
             /\ \A q \in Pages \ f.dirty : f.mem[q] = h.mem[q]
             /\ \A s \in Refs : Keeps(f, h, s)
<1> DEFINE f == WithPage(h, p)
<1>1. Accepts(f.mem[p], size) /\ ~ Wraps(f.mem[p], size)
  BY DEF CanPlace, Overruns
<1>2. CASE p \in Registered(h)
  <2>1. f = h
    BY <1>2 DEF WithPage
  <2>2. p \notin h.free
    BY <1>2 DEF HeapInv, Chained
  <2>3. h.fs[p] >= size
    BY <2>2 DEF Candidates, Fitting
  <2>4. size <= FreeSpace(h.mem[p])
    <3>1. h.fs[p] = FreeSpace(h.mem[p]) /\ FreeSpace(h.mem[p]) \in Int
      BY <1>2, ChainPages DEF FreeSpace, PageInv, PageType
    <3> QED BY <2>3, <3>1
  <2>5. \A s \in Refs : Keeps(h, h, s)
    BY DEF Keeps
  <2> QED BY <1>1, <1>2, <2>1, <2>4, <2>5
<1>3. CASE p \notin Registered(h)
  <2>1. f = Grown(h, p) /\ p \in h.free
    BY <1>3 DEF WithPage, Candidates, Fitting
  <2>2. HeapInv(f) /\ Registered(f) = Registered(h) \cup {p}
    BY <2>1, GrownHeap
  <2>3. /\ h \in HeapType /\ p \in Pages /\ h.tail \in Registered(h) /\ h.tail # p
        /\ Registered(h) \subseteq Pages
    BY <1>3, <2>1 DEF HeapInv, HeapType, Chained, Registered
  <2>4. f.mem[p].slots = <<>>
    BY <2>1, <2>3 DEF Grown, Linked, HeapType, NewPage
  <2>5. size <= FreeSpace(f.mem[p])
    <3>1. Prepared(f.mem[p], size) = f.mem[p]
      BY <2>4 DEF Prepared, NeedsCompaction, DeletedSlots
    <3>2. FreeSpace(f.mem[p]) >= Needed(f.mem[p], size)
      BY <1>1, <3>1 DEF Accepts
    <3>3. FreeSpace(f.mem[p]) \in Int
      BY <2>2, ChainPages DEF FreeSpace, PageInv, PageType
    <3>4. Needed(f.mem[p], size) = size + Entry(f.mem[p]) /\ Entry(f.mem[p]) \in Nat
      BY <1>1, NeededIs
    <3> QED BY <3>2, <3>3, <3>4
  <2>6. h.dirty \subseteq f.dirty /\ \A q \in Pages \ f.dirty : f.mem[q] = h.mem[q]
    BY <2>1, <2>3 DEF Grown, Linked, HeapType
  <2>7. ASSUME NEW s \in Refs PROVE Keeps(f, h, s)
    <3>1. \A q \in Registered(h) : f.mem[q].slots = h.mem[q].slots
      <4>1. f.mem[h.tail] = [h.mem[h.tail] EXCEPT !.next = p]
        BY <2>1, <2>3 DEF Grown, Linked, HeapType
      <4>2. h.mem[h.tail] \in PageType
        BY <2>3 DEF HeapType
      <4>3. f.mem[h.tail].slots = h.mem[h.tail].slots
        BY <4>1, <4>2 DEF PageType
      <4>4. \A q \in Registered(h) \ {h.tail} : f.mem[q] = h.mem[q]
        BY <1>3, <2>1, <2>3 DEF Grown, Linked, HeapType
      <4> QED BY <4>3, <4>4
    <3> QED BY <2>2, <3>1, KeepsSlot DEF UsedSlots
  <2> QED BY <1>1, <2>2, <2>5, <2>6, <2>7
<1> QED BY <1>2, <1>3

\* insertRecord: the record is found at its new reference, all others stay.
LEMMA PlacedHeap ==
  ASSUME NEW h, HeapInv(h), NEW size \in Sizes, NEW k \in Keys,
         NEW p \in Candidates(h, size), CanPlace(h, p, size), ~ Overruns(h, p, size)
  PROVE  LET g == Placed(h, p, k, size)
             r == <<p, TargetSlot(WithPage(h, p).mem[p])>>
         IN  /\ HeapInv(g) /\ r \in Refs /\ Resolves(g, r, k, size)
             /\ h.dirty \subseteq g.dirty
             /\ \A q \in Pages \ g.dirty : g.mem[q] = h.mem[q]
             /\ \A s \in Refs : Keeps(g, h, s)
<1> DEFINE f   == WithPage(h, p)
           old == f.mem[p]
           t   == TargetSlot(old)
           pg  == Inserted(old, k, size)
           g   == Placed(h, p, k, size)
<1>1. size \in Nat \ {0}
  BY StoreAssumption
<1>2. /\ HeapInv(f) /\ p \in Registered(f)
      /\ size <= FreeSpace(old) /\ Accepts(old, size) /\ ~ Wraps(old, size)
      /\ h.dirty \subseteq f.dirty
      /\ \A q \in Pages \ f.dirty : f.mem[q] = h.mem[q]
      /\ \A s \in Refs : Keeps(f, h, s)
  BY <1>1, ChosenPage
<1>3. p \in Pages /\ PageInv(old) /\ f \in HeapType
  BY <1>2, ChainPages DEF HeapInv
<1>4. /\ PageInv(pg) /\ FreeSpace(pg) \in 0..PageSize
      /\ pg.next = old.next /\ pg.prev = old.prev /\ pg.kind = old.kind
      /\ UsedSlots(pg) = UsedSlots(old) \cup {t}
      /\ pg.slots[t].rec = k /\ pg.slots[t].size = size
      /\ \A i \in UsedSlots(old) : pg.slots[i] = old.slots[i]
  BY <1>1, <1>2, <1>3, PageInserted
<1>5. t \in Nat \ {0} /\ t \notin UsedSlots(old)
  BY <1>3, TargetIsFree DEF PageInv
<1>6. /\ g.mem = [f.mem EXCEPT ![p] = pg] /\ g.fs = Record(f.fs, p, FreeSpace(pg))
      /\ g.dirty = f.dirty \cup {p} /\ g.tail = f.tail /\ g.free = f.free
      /\ g = [f EXCEPT !.mem = [f.mem EXCEPT ![p] = pg],
                       !.fs = Record(f.fs, p, FreeSpace(pg)),
                       !.dirty = f.dirty \cup {p}]
  <2> HIDE DEF f, pg
  <2> QED BY <1>3 DEF Placed, HeapType, f, pg
<1>7. Registered(g) = Registered(f)
  BY <1>2, <1>6 DEF Registered, Record
<1>8. g \in HeapType
  <2> HIDE DEF f, old, pg, g
  <2>1. g.mem \in [Pages -> PageType]
    BY <1>3, <1>4, <1>6 DEF HeapType, PageInv
  <2>2. g.fs \in FsType
    <3>1. f.fs \in [Registered(f) -> 0..PageSize] /\ Registered(f) \subseteq Pages
      BY <1>3 DEF HeapType, Registered
    <3>2. g.fs \in [Registered(f) -> 0..PageSize]
      BY <1>2, <1>4, <1>6, <3>1 DEF Record, Registered
    <3> QED BY <3>1, <3>2 DEF FsType
  <2> QED BY <1>3, <1>6, <2>1, <2>2 DEF HeapType, FsType
<1>9. HeapInv(g)
  <2>1. /\ HeapInv(f) /\ p \in Registered(f) /\ pg \in PageType /\ g \in HeapType
        /\ pg.next = f.mem[p].next /\ pg.prev = f.mem[p].prev /\ pg.kind = f.mem[p].kind
        /\ FreeSpace(pg) \in 0..PageSize
    BY <1>2, <1>4, <1>8 DEF PageInv
  <2>2. /\ g.mem = [f.mem EXCEPT ![p] = pg] /\ g.fs = Record(f.fs, p, FreeSpace(pg))
        /\ g.tail = f.tail /\ g.free = f.free
    BY <1>6
  <2> HIDE DEF f, pg, g
  <2> QED BY ONLY <2>1, <2>2, ContentsChanged
<1>10. g.mem[p] = pg /\ \A q \in Pages \ {p} : g.mem[q] = f.mem[q]
  <2> HIDE DEF f, old, pg, g
  <2> QED BY <1>3, <1>6 DEF HeapType
<1>11. <<p, t>> \in Refs /\ Resolves(g, <<p, t>>, k, size)
  <2> HIDE DEF f, old, t, pg, g
  <2> QED BY <1>2, <1>3, <1>4, <1>5, <1>7, <1>10 DEF Refs, Resolves, SlotOf
<1>12. ASSUME NEW s \in Refs PROVE Keeps(g, h, s)
  <2> HIDE DEF f, t, pg, g
  <2>1. s[1] \in Pages
    BY DEF Refs
  <2>2. Keeps(g, f, s)
    BY <1>4, <1>7, <1>10, <2>1, KeepsSlot DEF old
  <2> QED BY <1>2, <2>2 DEF Keeps
<1>13. h.dirty \subseteq g.dirty /\ \A q \in Pages \ g.dirty : g.mem[q] = h.mem[q]
  <2> HIDE DEF f, old, pg, g
  <2> QED BY <1>2, <1>6, <1>10
<1> QED BY <1>9, <1>11, <1>12, <1>13

\* Pages that differ in their slots only.
SameLinks(a, b) ==
  /\ a.next = b.next /\ a.prev = b.prev /\ a.kind = b.kind
  /\ a.lower = b.lower /\ a.upper = b.upper

\* Recording the space a page has already leaves the map as it is.
LEMMA RecordSame ==
  ASSUME NEW h, HeapInv(h), NEW p \in Registered(h), NEW n, n = FreeSpace(h.mem[p])
  PROVE  Record(h.fs, p, n) = h.fs
<1>1. h.fs[p] = n /\ DOMAIN h.fs \cup {p} = DOMAIN h.fs
  BY ChainPages DEF Registered
<1>2. h.fs = [q \in DOMAIN h.fs |-> h.fs[q]]
  BY DEF HeapInv, HeapType
<1> QED BY <1>1, <1>2 DEF Record

\* Heap g is h with contents pg for page p and dirty set d.
Swap(g, h, p, pg, d) ==
  /\ g.mem = [h.mem EXCEPT ![p] = pg] /\ g.fs = h.fs /\ g.tail = h.tail
  /\ g.free = h.free /\ g.dirty = d
  /\ g = [mem |-> g.mem, dirty |-> g.dirty, tail |-> g.tail, fs |-> g.fs,
          free |-> g.free]

\* A page whose links and free space stay the same may be swapped.
LEMMA Swapped ==
  ASSUME NEW h, HeapInv(h), NEW p \in Registered(h), NEW pg, PageInv(pg),
         SameLinks(pg, h.mem[p]), NEW d \in SUBSET Pages,
         NEW g, Swap(g, h, p, pg, d)
  PROVE  /\ HeapInv(g) /\ Registered(g) = Registered(h)
         /\ g.mem[p] = pg /\ \A q \in Pages \ {p} : g.mem[q] = h.mem[q]
         /\ g.fs = h.fs /\ g.tail = h.tail /\ g.free = h.free /\ g.dirty = d
<1>1. /\ h \in HeapType /\ p \in Pages /\ pg \in PageType
      /\ FreeSpace(pg) = FreeSpace(h.mem[p]) /\ FreeSpace(pg) \in 0..PageSize
  BY ChainPages, GeometryAssumption
     DEF HeapInv, SameLinks, FreeSpace, PageInv, PageType
<1>2. [h.mem EXCEPT ![p] = pg] \in [Pages -> PageType]
  BY <1>1 DEF HeapType
<1>3. g \in HeapType
  BY <1>1, <1>2 DEF HeapType, Swap
<1>4. g.fs = Record(h.fs, p, FreeSpace(pg))
  BY <1>1, RecordSame DEF Swap
<1>5. pg.next = h.mem[p].next /\ pg.prev = h.mem[p].prev /\ pg.kind = h.mem[p].kind
  BY DEF SameLinks
<1>6. HeapInv(g)
  <2>1. HeapInv(h) /\ p \in Registered(h) /\ pg \in PageType /\ FreeSpace(pg) \in 0..PageSize
    BY <1>1
  <2>2. g.mem = [h.mem EXCEPT ![p] = pg] /\ g.tail = h.tail /\ g.free = h.free
    BY DEF Swap
  <2> QED BY ONLY <1>3, <1>4, <1>5, <2>1, <2>2, ContentsChanged
<1>7. g.mem[p] = pg /\ \A q \in Pages \ {p} : g.mem[q] = h.mem[q]
  BY <1>1 DEF HeapType, Swap
<1> QED BY <1>6, <1>7 DEF Registered, Swap

(* deleteRecord: every other reference survives, and a page changed without *)
(* being marked dirty is the root, left with no used slot.                  *)
LEMMA ErasedHeap ==
  ASSUME NEW h, HeapInv(h), NEW r \in Refs, r[1] \in Registered(h),
         r[2] \in UsedSlots(h.mem[r[1]])
  PROVE  LET g == Erased(h, r)
         IN  /\ HeapInv(g) /\ h.dirty \subseteq g.dirty
             /\ \A s \in Refs \ {r} : Keeps(g, h, s)
             /\ \A q \in Pages \ g.dirty :
                  \/ g.mem[q] = h.mem[q]
                  \/ /\ q = Root /\ UsedSlots(g.mem[q]) = {}
                     /\ SameLinks(g.mem[q], h.mem[q])
<1> DEFINE p  == r[1]
           pg == Removed(h.mem[p], r[2])
           m  == [h EXCEPT !.mem[p] = pg]
           g  == Erased(h, r)
<1>1. /\ h \in HeapType /\ p \in Pages /\ PageInv(h.mem[p]) /\ h.dirty \subseteq Pages
      /\ Registered(h) \subseteq Pages
  BY ChainPages DEF HeapInv, HeapType, Registered
<1>2. /\ PageInv(pg) /\ SameLinks(pg, h.mem[p]) /\ FreeSpace(pg) = FreeSpace(h.mem[p])
      /\ UsedSlots(pg) = UsedSlots(h.mem[p]) \ {r[2]}
      /\ \A j \in UsedSlots(h.mem[p]) \ {r[2]} : pg.slots[j] = h.mem[p].slots[j]
  BY <1>1, PageRemoved DEF SameLinks
<1>3. \A s \in Refs \ {r} : s[1] = p => s[2] # r[2]
  BY DEF Refs
<1>4. /\ HeapInv(m) /\ Registered(m) = Registered(h)
      /\ m.mem[p] = pg /\ \A q \in Pages \ {p} : m.mem[q] = h.mem[q]
      /\ m.fs = h.fs /\ m.dirty = h.dirty /\ m.tail = h.tail /\ m.free = h.free
  <2>1. Swap(m, h, p, pg, h.dirty)
    BY <1>1 DEF HeapType, Swap
  <2>2. /\ HeapInv(h) /\ p \in Registered(h) /\ PageInv(pg)
        /\ SameLinks(pg, h.mem[p]) /\ h.dirty \in SUBSET Pages
    BY <1>1, <1>2
  <2> HIDE DEF m, pg, p
  <2> QED BY ONLY <2>1, <2>2, Swapped
<1>5. \A s \in Refs \ {r} : Keeps(m, h, s)
  <2> SUFFICES ASSUME NEW s \in Refs \ {r} PROVE Keeps(m, h, s)
    OBVIOUS
  <2>1. s[1] \in Pages
    BY DEF Refs
  <2> HIDE DEF m, pg
  <2> QED BY <1>2, <1>3, <1>4, <2>1, KeepsSlot
<1>6. CASE UsedSlots(pg) # {}
  <2>1. g = [m EXCEPT !.fs = Record(@, p, FreeSpace(pg)), !.dirty = @ \cup {p}]
    BY <1>6 DEF Erased
  <2>2. Swap(g, h, p, pg, h.dirty \cup {p})
    <3>1. Record(h.fs, p, FreeSpace(pg)) = h.fs
      BY <1>2, RecordSame
    <3> HIDE DEF g, pg, p
    <3> QED BY <1>1, <2>1, <3>1 DEF HeapType, m, Swap
  <2>3. /\ HeapInv(g) /\ Registered(g) = Registered(h) /\ g.mem[p] = pg
        /\ \A q \in Pages \ {p} : g.mem[q] = h.mem[q]
        /\ g.dirty = h.dirty \cup {p}
    <3>1. /\ HeapInv(h) /\ p \in Registered(h) /\ PageInv(pg)
          /\ SameLinks(pg, h.mem[p]) /\ h.dirty \cup {p} \in SUBSET Pages
      BY <1>1, <1>2
    <3> HIDE DEF g, pg, p
    <3> QED BY ONLY <2>2, <3>1, Swapped
  <2>4. ASSUME NEW s \in Refs \ {r} PROVE Keeps(g, h, s)
    <3>1. s[1] \in Pages
      BY DEF Refs
    <3> HIDE DEF g, pg
    <3> QED BY <1>2, <1>3, <2>3, <3>1, KeepsSlot
  <2> QED BY <2>3, <2>4
<1>7. CASE UsedSlots(pg) = {} /\ p = Root
  <2>1. g = m
    BY <1>7 DEF Erased
  <2>2. \A q \in Pages \ g.dirty :
          \/ g.mem[q] = h.mem[q]
          \/ q = Root /\ UsedSlots(g.mem[q]) = {} /\ SameLinks(g.mem[q], h.mem[q])
    <3> HIDE DEF g, m, pg, p
    <3> QED BY <1>2, <1>4, <1>7, <2>1
  <2> HIDE DEF m, pg, p
  <2> QED BY <1>4, <1>5, <2>1, <2>2
<1>8. CASE UsedSlots(pg) = {} /\ p # Root
  <2>1. g = Unlinked(m, p)
    BY <1>8 DEF Erased
  <2>2. HeapInv(g) /\ Registered(g) = Registered(h) \ {p}
    <3> HIDE DEF g, m
    <3> QED BY <1>4, <1>8, <2>1, UnlinkedHeap
  <2>3. /\ m.dirty \subseteq g.dirty
        /\ \A q \in Pages \ g.dirty : g.mem[q] = m.mem[q]
        /\ p \in g.dirty
    <3> HIDE DEF m
    <3>1. p \in Pages /\ NoPage \notin Pages
      BY <1>1, StoreAssumption
    <3> QED BY <2>1, <3>1 DEF Unlinked, Bypassed
  <2>4. ASSUME NEW s \in Refs \ {r} PROVE Keeps(g, h, s)
    <3> HIDE DEF m, pg
    <3>1. s[1] \in Pages
      BY DEF Refs
    <3>2. \A q \in Pages \ {p} : g.mem[q].slots = m.mem[q].slots
      <4> SUFFICES ASSUME NEW q \in Pages \ {p} PROVE g.mem[q].slots = m.mem[q].slots
        OBVIOUS
      <4>1. m.mem[q] \in PageType
        BY <1>4 DEF HeapInv, HeapType
      <4>2. g.mem[q] \in {m.mem[q], [m.mem[q] EXCEPT !.next = m.mem[p].next],
                          [m.mem[q] EXCEPT !.prev = m.mem[p].prev]}
        BY <2>1 DEF Unlinked, Bypassed
      <4> HIDE DEF g
      <4> QED BY <4>1, <4>2 DEF PageType
    <3>3. s[1] = p => s[2] \notin UsedSlots(h.mem[p])
      BY <1>2, <1>3, <1>8
    <3>4. s[1] \in Registered(h) => s[1] \in Registered(g) \/ s[1] = p
      BY <2>2
    <3>5. s[1] \in Registered(h) /\ s[1] # p =>
            g.mem[s[1]].slots = h.mem[s[1]].slots
      BY <1>4, <3>1, <3>2
    <3> HIDE DEF g, p
    <3> QED BY <3>3, <3>4, <3>5 DEF Keeps, Resolves, SlotOf, UsedSlots
  <2>5. \A q \in Pages \ g.dirty : g.mem[q] = h.mem[q]
    BY <1>4, <2>3
  <2> QED BY <1>4, <2>2, <2>3, <2>4, <2>5
<1> QED BY <1>6, <1>7, <1>8

\* updateRecord in place: the reference leads to the new contents, others stay.
LEMMA RewrittenHeap ==
  ASSUME NEW h, HeapInv(h), NEW r \in Refs, r[1] \in Registered(h),
         r[2] \in UsedSlots(h.mem[r[1]]), NEW k \in Keys, NEW size \in Nat
  PROVE  LET g == Rewritten(h, r, k, size)
         IN  /\ HeapInv(g) /\ h.dirty \subseteq g.dirty /\ Resolves(g, r, k, size)
             /\ \A s \in Refs \ {r} : Keeps(g, h, s)
             /\ \A q \in Pages \ g.dirty : g.mem[q] = h.mem[q]
<1> DEFINE p  == r[1]
           pg == Overwritten(h.mem[p], r[2], k, size)
           g  == Rewritten(h, r, k, size)
<1>1. h \in HeapType /\ p \in Pages /\ PageInv(h.mem[p]) /\ h.dirty \subseteq Pages
  BY ChainPages DEF HeapInv, HeapType
<1>2. /\ PageInv(pg) /\ FreeSpace(pg) = FreeSpace(h.mem[p])
      /\ pg.next = h.mem[p].next /\ pg.prev = h.mem[p].prev /\ pg.kind = h.mem[p].kind
      /\ UsedSlots(pg) = UsedSlots(h.mem[p])
      /\ pg.slots[r[2]].rec = k /\ pg.slots[r[2]].size = size
      /\ \A j \in UsedSlots(h.mem[p]) \ {r[2]} : pg.slots[j] = h.mem[p].slots[j]
  BY <1>1, PageOverwritten
<1>3. SameLinks(pg, h.mem[p])
  <2>1. pg.lower = h.mem[p].lower /\ pg.upper = h.mem[p].upper
    BY <1>1 DEF Overwritten, PageInv, PageType
  <2> HIDE DEF pg
  <2> QED BY <1>2, <2>1 DEF SameLinks
<1>4. Swap(g, h, p, pg, h.dirty \cup {p})
  <2>1. Record(h.fs, p, FreeSpace(pg)) = h.fs
    BY <1>2, RecordSame
  <2>2. g = [h EXCEPT !.mem[p] = pg, !.fs = Record(@, p, FreeSpace(pg)),
                      !.dirty = @ \cup {p}]
    BY DEF Rewritten
  <2> HIDE DEF g, pg, p
  <2> QED BY <1>1, <2>1, <2>2 DEF HeapType, Swap
<1>5. /\ HeapInv(g) /\ Registered(g) = Registered(h) /\ g.mem[p] = pg
      /\ \A q \in Pages \ {p} : g.mem[q] = h.mem[q]
      /\ g.dirty = h.dirty \cup {p}
  <2>1. /\ HeapInv(h) /\ p \in Registered(h) /\ PageInv(pg)
        /\ SameLinks(pg, h.mem[p]) /\ h.dirty \cup {p} \in SUBSET Pages
    BY <1>1, <1>2, <1>3
  <2> HIDE DEF g, pg, p
  <2> QED BY ONLY <1>4, <2>1, Swapped
<1>6. Resolves(g, r, k, size)
  <2> HIDE DEF g, pg
  <2> QED BY <1>2, <1>5 DEF Resolves, SlotOf
<1>7. ASSUME NEW s \in Refs \ {r} PROVE Keeps(g, h, s)
  <2>1. s[1] \in Pages /\ (s[1] = p => s[2] # r[2])
    BY DEF Refs
  <2> HIDE DEF g, pg
  <2> QED BY <1>2, <1>5, <2>1, KeepsSlot
<1> QED BY <1>5, <1>6, <1>7

-----------------------------------------------------------------------------
(* The inductive invariant.                                                 *)

\* A clean page equals its copy in the file; the root may have lost its slots.
DiskInv(h, d) ==
  \A p \in Pages \ h.dirty :
    \/ h.mem[p] = d[p]
    \/ p = Root /\ UsedSlots(h.mem[p]) = {} /\ SameLinks(h.mem[p], d[p])

IInv ==
  /\ TypeOK /\ HeapInv(heap) /\ DiskInv(heap, disk) /\ IndexResolves
  /\ phase # "changed" => heap.dirty = {}

\* The walk of loadFreeSpaceMap over pages linked as the heap's rebuilds its tables.
LEMMA LoadedHeapInv ==
  ASSUME NEW h, HeapInv(h), NEW d \in [Pages -> PageType],
         \A p \in Pages : SameLinks(h.mem[p], d[p])
  PROVE  HeapInv(LoadedHeap(d)) /\ Registered(LoadedHeap(d)) = Reach(d, Root)
<1> DEFINE g == LoadedHeap(d)
<1>1. Reach(d, Root) = Registered(h) /\ Registered(h) \subseteq Pages /\ Root \in Pages
  <2>1. \A q \in Pages : h.mem[q].next = d[q].next
    BY DEF SameLinks
  <2>2. Reach(h.mem, Root) = Reach(d, Root)
    BY <2>1, StoreAssumption, ReachSame
  <2> QED BY <2>2, StoreAssumption, ChainPages DEF HeapInv, SpaceExact
<1>2. g.tail = h.tail
  <2>1. h.tail \in Reach(d, Root) /\ d[h.tail].next = NoPage
    BY <1>1 DEF HeapInv, Chained, SameLinks
  <2>2. \A q \in Reach(d, Root) : d[q].next = NoPage => q = h.tail
    BY <1>1 DEF HeapInv, Chained, SameLinks
  <2> QED BY <2>1, <2>2 DEF LoadedHeap
<1>3. /\ g.mem = d /\ g.dirty = {} /\ g.free = Pages \ Registered(h)
      /\ g.fs = [q \in Registered(h) |-> FreeSpace(d[q])]
      /\ g = [mem |-> g.mem, dirty |-> g.dirty, tail |-> g.tail, fs |-> g.fs,
             free |-> g.free]
      /\ Registered(g) = Registered(h)
  BY <1>1 DEF LoadedHeap, Registered
<1> HIDE DEF g
<1>4. g.fs \in [Registered(h) -> 0..PageSize]
  <2>1. ASSUME NEW q \in Registered(h) PROVE FreeSpace(d[q]) \in 0..PageSize
    <3>1. FreeSpace(d[q]) = FreeSpace(h.mem[q])
      BY <1>1 DEF SameLinks, FreeSpace
    <3>2. h.fs[q] \in 0..PageSize /\ h.fs[q] = FreeSpace(h.mem[q])
      BY ChainPages DEF HeapInv, HeapType, Registered
    <3> QED BY <3>1, <3>2
  <2> QED BY <1>3, <2>1
<1>5. g \in HeapType
  <2>1. h.tail \in Pages
    BY <1>1 DEF HeapInv, Chained
  <2>2. g.fs \in FsType
    BY <1>1, <1>4 DEF FsType
  <2> QED BY <1>2, <1>3, <2>1, <2>2 DEF HeapType, FsType
<1>6. SpaceExact(g)
  BY <1>1, <1>3 DEF SpaceExact
<1>7. Chained(g)
  BY <1>1, <1>2, <1>3 DEF Chained, HeapInv, SameLinks
<1> QED BY <1>1, <1>3, <1>5, <1>6, <1>7 DEF HeapInv, g

LEMMA InitInv == Init => IInv
<1> SUFFICES ASSUME Init PROVE IInv
  OBVIOUS
<1> DEFINE h == [mem |-> disk, dirty |-> {}, tail |-> Root,
                 fs |-> [q \in {Root} |-> FreeSpace(NewPage)], free |-> Pages \ {Root}]
<1>1. /\ disk \in [Pages -> PageType] /\ disk[Root] = NewPage
      /\ Root \in Pages /\ NoPage \notin Pages
  BY NewPageType, FreedPageType, StoreAssumption DEF Init
<1>2. NewPage.next = NoPage /\ NewPage.prev = NoPage /\ NewPage.kind = "slotted"
      /\ FreeSpace(NewPage) \in 0..PageSize
  BY GeometryAssumption DEF NewPage, FreeSpace
<1>3. Reach(disk, Root) = {Root}
  <2>1. Root \in Pages /\ {Root} \in SUBSET Pages /\ Root \in {Root}
        /\ \A r \in {Root} : disk[r].next # NoPage => disk[r].next \in {Root}
    BY <1>1, <1>2
  <2>2. Reach(disk, Root) \subseteq {Root}
    BY ONLY <2>1, ReachLeast
  <2>3. Root \in Reach(disk, Root)
    BY ONLY <2>1, ReachClosed
  <2> QED BY <2>2, <2>3
<1>4. HeapInv(h)
  <2>1. h.fs \in FsType
    <3>1. [q \in {Root} |-> FreeSpace(NewPage)] \in [{Root} -> 0..PageSize]
      BY <1>2
    <3> QED BY <1>1, <3>1 DEF FsType
  <2>2. h \in HeapType
    <3>1. h.mem \in [Pages -> PageType] /\ h.tail \in Pages
      BY <1>1
    <3> QED BY <2>1, <3>1 DEF HeapType, FsType
  <2>3. SpaceExact(h)
    BY <1>1, <1>3 DEF SpaceExact, Registered
  <2>4. Chained(h)
    BY <1>1, <1>2 DEF Chained, Registered
  <2> QED BY <2>2, <2>3, <2>4 DEF HeapInv
<1>5. HeapInv(heap)
  <2>1. \A p \in Pages : SameLinks(h.mem[p], disk[p])
    BY DEF SameLinks
  <2> HIDE DEF h
  <2> QED BY <1>1, <1>4, <2>1, LoadedHeapInv DEF Init
<1>6. heap.mem = disk /\ heap.dirty = {}
  <2>1. heap = LoadedHeap(disk)
    BY DEF Init
  <2> HIDE DEF h
  <2> QED BY <2>1 DEF LoadedHeap
<1>7. TypeOK
  <2>1. /\ index = [k \in Keys |-> NoRef] /\ store = [k \in Keys |-> 0]
        /\ phase = "ready" /\ tainted = FALSE
    BY DEF Init
  <2>2. heap \in HeapType
    BY <1>5 DEF HeapInv
  <2> HIDE DEF h
  <2> QED BY <1>1, <2>1, <2>2 DEF TypeOK
<1>8. DiskInv(heap, disk)
  BY <1>6 DEF DiskInv
<1>9. IndexResolves /\ phase = "ready"
  BY DEF IndexResolves, Init
<1> QED BY <1>5, <1>6, <1>7, <1>8, <1>9 DEF IInv

\* insertRecord keeps the heap and its relation to the file.
LEMMA PutKeeps ==
  ASSUME NEW h, HeapInv(h), NEW d, DiskInv(h, d), NEW size \in Sizes, NEW k \in Keys,
         NEW p \in Candidates(h, size), CanPlace(h, p, size), ~ Overruns(h, p, size)
  PROVE  LET g == Placed(h, p, k, size)
             r == <<p, TargetSlot(WithPage(h, p).mem[p])>>
         IN  /\ HeapInv(g) /\ DiskInv(g, d) /\ r \in Refs /\ Resolves(g, r, k, size)
             /\ \A s \in Refs : Keeps(g, h, s)
<1> DEFINE g == Placed(h, p, k, size)
           r == <<p, TargetSlot(WithPage(h, p).mem[p])>>
<1>1. /\ HeapInv(g) /\ r \in Refs /\ Resolves(g, r, k, size)
      /\ h.dirty \subseteq g.dirty
      /\ \A q \in Pages \ g.dirty : g.mem[q] = h.mem[q]
      /\ \A s \in Refs : Keeps(g, h, s)
  BY PlacedHeap
<1> HIDE DEF g, r
<1>2. DiskInv(g, d)
  BY <1>1 DEF DiskInv
<1> QED BY <1>1, <1>2 DEF g, r

\* So does deleteRecord.
LEMMA EraseKeeps ==
  ASSUME NEW h, HeapInv(h), NEW d, DiskInv(h, d), NEW r \in Refs,
         r[1] \in Registered(h), r[2] \in UsedSlots(h.mem[r[1]])
  PROVE  LET g == Erased(h, r)
         IN  HeapInv(g) /\ DiskInv(g, d) /\ \A s \in Refs \ {r} : Keeps(g, h, s)
<1> DEFINE g == Erased(h, r)
<1>1. /\ HeapInv(g) /\ h.dirty \subseteq g.dirty
      /\ \A s \in Refs \ {r} : Keeps(g, h, s)
      /\ \A q \in Pages \ g.dirty :
           \/ g.mem[q] = h.mem[q]
           \/ q = Root /\ UsedSlots(g.mem[q]) = {} /\ SameLinks(g.mem[q], h.mem[q])
  BY ErasedHeap
<1> HIDE DEF g
<1>2. DiskInv(g, d)
  BY <1>1 DEF DiskInv, SameLinks
<1> QED BY <1>1, <1>2 DEF g

\* Every key's reference in ix leads to its record, of the length st gives.
IndexInv(h, ix, st, K) == \A j \in K : ix[j] # NoRef => Resolves(h, ix[j], j, st[j])

\* References survive a change of the heap that keeps their records.
LEMMA IndexKept ==
  ASSUME NEW g, NEW h, NEW ix \in [Keys -> Refs \cup {NoRef}], NEW st \in [Keys -> Nat],
         NEW K \in SUBSET Keys, IndexInv(h, ix, st, K),
         \A j \in K : ix[j] # NoRef => Keeps(g, h, ix[j])
  PROVE  IndexInv(g, ix, st, K)
  BY DEF IndexInv, Keeps

\* Key k is given reference r and length n.
LEMMA IndexSet ==
  ASSUME NEW g, NEW ix \in [Keys -> Refs \cup {NoRef}], NEW st \in [Keys -> Nat],
         NEW k \in Keys, NEW r, NEW n, Resolves(g, r, k, n) \/ r = NoRef,
         IndexInv(g, ix, st, Keys \ {k})
  PROVE  IndexInv(g, [ix EXCEPT ![k] = r], [st EXCEPT ![k] = n], Keys)
  BY DEF IndexInv

\* Two keys never share a reference.
LEMMA DistinctRefs ==
  ASSUME NEW h, NEW ix, NEW st, IndexInv(h, ix, st, Keys), NEW j \in Keys, NEW k \in Keys,
         j # k, ix[j] # NoRef, ix[k] # NoRef
  PROVE  ix[j] # ix[k]
  BY DEF IndexInv, Resolves

\* The facts of the invariant about an indexed key.
LEMMA Indexed ==
  ASSUME IInv, NEW k \in Keys, index[k] # NoRef
  PROVE  /\ index[k] \in Refs /\ index[k][1] \in Registered(heap)
         /\ index[k][2] \in UsedSlots(heap.mem[index[k][1]])
         /\ \A j \in Keys \ {k} : index[j] # NoRef => index[j] \in Refs \ {index[k]}
<1>1. index \in [Keys -> Refs \cup {NoRef}] /\ IndexInv(heap, index, store, Keys)
  BY DEF IInv, TypeOK, IndexResolves, IndexInv
<1>2. Resolves(heap, index[k], k, store[k]) /\ index[k] \in Refs
  BY <1>1 DEF IndexInv
<1>3. \A j \in Keys \ {k} : index[j] # NoRef => index[j] \in Refs \ {index[k]}
  BY <1>1, DistinctRefs
<1> QED BY <1>2, <1>3 DEF Resolves

-----------------------------------------------------------------------------
(* Every step keeps the invariant.                                          *)

LEMMA PutStep ==
  ASSUME NEW STATE h, HeapInv(h), DiskInv(h, disk), TypeOK,
         NEW k \in Keys, NEW size \in Sizes, IndexInv(h, index, store, Keys \ {k}),
         Put(h, k, size)
  PROVE  IInv'
<1> USE DEF Put
<1>1. PICK p \in Candidates(h, size) :
        /\ CanPlace(h, p, size) /\ ~ Overruns(h, p, size)
        /\ heap'  = Placed(h, p, k, size)
        /\ index' = [index EXCEPT ![k] = <<p, TargetSlot(WithPage(h, p).mem[p])>>]
  OBVIOUS
<1> DEFINE r == <<p, TargetSlot(WithPage(h, p).mem[p])>>
<1>2. /\ HeapInv(heap') /\ DiskInv(heap', disk) /\ r \in Refs
      /\ Resolves(heap', r, k, size) /\ \A s \in Refs : Keeps(heap', h, s)
  BY <1>1, PutKeeps
<1>3. /\ index' = [index EXCEPT ![k] = r] /\ store' = [store EXCEPT ![k] = size]
      /\ phase' = "changed" /\ disk' = disk /\ tainted' = tainted
  BY <1>1
<1> HIDE DEF r, Put
<1>4. index \in [Keys -> Refs \cup {NoRef}] /\ store \in [Keys -> Nat] /\ size \in Nat
  BY StoreAssumption DEF TypeOK
<1>5. IndexInv(heap', index, store, Keys \ {k})
  BY <1>2, <1>4, IndexKept
<1>6. IndexInv(heap', index', store', Keys)
  BY <1>2, <1>3, <1>4, <1>5, IndexSet
<1>7. TypeOK'
  BY <1>2, <1>3, <1>4 DEF TypeOK, HeapInv
<1> QED BY <1>2, <1>3, <1>6, <1>7 DEF IInv, IndexResolves, IndexInv

\* The program ended by an exception or by a copy past a page changes nothing but
\* the phase.
LEMMA PageFullStep ==
  ASSUME IInv, phase = "ready", NEW STATE h, NEW size \in Sizes,
         PageFull(h, size) \/ Overrun(h, size)
  PROVE  IInv'
<1>1. heap' = heap /\ disk' = disk /\ index' = index /\ store' = store
      /\ tainted' = tainted /\ phase' \in {"aborted", "overrun"}
  BY DEF PageFull, Overrun
<1>2. TypeOK'
  BY <1>1 DEF IInv, TypeOK
<1>3. IndexResolves'
  BY <1>1 DEF IInv, IndexResolves
<1> QED BY <1>1, <1>2, <1>3 DEF IInv

LEMMA InsertStep ==
  ASSUME IInv, NEW k \in Keys, NEW size \in Sizes, Insert(k, size)
  PROVE  IInv'
<1>1. IndexInv(heap, index, store, Keys \ {k})
  BY DEF IInv, IndexResolves, IndexInv
<1>2. CASE Put(heap, k, size)
  BY <1>1, <1>2, PutStep DEF IInv
<1>3. CASE PageFull(heap, size) \/ Overrun(heap, size)
  BY <1>3, PageFullStep DEF Insert
<1> QED BY <1>2, <1>3 DEF Insert

LEMMA RelocateStep ==
  ASSUME IInv, NEW k \in Keys, NEW size \in Sizes, Relocate(k, size)
  PROVE  IInv'
<1> DEFINE h == Erased(heap, index[k])
<1>1. index[k] # NoRef /\ phase = "ready"
  BY DEF Relocate
<1>2. /\ HeapInv(h) /\ DiskInv(h, disk)
      /\ \A s \in Refs \ {index[k]} : Keeps(h, heap, s)
  BY <1>1, Indexed, EraseKeeps DEF IInv
<1>3. IndexInv(h, index, store, Keys \ {k})
  <2>1. IndexInv(heap, index, store, Keys \ {k})
    BY DEF IInv, IndexResolves, IndexInv
  <2>2. \A j \in Keys \ {k} : index[j] # NoRef => Keeps(h, heap, index[j])
    BY <1>1, <1>2, Indexed
  <2> HIDE DEF h
  <2> QED BY <2>1, <2>2, IndexKept DEF IInv, TypeOK
<1>4. Put(h, k, size) \/ PageFull(h, size) \/ Overrun(h, size)
  BY DEF Relocate
<1> HIDE DEF h
<1>5. CASE Put(h, k, size)
  BY <1>2, <1>3, <1>5, PutStep DEF IInv
<1>6. CASE PageFull(h, size) \/ Overrun(h, size)
  BY <1>1, <1>6, PageFullStep
<1> QED BY <1>4, <1>5, <1>6

LEMMA DeleteStep ==
  ASSUME IInv, NEW k \in Keys, Delete(k)
  PROVE  IInv'
<1>1. /\ index[k] # NoRef /\ heap' = Erased(heap, index[k])
      /\ index' = [index EXCEPT ![k] = NoRef] /\ store' = [store EXCEPT ![k] = 0]
      /\ phase' = "changed" /\ disk' = disk /\ tainted' = tainted
  BY DEF Delete
<1>2. /\ HeapInv(heap') /\ DiskInv(heap', disk)
      /\ \A s \in Refs \ {index[k]} : Keeps(heap', heap, s)
  BY <1>1, Indexed, EraseKeeps DEF IInv
<1>3. index \in [Keys -> Refs \cup {NoRef}] /\ store \in [Keys -> Nat]
  BY DEF IInv, TypeOK
<1>4. IndexInv(heap', index, store, Keys \ {k})
  <2>1. IndexInv(heap, index, store, Keys \ {k})
    BY DEF IInv, IndexResolves, IndexInv
  <2>2. \A j \in Keys \ {k} : index[j] # NoRef => Keeps(heap', heap, index[j])
    BY <1>1, <1>2, Indexed
  <2> QED BY <1>3, <2>1, <2>2, IndexKept
<1>5. IndexInv(heap', index', store', Keys)
  BY <1>1, <1>3, <1>4, IndexSet
<1>6. TypeOK'
  BY <1>1, <1>2, <1>3 DEF IInv, TypeOK, HeapInv
<1> QED BY <1>1, <1>2, <1>5, <1>6 DEF IInv, IndexResolves, IndexInv

LEMMA UpdateStep ==
  ASSUME IInv, NEW k \in Keys, NEW size \in Sizes, UpdateInPlace(k, size)
  PROVE  IInv'
<1>1. /\ index[k] # NoRef /\ heap' = Rewritten(heap, index[k], k, size)
      /\ store' = [store EXCEPT ![k] = size] /\ phase' = "changed"
      /\ disk' = disk /\ index' = index /\ tainted' = tainted /\ size \in Nat
  BY StoreAssumption DEF UpdateInPlace
<1>2. /\ HeapInv(heap') /\ heap.dirty \subseteq heap'.dirty
      /\ Resolves(heap', index[k], k, size)
      /\ \A s \in Refs \ {index[k]} : Keeps(heap', heap, s)
      /\ \A q \in Pages \ heap'.dirty : heap'.mem[q] = heap.mem[q]
  BY <1>1, Indexed, RewrittenHeap DEF IInv
<1>3. DiskInv(heap', disk')
  BY <1>1, <1>2 DEF IInv, DiskInv
<1>4. index \in [Keys -> Refs \cup {NoRef}] /\ store \in [Keys -> Nat]
  BY DEF IInv, TypeOK
<1>5. IndexInv(heap', index, store, Keys \ {k})
  <2>1. IndexInv(heap, index, store, Keys \ {k})
    BY DEF IInv, IndexResolves, IndexInv
  <2>2. \A j \in Keys \ {k} : index[j] # NoRef => Keeps(heap', heap, index[j])
    BY <1>1, <1>2, Indexed
  <2> QED BY <1>4, <2>1, <2>2, IndexKept
<1>6. IndexInv(heap', index', store', Keys)
  BY <1>1, <1>2, <1>4, <1>5 DEF IndexInv
<1>7. TypeOK'
  BY <1>1, <1>2, <1>4 DEF IInv, TypeOK, HeapInv
<1> QED BY <1>1, <1>2, <1>3, <1>6, <1>7 DEF IInv, IndexResolves, IndexInv

\* What is dirty plays no part in the manager's own tables.
LEMMA DirtyOnly ==
  ASSUME NEW h, HeapInv(h), NEW d \in SUBSET Pages, NEW g, g = [h EXCEPT !.dirty = d]
  PROVE  /\ HeapInv(g) /\ g.mem = h.mem /\ g.dirty = d
         /\ \A r, k, n : Resolves(h, r, k, n) => Resolves(g, r, k, n)
<1>1. /\ h \in HeapType /\ g \in HeapType /\ g.mem = h.mem /\ g.fs = h.fs
      /\ g.tail = h.tail /\ g.free = h.free /\ g.dirty = d
  BY DEF HeapInv, HeapType
<1>2. HeapInv(g)
  BY <1>1 DEF HeapInv, Chained, SpaceExact, Registered
<1>3. \A r, k, n : Resolves(h, r, k, n) => Resolves(g, r, k, n)
  BY <1>1 DEF Resolves, SlotOf, Registered
<1> QED BY <1>1, <1>2, <1>3

LEMMA CommitStep ==
  ASSUME IInv, Commit
  PROVE  IInv'
<1>1. /\ heap' = [heap EXCEPT !.dirty = {}] /\ phase' = "ready"
      /\ disk' = [p \in Pages |-> IF p \in heap.dirty THEN heap.mem[p] ELSE disk[p]]
      /\ index' = index /\ store' = store /\ tainted' = tainted
  BY DEF Commit
<1>2. /\ HeapInv(heap') /\ heap'.mem = heap.mem /\ heap'.dirty = {}
      /\ \A r, k, n : Resolves(heap, r, k, n) => Resolves(heap', r, k, n)
  BY <1>1, DirtyOnly DEF IInv
<1>3. disk' \in [Pages -> PageType]
  BY <1>1 DEF IInv, TypeOK, HeapType
<1>4. DiskInv(heap', disk')
  BY <1>1, <1>2 DEF IInv, DiskInv
<1>5. TypeOK'
  BY <1>1, <1>2, <1>3 DEF IInv, TypeOK, HeapInv
<1>6. IndexResolves'
  BY <1>1, <1>2 DEF IInv, IndexResolves
<1> QED BY <1>2, <1>4, <1>5, <1>6 DEF IInv

\* A dirty page is written before it leaves the cache.
LEMMA EvictDirtyStep ==
  ASSUME IInv, NEW p \in Pages, p \in heap.dirty,
         disk' = [disk EXCEPT ![p] = heap.mem[p]],
         heap' = [heap EXCEPT !.dirty = @ \ {p}],
         UNCHANGED <<index, phase, store, tainted>>
  PROVE  IInv'
<1>1. /\ HeapInv(heap') /\ heap'.mem = heap.mem /\ heap'.dirty = heap.dirty \ {p}
      /\ \A r, k, n : Resolves(heap, r, k, n) => Resolves(heap', r, k, n)
  <2>1. heap.dirty \ {p} \in SUBSET Pages /\ heap' = [heap EXCEPT !.dirty = heap.dirty \ {p}]
    BY DEF IInv, HeapInv, HeapType
  <2> QED BY <2>1, DirtyOnly DEF IInv
<1>2. disk' \in [Pages -> PageType] /\ disk'[p] = heap.mem[p]
      /\ \A q \in Pages \ {p} : disk'[q] = disk[q]
  BY DEF IInv, TypeOK, HeapType
<1>3. DiskInv(heap', disk')
  BY <1>1, <1>2 DEF IInv, DiskInv
<1>4. TypeOK'
  BY <1>1, <1>2 DEF IInv, TypeOK, HeapInv
<1>5. IndexResolves'
  BY <1>1 DEF IInv, IndexResolves
<1> QED BY <1>1, <1>3, <1>4, <1>5 DEF IInv

(* A clean page that differs from the file is the emptied root: reading it  *)
(* back brings old slots, to which no reference leads.                      *)
LEMMA EvictCleanStep ==
  ASSUME IInv, NEW p \in Pages, p \notin heap.dirty, heap.mem[p] # disk[p],
         heap' = [heap EXCEPT !.mem[p] = disk[p]],
         UNCHANGED <<disk, index, phase, store>>, tainted' \in BOOLEAN
  PROVE  IInv'
<1>1. p = Root /\ UsedSlots(heap.mem[p]) = {} /\ SameLinks(heap.mem[p], disk[p])
  BY DEF IInv, DiskInv
<1>2. p \in Registered(heap) /\ heap.dirty \in SUBSET Pages /\ HeapInv(heap)
  BY <1>1 DEF IInv, HeapInv, Chained, HeapType
<1>3. PageInv(disk[p]) /\ SameLinks(disk[p], heap.mem[p])
  <2>1. PageInv(heap.mem[p]) /\ disk[p] \in PageType
    BY <1>2, ChainPages DEF IInv, TypeOK
  <2> QED BY <1>1, <2>1 DEF PageInv, SameLinks
<1>4. Swap(heap', heap, p, disk[p], heap.dirty)
  BY <1>2 DEF Swap, HeapInv, HeapType
<1>5. /\ HeapInv(heap') /\ Registered(heap') = Registered(heap)
      /\ heap'.mem[p] = disk[p] /\ \A q \in Pages \ {p} : heap'.mem[q] = heap.mem[q]
      /\ heap'.dirty = heap.dirty
  BY ONLY <1>2, <1>3, <1>4, Swapped
<1>6. DiskInv(heap', disk')
  BY <1>5 DEF IInv, DiskInv
<1>7. \A s \in Refs : Keeps(heap', heap, s)
  BY <1>1, <1>5, KeepsSlot DEF Refs
<1>8. index \in [Keys -> Refs \cup {NoRef}] /\ store \in [Keys -> Nat]
      /\ IndexInv(heap, index, store, Keys)
  BY DEF IInv, TypeOK, IndexResolves, IndexInv
<1>9. IndexInv(heap', index, store, Keys)
  BY <1>7, <1>8, IndexKept
<1>10. TypeOK'
  BY <1>5 DEF IInv, TypeOK, HeapInv
<1> QED BY <1>5, <1>6, <1>9, <1>10 DEF IInv, IndexResolves, IndexInv

LEMMA EvictStep ==
  ASSUME IInv, NEW p \in Pages, Evict(p)
  PROVE  IInv'
<1>1. CASE p \in heap.dirty
  BY <1>1, EvictDirtyStep DEF Evict
<1>2. CASE p \notin heap.dirty
  <2>1. tainted' \in BOOLEAN
    BY <1>2 DEF Evict, IInv, TypeOK
  <2> QED BY <1>2, <2>1, EvictCleanStep DEF Evict
<1> QED BY <1>1, <1>2

(* A file that differs from memory in old slots of the root only is linked  *)
(* as memory is, so its tables are the ones memory had.                     *)
LEMMA ReopenStep ==
  ASSUME IInv, Reopen
  PROVE  IInv'
<1>1. PICK refs \in [Keys -> UNION {LoadedRefs(disk, k) : k \in Keys}] :
        /\ \A k \in Keys : refs[k] \in LoadedRefs(disk, k)
        /\ index' = refs
        /\ store' = [k \in Keys |-> SizeAt(disk, refs[k])]
  BY DEF Reopen
<1>2. /\ heap' = LoadedHeap(disk) /\ disk' = disk /\ phase' = "ready"
      /\ heap.dirty = {} /\ tainted' \in BOOLEAN
  BY DEF Reopen, IInv, TypeOK, Emptied
<1>3. HeapInv(heap) /\ disk \in [Pages -> PageType]
      /\ \A p \in Pages : SameLinks(heap.mem[p], disk[p])
  BY <1>2 DEF IInv, TypeOK, DiskInv, SameLinks
<1>4. /\ HeapInv(heap') /\ Registered(heap') = Reach(disk, Root)
      /\ heap'.mem = disk /\ heap'.dirty = {}
  <2>1. HeapInv(LoadedHeap(disk)) /\ Registered(LoadedHeap(disk)) = Reach(disk, Root)
    BY <1>3, LoadedHeapInv
  <2> QED BY <1>2, <2>1 DEF LoadedHeap
<1>5. ASSUME NEW k \in Keys, refs[k] # NoRef
      PROVE  /\ refs[k][1] \in Reach(disk, Root) /\ refs[k] \in Refs
             /\ refs[k][2] \in UsedSlots(disk[refs[k][1]])
             /\ disk[refs[k][1]].slots[refs[k][2]].rec = k
             /\ store'[k] = disk[refs[k][1]].slots[refs[k][2]].size
             /\ store'[k] \in Nat
  <2>1. refs[k] \in StoredAt(disk, k)
    BY <1>1, <1>5 DEF LoadedRefs
  <2>2. PICK p \in Reach(disk, Root) : refs[k] \in {p} \X UsedSlots(disk[p])
    BY <2>1 DEF StoredAt
  <2>3. p \in Pages /\ disk[p].slots \in Seq(Slot)
    BY <1>3, <2>2, StoreAssumption, ReachClosed DEF PageType
  <2>4. refs[k][1] = p /\ refs[k][2] \in UsedSlots(disk[p])
        /\ refs[k] = <<refs[k][1], refs[k][2]>>
    BY <2>2
  <2>5. refs[k][2] \in Nat \ {0} /\ disk[p].slots[refs[k][2]] \in Slot
    BY <2>3, <2>4 DEF UsedSlots
  <2>6. disk[p].slots[refs[k][2]].rec = k
    BY <2>1, <2>4 DEF StoredAt
  <2>7. store'[k] = disk[p].slots[refs[k][2]].size
    BY <1>1, <1>5, <2>4 DEF SizeAt
  <2>8. disk[p].slots[refs[k][2]].size \in Nat
    BY <2>5 DEF Slot
  <2> QED BY <2>2, <2>3, <2>4, <2>5, <2>6, <2>7, <2>8 DEF Refs
<1>6. index' \in [Keys -> Refs \cup {NoRef}]
  BY <1>1, <1>5
<1>7. store' \in [Keys -> Nat]
  <2>1. \A k \in Keys : refs[k] = NoRef => store'[k] = 0
    BY <1>1 DEF SizeAt
  <2> QED BY <1>1, <1>5, <2>1
<1>8. TypeOK'
  BY <1>2, <1>3, <1>4, <1>6, <1>7 DEF TypeOK, HeapInv
<1>9. IndexResolves'
  BY <1>1, <1>4, <1>5 DEF IndexResolves, Resolves, SlotOf
<1>10. DiskInv(heap', disk')
  BY <1>2, <1>4 DEF DiskInv
<1> QED BY <1>2, <1>4, <1>8, <1>9, <1>10 DEF IInv

-----------------------------------------------------------------------------
(* The inductive invariant holds in every reachable state.                  *)
THEOREM Invariance == Spec => []IInv
<1>1. ASSUME IInv, [Next]_vars PROVE IInv'
  <2>1. ASSUME NEW k \in Keys, NEW size \in Sizes, Insert(k, size) PROVE IInv'
    BY <1>1, <2>1, InsertStep
  <2>2. ASSUME NEW k \in Keys, NEW size \in Sizes, UpdateInPlace(k, size) PROVE IInv'
    BY <1>1, <2>2, UpdateStep
  <2>3. ASSUME NEW k \in Keys, NEW size \in Sizes, Relocate(k, size) PROVE IInv'
    BY <1>1, <2>3, RelocateStep
  <2>4. ASSUME NEW k \in Keys, Delete(k) PROVE IInv'
    BY <1>1, <2>4, DeleteStep
  <2>5. ASSUME NEW p \in Pages, Evict(p) PROVE IInv'
    BY <1>1, <2>5, EvictStep
  <2>6. CASE Commit
    BY <1>1, <2>6, CommitStep
  <2>7. CASE Reopen
    BY <1>1, <2>7, ReopenStep
  <2>8. CASE UNCHANGED vars
    BY <1>1, <2>8 DEF vars, IInv, TypeOK, IndexResolves
  <2> QED BY <1>1, <2>1, <2>2, <2>3, <2>4, <2>5, <2>6, <2>7, <2>8 DEF Next
<1> QED BY <1>1, InitInv, PTL DEF Spec

(* Type correctness: the page boundaries stay in the page and the tables    *)
(* name pages of the file.                                                  *)
THEOREM TypeCorrect == Spec => []TypeOK
<1>1. IInv => TypeOK
  BY DEF IInv
<1> QED BY <1>1, Invariance, PTL

\* The free-space map holds exactly the chain's pages, each with its space.
THEOREM SpaceCorrect == Spec => []FreeSpaceMapExact
<1>1. IInv => FreeSpaceMapExact
  BY DEF IInv, HeapInv, FreeSpaceMapExact
<1> QED BY <1>1, Invariance, PTL

\* The chain stays doubly linked and ends at the tail.
THEOREM ChainCorrect == Spec => []ChainSound
<1>1. IInv => ChainSound
  BY DEF IInv, HeapInv, ChainSound
<1> QED BY <1>1, Invariance, PTL

\* No reference of the index ever leads to another record.
THEOREM IndexCorrect == Spec => []IndexResolves
<1>1. IInv => IndexResolves
  BY DEF IInv
<1> QED BY <1>1, Invariance, PTL

\* Evicting a clean page other than an emptied root loses nothing.
THEOREM CacheCorrect == Spec => []CleanPagesMatchDisk
<1>1. IInv => CleanPagesMatchDisk
  BY DEF IInv, DiskInv, CleanPagesMatchDisk
<1> QED BY <1>1, Invariance, PTL

\* A page that is chosen and has a deleted slot has the record's space.
LEMMA ChosenNotCompacted ==
  ASSUME NEW h, HeapInv(h)
  PROVE  NoneCompacted(h)
<1> SUFFICES ASSUME NEW size \in Sizes, NEW p \in Candidates(h, size)
             PROVE  ~ NeedsCompaction(WithPage(h, p).mem[p], size)
  BY DEF NoneCompacted
<1>1. size \in Nat
  BY StoreAssumption
<1>2. CASE p \in Registered(h)
  <2>1. p \notin h.free /\ WithPage(h, p) = h
    BY <1>2 DEF HeapInv, Chained, WithPage
  <2>2. h.fs[p] >= size
    BY <2>1 DEF Candidates, Fitting
  <2>3. h.fs[p] = FreeSpace(h.mem[p]) /\ FreeSpace(h.mem[p]) \in Int
    BY <1>2, ChainPages DEF PageInv, PageType, FreeSpace
  <2>4. size % Word = size
    BY <1>1, StoreAssumption, GeometryAssumption, Unwrapped
  <2>5. DeletedSlots(h.mem[p]) # {} => Needed(h.mem[p], size) = size
    BY <1>1, <2>4 DEF Needed, Entry
  <2> QED BY <1>1, <2>1, <2>2, <2>3, <2>5 DEF NeedsCompaction
<1>3. CASE p \notin Registered(h)
  <2>1. p \in h.free /\ WithPage(h, p) = Grown(h, p)
    BY <1>3 DEF Candidates, Fitting, WithPage
  <2>2. /\ h.free \subseteq Pages /\ h.tail \in Pages /\ h.tail # p
        /\ h.mem \in [Pages -> PageType]
    BY <1>3 DEF HeapInv, HeapType, Chained
  <2>3. Grown(h, p).mem[p].slots = <<>>
    BY <2>1, <2>2 DEF Grown, Linked, NewPage
  <2> QED BY <2>1, <2>3 DEF NeedsCompaction, DeletedSlots
<1> QED BY <1>2, <1>3

(* SlottedPageHandler::insert never compacts a page when the manager calls  *)
(* it: neither for a new record nor for one just deleted to be relocated.   *)
THEOREM NoCompaction == Spec => []CompactionUnreached
<1>1. ASSUME IInv PROVE CompactionUnreached
  <2>1. NoneCompacted(heap)
    BY <1>1, ChosenNotCompacted DEF IInv
  <2>2. ASSUME NEW k \in Keys, index[k] # NoRef
        PROVE  NoneCompacted(Erased(heap, index[k]))
    <3>1. HeapInv(Erased(heap, index[k]))
      BY <1>1, <2>2, Indexed, EraseKeeps DEF IInv
    <3> QED BY <3>1, ChosenNotCompacted
  <2> QED BY <2>1, <2>2 DEF CompactionUnreached
<1> QED BY <1>1, Invariance, PTL

-----------------------------------------------------------------------------
(* Every used slot is the one its key's reference names.                    *)

Owned(h, ix) ==
  \A p \in Registered(h) : \A i \in UsedSlots(h.mem[p]) : ix[h.mem[p].slots[i].rec] = <<p, i>>

\* The same, and no used slot holds key k.
OwnedBut(h, ix, k) ==
  \A p \in Registered(h) : \A i \in UsedSlots(h.mem[p]) :
    h.mem[p].slots[i].rec # k /\ ix[h.mem[p].slots[i].rec] = <<p, i>>

\* A key has a length exactly when it has a record.
DeletedHaveNoSize == \A k \in Keys : index[k] = NoRef => store[k] = 0

RInv == NoOrphanSlot /\ DeletedHaveNoSize

\* Slot i of page p in heap g was in heap h, with the same key.
From(g, h, p, i) ==
  /\ p \in Registered(h) /\ i \in UsedSlots(h.mem[p])
  /\ h.mem[p].slots[i].rec = g.mem[p].slots[i].rec

\* A slot that comes from heap h has the reference it had there.
LEMMA OwnedThere ==
  ASSUME NEW g, NEW h, NEW ix, Owned(h, ix), NEW q, NEW i, From(g, h, q, i)
  PROVE  ix[g.mem[q].slots[i].rec] = <<q, i>>
BY DEF Owned, From

\* insertRecord adds one slot to the used ones.
LEMMA PlacedAddsOne ==
  ASSUME NEW h, HeapInv(h), NEW size \in Sizes, NEW k \in Keys,
         NEW p \in Candidates(h, size), CanPlace(h, p, size), ~ Overruns(h, p, size)
  PROVE  LET g == Placed(h, p, k, size)
             t == TargetSlot(WithPage(h, p).mem[p])
         IN  /\ g.mem[p].slots[t].rec = k
             /\ \A q \in Registered(g) : \A i \in UsedSlots(g.mem[q]) :
                  <<q, i>> = <<p, t>> \/ From(g, h, q, i)
<1> DEFINE f   == WithPage(h, p)
           old == f.mem[p]
           t   == TargetSlot(old)
           pg  == Inserted(old, k, size)
           g   == Placed(h, p, k, size)
<1>1. size \in Nat \ {0}
  BY StoreAssumption
<1>2. /\ HeapInv(f) /\ p \in Registered(f) /\ size <= FreeSpace(old)
      /\ Accepts(old, size) /\ ~ Wraps(old, size)
  BY <1>1, ChosenPage
<1>3. p \in Pages /\ PageInv(old) /\ f \in HeapType /\ Registered(f) \subseteq Pages
  BY <1>2, ChainPages DEF HeapInv
<1>4. /\ UsedSlots(pg) = UsedSlots(old) \cup {t} /\ pg.slots[t].rec = k
      /\ \A i \in UsedSlots(old) : pg.slots[i] = old.slots[i]
  BY <1>1, <1>2, <1>3, PageInserted
<1>5. /\ g.mem[p] = pg /\ \A q \in Pages \ {p} : g.mem[q] = f.mem[q]
      /\ Registered(g) = Registered(f)
  <2>1. g = [f EXCEPT !.mem[p] = pg, !.fs = Record(@, p, FreeSpace(pg)), !.dirty = @ \cup {p}]
    BY DEF Placed
  <2> HIDE DEF f, pg, g
  <2>2. g.mem = [f.mem EXCEPT ![p] = pg] /\ g.fs = Record(f.fs, p, FreeSpace(pg))
    BY <1>3, <2>1 DEF HeapType
  <2>3. DOMAIN g.fs = DOMAIN f.fs \cup {p}
    BY <2>2 DEF Record
  <2> QED BY <1>2, <1>3, <2>2, <2>3 DEF HeapType, Registered
<1>6. ASSUME NEW q \in Registered(f), NEW i \in UsedSlots(f.mem[q])
      PROVE  From(f, h, q, i)
  <2>1. CASE p \in Registered(h)
    BY <2>1 DEF WithPage, From
  <2>2. CASE p \notin Registered(h)
    <3>1. f = Grown(h, p) /\ p \in h.free
      BY <2>2 DEF WithPage, Candidates, Fitting
    <3>2. Registered(f) = Registered(h) \cup {p}
      BY <3>1, GrownHeap
    <3>3. /\ h \in HeapType /\ p \in Pages /\ h.tail \in Registered(h) /\ h.tail # p
          /\ Registered(h) \subseteq Pages
      BY <2>2, <3>1 DEF HeapInv, HeapType, Chained, Registered
    <3>4. f.mem[p].slots = <<>>
      BY <3>1, <3>3 DEF Grown, Linked, HeapType, NewPage
    <3>5. q # p
      BY <3>4 DEF UsedSlots
    <3>6. f.mem[q].slots = h.mem[q].slots
      <4>1. f.mem[q] \in {h.mem[q], [h.mem[q] EXCEPT !.next = p]}
        <5>1. CASE q = h.tail
          BY <3>1, <3>3, <5>1 DEF Grown, Linked, HeapType
        <5>2. CASE q # h.tail
          <6>1. \A x \in Registered(h) \ {h.tail} : f.mem[x] = h.mem[x]
            BY <2>2, <3>1, <3>3 DEF Grown, Linked, HeapType
          <6> HIDE DEF f
          <6> QED BY <3>2, <3>5, <5>2, <6>1
        <5> QED BY <5>1, <5>2
      <4>2. h.mem[q] \in PageType
        BY <3>2, <3>3, <3>5 DEF HeapType
      <4> HIDE DEF f
      <4> QED BY <4>1, <4>2 DEF PageType
    <3> HIDE DEF f
    <3> QED BY <3>2, <3>5, <3>6 DEF From, UsedSlots
  <2> QED BY <2>1, <2>2
<1>7. ASSUME NEW q \in Registered(g), NEW i \in UsedSlots(g.mem[q]), <<q, i>> # <<p, t>>
      PROVE  From(g, h, q, i)
  <2> HIDE DEF f, t, pg, g
  <2>1. /\ q \in Registered(f) /\ i \in UsedSlots(f.mem[q])
        /\ g.mem[q].slots[i].rec = f.mem[q].slots[i].rec
    BY <1>3, <1>4, <1>5, <1>7 DEF old
  <2> QED BY <1>6, <2>1 DEF From
<1>8. g.mem[p].slots[t].rec = k
  BY <1>4, <1>5
<1> QED BY <1>7, <1>8

\* deleteRecord takes one slot from the used ones, and adds none.
LEMMA ErasedTakesOne ==
  ASSUME NEW h, HeapInv(h), NEW r \in Refs, r[1] \in Registered(h),
         r[2] \in UsedSlots(h.mem[r[1]])
  PROVE  LET g == Erased(h, r)
         IN  \A q \in Registered(g) : \A i \in UsedSlots(g.mem[q]) :
               <<q, i>> # r /\ From(g, h, q, i)
<1> DEFINE p  == r[1]
           pg == Removed(h.mem[p], r[2])
           m  == [h EXCEPT !.mem[p] = pg]
           g  == Erased(h, r)
<1>1. /\ h \in HeapType /\ p \in Pages /\ PageInv(h.mem[p]) /\ Registered(h) \subseteq Pages
      /\ r = <<p, r[2]>> /\ p \in Registered(h)
  BY ChainPages DEF HeapInv, HeapType, Registered, Refs
<1>2. /\ UsedSlots(pg) = UsedSlots(h.mem[p]) \ {r[2]} /\ pg \in PageType
      /\ \A j \in UsedSlots(h.mem[p]) \ {r[2]} : pg.slots[j] = h.mem[p].slots[j]
  BY <1>1, PageRemoved DEF PageInv
<1>3. /\ m.mem[p] = pg /\ \A q \in Pages \ {p} : m.mem[q] = h.mem[q]
      /\ m.fs = h.fs /\ m.mem \in [Pages -> PageType]
      /\ m = [mem |-> m.mem, dirty |-> h.dirty, tail |-> h.tail, fs |-> h.fs, free |-> h.free]
  <2> HIDE DEF pg
  <2> QED BY <1>1, <1>2 DEF HeapType
<1>4. ASSUME NEW q \in Registered(h), NEW i \in UsedSlots(m.mem[q])
      PROVE  <<q, i>> # r /\ From(m, h, q, i)
  <2> HIDE DEF m, pg, p
  <2> QED BY <1>1, <1>2, <1>3 DEF From
<1>5. CASE UsedSlots(pg) # {} \/ p = Root
  <2>1. g = m \/ g = [m EXCEPT !.fs = Record(@, p, FreeSpace(pg)), !.dirty = @ \cup {p}]
    BY <1>5 DEF Erased
  <2> HIDE DEF pg, m, g, p
  <2>2. g.mem = m.mem /\ DOMAIN g.fs \subseteq Registered(h)
    BY <1>1, <1>3, <2>1 DEF Record, Registered
  <2> QED BY <1>4, <2>2 DEF Registered, From, g
<1>6. CASE UsedSlots(pg) = {} /\ p # Root
  <2>1. g = Unlinked(m, p)
    BY <1>6 DEF Erased
  <2>2. Registered(g) = Registered(h) \ {p} /\ g.mem = Bypassed(m.mem, p)
    <3> HIDE DEF m
    <3> QED BY <1>3, <2>1 DEF Unlinked, Forget, Registered
  <2>3. ASSUME NEW q \in Registered(g)
        PROVE  g.mem[q].slots = m.mem[q].slots /\ q \in Registered(h)
    <3> HIDE DEF m, g, p
    <3>1. q \in Pages \ {p} /\ q \in Registered(h)
      BY <1>1, <2>2
    <3>2. g.mem[q] \in {m.mem[q], [m.mem[q] EXCEPT !.next = m.mem[p].next],
                        [m.mem[q] EXCEPT !.prev = m.mem[p].prev]}
      BY <2>2, <3>1 DEF Bypassed
    <3>3. m.mem[q] \in PageType
      BY <1>3, <3>1
    <3> QED BY <3>1, <3>2, <3>3 DEF PageType
  <2> HIDE DEF m, g, p
  <2> QED BY <1>4, <2>3 DEF UsedSlots, From, g
<1> QED BY <1>5, <1>6

\* updateRecord in place uses the same slots for the same keys.
LEMMA RewrittenSame ==
  ASSUME NEW h, HeapInv(h), NEW r \in Refs, r[1] \in Registered(h),
         r[2] \in UsedSlots(h.mem[r[1]]), NEW k \in Keys, NEW size \in Nat,
         h.mem[r[1]].slots[r[2]].rec = k
  PROVE  LET g == Rewritten(h, r, k, size)
         IN  \A q \in Registered(g) : \A i \in UsedSlots(g.mem[q]) : From(g, h, q, i)
<1> DEFINE p  == r[1]
           pg == Overwritten(h.mem[p], r[2], k, size)
           g  == Rewritten(h, r, k, size)
<1>1. h \in HeapType /\ p \in Pages /\ PageInv(h.mem[p]) /\ Registered(h) \subseteq Pages
  BY ChainPages DEF HeapInv, HeapType, Registered
<1>2. /\ UsedSlots(pg) = UsedSlots(h.mem[p]) /\ pg.slots[r[2]].rec = k
      /\ \A j \in UsedSlots(h.mem[p]) \ {r[2]} : pg.slots[j] = h.mem[p].slots[j]
  BY <1>1, PageOverwritten
<1>3. /\ g.mem = [h.mem EXCEPT ![p] = pg] /\ DOMAIN g.fs = Registered(h)
  <2>1. g = [h EXCEPT !.mem[p] = pg, !.fs = Record(@, p, FreeSpace(pg)), !.dirty = @ \cup {p}]
    BY DEF Rewritten
  <2> HIDE DEF pg, g
  <2> QED BY <1>1, <2>1 DEF HeapType, Record, Registered
<1>4. g.mem[p] = pg /\ \A q \in Pages \ {p} : g.mem[q] = h.mem[q]
  <2> HIDE DEF pg, g
  <2> QED BY <1>1, <1>3 DEF HeapType
<1> HIDE DEF pg, g, p
<1> QED BY <1>1, <1>2, <1>3, <1>4 DEF From, Registered, g, p

LEMMA UsedHoldsKey ==
  ASSUME NEW pg \in PageType, NEW i \in UsedSlots(pg)
  PROVE  pg.slots[i].rec \in Keys
<1>1. pg.slots \in Seq(Slot)
  BY DEF PageType
<1>2. pg.slots[i] \in Slot
  BY <1>1 DEF UsedSlots
<1> QED BY <1>2 DEF Slot

-----------------------------------------------------------------------------
(* Every step keeps it.                                                     *)

\* The record that is put gets the only new slot.
LEMMA PutOwned ==
  ASSUME NEW STATE h, HeapInv(h), index \in [Keys -> Refs \cup {NoRef}],
         NEW k \in Keys, NEW size \in Sizes, Put(h, k, size), OwnedBut(h, index, k)
  PROVE  Owned(heap', index') /\ index'[k] # NoRef
<1>1. PICK p \in Candidates(h, size) :
        /\ CanPlace(h, p, size) /\ ~ Overruns(h, p, size)
        /\ heap'  = Placed(h, p, k, size)
        /\ index' = [index EXCEPT ![k] = <<p, TargetSlot(WithPage(h, p).mem[p])>>]
  BY DEF Put
<1> DEFINE t == TargetSlot(WithPage(h, p).mem[p])
<1>2. /\ heap'.mem[p].slots[t].rec = k
      /\ \A q \in Registered(heap') : \A i \in UsedSlots(heap'.mem[q]) :
           <<q, i>> = <<p, t>> \/ From(heap', h, q, i)
  BY <1>1, PlacedAddsOne
<1>3. <<p, t>> \in Refs
  BY <1>1, PlacedHeap
<1>4. index' = [index EXCEPT ![k] = <<p, t>>]
  BY <1>1
<1> HIDE DEF t
<1>5. ASSUME NEW q \in Registered(heap'), NEW i \in UsedSlots(heap'.mem[q])
      PROVE  index'[heap'.mem[q].slots[i].rec] = <<q, i>>
  <2>1. CASE <<q, i>> = <<p, t>>
    BY <1>2, <1>4, <2>1
  <2>2. CASE From(heap', h, q, i)
    <3>1. /\ q \in Registered(h) /\ i \in UsedSlots(h.mem[q])
          /\ h.mem[q].slots[i].rec = heap'.mem[q].slots[i].rec
      BY <2>2 DEF From
    <3>2. h.mem[q].slots[i].rec \in Keys
      BY <3>1, ChainPages, UsedHoldsKey DEF PageInv
    <3>3. h.mem[q].slots[i].rec # k /\ index[h.mem[q].slots[i].rec] = <<q, i>>
      BY <3>1 DEF OwnedBut
    <3> QED BY <1>4, <3>1, <3>2, <3>3
  <2> QED BY <1>2, <2>1, <2>2
<1>6. index'[k] # NoRef
  BY <1>3, <1>4, StoreAssumption DEF Refs
<1> QED BY <1>5, <1>6 DEF Owned

\* Deleting the record of a key leaves the slots of the other keys.
LEMMA EraseOwned ==
  ASSUME IInv, Owned(heap, index), NEW k \in Keys, index[k] # NoRef
  PROVE  OwnedBut(Erased(heap, index[k]), index, k)
<1> DEFINE g == Erased(heap, index[k])
<1>1. \A q \in Registered(g) : \A i \in UsedSlots(g.mem[q]) :
        <<q, i>> # index[k] /\ From(g, heap, q, i)
  BY Indexed, ErasedTakesOne DEF IInv
<1> HIDE DEF g
<1>2. ASSUME NEW q \in Registered(g), NEW i \in UsedSlots(g.mem[q])
      PROVE  g.mem[q].slots[i].rec # k /\ index[g.mem[q].slots[i].rec] = <<q, i>>
  <2>1. index[g.mem[q].slots[i].rec] = <<q, i>>
    BY ONLY <1>1, <1>2, OwnedThere, Owned(heap, index)
  <2> QED BY ONLY <1>1, <1>2, <2>1
<1>3. OwnedBut(g, index, k)
  BY <1>2 DEF OwnedBut
<1> QED BY <1>3 DEF g

(* A vault that is opened again after no deletion was lost: the pages of    *)
(* the file have the used slots memory had, and each key one at most.       *)
LEMMA ReopenSame ==
  ASSUME IInv, RInv, Reopen, ~ tainted'
  PROVE  index' = index /\ store' = store /\ Owned(heap', index')
<1>1. /\ heap' = LoadedHeap(disk) /\ heap.dirty = {} /\ ~ tainted /\ ~ Emptied
      /\ HeapInv(heap) /\ disk \in [Pages -> PageType]
      /\ index \in [Keys -> Refs \cup {NoRef}] /\ store \in [Keys -> Nat]
  BY DEF Reopen, IInv, TypeOK
<1>2. PICK refs \in [Keys -> UNION {LoadedRefs(disk, k) : k \in Keys}] :
        /\ \A k \in Keys : refs[k] \in LoadedRefs(disk, k)
        /\ index' = refs
        /\ store' = [k \in Keys |-> SizeAt(disk, refs[k])]
  BY DEF Reopen
<1>3. ASSUME NEW p \in Pages
      PROVE  /\ UsedSlots(heap.mem[p]) = UsedSlots(disk[p])
             /\ \A i \in UsedSlots(disk[p]) : heap.mem[p].slots[i] = disk[p].slots[i]
  BY <1>1 DEF IInv, DiskInv, Emptied
<1>4. Reach(disk, Root) = Registered(heap) /\ Registered(heap) \subseteq Pages
  <2>1. \A p \in Pages : heap.mem[p].next = disk[p].next
    BY <1>1 DEF IInv, DiskInv, SameLinks
  <2>2. Reach(heap.mem, Root) = Registered(heap) /\ Reach(heap.mem, Root) = Reach(disk, Root)
    BY <1>1, <2>1, StoreAssumption, ReachSame DEF HeapInv, SpaceExact
  <2> QED BY <1>1, <2>2, ChainPages
<1>5. Owned(heap, index)
  BY <1>1 DEF RInv, NoOrphanSlot, Owned
<1>6. \A p \in Reach(disk, Root) : \A i \in UsedSlots(disk[p]) :
        index[disk[p].slots[i].rec] = <<p, i>>
  BY <1>3, <1>4, <1>5 DEF Owned
<1>7. ASSUME NEW k \in Keys
      PROVE  refs[k] = index[k] /\ SizeAt(disk, index[k]) = store[k]
  <2>1. ASSUME NEW r \in StoredAt(disk, k) PROVE r = index[k]
    <3>1. PICK p \in Reach(disk, Root) : r \in {p} \X UsedSlots(disk[p])
      BY DEF StoredAt
    <3>2. r = <<p, r[2]>> /\ r[1] = p /\ r[2] \in UsedSlots(disk[p])
      BY <3>1
    <3>3. disk[p].slots[r[2]].rec = k
      BY <3>2 DEF StoredAt
    <3> QED BY <1>6, <3>2, <3>3
  <2>2. CASE index[k] = NoRef
    <3>1. StoredAt(disk, k) = {}
      <4>1. ASSUME NEW r \in StoredAt(disk, k) PROVE FALSE
        <5>1. PICK p \in Reach(disk, Root) : r \in {p} \X UsedSlots(disk[p])
          BY DEF StoredAt
        <5>2. p \in Pages /\ disk[p].slots \in Seq(Slot)
          BY <1>1, <1>4, <5>1 DEF PageType
        <5>3. r \in Pages \X (Nat \ {0})
          BY <5>1, <5>2 DEF UsedSlots
        <5> QED BY <2>1, <2>2, <5>3, StoreAssumption
      <4> QED BY <4>1
    <3>2. refs[k] = NoRef
      BY <1>2, <3>1 DEF LoadedRefs
    <3> QED BY <2>2, <3>2 DEF RInv, DeletedHaveNoSize, SizeAt
  <2>3. CASE index[k] # NoRef
    <3> DEFINE r == index[k]
    <3>1. Resolves(heap, r, k, store[k]) /\ r \in Refs
      BY <1>1, <2>3 DEF IInv, IndexResolves
    <3>2. /\ r[1] \in Reach(disk, Root) /\ r[2] \in UsedSlots(disk[r[1]])
          /\ disk[r[1]].slots[r[2]].rec = k /\ disk[r[1]].slots[r[2]].size = store[k]
          /\ r = <<r[1], r[2]>>
      <4>1. r[1] \in Registered(heap) /\ r[2] \in UsedSlots(heap.mem[r[1]])
            /\ heap.mem[r[1]].slots[r[2]].rec = k /\ heap.mem[r[1]].slots[r[2]].size = store[k]
        BY <3>1 DEF Resolves, SlotOf
      <4>2. r = <<r[1], r[2]>>
        BY <3>1 DEF Refs
      <4> HIDE DEF r
      <4> QED BY <1>3, <1>4, <4>1, <4>2
    <3>3. r \in {r[1]} \X UsedSlots(disk[r[1]])
      BY <3>2
    <3>4. r \in StoredAt(disk, k)
      BY <3>2, <3>3 DEF StoredAt
    <3>5. refs[k] = r
      BY <1>2, <2>1, <3>4 DEF LoadedRefs
    <3> QED BY <2>3, <3>2, <3>5 DEF SizeAt
  <2> QED BY <2>2, <2>3
<1>8. index' = index /\ store' = store
  BY <1>1, <1>2, <1>7
<1>9. heap'.mem = disk /\ Registered(heap') = Reach(disk, Root)
  BY <1>1 DEF LoadedHeap, Registered
<1> QED BY <1>6, <1>8, <1>9 DEF Owned

LEMMA InitR == Init => RInv
<1> SUFFICES ASSUME Init PROVE RInv
  OBVIOUS
<1>1. heap.mem = disk /\ Registered(heap) = Reach(disk, Root)
  BY DEF Init, LoadedHeap, Registered
<1>2. \A p \in Pages : UsedSlots(disk[p]) = {}
  BY DEF Init, NewPage, FreedPage, UsedSlots
<1>3. Reach(disk, Root) \subseteq Pages
  BY DEF Reach
<1> QED BY <1>1, <1>2, <1>3 DEF Init, RInv, NoOrphanSlot, DeletedHaveNoSize

LEMMA NextR == IInv /\ RInv /\ [Next]_vars => RInv'
<1> SUFFICES ASSUME IInv, RInv, [Next]_vars PROVE RInv'
  OBVIOUS
<1>1. /\ HeapInv(heap) /\ Registered(heap) \subseteq Pages
      /\ index \in [Keys -> Refs \cup {NoRef}] /\ store \in [Keys -> Nat]
      /\ ~ tainted => Owned(heap, index)
  BY ChainPages DEF IInv, TypeOK, RInv, NoOrphanSlot, Owned
<1>2. ASSUME tainted' \/ Owned(heap', index'), DeletedHaveNoSize' PROVE RInv'
  BY <1>2 DEF RInv, NoOrphanSlot, Owned
<1>3. ASSUME NEW STATE h, NEW k \in Keys, NEW size \in Sizes, Put(h, k, size), index'[k] # NoRef
      PROVE  DeletedHaveNoSize' /\ tainted' = tainted
  BY <1>1, <1>3 DEF Put, RInv, DeletedHaveNoSize
<1>4. ASSUME NEW STATE h, NEW size \in Sizes, PageFull(h, size) \/ Overrun(h, size) PROVE RInv'
  BY <1>4 DEF PageFull, Overrun, RInv, NoOrphanSlot, DeletedHaveNoSize
<1>5. ASSUME NEW k \in Keys, NEW size \in Sizes, Insert(k, size) PROVE RInv'
  <2>1. CASE PageFull(heap, size) \/ Overrun(heap, size)
    BY <1>4, <2>1
  <2>2. CASE Put(heap, k, size)
    <3>1. \A p \in Pages : \A i \in UsedSlots(heap.mem[p]) : heap.mem[p].slots[i].rec # k
      BY <1>5 DEF Insert, Fresh
    <3>2. CASE tainted
      <4>1. index'[k] # NoRef
        <5>1. PICK p \in Candidates(heap, size) :
                /\ CanPlace(heap, p, size) /\ ~ Overruns(heap, p, size)
                /\ index' = [index EXCEPT ![k] = <<p, TargetSlot(WithPage(heap, p).mem[p])>>]
          BY <2>2 DEF Put
        <5>2. <<p, TargetSlot(WithPage(heap, p).mem[p])>> \in Refs
          BY <1>1, <5>1, PlacedHeap
        <5> QED BY <1>1, <5>1, <5>2, StoreAssumption DEF Refs
      <4> QED BY <1>2, <1>3, <2>2, <3>2, <4>1
    <3>3. CASE ~ tainted
      <4>1. Owned(heap', index') /\ index'[k] # NoRef
        <5>1. OwnedBut(heap, index, k)
          BY <1>1, <3>1, <3>3 DEF Owned, OwnedBut
        <5> QED BY <1>1, <2>2, <5>1, PutOwned
      <4> QED BY <1>2, <1>3, <2>2, <4>1
    <3> QED BY <3>2, <3>3
  <2> QED BY <1>5, <2>1, <2>2 DEF Insert
<1>6. ASSUME NEW k \in Keys, NEW size \in Sizes, UpdateInPlace(k, size) PROVE RInv'
  <2>1. /\ index[k] # NoRef /\ heap' = Rewritten(heap, index[k], k, size)
        /\ store' = [store EXCEPT ![k] = size] /\ index' = index /\ tainted' = tainted
        /\ size \in Nat
    BY <1>6, StoreAssumption DEF UpdateInPlace
  <2>2. DeletedHaveNoSize'
    BY <1>1, <2>1 DEF RInv, DeletedHaveNoSize
  <2>3. ASSUME ~ tainted PROVE Owned(heap', index')
    <3>1. Resolves(heap, index[k], k, store[k])
      BY <2>1 DEF IInv, IndexResolves
    <3>2. heap.mem[index[k][1]].slots[index[k][2]].rec = k
      BY <3>1 DEF Resolves, SlotOf
    <3>3. \A q \in Registered(heap') : \A i \in UsedSlots(heap'.mem[q]) : From(heap', heap, q, i)
      BY <1>1, <2>1, <3>2, Indexed, RewrittenSame
    <3>4. Owned(heap, index)
      BY <1>1, <2>3
    <3>5. \A q \in Registered(heap') : \A i \in UsedSlots(heap'.mem[q]) :
            index[heap'.mem[q].slots[i].rec] = <<q, i>>
      BY ONLY <3>3, <3>4, OwnedThere
    <3> QED BY <2>1, <3>5 DEF Owned
  <2> QED BY <1>2, <2>1, <2>2, <2>3
<1>7. ASSUME NEW k \in Keys, NEW size \in Sizes, Relocate(k, size) PROVE RInv'
  <2> DEFINE h == Erased(heap, index[k])
  <2>1. index[k] # NoRef /\ (Put(h, k, size) \/ PageFull(h, size) \/ Overrun(h, size))
    BY <1>7 DEF Relocate
  <2>2. HeapInv(h)
    BY <1>1, <2>1, Indexed, ErasedHeap DEF IInv
  <2>3. ASSUME ~ tainted PROVE OwnedBut(h, index, k)
    BY <1>1, <2>1, <2>3, EraseOwned
  <2> HIDE DEF h
  <2>4. CASE PageFull(h, size) \/ Overrun(h, size)
    BY <1>4, <2>4
  <2>5. CASE Put(h, k, size)
    <3>1. index'[k] # NoRef
      <4>1. PICK p \in Candidates(h, size) :
              /\ CanPlace(h, p, size) /\ ~ Overruns(h, p, size)
              /\ index' = [index EXCEPT ![k] = <<p, TargetSlot(WithPage(h, p).mem[p])>>]
        BY <2>5 DEF Put
      <4>2. <<p, TargetSlot(WithPage(h, p).mem[p])>> \in Refs
        BY <2>2, <4>1, PlacedHeap
      <4> QED BY <1>1, <4>1, <4>2, StoreAssumption DEF Refs
    <3>2. ASSUME ~ tainted PROVE Owned(heap', index')
      BY <1>1, <2>2, <2>3, <2>5, <3>2, PutOwned
    <3> QED BY <1>2, <1>3, <2>5, <3>1, <3>2
  <2> QED BY <2>1, <2>4, <2>5
<1>8. ASSUME NEW k \in Keys, Delete(k) PROVE RInv'
  <2>1. /\ index[k] # NoRef /\ heap' = Erased(heap, index[k])
        /\ index' = [index EXCEPT ![k] = NoRef] /\ store' = [store EXCEPT ![k] = 0]
        /\ tainted' = tainted
    BY <1>8 DEF Delete
  <2>2. DeletedHaveNoSize'
    BY <1>1, <2>1 DEF RInv, DeletedHaveNoSize
  <2>3. ASSUME ~ tainted PROVE Owned(heap', index')
    <3>1. HeapInv(heap')
      BY <1>1, <2>1, Indexed, ErasedHeap DEF IInv
    <3>2. OwnedBut(heap', index, k)
      BY <1>1, <2>1, <2>3, EraseOwned
    <3>3. \A q \in Registered(heap') : \A i \in UsedSlots(heap'.mem[q]) :
            heap'.mem[q].slots[i].rec \in Keys
      BY <3>1, ChainPages, UsedHoldsKey DEF PageInv
    <3>4. \A j \in Keys : j # k => index'[j] = index[j]
      BY <1>1, <2>1
    <3> QED BY ONLY <3>2, <3>3, <3>4 DEF Owned, OwnedBut
  <2> QED BY <1>2, <2>1, <2>2, <2>3
<1>9. ASSUME NEW p \in Pages, Evict(p) PROVE RInv'
  <2>1. index' = index /\ store' = store
    BY <1>9 DEF Evict
  <2>2. DeletedHaveNoSize'
    BY <2>1 DEF RInv, DeletedHaveNoSize
  <2>3. CASE p \in heap.dirty
    <3>1. heap' = [heap EXCEPT !.dirty = @ \ {p}] /\ tainted' = tainted
      BY <1>9, <2>3 DEF Evict
    <3>2. heap'.mem = heap.mem /\ heap'.fs = heap.fs
      BY <1>1, <3>1 DEF HeapInv, HeapType
    <3>3. Owned(heap, index) => Owned(heap', index')
      BY ONLY <2>1, <3>2 DEF Owned, Registered
    <3> QED BY <1>1, <1>2, <2>2, <3>1, <3>3
  <2>4. CASE p \notin heap.dirty
    <3>1. /\ heap.mem[p] # disk[p] /\ heap' = [heap EXCEPT !.mem[p] = disk[p]]
          /\ tainted' = (tainted \/ (p = Root /\ Emptied))
      BY <1>9, <2>4 DEF Evict
    <3>2. p = Root /\ UsedSlots(heap.mem[p]) = {}
      BY <2>4, <3>1 DEF IInv, DiskInv
    <3>3. /\ heap'.fs = heap.fs /\ heap'.mem[p] = disk[p]
          /\ \A q \in Pages \ {p} : heap'.mem[q] = heap.mem[q]
      BY <1>1, <3>1 DEF HeapInv, HeapType
    <3>4. ASSUME ~ tainted' PROVE Owned(heap', index')
      <4>1. ~ tainted /\ UsedSlots(disk[p]) = {}
        BY <2>4, <3>1, <3>2, <3>4 DEF Emptied
      <4>2. Owned(heap, index) /\ Registered(heap') = Registered(heap)
            /\ Registered(heap) \subseteq Pages
        BY <1>1, <3>3, <4>1 DEF Registered
      <4> QED BY ONLY <2>1, <3>3, <4>1, <4>2 DEF Owned
    <3> QED BY <1>2, <2>2, <3>4
  <2> QED BY <2>3, <2>4
<1>10. CASE Commit
  <2>1. /\ heap' = [heap EXCEPT !.dirty = {}] /\ index' = index /\ store' = store
        /\ tainted' = tainted
    BY <1>10 DEF Commit
  <2>2. heap'.mem = heap.mem /\ heap'.fs = heap.fs
    BY <1>1, <2>1 DEF HeapInv, HeapType
  <2>3. Owned(heap, index) => Owned(heap', index')
    BY ONLY <2>1, <2>2 DEF Owned, Registered
  <2>4. DeletedHaveNoSize'
    BY <2>1 DEF RInv, DeletedHaveNoSize
  <2> QED BY <1>1, <1>2, <2>1, <2>3, <2>4
<1>11. CASE Reopen
  <2>1. DeletedHaveNoSize'
    BY <1>11 DEF Reopen, DeletedHaveNoSize, SizeAt
  <2>2. tainted' \/ Owned(heap', index')
    BY <1>11, ReopenSame
  <2> QED BY <1>2, <2>1, <2>2
<1>12. CASE UNCHANGED vars
  BY <1>12 DEF vars, RInv, NoOrphanSlot, DeletedHaveNoSize
<1> QED BY <1>5, <1>6, <1>7, <1>8, <1>9, <1>10, <1>11, <1>12 DEF Next

-----------------------------------------------------------------------------
(* Theorems.                                                                *)

LEMMA RInvariance == Spec => []RInv
BY Invariance, InitR, NextR, PTL DEF Spec

\* Updates, relocations and restarts leave no second copy of a record, unless the
\* deletion of the root's last record was lost.
THEOREM NoOrphans == Spec => []NoOrphanSlot
<1>1. RInv => NoOrphanSlot
  BY DEF RInv
<1> QED BY <1>1, RInvariance, PTL

\* Opening the vault again gives back exactly the records it held, also after an
\* operation that ended with "page full".
THEOREM ReopenCorrect == Spec => ReopenRestores
<1>1. IInv /\ RInv /\ [Next]_vars => [Reopen /\ ~ tainted' => store' = store]_vars
  BY ReopenSame
<1> QED BY <1>1, Invariance, RInvariance, PTL DEF Spec, ReopenRestores

=============================================================================
