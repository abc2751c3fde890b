--------------------------- MODULE FreelistProofs ---------------------------
(***************************************************************************)
(* Theorems about Freelist, for every number of pages and every capacity   *)
(* of a freelist page: every page has one use, what the file lists as free *)
(* is free, a restart counts the pages of the file right, and the pager    *)
(* implements PageSupply.                                                  *)
(*                                                                         *)
(* Until the list overflows it fits on one page, so that the chain of      *)
(* freelist pages has at most one (ChainIs).  The two loops that write ids *)
(* are folds, unfolded turn by turn (ExtendedTurns, AppendedTurns).        *)
(***************************************************************************)
EXTENDS Freelist, FiniteSetTheorems, SequenceTheorems, TLAPS

-----------------------------------------------------------------------------
(* Numbers.                                                                 *)
NatLess == {ss \in Nat \X Nat : ss[1] < ss[2]}

LEMMA NatLessWellFounded == IsWellFoundedOn(NatLess, Nat)
  BY NatLessThanWellFounded DEF OpToRel, NatLess

LEMMA LeastOf ==
  ASSUME NEW S \in SUBSET Nat, S # {}
  PROVE  \E m \in S : \A i \in S : m <= i
<1>1. PICK m \in S : \A i \in S : ~ (<<i, m>> \in NatLess)
  BY NatLessWellFounded, WFMin, Zenon
<1>2. ASSUME NEW i \in S PROVE m <= i
  <2>1. <<i, m>> \in Nat \X Nat /\ <<i, m>>[1] = i /\ <<i, m>>[2] = m
    OBVIOUS
  <2>2. ~ (i < m)
    BY <1>1, <2>1 DEF NatLess
  <2> QED BY <2>2
<1> QED BY <1>2

LEMMA GreatestOf ==
  ASSUME NEW n \in Nat, NEW S \in SUBSET (1..n), S # {}
  PROVE  Max(S) \in S /\ \A i \in S : Max(S) >= i
<1> DEFINE T == {n - i : i \in S}
<1>1. T \in SUBSET Nat /\ T # {}
  <2>1. \A i \in S : n - i \in Nat
    OBVIOUS
  <2> QED BY <2>1
<1>2. PICK t \in T : \A i \in T : t <= i
  BY <1>1, LeastOf
<1>3. PICK m \in S : t = n - m
  OBVIOUS
<1>4. ASSUME NEW i \in S PROVE m >= i
  <2>1. n - i \in T
    OBVIOUS
  <2>2. n - m <= n - i
    BY <1>2, <1>3, <2>1
  <2> QED BY <2>2
<1> QED BY <1>3, <1>4 DEF Max

\* The greatest of the numbers from 1 to n, and what is left without it.
LEMMA Upto ==
  ASSUME NEW n \in Nat, n # 0
  PROVE  Max(1..n) = n /\ (1..n) \ {n} = 1..(n - 1) /\ 1..n # {}
<1>1. n \in 1..n /\ \A i \in 1..n : n >= i
  OBVIOUS
<1>2. Max(1..n) \in 1..n /\ \A i \in 1..n : Max(1..n) >= i
  BY <1>1, GreatestOf
<1> QED BY <1>1, <1>2

-----------------------------------------------------------------------------
(* Folds over no element and over one.                                      *)
LEMMA FoldNone ==
  ASSUME NEW st
  PROVE  FoldLeft(Listed, st, <<>>) = st /\ ReleasedAll(st, <<>>) = st
<1>1. FoldLeft(Listed, st, <<>>) = st
  <2> DEFINE g == [t \in SUBSET DOMAIN <<>> |-> st]
  <2>1. \A t \in SUBSET DOMAIN <<>> : t = {}
    OBVIOUS
  <2>2. g = [t \in SUBSET DOMAIN <<>> |->
               IF t = {} THEN st ELSE Listed(g[t \ {Max(t)}], <<>>[Max(t)])]
    BY <2>1
  <2>3. \A h : h = [t \in SUBSET DOMAIN <<>> |->
                      IF t = {} THEN st ELSE Listed(h[t \ {Max(t)}], <<>>[Max(t)])]
               => h[DOMAIN <<>>] = st
    OBVIOUS
  <2> HIDE DEF g
  <2> QED BY <2>2, <2>3 DEF FoldLeft, MapThenFoldSet
<1>2. ReleasedAll(st, <<>>) = st
  <2> DEFINE g == [t \in SUBSET DOMAIN <<>> |-> st]
  <2>1. \A t \in SUBSET DOMAIN <<>> : t = {}
    OBVIOUS
  <2>2. g = [t \in SUBSET DOMAIN <<>> |->
               IF t = {} THEN st ELSE Released(g[t \ {Max(t)}], <<>>[Max(t)])]
    BY <2>1
  <2>3. \A h : h = [t \in SUBSET DOMAIN <<>> |->
                      IF t = {} THEN st ELSE Released(h[t \ {Max(t)}], <<>>[Max(t)])]
               => h[DOMAIN <<>>] = st
    OBVIOUS
  <2> HIDE DEF g
  <2> QED BY <2>2, <2>3 DEF ReleasedAll, FoldLeft, MapThenFoldSet
<1> QED BY <1>1, <1>2

LEMMA FoldOne ==
  ASSUME NEW st, NEW id
  PROVE  FoldLeft(Listed, st, <<id>>) = Listed(st, id) /\ ReleasedAll(st, <<id>>) = Released(st, id)
<1>1. /\ DOMAIN <<id>> = {1} /\ <<id>>[1] = id /\ {1} \ {1} = {} /\ Max({1}) = 1
      /\ SUBSET {1} = {{}, {1}} /\ {1} # {}
  BY DEF Max
<1>2. FoldLeft(Listed, st, <<id>>) = Listed(st, id)
  <2> DEFINE g == [t \in SUBSET DOMAIN <<id>> |-> IF t = {} THEN st ELSE Listed(st, id)]
             Solves(h) == h = [t \in SUBSET DOMAIN <<id>> |->
                                IF t = {} THEN st ELSE Listed(h[t \ {Max(t)}], <<id>>[Max(t)])]
  <2>1. Solves(g)
    <3>1. ASSUME NEW t \in SUBSET DOMAIN <<id>>, t # {}
          PROVE  Listed(g[t \ {Max(t)}], <<id>>[Max(t)]) = Listed(st, id)
      <4>1. t = {1}
        BY <1>1, <3>1
      <4>2. g[{}] = st
        OBVIOUS
      <4> HIDE DEF g
      <4> QED BY <1>1, <4>1, <4>2
    <3> QED BY <3>1
  <2>2. ASSUME NEW h, Solves(h) PROVE h[DOMAIN <<id>>] = Listed(st, id)
    <3>1. h[{}] = st /\ h[{1}] = Listed(h[{}], id)
      BY <1>1, <2>2
    <3> QED BY <1>1, <3>1
  <2> HIDE DEF g
  <2> QED BY <2>1, <2>2 DEF FoldLeft, MapThenFoldSet
<1>3. ReleasedAll(st, <<id>>) = Released(st, id)
  <2> DEFINE g == [t \in SUBSET DOMAIN <<id>> |-> IF t = {} THEN st ELSE Released(st, id)]
             Solves(h) == h = [t \in SUBSET DOMAIN <<id>> |->
                                IF t = {} THEN st ELSE Released(h[t \ {Max(t)}], <<id>>[Max(t)])]
  <2>1. Solves(g)
    <3>1. ASSUME NEW t \in SUBSET DOMAIN <<id>>, t # {}
          PROVE  Released(g[t \ {Max(t)}], <<id>>[Max(t)]) = Released(st, id)
      <4>1. t = {1}
        BY <1>1, <3>1
      <4>2. g[{}] = st
        OBVIOUS
      <4> HIDE DEF g
      <4> QED BY <1>1, <4>1, <4>2
    <3> QED BY <3>1
  <2>2. ASSUME NEW h, Solves(h) PROVE h[DOMAIN <<id>>] = Released(st, id)
    <3>1. h[{}] = st /\ h[{1}] = Released(h[{}], id)
      BY <1>1, <2>2
    <3> QED BY <1>1, <3>1
  <2> HIDE DEF g
  <2> QED BY <2>1, <2>2 DEF ReleasedAll, FoldLeft, MapThenFoldSet
<1> QED BY <1>2, <1>3

-----------------------------------------------------------------------------
(* Folds of any length.  A function over the subsets of the indices, each   *)
(* obtained from the one without its greatest index, exists: else there is  *)
(* a least number of indices for which it does not.                         *)
ExtendedSolves(g, st, n, seq) ==
  g = [t \in SUBSET (1..n) |->
        IF t = {} THEN st ELSE Extended(g[t \ {Max(t)}], seq[Max(t)])]

LEMMA ExtendedFold ==
  ASSUME NEW st, NEW seq
  PROVE  \A n \in Nat : \E g : ExtendedSolves(g, st, n, seq)
<1> DEFINE S == {n \in Nat : ~ \E g : ExtendedSolves(g, st, n, seq)}
<1> SUFFICES ASSUME S # {} PROVE FALSE
  OBVIOUS
<1>1. PICK n \in S : \A i \in S : n <= i
  <2>1. S \in SUBSET Nat
    OBVIOUS
  <2> QED BY <2>1, LeastOf
<1>2. CASE n = 0
  <2> DEFINE g == [t \in SUBSET (1..0) |-> st]
  <2>1. \A t \in SUBSET (1..0) : t = {}
    OBVIOUS
  <2>2. g = [t \in SUBSET (1..0) |->
              IF t = {} THEN st ELSE Extended(g[t \ {Max(t)}], seq[Max(t)])]
    BY <2>1
  <2> QED BY <1>1, <1>2, <2>2 DEF ExtendedSolves
<1>3. CASE n # 0
  <2>1. n \in Nat /\ n - 1 \in Nat /\ n - 1 \notin S
    BY <1>1, <1>3
  <2>2. PICK g : ExtendedSolves(g, st, n - 1, seq)
    BY <2>1
  <2> DEFINE h == [t \in SUBSET (1..n) |->
                    IF n \in t THEN Extended(g[t \ {n}], seq[n]) ELSE g[t]]
             Turn(f, t) == IF t = {} THEN st ELSE Extended(f[t \ {Max(t)}], seq[Max(t)])
  <2>3. \A t \in SUBSET (1..(n - 1)) : g[t] = Turn(g, t)
    BY <2>2 DEF ExtendedSolves
  <2>4. \A t \in SUBSET (1..n) : n \notin t => t \in SUBSET (1..(n - 1))
    BY <2>1
  <2>5. ASSUME NEW t \in SUBSET (1..n) PROVE h[t] = Turn(h, t)
    <3>1. CASE n \in t
      <4>1. Max(t) \in t /\ \A i \in t : Max(t) >= i
        BY <2>1, <3>1, GreatestOf
      <4>2. Max(t) = n
        <5>1. \A m : m \in t /\ (\A i \in t : m >= i) => m = n
          BY ONLY <2>1, <3>1, t \in SUBSET (1..n)
        <5> QED BY ONLY <4>1, <5>1
      <4>3. h[t] = Extended(g[t \ {n}], seq[n]) /\ h[t \ {n}] = g[t \ {n}]
        BY <3>1
      <4> QED BY <3>1, <4>2, <4>3
    <3>2. CASE t = {}
      BY <2>3, <2>4, <3>2
    <3>3. CASE n \notin t /\ t # {}
      <4>1. t \ {Max(t)} \in SUBSET (1..n) /\ n \notin t \ {Max(t)}
        BY <3>3
      <4>2. h[t] = g[t] /\ h[t \ {Max(t)}] = g[t \ {Max(t)}]
        BY <3>3, <4>1
      <4> QED BY <2>3, <2>4, <3>3, <4>2
    <3> QED BY <3>1, <3>2, <3>3
  <2>6. h = [t \in SUBSET (1..n) |-> Turn(h, t)]
    <3>1. h = [t \in SUBSET (1..n) |-> h[t]]
      OBVIOUS
    <3> HIDE DEF h, Turn
    <3> QED BY <2>5, <3>1
  <2> QED BY <1>1, <2>6 DEF ExtendedSolves
<1> QED BY <1>2, <1>3

\* The fold turn by turn: f[i] is the state after i turns.
ExtendedRun(f, st, n, seq) ==
  /\ f[0] = st
  /\ \A i \in 1..n : f[i] = Extended(f[i - 1], seq[i])
  /\ FoldLeft(Extended, st, seq) = f[n]

LEMMA ExtendedTurns ==
  ASSUME NEW st, NEW seq, NEW n \in Nat, DOMAIN seq = 1..n
  PROVE  \E f : ExtendedRun(f, st, n, seq)
<1>1. PICK g : ExtendedSolves(g, st, n, seq) /\ FoldLeft(Extended, st, seq) = g[1..n]
  <2>1. \E g : ExtendedSolves(g, st, n, seq)
    BY ExtendedFold
  <2> QED BY <2>1 DEF ExtendedSolves, FoldLeft, MapThenFoldSet
<1> DEFINE f == [i \in 0..n |-> g[1..i]]
<1>2. f[0] = st
  <2>1. 1..0 = {} /\ {} \in SUBSET (1..n)
    OBVIOUS
  <2>2. g[{}] = st
    BY <1>1, <2>1 DEF ExtendedSolves
  <2> QED BY <2>1, <2>2
<1>3. ASSUME NEW i \in 1..n PROVE f[i] = Extended(f[i - 1], seq[i])
  <2>1. Max(1..i) = i /\ (1..i) \ {i} = 1..(i - 1) /\ 1..i # {} /\ 1..i \in SUBSET (1..n)
    <3>1. i \in Nat /\ i # 0 /\ 1..i \in SUBSET (1..n)
      BY ONLY i \in 1..n, n \in Nat
    <3> QED BY ONLY <3>1, Upto
  <2>2. g[1..i] = Extended(g[(1..i) \ {Max(1..i)}], seq[Max(1..i)])
    BY <1>1, <2>1 DEF ExtendedSolves
  <2>3. f[i] = g[1..i] /\ f[i - 1] = g[1..(i - 1)]
    OBVIOUS
  <2> HIDE DEF f
  <2> QED BY <2>1, <2>2, <2>3
<1>4. f[n] = g[1..n]
  OBVIOUS
<1> QED BY <1>1, <1>2, <1>3, <1>4 DEF ExtendedRun

\* The same of the loop that appends.
AppendedSolves(g, st, n, seq) ==
  g = [t \in SUBSET (1..n) |->
        IF t = {} THEN st ELSE Appended(g[t \ {Max(t)}], seq[Max(t)])]

LEMMA AppendedFold ==
  ASSUME NEW st, NEW seq
  PROVE  \A n \in Nat : \E g : AppendedSolves(g, st, n, seq)
<1> DEFINE S == {n \in Nat : ~ \E g : AppendedSolves(g, st, n, seq)}
<1> SUFFICES ASSUME S # {} PROVE FALSE
  OBVIOUS
<1>1. PICK n \in S : \A i \in S : n <= i
  <2>1. S \in SUBSET Nat
    OBVIOUS
  <2> QED BY <2>1, LeastOf
<1>2. CASE n = 0
  <2> DEFINE g == [t \in SUBSET (1..0) |-> st]
  <2>1. \A t \in SUBSET (1..0) : t = {}
    OBVIOUS
  <2>2. g = [t \in SUBSET (1..0) |->
              IF t = {} THEN st ELSE Appended(g[t \ {Max(t)}], seq[Max(t)])]
    BY <2>1
  <2> QED BY <1>1, <1>2, <2>2 DEF AppendedSolves
<1>3. CASE n # 0
  <2>1. n \in Nat /\ n - 1 \in Nat /\ n - 1 \notin S
    BY <1>1, <1>3
  <2>2. PICK g : AppendedSolves(g, st, n - 1, seq)
    BY <2>1
  <2> DEFINE h == [t \in SUBSET (1..n) |->
                    IF n \in t THEN Appended(g[t \ {n}], seq[n]) ELSE g[t]]
             Turn(f, t) == IF t = {} THEN st ELSE Appended(f[t \ {Max(t)}], seq[Max(t)])
  <2>3. \A t \in SUBSET (1..(n - 1)) : g[t] = Turn(g, t)
    BY <2>2 DEF AppendedSolves
  <2>4. \A t \in SUBSET (1..n) : n \notin t => t \in SUBSET (1..(n - 1))
    BY <2>1
  <2>5. ASSUME NEW t \in SUBSET (1..n) PROVE h[t] = Turn(h, t)
    <3>1. CASE n \in t
      <4>1. Max(t) \in t /\ \A i \in t : Max(t) >= i
        BY <2>1, <3>1, GreatestOf
      <4>2. Max(t) = n
        <5>1. \A m : m \in t /\ (\A i \in t : m >= i) => m = n
          BY ONLY <2>1, <3>1, t \in SUBSET (1..n)
        <5> QED BY ONLY <4>1, <5>1
      <4>3. h[t] = Appended(g[t \ {n}], seq[n]) /\ h[t \ {n}] = g[t \ {n}]
        BY <3>1
      <4> QED BY <3>1, <4>2, <4>3
    <3>2. CASE t = {}
      BY <2>3, <2>4, <3>2
    <3>3. CASE n \notin t /\ t # {}
      <4>1. t \ {Max(t)} \in SUBSET (1..n) /\ n \notin t \ {Max(t)}
        BY <3>3
      <4>2. h[t] = g[t] /\ h[t \ {Max(t)}] = g[t \ {Max(t)}]
        BY <3>3, <4>1
      <4> QED BY <2>3, <2>4, <3>3, <4>2
    <3> QED BY <3>1, <3>2, <3>3
  <2>6. h = [t \in SUBSET (1..n) |-> Turn(h, t)]
    <3>1. h = [t \in SUBSET (1..n) |-> h[t]]
      OBVIOUS
    <3> HIDE DEF h, Turn
    <3> QED BY <2>5, <3>1
  <2> QED BY <1>1, <2>6 DEF AppendedSolves
<1> QED BY <1>2, <1>3

\* The fold turn by turn: f[i] is the state after i turns.
AppendedRun(f, st, n, seq) ==
  /\ f[0] = st
  /\ \A i \in 1..n : f[i] = Appended(f[i - 1], seq[i])
  /\ FoldLeft(Appended, st, seq) = f[n]

LEMMA AppendedTurns ==
  ASSUME NEW st, NEW seq, NEW n \in Nat, DOMAIN seq = 1..n
  PROVE  \E f : AppendedRun(f, st, n, seq)
<1>1. PICK g : AppendedSolves(g, st, n, seq) /\ FoldLeft(Appended, st, seq) = g[1..n]
  <2>1. \E g : AppendedSolves(g, st, n, seq)
    BY AppendedFold
  <2> QED BY <2>1 DEF AppendedSolves, FoldLeft, MapThenFoldSet
<1> DEFINE f == [i \in 0..n |-> g[1..i]]
<1>2. f[0] = st
  <2>1. 1..0 = {} /\ {} \in SUBSET (1..n)
    OBVIOUS
  <2>2. g[{}] = st
    BY <1>1, <2>1 DEF AppendedSolves
  <2> QED BY <2>1, <2>2
<1>3. ASSUME NEW i \in 1..n PROVE f[i] = Appended(f[i - 1], seq[i])
  <2>1. Max(1..i) = i /\ (1..i) \ {i} = 1..(i - 1) /\ 1..i # {} /\ 1..i \in SUBSET (1..n)
    <3>1. i \in Nat /\ i # 0 /\ 1..i \in SUBSET (1..n)
      BY ONLY i \in 1..n, n \in Nat
    <3> QED BY ONLY <3>1, Upto
  <2>2. g[1..i] = Appended(g[(1..i) \ {Max(1..i)}], seq[Max(1..i)])
    BY <1>1, <2>1 DEF AppendedSolves
  <2>3. f[i] = g[1..i] /\ f[i - 1] = g[1..(i - 1)]
    OBVIOUS
  <2> HIDE DEF f
  <2> QED BY <2>1, <2>2, <2>3
<1>4. f[n] = g[1..n]
  OBVIOUS
<1> QED BY <1>1, <1>2, <1>3, <1>4 DEF AppendedRun

-----------------------------------------------------------------------------
(* The chain of freelist pages while it has at most one.                    *)
Short(pages, from) == from # NoPage => pages[from].next = NoPage

LEMMA ChainIs ==
  ASSUME NEW pages, NEW from, Short(pages, from)
  PROVE  Chain(pages, from) = IF from = NoPage THEN <<>> ELSE <<from>>
<1> DEFINE c == IF from = NoPage THEN <<>> ELSE <<from>>
           Walk(w) == w = [n \in Nat |->
                        IF n = 0 THEN IF from = NoPage THEN <<>> ELSE <<from>>
                        ELSE IF w[n - 1] = <<>> \/ pages[Last(w[n - 1])].next = NoPage
                             THEN w[n - 1] ELSE Append(w[n - 1], pages[Last(w[n - 1])].next)]
<1>1. c = <<>> \/ pages[Last(c)].next = NoPage
  BY DEF Last, Short
<1>2. Walk([n \in Nat |-> c])
  <2> DEFINE w == [n \in Nat |-> c]
  <2>1. \A n \in Nat : n # 0 => w[n - 1] = c
    OBVIOUS
  <2>2. \A n \in Nat : n # 0 => w[n - 1] = <<>> \/ pages[Last(w[n - 1])].next = NoPage
    BY <1>1, <2>1
  <2> QED BY <2>1, <2>2
<1>3. ASSUME NEW w, Walk(w) PROVE w[MaxPages] = c
  <2> DEFINE S == {n \in Nat : w[n] # c}
  <2>1. S = {}
    <3> SUFFICES ASSUME S # {} PROVE FALSE
      OBVIOUS
    <3>1. PICK n \in S : \A i \in S : n <= i
      <4>1. S \in SUBSET Nat
        OBVIOUS
      <4> QED BY <4>1, LeastOf
    <3>2. CASE n = 0
      BY <1>3, <3>1, <3>2
    <3>3. CASE n # 0
      <4>1. n \in Nat /\ n - 1 \in Nat /\ w[n - 1] = c
        BY <3>1, <3>3
      <4>2. w[n] = IF w[n - 1] = <<>> \/ pages[Last(w[n - 1])].next = NoPage
                   THEN w[n - 1] ELSE Append(w[n - 1], pages[Last(w[n - 1])].next)
        BY <1>3, <3>3, <4>1
      <4>3. w[n] = c
        <5> HIDE DEF c
        <5> QED BY ONLY <1>1, <4>1, <4>2
      <4> QED BY <3>1, <4>3
    <3> QED BY <3>2, <3>3
  <2>2. MaxPages \in Nat
    BY FreelistAssumption
  <2> QED BY <2>1, <2>2
<1>4. \E w : Walk(w)
  BY <1>2
<1> HIDE DEF c
<1>5. Chain(pages, from) = c
  BY <1>3, <1>4 DEF Chain
<1> QED BY <1>5 DEF c

LEMMA ChainPagesAre ==
  ASSUME NEW s, Short(s.mem, s.root)
  PROVE  ChainPages(s) = {s.root} \ {NoPage}
BY ChainIs DEF ChainPages, ToSet

\* One freelist page is loaded as it is.
LEMMA LoadedIs ==
  ASSUME NEW pages, NEW from, Short(pages, from), from # NoPage => pages[from].ids \in Seq(Ids)
  PROVE  Loaded(pages, from) =
           [free |-> IF from = NoPage THEN <<>> ELSE pages[from].ids,
            nextPageId |-> PagesIn(pages), allocated |-> FALSE, newly |-> 0,
            root |-> from, tail |-> from, mem |-> pages, dirty |-> {}]
<1> DEFINE chain == Chain(pages, from)
           parts == [i \in DOMAIN chain |-> pages[chain[i]].ids]
<1>1. chain = IF from = NoPage THEN <<>> ELSE <<from>>
  BY ChainIs
<1>2. FlattenSeq(parts) = IF from = NoPage THEN <<>> ELSE pages[from].ids
  <2>1. CASE from = NoPage
    <3>1. parts = <<>>
      BY <1>1, <2>1
    <3> QED BY <2>1, <3>1 DEF FlattenSeq
  <2>2. CASE from # NoPage
    <3> DEFINE x == pages[from].ids
    <3>1. parts = <<x>>
      BY <1>1, <2>2
    <3>2. \E f : f = [i \in 1..1 |-> IF i = 1 THEN <<x>>[i] ELSE f[i - 1] \o <<x>>[i]]
      <4> DEFINE f == [i \in 1..1 |-> x]
      <4>1. f = [i \in 1..1 |-> IF i = 1 THEN <<x>>[i] ELSE f[i - 1] \o <<x>>[i]]
        OBVIOUS
      <4> QED BY <4>1
    <3>3. \A f : f = [i \in 1..1 |-> IF i = 1 THEN <<x>>[i] ELSE f[i - 1] \o <<x>>[i]] => f[1] = x
      OBVIOUS
    <3>4. Len(<<x>>) = 1
      OBVIOUS
    <3> HIDE DEF x
    <3>5. FlattenSeq(<<x>>) = x
      BY <3>2, <3>3, <3>4 DEF FlattenSeq
    <3> QED BY <2>2, <3>1, <3>5 DEF x
  <2> QED BY <2>1, <2>2
<1>3. (IF chain = <<>> THEN NoPage ELSE Last(chain)) = from
  BY <1>1 DEF Last
<1> QED BY <1>2, <1>3 DEF Loaded

-----------------------------------------------------------------------------
(* The inductive invariant.                                                 *)
Pagers ==
  [free : Seq(Ids), nextPageId : 0 .. MaxPages, allocated : BOOLEAN, newly : Nat,
   root : Ids \cup {NoPage}, tail : Ids \cup {NoPage}, mem : [Ids -> Content],
   dirty : SUBSET Ids]

Typed ==
  /\ pager \in Pagers /\ disk \in [Ids -> Content] /\ header \in Ids \cup {NoPage}
  /\ owned \in SUBSET Ids /\ lost \in SUBSET Ids
  /\ phase \in {"open", "failed"} /\ overflowed \in BOOLEAN

\* Each page below nextPageId has one use.
Uses(s, own, gone) ==
  /\ IsInjective(s.free) /\ Roots \subseteq own
  /\ own \cap ToSet(s.free) = {} /\ s.root \notin own \cup ToSet(s.free)
  /\ gone \cap (own \cup ToSet(s.free) \cup {s.root}) = {}
  /\ own \cup ToSet(s.free) \cup ({s.root} \ {NoPage}) \cup gone = 0 .. s.nextPageId - 1

\* The free ids but the newly freed ones.
Settled(s) == {s.free[i] : i \in 1 .. Len(s.free) - s.newly}

\* The freelist page r, in memory or in the file; with no allocation since the
\* last commit it lists free ids only, none of them newly freed.
ListPage(page, s) ==
  /\ page.kind = "freelist" /\ page.next = NoPage /\ IsInjective(page.ids)
  /\ ~ s.allocated => ToSet(page.ids) \subseteq Settled(s)

\* There is at most one freelist page, which is not dirty.
List(s, pages, hd) ==
  /\ s.tail = s.root /\ hd = s.root
  /\ s.root # NoPage => /\ s.root \notin s.dirty
                        /\ ListPage(s.mem[s.root], s) /\ ListPage(pages[s.root], s)
  /\ ~ s.allocated => s.newly <= Len(s.free)

\* The pages below nextPageId exist, and a clean one is the file's copy.
Pages(s, pages) ==
  \A p \in Ids : /\ s.mem[p].kind # "none" <=> p < s.nextPageId
                 /\ p \notin s.dirty => pages[p] = s.mem[p] \/ p = s.root

Sound(s, pages, hd, own, gone) == Uses(s, own, gone) /\ List(s, pages, hd) /\ Pages(s, pages)

IInv == Typed /\ (~ overflowed => Sound(pager, disk, header, owned, lost))

-----------------------------------------------------------------------------
(* Lists of ids.                                                            *)
LEMMA IdFacts == 0 \in Ids /\ 1 \in Ids /\ Ids \subseteq Nat /\ NoPage \notin Ids
BY FreelistAssumption DEF Ids

LEMMA ListFacts ==
  ASSUME NEW q \in Seq(Ids)
  PROVE  /\ Len(q) \in Nat /\ DOMAIN q = 1..Len(q) /\ \A i \in 1..Len(q) : q[i] \in Ids
         /\ ToSet(q) \in SUBSET Ids /\ ToSet(q) = {q[i] : i \in 1..Len(q)}
<1>1. Len(q) \in Nat /\ DOMAIN q = 1..Len(q) /\ \A i \in 1..Len(q) : q[i] \in Ids
  BY LenProperties, ElementOfSeq
<1> QED BY <1>1 DEF ToSet

LEMMA HeadTail ==
  ASSUME NEW q \in Seq(Ids), q # <<>>
  PROVE  /\ Head(q) \in ToSet(q) /\ Head(q) \in Ids /\ Tail(q) \in Seq(Ids)
         /\ Len(Tail(q)) = Len(q) - 1 /\ Len(q) # 0
         /\ ToSet(q) = {Head(q)} \cup ToSet(Tail(q))
         /\ IsInjective(q) => IsInjective(Tail(q)) /\ Head(q) \notin ToSet(Tail(q))
<1> DEFINE t == Tail(q)
           n == Len(q)
<1>1. /\ n \in Nat /\ n # 0 /\ DOMAIN q = 1..n /\ Head(q) = q[1] /\ t \in Seq(Ids)
      /\ Len(t) = n - 1 /\ \A i \in 1..(n - 1) : t[i] = q[i + 1]
  BY ListFacts
<1>2. /\ ToSet(q) = {q[i] : i \in 1..n} /\ \A i \in 1..n : q[i] \in Ids
      /\ ToSet(t) = {t[i] : i \in 1..(n - 1)} /\ DOMAIN t = 1..(n - 1)
  BY <1>1, ListFacts
<1> HIDE DEF t, n
<1>3. \A i \in 1..n : i = 1 \/ (i - 1 \in 1..(n - 1) /\ t[i - 1] = q[i])
  <2> TAKE i \in 1..n
  <2>1. i = 1 \/ (i - 1 \in 1..(n - 1) /\ (i - 1) + 1 = i)
    BY <1>1
  <2> QED BY <1>1, <2>1
<1>4. \A i \in 1..(n - 1) : i + 1 \in 1..n /\ t[i] = q[i + 1] /\ i + 1 # 1
  BY <1>1
<1>5. ToSet(q) = {q[1]} \cup ToSet(t)
  <2>1. 1 \in 1..n
    BY <1>1
  <2>2. ASSUME NEW x \in ToSet(q) PROVE x = q[1] \/ x \in ToSet(t)
    BY ONLY <1>2, <1>3, <2>2
  <2>3. ASSUME NEW x \in ToSet(t) PROVE x \in ToSet(q)
    BY ONLY <1>2, <1>4, <2>3
  <2>4. q[1] \in ToSet(q)
    BY <1>2, <2>1
  <2> QED BY <2>2, <2>3, <2>4
<1>6. ASSUME IsInjective(q) PROVE IsInjective(t) /\ q[1] \notin ToSet(t)
  <2>1. \A i, j \in 1..n : q[i] = q[j] => i = j
    BY <1>1, <1>6 DEF IsInjective
  <2>2. \A i, j \in 1..(n - 1) : t[i] = t[j] => i = j
    <3> SUFFICES ASSUME NEW i \in 1..(n - 1), NEW j \in 1..(n - 1), t[i] = t[j] PROVE i = j
      OBVIOUS
    <3>1. i + 1 = j + 1
      BY <1>4, <2>1
    <3> QED BY <3>1
  <2>3. \A i \in 1..(n - 1) : t[i] # q[1]
    <3> SUFFICES ASSUME NEW i \in 1..(n - 1), t[i] = q[1] PROVE FALSE
      OBVIOUS
    <3>1. 1 \in 1..n
      BY <1>1
    <3> QED BY <1>4, <2>1, <3>1
  <2> QED BY <1>2, <2>2, <2>3 DEF IsInjective
<1> QED BY <1>1, <1>2, <1>5, <1>6 DEF t, n

LEMMA AppendFacts ==
  ASSUME NEW q \in Seq(Ids), NEW x \in Ids
  PROVE  /\ Append(q, x) \in Seq(Ids) /\ Len(Append(q, x)) = Len(q) + 1
         /\ \A i \in 1..Len(q) : Append(q, x)[i] = q[i]
         /\ Append(q, x)[Len(q) + 1] = x
         /\ ToSet(Append(q, x)) = ToSet(q) \cup {x}
         /\ IsInjective(q) /\ x \notin ToSet(q) => IsInjective(Append(q, x))
<1> DEFINE a == Append(q, x)
           n == Len(q)
<1>1. /\ n \in Nat /\ DOMAIN q = 1..n /\ ToSet(q) = {q[i] : i \in 1..n} /\ a \in Seq(Ids)
      /\ Len(a) = n + 1 /\ a[n + 1] = x /\ \A i \in 1..n : a[i] = q[i]
  BY ListFacts
<1>2. DOMAIN a = 1..(n + 1) /\ ToSet(a) = {a[i] : i \in 1..(n + 1)}
  BY <1>1, ListFacts
<1> HIDE DEF a, n
<1>3. n + 1 \in 1..(n + 1) /\ \A i \in 1..(n + 1) : i \in 1..n \/ i = n + 1
  BY <1>1
<1>4. 1..n \subseteq 1..(n + 1) /\ n + 1 \notin 1..n
  BY <1>1
<1>5. ToSet(a) = ToSet(q) \cup {x}
  <2>1. ASSUME NEW y \in ToSet(a) PROVE y \in ToSet(q) \cup {x}
    BY ONLY <1>1, <1>2, <1>3, <2>1
  <2>2. ASSUME NEW y \in ToSet(q) PROVE y \in ToSet(a)
    BY ONLY <1>1, <1>2, <1>4, <2>2
  <2>3. x \in ToSet(a)
    BY ONLY <1>1, <1>2, <1>3
  <2> QED BY ONLY <2>1, <2>2, <2>3
<1>6. ASSUME IsInjective(q), x \notin ToSet(q) PROVE IsInjective(a)
  <2> SUFFICES ASSUME NEW i \in 1..(n + 1), NEW j \in 1..(n + 1), a[i] = a[j] PROVE i = j
    BY <1>2 DEF IsInjective
  <2>1. \A k \in 1..n : a[k] \in ToSet(q)
    BY ONLY <1>1
  <2>2. CASE i \in 1..n /\ j \in 1..n
    BY <1>1, <1>6, <2>2 DEF IsInjective
  <2>3. CASE i = n + 1 \/ j = n + 1
    BY <1>1, <1>3, <1>6, <2>1, <2>3
  <2> QED BY <1>3, <2>2, <2>3
<1> QED BY <1>1, <1>5, <1>6 DEF a, n

LEMMA BlankFacts ==
  ASSUME NEW kind \in {"slotted", "freelist", "free", "none"}
  PROVE  /\ Blank(kind) \in Content /\ Blank(kind).kind = kind /\ Blank(kind).next = NoPage
         /\ Blank(kind).ids = <<>>
<1>1. <<>> \in Seq(Ids)
  OBVIOUS
<1> QED BY <1>1 DEF Blank, Content

-----------------------------------------------------------------------------
(* Taking a page and releasing one.                                         *)
Kinds == {"slotted", "freelist", "free", "none"}

LEMMA AllocatedIs ==
  ASSUME NEW s \in Pagers, NEW kind \in Kinds, NextId(s) < MaxPages
  PROVE  LET a == Allocated(s, kind)
         IN  /\ NextId(s) \in Ids /\ a \in Pagers
             /\ a.free = (IF s.free = <<>> THEN <<>> ELSE Tail(s.free))
             /\ a.nextPageId = (IF s.free = <<>> THEN s.nextPageId + 1 ELSE s.nextPageId)
             /\ a.allocated = TRUE /\ a.newly = s.newly /\ a.root = s.root /\ a.tail = s.tail
             /\ a.dirty = s.dirty \cup {NextId(s)}
             /\ a.mem = [s.mem EXCEPT ![NextId(s)] = Blank(kind)]
             /\ ToSet(a.free) \in SUBSET ToSet(s.free)
<1>1. /\ s.free \in Seq(Ids) /\ s.nextPageId \in 0..MaxPages /\ MaxPages \in Nat
      /\ s.mem \in [Ids -> Content] /\ s.dirty \in SUBSET Ids
  BY FreelistAssumption DEF Pagers
<1>2. NextId(s) \in Ids
  <2>1. CASE s.free = <<>>
    BY <1>1, <2>1 DEF NextId, Ids
  <2>2. CASE s.free # <<>>
    BY <1>1, <2>2, HeadTail DEF NextId
  <2> QED BY <2>1, <2>2
<1> DEFINE free == IF s.free = <<>> THEN <<>> ELSE Tail(s.free)
           next == IF s.free = <<>> THEN s.nextPageId + 1 ELSE s.nextPageId
           mem  == [s.mem EXCEPT ![NextId(s)] = Blank(kind)]
<1>3. free \in Seq(Ids) /\ ToSet(free) \in SUBSET ToSet(s.free)
  <2>1. CASE s.free = <<>>
    BY <1>1, <2>1
  <2>2. CASE s.free # <<>>
    BY <1>1, <2>2, HeadTail
  <2> QED BY <2>1, <2>2
<1>4. next \in 0..MaxPages
  BY <1>1 DEF NextId
<1>5. mem \in [Ids -> Content]
  BY <1>1, BlankFacts DEF Kinds
<1>6. Allocated(s, kind) = [s EXCEPT !.free = free, !.nextPageId = next, !.allocated = TRUE,
                                     !.mem = mem, !.dirty = s.dirty \cup {NextId(s)}]
  BY DEF Allocated, Pagers
<1> HIDE DEF free, next, mem
<1>7. /\ Allocated(s, kind) = [free |-> free, nextPageId |-> next, allocated |-> TRUE,
                               newly |-> s.newly, root |-> s.root, tail |-> s.tail, mem |-> mem,
                               dirty |-> s.dirty \cup {NextId(s)}]
      /\ s.newly \in Nat /\ s.root \in Ids \cup {NoPage} /\ s.tail \in Ids \cup {NoPage}
  BY <1>6 DEF Pagers
<1>8. Allocated(s, kind) \in Pagers
  BY <1>1, <1>2, <1>3, <1>4, <1>5, <1>7 DEF Pagers
<1> QED BY <1>2, <1>3, <1>7, <1>8 DEF free, next, mem

\* The page taken had no use, and the others keep theirs.
LEMMA AllocatedUses ==
  ASSUME NEW s \in Pagers, NEW own \in SUBSET Ids, NEW gone \in SUBSET Ids,
         NEW kind \in Kinds, NextId(s) < MaxPages, Uses(s, own, gone)
  PROVE  LET a == Allocated(s, kind)
         IN  /\ IsInjective(a.free) /\ NextId(s) \notin own \cup ToSet(a.free) \cup gone
             /\ NextId(s) # s.root
             /\ own \cup ToSet(a.free) \cup ({s.root} \ {NoPage}) \cup gone \cup {NextId(s)}
                  = 0 .. a.nextPageId - 1
<1> DEFINE a == Allocated(s, kind)
<1>1. /\ NextId(s) \in Ids /\ a.free = (IF s.free = <<>> THEN <<>> ELSE Tail(s.free))
      /\ a.nextPageId = (IF s.free = <<>> THEN s.nextPageId + 1 ELSE s.nextPageId)
  BY AllocatedIs
<1> HIDE DEF a
<1>2. s.free \in Seq(Ids) /\ s.nextPageId \in Nat /\ ToSet(<<>>) = {} /\ IsInjective(<<>>)
  BY FreelistAssumption DEF Pagers, ToSet, IsInjective
<1>3. /\ IsInjective(s.free) /\ own \cap ToSet(s.free) = {} /\ s.root \notin own \cup ToSet(s.free)
      /\ gone \cap (own \cup ToSet(s.free) \cup {s.root}) = {}
      /\ own \cup ToSet(s.free) \cup ({s.root} \ {NoPage}) \cup gone = 0 .. s.nextPageId - 1
  BY DEF Uses
<1>4. CASE s.free = <<>>
  <2>1. NextId(s) = s.nextPageId /\ s.nextPageId \notin 0 .. s.nextPageId - 1
        /\ (0 .. s.nextPageId - 1) \cup {s.nextPageId} = 0 .. (s.nextPageId + 1) - 1
        /\ s.nextPageId # NoPage
    BY <1>2, <1>4, FreelistAssumption DEF NextId
  <2> QED BY <1>1, <1>2, <1>3, <1>4, <2>1 DEF a
<1>5. CASE s.free # <<>>
  <2>1. /\ NextId(s) = Head(s.free) /\ ToSet(s.free) = {Head(s.free)} \cup ToSet(Tail(s.free))
        /\ IsInjective(Tail(s.free)) /\ Head(s.free) \notin ToSet(Tail(s.free))
    BY <1>2, <1>3, <1>5, HeadTail DEF NextId
  <2> QED BY <1>1, <1>3, <1>5, <2>1 DEF a
<1> QED BY <1>4, <1>5

LEMMA ReleasedIs ==
  ASSUME NEW s \in Pagers, NEW id \in Ids
  PROVE  LET a == Released(s, id)
         IN  /\ a \in Pagers /\ a.free = Append(s.free, id) /\ a.nextPageId = s.nextPageId
             /\ a.allocated = s.allocated /\ a.newly = s.newly + 1 /\ a.root = s.root
             /\ a.tail = s.tail /\ a.dirty = s.dirty \cup {id}
             /\ a.mem = [s.mem EXCEPT ![id] = Blank("free")]
<1>1. /\ s.free \in Seq(Ids) /\ s.newly \in Nat
      /\ s.mem \in [Ids -> Content] /\ s.dirty \in SUBSET Ids
  BY DEF Pagers
<1> DEFINE free == Append(s.free, id)
           mem  == [s.mem EXCEPT ![id] = Blank("free")]
<1>2. free \in Seq(Ids) /\ mem \in [Ids -> Content]
  BY <1>1, BlankFacts, AppendFacts
<1>3. Released(s, id) = [s EXCEPT !.free = free, !.newly = s.newly + 1, !.mem = mem,
                                  !.dirty = s.dirty \cup {id}]
  BY DEF Released, Pagers
<1> HIDE DEF free, mem
<1>4. /\ Released(s, id) = [free |-> free, nextPageId |-> s.nextPageId, allocated |-> s.allocated,
                            newly |-> s.newly + 1, root |-> s.root, tail |-> s.tail, mem |-> mem,
                            dirty |-> s.dirty \cup {id}]
      /\ s.nextPageId \in 0..MaxPages /\ s.allocated \in BOOLEAN
      /\ s.root \in Ids \cup {NoPage} /\ s.tail \in Ids \cup {NoPage}
  BY <1>3 DEF Pagers
<1>5. Released(s, id) \in Pagers
  BY <1>1, <1>2, <1>4 DEF Pagers
<1> QED BY <1>4, <1>5 DEF free, mem

\* The file's length tells the number of pages.
LEMMA PagesInIs ==
  ASSUME NEW pages, NEW n \in 1..MaxPages, \A p \in Ids : pages[p].kind # "none" <=> p < n
  PROVE  PagesIn(pages) = n
<1> DEFINE S == {p \in Ids : pages[p].kind # "none"}
<1>1. n \in Nat /\ n - 1 \in Ids /\ n - 1 < n /\ \A p \in Ids : p \in Int /\ (p < n => p <= n - 1)
  BY FreelistAssumption DEF Ids
<1>2. n - 1 \in S /\ \A p \in S : n - 1 >= p
  BY <1>1
<1>3. \A x \in S : (\A y \in S : x >= y) => x = n - 1
  <2> TAKE x \in S
  <2>1. x \in Int /\ (x >= n - 1 /\ n - 1 >= x => x = n - 1)
    BY <1>1
  <2> QED BY <1>2, <2>1
<1> HIDE DEF S
<1>4. Max(S) = n - 1
  BY <1>2, <1>3 DEF Max
<1> QED BY <1>1, <1>4 DEF PagesIn, S

-----------------------------------------------------------------------------
(* The invariant is established and preserved.                              *)
LEMMA InitInvariant == Init => IInv
<1> SUFFICES ASSUME Init PROVE IInv
  OBVIOUS
<1> DEFINE mem0 == [p \in Ids |-> IF p \in Roots THEN Blank("slotted") ELSE Blank("none")]
<1>1. /\ disk = mem0 /\ header = NoPage /\ pager = Loaded(mem0, NoPage) /\ owned = Roots
      /\ phase = "open" /\ overflowed = FALSE /\ lost = {}
  BY DEF Init
<1>2. mem0 \in [Ids -> Content] /\ \A p \in Ids : mem0[p].kind # "none" <=> p < 2
  <2>1. Blank("slotted") \in Content /\ Blank("none") \in Content
        /\ Blank("slotted").kind = "slotted" /\ Blank("none").kind = "none"
    BY BlankFacts
  <2>2. \A p \in Ids : p \in Roots <=> p < 2
    BY DEF Ids, Roots
  <2> QED BY <2>1, <2>2
<1> HIDE DEF mem0
<1>3. PagesIn(mem0) = 2
  <2>1. 2 \in 1..MaxPages
    BY FreelistAssumption
  <2> QED BY <1>2, <2>1, PagesInIs
<1>4. pager = [free |-> <<>>, nextPageId |-> 2, allocated |-> FALSE, newly |-> 0, root |-> NoPage,
               tail |-> NoPage, mem |-> mem0, dirty |-> {}]
  BY <1>1, <1>3, LoadedIs DEF Short
<1>5. Roots \subseteq Ids /\ 2 \in 0..MaxPages /\ <<>> \in Seq(Ids) /\ ToSet(<<>>) = {}
      /\ IsInjective(<<>>) /\ Roots = 0..1 /\ NoPage \notin Roots /\ Len(<<>>) = 0
  BY FreelistAssumption, IdFacts DEF Roots, ToSet, IsInjective
<1>6. Typed
  BY <1>1, <1>2, <1>4, <1>5 DEF Typed, Pagers
<1>7. Uses(pager, owned, lost)
  BY <1>1, <1>4, <1>5 DEF Uses
<1>8. List(pager, disk, header)
  BY <1>1, <1>4, <1>5 DEF List
<1>9. Pages(pager, disk)
  BY <1>1, <1>2, <1>4 DEF Pages
<1> QED BY <1>6, <1>7, <1>8, <1>9 DEF IInv, Sound

\* Facts of a state in which the pager is used.
LEMMA OpenFacts ==
  ASSUME IInv, Running
  PROVE  /\ Typed /\ Uses(pager, owned, lost) /\ List(pager, disk, header) /\ Pages(pager, disk)
         /\ pager \in Pagers /\ disk \in [Ids -> Content] /\ owned \in SUBSET Ids
         /\ lost \in SUBSET Ids /\ pager.free \in Seq(Ids) /\ Len(pager.free) \in Nat
         /\ pager.newly \in Nat /\ pager.mem \in [Ids -> Content] /\ pager.nextPageId \in 0..MaxPages
         /\ Len(pager.free) # 0 => pager.free # <<>>
BY ListFacts DEF IInv, Running, Sound, Typed, Pagers

LEMMA AllocateInvariant ==
  ASSUME IInv, Allocate
  PROVE  IInv'
<1> DEFINE n == NextId(pager)
           a == Allocated(pager, "slotted")
<1>0. /\ Running /\ n < MaxPages /\ pager' = a /\ owned' = owned \cup {n} /\ disk' = disk
      /\ header' = header /\ phase' = phase /\ overflowed' = overflowed /\ lost' = lost
  BY DEF Allocate
<1>1. /\ Typed /\ Uses(pager, owned, lost) /\ List(pager, disk, header) /\ Pages(pager, disk)
      /\ pager \in Pagers /\ disk \in [Ids -> Content] /\ owned \in SUBSET Ids
      /\ lost \in SUBSET Ids /\ pager.mem \in [Ids -> Content]
  BY <1>0, OpenFacts
<1>2. "slotted" \in Kinds /\ Blank("slotted").kind = "slotted"
  BY BlankFacts DEF Kinds
<1>3. /\ n \in Ids /\ a \in Pagers
      /\ a.nextPageId = (IF pager.free = <<>> THEN pager.nextPageId + 1 ELSE pager.nextPageId)
      /\ a.allocated = TRUE /\ a.root = pager.root /\ a.tail = pager.tail
      /\ a.dirty = pager.dirty \cup {n} /\ a.mem = [pager.mem EXCEPT ![n] = Blank("slotted")]
      /\ ToSet(a.free) \in SUBSET ToSet(pager.free)
  BY <1>0, <1>1, <1>2, AllocatedIs
<1>4. /\ IsInjective(a.free) /\ n \notin owned \cup ToSet(a.free) \cup lost /\ n # pager.root
      /\ owned \cup ToSet(a.free) \cup ({pager.root} \ {NoPage}) \cup lost \cup {n}
           = 0 .. a.nextPageId - 1
  BY <1>0, <1>1, <1>2, AllocatedUses
<1> HIDE DEF n, a
<1>5. Typed'
  BY <1>0, <1>1, <1>3 DEF Typed
<1>6. Uses(a, owned \cup {n}, lost)
  BY <1>1, <1>3, <1>4 DEF Uses
<1>7. List(a, disk, header)
  <2>1. pager.root # NoPage => a.mem[pager.root] = pager.mem[pager.root]
    BY <1>1, <1>3, <1>4 DEF Pagers
  <2> QED BY <1>1, <1>3, <1>4, <2>1 DEF List, ListPage
<1>8. Pages(a, disk)
  <2>1. \A p \in Ids : p # n => (p < a.nextPageId <=> p < pager.nextPageId)
    <3>1. CASE pager.free = <<>>
      BY <1>1, <1>3, <3>1 DEF n, NextId, Pagers, Ids
    <3>2. CASE pager.free # <<>>
      BY <1>3, <3>2
    <3> QED BY <3>1, <3>2
  <2>2. n < a.nextPageId
    <3>1. n \in 0 .. a.nextPageId - 1 /\ a.nextPageId \in Nat
      BY <1>3, <1>4, FreelistAssumption DEF Pagers
    <3> QED BY <3>1
  <2>3. ASSUME NEW p \in Ids
        PROVE /\ a.mem[p].kind # "none" <=> p < a.nextPageId
              /\ p \notin a.dirty => disk[p] = a.mem[p] \/ p = a.root
    <3>1. CASE p = n
      BY <1>1, <1>2, <1>3, <2>2, <3>1
    <3>2. CASE p # n
      <4>1. a.mem[p] = pager.mem[p]
        BY <1>1, <1>3, <3>2
      <4> QED BY <1>1, <1>3, <2>1, <3>2, <4>1 DEF Pages
    <3> QED BY <3>1, <3>2
  <2> QED BY <2>3 DEF Pages
<1> QED BY <1>0, <1>5, <1>6, <1>7, <1>8 DEF IInv, Sound

\* With one id more at the end, the ones before are as settled as they were.
LEMMA SettledAppend ==
  ASSUME NEW s \in Pagers, NEW id \in Ids
  PROVE  Settled(Released(s, id)) = Settled(s)
<1> DEFINE a == Released(s, id)
           k == Len(s.free) - s.newly
<1>1. /\ s.free \in Seq(Ids) /\ s.newly \in Nat /\ Len(s.free) \in Nat
      /\ a.free = Append(s.free, id) /\ a.newly = s.newly + 1
  <2>1. s.free \in Seq(Ids) /\ s.newly \in Nat /\ Len(s.free) \in Nat
    BY ListFacts DEF Pagers
  <2> HIDE DEF a
  <2>2. a.free = Append(s.free, id) /\ a.newly = s.newly + 1
    BY ReleasedIs DEF a
  <2> QED BY <2>1, <2>2
<1>2. Len(a.free) - a.newly = k /\ \A i \in 1..k : a.free[i] = s.free[i]
  <2> DEFINE q == s.free
  <2>1. q \in Seq(Ids) /\ a.free = Append(q, id)
    BY <1>1
  <2> HIDE DEF a, q
  <2>2. Len(Append(q, id)) = Len(q) + 1 /\ \A i \in 1..Len(q) : Append(q, id)[i] = q[i]
    BY <2>1, AppendFacts
  <2>3. \A i \in 1..k : i \in 1..Len(q)
    BY <1>1 DEF q
  <2>4. Len(a.free) - a.newly = k
    BY <1>1, <2>1, <2>2 DEF q
  <2> HIDE DEF k
  <2> QED BY <2>1, <2>2, <2>3, <2>4 DEF q
<1> HIDE DEF a, k
<1> QED BY <1>2 DEF Settled, a, k

LEMMA FreeInvariant ==
  ASSUME IInv, NEW id \in Ids, Free(id)
  PROVE  IInv'
<1> DEFINE a == Released(pager, id)
<1>0. /\ Running /\ id \in owned \ Roots /\ pager' = a /\ owned' = owned \ {id} /\ disk' = disk
      /\ header' = header /\ phase' = phase /\ overflowed' = overflowed /\ lost' = lost
  BY DEF Free
<1>1. /\ Typed /\ Uses(pager, owned, lost) /\ List(pager, disk, header) /\ Pages(pager, disk)
      /\ pager \in Pagers /\ disk \in [Ids -> Content] /\ owned \in SUBSET Ids
      /\ lost \in SUBSET Ids /\ pager.mem \in [Ids -> Content] /\ pager.free \in Seq(Ids)
      /\ Len(pager.free) \in Nat /\ pager.newly \in Nat /\ pager.nextPageId \in Nat
  BY <1>0, OpenFacts
<1>2. /\ a \in Pagers /\ a.free = Append(pager.free, id) /\ a.nextPageId = pager.nextPageId
      /\ a.allocated = pager.allocated /\ a.newly = pager.newly + 1 /\ a.root = pager.root
      /\ a.tail = pager.tail /\ a.dirty = pager.dirty \cup {id}
      /\ a.mem = [pager.mem EXCEPT ![id] = Blank("free")]
  BY <1>1, ReleasedIs
<1>3. /\ Len(a.free) = Len(pager.free) + 1 /\ ToSet(a.free) = ToSet(pager.free) \cup {id}
      /\ (IsInjective(pager.free) /\ id \notin ToSet(pager.free) => IsInjective(a.free))
  BY <1>1, <1>2, AppendFacts
<1>4. Settled(a) = Settled(pager)
  BY <1>1, SettledAppend
<1> HIDE DEF a
<1>5. Typed'
  BY <1>0, <1>1, <1>2 DEF Typed
<1>6. Uses(a, owned \ {id}, lost)
  BY <1>0, <1>1, <1>2, <1>3 DEF Uses
<1>7. List(a, disk, header)
  <2>1. pager.root # id
    BY <1>0, <1>1 DEF Uses
  <2>2. pager.root # NoPage => a.mem[pager.root] = pager.mem[pager.root]
    BY <1>1, <1>2, <2>1 DEF Pagers
  <2> QED BY <1>1, <1>2, <1>3, <1>4, <2>1, <2>2 DEF List, ListPage
<1>8. Pages(a, disk)
  <2>1. id < pager.nextPageId
    <3>1. id \in 0 .. pager.nextPageId - 1
      BY <1>0, <1>1 DEF Uses
    <3> QED BY <1>1, <3>1
  <2>2. Blank("free").kind = "free"
    BY BlankFacts
  <2>3. \A p \in Ids : p # id => a.mem[p] = pager.mem[p]
    BY <1>1, <1>2
  <2>4. a.mem[id].kind = "free"
    BY <1>1, <1>2, <2>2
  <2> QED BY <1>1, <1>2, <2>1, <2>3, <2>4 DEF Pages
<1> QED BY <1>0, <1>5, <1>6, <1>7, <1>8 DEF IInv, Sound

LEMMA EvictInvariant ==
  ASSUME IInv, NEW p \in Ids, Evict(p)
  PROVE  IInv'
<1>0. /\ Running /\ header' = header /\ owned' = owned /\ phase' = phase
      /\ overflowed' = overflowed /\ lost' = lost
  BY DEF Evict
<1>1. /\ Typed /\ Uses(pager, owned, lost) /\ List(pager, disk, header) /\ Pages(pager, disk)
      /\ pager \in Pagers /\ disk \in [Ids -> Content] /\ pager.mem \in [Ids -> Content]
      /\ pager.dirty \in SUBSET Ids
  BY <1>0, OpenFacts DEF Pagers
<1>2. CASE p \in pager.dirty
  <2>1. disk' = [disk EXCEPT ![p] = pager.mem[p]] /\ pager' = [pager EXCEPT !.dirty = @ \ {p}]
    BY <1>2 DEF Evict
  <2>2. /\ pager' \in Pagers /\ pager'.free = pager.free /\ pager'.nextPageId = pager.nextPageId
        /\ pager'.allocated = pager.allocated /\ pager'.newly = pager.newly
        /\ pager'.root = pager.root /\ pager'.tail = pager.tail /\ pager'.mem = pager.mem
        /\ pager'.dirty = pager.dirty \ {p}
    BY <1>1, <2>1 DEF Pagers
  <2>3. disk' \in [Ids -> Content] /\ disk'[p] = pager.mem[p] /\ \A q \in Ids : q # p => disk'[q] = disk[q]
    BY <1>1, <2>1
  <2>4. Typed'
    BY <1>0, <1>1, <2>2, <2>3 DEF Typed
  <2>5. Uses(pager', owned', lost')
    BY <1>0, <1>1, <2>2 DEF Uses
  <2>6. List(pager', disk', header')
    <3>1. pager.root # NoPage => p # pager.root /\ disk'[pager.root] = disk[pager.root]
      BY <1>1, <1>2, <2>3 DEF List, Pagers
    <3>2. Settled(pager') = Settled(pager)
      BY <2>2 DEF Settled
    <3> QED BY <1>0, <1>1, <2>2, <3>1, <3>2 DEF List, ListPage
  <2>7. Pages(pager', disk')
    BY <1>1, <2>2, <2>3 DEF Pages
  <2> QED BY <2>4, <2>5, <2>6, <2>7 DEF IInv, Sound
<1>3. CASE p \notin pager.dirty
  <2>1. pager' = [pager EXCEPT !.mem[p] = disk[p]] /\ disk' = disk /\ pager.mem[p] # disk[p]
    BY <1>3 DEF Evict
  <2>2. p = pager.root /\ p # NoPage
    BY <1>1, <1>3, <2>1, IdFacts DEF Pages
  <2>3. [pager.mem EXCEPT ![p] = disk[p]] \in [Ids -> Content]
    BY <1>1
  <2>4. /\ pager' \in Pagers /\ pager'.free = pager.free /\ pager'.nextPageId = pager.nextPageId
        /\ pager'.allocated = pager.allocated /\ pager'.newly = pager.newly
        /\ pager'.root = pager.root /\ pager'.tail = pager.tail /\ pager'.dirty = pager.dirty
        /\ pager'.mem = [pager.mem EXCEPT ![p] = disk[p]]
    BY <1>1, <2>1, <2>3 DEF Pagers
  <2>5. pager'.mem[p] = disk[p] /\ \A q \in Ids : q # p => pager'.mem[q] = pager.mem[q]
    BY <1>1, <2>4
  <2>6. Typed'
    BY <1>0, <1>1, <2>1, <2>4 DEF Typed
  <2>7. Uses(pager', owned', lost')
    BY <1>0, <1>1, <2>4 DEF Uses
  <2>8. List(pager', disk', header')
    <3>2. Settled(pager') = Settled(pager)
      BY <2>4 DEF Settled
    <3> QED BY <1>0, <1>1, <2>1, <2>2, <2>4, <2>5, <3>2 DEF List, ListPage
  <2>9. Pages(pager', disk')
    <3>1. disk[p].kind = pager.mem[p].kind
      <4>1. disk[p].kind = "freelist" /\ pager.mem[p].kind = "freelist"
        BY <1>1, <2>2 DEF List, ListPage
      <4> QED BY <4>1
    <3>2. p < pager.nextPageId
      <4>1. pager.mem[p].kind = "freelist"
        BY <1>1, <2>2 DEF List, ListPage
      <4> QED BY <1>1, <4>1 DEF Pages
    <3>3. disk[p].kind # "none"
      BY <1>1, <2>2 DEF List, ListPage
    <3> QED BY <1>1, <2>1, <2>2, <2>4, <2>5, <3>2, <3>3 DEF Pages
  <2> QED BY <2>6, <2>7, <2>8, <2>9 DEF IInv, Sound
<1> QED BY <1>2, <1>3

LEMMA ReopenInvariant ==
  ASSUME IInv, Reopen
  PROVE  IInv' /\ pager'.nextPageId = pager.nextPageId /\ ToSet(pager'.free) \in SUBSET ToSet(pager.free)
<1> DEFINE r == pager.root
           ids == IF r = NoPage THEN <<>> ELSE disk[r].ids
<1>0. /\ Running /\ Committed /\ pager' = Loaded(disk, header)
      /\ lost' = (0 .. pager'.nextPageId - 1) \ (owned \cup ToSet(pager'.free) \cup ChainPages(pager'))
      /\ disk' = disk /\ header' = header /\ owned' = owned /\ phase' = phase
      /\ overflowed' = overflowed
  BY DEF Reopen
<1>1. /\ Typed /\ Uses(pager, owned, lost) /\ List(pager, disk, header) /\ Pages(pager, disk)
      /\ pager \in Pagers /\ disk \in [Ids -> Content] /\ owned \in SUBSET Ids
      /\ pager.free \in Seq(Ids) /\ Len(pager.free) \in Nat /\ pager.nextPageId \in 0..MaxPages
      /\ r \in Ids \cup {NoPage} /\ MaxPages \in Nat
  BY <1>0, OpenFacts, FreelistAssumption DEF Pagers
<1>2. pager.dirty = {} /\ pager.allocated = FALSE /\ pager.newly = 0 /\ header = r
  BY <1>0, <1>1 DEF Committed, List, Pagers
<1>3. r # NoPage => /\ disk[r].kind = "freelist" /\ disk[r].next = NoPage /\ disk[r] \in Content
                    /\ IsInjective(disk[r].ids) /\ ToSet(disk[r].ids) \subseteq Settled(pager)
  BY <1>1, <1>2 DEF List, ListPage
<1>4. Settled(pager) = ToSet(pager.free)
  <2>1. Len(pager.free) - pager.newly = Len(pager.free)
    BY <1>1, <1>2
  <2> QED BY <1>1, <2>1, ListFacts DEF Settled
<1>5. ids \in Seq(Ids) /\ IsInjective(ids) /\ ToSet(ids) \in SUBSET ToSet(pager.free)
  <2>1. ToSet(<<>>) = {} /\ IsInjective(<<>>) /\ <<>> \in Seq(Ids)
    BY DEF ToSet, IsInjective
  <2>2. r # NoPage => disk[r].ids \in Seq(Ids)
    BY <1>3 DEF Content
  <2> QED BY <1>3, <1>4, <2>1, <2>2
<1>6. \A p \in Ids : disk[p].kind # "none" <=> p < pager.nextPageId
  <2> TAKE p \in Ids
  <2>1. CASE p = r
    <3>1. pager.mem[r].kind = "freelist" /\ disk[r].kind = "freelist"
      BY <1>1, <2>1, IdFacts DEF List, ListPage
    <3> QED BY <1>1, <2>1, <3>1 DEF Pages
  <2>2. CASE p # r
    BY <1>1, <1>2, <2>2 DEF Pages
  <2> QED BY <2>1, <2>2
<1>7. PagesIn(disk) = pager.nextPageId
  <2>1. pager.nextPageId # 0
    <3>1. 0 \in 0 .. pager.nextPageId - 1
      BY <1>1 DEF Uses, Roots
    <3> QED BY <1>1, <3>1
  <2>2. pager.nextPageId \in 1..MaxPages
    BY <1>1, <2>1
  <2> QED BY <1>6, <2>2, PagesInIs
<1>8. pager' = [free |-> ids, nextPageId |-> pager.nextPageId, allocated |-> FALSE, newly |-> 0,
                root |-> r, tail |-> r, mem |-> disk, dirty |-> {}]
  <2>1. Short(disk, r) /\ (r # NoPage => disk[r].ids \in Seq(Ids))
    BY <1>3, <1>5 DEF Short
  <2> QED BY <1>0, <1>2, <1>7, <2>1, LoadedIs
<1> HIDE DEF ids
<1>9. /\ pager'.free = ids /\ pager'.nextPageId = pager.nextPageId /\ pager'.root = r
      /\ pager'.tail = r /\ pager'.mem = disk /\ pager'.dirty = {} /\ pager'.newly = 0
      /\ pager'.allocated = FALSE
  BY <1>8
<1>10. pager' \in Pagers
  BY <1>1, <1>5, <1>8 DEF Pagers
<1>11. ChainPages(pager') = {r} \ {NoPage}
  <2>1. Short(pager'.mem, pager'.root)
    BY <1>3, <1>9 DEF Short
  <2> QED BY <1>9, <2>1, ChainPagesAre
<1>12. lost' = (0 .. pager.nextPageId - 1) \ (owned \cup ToSet(ids) \cup ({r} \ {NoPage}))
  BY <1>0, <1>9, <1>11
<1>13. Typed'
  <2>1. lost' \in SUBSET Ids
    BY <1>1, <1>12 DEF Ids
  <2> QED BY <1>0, <1>1, <1>10, <2>1 DEF Typed
<1>14. Uses(pager', owned', lost')
  <2>1. NoPage \notin 0 .. pager.nextPageId - 1
    BY <1>1, FreelistAssumption
  <2>2. /\ Roots \subseteq owned /\ owned \cap ToSet(ids) = {} /\ r \notin owned \cup ToSet(ids)
        /\ owned \cup ToSet(ids) \cup ({r} \ {NoPage}) \subseteq 0 .. pager.nextPageId - 1
    BY <1>1, <1>5 DEF Uses
  <2>3. lost' \cap (owned \cup ToSet(ids) \cup {r}) = {}
    BY ONLY <1>12, <2>1
  <2>4. owned \cup ToSet(ids) \cup ({r} \ {NoPage}) \cup lost' = 0 .. pager.nextPageId - 1
    BY ONLY <1>12, <2>2
  <2> QED BY <1>0, <1>5, <1>9, <2>2, <2>3, <2>4 DEF Uses
<1>15. List(pager', disk', header')
  <2>1. Settled(pager') = ToSet(ids)
    <3>1. Len(ids) \in Nat /\ Len(ids) - 0 = Len(ids) /\ ToSet(ids) = {ids[i] : i \in 1..Len(ids)}
      BY <1>5, ListFacts
    <3> QED BY <1>9, <3>1 DEF Settled
  <2>2. r # NoPage => ListPage(disk[r], pager')
    BY <1>3, <2>1 DEF ListPage, ids
  <2>3. 0 <= Len(ids)
    BY <1>5, ListFacts
  <2> QED BY <1>0, <1>2, <1>9, <2>2, <2>3 DEF List
<1>16. Pages(pager', disk')
  BY <1>0, <1>6, <1>9 DEF Pages
<1> QED BY <1>5, <1>9, <1>13, <1>14, <1>15, <1>16 DEF IInv, Sound

\* What depends on the variables a failed open leaves alone.
LEMMA OtherInvariant ==
  ASSUME IInv, OpenFails \/ UNCHANGED vars
  PROVE  IInv'
<1>1. /\ pager' = pager /\ disk' = disk /\ header' = header /\ owned' = owned
      /\ overflowed' = overflowed /\ lost' = lost /\ phase' \in {"open", "failed"}
  BY DEF OpenFails, vars, IInv, Typed
<1> QED BY <1>1 DEF IInv, Typed

-----------------------------------------------------------------------------
(* A list without repetition has as many elements as ids.                   *)
LEMMA ListCard ==
  ASSUME NEW q \in Seq(Ids), IsInjective(q)
  PROVE  IsFiniteSet(ToSet(q)) /\ Cardinality(ToSet(q)) = Len(q)
<1>1. /\ Len(q) \in Nat /\ DOMAIN q = 1..Len(q) /\ ToSet(q) = {q[i] : i \in 1..Len(q)}
  BY ListFacts
<1>2. \A i, j \in 1..Len(q) : q[i] = q[j] => i = j
  BY <1>1 DEF IsInjective
<1> DEFINE f == [i \in 1..Len(q) |-> q[i]]
<1>3. f \in Bijection(1..Len(q), ToSet(q))
  BY <1>1, <1>2 DEF Bijection, Injection, Surjection
<1>4. IsFiniteSet(1..Len(q)) /\ Cardinality(1..Len(q)) = Len(q)
  <2>1. 1 \in Int /\ Len(q) \in Int
    BY <1>1
  <2>2. /\ IsFiniteSet(1..Len(q))
        /\ Cardinality(1..Len(q)) = (IF 1 > Len(q) THEN 0 ELSE Len(q) - 1 + 1)
    BY ONLY <2>1, FS_Interval
  <2> QED BY <1>1, <2>2
<1> HIDE DEF f
<1>5. ExistsBijection(1..Len(q), ToSet(q))
  BY <1>3 DEF ExistsBijection
<1> QED BY <1>4, <1>5, FS_Bijection

-----------------------------------------------------------------------------
(* Writing the list.  What it leaves in any case: no page is taken from the *)
(* end of the file, and no id is added to the list but the old root's.      *)
Kept(s, t) ==
  /\ t \in Pagers /\ t.nextPageId = s.nextPageId
  /\ ToSet(t.free) \in SUBSET (ToSet(s.free) \cup ({s.root} \ {NoPage}))

\* A freelist page that lists free ids.
ListsFree(page, t) ==
  /\ page.kind = "freelist" /\ page.next = NoPage /\ IsInjective(page.ids)
  /\ ToSet(page.ids) \subseteq ToSet(t.free)

\* What it leaves when the list fits on one page.
Written(t, pages, own, gone) ==
  /\ Uses(t, own, gone) /\ Pages(t, pages) /\ t.tail = t.root
  /\ t.root # NoPage => /\ ListsFree(t.mem[t.root], t)
                        /\ t.root \notin t.dirty => ListsFree(pages[t.root], t)

\* One induction for the loops: a set of numbers with 0 and each next one.
LEMMA Upward ==
  ASSUME NEW n \in Nat, NEW S, 0 \in S, \A i \in 1..n : i - 1 \in S => i \in S
  PROVE  n \in S
<1> DEFINE T == {i \in 0..n : i \notin S}
<1> SUFFICES ASSUME T # {} PROVE FALSE
  OBVIOUS
<1>1. PICK m \in T : \A i \in T : m <= i
  <2>1. T \in SUBSET Nat
    OBVIOUS
  <2> QED BY <2>1, LeastOf
<1>2. m # 0
  BY <1>1
<1>3. m \in 1..n /\ m - 1 \in 0..n /\ m - 1 < m
  BY <1>1, <1>2
<1>4. m - 1 \in S
  BY <1>1, <1>3
<1> QED BY <1>1, <1>3, <1>4

LEMMA UnlistedResult ==
  ASSUME NEW s \in Pagers, NEW pages \in [Ids -> Content], NEW hd, NEW own \in SUBSET Ids,
         NEW gone \in SUBSET Ids, Sound(s, pages, hd, own, gone), s.free = <<>>
  PROVE  Kept(s, Unlisted(s)) /\ Written(Unlisted(s), pages, own, gone)
<1> DEFINE r == s.root
           u == Unlisted(s)
<1>1. /\ Uses(s, own, gone) /\ List(s, pages, hd) /\ Pages(s, pages) /\ r \in Ids \cup {NoPage}
      /\ Short(s.mem, r) /\ s.mem \in [Ids -> Content] /\ ToSet(<<>>) = {} /\ s.dirty \in SUBSET Ids
      /\ NoPage \notin Ids /\ s.free \in Seq(Ids) /\ s.nextPageId \in Nat
  BY IdFacts, FreelistAssumption DEF Sound, List, ListPage, Short, Pagers, ToSet
<1>2. CASE r = NoPage
  <2>1. ReleasedAll(s, Chain(s.mem, r)) = s
    BY <1>1, <1>2, ChainIs, FoldNone
  <2>2. u = [s EXCEPT !.root = NoPage, !.tail = NoPage]
    BY <2>1 DEF Unlisted
  <2>3. u = s
    <3>1. s.root = NoPage /\ s.tail = NoPage
      BY <1>1, <1>2 DEF List
    <3> HIDE DEF u, r
    <3> QED BY <2>2, <3>1 DEF Pagers
  <2>4. Kept(s, s) /\ Written(s, pages, own, gone)
    BY <1>1, <1>2 DEF Kept, Written, List
  <2> QED BY <2>3, <2>4
<1>3. CASE r # NoPage
  <2> DEFINE a == Released(s, r)
  <2>1. /\ a \in Pagers /\ a.free = Append(s.free, r) /\ a.nextPageId = s.nextPageId
        /\ a.dirty = s.dirty \cup {r} /\ a.mem = [s.mem EXCEPT ![r] = Blank("free")]
    BY <1>1, <1>3, ReleasedIs
  <2>2. ReleasedAll(s, Chain(s.mem, r)) = a
    BY <1>1, <1>3, ChainIs, FoldOne
  <2>3. u = [a EXCEPT !.root = NoPage, !.tail = NoPage]
    BY <2>2 DEF Unlisted
  <2> HIDE DEF a, u
  <2>4. /\ u \in Pagers /\ u.free = a.free /\ u.nextPageId = s.nextPageId /\ u.dirty = a.dirty
        /\ u.mem = a.mem /\ u.root = NoPage /\ u.tail = NoPage
    BY <2>1, <2>3 DEF Pagers
  <2>5. ToSet(a.free) = ToSet(s.free) \cup {r} /\ IsInjective(a.free)
    <3>1. r \in Ids /\ r \notin ToSet(s.free) /\ IsInjective(s.free)
      BY <1>1, <1>3 DEF Uses
    <3> DEFINE q == s.free
    <3>2. q \in Seq(Ids) /\ a.free = Append(q, r)
      BY <1>1, <2>1
    <3> HIDE DEF q, r
    <3>3. ToSet(Append(q, r)) = ToSet(q) \cup {r} /\ IsInjective(Append(q, r))
      BY ONLY <3>1, <3>2, AppendFacts DEF q
    <3> QED BY ONLY <3>2, <3>3 DEF q
  <2>6. Kept(s, u)
    BY <1>3, <2>4, <2>5 DEF Kept
  <2>7. Uses(u, own, gone)
    BY <1>1, <1>3, <2>4, <2>5 DEF Uses
  <2>8. Pages(u, pages)
    <3>1. Blank("free").kind = "free" /\ s.mem[r].kind = "freelist"
      BY <1>1, <1>3, BlankFacts DEF List, ListPage
    <3>2. u.mem[r].kind = "free" /\ \A q \in Ids : q # r => u.mem[q] = s.mem[q]
      BY <1>1, <1>3, <2>1, <2>4, <3>1
    <3> QED BY <1>1, <2>1, <2>4, <3>1, <3>2 DEF Pages
  <2> QED BY <2>4, <2>6, <2>7, <2>8 DEF Written, u
<1> QED BY <1>2, <1>3

\* The state of the loops of flushAll.
Loops ==
  [s : Pagers, at : Nat, first : Ids \cup {NoPage}, last : Ids \cup {NoPage}]

LEMMA BatchIs ==
  ASSUME NEW s \in Pagers, NEW at \in Nat, at <= Len(s.free)
  PROVE  /\ Batch(s, at) \in Seq(Ids) /\ Len(Batch(s, at)) \in Nat
         /\ at + Len(Batch(s, at)) <= Len(s.free)
         /\ at = 0 /\ Len(s.free) <= MaxPerPage => Batch(s, at) = s.free
<1>1. s.free \in Seq(Ids) /\ MaxPerPage \in Nat /\ Len(s.free) \in Nat
  BY ListFacts, FreelistAssumption DEF Pagers
<1> DEFINE m == IF at + MaxPerPage < Len(s.free) THEN at + MaxPerPage ELSE Len(s.free)
<1>2. at + 1 \in 1..(Len(s.free) + 1) /\ m \in 0..Len(s.free) /\ m <= Len(s.free)
      /\ m >= at
  BY <1>1
<1>3. (at = 0 /\ Len(s.free) <= MaxPerPage) => m = Len(s.free)
  BY <1>1
<1> HIDE DEF m
<1>4. SubSeq(s.free, at + 1, m) \in Seq(Ids) /\ Len(SubSeq(s.free, at + 1, m)) = m - at
  <2>1. at + 1 \in Int /\ m \in Int
    BY <1>1, <1>2
  <2>2. Len(SubSeq(s.free, at + 1, m)) = (IF at + 1 <= m THEN m - (at + 1) + 1 ELSE 0)
    BY <1>1, <2>1, SubSeqProperties
  <2>3. SubSeq(s.free, at + 1, m) \in Seq(Ids)
    BY <1>1, <1>2, <2>1, SubSeqProperties
  <2> QED BY <1>1, <1>2, <2>2, <2>3
<1>5. SubSeq(s.free, 1, Len(s.free)) = s.free
  BY <1>1
<1>6. Batch(s, at) = SubSeq(s.free, at + 1, m)
  BY DEF Batch, m
<1> QED BY <1>1, <1>2, <1>3, <1>4, <1>5, <1>6

LEMMA ListedIs ==
  ASSUME NEW st \in Loops, NEW id \in Ids, st.at <= Len(st.s.free)
  PROVE  LET l    == Listed(st, id)
             back == IF st.last = NoPage THEN {} ELSE {st.last}
         IN  /\ l \in Loops /\ l.at <= Len(l.s.free) /\ l.last = id
             /\ l.first = (IF st.first = NoPage THEN id ELSE st.first)
             /\ l.at = st.at + Len(Batch(st.s, st.at))
             /\ l.s.free = st.s.free /\ l.s.nextPageId = st.s.nextPageId
             /\ l.s.root = st.s.root /\ l.s.tail = st.s.tail
             /\ l.s.dirty = st.s.dirty \cup {id} \cup back
             /\ l.s.mem[id].kind = "freelist" /\ l.s.mem[id].next = NoPage
             /\ l.s.mem[id].ids = Batch(st.s, st.at)
             /\ \A q \in Ids : q # id /\ q \notin back => l.s.mem[q] = st.s.mem[q]
<1> DEFINE s     == st.s
           batch == Batch(st.s, st.at)
           back  == IF st.last = NoPage THEN {} ELSE {st.last}
           mem   == [q \in Ids |->
                      IF q = id THEN [Blank("freelist") EXCEPT !.ids = batch]
                      ELSE IF q \in back THEN [s.mem[q] EXCEPT !.next = id]
                      ELSE s.mem[q]]
           t     == [s EXCEPT !.mem = mem, !.dirty = s.dirty \cup {id} \cup back]
<1>1. /\ s \in Pagers /\ st.at \in Nat /\ st.first \in Ids \cup {NoPage}
      /\ st.last \in Ids \cup {NoPage} /\ s.mem \in [Ids -> Content] /\ s.dirty \in SUBSET Ids
      /\ back \in SUBSET Ids
  BY DEF Loops, Pagers
<1>2. batch \in Seq(Ids) /\ Len(batch) \in Nat /\ st.at + Len(batch) <= Len(s.free)
  BY <1>1, BatchIs
<1>3. DOMAIN s.mem = Ids
  BY <1>1
<1>4. Listed(st, id) = [s |-> t, at |-> st.at + Len(batch),
                        first |-> IF st.first = NoPage THEN id ELSE st.first, last |-> id]
  BY <1>3 DEF Listed
<1> HIDE DEF batch
<1>5. mem \in [Ids -> Content]
  <2>1. [Blank("freelist") EXCEPT !.ids = batch] \in Content
    BY <1>2, BlankFacts DEF Content
  <2>2. ASSUME NEW q \in Ids PROVE [s.mem[q] EXCEPT !.next = id] \in Content /\ s.mem[q] \in Content
    BY <1>1 DEF Content
  <2> QED BY <2>1, <2>2
<1>6. /\ mem[id].kind = "freelist" /\ mem[id].next = NoPage /\ mem[id].ids = batch
      /\ \A q \in Ids : q # id /\ q \notin back => mem[q] = s.mem[q]
  <2>1. mem[id] = [Blank("freelist") EXCEPT !.ids = batch]
    OBVIOUS
  <2>2. [Blank("freelist") EXCEPT !.ids = batch]
          = [kind |-> "freelist", next |-> NoPage, ids |-> batch]
    BY DEF Blank
  <2> QED BY <2>1, <2>2
<1> HIDE DEF mem
<1>7. /\ t \in Pagers /\ t.free = s.free /\ t.nextPageId = s.nextPageId /\ t.root = s.root
      /\ t.tail = s.tail /\ t.mem = mem /\ t.dirty = s.dirty \cup {id} \cup back
  BY <1>1, <1>5 DEF Pagers
<1> HIDE DEF t, back
<1>8. Listed(st, id) \in Loops
  BY <1>1, <1>2, <1>4, <1>7 DEF Loops
<1> QED BY <1>2, <1>4, <1>6, <1>7, <1>8 DEF batch, back

KeptLoop(s, st) ==
  /\ st \in Loops /\ st.at <= Len(st.s.free) /\ st.s.nextPageId = s.nextPageId
  /\ ToSet(st.s.free) \in SUBSET ToSet(s.free)

LEMMA ExtendedKeeps ==
  ASSUME NEW s \in Pagers, NEW st, KeptLoop(s, st), NEW turn
  PROVE  KeptLoop(s, Extended(st, turn))
<1>1. st \in Loops /\ st.s \in Pagers /\ st.at \in Nat /\ st.s.free \in Seq(Ids)
      /\ st.at <= Len(st.s.free)
  BY DEF KeptLoop, Loops, Pagers
<1>2. CASE st.at < Len(st.s.free)
  <2> DEFINE a == Allocated(st.s, "freelist")
             u == [st EXCEPT !.s = a]
             n == NextId(st.s)
  <2>1. st.s.free # <<>> /\ Len(st.s.free) \in Nat
    BY <1>1, <1>2, ListFacts
  <2>2. n \in Ids /\ Len(Tail(st.s.free)) = Len(st.s.free) - 1
    BY <1>1, <2>1, HeadTail DEF NextId
  <2>3. n < MaxPages
    BY <2>2, FreelistAssumption DEF Ids
  <2>4. /\ a \in Pagers /\ a.free = Tail(st.s.free) /\ a.nextPageId = st.s.nextPageId
        /\ ToSet(a.free) \in SUBSET ToSet(st.s.free)
    <3>1. "freelist" \in Kinds
      BY DEF Kinds
    <3> QED BY <1>1, <2>1, <2>3, <3>1, AllocatedIs
  <2> HIDE DEF a, n
  <2>5. u \in Loops /\ u.s = a /\ u.at = st.at
    BY <1>1, <2>4 DEF Loops
  <2> HIDE DEF u
  <2>6. u.at <= Len(u.s.free)
    <3> DEFINE k == Len(st.s.free)
               j == Len(Tail(st.s.free))
    <3>1. u.at = st.at /\ Len(u.s.free) = j
      BY <2>4, <2>5
    <3>2. st.at < k /\ k \in Nat /\ st.at \in Nat /\ j = k - 1
      BY <1>1, <1>2, <2>1, <2>2
    <3> HIDE DEF k, j
    <3> QED BY ONLY <3>1, <3>2
  <2>7. /\ Listed(u, n) \in Loops /\ Listed(u, n).at <= Len(Listed(u, n).s.free)
        /\ Listed(u, n).s.free = u.s.free /\ Listed(u, n).s.nextPageId = u.s.nextPageId
    BY <2>2, <2>5, <2>6, ListedIs
  <2>8. Extended(st, turn) = Listed(u, n)
    BY <1>2 DEF Extended, u, a, n
  <2> QED BY <2>4, <2>5, <2>7, <2>8 DEF KeptLoop
<1>3. CASE ~ (st.at < Len(st.s.free))
  BY <1>3 DEF Extended
<1> QED BY <1>2, <1>3

LEMMA ExtendedLoopKeeps ==
  ASSUME NEW s \in Pagers, NEW st, KeptLoop(s, st), NEW n \in Nat, NEW seq, NEW f,
         ExtendedRun(f, st, n, seq)
  PROVE  KeptLoop(s, f[n])
<1> DEFINE S == {i \in 0..n : KeptLoop(s, f[i])}
<1>1. 0 \in S
  BY DEF ExtendedRun
<1>2. ASSUME NEW i \in 1..n, i - 1 \in S PROVE i \in S
  <2>1. KeptLoop(s, f[i - 1]) /\ f[i] = Extended(f[i - 1], seq[i])
    BY <1>2 DEF ExtendedRun
  <2>2. KeptLoop(s, f[i])
    BY <2>1, ExtendedKeeps
  <2> QED BY <2>2
<1>3. n \in S
  <2> HIDE DEF S
  <2> QED BY <1>1, <1>2, Upward
<1> QED BY <1>3

\* Once all is listed the turns left change nothing.
LEMMA ExtendedLoopEnds ==
  ASSUME NEW st, NEW n \in Nat, NEW seq, NEW f, ExtendedRun(f, st, n, seq),
         NEW k \in 0..n, ~ (f[k].at < Len(f[k].s.free))
  PROVE  f[n] = f[k]
<1> DEFINE S == {i \in 0..n : i < k \/ f[i] = f[k]}
<1>1. 0 \in S
  OBVIOUS
<1>2. ASSUME NEW i \in 1..n, i - 1 \in S PROVE i \in S
  <2>1. CASE i <= k
    BY <2>1
  <2>2. CASE i > k
    <3>1. f[i - 1] = f[k]
      BY <1>2, <2>2
    <3>2. f[i] = Extended(f[i - 1], seq[i])
      BY DEF ExtendedRun
    <3> QED BY <3>1, <3>2 DEF Extended
  <2> QED BY <2>1, <2>2
<1>3. n \in S
  <2> HIDE DEF S
  <2> QED BY <1>1, <1>2, Upward
<1> QED BY <1>3

LEMMA AtLeastOnePage ==
  ASSUME NEW a \in Nat, NEW b \in Nat, a # 0, b # 0
  PROVE  (a + b - 1) \div b \in Int /\ (a + b - 1) \div b >= 1
<1>1. a + b - 1 \in Nat /\ a + b - 1 >= b
  OBVIOUS
<1>2. \A c \in Nat : c >= b => c \div b \in Int /\ c \div b >= 1
  OBVIOUS
<1> QED BY <1>1, <1>2

Start(s) == [s |-> s, at |-> 0, first |-> NoPage, last |-> NoPage]

\* The old freelist page, if there is one, is filled first.
Filled(s) == IF s.root = NoPage THEN Start(s) ELSE Listed(Start(s), s.root)

Turns(s) == [turn \in 1 .. Len(s.free) |-> turn]

LEMMA ListedAllIs ==
  ASSUME NEW s \in Pagers, Short(s.mem, s.root), s.free # <<>>
  PROVE  LET done == FoldLeft(Extended, Filled(s), Turns(s))
         IN  ListedAll(s) = [done.s EXCEPT !.root = done.first, !.tail = done.last]
<1> DEFINE r == s.root
           chain == Chain(s.mem, r)
           needed == (Len(s.free) + MaxPerPage - 1) \div MaxPerPage
           n == Reused(s, chain)
           filled == FoldLeft(Listed, Start(s), SubSeq(chain, 1, n))
           done == FoldLeft(Extended, filled, Turns(s))
           end == [done.s EXCEPT !.root = done.first, !.tail = done.last]
<1>1. needed \in Int /\ needed >= 1
  <2>1. Len(s.free) \in Nat /\ Len(s.free) # 0 /\ MaxPerPage \in Nat /\ MaxPerPage # 0
    BY ListFacts, FreelistAssumption DEF Pagers
  <2> QED BY <2>1, AtLeastOnePage
<1>2. chain = IF r = NoPage THEN <<>> ELSE <<r>>
  BY ChainIs
<1>3. ListedAll(s) = ReleasedAll(end, SubSeq(chain, n + 1, Len(chain)))
  BY DEF ListedAll, Start, Turns
<1> HIDE DEF needed
<1>4. n = IF needed < Len(chain) THEN needed ELSE Len(chain)
  BY DEF Reused, needed
<1>5. n = Len(chain) /\ filled = Filled(s)
  <2>1. CASE r = NoPage
    <3>1. Len(chain) = 0 /\ n = 0 /\ SubSeq(chain, 1, n) = <<>>
      BY <1>1, <1>2, <1>4, <2>1
    <3> QED BY <2>1, <3>1, FoldNone DEF Filled
  <2>2. CASE r # NoPage
    <3>0. chain = <<r>> /\ Len(<<r>>) = 1
      BY <1>2, <2>2
    <3> HIDE DEF chain, n, r
    <3>1. Len(chain) = 1 /\ n = 1 /\ SubSeq(chain, 1, n) = <<r>>
      <4>1. n = 1
        BY ONLY <1>1, <1>4, <3>0
      <4>2. SubSeq(<<r>>, 1, 1) = <<r>>
        <5>1. <<r>> \in Seq({r}) /\ Len(<<r>>) = 1
          OBVIOUS
        <5>2. SubSeq(<<r>>, 1, Len(<<r>>)) = <<r>>
          BY <5>1, SubSeqFull
        <5> QED BY <5>1, <5>2
      <4> QED BY <3>0, <4>1, <4>2
    <3>2. filled = FoldLeft(Listed, Start(s), <<r>>)
      BY <3>1
    <3> QED BY ONLY <2>2, <3>1, <3>2, FoldOne DEF Filled, r
  <2> QED BY <2>1, <2>2
<1>6. SubSeq(chain, n + 1, Len(chain)) = <<>>
  <2>1. Len(chain) \in Nat
    BY <1>2
  <2> HIDE DEF chain, n
  <2> QED BY <1>5, <2>1
<1>7. end = [FoldLeft(Extended, Filled(s), Turns(s)).s EXCEPT
              !.root = FoldLeft(Extended, Filled(s), Turns(s)).first,
              !.tail = FoldLeft(Extended, Filled(s), Turns(s)).last]
  BY <1>5
<1> HIDE DEF end, chain, n
<1> QED BY <1>3, <1>6, <1>7, FoldNone

LEMMA FilledKeeps ==
  ASSUME NEW s \in Pagers
  PROVE  KeptLoop(s, Filled(s)) /\ KeptLoop(s, Start(s))
<1>1. s.free \in Seq(Ids) /\ Len(s.free) \in Nat /\ s.root \in Ids \cup {NoPage}
  BY ListFacts DEF Pagers
<1>2. Start(s) \in Loops /\ Start(s).s = s /\ Start(s).at = 0 /\ Start(s).at <= Len(Start(s).s.free)
  BY <1>1 DEF Start, Loops
<1>3. CASE s.root = NoPage
  BY <1>2, <1>3 DEF KeptLoop, Filled
<1>4. CASE s.root # NoPage
  <2> DEFINE l == Listed(Start(s), s.root)
  <2>1. /\ l \in Loops /\ l.at <= Len(l.s.free) /\ l.s.free = s.free
        /\ l.s.nextPageId = s.nextPageId
    <3> DEFINE b == Start(s)
    <3>1. s.root \in Ids /\ b \in Loops /\ b.s = s /\ b.at <= Len(b.s.free)
      BY <1>1, <1>2, <1>4
    <3> HIDE DEF b
    <3>2. /\ l \in Loops /\ l.at <= Len(l.s.free) /\ l.s.free = b.s.free
          /\ l.s.nextPageId = b.s.nextPageId
      BY ONLY <3>1, ListedIs DEF b
    <3> QED BY ONLY <3>1, <3>2
  <2> QED BY <1>2, <1>4, <2>1 DEF KeptLoop, Filled
<1> QED BY <1>3, <1>4

LEMMA ListedAllKeeps ==
  ASSUME NEW s \in Pagers, Short(s.mem, s.root), s.free # <<>>
  PROVE  Kept(s, ListedAll(s))
<1> DEFINE done == FoldLeft(Extended, Filled(s), Turns(s))
           end  == [done.s EXCEPT !.root = done.first, !.tail = done.last]
<1>1. Len(s.free) \in Nat /\ DOMAIN Turns(s) = 1..Len(s.free)
  BY ListFacts DEF Turns, Pagers
<1>2. PICK f : ExtendedRun(f, Filled(s), Len(s.free), Turns(s))
  BY <1>1, ExtendedTurns
<1>3. KeptLoop(s, done)
  <2>1. KeptLoop(s, f[Len(s.free)])
    BY <1>1, <1>2, FilledKeeps, ExtendedLoopKeeps
  <2> QED BY <1>2, <2>1 DEF ExtendedRun
<1>4. ListedAll(s) = end
  BY ListedAllIs
<1> HIDE DEF done
<1>5. end \in Pagers /\ end.free = done.s.free /\ end.nextPageId = done.s.nextPageId
  BY <1>3 DEF KeptLoop, Loops, Pagers
<1> QED BY <1>3, <1>4, <1>5 DEF Kept, KeptLoop

\* The list is written to its page, which has room for it.
LEMMA ListedAllOnPage ==
  ASSUME NEW s \in Pagers, NEW pages \in [Ids -> Content], NEW hd, NEW own \in SUBSET Ids,
         NEW gone \in SUBSET Ids, Sound(s, pages, hd, own, gone), s.free # <<>>,
         s.root # NoPage, ~ Overflow(s)
  PROVE  Written(ListedAll(s), pages, own, gone)
<1> DEFINE r == s.root
           b == Start(s)
           l == Listed(b, r)
           done == FoldLeft(Extended, Filled(s), Turns(s))
           end == [done.s EXCEPT !.root = done.first, !.tail = done.last]
<1>1. /\ Uses(s, own, gone) /\ List(s, pages, hd) /\ Pages(s, pages) /\ r \in Ids
      /\ Short(s.mem, r) /\ s.free \in Seq(Ids) /\ Len(s.free) \in Nat /\ s.mem \in [Ids -> Content]
      /\ s.dirty \in SUBSET Ids
  BY ListFacts DEF Sound, List, ListPage, Short, Pagers
<1>2. Len(s.free) <= MaxPerPage
  BY <1>1, FreelistAssumption DEF Overflow
<1>3. /\ b \in Loops /\ b.s = s /\ b.at = 0 /\ b.first = NoPage /\ b.last = NoPage
      /\ b.at <= Len(b.s.free)
  BY <1>1 DEF Start, Loops
<1>4. Batch(s, 0) = s.free
  BY <1>1, <1>2, BatchIs
<1> HIDE DEF b
<1>5. /\ l \in Loops /\ l.last = r /\ l.first = r /\ l.at = 0 + Len(s.free)
      /\ l.s.free = s.free /\ l.s.nextPageId = s.nextPageId /\ l.s.dirty = s.dirty \cup {r}
      /\ l.s.mem[r].kind = "freelist" /\ l.s.mem[r].next = NoPage /\ l.s.mem[r].ids = s.free
      /\ \A q \in Ids : q # r => l.s.mem[q] = s.mem[q]
  <2> HIDE DEF r, l
  <2>1. /\ l \in Loops /\ l.last = r /\ l.first = (IF b.first = NoPage THEN r ELSE b.first)
        /\ l.at = b.at + Len(Batch(b.s, b.at)) /\ l.s.free = b.s.free
        /\ l.s.nextPageId = b.s.nextPageId
        /\ l.s.dirty = b.s.dirty \cup {r} \cup (IF b.last = NoPage THEN {} ELSE {b.last})
        /\ l.s.mem[r].kind = "freelist" /\ l.s.mem[r].next = NoPage
        /\ l.s.mem[r].ids = Batch(b.s, b.at)
        /\ \A q \in Ids : q # r /\ q \notin (IF b.last = NoPage THEN {} ELSE {b.last})
                            => l.s.mem[q] = b.s.mem[q]
    <3>1. r \in Ids /\ b \in Loops /\ b.at <= Len(b.s.free)
      BY ONLY <1>1, <1>3
    <3> QED BY ONLY <3>1, ListedIs DEF l
  <2> QED BY ONLY <1>3, <1>4, <2>1
<1>6. done = l
  <2>1. Len(s.free) \in Nat /\ DOMAIN Turns(s) = 1..Len(s.free) /\ 0 \in 0..Len(s.free)
    BY <1>1 DEF Turns
  <2>2. PICK f : ExtendedRun(f, l, Len(s.free), Turns(s))
    BY <2>1, ExtendedTurns
  <2>3. f[0] = l /\ ~ (l.at < Len(l.s.free))
    BY <1>1, <1>5, <2>2 DEF ExtendedRun
  <2> HIDE DEF l
  <2>4. f[Len(s.free)] = f[0]
    <3> DEFINE n == Len(s.free)
    <3>1. n \in Nat /\ 0 \in 0..n /\ ExtendedRun(f, l, n, Turns(s)) /\ ~ (f[0].at < Len(f[0].s.free))
      BY <2>1, <2>2, <2>3
    <3> HIDE DEF n
    <3> QED BY ONLY <3>1, ExtendedLoopEnds DEF n
  <2> QED BY <2>2, <2>3, <2>4 DEF ExtendedRun, Filled, l, b
<1>7. ListedAll(s) = end
  BY <1>1, ListedAllIs
<1> HIDE DEF done, l
<1>8. /\ end.free = s.free /\ end.nextPageId = s.nextPageId /\ end.dirty = s.dirty \cup {r}
      /\ end.mem = l.s.mem /\ end.root = r /\ end.tail = r
  BY <1>5, <1>6 DEF Loops, Pagers
<1> HIDE DEF end
<1>9. Uses(end, own, gone)
  BY <1>1, <1>8 DEF Uses
<1>10. Pages(end, pages)
  <2>1. s.mem[r].kind = "freelist"
    BY <1>1 DEF List, ListPage
  <2> QED BY <1>1, <1>5, <1>8, <2>1 DEF Pages
<1>11. ListsFree(end.mem[r], end) /\ r \in end.dirty
  BY <1>1, <1>5, <1>8 DEF ListsFree, Uses
<1> QED BY <1>7, <1>8, <1>9, <1>10, <1>11 DEF Written

\* With no page yet the first free id becomes one, and the others are listed.
LEMMA ListedAllOnNewPage ==
  ASSUME NEW s \in Pagers, NEW pages \in [Ids -> Content], NEW hd, NEW own \in SUBSET Ids,
         NEW gone \in SUBSET Ids, Sound(s, pages, hd, own, gone), s.free # <<>>,
         s.root = NoPage, ~ Overflow(s)
  PROVE  Written(ListedAll(s), pages, own, gone)
<1> DEFINE h == NextId(s)
           a == Allocated(s, "freelist")
           u == [Start(s) EXCEPT !.s = a]
           l == Listed(u, h)
           done == FoldLeft(Extended, Filled(s), Turns(s))
           end == [done.s EXCEPT !.root = done.first, !.tail = done.last]
<1>1. /\ Uses(s, own, gone) /\ Pages(s, pages) /\ Short(s.mem, s.root)
      /\ s.free \in Seq(Ids) /\ Len(s.free) \in Nat /\ s.mem \in [Ids -> Content]
      /\ s.dirty \in SUBSET Ids /\ Len(s.free) # 0 /\ h = Head(s.free) /\ h \in Ids
      /\ Len(Tail(s.free)) = Len(s.free) - 1 /\ NoPage \notin Ids /\ "freelist" \in Kinds
  BY ListFacts, HeadTail, IdFacts DEF Sound, Short, Pagers, NextId, Kinds
<1>2. h < MaxPages
  BY <1>1, FreelistAssumption DEF Ids
<1>3. /\ a \in Pagers /\ a.free = Tail(s.free) /\ a.nextPageId = s.nextPageId
      /\ a.dirty = s.dirty \cup {h} /\ a.mem = [s.mem EXCEPT ![h] = Blank("freelist")]
  BY <1>1, <1>2, AllocatedIs
<1>4. /\ IsInjective(a.free) /\ h \notin own \cup ToSet(a.free) \cup gone
      /\ own \cup ToSet(a.free) \cup gone \cup {h} = 0 .. a.nextPageId - 1
  <2>1. /\ s \in Pagers /\ own \in SUBSET Ids /\ gone \in SUBSET Ids /\ "freelist" \in Kinds
        /\ NextId(s) < MaxPages /\ Uses(s, own, gone) /\ s.root = NoPage
    BY <1>1, <1>2
  <2>2. /\ IsInjective(a.free) /\ NextId(s) \notin own \cup ToSet(a.free) \cup gone
        /\ own \cup ToSet(a.free) \cup ({s.root} \ {NoPage}) \cup gone \cup {NextId(s)}
             = 0 .. a.nextPageId - 1
    BY ONLY <2>1, AllocatedUses
  <2>3. {s.root} \ {NoPage} = {}
    BY <2>1
  <2> HIDE DEF a
  <2> QED BY <2>2, <2>3
<1>5. Len(a.free) <= MaxPerPage /\ Len(a.free) \in Nat /\ a.free \in Seq(Ids)
  <2>1. Len(s.free) <= MaxPerPage + 1 /\ MaxPerPage \in Nat
    BY <1>1, FreelistAssumption DEF Overflow
  <2>2. a.free \in Seq(Ids) /\ Len(a.free) \in Nat
    BY <1>3, ListFacts DEF Pagers
  <2> HIDE DEF a
  <2> QED BY <1>1, <1>3, <2>1, <2>2
<1>6. Batch(a, 0) = a.free
  BY <1>3, <1>5, BatchIs
<1>7. /\ Extended(Start(s), 1) = l /\ Start(s).s = s
  BY <1>1 DEF Extended, Start
<1> HIDE DEF a, h
<1>8. /\ u \in Loops /\ u.s = a /\ u.at = 0 /\ u.first = NoPage /\ u.last = NoPage
      /\ u.at <= Len(u.s.free)
  BY <1>3, <1>5 DEF Start, Loops
<1> HIDE DEF u
<1>9. /\ l \in Loops /\ l.last = h /\ l.first = h /\ l.at = 0 + Len(a.free)
      /\ l.s.free = a.free /\ l.s.nextPageId = a.nextPageId /\ l.s.dirty = a.dirty \cup {h}
      /\ l.s.mem[h].kind = "freelist" /\ l.s.mem[h].next = NoPage /\ l.s.mem[h].ids = a.free
      /\ \A q \in Ids : q # h => l.s.mem[q] = a.mem[q]
  <2> HIDE DEF l
  <2>1. /\ l \in Loops /\ l.last = h /\ l.first = (IF u.first = NoPage THEN h ELSE u.first)
        /\ l.at = u.at + Len(Batch(u.s, u.at)) /\ l.s.free = u.s.free
        /\ l.s.nextPageId = u.s.nextPageId
        /\ l.s.dirty = u.s.dirty \cup {h} \cup (IF u.last = NoPage THEN {} ELSE {u.last})
        /\ l.s.mem[h].kind = "freelist" /\ l.s.mem[h].next = NoPage
        /\ l.s.mem[h].ids = Batch(u.s, u.at)
        /\ \A q \in Ids : q # h /\ q \notin (IF u.last = NoPage THEN {} ELSE {u.last})
                            => l.s.mem[q] = u.s.mem[q]
    <3>1. h \in Ids /\ u \in Loops /\ u.at <= Len(u.s.free)
      BY ONLY <1>1, <1>8
    <3> QED BY ONLY <3>1, ListedIs DEF l
  <2> QED BY ONLY <1>6, <1>8, <2>1
<1>10. done = l
  <2>1. Len(s.free) \in Nat /\ DOMAIN Turns(s) = 1..Len(s.free) /\ 1 \in 1..Len(s.free)
        /\ 1 \in 0..Len(s.free) /\ Turns(s)[1] = 1
    BY <1>1 DEF Turns
  <2>2. PICK f : ExtendedRun(f, Start(s), Len(s.free), Turns(s))
    BY <2>1, ExtendedTurns
  <2> HIDE DEF l
  <2>3. f[1] = l
    <3>1. f[1] = Extended(f[1 - 1], Turns(s)[1]) /\ f[0] = Start(s)
      BY <2>1, <2>2 DEF ExtendedRun
    <3> QED BY <1>7, <2>1, <3>1
  <2>4. ~ (l.at < Len(l.s.free))
    BY <1>5, <1>9
  <2>5. f[Len(s.free)] = f[1]
    <3> DEFINE n == Len(s.free)
    <3>1. /\ n \in Nat /\ 1 \in 0..n /\ ExtendedRun(f, Start(s), n, Turns(s))
          /\ ~ (f[1].at < Len(f[1].s.free))
      BY <2>1, <2>2, <2>3, <2>4
    <3> HIDE DEF n
    <3> QED BY ONLY <3>1, ExtendedLoopEnds DEF n
  <2> QED BY <2>2, <2>3, <2>5 DEF ExtendedRun, Filled
<1>11. ListedAll(s) = end
  BY <1>1, ListedAllIs
<1> HIDE DEF done, l
<1>12. /\ end.free = a.free /\ end.nextPageId = s.nextPageId /\ end.dirty = s.dirty \cup {h}
       /\ end.mem = l.s.mem /\ end.root = h /\ end.tail = h
  BY <1>3, <1>9, <1>10 DEF Loops, Pagers
<1> HIDE DEF end
<1>13. /\ end.mem[h].kind = "freelist" /\ \A q \in Ids : q # h => end.mem[q] = s.mem[q]
  BY <1>1, <1>3, <1>9, <1>12
<1>14. Uses(end, own, gone)
  <2>1. Roots \subseteq own /\ own \cap ToSet(a.free) = {} /\ gone \cap (own \cup ToSet(a.free)) = {}
    <3>1. ToSet(a.free) \subseteq ToSet(s.free)
      BY <1>1, <1>3, HeadTail
    <3> QED BY <1>1, <3>1 DEF Uses
  <2> QED BY <1>1, <1>3, <1>4, <1>12, <2>1 DEF Uses
<1>15. Pages(end, pages)
  <2>1. h < s.nextPageId
    <3>1. h \in 0 .. s.nextPageId - 1 /\ s.nextPageId \in Nat
      BY <1>3, <1>4, FreelistAssumption DEF Pagers
    <3> QED BY <3>1
  <2>2. s.root \notin Ids
    BY <1>1
  <2> QED BY <1>1, <1>12, <1>13, <2>1, <2>2 DEF Pages
<1>16. ListsFree(end.mem[h], end) /\ h \in end.dirty
  BY <1>4, <1>9, <1>12 DEF ListsFree
<1> QED BY <1>11, <1>12, <1>14, <1>15, <1>16 DEF Written

-----------------------------------------------------------------------------
(* flushAppendOnly.                                                         *)
KeptAppend(s, st) ==
  /\ st \in [s : Pagers, from : Ids, to : Ids, stray : Ids]
  /\ st.s.nextPageId = s.nextPageId /\ ToSet(st.s.free) \in SUBSET ToSet(s.free)

LEMMA AppendedKeeps ==
  ASSUME NEW s \in Pagers, NEW st, KeptAppend(s, st), NEW i \in Nat, i # 0
  PROVE  KeptAppend(s, Appended(st, i))
<1>1. /\ st.s \in Pagers /\ st.from \in Ids /\ st.to \in Ids /\ st.stray \in Ids
      /\ st.s.free \in Seq(Ids) /\ st = [s |-> st.s, from |-> st.from, to |-> st.to, stray |-> st.stray]
  BY DEF KeptAppend, Pagers
<1>2. CASE i <= Len(st.s.free)
  <2> DEFINE full == Len(st.s.mem[st.to].ids) = MaxPerPage
             new  == NextId(st.s)
             a    == Allocated(st.s, "freelist")
             ga   == [a EXCEPT !.mem[st.from].next = new, !.dirty = @ \cup {st.from}, !.tail = new]
             g    == IF full THEN ga ELSE st.s
             to   == IF full THEN new ELSE st.to
             id   == IF i <= Len(g.free) THEN g.free[i] ELSE st.stray
             e    == [g EXCEPT !.mem[to].ids = Append(@, id)]
  <2>1. new \in Ids /\ st.s.free # <<>>
    <3>1. st.s.free # <<>>
      BY <1>1, <1>2, ListFacts
    <3> QED BY <1>1, <3>1, HeadTail DEF NextId
  <2>2. /\ a \in Pagers /\ a.nextPageId = st.s.nextPageId
        /\ ToSet(a.free) \in SUBSET ToSet(st.s.free)
    <3>1. new < MaxPages /\ "freelist" \in Kinds
      BY <2>1, FreelistAssumption DEF Ids, Kinds
    <3> QED BY <1>1, <2>1, <3>1, AllocatedIs
  <2>3. Appended(st, i) = [s |-> e, from |-> st.from, to |-> to, stray |-> st.stray]
    <3>1. Appended(st, i) = [st EXCEPT !.s = e, !.to = to]
      BY <1>2 DEF Appended
    <3> HIDE DEF e, to
    <3> QED BY <1>1, <3>1
  <2> HIDE DEF a, new, full
  <2>4. ga \in Pagers /\ ga.nextPageId = a.nextPageId /\ ga.free = a.free
    <3> DEFINE m == [a.mem EXCEPT ![st.from].next = new]
    <3>1. m \in [Ids -> Content]
      <4>1. a.mem \in [Ids -> Content]
        BY <2>2 DEF Pagers
      <4> DEFINE c == [a.mem[st.from] EXCEPT !.next = new]
      <4>2. c \in Content
        <5> DEFINE d == a.mem[st.from]
        <5>1. d \in Content /\ new \in Ids \cup {NoPage}
          BY <1>1, <2>1, <4>1
        <5> HIDE DEF d
        <5> QED BY ONLY <5>1 DEF Content, d
      <4>3. m = [a.mem EXCEPT ![st.from] = c] /\ st.from \in Ids
        BY <1>1
      <4> HIDE DEF c, m
      <4> QED BY ONLY <4>1, <4>2, <4>3
    <3>2. ga = [a EXCEPT !.mem = m, !.dirty = a.dirty \cup {st.from}, !.tail = new]
      BY <2>2 DEF Pagers
    <3> HIDE DEF m, ga
    <3> QED BY <1>1, <2>1, <2>2, <3>1, <3>2 DEF Pagers
  <2> HIDE DEF ga
  <2>5. /\ g \in Pagers /\ g.nextPageId = s.nextPageId /\ ToSet(g.free) \in SUBSET ToSet(s.free)
        /\ to \in Ids
    BY <1>1, <2>1, <2>2, <2>4 DEF KeptAppend
  <2> HIDE DEF g, to
  <2>6. id \in Ids
    <3>1. g.free \in Seq(Ids)
      BY <2>5 DEF Pagers
    <3>2. i <= Len(g.free) => g.free[i] \in Ids
      BY <3>1, ListFacts
    <3> QED BY <1>1, <3>2
  <2> HIDE DEF id
  <2>7. e \in Pagers /\ e.nextPageId = g.nextPageId /\ e.free = g.free
    <3> DEFINE m == [g.mem EXCEPT ![to].ids = Append(@, id)]
    <3>1. m \in [Ids -> Content]
      <4>1. g.mem \in [Ids -> Content] /\ g.mem[to].ids \in Seq(Ids)
        BY <2>5 DEF Pagers, Content
      <4>2. Append(g.mem[to].ids, id) \in Seq(Ids)
        BY <2>6, <4>1, AppendFacts
      <4>3. [g.mem[to] EXCEPT !.ids = Append(g.mem[to].ids, id)] \in Content
        BY <2>5, <4>1, <4>2 DEF Content
      <4> QED BY <2>5, <4>1, <4>3
    <3>2. e = [g EXCEPT !.mem = m]
      BY <2>5 DEF Pagers
    <3> HIDE DEF m, e
    <3> QED BY <2>5, <3>1, <3>2 DEF Pagers
  <2> HIDE DEF e
  <2> QED BY <1>1, <2>3, <2>5, <2>7 DEF KeptAppend
<1>3. CASE ~ (i <= Len(st.s.free))
  BY <1>3 DEF Appended
<1> QED BY <1>2, <1>3

Begin(s, stray) == [s |-> s, from |-> s.tail, to |-> s.tail, stray |-> stray]

News(s) == [i \in 1 .. s.newly |-> Len(s.free) - s.newly + i]

LEMMA AppendOnlyKeeps ==
  ASSUME NEW s \in Pagers, s.tail # NoPage, s.newly <= Len(s.free), NEW stray \in Ids
  PROVE  Kept(s, FlushedAppendOnly(s, stray))
<1> DEFINE n == s.newly
           b == Begin(s, stray)
<1>1. /\ n \in Nat /\ DOMAIN News(s) = 1..n /\ s.tail \in Ids /\ Len(s.free) \in Nat
      /\ \A i \in 1..n : News(s)[i] \in Nat /\ News(s)[i] # 0
  <2>1. n \in Nat /\ Len(s.free) \in Nat /\ s.tail \in Ids /\ n <= Len(s.free)
    BY ListFacts DEF Pagers
  <2>2. \A i \in 1..n : News(s)[i] = Len(s.free) - n + i
    BY DEF News
  <2>3. \A i \in 1..n : Len(s.free) - n + i \in Nat /\ Len(s.free) - n + i # 0
    BY <2>1
  <2> QED BY <2>1, <2>2, <2>3 DEF News
<1>2. PICK f : AppendedRun(f, b, n, News(s))
  BY <1>1, AppendedTurns
<1> DEFINE S == {i \in 0..n : KeptAppend(s, f[i])}
<1>3. 0 \in S
  <2>1. KeptAppend(s, b)
    BY <1>1 DEF KeptAppend, Begin
  <2> QED BY <1>1, <1>2, <2>1 DEF AppendedRun
<1>4. ASSUME NEW i \in 1..n, i - 1 \in S PROVE i \in S
  <2>1. KeptAppend(s, f[i - 1]) /\ f[i] = Appended(f[i - 1], News(s)[i])
    BY <1>2, <1>4 DEF AppendedRun
  <2>2. KeptAppend(s, f[i])
    BY <1>1, <2>1, AppendedKeeps
  <2> QED BY <2>2
<1>5. n \in S
  <2> HIDE DEF S
  <2> QED BY <1>1, <1>3, <1>4, Upward
<1>6. FlushedAppendOnly(s, stray) = f[n].s
  BY <1>2 DEF FlushedAppendOnly, AppendedRun, Begin, News
<1> QED BY <1>5, <1>6 DEF Kept, KeptAppend

\* The ids listed on page r after some turns: among the first "upto" free ones.
OnPage(s, r, upto, stray, st) ==
  \E q \in Seq(Ids) :
    /\ IsInjective(q) /\ Len(q) <= upto /\ ToSet(q) \subseteq {s.free[i] : i \in 1..upto}
    /\ st = [s |-> [s EXCEPT !.mem[r].ids = q], from |-> r, to |-> r, stray |-> stray]

LEMMA OnPageFacts ==
  ASSUME NEW s \in Pagers, NEW r \in Ids, NEW q \in Seq(Ids)
  PROVE  LET t == [s EXCEPT !.mem[r].ids = q]
         IN  /\ t \in Pagers /\ t.free = s.free /\ t.nextPageId = s.nextPageId /\ t.root = s.root
             /\ t.tail = s.tail /\ t.dirty = s.dirty /\ t.mem[r].ids = q
             /\ t.mem[r].kind = s.mem[r].kind /\ t.mem[r].next = s.mem[r].next
             /\ \A p \in Ids : p # r => t.mem[p] = s.mem[p]
             /\ t.mem = [s.mem EXCEPT ![r].ids = q]
<1> DEFINE m == [s.mem EXCEPT ![r].ids = q]
           c == [s.mem[r] EXCEPT !.ids = q]
           t == [s EXCEPT !.mem[r].ids = q]
<1>1. s.mem \in [Ids -> Content] /\ s.mem[r] \in Content
  BY DEF Pagers
<1>2. c \in Content /\ c.ids = q /\ c.kind = s.mem[r].kind /\ c.next = s.mem[r].next
  BY <1>1 DEF Content
<1>3. m[r] = c /\ \A p \in Ids : p # r => m[p] = s.mem[p]
  BY <1>1
<1>4. m \in [Ids -> Content]
  <2> HIDE DEF c
  <2>1. m = [s.mem EXCEPT ![r] = c]
    BY DEF c
  <2> QED BY <1>1, <1>2, <2>1
<1>5. t = [s EXCEPT !.mem = m]
  BY DEF Pagers
<1> HIDE DEF m, c, t
<1>6. /\ t \in Pagers /\ t.free = s.free /\ t.nextPageId = s.nextPageId /\ t.root = s.root
      /\ t.tail = s.tail /\ t.dirty = s.dirty /\ t.mem = m
  BY <1>4, <1>5 DEF Pagers
<1> QED BY <1>2, <1>3, <1>6 DEF t, m

\* One turn lists the next id on the page, which is not full.
LEMMA AppendedOnPage ==
  ASSUME NEW s \in Pagers, NEW r \in Ids, NEW stray, NEW k \in Nat, k < Len(s.free),
         IsInjective(s.free), Len(s.free) <= MaxPerPage, NEW st, OnPage(s, r, k, stray, st)
  PROVE  OnPage(s, r, k + 1, stray, Appended(st, k + 1))
<1>1. PICK q \in Seq(Ids) :
        /\ IsInjective(q) /\ Len(q) <= k /\ ToSet(q) \subseteq {s.free[i] : i \in 1..k}
        /\ st = [s |-> [s EXCEPT !.mem[r].ids = q], from |-> r, to |-> r, stray |-> stray]
  BY DEF OnPage
<1> DEFINE t  == [s EXCEPT !.mem[r].ids = q]
           id == s.free[k + 1]
           w  == Append(q, id)
           e  == [t EXCEPT !.mem[r].ids = Append(@, id)]
<1>2. /\ t \in Pagers /\ t.free = s.free /\ t.mem[r].ids = q /\ t.mem = [s.mem EXCEPT ![r].ids = q]
      /\ s.free \in Seq(Ids) /\ Len(s.free) \in Nat /\ Len(q) \in Nat /\ MaxPerPage \in Nat
      /\ s.mem \in [Ids -> Content] /\ DOMAIN s.free = 1..Len(s.free)
  <2>1. /\ s.free \in Seq(Ids) /\ Len(s.free) \in Nat /\ Len(q) \in Nat /\ MaxPerPage \in Nat
        /\ s.mem \in [Ids -> Content] /\ DOMAIN s.free = 1..Len(s.free)
    BY ListFacts, FreelistAssumption DEF Pagers
  <2>2. t \in Pagers /\ t.free = s.free /\ t.mem[r].ids = q /\ t.mem = [s.mem EXCEPT ![r].ids = q]
    <3> HIDE DEF t
    <3> QED BY OnPageFacts DEF t
  <2> QED BY <2>1, <2>2
<1>3. Len(q) # MaxPerPage /\ k + 1 <= Len(s.free) /\ k + 1 \in 1..Len(s.free)
  BY <1>1, <1>2
<1>4. st.s = t /\ st.to = r /\ st.from = r /\ st.stray = stray
  BY <1>1
<1>5. Appended(st, k + 1) = [st EXCEPT !.s = e, !.to = r]
  <2>1. Len(st.s.mem[st.to].ids) # MaxPerPage /\ k + 1 <= Len(st.s.free)
    BY <1>2, <1>3, <1>4
  <2>2. (IF k + 1 <= Len(st.s.free) THEN st.s.free[k + 1] ELSE st.stray) = id
    BY <1>2, <1>4, <2>1
  <2> HIDE DEF id, t
  <2> QED BY <1>4, <2>1, <2>2 DEF Appended
<1>6. e = [s EXCEPT !.mem[r].ids = w]
  <2> DEFINE m == [s.mem EXCEPT ![r].ids = q]
  <2>1. m[r] = [s.mem[r] EXCEPT !.ids = q] /\ DOMAIN m = Ids
    BY <1>2
  <2>2. s.mem[r] \in Content
    BY <1>2
  <2> HIDE DEF id
  <2>3. [m EXCEPT ![r].ids = Append(@, id)] = [s.mem EXCEPT ![r].ids = w]
    <3>1. [m[r] EXCEPT !.ids = Append(q, id)] = [s.mem[r] EXCEPT !.ids = Append(q, id)] /\ m[r].ids = q
      BY <2>1, <2>2 DEF Content
    <3> QED BY <1>2, <2>1, <3>1
  <2> QED BY <1>2, <2>3 DEF Pagers
<1>7. id \in Ids /\ id \notin ToSet(q)
  <2>1. \A i \in 1..k : s.free[i] # id
    <3>1. \A i \in 1..k : i \in 1..Len(s.free) /\ i # k + 1
      BY <1>2, <1>3
    <3> QED BY <1>2, <1>3, <3>1 DEF IsInjective
  <2>2. id \in Ids
    BY <1>2, <1>3, ListFacts
  <2> QED BY <1>1, <2>1, <2>2
<1>8. /\ w \in Seq(Ids) /\ Len(w) = Len(q) + 1 /\ ToSet(w) = ToSet(q) \cup {id} /\ IsInjective(w)
  BY <1>1, <1>7, AppendFacts
<1>9. Len(w) <= k + 1 /\ ToSet(w) \subseteq {s.free[i] : i \in 1..(k + 1)}
  <2>1. 1..k \subseteq 1..(k + 1) /\ k + 1 \in 1..(k + 1)
    OBVIOUS
  <2>2. {s.free[i] : i \in 1..k} \subseteq {s.free[i] : i \in 1..(k + 1)}
        /\ id \in {s.free[i] : i \in 1..(k + 1)}
    BY <2>1
  <2>3. Len(w) <= k + 1
    BY <1>1, <1>2, <1>8
  <2> QED BY <1>1, <1>8, <2>2, <2>3
<1> HIDE DEF w, e, t, id
<1>10. Appended(st, k + 1)
        = [s |-> [s EXCEPT !.mem[r].ids = w], from |-> r, to |-> r, stray |-> stray]
  BY <1>1, <1>5, <1>6
<1> QED BY <1>8, <1>9, <1>10 DEF OnPage

LEMMA AppendOnlyResult ==
  ASSUME NEW s \in Pagers, NEW pages \in [Ids -> Content], NEW hd, NEW own \in SUBSET Ids,
         NEW gone \in SUBSET Ids, Sound(s, pages, hd, own, gone), s.root # NoPage,
         ~ s.allocated, ~ Overflow(s), NEW stray
  PROVE  LET t == FlushedAppendOnly(s, stray)
         IN  Kept(s, t) /\ Written(t, pages, own, gone)
<1> DEFINE r == s.root
           n == s.newly
           m == Len(s.free) - n
           b == Begin(s, stray)
           t == FlushedAppendOnly(s, stray)
<1>1. /\ Uses(s, own, gone) /\ List(s, pages, hd) /\ Pages(s, pages) /\ r \in Ids /\ s.tail = r
      /\ s.free \in Seq(Ids) /\ Len(s.free) \in Nat /\ n \in Nat /\ n <= Len(s.free)
      /\ s.mem \in [Ids -> Content] /\ IsInjective(s.free) /\ r \notin s.dirty
      /\ MaxPerPage \in Nat /\ DOMAIN s.free = 1..Len(s.free)
  BY ListFacts, FreelistAssumption DEF Sound, List, Uses, Pagers
<1>2. Len(s.free) <= MaxPerPage /\ m \in Nat
  BY <1>1 DEF Overflow
<1>3. /\ IsInjective(s.mem[r].ids) /\ ToSet(s.mem[r].ids) \subseteq Settled(s)
      /\ s.mem[r].ids \in Seq(Ids) /\ s.mem[r].kind = "freelist" /\ s.mem[r].next = NoPage
  BY <1>1 DEF List, ListPage, Content
<1>4. Len(s.mem[r].ids) <= m
  <2> DEFINE q == s.mem[r].ids
             g == [x \in ToSet(q) |-> CHOOSE i \in 1..m : s.free[i] = x]
  <2>1. \A x \in ToSet(q) : \E i \in 1..m : s.free[i] = x
    BY <1>3 DEF Settled
  <2>2. \A x \in ToSet(q) : g[x] \in 1..m /\ s.free[g[x]] = x
    BY <2>1
  <2> HIDE DEF g, q
  <2>3. g \in Injection(ToSet(q), 1..m)
    <3>1. g \in [ToSet(q) -> 1..m] /\ DOMAIN g = ToSet(q)
      BY <2>2 DEF g
    <3>2. \A x, y \in ToSet(q) : g[x] = g[y] => x = y
      BY <2>2
    <3> QED BY <3>1, <3>2 DEF Injection, IsInjective
  <2>4. IsFiniteSet(1..m) /\ Cardinality(1..m) = m
    <3>1. 1 \in Int /\ m \in Int
      BY <1>2
    <3> HIDE DEF m
    <3>2. IsFiniteSet(1..m) /\ Cardinality(1..m) = (IF 1 > m THEN 0 ELSE m - 1 + 1)
      BY <3>1, FS_Interval
    <3> QED BY <1>2, <3>2
  <2>5. Cardinality(ToSet(q)) <= m
    <3> HIDE DEF m
    <3> QED BY <2>3, <2>4, FS_Injection
  <2>6. Cardinality(ToSet(q)) = Len(q)
    BY <1>3, ListCard DEF q
  <2> QED BY <2>5, <2>6 DEF q
<1>5. OnPage(s, r, m, stray, b)
  <2> DEFINE q == s.mem[r].ids
  <2>1. [s EXCEPT !.mem[r].ids = q] = s
    <3>1. [s.mem[r] EXCEPT !.ids = q] = s.mem[r]
      BY <1>1 DEF Content
    <3>2. [s.mem EXCEPT ![r].ids = q] = s.mem
      BY <1>1, <3>1
    <3> QED BY <3>2 DEF Pagers
  <2>2. b = [s |-> [s EXCEPT !.mem[r].ids = q], from |-> r, to |-> r, stray |-> stray]
    BY <1>1, <2>1 DEF Begin
  <2> HIDE DEF q, b
  <2> QED BY <1>3, <1>4, <2>2 DEF OnPage, Settled, q
<1>6. DOMAIN News(s) = 1..n /\ \A i \in 1..n : News(s)[i] = m + i
  BY DEF News
<1>7. PICK f : AppendedRun(f, b, n, News(s))
  BY <1>1, <1>6, AppendedTurns
<1> HIDE DEF b, t
<1> DEFINE S == {i \in 0..n : OnPage(s, r, m + i, stray, f[i])}
<1>8. 0 \in S
  <2>1. f[0] = b /\ m + 0 = m /\ 0 \in 0..n
    BY <1>1, <1>2, <1>7 DEF AppendedRun
  <2> QED BY <1>5, <2>1
<1>9. ASSUME NEW i \in 1..n, i - 1 \in S PROVE i \in S
  <2> DEFINE k == m + (i - 1)
  <2>1. OnPage(s, r, k, stray, f[i - 1]) /\ f[i] = Appended(f[i - 1], News(s)[i])
    BY <1>7, <1>9 DEF AppendedRun
  <2>2. k \in Nat /\ k < Len(s.free) /\ k + 1 = m + i /\ News(s)[i] = k + 1 /\ i \in 0..n
    <3>1. m \in Nat /\ n \in Nat /\ i \in 1..n /\ m + n = Len(s.free) /\ News(s)[i] = m + i
      BY <1>1, <1>2, <1>6
    <3> HIDE DEF m, n
    <3>2. k \in Nat /\ k < m + n /\ k + 1 = m + i /\ i \in 0..n
      BY ONLY <3>1 DEF k
    <3> QED BY <3>1, <3>2
  <2> HIDE DEF k, m
  <2>3. OnPage(s, r, k + 1, stray, Appended(f[i - 1], k + 1))
    BY <1>1, <1>2, <2>1, <2>2, AppendedOnPage
  <2> QED BY <2>1, <2>2, <2>3
<1>10. n \in S
  <2> HIDE DEF S
  <2> QED BY <1>1, <1>8, <1>9, Upward
<1>11. t = f[n].s
  BY <1>7 DEF FlushedAppendOnly, AppendedRun, Begin, News, t, b
<1>12. PICK q \in Seq(Ids) :
         /\ IsInjective(q) /\ ToSet(q) \subseteq {s.free[i] : i \in 1..(m + n)}
         /\ f[n] = [s |-> [s EXCEPT !.mem[r].ids = q], from |-> r, to |-> r, stray |-> stray]
  BY <1>10 DEF OnPage
<1>13. ToSet(q) \subseteq ToSet(s.free)
  <2>1. m + n = Len(s.free)
    BY <1>1
  <2> QED BY <1>1, <1>12, <2>1, ListFacts
<1>14. /\ t \in Pagers /\ t.free = s.free /\ t.nextPageId = s.nextPageId /\ t.root = r
       /\ t.tail = r /\ t.dirty = s.dirty /\ t.mem[r].ids = q
       /\ t.mem[r].kind = "freelist" /\ t.mem[r].next = NoPage
       /\ \A p \in Ids : p # r => t.mem[p] = s.mem[p]
  <2>1. t = [s EXCEPT !.mem[r].ids = q]
    BY <1>11, <1>12
  <2> DEFINE e == [s EXCEPT !.mem[r].ids = q]
  <2>2. /\ e \in Pagers /\ e.free = s.free /\ e.nextPageId = s.nextPageId /\ e.root = s.root
        /\ e.tail = s.tail /\ e.dirty = s.dirty /\ e.mem[r].ids = q
        /\ e.mem[r].kind = s.mem[r].kind /\ e.mem[r].next = s.mem[r].next
        /\ \A p \in Ids : p # r => e.mem[p] = s.mem[p]
    <3>1. r \in Ids
      BY <1>1
    <3> HIDE DEF e, r
    <3> QED BY <3>1, OnPageFacts DEF e
  <2> HIDE DEF e
  <2> QED BY ONLY <1>1, <1>3, <2>1, <2>2 DEF e
<1>15. Uses(t, own, gone)
  BY <1>1, <1>14 DEF Uses
<1>16. Pages(t, pages)
  BY <1>1, <1>3, <1>14 DEF Pages
<1>17. Settled(s) \subseteq ToSet(s.free)
  <2>1. 1..m \subseteq 1..Len(s.free)
    BY <1>1
  <2> QED BY <1>1, <2>1, ListFacts DEF Settled
<1>18. ListsFree(t.mem[r], t) /\ ListsFree(pages[r], t)
  BY <1>1, <1>12, <1>13, <1>14, <1>17 DEF ListsFree, List, ListPage
<1>19. Kept(s, t)
  BY <1>14 DEF Kept
<1> QED BY <1>14, <1>15, <1>16, <1>18, <1>19 DEF Written, t

-----------------------------------------------------------------------------
(* Commit.                                                                  *)
LEMMA PersistedResult ==
  ASSUME NEW s \in Pagers, NEW pages \in [Ids -> Content], NEW hd, NEW own \in SUBSET Ids,
         NEW gone \in SUBSET Ids, Sound(s, pages, hd, own, gone),
         NEW stray \in IF Overflow(s) THEN Ids ELSE {NoPage}
  PROVE  LET t == Persisted(s, stray)
         IN  /\ Kept(s, t) /\ t.allocated = FALSE /\ t.newly = 0
             /\ ~ ((s.allocated \/ s.newly > 0) /\ Overflow(s)) => Written(t, pages, own, gone)
<1>1. /\ List(s, pages, hd) /\ s.tail = s.root /\ Short(s.mem, s.root) /\ s.allocated \in BOOLEAN
      /\ s.newly \in Nat /\ s.free \in Seq(Ids) /\ Len(s.free) \in Nat
      /\ Uses(s, own, gone) /\ Pages(s, pages)
  BY ListFacts DEF Sound, List, ListPage, Short, Pagers
<1> DEFINE listed == IF s.allocated \/ s.root = NoPage \/ s.tail = NoPage
                     THEN FlushedAll(s) ELSE FlushedAppendOnly(s, stray)
<1>2. Kept(s, listed) /\ (~ Overflow(s) => Written(listed, pages, own, gone))
  <2>1. CASE s.allocated \/ s.root = NoPage
    <3>1. CASE s.free = <<>>
      BY <2>1, <3>1, UnlistedResult DEF FlushedAll
    <3>2. CASE s.free # <<>>
      <4>1. listed = ListedAll(s)
        BY <2>1, <3>2 DEF FlushedAll
      <4>2. Kept(s, ListedAll(s))
        BY <1>1, <3>2, ListedAllKeeps
      <4>3. ~ Overflow(s) => Written(ListedAll(s), pages, own, gone)
        BY <3>2, ListedAllOnPage, ListedAllOnNewPage
      <4> QED BY <4>1, <4>2, <4>3
    <3> QED BY <3>1, <3>2
  <2>2. CASE ~ s.allocated /\ s.root # NoPage
    <3>1. listed = FlushedAppendOnly(s, stray) /\ s.tail # NoPage /\ s.newly <= Len(s.free)
      BY <1>1, <2>2 DEF List
    <3>2. CASE Overflow(s)
      BY <1>1, <3>1, <3>2, AppendOnlyKeeps
    <3>3. CASE ~ Overflow(s)
      BY <2>2, <3>1, <3>3, AppendOnlyResult
    <3> QED BY <3>2, <3>3
  <2> QED BY <2>1, <2>2
<1> HIDE DEF listed
<1>3. CASE s.allocated \/ s.newly > 0
  <2> DEFINE t == [listed EXCEPT !.allocated = FALSE, !.newly = 0]
  <2>1. Persisted(s, stray) = t
    BY <1>3 DEF Persisted, listed
  <2>2. /\ t \in Pagers /\ t.free = listed.free /\ t.nextPageId = listed.nextPageId
        /\ t.allocated = FALSE /\ t.newly = 0 /\ t.root = listed.root /\ t.tail = listed.tail
        /\ t.mem = listed.mem /\ t.dirty = listed.dirty
    BY <1>2 DEF Kept, Pagers
  <2> HIDE DEF t
  <2>3. Kept(s, t)
    BY <1>2, <2>2 DEF Kept
  <2>4. ~ Overflow(s) => Written(t, pages, own, gone)
    BY <1>2, <2>2 DEF Written, Uses, Pages, ListsFree
  <2> QED BY <1>3, <2>1, <2>2, <2>3, <2>4
<1>4. CASE ~ (s.allocated \/ s.newly > 0)
  <2>1. Persisted(s, stray) = s /\ s.allocated = FALSE /\ s.newly = 0
    BY <1>1, <1>4 DEF Persisted
  <2>2. Settled(s) = ToSet(s.free)
    <3>1. Len(s.free) - s.newly = Len(s.free)
      BY <1>1, <2>1
    <3> QED BY <1>1, <3>1, ListFacts DEF Settled
  <2>3. Kept(s, s)
    BY DEF Kept, Pagers
  <2>4. Written(s, pages, own, gone)
    BY <1>1, <2>1, <2>2 DEF Written, List, ListPage, ListsFree
  <2> QED BY <2>1, <2>3, <2>4
<1> QED BY <1>3, <1>4

LEMMA CommitInvariant ==
  ASSUME IInv, Commit
  PROVE  /\ IInv' /\ pager'.nextPageId = pager.nextPageId
         /\ ToSet(pager'.free) \in SUBSET (ToSet(pager.free) \cup ({pager.root} \ {NoPage}))
<1>0. /\ Running /\ owned' = owned /\ phase' = phase /\ lost' = lost
      /\ overflowed' = ((pager.allocated \/ pager.newly > 0) /\ Overflow(pager))
  BY DEF Commit
<1>1. /\ Typed /\ pager \in Pagers /\ disk \in [Ids -> Content] /\ owned \in SUBSET Ids
      /\ lost \in SUBSET Ids /\ Sound(pager, disk, header, owned, lost)
  BY <1>0, OpenFacts DEF IInv, Running
<1>2. PICK stray \in IF Overflow(pager) THEN Ids ELSE {NoPage} :
        LET s == Persisted(pager, stray)
        IN  /\ pager' = [s EXCEPT !.dirty = {}]
            /\ disk' = [p \in Ids |-> IF p \in s.dirty THEN s.mem[p] ELSE disk[p]]
            /\ header' = s.root
  BY DEF Commit
<1> DEFINE t == Persisted(pager, stray)
<1>3. /\ Kept(pager, t) /\ t.allocated = FALSE /\ t.newly = 0
      /\ ~ overflowed' => Written(t, disk, owned, lost)
  BY <1>0, <1>1, PersistedResult
<1>4. /\ pager' = [t EXCEPT !.dirty = {}]
      /\ disk' = [p \in Ids |-> IF p \in t.dirty THEN t.mem[p] ELSE disk[p]]
      /\ header' = t.root
  BY <1>2
<1> HIDE DEF t
<1>5. /\ pager' \in Pagers /\ pager'.free = t.free /\ pager'.nextPageId = t.nextPageId
      /\ pager'.allocated = FALSE /\ pager'.newly = 0 /\ pager'.root = t.root
      /\ pager'.tail = t.tail /\ pager'.mem = t.mem /\ pager'.dirty = {}
  BY <1>3, <1>4 DEF Kept, Pagers
<1>6. Typed'
  <2>1. t.mem \in [Ids -> Content] /\ t.root \in Ids \cup {NoPage}
    BY <1>3 DEF Kept, Pagers
  <2>2. disk' \in [Ids -> Content]
    BY <1>1, <1>4, <2>1
  <2>3. overflowed' \in BOOLEAN
    BY <1>0
  <2> QED BY <1>0, <1>1, <1>4, <1>5, <2>1, <2>2, <2>3 DEF Typed
<1>7. ASSUME ~ overflowed' PROVE Sound(pager', disk', header', owned', lost')
  <2>1. Written(t, disk, owned, lost)
    BY <1>3, <1>7
  <2>2. Uses(pager', owned', lost')
    BY <1>0, <1>5, <2>1 DEF Written, Uses
  <2>3. Pages(pager', disk')
    <3>1. \A p \in Ids : disk'[p] = IF p \in t.dirty THEN t.mem[p] ELSE disk[p]
      BY <1>4
    <3> QED BY <1>5, <2>1, <3>1 DEF Written, Pages
  <2>4. Settled(pager') = ToSet(pager'.free) /\ 0 <= Len(pager'.free)
    <3>1. /\ pager'.free \in Seq(Ids) /\ Len(pager'.free) \in Nat
          /\ Len(pager'.free) - pager'.newly = Len(pager'.free)
      BY <1>5, ListFacts DEF Pagers
    <3> QED BY <3>1, ListFacts DEF Settled
  <2>5. ASSUME pager'.root # NoPage
        PROVE  ListPage(pager'.mem[pager'.root], pager') /\ ListPage(disk'[pager'.root], pager')
    <3>1. pager'.root \in Ids
      BY <1>5, <2>5 DEF Pagers
    <3>2. disk'[t.root] = IF t.root \in t.dirty THEN t.mem[t.root] ELSE disk[t.root]
      BY <1>4, <1>5, <3>1
    <3>3. ListsFree(pager'.mem[pager'.root], t) /\ ListsFree(disk'[pager'.root], t)
      BY <1>5, <2>1, <2>5, <3>2 DEF Written
    <3> QED BY <1>5, <2>4, <3>3 DEF ListsFree, ListPage
  <2>6. List(pager', disk', header')
    BY <1>4, <1>5, <2>1, <2>4, <2>5 DEF List, Written
  <2> QED BY <2>2, <2>3, <2>6 DEF Sound
<1> QED BY <1>3, <1>5, <1>6, <1>7 DEF IInv, Kept

-----------------------------------------------------------------------------
(* Theorems.                                                                *)

\* The invariant is kept by every step.
LEMMA NextInvariant ==
  ASSUME IInv, [Next]_vars
  PROVE  IInv'
<1>1. CASE Allocate
  BY <1>1, AllocateInvariant
<1>2. ASSUME NEW id \in Ids, Free(id) \/ Evict(id) PROVE IInv'
  BY <1>2, FreeInvariant, EvictInvariant
<1>3. CASE Commit
  BY <1>3, CommitInvariant
<1>4. CASE Reopen
  BY <1>4, ReopenInvariant
<1>5. CASE OpenFails \/ UNCHANGED vars
  BY <1>5, OtherInvariant
<1> QED BY <1>1, <1>2, <1>3, <1>4, <1>5 DEF Next

\* The inductive invariant: until the list overflows each page of the file has
\* one use, the one freelist page, in memory and in the file, lists free ids
\* only, and a clean page is the file's copy.
THEOREM Invariance == Spec => []IInv
<1>1. Init => IInv
  BY InitInvariant
<1>2. IInv /\ [Next]_vars => IInv'
  BY NextInvariant
<1> QED BY <1>1, <1>2, PTL DEF Spec

\* What the pager holds and what the file holds stay what they are meant to be:
\* no operation, a restart or an overflowing list included, leaves the types.
THEOREM TypeCorrect == Spec => []TypeOK
<1>1. IInv => TypeOK
  BY DEF IInv, Typed, TypeOK, Pagers
<1> QED BY <1>1, Invariance, PTL

\* Every page of the file is in a manager's chain, free (and listed once), the
\* freelist's own page, or lost, and only one of these: no allocation returns a
\* page that is in use.
THEOREM UseCorrect == Spec => []EveryPageHasOneUse
<1>1. ASSUME IInv PROVE EveryPageHasOneUse
  <2> SUFFICES ASSUME ~ overflowed PROVE EveryPageHasOneUse
    BY DEF EveryPageHasOneUse
  <2>1. pager \in Pagers /\ Uses(pager, owned, lost) /\ List(pager, disk, header)
    BY <1>1 DEF IInv, Typed, Sound
  <2>2. Short(pager.mem, pager.root)
    BY <2>1 DEF List, ListPage, Short
  <2>3. ChainPages(pager) = {pager.root} \ {NoPage}
    BY <2>2, ChainPagesAre
  <2>4. Cardinality(ToSet(pager.free)) = Len(pager.free)
    BY <2>1, ListCard DEF Uses, Pagers
  <2> QED BY <2>1, <2>3, <2>4 DEF EveryPageHasOneUse, Uses
<1> QED BY <1>1, Invariance, PTL

\* Between operations the list a restart would load holds free ids only, each
\* once, on the page the pager holds too: a restart hands out no page in use.
THEOREM ListCorrect == Spec => []FileListIsSafe
<1>1. ASSUME IInv PROVE FileListIsSafe
  <2> SUFFICES ASSUME Committed, ~ overflowed PROVE FileListIsSafe
    BY DEF FileListIsSafe
  <2> DEFINE r == pager.root
             ids == IF r = NoPage THEN <<>> ELSE disk[r].ids
             l == Loaded(disk, header)
  <2>1. /\ pager \in Pagers /\ List(pager, disk, header) /\ disk \in [Ids -> Content]
        /\ pager.allocated = FALSE /\ pager.newly = 0 /\ header = r /\ r \in Ids \cup {NoPage}
        /\ pager.free \in Seq(Ids) /\ Len(pager.free) \in Nat
    BY <1>1, ListFacts DEF IInv, Typed, Sound, Committed, List, Pagers
  <2>2. Short(disk, r) /\ Short(pager.mem, r)
    BY <2>1 DEF List, ListPage, Short
  <2>3. ids \in Seq(Ids) /\ IsInjective(ids) /\ ToSet(ids) \subseteq ToSet(pager.free)
    <3>1. Settled(pager) = ToSet(pager.free)
      <4>1. Len(pager.free) - pager.newly = Len(pager.free)
        BY <2>1
      <4> QED BY <2>1, <4>1, ListFacts DEF Settled
    <3>2. CASE r = NoPage
      BY <3>2 DEF ToSet, IsInjective
    <3>3. CASE r # NoPage
      BY <2>1, <3>1, <3>3 DEF List, ListPage, Content
    <3> QED BY <3>2, <3>3
  <2>4. /\ l.free = ids /\ l.mem = disk /\ l.root = r
    <3>1. r # NoPage => disk[r].ids \in Seq(Ids)
      BY <2>3
    <3> QED BY <2>1, <2>2, <3>1, LoadedIs
  <2> HIDE DEF l, ids
  <2>5. ChainPages(l) = {r} \ {NoPage} /\ ChainPages(pager) = {r} \ {NoPage}
    BY <2>2, <2>4, ChainPagesAre
  <2>6. Cardinality(ToSet(ids)) = Len(ids)
    BY <2>3, ListCard
  <2> QED BY <2>1, <2>3, <2>4, <2>5, <2>6 DEF FileListIsSafe, l
<1> QED BY <1>1, Invariance, PTL

\* A restart finds as many pages in the file as the allocator had given out, so
\* the file does not grow over a page that exists.
THEOREM CountCorrect == Spec => RestartCountsPages
<1>1. IInv /\ [Next]_vars => [Reopen => pager'.nextPageId = pager.nextPageId]_vars
  BY ReopenInvariant
<1> QED BY <1>1, Invariance, PTL DEF Spec, RestartCountsPages

\* The pages the pager may hand out.
Avail == ToSet(pager.free) \cup (pager.nextPageId .. MaxPages - 1)

LEMMA AvailFacts ==
  ASSUME IInv, Running
  PROVE  /\ Avail \in SUBSET (Ids \ owned) /\ owned \in SUBSET Ids
         /\ owned \subseteq 0 .. pager.nextPageId - 1 /\ ToSet(pager.free) \subseteq 0 .. pager.nextPageId - 1
         /\ pager.root \notin owned /\ pager.root \in Ids \cup {NoPage}
         /\ pager.nextPageId \in 0..MaxPages /\ pager.free \in Seq(Ids) /\ IsInjective(pager.free)
<1>1. /\ Uses(pager, owned, lost) /\ pager.free \in Seq(Ids) /\ owned \in SUBSET Ids
      /\ pager.nextPageId \in 0..MaxPages /\ pager.root \in Ids \cup {NoPage} /\ MaxPages \in Nat
  BY OpenFacts, FreelistAssumption DEF Pagers
<1>2. /\ owned \subseteq 0 .. pager.nextPageId - 1 /\ ToSet(pager.free) \subseteq 0 .. pager.nextPageId - 1
      /\ owned \cap ToSet(pager.free) = {} /\ pager.root \notin owned /\ IsInjective(pager.free)
  BY <1>1 DEF Uses
<1>3. Avail \in SUBSET (Ids \ owned)
  <2>1. ToSet(pager.free) \in SUBSET Ids
    BY <1>1, ListFacts
  <2>2. \A p \in pager.nextPageId .. MaxPages - 1 : p \in Ids /\ p \notin 0 .. pager.nextPageId - 1
    BY <1>1 DEF Ids
  <2> QED BY <1>2, <2>1, <2>2 DEF Avail
<1> QED BY <1>1, <1>2, <1>3

\* The pager implements what the managers rely on: a page it hands out is in no
\* manager's use, and stays the manager's until it is given back.
THEOREM Refinement == Spec => SupplySpec
<1>1. Init => Supply!Init
  <2> SUFFICES ASSUME Init PROVE Supply!Init
    OBVIOUS
  <2>1. IInv /\ Running /\ owned = Roots
    BY InitInvariant DEF Init, Running
  <2> QED BY <2>1, AvailFacts DEF Supply!Init, Avail
<1>2. ASSUME IInv, [Next]_vars PROVE [Supply!Next]_<<owned, Avail>>
  <2>1. CASE Allocate
    <3> DEFINE n == NextId(pager)
    <3>1. /\ Running /\ n < MaxPages /\ pager' = Allocated(pager, "slotted") /\ owned' = owned \cup {n}
      BY <2>1 DEF Allocate
    <3>2. /\ pager \in Pagers /\ "slotted" \in Kinds /\ pager.free \in Seq(Ids) /\ MaxPages \in Nat
          /\ pager.nextPageId \in 0..MaxPages /\ IsInjective(pager.free)
          /\ ToSet(pager.free) \subseteq 0 .. pager.nextPageId - 1
      BY <1>2, <3>1, AvailFacts, FreelistAssumption DEF IInv, Typed, Kinds
    <3>3. /\ pager'.free = (IF pager.free = <<>> THEN <<>> ELSE Tail(pager.free))
          /\ pager'.nextPageId = (IF pager.free = <<>> THEN pager.nextPageId + 1 ELSE pager.nextPageId)
      BY <3>1, <3>2, AllocatedIs
    <3>4. n \in Avail /\ Avail' = Avail \ {n}
      <4>1. CASE pager.free = <<>>
        <5>1. n = pager.nextPageId /\ ToSet(<<>>) = {} /\ pager'.free = <<>>
              /\ pager'.nextPageId = pager.nextPageId + 1
          BY <3>3, <4>1 DEF NextId, ToSet
        <5>2. /\ pager.nextPageId \in pager.nextPageId .. MaxPages - 1
              /\ (pager.nextPageId + 1) .. MaxPages - 1
                   = (pager.nextPageId .. MaxPages - 1) \ {pager.nextPageId}
          BY <3>1, <3>2, <5>1
        <5> HIDE DEF n
        <5> QED BY <4>1, <5>1, <5>2 DEF Avail
      <4>2. CASE pager.free # <<>>
        <5>1. /\ n = Head(pager.free) /\ pager'.free = Tail(pager.free)
              /\ pager'.nextPageId = pager.nextPageId
          BY <3>3, <4>2 DEF NextId
        <5>2. ToSet(pager.free) = {n} \cup ToSet(Tail(pager.free)) /\ n \notin ToSet(Tail(pager.free))
          BY <3>2, <4>2, <5>1, HeadTail
        <5>3. n \notin pager.nextPageId .. MaxPages - 1
          <6>1. n \in 0 .. pager.nextPageId - 1
            BY <3>2, <5>2
          <6> QED BY <3>2, <6>1
        <5> HIDE DEF n
        <5> QED BY <5>1, <5>2, <5>3 DEF Avail
      <4> QED BY <4>1, <4>2
    <3> QED BY <3>1, <3>4 DEF Supply!Next, Supply!Take, Avail
  <2>2. ASSUME NEW id \in Ids, Free(id) PROVE Supply!Give
    <3>1. /\ Running /\ id \in owned \ Roots /\ pager' = Released(pager, id) /\ owned' = owned \ {id}
      BY <2>2 DEF Free
    <3>2. pager \in Pagers /\ pager.free \in Seq(Ids)
      BY <1>2, <3>1, AvailFacts DEF IInv, Typed
    <3>3. pager'.free = Append(pager.free, id) /\ pager'.nextPageId = pager.nextPageId
      BY <3>1, <3>2, ReleasedIs
    <3>4. ToSet(pager'.free) = ToSet(pager.free) \cup {id}
      BY <3>2, <3>3, AppendFacts
    <3>5. Avail' = Avail \cup {id}
      BY <3>3, <3>4 DEF Avail
    <3> QED BY <3>1, <3>5 DEF Supply!Give, Avail
  <2>3. ASSUME NEW id \in Ids, Evict(id) PROVE UNCHANGED <<owned, Avail>>
    <3>1. Running /\ pager \in Pagers /\ owned' = owned
      BY <1>2, <2>3 DEF Evict, IInv, Typed
    <3>2. pager'.free = pager.free /\ pager'.nextPageId = pager.nextPageId
      BY <2>3, <3>1 DEF Evict, Pagers
    <3> QED BY <3>1, <3>2 DEF Avail
  <2>4. CASE Commit
    <3>1. Running /\ owned' = owned
      BY <2>4 DEF Commit
    <3>2. /\ pager'.nextPageId = pager.nextPageId
          /\ ToSet(pager'.free) \in SUBSET (ToSet(pager.free) \cup ({pager.root} \ {NoPage}))
      BY <1>2, <2>4, CommitInvariant
    <3>3. Avail \in SUBSET (Ids \ owned) /\ ({pager.root} \ {NoPage}) \in SUBSET (Ids \ owned)
      BY <1>2, <3>1, AvailFacts
    <3>4. Avail' \in SUBSET (Ids \ owned)
      BY <3>2, <3>3 DEF Avail
    <3> QED BY <3>1, <3>4 DEF Supply!Next, Supply!Housekeeping, Avail
  <2>5. CASE Reopen
    <3>1. Running /\ owned' = owned
      BY <2>5 DEF Reopen
    <3>2. pager'.nextPageId = pager.nextPageId /\ ToSet(pager'.free) \in SUBSET ToSet(pager.free)
      BY <1>2, <2>5, ReopenInvariant
    <3>3. Avail \in SUBSET (Ids \ owned)
      BY <1>2, <3>1, AvailFacts
    <3>4. Avail' \in SUBSET (Ids \ owned)
      BY <3>2, <3>3 DEF Avail
    <3> QED BY <3>1, <3>4 DEF Supply!Next, Supply!Housekeeping, Avail
  <2>6. CASE OpenFails \/ UNCHANGED vars
    BY <2>6 DEF OpenFails, vars, Avail
  <2> QED BY <1>2, <2>1, <2>2, <2>3, <2>4, <2>5, <2>6 DEF Next, Supply!Next
<1>3. [Next]_vars /\ IInv => [Supply!Next]_<<owned, ToSet(pager.free) \cup (pager.nextPageId .. MaxPages - 1)>>
  BY <1>2 DEF Avail
<1> QED BY <1>1, <1>3, Invariance, PTL DEF Spec, SupplySpec, Supply!Spec

=============================================================================
